----------------------------- MODULE HubPromise -----------------------------
(***************************************************************************)
(* What the documentation promises about the hub registers: firmware may   *)
(* latch MR11 and the kernel driver may select pages, but the fix changes  *)
(* MR11 only from 0x08 to 0x00 and leaves MR12 alone.                      *)
(***************************************************************************)
EXTENDS Naturals

CONSTANT Hubs

VARIABLES mr11, mr12

promiseVars == <<mr11, mr12>>

Init ==
  /\ mr11 \in [Hubs -> {0, 8}]
  /\ mr12 = [h \in Hubs |-> "intact"]

FirmwareLatches(h) == mr11[h] # 8 /\ mr11' = [mr11 EXCEPT ![h] = 8]

KernelSelectsPage(h) ==
  /\ mr11[h] # 8
  /\ \E page \in {0, 1} : mr11' = [mr11 EXCEPT ![h] = page]

FixClears(h) == mr11[h] = 8 /\ mr11' = [mr11 EXCEPT ![h] = 0]

Next ==
  /\ \E h \in Hubs : FirmwareLatches(h) \/ KernelSelectsPage(h) \/ FixClears(h)
  /\ UNCHANGED mr12

Spec == Init /\ [][Next]_promiseVars
=============================================================================
