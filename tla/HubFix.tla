------------------------------- MODULE HubFix -------------------------------
(***************************************************************************)
(* The in-band fix of crates/am5-spd-diag/src/i2c.rs: probe_hubs reads     *)
(* MR11 of every SPD5118 hub the kernel knows, recover_stuck writes 0x0000 *)
(* to the hubs that read 0x08 and verifies each of them.                   *)
(*                                                                         *)
(* Several fixes may run at once (the window's Fix button, the CLI, a      *)
(* second shell): nothing in the code serialises them, so every SMBus      *)
(* transfer is a step of its own.  The hub, the firmware that latches it   *)
(* and the kernel driver that selects pages are the environment.           *)
(***************************************************************************)
EXTENDS Naturals, FiniteSets

CONSTANTS
  Hubs,         \* hub positions, ordered as targets.sort_by_key((bus, addr))
  Fixers,       \* processes running recover_stuck
  Clients,      \* hubs enumerated as spd5118 clients under /sys/bus/i2c
  OnSmbus,      \* hubs whose bus passes is_smbus_adapter
  DevNodes,     \* hubs whose bus has a /dev/i2c-N node
  Unreliable,   \* hubs whose transfers may fail or lie about their effect
  MaxLatches    \* bound: how often firmware may latch a hub

ASSUME HubsAssumption == Hubs \subseteq Nat
ASSUME TopologyAssumption ==
  /\ Clients \subseteq Hubs
  /\ OnSmbus \subseteq Hubs
  /\ DevNodes \subseteq Hubs
  /\ Unreliable \subseteq Hubs
ASSUME BoundAssumption == MaxLatches \in Nat

Page0   == 0      \* MR11 = 0x00: one-byte addressing, page 0
PageN   == 1      \* any other page select of the kernel driver
Latched == 8      \* STUCK_MR11: legacy two-byte addressing, bit 3

NoByte  == 256    \* what a read returns when every method failed

Mr11    == {Page0, PageN, Latched}
Methods == {"ioctl", "i2cset", "i2cset_force"}
Reasons == {"none", "ok", "verify_failed", "no_stuck_hub"}
Steps   == {"idle", "probe", "write", "verify", "done", "killed"}

VARIABLES
  mr11,       \* [Hubs -> Mr11]: the register of each hub
  mr12,       \* [Hubs -> {"intact", "zeroed"}]: its neighbour register
  dmesg,      \* hubs the kernel log reports as stuck (dmesg_stuck)
  latches,    \* how often firmware latched a hub so far
  pc,         \* [Fixers -> Steps]
  todo,       \* [Fixers -> SUBSET Hubs]: targets, then eligible hubs, left
  stuck,      \* [Fixers -> SUBSET Hubs]: probe["stuck"]
  method,     \* [Fixers -> Methods]: write method about to be tried
  wrote,      \* [Fixers -> BOOLEAN]: wrote of the hub being handled
  okAll,      \* [Fixers -> BOOLEAN]: ok_all
  reason,     \* [Fixers -> Reasons]: result["reason"], "none" while running
  landed,     \* history: writes that reached a hub, with the MR11 they found
  tried,      \* history: [Fixers -> SUBSET Hubs] hubs a fix tried to write
  sinceClear  \* history: [Fixers -> SUBSET Hubs] hubs that have been at 0x00
              \* at some moment after that fix probed them

hubVars     == <<mr11, mr12>>
envVars     == <<dmesg, latches>>
fixVars     == <<pc, todo, stuck, method, wrote, okAll, reason>>
historyVars == <<landed, tried, sinceClear>>
vars        == <<hubVars, envVars, fixVars, historyVars>>

Landing == [by : Fixers, hub : Hubs, found : Mr11]

TypeOK ==
  /\ mr11 \in [Hubs -> Mr11]
  /\ mr12 \in [Hubs -> {"intact", "zeroed"}]
  /\ dmesg \subseteq Hubs
  /\ latches \in 0..MaxLatches
  /\ pc \in [Fixers -> Steps]
  /\ todo \in [Fixers -> SUBSET Hubs]
  /\ stuck \in [Fixers -> SUBSET Hubs]
  /\ method \in [Fixers -> Methods]
  /\ wrote \in [Fixers -> BOOLEAN]
  /\ okAll \in [Fixers -> BOOLEAN]
  /\ reason \in [Fixers -> Reasons]
  /\ landed \subseteq Landing
  /\ tried \in [Fixers -> SUBSET Hubs]
  /\ sinceClear \in [Fixers -> SUBSET Hubs]

Init ==
  /\ mr11 \in [Hubs -> {Page0, Latched}]
  /\ mr12 = [h \in Hubs |-> "intact"]
  /\ dmesg = {}
  /\ latches = 0
  /\ pc = [p \in Fixers |-> "idle"]
  /\ todo = [p \in Fixers |-> {}]
  /\ stuck = [p \in Fixers |-> {}]
  /\ method = [p \in Fixers |-> "ioctl"]
  /\ wrote = [p \in Fixers |-> FALSE]
  /\ okAll = [p \in Fixers |-> TRUE]
  /\ reason = [p \in Fixers |-> "none"]
  /\ landed = {}
  /\ tried = [p \in Fixers |-> {}]
  /\ sinceClear = [p \in Fixers |-> {}]

-----------------------------------------------------------------------------
(* The environment. *)

\* Firmware (S3 resume, POST) leaves an unmasked page number in MR11.
FirmwareLatches(h) ==
  /\ latches < MaxLatches
  /\ mr11[h] # Latched
  /\ mr11' = [mr11 EXCEPT ![h] = Latched]
  /\ latches' = latches + 1
  /\ UNCHANGED <<mr12, dmesg, fixVars, historyVars>>

\* The kernel driver selects a page; a latched hub ignores the select.
KernelSelectsPage(h) ==
  /\ mr11[h] # Latched
  /\ \E page \in {Page0, PageN} \ {mr11[h]} :
       /\ mr11' = [mr11 EXCEPT ![h] = page]
       /\ sinceClear' = [p \in Fixers |-> IF page = Page0
                                          THEN sinceClear[p] \union {h}
                                          ELSE sinceClear[p]]
  /\ UNCHANGED <<mr12, envVars, fixVars, landed, tried>>

\* "Adapter does not support 16-bit register addresses" enters the kernel log.
DriverReportsStuck(h) ==
  /\ mr11[h] = Latched
  /\ h \notin dmesg
  /\ dmesg' = dmesg \union {h}
  /\ UNCHANGED <<hubVars, latches, fixVars, historyVars>>

-----------------------------------------------------------------------------
(* The fix. *)

\* h is the next hub of S in (bus, addr) order.
First(h, S) == h \in S /\ \A g \in S : h <= g

\* spd_hub_targets: kernel clients and the IDs dmesg names, SMBus adapters only.
Targets(reported) == (Clients \union reported) \intersect OnSmbus

\* The values one read of MR11 may yield; NoByte when every method failed.
ReadsOf(h) ==
  {mr11[h]} \union (IF h \in Unreliable THEN {NoByte} ELSE {})

\* recover_stuck(None): probe_hubs reads dmesg and lists its targets.
StartFix(p) ==
  /\ pc[p] = "idle"
  /\ pc' = [pc EXCEPT ![p] = "probe"]
  /\ todo' = [todo EXCEPT ![p] = Targets(dmesg)]
  /\ UNCHANGED <<hubVars, envVars, stuck, method, wrote, okAll, reason,
                 historyVars>>

\* One target of probe_hubs: no node, a failed read, or a value.
ProbeHub(p) ==
  /\ pc[p] = "probe"
  /\ \E h \in todo[p] :
       /\ First(h, todo[p])
       /\ todo' = [todo EXCEPT ![p] = @ \ {h}]
       /\ sinceClear' = [sinceClear EXCEPT ![p] = @ \ {h}]
       /\ \E v \in ReadsOf(h) :
            stuck' = IF h \in DevNodes /\ v = Latched
                     THEN [stuck EXCEPT ![p] = @ \union {h}]
                     ELSE stuck
  /\ UNCHANGED <<hubVars, envVars, pc, method, wrote, okAll, reason,
                 landed, tried>>

\* MUTANT: write every target, stuck or not.
EligibleAllTargets(p) == Targets(dmesg)

\* recover_stuck filters the rows by adapter once more.
Eligible(p) == stuck[p] \intersect OnSmbus

\* No eligible hub: recover_stuck returns early.
NoStuckHub(p) ==
  /\ pc[p] = "probe"
  /\ todo[p] = {}
  /\ Eligible(p) = {}
  /\ pc' = [pc EXCEPT ![p] = "done"]
  /\ reason' = [reason EXCEPT ![p] = "no_stuck_hub"]
  /\ UNCHANGED <<hubVars, envVars, todo, stuck, method, wrote, okAll,
                 historyVars>>

BeginWrites(p) ==
  /\ pc[p] = "probe"
  /\ todo[p] = {}
  /\ Eligible(p) # {}
  /\ pc' = [pc EXCEPT ![p] = "write"]
  /\ todo' = [todo EXCEPT ![p] = Eligible(p)]
  /\ UNCHANGED <<hubVars, envVars, stuck, method, wrote, okAll, reason,
                 historyVars>>

\* The word 0x0000 at command 0x0B reaches the hub.  A latched hub takes it as
\* one byte for MR11; a hub in one-byte mode takes 0x00 for MR11 and, by
\* auto-increment, 0x00 for MR12.
Land(p, h) ==
  /\ mr11' = [mr11 EXCEPT ![h] = Page0]
  /\ mr12' = IF mr11[h] = Latched THEN mr12 ELSE [mr12 EXCEPT ![h] = "zeroed"]
  /\ landed' = landed \union {[by |-> p, hub |-> h, found |-> mr11[h]]}
  /\ sinceClear' = [q \in Fixers |-> sinceClear[q] \union {h}]

\* A write attempt may reach the hub or not, and be reported as done or not.
WriteOutcomes(h) ==
  IF h \in Unreliable THEN [lands : BOOLEAN, acked : BOOLEAN]
                      ELSE {[lands |-> TRUE, acked |-> TRUE]}

\* MUTANT: keep trying the unforced i2cset.
NextMethodForever(m) == "i2cset"

\* MUTANT: run off the end of the list of methods.
NextMethodNone(m) == IF m = "ioctl" THEN "i2cset" ELSE "none"

NextMethod(m) == IF m = "ioctl" THEN "i2cset" ELSE "i2cset_force"

\* smbus_write_word, then i2cset, then i2cset -f: the first reported success
\* ends the attempts.
Attempt(p, h, outcome) ==
  /\ \/ outcome.lands /\ Land(p, h)
     \/ ~outcome.lands /\ UNCHANGED <<hubVars, landed, sinceClear>>
  /\ tried' = [tried EXCEPT ![p] = @ \union {h}]
  /\ wrote' = [wrote EXCEPT ![p] = outcome.acked]
  /\ \/ /\ outcome.acked \/ method[p] = "i2cset_force"
        /\ pc' = [pc EXCEPT ![p] = "verify"]
        /\ method' = [method EXCEPT ![p] = "ioctl"]
     \/ /\ ~outcome.acked /\ method[p] # "i2cset_force"
        /\ method' = [method EXCEPT ![p] = NextMethod(@)]
        /\ UNCHANGED pc

WriteAttempt(p) ==
  /\ pc[p] = "write"
  /\ \E h \in todo[p] :
       /\ First(h, todo[p])
       /\ \E outcome \in WriteOutcomes(h) : Attempt(p, h, outcome)
  /\ UNCHANGED <<envVars, todo, stuck, okAll, reason>>

\* MUTANT: trust the acknowledged write and skip the verify read.
HubClearedUnverified(p, v) == wrote[p]

\* wrote && cleared, the contribution of one hub to ok_all.
HubCleared(p, v) == wrote[p] /\ v = Page0

\* MUTANT: give up on the first hub that refuses the write.
LoopDoneOnFailure(p, h) == todo[p] = {h} \/ ~wrote[p]

\* No eligible hub is left after h.
LoopDone(p, h) == todo[p] = {h}

\* The verify read of the hub just written, and the loop to the next hub.
Verify(p) ==
  /\ pc[p] = "verify"
  /\ \E h \in todo[p] :
       /\ First(h, todo[p])
       /\ todo' = [todo EXCEPT ![p] = @ \ {h}]
       /\ \E v \in ReadsOf(h) :
            okAll' = [okAll EXCEPT ![p] = @ /\ HubCleared(p, v)]
       /\ pc' = [pc EXCEPT ![p] = IF LoopDone(p, h) THEN "done" ELSE "write"]
       /\ reason' = IF ~LoopDone(p, h) THEN reason
                    ELSE [reason EXCEPT ![p] = IF okAll'[p] THEN "ok"
                                               ELSE "verify_failed"]
  /\ UNCHANGED <<hubVars, envVars, stuck, method, wrote, historyVars>>

\* Ctrl-C, a closed session or a crash: the process ends between two transfers.
Killed(p) ==
  /\ pc[p] \in {"probe", "write", "verify"}
  /\ pc' = [pc EXCEPT ![p] = "killed"]
  /\ UNCHANGED <<hubVars, envVars, todo, stuck, method, wrote, okAll, reason,
                 historyVars>>

FixStep(p) ==
  \/ ProbeHub(p)
  \/ NoStuckHub(p)
  \/ BeginWrites(p)
  \/ WriteAttempt(p)
  \/ Verify(p)

Environment ==
  \E h \in Hubs :
    \/ FirmwareLatches(h)
    \/ KernelSelectsPage(h)
    \/ DriverReportsStuck(h)

Next ==
  \/ Environment
  \/ \E p \in Fixers : StartFix(p) \/ FixStep(p) \/ Killed(p)

Spec == Init /\ [][Next]_vars

\* A fix that was started keeps being scheduled until it ends or is killed;
\* nobody is obliged to start one.
FairSpec == Spec /\ \A p \in Fixers : WF_vars(FixStep(p))

-----------------------------------------------------------------------------
(* Safety. *)

(***************************************************************************)
(* A fix writes only hubs that its own probe read as 0x08, and only on     *)
(* SMBus adapters, however the log, the firmware and other fixes change    *)
(* meanwhile (recover_stuck's eligible list).                              *)
(***************************************************************************)
WritesProbedHubsOnly ==
  \A w \in landed : w.hub \in stuck[w.by] \intersect OnSmbus

(***************************************************************************)
(* ok is never claimed for a hub that stayed latched: every hub the fix    *)
(* found stuck has really been at 0x00 since the fix probed it, even when  *)
(* transfers lie about their effect.                                       *)
(***************************************************************************)
OkMeansCleared ==
  \A p \in Fixers :
    reason[p] = "ok" => Eligible(p) # {} /\ Eligible(p) \subseteq sinceClear[p]

(***************************************************************************)
(* One hub that fails does not cost the others their chance: a fix that    *)
(* ends with a verdict has tried every hub it found eligible, and no other.*)
(***************************************************************************)
EveryEligibleHubTried ==
  \A p \in Fixers :
    reason[p] \in {"ok", "verify_failed"} => tried[p] = Eligible(p)

(***************************************************************************)
(* What SECURITY.md and README.md promise: the write happens only while    *)
(* MR11 reads 0x08, so MR12 behind it is never touched.                    *)
(***************************************************************************)
WritesOnlyLatched == \A w \in landed : w.found = Latched

Reliable == Hubs \ Unreliable

\* The same promise as a specification, for the hubs whose transfers do what
\* they report: MR11 as fix is allowed to change it.
Promise == INSTANCE HubPromise WITH
             Hubs <- Reliable,
             mr11 <- [h \in Reliable |-> mr11[h]],
             mr12 <- [h \in Reliable |-> mr12[h]]

(***************************************************************************)
(* A fix that has the bus to itself keeps the promise on every reliable    *)
(* hub, whatever happens on the others: each of its steps is a clear of a  *)
(* latched hub or changes no register.                                     *)
(***************************************************************************)
KeepsPromise == Promise!Spec

-----------------------------------------------------------------------------
(* Liveness, under FairSpec. *)

(***************************************************************************)
(* A started fix ends: the three write methods per hub and the hub list    *)
(* are finite, whatever the transfers do.                                  *)
(***************************************************************************)
FixTerminates ==
  \A p \in Fixers : pc[p] = "probe" ~> pc[p] \in {"done", "killed"}

(***************************************************************************)
(* Unless it is killed, a fix gets every reliable hub it found stuck to    *)
(* 0x00, even when an unreliable hub comes first.                          *)
(***************************************************************************)
ReliableHubsCleared ==
  \A p \in Fixers : \A h \in Hubs \ Unreliable :
    h \in Eligible(p) ~> h \in sinceClear[p] \/ pc[p] = "killed"
=============================================================================
