---------------------------- MODULE HubFixProofs ----------------------------
(***************************************************************************)
(* Proofs about HubFix, for every set of hubs and fixes and every topology *)
(* the assumptions of HubFix allow.                                        *)
(***************************************************************************)
EXTENDS HubFix, TLAPS

\* A write attempt's outcome is a pair of truth values, whatever the hub.
LEMMA OutcomeType ==
  ASSUME NEW h \in Hubs
  PROVE  WriteOutcomes(h) \subseteq [lands : BOOLEAN, acked : BOOLEAN]
<1>1. [lands |-> TRUE, acked |-> TRUE] \in [lands : BOOLEAN, acked : BOOLEAN]
  OBVIOUS
<1>2. CASE h \in Unreliable
  BY <1>2, Zenon DEF WriteOutcomes
<1>3. CASE h \notin Unreliable
  BY <1>1, <1>3, Zenon DEF WriteOutcomes
<1>. QED  BY <1>2, <1>3

(***************************************************************************)
(* Every variable keeps its type, so MR11 of a hub is always one of the    *)
(* three values recover_stuck and the driver can leave there.              *)
(***************************************************************************)
THEOREM TypeCorrect == Spec => []TypeOK
<1>1. Init => TypeOK
  BY BoundAssumption DEF Init, TypeOK, Mr11, Methods, Reasons, Steps
<1>2. TypeOK /\ [Next]_vars => TypeOK'
  <2> SUFFICES ASSUME TypeOK, [Next]_vars
               PROVE  TypeOK'
    OBVIOUS
  <2> USE TopologyAssumption, BoundAssumption
      DEF TypeOK, Mr11, Methods, Reasons, Steps
  <2>1. ASSUME NEW h \in Hubs, FirmwareLatches(h)
        PROVE  TypeOK'
    BY <2>1 DEF FirmwareLatches, fixVars, historyVars
  <2>2. ASSUME NEW h \in Hubs, KernelSelectsPage(h)
        PROVE  TypeOK'
    BY <2>2 DEF KernelSelectsPage, envVars, fixVars
  <2>3. ASSUME NEW h \in Hubs, DriverReportsStuck(h)
        PROVE  TypeOK'
    BY <2>3 DEF DriverReportsStuck, hubVars, fixVars, historyVars
  <2>4. ASSUME NEW p \in Fixers, StartFix(p)
        PROVE  TypeOK'
    BY <2>4 DEF StartFix, Targets, hubVars, envVars, historyVars
  <2>5. ASSUME NEW p \in Fixers, ProbeHub(p)
        PROVE  TypeOK'
    BY <2>5 DEF ProbeHub, hubVars, envVars
  <2>6. ASSUME NEW p \in Fixers, NoStuckHub(p)
        PROVE  TypeOK'
    BY <2>6 DEF NoStuckHub, hubVars, envVars, historyVars
  <2>7. ASSUME NEW p \in Fixers, BeginWrites(p)
        PROVE  TypeOK'
    BY <2>7 DEF BeginWrites, Eligible, hubVars, envVars, historyVars
  <2>8. ASSUME NEW p \in Fixers, WriteAttempt(p)
        PROVE  TypeOK'
    <3>1. PICK h \in todo[p] : \E outcome \in WriteOutcomes(h) : Attempt(p, h, outcome)
      BY <2>8 DEF WriteAttempt
    <3>2. PICK outcome \in WriteOutcomes(h) : Attempt(p, h, outcome)
      BY <3>1
    <3>3. h \in Hubs
      BY <3>1
    <3>4. outcome \in [lands : BOOLEAN, acked : BOOLEAN]
      BY <3>2, OutcomeType
    <3>5. /\ mr11' \in [Hubs -> Mr11]
          /\ mr12' \in [Hubs -> {"intact", "zeroed"}]
          /\ landed' \subseteq Landing
          /\ sinceClear' \in [Fixers -> SUBSET Hubs]
      BY <3>2, <3>3 DEF Attempt, Land, Landing, hubVars
    <3>6. /\ pc' \in [Fixers -> Steps]
          /\ method' \in [Fixers -> Methods]
      BY <3>2 DEF Attempt, NextMethod
    <3>7. /\ tried' \in [Fixers -> SUBSET Hubs]
          /\ wrote' \in [Fixers -> BOOLEAN]
      BY <3>2, <3>3, <3>4, Zenon DEF Attempt
    <3>8. UNCHANGED <<envVars, todo, stuck, okAll, reason>>
      BY <2>8 DEF WriteAttempt
    <3>. QED  BY <3>5, <3>6, <3>7, <3>8 DEF envVars
  <2>9. ASSUME NEW p \in Fixers, Verify(p)
        PROVE  TypeOK'
    <3>1. okAll' \in [Fixers -> BOOLEAN]
      BY <2>9, Zenon DEF Verify
    <3>. QED  BY <2>9, <3>1 DEF Verify, hubVars, envVars, historyVars
  <2>10. ASSUME NEW p \in Fixers, Killed(p)
         PROVE  TypeOK'
    BY <2>10 DEF Killed, hubVars, envVars, historyVars
  <2>11. CASE UNCHANGED vars
    BY <2>11 DEF vars, hubVars, envVars, fixVars, historyVars
  <2>. QED
    BY <2>1, <2>2, <2>3, <2>4, <2>5, <2>6, <2>7, <2>8, <2>9, <2>10, <2>11
    DEF Next, Environment, FixStep
<1>. QED  BY <1>1, <1>2, PTL DEF Spec

-----------------------------------------------------------------------------
(***************************************************************************)
(* The inductive invariant behind the safety properties.  What a fix has   *)
(* done is tied to what it still has to do: tried and cleared hubs are the *)
(* eligible ones no longer in todo, and a hub found stuck can only read    *)
(* 0x00 because it was cleared after the probe.                            *)
(***************************************************************************)
NotYetWriting(p) ==
  /\ pc[p] = "idle" => stuck[p] = {}
  /\ pc[p] \in {"idle", "probe"} =>
       /\ tried[p] = {}
       /\ todo[p] \intersect stuck[p] = {}
       /\ okAll[p] = TRUE

Writing(p) ==
  pc[p] \in {"write", "verify"} =>
    /\ todo[p] # {}
    /\ todo[p] \subseteq Eligible(p)
    /\ Eligible(p) \ todo[p] \subseteq tried[p]
    /\ okAll[p] = TRUE => Eligible(p) \ todo[p] \subseteq sinceClear[p]

Verifying(p) ==
  pc[p] = "verify" => \A h \in todo[p] : First(h, todo[p]) => h \in tried[p]

Concluded(p) ==
  /\ pc[p] # "done" => reason[p] = "none"
  /\ reason[p] \in {"ok", "verify_failed"} => tried[p] = Eligible(p)
  /\ reason[p] = "ok" => Eligible(p) # {} /\ Eligible(p) \subseteq sinceClear[p]

PerFix(p) ==
  /\ NotYetWriting(p)
  /\ Writing(p)
  /\ Verifying(p)
  /\ Concluded(p)
  /\ tried[p] \subseteq Eligible(p)
  /\ \A h \in stuck[p] : mr11[h] = Page0 => h \in sinceClear[p]

FixInv ==
  /\ \A p \in Fixers : PerFix(p)
  /\ WritesProbedHubsOnly

\* A step that leaves fix p alone and only adds to its sinceClear whatever
\* became 0x00 keeps the invariant of p.
LEMMA OtherFix ==
  ASSUME TypeOK, NEW p \in Fixers, PerFix(p),
         pc'[p] = pc[p], todo'[p] = todo[p], stuck'[p] = stuck[p],
         okAll'[p] = okAll[p], reason'[p] = reason[p], tried'[p] = tried[p],
         sinceClear[p] \subseteq sinceClear'[p],
         \A h \in stuck[p] :
            mr11'[h] = Page0 => mr11[h] = Page0 \/ h \in sinceClear'[p]
  PROVE  PerFix(p)'
<1> USE DEF PerFix
<1>1. NotYetWriting(p)'
  BY DEF NotYetWriting
<1>2. Writing(p)'
  BY DEF Writing, Eligible
<1>3. Verifying(p)'
  BY DEF Verifying, First
<1>4. Concluded(p)'
  BY DEF Concluded, Eligible
<1>5. tried'[p] \subseteq Eligible(p)'
  BY DEF Eligible
<1>6. \A h \in stuck'[p] : mr11'[h] = Page0 => h \in sinceClear'[p]
  OBVIOUS
<1>. QED  BY <1>1, <1>2, <1>3, <1>4, <1>5, <1>6

\* Among the positions of a set that are smallest there is only one.
LEMMA FirstUnique ==
  ASSUME NEW S \in SUBSET Hubs, NEW g \in S, NEW h \in S, First(g, S), First(h, S)
  PROVE  g = h
BY HubsAssumption DEF First

LEMMA InductiveStep ==
  ASSUME TypeOK, TypeOK', FixInv, [Next]_vars
  PROVE  FixInv'
<1> USE TopologyAssumption
<1>2. \A p \in Fixers : PerFix(p)
  BY Zenon DEF FixInv
<1>3. WritesProbedHubsOnly
  BY DEF FixInv
<1>4. ASSUME NEW h \in Hubs, FirmwareLatches(h)
      PROVE  FixInv'
  <2>1. ASSUME NEW p \in Fixers
        PROVE  PerFix(p)'
    BY <1>2, <1>4, <2>1, OtherFix
    DEF FirmwareLatches, fixVars, historyVars, TypeOK, Page0, Latched
  <2>2. WritesProbedHubsOnly'
    BY <1>3, <1>4 DEF FirmwareLatches, fixVars, historyVars, WritesProbedHubsOnly
  <2>. QED  BY <2>1, <2>2 DEF FixInv
<1>5. ASSUME NEW h \in Hubs, KernelSelectsPage(h)
      PROVE  FixInv'
  <2>1. ASSUME NEW p \in Fixers
        PROVE  PerFix(p)'
    BY <1>2, <1>5, <2>1, OtherFix
    DEF KernelSelectsPage, fixVars, TypeOK
  <2>2. WritesProbedHubsOnly'
    BY <1>3, <1>5 DEF KernelSelectsPage, fixVars, WritesProbedHubsOnly
  <2>. QED  BY <2>1, <2>2 DEF FixInv
<1>6. ASSUME NEW h \in Hubs, DriverReportsStuck(h)
      PROVE  FixInv'
  <2>1. ASSUME NEW p \in Fixers
        PROVE  PerFix(p)'
    BY <1>2, <1>6, <2>1, OtherFix
    DEF DriverReportsStuck, hubVars, fixVars, historyVars
  <2>2. WritesProbedHubsOnly'
    BY <1>3, <1>6 DEF DriverReportsStuck, fixVars, historyVars, WritesProbedHubsOnly
  <2>. QED  BY <2>1, <2>2 DEF FixInv
<1>7. ASSUME NEW p \in Fixers, StartFix(p)
      PROVE  FixInv'
  <2>1. ASSUME NEW q \in Fixers, q # p
        PROVE  PerFix(q)'
    BY <1>2, <1>7, <2>1, OtherFix DEF StartFix, hubVars, historyVars, TypeOK
  <2>2. PerFix(p)'
    BY <1>2, <1>7
    DEF StartFix, hubVars, historyVars, TypeOK, PerFix, NotYetWriting, Writing,
        Verifying, Concluded, Eligible
  <2>3. WritesProbedHubsOnly'
    BY <1>3, <1>7 DEF StartFix, historyVars, WritesProbedHubsOnly
  <2>. QED  BY <2>1, <2>2, <2>3 DEF FixInv
<1>8. ASSUME NEW p \in Fixers, ProbeHub(p)
      PROVE  FixInv'
  <2>1. ASSUME NEW q \in Fixers, q # p
        PROVE  PerFix(q)'
    BY <1>2, <1>8, <2>1, OtherFix DEF ProbeHub, hubVars, TypeOK
  <2>2. PerFix(p)'
    <3>1. PICK h \in todo[p] :
            /\ todo' = [todo EXCEPT ![p] = @ \ {h}]
            /\ sinceClear' = [sinceClear EXCEPT ![p] = @ \ {h}]
            /\ \E v \in ReadsOf(h) :
                 stuck' = IF h \in DevNodes /\ v = Latched
                          THEN [stuck EXCEPT ![p] = @ \union {h}]
                          ELSE stuck
      BY <1>8, Zenon DEF ProbeHub
    <3>2. \/ stuck' = [stuck EXCEPT ![p] = @ \union {h}] /\ mr11[h] = Latched
          \/ stuck' = stuck
      BY <3>1 DEF ReadsOf, NoByte, Latched
    <3>3. /\ pc[p] = "probe"
          /\ UNCHANGED <<mr11, pc, okAll, reason, tried>>
      BY <1>8 DEF ProbeHub, hubVars
    <3>4. PerFix(p)
      BY <1>2
    <3>5. tried[p] = {} /\ reason[p] = "none" /\ h \notin stuck[p]
      BY <3>1, <3>3, <3>4 DEF PerFix, NotYetWriting, Concluded
    <3>6. NotYetWriting(p)'
      BY <3>1, <3>2, <3>3, <3>4 DEF PerFix, NotYetWriting, TypeOK
    <3>7. Writing(p)' /\ Verifying(p)'
      BY <3>3 DEF Writing, Verifying
    <3>8. Concluded(p)' /\ tried'[p] \subseteq Eligible(p)'
      BY <3>3, <3>5 DEF Concluded
    <3>9. \A g \in stuck'[p] : mr11'[g] = Page0 => g \in sinceClear'[p]
      BY <3>1, <3>2, <3>3, <3>4, <3>5 DEF PerFix, TypeOK, Page0, Latched
    <3>. QED  BY <3>6, <3>7, <3>8, <3>9 DEF PerFix
  <2>3. WritesProbedHubsOnly'
    BY <1>3, <1>8 DEF ProbeHub, WritesProbedHubsOnly, Landing, TypeOK
  <2>. QED  BY <2>1, <2>2, <2>3 DEF FixInv
<1>9. ASSUME NEW p \in Fixers, NoStuckHub(p)
      PROVE  FixInv'
  <2>1. ASSUME NEW q \in Fixers, q # p
        PROVE  PerFix(q)'
    BY <1>2, <1>9, <2>1, OtherFix DEF NoStuckHub, hubVars, historyVars, TypeOK
  <2>2. PerFix(p)'
    BY <1>2, <1>9
    DEF NoStuckHub, hubVars, historyVars, TypeOK, PerFix, NotYetWriting, Writing,
        Verifying, Concluded, Eligible
  <2>3. WritesProbedHubsOnly'
    BY <1>3, <1>9 DEF NoStuckHub, historyVars, WritesProbedHubsOnly
  <2>. QED  BY <2>1, <2>2, <2>3 DEF FixInv
<1>10. ASSUME NEW p \in Fixers, BeginWrites(p)
       PROVE  FixInv'
  <2>1. ASSUME NEW q \in Fixers, q # p
        PROVE  PerFix(q)'
    BY <1>2, <1>10, <2>1, OtherFix DEF BeginWrites, hubVars, historyVars, TypeOK
  <2>2. PerFix(p)'
    BY <1>2, <1>10
    DEF BeginWrites, hubVars, historyVars, TypeOK, PerFix, NotYetWriting, Writing,
        Verifying, Concluded, Eligible
  <2>3. WritesProbedHubsOnly'
    BY <1>3, <1>10 DEF BeginWrites, historyVars, WritesProbedHubsOnly
  <2>. QED  BY <2>1, <2>2, <2>3 DEF FixInv
<1>11. ASSUME NEW p \in Fixers, WriteAttempt(p)
       PROVE  FixInv'
  <2>1. PICK h \in todo[p] :
          /\ First(h, todo[p])
          /\ \E outcome \in WriteOutcomes(h) : Attempt(p, h, outcome)
    BY <1>11 DEF WriteAttempt
  <2>2. PICK outcome \in WriteOutcomes(h) : Attempt(p, h, outcome)
    BY <2>1
  <2>3. /\ pc[p] = "write" /\ pc'[p] \in {"write", "verify"}
        /\ \A q \in Fixers : q # p => pc'[q] = pc[q]
        /\ tried'[p] = tried[p] \union {h}
        /\ \A q \in Fixers : q # p => tried'[q] = tried[q]
        /\ UNCHANGED <<todo, stuck, okAll, reason>>
    BY <1>11, <2>2 DEF WriteAttempt, Attempt, TypeOK
  <2>4. /\ \A q \in Fixers : sinceClear[q] \subseteq sinceClear'[q]
        /\ \A q \in Fixers, g \in Hubs :
              mr11'[g] = Page0 => mr11[g] = Page0 \/ g \in sinceClear'[q]
    BY <2>2 DEF Attempt, Land, TypeOK, hubVars
  <2>5. h \in Eligible(p)
    BY <1>2, <2>1, <2>3 DEF PerFix, Writing
  <2>6. ASSUME NEW q \in Fixers, q # p
        PROVE  PerFix(q)'
    BY <1>2, <2>3, <2>4, <2>6, OtherFix DEF TypeOK
  <2>7. PerFix(p)'
    <3>1. PerFix(p)
      BY <1>2
    <3>2. NotYetWriting(p)'
      BY <2>3 DEF NotYetWriting
    <3>3. Writing(p)'
      BY <3>1, <2>3, <2>4 DEF PerFix, Writing, Eligible
    <3>4. Verifying(p)'
      BY <2>1, <2>3, FirstUnique DEF Verifying, TypeOK, First
    <3>5. Concluded(p)'
      BY <3>1, <2>3 DEF PerFix, Concluded, Eligible
    <3>6. tried'[p] \subseteq Eligible(p)'
      BY <3>1, <2>3, <2>5 DEF PerFix, Eligible
    <3>7. \A g \in stuck'[p] : mr11'[g] = Page0 => g \in sinceClear'[p]
      BY <3>1, <2>3, <2>4 DEF PerFix, TypeOK
    <3>. QED  BY <3>2, <3>3, <3>4, <3>5, <3>6, <3>7 DEF PerFix
  <2>8. WritesProbedHubsOnly'
    BY <1>3, <2>2, <2>3, <2>5
    DEF Attempt, Land, WritesProbedHubsOnly, Eligible
  <2>. QED  BY <2>6, <2>7, <2>8 DEF FixInv
<1>12. ASSUME NEW p \in Fixers, Verify(p)
       PROVE  FixInv'
  <2>1. ASSUME NEW q \in Fixers, q # p
        PROVE  PerFix(q)'
    BY <1>2, <1>12, <2>1, OtherFix DEF Verify, hubVars, historyVars, TypeOK
  <2>2. PICK h \in todo[p] :
          /\ First(h, todo[p])
          /\ todo' = [todo EXCEPT ![p] = @ \ {h}]
          /\ \E v \in ReadsOf(h) :
               okAll' = [okAll EXCEPT ![p] = @ /\ HubCleared(p, v)]
          /\ pc' = [pc EXCEPT ![p] = IF LoopDone(p, h) THEN "done" ELSE "write"]
          /\ reason' = IF ~LoopDone(p, h) THEN reason
                       ELSE [reason EXCEPT ![p] = IF okAll'[p] THEN "ok"
                                                  ELSE "verify_failed"]
    BY <1>12, Zenon DEF Verify
  <2>3. /\ pc[p] = "verify" 
        /\ UNCHANGED <<mr11, stuck, landed, tried, sinceClear>>
    BY <1>12 DEF Verify, hubVars, historyVars
  <2>4. PerFix(p)
    BY <1>2
  <2>5. h \in tried[p] /\ h \in stuck[p]
    BY <2>2, <2>3, <2>4 DEF PerFix, Verifying, Writing, Eligible
  <2>6. okAll'[p] = TRUE => okAll[p] = TRUE /\ mr11[h] = Page0
    <3>1. PICK v \in ReadsOf(h) :
            okAll' = [okAll EXCEPT ![p] = @ /\ HubCleared(p, v)]
      BY <2>2
    <3>2. okAll'[p] = (okAll[p] /\ HubCleared(p, v))
      BY <3>1, Zenon DEF TypeOK
    <3>3. okAll'[p] = TRUE => okAll[p] = TRUE /\ v = Page0
      BY <3>2, Zenon DEF HubCleared, TypeOK
    <3>4. v = Page0 => mr11[h] = Page0
      BY <3>1 DEF ReadsOf, NoByte, Page0
    <3>. QED  BY <3>3, <3>4
  <2>7. okAll'[p] = TRUE => h \in sinceClear[p]
    BY <2>4, <2>5, <2>6 DEF PerFix
  <2>8. PerFix(p)'
    <3>1. NotYetWriting(p)'
      BY <2>2, <2>3 DEF NotYetWriting, TypeOK
    <3>2. Writing(p)'
      BY <2>2, <2>3, <2>4, <2>5, <2>6, <2>7
      DEF PerFix, Writing, Eligible, LoopDone, TypeOK
    <3>3. Verifying(p)'
      BY <2>2, <2>3 DEF Verifying, TypeOK
    <3>4. Concluded(p)'
      BY <2>2, <2>3, <2>4, <2>5, <2>6, <2>7
      DEF PerFix, Writing, Concluded, Eligible, LoopDone, TypeOK
    <3>5. tried'[p] \subseteq Eligible(p)'
      BY <2>3, <2>4 DEF PerFix, Eligible
    <3>6. \A g \in stuck'[p] : mr11'[g] = Page0 => g \in sinceClear'[p]
      BY <2>3, <2>4 DEF PerFix
    <3>. QED  BY <3>1, <3>2, <3>3, <3>4, <3>5, <3>6 DEF PerFix
  <2>9. WritesProbedHubsOnly'
    BY <1>3, <2>3 DEF WritesProbedHubsOnly
  <2>. QED  BY <2>1, <2>8, <2>9 DEF FixInv
<1>13. ASSUME NEW p \in Fixers, Killed(p)
       PROVE  FixInv'
  <2>1. ASSUME NEW q \in Fixers, q # p
        PROVE  PerFix(q)'
    BY <1>2, <1>13, <2>1, OtherFix DEF Killed, hubVars, historyVars, TypeOK
  <2>2. PerFix(p)'
    BY <1>2, <1>13
    DEF Killed, hubVars, historyVars, TypeOK, PerFix, NotYetWriting, Writing,
        Verifying, Concluded, Eligible
  <2>3. WritesProbedHubsOnly'
    BY <1>3, <1>13 DEF Killed, historyVars, WritesProbedHubsOnly
  <2>. QED  BY <2>1, <2>2, <2>3 DEF FixInv
<1>14. CASE UNCHANGED vars
  <2>1. ASSUME NEW q \in Fixers
        PROVE  PerFix(q)'
    BY <1>2, <1>14, <2>1, OtherFix DEF vars, hubVars, fixVars, historyVars
  <2>2. WritesProbedHubsOnly'
    BY <1>3, <1>14 DEF vars, fixVars, historyVars, WritesProbedHubsOnly
  <2>. QED  BY <2>1, <2>2 DEF FixInv
<1>. QED
  BY <1>4, <1>5, <1>6, <1>7, <1>8, <1>9, <1>10, <1>11, <1>12, <1>13, <1>14
  DEF Next, Environment, FixStep
\* The inductive invariant holds throughout.
LEMMA FixInvariant == Spec => []FixInv
<1>1. Init => FixInv
  BY DEF Init, FixInv, PerFix, NotYetWriting, Writing, Verifying, Concluded,
         Eligible, WritesProbedHubsOnly
<1>2. TypeOK /\ TypeOK' /\ FixInv /\ [Next]_vars => FixInv'
  BY InductiveStep
<1>. QED  BY <1>1, <1>2, TypeCorrect, PTL DEF Spec

(***************************************************************************)
(* Whatever runs concurrently, a fix writes only hubs its own probe read   *)
(* as 0x08 (recover_stuck's eligible list).                                *)
(***************************************************************************)
THEOREM WritesProbedHubsOnlyHolds == Spec => []WritesProbedHubsOnly
<1>1. FixInv => WritesProbedHubsOnly
  BY DEF FixInv
<1>. QED  BY <1>1, FixInvariant, PTL

(***************************************************************************)
(* A fix that reports ok found stuck hubs, and every one of them was at    *)
(* 0x00 at some moment after the probe, even if transfers lie and other    *)
(* fixes, firmware and the driver interfere.                               *)
(***************************************************************************)
THEOREM OkMeansClearedHolds == Spec => []OkMeansCleared
<1>1. FixInv => OkMeansCleared
  BY DEF FixInv, PerFix, Concluded, OkMeansCleared
<1>. QED  BY <1>1, FixInvariant, PTL

(***************************************************************************)
(* A fix with a verdict has tried exactly the hubs it found eligible, so   *)
(* no failing hub keeps the loop of recover_stuck from the next one.       *)
(***************************************************************************)
THEOREM EveryEligibleHubTriedHolds == Spec => []EveryEligibleHubTried
<1>1. FixInv => EveryEligibleHubTried
  BY DEF FixInv, PerFix, Concluded, EveryEligibleHubTried
<1>. QED  BY <1>1, FixInvariant, PTL

-----------------------------------------------------------------------------
(***************************************************************************)
(* The promise of SECURITY.md, for a fix that has the bus to itself.  What *)
(* makes it true is that a reliable hub the fix has still to write has     *)
(* stayed latched since the probe: the driver cannot select a page on it   *)
(* and no other fix is there to clear it.                                  *)
(***************************************************************************)
StillLatched(p) ==
  /\ pc[p] \in {"idle", "probe"} =>
       \A h \in stuck[p] \ Unreliable : mr11[h] = Latched
  /\ pc[p] = "write" => \A h \in todo[p] \ Unreliable : mr11[h] = Latched
  /\ pc[p] = "verify" =>
       \A h \in todo[p] \ Unreliable : First(h, todo[p]) \/ mr11[h] = Latched

SoloInv == \A p \in Fixers : StillLatched(p)

\* How the reliable hubs' part of a register array follows a change of it.
LEMMA PartOfArray ==
  ASSUME NEW S, NEW R \in SUBSET S, NEW T, NEW f \in [S -> T], NEW h \in S, NEW v
  PROVE  LET g == [f EXCEPT ![h] = v] IN
         /\ h \in R => [x \in R |-> g[x]] = [[x \in R |-> f[x]] EXCEPT ![h] = v]
         /\ h \notin R => [x \in R |-> g[x]] = [x \in R |-> f[x]]
OBVIOUS

\* The solo invariant is kept, and every step is one the promise allows.
LEMMA SoloStep ==
  ASSUME \A p, q \in Fixers : p = q, TypeOK, SoloInv, [Next]_vars
  PROVE  SoloInv' /\ [Promise!Next]_(Promise!promiseVars)
<1> USE TopologyAssumption DEF Reliable, Promise!promiseVars
<1>1. ASSUME NEW h \in Hubs, FirmwareLatches(h)
      PROVE  SoloInv' /\ [Promise!Next]_(Promise!promiseVars)
  <2>1. SoloInv'
    BY <1>1
    DEF FirmwareLatches, fixVars, SoloInv, StillLatched, First, TypeOK
  <2>2. mr11' = [mr11 EXCEPT ![h] = Latched] /\ mr12' = mr12 /\ mr11[h] # Latched
    BY <1>1 DEF FirmwareLatches
  <2>3. CASE h \in Unreliable
    BY <2>1, <2>2, <2>3, PartOfArray DEF TypeOK
  <2>4. CASE h \notin Unreliable
    <3>1. [x \in Reliable |-> mr11'[x]]
            = [[x \in Reliable |-> mr11[x]] EXCEPT ![h] = 8]
      BY <2>2, <2>4, PartOfArray DEF TypeOK, Latched
    <3>2. Promise!FirmwareLatches(h)
      BY <2>2, <2>4, <3>1 DEF Latched, Promise!FirmwareLatches
    <3>. QED  BY <2>1, <2>2, <2>4, <3>2 DEF Promise!Next
  <2>. QED  BY <2>3, <2>4
<1>2. ASSUME NEW h \in Hubs, KernelSelectsPage(h)
      PROVE  SoloInv' /\ [Promise!Next]_(Promise!promiseVars)
  <2>1. SoloInv'
    BY <1>2 DEF KernelSelectsPage, fixVars, SoloInv, StillLatched, First, TypeOK
  <2>2. PICK page \in {Page0, PageN} : mr11' = [mr11 EXCEPT ![h] = page]
    BY <1>2 DEF KernelSelectsPage
  <2>3. mr12' = mr12 /\ mr11[h] # Latched
    BY <1>2 DEF KernelSelectsPage
  <2>4. CASE h \in Unreliable
    BY <2>1, <2>2, <2>3, <2>4, PartOfArray DEF TypeOK
  <2>5. CASE h \notin Unreliable
    <3>1. [x \in Reliable |-> mr11'[x]]
            = [[x \in Reliable |-> mr11[x]] EXCEPT ![h] = page]
      BY <2>2, <2>5, PartOfArray DEF TypeOK
    <3>2. Promise!KernelSelectsPage(h)
      BY <2>3, <2>5, <3>1 DEF Latched, Page0, PageN, Promise!KernelSelectsPage
    <3>. QED  BY <2>1, <2>3, <2>5, <3>2 DEF Promise!Next
  <2>. QED  BY <2>4, <2>5
<1>3. ASSUME NEW h \in Hubs, DriverReportsStuck(h)
      PROVE  SoloInv' /\ [Promise!Next]_(Promise!promiseVars)
  BY <1>3
  DEF DriverReportsStuck, hubVars, fixVars, SoloInv, StillLatched, First
<1>4. ASSUME NEW p \in Fixers, StartFix(p)
      PROVE  SoloInv' /\ [Promise!Next]_(Promise!promiseVars)
  BY <1>4 DEF StartFix, hubVars, SoloInv, StillLatched, TypeOK
<1>5. ASSUME NEW p \in Fixers, ProbeHub(p)
      PROVE  SoloInv' /\ [Promise!Next]_(Promise!promiseVars)
  <2>1. PICK h \in todo[p] :
          \E v \in ReadsOf(h) :
             stuck' = IF h \in DevNodes /\ v = Latched
                      THEN [stuck EXCEPT ![p] = @ \union {h}]
                      ELSE stuck
    BY <1>5, Zenon DEF ProbeHub
  <2>2. \/ /\ stuck' = [stuck EXCEPT ![p] = @ \union {h}]
           /\ h \in Unreliable \/ mr11[h] = Latched
        \/ stuck' = stuck
    BY <2>1 DEF ReadsOf, NoByte, Latched
  <2>3. pc[p] = "probe" /\ UNCHANGED <<mr11, mr12, pc>>
    BY <1>5 DEF ProbeHub, hubVars
  <2>. QED  BY <2>2, <2>3 DEF SoloInv, StillLatched, TypeOK
<1>6. ASSUME NEW p \in Fixers, NoStuckHub(p)
      PROVE  SoloInv' /\ [Promise!Next]_(Promise!promiseVars)
  BY <1>6 DEF NoStuckHub, hubVars, SoloInv, StillLatched, TypeOK
<1>7. ASSUME NEW p \in Fixers, BeginWrites(p)
      PROVE  SoloInv' /\ [Promise!Next]_(Promise!promiseVars)
  BY <1>7 DEF BeginWrites, Eligible, hubVars, SoloInv, StillLatched, TypeOK
<1>8. ASSUME NEW p \in Fixers, WriteAttempt(p)
      PROVE  SoloInv' /\ [Promise!Next]_(Promise!promiseVars)
  <2>1. PICK h \in todo[p] :
          /\ First(h, todo[p])
          /\ \E outcome \in WriteOutcomes(h) : Attempt(p, h, outcome)
    BY <1>8 DEF WriteAttempt
  <2>2. pc[p] = "write" /\ UNCHANGED <<todo, stuck>>
    BY <1>8 DEF WriteAttempt
  <2>3. PICK outcome \in WriteOutcomes(h) : Attempt(p, h, outcome)
    BY <2>1
  <2>4. \/ Land(p, h)
        \/ UNCHANGED <<mr11, mr12>>
    BY <2>3, Zenon DEF Attempt, hubVars
  <2>5. \/ pc' = [pc EXCEPT ![p] = "verify"]
        \/ UNCHANGED pc
    BY <2>3, Zenon DEF Attempt
  <2>6. h \in Hubs
    BY <2>1 DEF TypeOK
  <2>7. CASE h \in Unreliable
    <3>1. \A g \in Reliable : mr11'[g] = mr11[g] /\ mr12'[g] = mr12[g]
      BY <2>4, <2>7 DEF Land, TypeOK
    <3>2. SoloInv'
      BY <2>1, <2>2, <2>5, <2>7, <3>1 DEF SoloInv, StillLatched, First, TypeOK
    <3>. QED  BY <3>1, <3>2
  <2>8. CASE h \notin Unreliable
    <3>1. Attempt(p, h, [lands |-> TRUE, acked |-> TRUE])
      BY <2>3, <2>8 DEF WriteOutcomes
    <3>2. Land(p, h) /\ pc' = [pc EXCEPT ![p] = "verify"]
      BY <3>1, Zenon DEF Attempt
    <3>3. mr11[h] = Latched
      BY <2>2, <2>8 DEF SoloInv, StillLatched
    <3>4. SoloInv'
      BY <2>1, <2>2, <3>2 DEF Land, SoloInv, StillLatched, First, TypeOK
    <3>5. mr11' = [mr11 EXCEPT ![h] = 0] /\ mr12' = mr12
      BY <3>2, <3>3 DEF Land, Page0
    <3>6. [x \in Reliable |-> mr11'[x]]
            = [[x \in Reliable |-> mr11[x]] EXCEPT ![h] = 0]
      BY <2>6, <2>8, <3>5, PartOfArray DEF TypeOK
    <3>7. Promise!FixClears(h)
      BY <2>6, <2>8, <3>3, <3>6 DEF Latched, Promise!FixClears
    <3>8. Promise!Next
      BY <2>6, <2>8, <3>5, <3>7 DEF Promise!Next
    <3>. QED  BY <3>4, <3>8
  <2>. QED  BY <2>7, <2>8
<1>9. ASSUME NEW p \in Fixers, Verify(p)
      PROVE  SoloInv' /\ [Promise!Next]_(Promise!promiseVars)
  <2>1. PICK h \in todo[p] :
          /\ First(h, todo[p])
          /\ todo' = [todo EXCEPT ![p] = @ \ {h}]
          /\ pc' = [pc EXCEPT ![p] = IF LoopDone(p, h) THEN "done" ELSE "write"]
    BY <1>9, Zenon DEF Verify
  <2>2. pc[p] = "verify" /\ UNCHANGED <<mr11, mr12, stuck>>
    BY <1>9 DEF Verify, hubVars
  <2>3. \A g \in todo[p] \ ({h} \union Unreliable) : mr11[g] = Latched
    BY <2>1, <2>2, FirstUnique DEF SoloInv, StillLatched, TypeOK
  <2>. QED  BY <2>1, <2>2, <2>3 DEF SoloInv, StillLatched, TypeOK
<1>10. ASSUME NEW p \in Fixers, Killed(p)
       PROVE  SoloInv' /\ [Promise!Next]_(Promise!promiseVars)
  BY <1>10 DEF Killed, hubVars, SoloInv, StillLatched, TypeOK
<1>11. CASE UNCHANGED vars
  BY <1>11 DEF vars, hubVars, fixVars, SoloInv, StillLatched, First
<1>. QED
  BY <1>1, <1>2, <1>3, <1>4, <1>5, <1>6, <1>7, <1>8, <1>9, <1>10, <1>11
  DEF Next, Environment, FixStep

(***************************************************************************)
(* The promise of SECURITY.md as a refinement: a fix that is alone changes *)
(* MR11 of hubs whose transfers do what they report only from 0x08 to 0x00 *)
(* and never touches their MR12.  Run hubfix_race_writes shows that it has *)
(* to be alone.                                                            *)
(***************************************************************************)
THEOREM SoloKeepsPromise ==
  ASSUME \A p, q \in Fixers : p = q
  PROVE  Spec => KeepsPromise
<1>1. Init => Promise!Init /\ SoloInv
  BY DEF Init, SoloInv, StillLatched, Reliable, Promise!Init, Page0, Latched
<1>2. TypeOK /\ SoloInv /\ [Next]_vars
        => SoloInv' /\ [Promise!Next]_(Promise!promiseVars)
  BY SoloStep
<1>. QED
  BY <1>1, <1>2, TypeCorrect, PTL
  DEF Spec, KeepsPromise, Promise!Spec
=============================================================================
