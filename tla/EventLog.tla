------------------------------ MODULE EventLog ------------------------------
(***************************************************************************)
(* What timeline.jsonl promises to the analysis: a capture that gets as    *)
(* far as its record adds it once, and a record leaves the log only after  *)
(* its event is older than KEEP_DAYS.                                      *)
(***************************************************************************)
CONSTANT Events

VARIABLES
  log,      \* SUBSET Events: the events on record
  expired   \* SUBSET Events: those older than KEEP_DAYS

vars == <<log, expired>>

Init ==
  /\ log = {}
  /\ expired = {}

Expire(e) ==
  /\ expired' = expired \union {e}
  /\ UNCHANGED log

Record(e) ==
  /\ e \notin log \union expired
  /\ log' = log \union {e}
  /\ UNCHANGED expired

Forget ==
  /\ \E S \in SUBSET expired : log' = log \ S
  /\ UNCHANGED expired

Next ==
  \/ \E e \in Events : Expire(e) \/ Record(e)
  \/ Forget

Spec == Init /\ [][Next]_vars
=============================================================================
