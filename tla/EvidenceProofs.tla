---------------------------- MODULE EvidenceProofs ---------------------------
(***************************************************************************)
(* Proofs about Evidence, for every set of users, units, menus and any     *)
(* number of captures and documents.                                       *)
(*                                                                         *)
(* Each of the four safety invariants is strengthened to an inductive one  *)
(* that says what the process holds at each step on the way; all need the  *)
(* types and none needs another.                                           *)
(***************************************************************************)
EXTENDS Evidence, TLAPS

(***************************************************************************)
(* Types.  AppendRecord puts ev[p] into the timeline, so an event about to *)
(* be recorded must be a captured one and not the 0 of "none".             *)
(***************************************************************************)
TypeInv ==
  /\ TypeOK
  /\ \A p \in Procs : pc[p] = "append" => ev[p] \in Events

\* Every step of every process preserves the types.
LEMMA TypeStep == TypeInv /\ [Next]_vars => TypeInv'
<1> SUFFICES ASSUME TypeInv, [Next]_vars
             PROVE  TypeInv'
  OBVIOUS
<1> USE EvidenceAssumption DEF vars, treeVars, fixVars, purgeVars, userVars, Goes, Procs,
          TypeInv, TypeOK, Events, Places, Pack, Doc
<1>1. ASSUME NEW p \in Procs, Captures(p)
      PROVE  TypeInv'
  <2>1. CASE UnitStarts(p)  BY <2>1 DEF UnitStarts
  <2>2. CASE MakeDir(p)  BY <2>2 DEF MakeDir
  <2>3. CASE CaptureFails(p)  BY <2>3 DEF CaptureFails, AfterCapture
  <2>4. CASE AppendRecord(p)  BY <2>4 DEF AppendRecord
  <2>5. CASE PruneDirs(p)  BY <2>5 DEF PruneDirs
  <2>6. CASE PruneRename(p)  BY <2>6 DEF PruneRename, AfterCapture
  <2> QED  BY <1>1, <2>1, <2>2, <2>3, <2>4, <2>5, <2>6 DEF Captures
<1>2. ASSUME NEW p \in Users, Reads(p)
      PROVE  TypeInv'
  <2>1. CASE StartsReading(p)  BY <2>1 DEF StartsReading
  <2>2. CASE OpensWindow(p)  BY <2>2 DEF OpensWindow
  <2>3. CASE OpensArchive(p)  BY <2>3 DEF OpensArchive, Archives
  <2>4. CASE Load(p)
    <3>1. /\ \A b \in {FALSE, what[p] = "window"} : b \in BOOLEAN
          /\ p \in Procs
      BY DEF Procs
    <3>2. offers' \in [Procs -> BOOLEAN]
      <4>1. CASE UNCHANGED fixVars  BY <4>1
      <4>2. CASE \E b \in {FALSE, what[p] = "window"} : offers' = [offers EXCEPT ![p] = b]
        <5>1. PICK b \in {FALSE, what[p] = "window"} : offers' = [offers EXCEPT ![p] = b]
          BY <4>2
        <5>2. b \in BOOLEAN  BY <3>1
        <5> QED  BY <5>1, <5>2, <3>1
      <4> QED  BY <2>4, <4>1, <4>2 DEF Load
    <3>3. agreed' = agreed  BY <2>4 DEF Load
    <3>4. got' \in [Procs -> SUBSET Events]  BY <2>4, <3>1 DEF Load, Loaded
    <3>5. /\ pc' \in [Procs -> {"idle", "capture", "append", "prune", "rename", "load", "write",
                              "stage", "chain", "copy", "tar", "open", "dialog", "auth", "wipe",
                              "rmdir", "create", "home", "done", "failed"}]
          /\ \A q \in Procs : pc'[q] = "append" => pc[q] = "append"
      BY <2>4, <3>1 DEF Load
    <3> QED  BY <2>4, <3>2, <3>3, <3>4, <3>5 DEF Load
  <2>5. CASE WriteReport(p)
    <3>1. p \in Procs  OBVIOUS
    <3>2. \A place \in MayWrite(p) : Made(p, "report", Empty(place)) \in Doc
      BY <3>1 DEF MayWrite, Made, Empty
    <3>3. docs' \subseteq Doc /\ tree' \in BOOLEAN
      <4> HIDE DEF Doc
      <4>1. CASE UNCHANGED <<docs, tree>>  BY <4>1
      <4>2. CASE \E place \in MayWrite(p) :
                   /\ docs' = docs \union {Made(p, "report", Empty(place))}
                   /\ tree' = (tree \/ place = "tree")
        BY <3>2, <4>2
      <4> QED  BY <2>5, <4>1, <4>2 DEF WriteReport
    <3>4. pack' \in [Procs -> Pack]  BY <2>5, <3>1 DEF WriteReport, Forgets, Empty
    <3> QED  BY <2>5, <3>3, <3>4 DEF WriteReport, Forgets
  <2>6. CASE Stage(p)
    <3>1. p \in Procs /\ Made(p, "report", Empty("home")) \in Doc
      BY DEF Made, Empty
    <3>2. docs' \subseteq Doc
      <4> HIDE DEF Doc
      <4> QED  BY <2>6, <3>1 DEF Stage, ReportStrays
    <3>3. PICK place \in MayWrite(p), written \in BOOLEAN, copied \in SUBSET line :
            /\ tree' = (tree \/ place = "tree")
            /\ pack' = [pack EXCEPT ![p] =
                 [Empty(place) EXCEPT !.report = written, !.line = copied,
                                      !.torn = line \ copied]]
      BY <2>6 DEF Stage
    <3>4. [Empty(place) EXCEPT !.report = written, !.line = copied, !.torn = line \ copied]
            \in Pack
      BY DEF MayWrite, Empty
    <3>5. pack' \in [Procs -> Pack]
      <4> HIDE DEF Pack
      <4> QED  BY <3>1, <3>3, <3>4
    <3> QED  BY <2>6, <3>2, <3>3, <3>5 DEF Stage
  <2>7. CASE Chain(p)
    <3>1. p \in Procs  OBVIOUS
    <3>2. pack[p] \in Pack /\ got[p] \intersect dirs \in SUBSET Events  BY <3>1
    <3>3. [pack[p] EXCEPT !.wants = got[p] \intersect dirs] \in Pack  BY <3>2
    <3>4. pack' = [pack EXCEPT ![p] = [pack[p] EXCEPT !.wants = got[p] \intersect dirs]]
      BY <2>7, <3>1 DEF Chain
    <3>5. pack' \in [Procs -> Pack]
      <4> HIDE DEF Pack
      <4> QED  BY <3>3, <3>4
    <3> QED  BY <2>7, <3>5 DEF Chain
  <2>8. CASE CopyDirs(p)
    <3>1. p \in Procs  OBVIOUS
    <3>2. PICK copied \in SUBSET (pack[p].wants \intersect dirs) :
            pack' = [pack EXCEPT ![p].full = copied,
                                 ![p].torn = @ \union ((pack[p].wants \intersect dirs) \ copied)]
      BY <2>8 DEF CopyDirs
    <3> DEFINE torn == pack[p].torn \union ((pack[p].wants \intersect dirs) \ copied)
    <3>3. pack[p] \in Pack /\ copied \in SUBSET Events /\ torn \in SUBSET Events
      BY <3>1, <3>2
    <3>4. [pack[p] EXCEPT !.full = copied, !.torn = torn] \in Pack
      BY <3>3
    <3>5. pack' = [pack EXCEPT ![p] = [pack[p] EXCEPT !.full = copied, !.torn = torn]]
      BY <3>1, <3>2
    <3>6. pack' \in [Procs -> Pack]
      <4> HIDE DEF Pack
      <4> QED  BY <3>4, <3>5
    <3> QED  BY <2>8, <3>6 DEF CopyDirs
  <2>9. CASE WriteTar(p)  BY <2>9 DEF WriteTar, Made, Forgets, AfterPackage, Empty
  <2>10. CASE PackageFails(p)  BY <2>10 DEF PackageFails, Forgets, AfterPackage, Empty
  <2> QED  BY <1>2, <2>1, <2>2, <2>3, <2>4, <2>5, <2>6, <2>7, <2>8, <2>9, <2>10 DEF Reads
<1>3. ASSUME NEW p \in Users, Decides(p)
      PROVE  TypeInv'
  <2>1. CASE PressesPage(p)  BY <2>1 DEF PressesPage
  <2>2. CASE PressesPackage(p)  BY <2>2 DEF PressesPackage
  <2>3. CASE PressesFix(p)  BY <2>3 DEF PressesFix
  <2>4. CASE AnswersDialog(p)  BY <2>4 DEF AnswersDialog, Accepts
  <2>5. CASE AsksForFix(p)  BY <2>5 DEF AsksForFix
  <2>6. CASE RunsHelper(p)  BY <2>6 DEF RunsHelper, AfterCapture
  <2> QED  BY <1>3, <2>1, <2>2, <2>3, <2>4, <2>5, <2>6 DEF Decides
<1>4. ASSUME NEW p \in Users, Purges(p)
      PROVE  TypeInv'
  <2>1. CASE StartsPurge(p)
    <3>1. PICK step \in {"failed", "wipe", "home"} : pc' = [pc EXCEPT ![p] = step]
      BY <2>1 DEF StartsPurge, WhenAgreed
    <3>2. what' \in [Procs -> {"report", "package", "window", "archive", "fix", "purge", "none"}]
      BY <2>1 DEF StartsPurge
    <3>3. old' \in [Procs -> SUBSET Events]
      <4> DEFINE here == (dirs \union line) \ {ev[q] : q \in {r \in Procs : Capturing(r)}}
      <4>1. here \in SUBSET Events  OBVIOUS
      <4>2. old' = [old EXCEPT ![p] = here]  BY <2>1 DEF StartsPurge
      <4> HIDE DEF here
      <4> QED  BY <4>1, <4>2
    <3> QED  BY <2>1, <3>1, <3>2, <3>3 DEF StartsPurge
  <2>2. CASE Wipe(p)  BY <2>2 DEF Wipe
  <2>3. CASE RemoveTree(p)  BY <2>3 DEF RemoveTree
  <2>4. CASE CreateTree(p)  BY <2>4 DEF CreateTree
  <2>5. CASE CreateFails(p)  BY <2>5 DEF CreateFails
  <2>6. CASE RemoveHome(p)  BY <2>6 DEF RemoveHome
  <2> QED  BY <1>4, <2>1, <2>2, <2>3, <2>4, <2>5, <2>6 DEF Purges
<1>5. CASE UNCHANGED vars  BY <1>5 DEF vars
<1> QED  BY <1>1, <1>2, <1>3, <1>4, <1>5 DEF Next

\* Every variable of Evidence keeps its type.
THEOREM TypeCorrect == Spec => []TypeOK
<1>1. Init => TypeInv
  BY EvidenceAssumption DEF Init, TypeInv, TypeOK, Procs, Pack, Places, Empty, Events
<1>2. TypeInv => TypeOK
  BY DEF TypeInv
<1>. QED  BY <1>1, <1>2, TypeStep, PTL DEF Spec

(***************************************************************************)
(* The fix.  The button is sensitive in a window only (Load of an archive  *)
(* resets it), and a dialog only comes from the button.                    *)
(***************************************************************************)
FixInv ==
  \A p \in Users :
    /\ offers[p] => what[p] = "window" /\ pc[p] # "idle"
    /\ pc[p] = "dialog" => what[p] = "window"
    /\ pc[p] = "auth" => agreed[p] /\ what[p] \in {"window", "fix"}

\* No step starts the helper without an answer, or offers the fix in an archive.
LEMMA FixStep == TypeOK /\ FixInv /\ [Next]_vars => FixInv'
<1> SUFFICES ASSUME TypeOK, FixInv, [Next]_vars
             PROVE  FixInv'
  OBVIOUS
<1> USE EvidenceAssumption DEF vars, treeVars, fixVars, purgeVars, userVars, Goes, Procs, TypeOK, FixInv
<1>1. ASSUME NEW p \in Procs, Captures(p)
      PROVE  FixInv'
  <2>1. CASE UnitStarts(p)  BY <2>1 DEF UnitStarts
  <2>2. CASE MakeDir(p)  BY <2>2 DEF MakeDir
  <2>3. CASE CaptureFails(p)  BY <2>3 DEF CaptureFails, AfterCapture
  <2>4. CASE AppendRecord(p)  BY <2>4 DEF AppendRecord
  <2>5. CASE PruneDirs(p)  BY <2>5 DEF PruneDirs
  <2>6. CASE PruneRename(p)  BY <2>6 DEF PruneRename, AfterCapture
  <2> QED  BY <1>1, <2>1, <2>2, <2>3, <2>4, <2>5, <2>6 DEF Captures
<1>2. ASSUME NEW p \in Users, Reads(p)
      PROVE  FixInv'
  <2>1. CASE StartsReading(p)  BY <2>1 DEF StartsReading
  <2>2. CASE OpensWindow(p)  BY <2>2 DEF OpensWindow
  <2>3. CASE OpensArchive(p)  BY <2>3 DEF OpensArchive, Archives
  <2>4. CASE Load(p)  BY <2>4 DEF Load, Loaded
  <2>5. CASE WriteReport(p)  BY <2>5 DEF WriteReport, MayWrite, Made, Forgets, Empty
  <2>6. CASE Stage(p)  BY <2>6 DEF Stage, ReportStrays, Made, MayWrite, Empty
  <2>7. CASE Chain(p)  BY <2>7 DEF Chain
  <2>8. CASE CopyDirs(p)  BY <2>8 DEF CopyDirs
  <2>9. CASE WriteTar(p)  BY <2>9 DEF WriteTar, Made, Forgets, AfterPackage, Empty
  <2>10. CASE PackageFails(p)  BY <2>10 DEF PackageFails, Forgets, AfterPackage, Empty
  <2> QED  BY <1>2, <2>1, <2>2, <2>3, <2>4, <2>5, <2>6, <2>7, <2>8, <2>9, <2>10 DEF Reads
<1>3. ASSUME NEW p \in Users, Decides(p)
      PROVE  FixInv'
  <2>1. CASE PressesPage(p)  BY <2>1 DEF PressesPage
  <2>2. CASE PressesPackage(p)  BY <2>2 DEF PressesPackage
  <2>3. CASE PressesFix(p)  BY <2>3 DEF PressesFix
  <2>4. CASE AnswersDialog(p)
    <3>1. PICK response \in {"fix", "cancel", "delete"} :
            \E first \in {response, "delete"} :
              /\ pc[p] = "dialog"
              /\ pc' = [pc EXCEPT ![p] = IF first = "fix" THEN "auth" ELSE "open"]
              /\ agreed' = [agreed EXCEPT ![p] = (response = "fix")]
              /\ what' = what /\ offers' = offers
      BY <2>4 DEF AnswersDialog, Accepts
    <3>2. p \in Procs  OBVIOUS
    <3>3. agreed'[p] = (response = "fix") /\ \A q \in Users : q # p => agreed'[q] = agreed[q]
      BY <3>1, <3>2
    <3>4. pc'[p] \in {"auth", "open"} /\ \A q \in Users : q # p => pc'[q] = pc[q]
      BY <3>1, <3>2
    <3>5. pc'[p] = "auth" => agreed'[p]
      <4>1. PICK first \in {response, "delete"} :
              pc' = [pc EXCEPT ![p] = IF first = "fix" THEN "auth" ELSE "open"]
        BY <3>1
      <4>2. CASE first = "fix"  BY <3>3, <4>2
      <4>3. CASE first # "fix"
        <5>1. pc'[p] = "open"  BY <3>2, <4>1, <4>3
        <5> QED  BY <5>1
      <4> QED  BY <4>2, <4>3
    <3>6. what[p] = "window" /\ what' = what /\ offers' = offers
      BY <3>1
    <3> QED
      <4> SUFFICES ASSUME NEW q \in Users
                   PROVE  /\ offers'[q] => what'[q] = "window" /\ pc'[q] # "idle"
                          /\ pc'[q] = "dialog" => what'[q] = "window"
                          /\ pc'[q] = "auth" => agreed'[q] /\ what'[q] \in {"window", "fix"}
        OBVIOUS
      <4>1. CASE q = p  BY <3>4, <3>5, <3>6, <4>1
      <4>2. CASE q # p  BY <3>3, <3>4, <3>6, <4>2
      <4> QED  BY <4>1, <4>2
  <2>5. CASE AsksForFix(p)  BY <2>5 DEF AsksForFix
  <2>6. CASE RunsHelper(p)  BY <2>6 DEF RunsHelper, AfterCapture
  <2> QED  BY <1>3, <2>1, <2>2, <2>3, <2>4, <2>5, <2>6 DEF Decides
<1>4. ASSUME NEW p \in Users, Purges(p)
      PROVE  FixInv'
  <2>1. CASE StartsPurge(p)  BY <2>1 DEF StartsPurge, WhenAgreed, Capturing
  <2>2. CASE Wipe(p)  BY <2>2 DEF Wipe
  <2>3. CASE RemoveTree(p)  BY <2>3 DEF RemoveTree
  <2>4. CASE CreateTree(p)  BY <2>4 DEF CreateTree
  <2>5. CASE CreateFails(p)  BY <2>5 DEF CreateFails
  <2>6. CASE RemoveHome(p)  BY <2>6 DEF RemoveHome
  <2> QED  BY <1>4, <2>1, <2>2, <2>3, <2>4, <2>5, <2>6 DEF Purges
<1>5. CASE UNCHANGED vars  BY <1>5 DEF vars
<1> QED  BY <1>1, <1>2, <1>3, <1>4, <1>5 DEF Next

\* Every start of the fix helper, by a window or by the command, follows its own
\* user's yes, however many windows and archives are open and however the
\* dialogs were closed.
THEOREM FixOnlyConfirmedHolds == Spec => []FixOnlyConfirmed
<1>1. Init => FixInv
  BY EvidenceAssumption DEF Init, FixInv, Procs
<1>2. FixInv => FixOnlyConfirmed
  BY DEF FixInv, FixOnlyConfirmed
<1>. QED  BY <1>1, <1>2, FixStep, TypeCorrect, PTL DEF Spec

(***************************************************************************)
(* The snapshot.  From its capture to its document the event asked for is  *)
(* in the timeline, then in what was loaded, or was taken away meanwhile.  *)
(***************************************************************************)
FreshInv ==
  /\ \A p \in Users :
    snap[p] =>
    /\ what[p] \in {"report", "package"}
    /\ pc[p] \notin {"idle", "open", "dialog"}
    /\ pc[p] \in {"prune", "rename", "load"} => ev[p] \in line \union gone
    /\ pc[p] \in {"write", "stage", "chain", "copy", "tar"} => ev[p] \in got[p] \union gone
  /\ FreshTicket

\* No step loses track of the snapshot: a prune that drops it says so in gone.
LEMMA FreshStep == TypeOK /\ FreshInv /\ [Next]_vars => FreshInv'
<1> SUFFICES ASSUME TypeOK, FreshInv, [Next]_vars
             PROVE  FreshInv'
  OBVIOUS
<1> USE EvidenceAssumption DEF vars, treeVars, fixVars, purgeVars, userVars, Goes, Procs, TypeOK, FreshInv, FreshTicket
<1>1. ASSUME NEW p \in Procs, Captures(p)
      PROVE  FreshInv'
  <2>1. CASE UnitStarts(p)  BY <2>1 DEF UnitStarts
  <2>2. CASE MakeDir(p)  BY <2>2 DEF MakeDir
  <2>3. CASE CaptureFails(p)  BY <2>3 DEF CaptureFails, AfterCapture
  <2>4. CASE AppendRecord(p)  BY <2>4 DEF AppendRecord
  <2>5. CASE PruneDirs(p)  BY <2>5 DEF PruneDirs
  <2>6. CASE PruneRename(p)  BY <2>6 DEF PruneRename, AfterCapture
  <2> QED  BY <1>1, <2>1, <2>2, <2>3, <2>4, <2>5, <2>6 DEF Captures
<1>2. ASSUME NEW p \in Users, Reads(p)
      PROVE  FreshInv'
  <2>1. CASE StartsReading(p)  BY <2>1 DEF StartsReading
  <2>2. CASE OpensWindow(p)  BY <2>2 DEF OpensWindow
  <2>3. CASE OpensArchive(p)  BY <2>3 DEF OpensArchive, Archives
  <2>4. CASE Load(p)  BY <2>4 DEF Load, Loaded
  <2>5. CASE WriteReport(p)  BY <2>5 DEF WriteReport, MayWrite, Made, Forgets, Empty
  <2>6. CASE Stage(p)  BY <2>6 DEF Stage, ReportStrays, Made, MayWrite, Empty
  <2>7. CASE Chain(p)  BY <2>7 DEF Chain
  <2>8. CASE CopyDirs(p)  BY <2>8 DEF CopyDirs
  <2>9. CASE WriteTar(p)  BY <2>9 DEF WriteTar, Made, Forgets, AfterPackage, Empty
  <2>10. CASE PackageFails(p)  BY <2>10 DEF PackageFails, Forgets, AfterPackage, Empty
  <2> QED  BY <1>2, <2>1, <2>2, <2>3, <2>4, <2>5, <2>6, <2>7, <2>8, <2>9, <2>10 DEF Reads
<1>3. ASSUME NEW p \in Users, Decides(p)
      PROVE  FreshInv'
  <2>1. CASE PressesPage(p)  BY <2>1 DEF PressesPage
  <2>2. CASE PressesPackage(p)  BY <2>2 DEF PressesPackage
  <2>3. CASE PressesFix(p)  BY <2>3 DEF PressesFix
  <2>4. CASE AnswersDialog(p)  BY <2>4 DEF AnswersDialog, Accepts
  <2>5. CASE AsksForFix(p)  BY <2>5 DEF AsksForFix
  <2>6. CASE RunsHelper(p)  BY <2>6 DEF RunsHelper, AfterCapture
  <2> QED  BY <1>3, <2>1, <2>2, <2>3, <2>4, <2>5, <2>6 DEF Decides
<1>4. ASSUME NEW p \in Users, Purges(p)
      PROVE  FreshInv'
  <2>1. CASE StartsPurge(p)  BY <2>1 DEF StartsPurge, WhenAgreed, Capturing
  <2>2. CASE Wipe(p)  BY <2>2 DEF Wipe
  <2>3. CASE RemoveTree(p)  BY <2>3 DEF RemoveTree
  <2>4. CASE CreateTree(p)  BY <2>4 DEF CreateTree
  <2>5. CASE CreateFails(p)  BY <2>5 DEF CreateFails
  <2>6. CASE RemoveHome(p)  BY <2>6 DEF RemoveHome
  <2> QED  BY <1>4, <2>1, <2>2, <2>3, <2>4, <2>5, <2>6 DEF Purges
<1>5. CASE UNCHANGED vars  BY <1>5 DEF vars
<1> QED  BY <1>1, <1>2, <1>3, <1>4, <1>5 DEF Next

\* With any number of users, units, prunes and purges beside it, a report or
\* package for which a snapshot was asked tells that snapshot or an event taken
\* away again.
THEOREM FreshTicketHolds == Spec => []FreshTicket
<1>1. Init => FreshInv
  BY EvidenceAssumption DEF Init, FreshInv, Procs, FreshTicket
<1>2. FreshInv => FreshTicket
  BY DEF FreshInv
<1>. QED  BY <1>1, <1>2, FreshStep, TypeCorrect, PTL DEF Spec

(***************************************************************************)
(* The package.  Every record has a directory, or lost it to a prune or    *)
(* purge (gone): so what is loaded has one, and each step of make_package  *)
(* may only miss what has gone since the step before or failed to be       *)
(* copied in it.                                                           *)
(***************************************************************************)
PackInv ==
  /\ line \subseteq dirs \union gone
  /\ \A p \in Procs :
    /\ pc[p] = "append" => ev[p] \in dirs \union gone
    /\ kept[p] \subseteq dirs \union gone
  /\ \A p \in Users :
    /\ pc[p] = "stage" => got[p] \subseteq line \union gone
    /\ pc[p] \in {"chain", "copy", "tar"} =>
          got[p] \subseteq pack[p].line \union gone \union pack[p].torn
    /\ pc[p] \in {"stage", "chain", "copy"} => got[p] \subseteq dirs \union gone
    /\ pc[p] \in {"copy", "tar"} => pack[p].wants \subseteq got[p]
    /\ pc[p] = "copy" => got[p] \subseteq pack[p].wants \union gone
    /\ pc[p] = "tar" => got[p] \subseteq pack[p].full \union gone \union pack[p].torn
  /\ PackageHoldsReport

\* No step drops a record or directory of a package that has not gone and whose
\* copy did not fail.
LEMMA PackStep == TypeOK /\ PackInv /\ [Next]_vars => PackInv'
<1> SUFFICES ASSUME TypeOK, PackInv, [Next]_vars
             PROVE  PackInv'
  OBVIOUS
<1> USE EvidenceAssumption DEF vars, treeVars, fixVars, purgeVars, userVars, Goes, Procs, TypeOK, PackInv, PackageHoldsReport
<1>1. ASSUME NEW p \in Procs, Captures(p)
      PROVE  PackInv'
  <2>1. CASE UnitStarts(p)  BY <2>1 DEF UnitStarts
  <2>2. CASE MakeDir(p)  BY <2>2 DEF MakeDir
  <2>3. CASE CaptureFails(p)  BY <2>3 DEF CaptureFails, AfterCapture
  <2>4. CASE AppendRecord(p)  BY <2>4 DEF AppendRecord
  <2>5. CASE PruneDirs(p)  BY <2>5 DEF PruneDirs
  <2>6. CASE PruneRename(p)  BY <2>6 DEF PruneRename, AfterCapture
  <2> QED  BY <1>1, <2>1, <2>2, <2>3, <2>4, <2>5, <2>6 DEF Captures
<1>2. ASSUME NEW p \in Users, Reads(p)
      PROVE  PackInv'
  <2>1. CASE StartsReading(p)  BY <2>1 DEF StartsReading
  <2>2. CASE OpensWindow(p)  BY <2>2 DEF OpensWindow
  <2>3. CASE OpensArchive(p)  BY <2>3 DEF OpensArchive, Archives
  <2>4. CASE Load(p)  BY <2>4 DEF Load, Loaded
  <2>5. CASE WriteReport(p)  BY <2>5 DEF WriteReport, MayWrite, Made, Forgets, Empty
  <2>6. CASE Stage(p)  BY <2>6 DEF Stage, ReportStrays, Made, MayWrite, Empty
  <2>7. CASE Chain(p)  BY <2>7 DEF Chain
  <2>8. CASE CopyDirs(p)  BY <2>8 DEF CopyDirs
  <2>9. CASE WriteTar(p)  BY <2>9 DEF WriteTar, Made, Forgets, AfterPackage, Empty
  <2>10. CASE PackageFails(p)  BY <2>10 DEF PackageFails, Forgets, AfterPackage, Empty
  <2> QED  BY <1>2, <2>1, <2>2, <2>3, <2>4, <2>5, <2>6, <2>7, <2>8, <2>9, <2>10 DEF Reads
<1>3. ASSUME NEW p \in Users, Decides(p)
      PROVE  PackInv'
  <2>1. CASE PressesPage(p)  BY <2>1 DEF PressesPage
  <2>2. CASE PressesPackage(p)  BY <2>2 DEF PressesPackage
  <2>3. CASE PressesFix(p)  BY <2>3 DEF PressesFix
  <2>4. CASE AnswersDialog(p)  BY <2>4 DEF AnswersDialog, Accepts
  <2>5. CASE AsksForFix(p)  BY <2>5 DEF AsksForFix
  <2>6. CASE RunsHelper(p)  BY <2>6 DEF RunsHelper, AfterCapture
  <2> QED  BY <1>3, <2>1, <2>2, <2>3, <2>4, <2>5, <2>6 DEF Decides
<1>4. ASSUME NEW p \in Users, Purges(p)
      PROVE  PackInv'
  <2>1. CASE StartsPurge(p)  BY <2>1 DEF StartsPurge, WhenAgreed, Capturing
  <2>2. CASE Wipe(p)  BY <2>2 DEF Wipe
  <2>3. CASE RemoveTree(p)  BY <2>3 DEF RemoveTree
  <2>4. CASE CreateTree(p)  BY <2>4 DEF CreateTree
  <2>5. CASE CreateFails(p)  BY <2>5 DEF CreateFails
  <2>6. CASE RemoveHome(p)  BY <2>6 DEF RemoveHome
  <2> QED  BY <1>4, <2>1, <2>2, <2>3, <2>4, <2>5, <2>6 DEF Purges
<1>5. CASE UNCHANGED vars  BY <1>5 DEF vars
<1> QED  BY <1>1, <1>2, <1>3, <1>4, <1>5 DEF Next

\* With any number of prunes, purges and captures between the steps of
\* make_package, and any copy failing in it, a package holds what its report
\* tells but what has gone since and what could not be copied.
THEOREM PackageHoldsReportHolds == Spec => []PackageHoldsReport
<1>1. Init => PackInv
  BY EvidenceAssumption DEF Init, PackInv, Procs, PackageHoldsReport
<1>2. PackInv => PackageHoldsReport
  BY DEF PackInv
<1>. QED  BY <1>1, <1>2, PackStep, TypeCorrect, PTL DEF Spec

(***************************************************************************)
(* The purge.  What is on disk was born, what purge found is older than    *)
(* any capture that appends after it began, and a purge that got past      *)
(* RemoveTree left nothing of it but what a prune wrote back.              *)
(***************************************************************************)
PurgeInv ==
  /\ dirs \union line \subseteq 1..born
  /\ \A q \in Procs :
    /\ kept[q] \subseteq 1..born
    /\ pc[q] = "append" => ev[q] \in 1..born
  /\ \A p \in Users :
    /\ old[p] \subseteq 1..born
    /\ \A q \in Procs : pc[q] = "append" => ev[q] \notin old[p]
    /\ what[p] = "purge" => pc[p] \in {"wipe", "rmdir", "create", "home", "done", "failed"}
    /\ pc[p] \in {"wipe", "rmdir", "create", "home"} => what[p] = "purge"
    /\ wiped[p] => what[p] = "purge" /\ pc[p] \in {"home", "done"}
    /\ pc[p] = "create" \/ wiped[p] =>
          old[p] \intersect dirs = {} /\ old[p] \intersect line \subseteq back

\* No step puts an event back that a purge has removed, but PruneRename.
LEMMA PurgeStep == TypeOK /\ PurgeInv /\ [Next]_vars => PurgeInv'
<1> SUFFICES ASSUME TypeOK, PurgeInv, [Next]_vars
             PROVE  PurgeInv'
  OBVIOUS
<1> USE EvidenceAssumption DEF vars, treeVars, fixVars, purgeVars, userVars, Goes, Procs, TypeOK, PurgeInv
<1>1. ASSUME NEW p \in Procs, Captures(p)
      PROVE  PurgeInv'
  <2>1. CASE UnitStarts(p)  BY <2>1 DEF UnitStarts
  <2>2. CASE MakeDir(p)  BY <2>2 DEF MakeDir
  <2>3. CASE CaptureFails(p)  BY <2>3 DEF CaptureFails, AfterCapture
  <2>4. CASE AppendRecord(p)  BY <2>4 DEF AppendRecord
  <2>5. CASE PruneDirs(p)  BY <2>5 DEF PruneDirs
  <2>6. CASE PruneRename(p)  BY <2>6 DEF PruneRename, AfterCapture
  <2> QED  BY <1>1, <2>1, <2>2, <2>3, <2>4, <2>5, <2>6 DEF Captures
<1>2. ASSUME NEW p \in Users, Reads(p)
      PROVE  PurgeInv'
  <2>1. CASE StartsReading(p)  BY <2>1 DEF StartsReading
  <2>2. CASE OpensWindow(p)  BY <2>2 DEF OpensWindow
  <2>3. CASE OpensArchive(p)  BY <2>3 DEF OpensArchive, Archives
  <2>4. CASE Load(p)  BY <2>4 DEF Load, Loaded
  <2>5. CASE WriteReport(p)  BY <2>5 DEF WriteReport, MayWrite, Made, Forgets, Empty
  <2>6. CASE Stage(p)  BY <2>6 DEF Stage, ReportStrays, Made, MayWrite, Empty
  <2>7. CASE Chain(p)  BY <2>7 DEF Chain
  <2>8. CASE CopyDirs(p)  BY <2>8 DEF CopyDirs
  <2>9. CASE WriteTar(p)  BY <2>9 DEF WriteTar, Made, Forgets, AfterPackage, Empty
  <2>10. CASE PackageFails(p)  BY <2>10 DEF PackageFails, Forgets, AfterPackage, Empty
  <2> QED  BY <1>2, <2>1, <2>2, <2>3, <2>4, <2>5, <2>6, <2>7, <2>8, <2>9, <2>10 DEF Reads
<1>3. ASSUME NEW p \in Users, Decides(p)
      PROVE  PurgeInv'
  <2>1. CASE PressesPage(p)  BY <2>1 DEF PressesPage
  <2>2. CASE PressesPackage(p)  BY <2>2 DEF PressesPackage
  <2>3. CASE PressesFix(p)  BY <2>3 DEF PressesFix
  <2>4. CASE AnswersDialog(p)  BY <2>4 DEF AnswersDialog, Accepts
  <2>5. CASE AsksForFix(p)  BY <2>5 DEF AsksForFix
  <2>6. CASE RunsHelper(p)  BY <2>6 DEF RunsHelper, AfterCapture
  <2> QED  BY <1>3, <2>1, <2>2, <2>3, <2>4, <2>5, <2>6 DEF Decides
<1>4. ASSUME NEW p \in Users, Purges(p)
      PROVE  PurgeInv'
  <2>1. CASE StartsPurge(p)  BY <2>1 DEF StartsPurge, WhenAgreed, Capturing
  <2>2. CASE Wipe(p)  BY <2>2 DEF Wipe
  <2>3. CASE RemoveTree(p)  BY <2>3 DEF RemoveTree
  <2>4. CASE CreateTree(p)  BY <2>4 DEF CreateTree
  <2>5. CASE CreateFails(p)  BY <2>5 DEF CreateFails
  <2>6. CASE RemoveHome(p)  BY <2>6 DEF RemoveHome
  <2> QED  BY <1>4, <2>1, <2>2, <2>3, <2>4, <2>5, <2>6 DEF Purges
<1>5. CASE UNCHANGED vars  BY <1>5 DEF vars
<1> QED  BY <1>1, <1>2, <1>3, <1>4, <1>5 DEF Next

\* With any number of captures and prunes beside it, a purge that says "Purged."
\* after its privileged half has left nothing that was complete when it began but
\* what a prune wrote back.
THEOREM PurgedMeansGoneHolds == Spec => []PurgedMeansGone
<1>1. Init => PurgeInv
  BY EvidenceAssumption DEF Init, PurgeInv, Procs
<1>2. PurgeInv => PurgedMeansGone
  BY DEF PurgeInv, PurgedMeansGone
<1>. QED  BY <1>1, <1>2, PurgeStep, TypeCorrect, PTL DEF Spec
=============================================================================
