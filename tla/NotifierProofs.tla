--------------------------- MODULE NotifierProofs ---------------------------
(***************************************************************************)
(* Proofs about Notifier, for every set of notices, other programs'        *)
(* notices, servers and pages and any number of clicks.                    *)
(*                                                                         *)
(* Signals wait in sequences of any length, so the invariant speaks of     *)
(* positions: what stands right before a click, and what is left of that   *)
(* once the token was taken out (BoxInv).                                  *)
(***************************************************************************)
EXTENDS Notifier, SequenceTheorems, TLAPS

\* Signals tell of no click but one on page of n with token t, and, on a
\* desktop with tokens, that token is sent right before the click.
Tell(signals, n, page, t) ==
  \A j \in 1..Len(signals) :
    /\ ~service.tokens => signals[j].token = 0
    /\ signals[j].name = "ActionInvoked" =>
       /\ signals[j] = Invoked(n, page, t)
       /\ service.tokens => j > 1 /\ signals[j-1] = Token(n, t)

\* Signals about a notice are signals.
LEMMA SignalTypes ==
  ASSUME NEW n \in Notices \union Others, NEW page \in Pages, NEW t \in 0..MaxClicks
  PROVE  /\ Token(n, t) \in Signal
         /\ Invoked(n, page, t) \in Signal
         /\ Closed(n) \in Signal
  BY NotifierAssumption DEF Signal, Token, Invoked, Closed

\* Whatever the service does, a click sends its token before itself.
LEMMA ClickTells ==
  ASSUME TypeOK, NEW n \in Notices \union Others, NEW page \in Pages,
         NEW t \in 0..MaxClicks, t = 0 <=> ~service.tokens
  PROVE  /\ ClickSignals(n, page, t) \in Seq(Signal)
         /\ Tell(ClickSignals(n, page, t), n, page, t)
<1> DEFINE I == Invoked(n, page, t)
           T == Token(n, t)
           C == Closed(n)
           first == IF t = 0 THEN <<>> ELSE <<T>>
           click == first \o <<I>>
<1>1. /\ I \in Signal /\ T \in Signal /\ C \in Signal
      /\ I.name = "ActionInvoked" /\ T.name # "ActionInvoked" /\ C.name # "ActionInvoked"
      /\ C.token = 0 /\ I.token = t
  BY SignalTypes DEF Invoked, Token, Closed
<1>2. service.closes \in {"no", "before", "after"} /\ service.tokens \in BOOLEAN
  BY DEF TypeOK
<1>3. /\ click \in Seq(Signal)
      /\ t = 0 => Len(click) = 1 /\ click[1] = I
      /\ t # 0 => Len(click) = 2 /\ click[1] = T /\ click[2] = I
  <2> HIDE DEF I, T, C
  <2>1. first \in Seq(Signal) /\ <<I>> \in Seq(Signal) /\ Len(<<I>>) = 1 /\ <<I>>[1] = I
    BY <1>1
  <2>2. CASE t = 0
    <3>1. click = <<I>>
      BY <2>1, <2>2, ConcatEmptySeq
    <3> QED  BY <2>1, <2>2, <3>1
  <2>3. CASE t # 0
    <3>1. first = <<T>> /\ Len(first) = 1 /\ first[1] = T
      BY <2>3
    <3>2. /\ click \in Seq(Signal)
          /\ Len(click) = Len(first) + Len(<<I>>)
          /\ \A i \in 1 .. Len(first) + Len(<<I>>) :
               click[i] = IF i <= Len(first) THEN first[i] ELSE <<I>>[i - Len(first)]
      <4> HIDE DEF first
      <4> QED  BY <2>1, ConcatProperties
    <3> HIDE DEF first, click
    <3> QED  BY <2>1, <2>3, <3>1, <3>2
  <2> QED  BY <2>2, <2>3
<1>4. Tell(click, n, page, t)
  <2> HIDE DEF click, I, T, C
  <2> SUFFICES ASSUME NEW j \in 1..Len(click)
               PROVE  /\ ~service.tokens => click[j].token = 0
                      /\ click[j].name = "ActionInvoked" =>
                         /\ click[j] = I
                         /\ service.tokens => j > 1 /\ click[j-1] = T
    BY DEF Tell, I, T
  <2>1. CASE t = 0
    <3>1. Len(click) = 1 /\ click[1] = I
      BY <1>3, <2>1, Zenon
    <3>2. j = 1 /\ click[j] = I
      BY <3>1
    <3>3. ~service.tokens
      BY <2>1
    <3> QED  BY <1>1, <2>1, <3>2, <3>3, Zenon
  <2>2. CASE t # 0
    <3>1. Len(click) = 2 /\ click[1] = T /\ click[2] = I
      BY <1>3, <2>2, Zenon
    <3>2. j = 1 \/ (j = 2 /\ j - 1 = 1)
      BY <3>1
    <3>3. service.tokens
      BY <2>2
    <3>4. CASE j = 1
      BY <1>1, <3>1, <3>3, <3>4, Zenon
    <3>5. CASE j # 1
      <4>1. j = 2 /\ j > 1
        BY <3>2, <3>5
      <4>2. click[j-1] = T
        BY <3>1, <4>1
      <4> QED  BY <3>1, <3>3, <4>1, <4>2, Zenon
    <3> QED  BY <3>4, <3>5
  <2> QED  BY <2>1, <2>2
<1>5. /\ <<C>> \o click \in Seq(Signal)
      /\ Tell(<<C>> \o click, n, page, t)
  <2> HIDE DEF click, C, I, T
  <2>1. <<C>> \in Seq(Signal) /\ Len(<<C>>) = 1 /\ <<C>>[1] = C
    BY <1>1
  <2>2. /\ <<C>> \o click \in Seq(Signal)
        /\ Len(<<C>> \o click) = 1 + Len(click)
        /\ \A i \in 1 .. 1 + Len(click) :
             (<<C>> \o click)[i] = IF i <= 1 THEN C ELSE click[i - 1]
    BY <1>3, <2>1, ConcatProperties
  <2>3. Len(click) \in Nat  BY <1>3
  <2> DEFINE all == <<C>> \o click
  <2>4. \A i \in 1 .. Len(all) : i = 1 \/ (i - 1 \in 1 .. Len(click) /\ all[i] = click[i - 1])
    BY <2>2, <2>3
  <2>5. all[1] = C
    BY <2>2, <2>3
  <2>6. \A i \in 1 .. Len(all) : i > 1 /\ i - 1 > 1 => all[i - 1] = click[i - 2]
    BY <2>2, <2>3
  <2> HIDE DEF all
  <2>7. Tell(all, n, page, t)
    <3> SUFFICES ASSUME NEW j \in 1 .. Len(all)
                 PROVE  /\ ~service.tokens => all[j].token = 0
                        /\ all[j].name = "ActionInvoked" =>
                           /\ all[j] = Invoked(n, page, t)
                           /\ service.tokens => j > 1 /\ all[j-1] = Token(n, t)
      BY DEF Tell
    <3>1. CASE j = 1
      BY <1>1, <2>5, <3>1, Zenon
    <3>2. CASE j # 1
      <4>1. j - 1 \in 1 .. Len(click) /\ all[j] = click[j - 1]
        BY <2>4, <3>2
      <4>2. /\ ~service.tokens => click[j - 1].token = 0
            /\ click[j - 1].name = "ActionInvoked" =>
               /\ click[j - 1] = Invoked(n, page, t)
               /\ service.tokens => j - 1 > 1 /\ click[(j - 1) - 1] = Token(n, t)
        BY <1>4, <4>1, Zenon DEF Tell
      <4>3. j > 1 /\ (j - 1) - 1 = j - 2
        BY <2>3, <4>1
      <4>4. j - 1 > 1 => all[j - 1] = click[(j - 1) - 1]
        BY <2>6, <4>3
      <4> QED  BY <4>1, <4>2, <4>3, <4>4, Zenon
    <3> QED  BY <3>1, <3>2
  <2> QED  BY <2>2, <2>7 DEF all
<1>6. /\ Append(click, C) \in Seq(Signal)
      /\ Tell(Append(click, C), n, page, t)
  <2> HIDE DEF click, C, I, T
  <2>1. /\ Append(click, C) \in Seq(Signal)
        /\ Len(Append(click, C)) = Len(click) + 1
        /\ \A i \in 1 .. Len(click) : Append(click, C)[i] = click[i]
        /\ Append(click, C)[Len(click) + 1] = C
    BY <1>1, <1>3, AppendProperties
  <2>2. Len(click) \in Nat  BY <1>3
  <2> QED  BY <1>1, <1>4, <2>1, <2>2 DEF Tell
<1>7. ClickSignals(n, page, t) \in {click, <<C>> \o click, Append(click, C)}
  BY <1>2 DEF ClickSignals
<1> HIDE DEF click, C
<1> QED  BY <1>3, <1>4, <1>5, <1>6, <1>7

(***************************************************************************)
(* Types: signals and activations stay sequences of those, whatever is     *)
(* sent.                                                                   *)
(***************************************************************************)

\* What is sent reaches those who listen, and is a sequence of signals.
LEMMA SentType ==
  ASSUME TypeOK, NEW signals \in Seq(Signal)
  PROVE  /\ Sent(signals) \in [Notices -> Seq(Signal)]
         /\ \A n \in Notices : Sent(signals)[n] \in {box[n], box[n] \o signals}
         /\ \A n \in Notices : ~Listens(n) => Sent(signals)[n] = box[n]
<1>1. \A n \in Notices : box[n] \in Seq(Signal)
  BY DEF TypeOK
<1>2. \A n \in Notices : box[n] \o signals \in Seq(Signal)
  BY <1>1, ConcatProperties
<1> HIDE DEF TypeOK
<1> QED  BY <1>1, <1>2, Zenon DEF Sent

\* A close is sent as one signal.
LEMMA ClosedSent ==
  ASSUME TypeOK, NEW n \in Notices \union Others
  PROVE  /\ <<Closed(n)>> \in Seq(Signal)
         /\ Sent(<<Closed(n)>>) \in [Notices -> Seq(Signal)]
<1>1. Closed(n) \in Signal
  BY NotifierAssumption DEF NotifierAssumption, Signal, Closed
<1>2. <<Closed(n)>> \in Seq(Signal)
  BY <1>1
<1> QED  BY <1>2, SentType

\* A process that becomes a window does so with one click.
LEMMA OpensType ==
  ASSUME TypeOK, NEW p \in Notices \union Servers, NEW click \in Click, Opens(p, click)
  PROVE  /\ window' \in [Notices \union Servers -> Click \union {None}]
         /\ slot' \in BOOLEAN
<1> DEFINE Shown == Click \union {None}
<1>1. click \in Shown /\ window \in [Notices \union Servers -> Shown]
  BY DEF TypeOK
<1> HIDE DEF Shown
<1>2. window' \in [Notices \union Servers -> Shown]
  BY <1>1 DEF Opens
<1> QED  BY <1>2 DEF Shown, Opens, Withdraw

\* The status page unasked is a click's.
LEMMA StatusType == [page |-> "status", token |-> 0] \in Click
  BY NotifierAssumption DEF NotifierAssumption, Click

\* The tail of a nonempty sequence is one.
LEMMA TailType ==
  ASSUME NEW S, NEW q \in Seq(S), q # <<>>
  PROVE  Tail(q) \in Seq(S) /\ Head(q) \in S
  BY HeadTailProperties

\* Every step of every process keeps the types.
LEMMA TypeStep == TypeOK /\ [Next]_vars => TypeOK'
<1> SUFFICES ASSUME TypeOK, [Next]_vars
             PROVE  TypeOK'
  OBVIOUS
<1> USE NotifierAssumption DEF NotifierAssumption, vars, fdoVars, busVars, deskVars, TypeOK
<1>1. ASSUME NEW n \in Notices, Waits(n)
      PROVE  TypeOK'
  <2>1. CASE PostToDesktop(n)  BY <2>1 DEF PostToDesktop
  <2>2. CASE Notify(n)  BY <2>2 DEF Notify
  <2>3. CASE NotifyFails(n)  BY <2>3 DEF NotifyFails
  <2>4. CASE Subscribe(n)  BY <2>4 DEF Subscribe
  <2>5. CASE GraceOver(n)  BY <2>5 DEF GraceOver
  <2>6. ASSUME Passes(n), box[n] # <<>>
        PROVE  box' \in [Notices -> Seq(Signal)]
    BY <2>6, TailType DEF Passes
  <2>7. CASE SkipsSignal(n)
    BY <2>6, <2>7 DEF SkipsSignal
  <2>8. CASE TakesToken(n)
    <3>1. Head(box[n]).token \in 0..MaxClicks
      <4>1. box[n] \in Seq(Signal) /\ box[n] # <<>>
        BY <2>8 DEF TakesToken, Own
      <4>2. Head(box[n]) \in Signal
        BY <4>1, TailType
      <4> QED  BY <4>2 DEF Signal
    <3> QED  BY <2>6, <2>8, <3>1 DEF TakesToken, Own
  <2>9. CASE TakesClose(n)
    BY <2>6, <2>9 DEF TakesClose, Own
  <2>10. CASE TakesClick(n)
    <3>1. Head(box[n]).page \in Pages
      <4>1. box[n] \in Seq(Signal) /\ box[n] # <<>>
        BY <2>10 DEF TakesClick, Own
      <4>2. Head(box[n]) \in Signal
        BY <4>1, TailType
      <4> QED  BY <4>2 DEF Signal
    <3>2. [page |-> Head(box[n]).page, token |-> token[n]] \in Click
      BY <3>1 DEF Click
    <3>3. Sent(<<Closed(n)>>) \in [Notices -> Seq(Signal)]
      BY ClosedSent
    <3>4. box' \in [Notices -> Seq(Signal)]
      <4>1. <<>> \in Seq(Signal)
        OBVIOUS
      <4>2. PICK sent \in [Notices -> Seq(Signal)] : box' = [sent EXCEPT ![n] = <<>>]
        BY <2>10, <3>3 DEF TakesClick
      <4> QED  BY <4>1, <4>2
    <3>5. /\ window' \in [Notices \union Servers -> Click \union {None}]
          /\ slot' \in BOOLEAN
      BY <2>10, <3>2, OpensType DEF TakesClick
    <3> QED  BY <2>10, <3>4, <3>5 DEF TakesClick
  <2> QED  BY <1>1, <2>1, <2>2, <2>3, <2>4, <2>5, <2>7, <2>8, <2>9, <2>10 DEF Waits, Takes
<1>2. ASSUME NEW n \in Notices \union Others, ClickNotice(n) \/ Dismiss(n)
      PROVE  TypeOK'
  <2>1. CASE Dismiss(n)
    <3>1. Sent(<<Closed(n)>>) \in [Notices -> Seq(Signal)]
      BY ClosedSent
    <3> QED  BY <2>1, <3>1 DEF Dismiss
  <2>2. CASE ClickNotice(n)
    <3>1. PICK page \in Pages :
            /\ box' = Sent(ClickSignals(n, page, TokenOf(clicks')))
            /\ heard' = IF Listens(n)
                        THEN [heard EXCEPT ![n] = @ \union {[page |-> page, token |-> TokenOf(clicks')]}]
                        ELSE heard
      BY <2>2 DEF ClickNotice, ClickSignals, TokenOf
    <3>2. clicks' = clicks + 1 /\ clicks' \in 1..MaxClicks
      BY <2>2 DEF ClickNotice
    <3>3. TokenOf(clicks') \in 0..MaxClicks /\ (TokenOf(clicks') = 0 <=> ~service.tokens)
      BY <3>2 DEF TokenOf
    <3>4. box' \in [Notices -> Seq(Signal)]
      BY <3>1, <3>3, ClickTells, SentType
    <3>5. heard' \in [Notices -> SUBSET Click]
      BY <3>1, <3>3 DEF Click, Listens
    <3>6. shown' \subseteq Notices \union Others /\ missed' \subseteq Notices \union Others
      BY <2>2 DEF ClickNotice
    <3>7. UNCHANGED <<service, slot, window, waiter, token, busVars>>
      BY <2>2 DEF ClickNotice
    <3> QED  BY <3>2, <3>4, <3>5, <3>6, <3>7
  <2> QED  BY <1>2, <2>1, <2>2
<1>3. ASSUME NEW s \in Servers, Serves(s)
      PROVE  TypeOK'
  <2>1. CASE StartServer(s)  BY <2>1 DEF StartServer
  <2>2. CASE RequestName(s)  BY <2>2 DEF RequestName
  <2>3. CASE NoBus(s)
    <3>1. /\ window' \in [Notices \union Servers -> Click \union {None}]
          /\ slot' \in BOOLEAN
      BY <2>3, OpensType, StatusType DEF NoBus
    <3> QED  BY <2>3, <3>1 DEF NoBus
  <2>4. CASE Answer(s)  BY <2>4 DEF Answer
  <2>5. CASE HandOver(s)
    <3>1. PICK c \in threads[s] :
            /\ threads' = [threads EXCEPT ![s] = @ \ {c}]
            /\ chan' = IF server[s] = "serves" THEN [chan EXCEPT ![s] = Append(@, c)] ELSE chan
      BY <2>5 DEF HandOver
    <3>2. c \in Click /\ chan[s] \in Seq(Click)
      OBVIOUS
    <3>3. Append(chan[s], c) \in Seq(Click)
      BY <3>2, AppendProperties
    <3>4. chan' \in [Servers -> Seq(Click)] /\ threads' \in [Servers -> SUBSET Click]
      BY <3>1, <3>3
    <3> QED  BY <2>5, <3>4 DEF HandOver
  <2>6. CASE OpenAsked(s)
    <3>1. chan[s] \in Seq(Click) /\ Head(chan[s]) \in Click
      BY <2>6, TailType DEF OpenAsked
    <3>2. /\ window' \in [Notices \union Servers -> Click \union {None}]
          /\ slot' \in BOOLEAN
      BY <2>6, <3>1, OpensType DEF OpenAsked
    <3>3. chan' \in [Servers -> Seq(Click)]
      BY <2>6 DEF OpenAsked
    <3> QED  BY <2>6, <3>2, <3>3 DEF OpenAsked
  <2>7. CASE OpenUnasked(s)
    <3>1. /\ window' \in [Notices \union Servers -> Click \union {None}]
          /\ slot' \in BOOLEAN
      BY <2>7, OpensType, StatusType DEF OpenUnasked
    <3> QED  BY <2>7, <3>1 DEF OpenUnasked
  <2> QED  BY <1>3, <2>1, <2>2, <2>3, <2>4, <2>5, <2>6, <2>7 DEF Serves
<1>4. CASE Activate
  <2>1. clicks' \in 0..MaxClicks /\ clicks' = clicks + 1
    BY <1>4 DEF Activate
  <2>2. calls' \subseteq Click
    BY <1>4, <2>1 DEF Activate, Click, TokenOf
  <2> QED  BY <1>4, <2>1, <2>2 DEF Activate
<1>5. CASE UNCHANGED vars  BY <1>5
<1> QED  BY <1>1, <1>2, <1>3, <1>4, <1>5 DEF Next

\* Every variable of Notifier keeps its type.
THEOREM TypeCorrect == Spec => []TypeOK
<1>1. Init => TypeOK
  <2> SUFFICES ASSUME Init
               PROVE  TypeOK
    OBVIOUS
  <2>1. <<>> \in Seq(Signal) /\ <<>> \in Seq(Click)
    OBVIOUS
  <2>2. service \in [tokens : BOOLEAN, closes : {"no", "before", "after"}] /\ slot \in BOOLEAN
    BY Zenon DEF Init
  <2>3. clicks \in 0..MaxClicks
    BY NotifierAssumption DEF NotifierAssumption, Init
  <2>4. window \in [Notices \union Servers -> Click \union {None}]
    <3> DEFINE Shown == Click \union {None}
    <3>1. None \in Shown
      OBVIOUS
    <3> HIDE DEF Shown
    <3>2. window \in [Notices \union Servers -> Shown]
      BY <3>1 DEF Init
    <3> QED  BY <3>2 DEF Shown
  <2>5. /\ shown \subseteq Notices \union Others /\ missed \subseteq Notices \union Others
        /\ waiter \in [Notices -> {"idle", "sent", "listens", "grace", "window", "done"}]
        /\ box \in [Notices -> Seq(Signal)]
        /\ token \in [Notices -> 0..MaxClicks]
        /\ heard \in [Notices -> SUBSET Click]
    BY NotifierAssumption, <2>1 DEF NotifierAssumption, Init
  <2>6. /\ calls \subseteq Click /\ owner \in Servers \union {None}
        /\ server \in [Servers -> {"idle", "started", "serves", "window", "done"}]
        /\ threads \in [Servers -> SUBSET Click]
        /\ chan \in [Servers -> Seq(Click)]
        /\ answered \in [Servers -> SUBSET Click]
    BY <2>1 DEF Init
  <2> QED  BY <2>2, <2>3, <2>4, <2>5, <2>6 DEF TypeOK
<1> QED  BY <1>1, TypeStep, PTL DEF Spec

(***************************************************************************)
(* A signal that tells of a click tells of a heard one, and, on a desktop  *)
(* with tokens, is preceded by its token, in the box or, once that was     *)
(* taken out, in token.  Without tokens there is only the empty one.       *)
(***************************************************************************)
Vouched(n, i) ==
  /\ ~service.tokens => box[n][i].token = 0
  /\ box[n][i].name = "ActionInvoked" /\ box[n][i].of = n =>
     /\ [page |-> box[n][i].page, token |-> box[n][i].token] \in heard[n]
     /\ service.tokens =>
          IF i = 1 THEN token[n] = box[n][i].token
                   ELSE box[n][i-1] = Token(n, box[n][i].token)

BoxInv ==
  \A n \in Notices :
    /\ ~service.tokens => token[n] = 0
    /\ \A i \in 1..Len(box[n]) : Vouched(n, i)

\* What a server hands on was answered.
ThreadInv ==
  \A s \in Servers :
    /\ threads[s] \subseteq answered[s]
    /\ \A i \in 1..Len(chan[s]) : chan[s][i] \in answered[s]

ClickInv == BoxInv /\ ThreadInv /\ WindowTellsItsClick

\* Signals that tell of a click each listener has heard keep the boxes in order.
LEMMA SentKeepsBoxes ==
  ASSUME TypeOK, BoxInv, NEW signals \in Seq(Signal),
         NEW m \in Notices \union Others, NEW page \in Pages, NEW t \in 0..MaxClicks,
         Tell(signals, m, page, t), UNCHANGED <<service, token>>,
         \A n \in Notices : box'[n] \in {box[n], Sent(signals)[n]},
         \A n \in Notices : heard[n] \subseteq heard'[n],
         Listens(m) => [page |-> page, token |-> t] \in heard'[m]
  PROVE  BoxInv'
<1>3. \A n \in Notices : ~service.tokens => token[n] = 0
  BY DEF BoxInv
<1> SUFFICES ASSUME NEW n \in Notices, NEW i \in 1..Len(box'[n])
             PROVE  Vouched(n, i)'
  BY <1>3 DEF BoxInv
<1>1. CASE box'[n] = box[n]
  <2>1. Vouched(n, i)
    BY <1>1 DEF BoxInv
  <2> QED  BY <1>1, <2>1 DEF Vouched, Token
<1>2. CASE box'[n] # box[n]
  <2>1. Listens(n) /\ box'[n] = box[n] \o signals
    BY <1>2, SentType
  <2>2. /\ box[n] \in Seq(Signal) /\ Len(box[n]) \in Nat /\ Len(signals) \in Nat
        /\ Len(box'[n]) = Len(box[n]) + Len(signals)
        /\ \A k \in 1..Len(box[n]) + Len(signals) :
             box'[n][k] = IF k <= Len(box[n]) THEN box[n][k] ELSE signals[k - Len(box[n])]
    <3>1. box[n] \in Seq(Signal)
      BY DEF TypeOK
    <3> QED  BY <2>1, <3>1, ConcatProperties, LenProperties
  <2>3. CASE i <= Len(box[n])
    <3>1. Vouched(n, i) /\ box'[n][i] = box[n][i]
      BY <2>2, <2>3 DEF BoxInv
    <3>2. i # 1 => box'[n][i-1] = box[n][i-1]
      <4>1. i # 1 => i - 1 \in 1..Len(box[n]) + Len(signals) /\ i - 1 <= Len(box[n])
        BY <2>2, <2>3
      <4> QED  BY <2>2, <4>1, Zenon
    <3> QED  BY <3>1, <3>2, Zenon DEF Vouched, Token
  <2>4. CASE ~(i <= Len(box[n]))
    <3> DEFINE j == i - Len(box[n])
    <3>1. j \in 1..Len(signals) /\ box'[n][i] = signals[j]
      BY <2>2, <2>4
    <3>2. j > 1 => i # 1 /\ box'[n][i-1] = signals[j-1]
      <4>1. j > 1 => /\ i # 1 /\ i - 1 \in 1..Len(box[n]) + Len(signals)
                     /\ ~(i - 1 <= Len(box[n])) /\ (i - 1) - Len(box[n]) = j - 1
        BY <2>2, <2>4
      <4> QED  BY <2>2, <4>1, Zenon
    <3> HIDE DEF j
    <3>3. ~service.tokens => signals[j].token = 0
      BY <3>1 DEF Tell
    <3>4. ASSUME signals[j].name = "ActionInvoked", signals[j].of = n
          PROVE  /\ [page |-> signals[j].page, token |-> signals[j].token] \in heard'[n]
                 /\ service.tokens => i # 1 /\ box'[n][i-1] = Token(n, signals[j].token)
      <4>1. signals[j] = Invoked(m, page, t) /\ (service.tokens => j > 1 /\ signals[j-1] = Token(m, t))
        BY <3>1, <3>4 DEF Tell
      <4>2. m = n /\ signals[j].page = page /\ signals[j].token = t
        BY <3>4, <4>1 DEF Invoked
      <4> QED  BY <2>1, <3>2, <4>1, <4>2
    <3> QED  BY <3>1, <3>3, <3>4, Zenon DEF Vouched, Token
  <2> QED  BY <2>3, <2>4
<1> QED  BY <1>1, <1>2

\* Taking a signal out of a box leaves the others in order, as long as its
\* token, when it is the notice's own, is kept.
LEMMA PassesKeepsBoxes ==
  ASSUME TypeOK, BoxInv, NEW n \in Notices, box[n] # <<>>, Passes(n),
         UNCHANGED <<service, heard>>,
         IF Head(box[n]).of = n /\ Head(box[n]).name = "ActivationToken"
           THEN token' = [token EXCEPT ![n] = Head(box[n]).token]
           ELSE token' = token
  PROVE  BoxInv'
<1>1. /\ box[n] \in Seq(Signal) /\ Len(box[n]) \in Nat \ {0} /\ Head(box[n]) = box[n][1]
      /\ n \in DOMAIN box /\ n \in DOMAIN token
  BY EmptySeq DEF TypeOK
<1>2. /\ \A m \in Notices : m # n => box'[m] = box[m] /\ token'[m] = token[m]
      /\ box'[n] = Tail(box[n])
  BY <1>1 DEF Passes, TypeOK
<1>3. /\ Len(box'[n]) = Len(box[n]) - 1
      /\ \A i \in 1..Len(box'[n]) : box'[n][i] = box[n][i+1]
  BY <1>1, <1>2, HeadTailProperties
<1>4. ASSUME NEW m \in Notices, m # n
      PROVE  /\ ~service'.tokens => token'[m] = 0
             /\ \A i \in 1..Len(box'[m]) : Vouched(m, i)'
  <2>1. box'[m] = box[m] /\ token'[m] = token[m] /\ service' = service /\ heard' = heard
    BY <1>2, <1>4
  <2>2. ~service.tokens => token[m] = 0
    BY DEF BoxInv
  <2>3. ASSUME NEW i \in 1..Len(box'[m])
        PROVE  Vouched(m, i)'
    <3>1. Vouched(m, i)
      BY <2>1, <2>3 DEF BoxInv
    <3> QED  BY <2>1, <3>1, Zenon DEF Vouched, Token
  <2> QED  BY <2>1, <2>2, <2>3
<1>5. ASSUME ~service.tokens
      PROVE  token'[n] = 0
  <2>1. token[n] = 0
    BY <1>5 DEF BoxInv
  <2>2. Vouched(n, 1)
    <3>1. 1 \in 1..Len(box[n])
      BY <1>1
    <3> QED  BY <3>1, Zenon DEF BoxInv
  <2>3. box[n][1].token = 0
    BY <1>5, <2>2 DEF Vouched
  <2> QED  BY <1>1, <2>1, <2>3 DEF TypeOK
<1>6. ASSUME NEW i \in 1..Len(box'[n])
      PROVE  Vouched(n, i)'
  <2>1. i + 1 \in 1..Len(box[n]) /\ i + 1 # 1 /\ (i + 1) - 1 = i /\ i \in 1..Len(box[n])
    BY <1>1, <1>3
  <2>2. Vouched(n, i + 1) /\ box'[n][i] = box[n][i + 1]
    BY <1>3, <2>1 DEF BoxInv
  <2>3. CASE i = 1
    <3>1. ASSUME service.tokens, box[n][2].name = "ActionInvoked", box[n][2].of = n
          PROVE  token'[n] = box[n][2].token
      <4>1. box[n][1] = Token(n, box[n][2].token)
        BY <2>1, <2>2, <2>3, <3>1 DEF Vouched
      <4>2. token' = [token EXCEPT ![n] = Head(box[n]).token]
        BY <1>1, <4>1 DEF Token
      <4> QED  BY <1>1, <4>1, <4>2 DEF Token
    <3> QED  BY <2>2, <2>3, <3>1 DEF Vouched
  <2>4. CASE i # 1
    <3>1. i - 1 \in 1..Len(box'[n]) /\ (i - 1) + 1 = i
      BY <1>1, <1>3, <2>4
    <3>2. box'[n][i-1] = box[n][i]
      BY <1>3, <3>1
    <3> QED  BY <2>1, <2>2, <2>4, <3>2 DEF Vouched, Token
  <2> QED  BY <2>3, <2>4
<1> QED  BY <1>4, <1>5, <1>6 DEF BoxInv

\* A close leaves a box in order, as it was, longer by the close, or empty.
LEMMA CloseKeepsBox ==
  ASSUME TypeOK, BoxInv, NEW n \in Notices \union Others, NEW m \in Notices,
         UNCHANGED <<service, token, heard>>,
         box'[m] \in {box[m], Sent(<<Closed(n)>>)[m], <<>>},
         NEW i \in 1..Len(box'[m])
  PROVE  Vouched(m, i)'
<1>1. CASE box'[m] = box[m]
  <2>1. Vouched(m, i)
    BY <1>1 DEF BoxInv
  <2> QED  BY <1>1, <2>1, Zenon DEF Vouched, Token
<1>2. CASE box'[m] # box[m] /\ Len(box'[m]) # 0
  <2>1. box'[m] = box[m] \o <<Closed(n)>> /\ box[m] \in Seq(Signal)
    <3>1. Sent(<<Closed(n)>>)[m] \in {box[m], box[m] \o <<Closed(n)>>}
      BY SentType, ClosedSent
    <3>2. box'[m] # <<>>
      BY <1>2
    <3> QED  BY <1>2, <3>1, <3>2 DEF TypeOK
  <2>2. /\ Len(box[m]) \in Nat /\ Len(box'[m]) = Len(box[m]) + 1
        /\ \A k \in 1..Len(box[m]) + 1 :
             box'[m][k] = IF k <= Len(box[m]) THEN box[m][k] ELSE Closed(n)
    <3>1. <<Closed(n)>> \in Seq(Signal) /\ Len(<<Closed(n)>>) = 1 /\ <<Closed(n)>>[1] = Closed(n)
      BY ClosedSent
    <3> HIDE DEF Closed
    <3> QED  BY <2>1, <3>1, ConcatProperties, LenProperties
  <2>3. CASE i <= Len(box[m])
    <3>1. Vouched(m, i) /\ box'[m][i] = box[m][i]
      BY <2>2, <2>3 DEF BoxInv
    <3>2. i # 1 => box'[m][i-1] = box[m][i-1]
      <4>1. i # 1 => i - 1 \in 1..Len(box[m]) + 1 /\ i - 1 <= Len(box[m])
        BY <2>2, <2>3
      <4> QED  BY <2>2, <4>1, Zenon
    <3> QED  BY <3>1, <3>2, Zenon DEF Vouched, Token
  <2>4. CASE ~(i <= Len(box[m]))
    <3>1. box'[m][i] = Closed(n)
      BY <2>2, <2>4
    <3> QED  BY <3>1 DEF Vouched, Closed
  <2> QED  BY <2>3, <2>4
<1>3. CASE Len(box'[m]) = 0
  BY <1>3
<1> QED  BY <1>1, <1>2, <1>3

\* No process loses the order of its signals or the token that belongs to one.
LEMMA BoxStep == TypeOK /\ BoxInv /\ [Next]_vars => BoxInv'
<1> SUFFICES ASSUME TypeOK, BoxInv, [Next]_vars
             PROVE  BoxInv'
  OBVIOUS
<1> USE DEF vars, fdoVars, busVars, deskVars
<1>1. ASSUME UNCHANGED <<service, box, token, heard>>
      PROVE  BoxInv'
  BY <1>1 DEF BoxInv, Vouched, Token
<1>2. ASSUME NEW n \in Notices, Waits(n)
      PROVE  BoxInv'
  <2>1. CASE PostToDesktop(n) \/ Notify(n) \/ NotifyFails(n) \/ Subscribe(n) \/ GraceOver(n)
    BY <1>1, <2>1 DEF PostToDesktop, Notify, NotifyFails, Subscribe, GraceOver
  <2>2. CASE SkipsSignal(n)
    BY <2>2, PassesKeepsBoxes DEF SkipsSignal, Own
  <2>3. CASE TakesToken(n)
    BY <2>3, PassesKeepsBoxes DEF TakesToken, Own
  <2>4. CASE TakesClose(n)
    BY <2>4, PassesKeepsBoxes DEF TakesClose, Own
  <2>5. CASE TakesClick(n)
    <3> DEFINE sent == IF n \in shown THEN Sent(<<Closed(n)>>) ELSE box
    <3>1. box' = [sent EXCEPT ![n] = <<>>] /\ UNCHANGED <<service, token, heard>>
      BY <2>5 DEF TakesClick
    <3>2. sent \in [Notices -> Seq(Signal)]
      BY ClosedSent DEF TypeOK
    <3>3. box'[n] = <<>> /\ Len(box'[n]) = 0 /\ \A m \in Notices : m # n => box'[m] = sent[m]
      <4> HIDE DEF sent
      <4> QED  BY <3>1, <3>2
    <3>4. \A m \in Notices : m # n => box'[m] \in {box[m], Sent(<<Closed(n)>>)[m]}
      BY <3>3
    <3>5. ASSUME NEW m \in Notices, m # n, NEW i \in 1..Len(box'[m])
          PROVE  Vouched(m, i)'
      BY <3>1, <3>4, <3>5, CloseKeepsBox
    <3>6. \A m \in Notices : ~service'.tokens => token'[m] = 0
      BY <3>1 DEF BoxInv
    <3>7. \A i \in 1..Len(box'[n]) : Vouched(n, i)'
      BY <3>3
    <3> QED  BY <3>5, <3>6, <3>7 DEF BoxInv
  <2> QED  BY <1>2, <2>1, <2>2, <2>3, <2>4, <2>5 DEF Waits, Takes
<1>3. ASSUME NEW n \in Notices \union Others, ClickNotice(n) \/ Dismiss(n)
      PROVE  BoxInv'
  <2>1. CASE Dismiss(n)
    <3>1. box' = Sent(<<Closed(n)>>) /\ UNCHANGED <<service, token, heard>>
      BY <2>1 DEF Dismiss
    <3> QED  BY <3>1, CloseKeepsBox DEF BoxInv
  <2>2. CASE ClickNotice(n)
    <3>1. PICK page \in Pages :
            /\ box' = Sent(ClickSignals(n, page, TokenOf(clicks')))
            /\ heard' = IF Listens(n)
                        THEN [heard EXCEPT ![n] = @ \union {[page |-> page, token |-> TokenOf(clicks')]}]
                        ELSE heard
      BY <2>2 DEF ClickNotice, ClickSignals, TokenOf
    <3>2. /\ TokenOf(clicks') \in 0..MaxClicks
          /\ TokenOf(clicks') = 0 <=> ~service.tokens
      BY <2>2, NotifierAssumption DEF ClickNotice, TokenOf, TypeOK, NotifierAssumption
    <3>3. /\ ClickSignals(n, page, TokenOf(clicks')) \in Seq(Signal)
          /\ Tell(ClickSignals(n, page, TokenOf(clicks')), n, page, TokenOf(clicks'))
      BY <3>2, ClickTells
    <3>4. \A m \in Notices : heard[m] \subseteq heard'[m]
      BY <3>1 DEF TypeOK
    <3>5. Listens(n) => [page |-> page, token |-> TokenOf(clicks')] \in heard'[n]
      BY <3>1 DEF TypeOK, Listens
    <3>6. UNCHANGED <<service, token>>
      BY <2>2 DEF ClickNotice
    <3> QED  BY <3>1, <3>2, <3>3, <3>4, <3>5, <3>6, SentKeepsBoxes
  <2> QED  BY <1>3, <2>1, <2>2
<1>4. ASSUME NEW s \in Servers, Serves(s)
      PROVE  BoxInv'
  BY <1>1, <1>4 DEF Serves, StartServer, RequestName, NoBus, Answer, HandOver, OpenAsked, OpenUnasked
<1>5. CASE Activate
  BY <1>1, <1>5 DEF Activate
<1>6. CASE UNCHANGED vars
  BY <1>1, <1>6
<1> QED  BY <1>2, <1>3, <1>4, <1>5, <1>6 DEF Next

\* A thread and the main thread hand on what was answered, whatever overtakes what.
LEMMA ThreadStep == TypeOK /\ ThreadInv /\ [Next]_vars => ThreadInv'
<1> SUFFICES ASSUME TypeOK, ThreadInv, [Next]_vars
             PROVE  ThreadInv'
  OBVIOUS
<1> USE DEF vars, fdoVars, busVars, deskVars, ThreadInv
<1>1. ASSUME UNCHANGED <<threads, chan, answered>>
      PROVE  ThreadInv'
  BY <1>1
<1>2. ASSUME NEW n \in Notices, Waits(n)
      PROVE  ThreadInv'
  BY <1>1, <1>2 DEF Waits, PostToDesktop, Notify, NotifyFails, Subscribe, GraceOver, Takes,
     SkipsSignal, TakesToken, TakesClick, TakesClose
<1>3. ASSUME NEW n \in Notices \union Others, ClickNotice(n) \/ Dismiss(n)
      PROVE  ThreadInv'
  BY <1>1, <1>3 DEF ClickNotice, Dismiss
<1>4. ASSUME NEW s \in Servers, Serves(s)
      PROVE  ThreadInv'
  <2>1. CASE StartServer(s) \/ RequestName(s) \/ NoBus(s) \/ OpenUnasked(s)
    BY <1>1, <2>1 DEF StartServer, RequestName, NoBus, OpenUnasked
  <2>2. CASE Answer(s)
    <3>1. /\ chan' = chan
          /\ \A r \in Servers : answered[r] \subseteq answered'[r]
          /\ \A r \in Servers : threads'[r] \subseteq answered'[r]
      BY <2>2 DEF Answer, TypeOK
    <3> QED  BY <3>1
  <2>3. CASE HandOver(s)
    <3>1. PICK c \in threads[s] :
            /\ threads' = [threads EXCEPT ![s] = @ \ {c}]
            /\ chan' = IF server[s] = "serves" THEN [chan EXCEPT ![s] = Append(@, c)] ELSE chan
      BY <2>3 DEF HandOver
    <3>2. UNCHANGED answered
      BY <2>3 DEF HandOver
    <3>3. \A r \in Servers : threads'[r] \subseteq answered'[r]
      BY <3>1, <3>2 DEF TypeOK
    <3>4. ASSUME NEW r \in Servers, NEW i \in 1..Len(chan'[r])
          PROVE  chan'[r][i] \in answered'[r]
      <4>1. CASE chan'[r] = chan[r]
        BY <3>2, <3>4, <4>1
      <4>2. CASE chan'[r] # chan[r]
        <5>1. r = s /\ chan'[s] = Append(chan[s], c) /\ chan[s] \in Seq(Click) /\ c \in Click
          BY <3>1, <4>2 DEF TypeOK
        <5>2. /\ Len(chan[s]) \in Nat /\ Len(chan'[s]) = Len(chan[s]) + 1
              /\ chan'[s][Len(chan[s]) + 1] = c
              /\ \A k \in 1..Len(chan[s]) : chan'[s][k] = chan[s][k]
          BY <5>1, AppendProperties, LenProperties
        <5>3. i \in 1..Len(chan[s]) \/ i = Len(chan[s]) + 1
          BY <5>1, <5>2
        <5>4. c \in answered[s]
          BY <3>1
        <5> QED  BY <3>2, <5>1, <5>2, <5>3, <5>4
      <4> QED  BY <4>1, <4>2
    <3> QED  BY <3>3, <3>4
  <2>4. CASE OpenAsked(s)
    <3>1. UNCHANGED <<threads, answered>> /\ chan' = [chan EXCEPT ![s] = <<>>]
      BY <2>4 DEF OpenAsked
    <3>2. \A r \in Servers : chan'[r] = chan[r] \/ Len(chan'[r]) = 0
      BY <3>1 DEF TypeOK
    <3> QED  BY <3>1, <3>2
  <2> QED  BY <1>4, <2>1, <2>2, <2>3, <2>4 DEF Serves
<1>5. CASE Activate
  BY <1>1, <1>5 DEF Activate
<1>6. CASE UNCHANGED vars
  BY <1>1, <1>6
<1> QED  BY <1>2, <1>3, <1>4, <1>5, <1>6 DEF Next

\* A process becomes a window on a click it heard or answered, or unasked, and
\* a window it stays.
LEMMA WindowStep == TypeOK /\ ClickInv /\ [Next]_vars => WindowTellsItsClick'
<1> SUFFICES ASSUME TypeOK, ClickInv, [Next]_vars
             PROVE  WindowTellsItsClick'
  OBVIOUS
<1> DEFINE Status == [page |-> "status", token |-> 0]
<1> USE DEF vars, fdoVars, busVars, deskVars
<1>1. ASSUME \A n \in Notices : heard[n] \subseteq heard'[n],
             \A s \in Servers : answered[s] \subseteq answered'[s],
             \A n \in Notices : waiter'[n] = "window" =>
               (waiter[n] = "window" /\ window'[n] = window[n]) \/ window'[n] \in heard'[n],
             \A s \in Servers : server'[s] = "window" =>
               (server[s] = "window" /\ window'[s] = window[s]) \/ window'[s] \in answered'[s] \union {Status}
      PROVE  WindowTellsItsClick'
  BY <1>1 DEF ClickInv, WindowTellsItsClick
<1> HIDE DEF Status
<1>2. ASSUME NEW n \in Notices, Waits(n)
      PROVE  WindowTellsItsClick'
  <2>1. /\ \A m \in Notices : heard[m] \subseteq heard'[m]
        /\ \A s \in Servers : answered[s] \subseteq answered'[s]
        /\ server' = server
    BY <1>2 DEF Waits, PostToDesktop, Notify, NotifyFails, Subscribe, GraceOver, Takes, SkipsSignal,
       TakesToken, TakesClick, TakesClose
  <2>2. CASE TakesClick(n)
    <3>1. /\ waiter' = [waiter EXCEPT ![n] = "window"] /\ heard' = heard
          /\ window' = [window EXCEPT ![n] = [page |-> Head(box[n]).page, token |-> token[n]]]
          /\ box[n] # <<>> /\ Head(box[n]).of = n /\ Head(box[n]).name = "ActionInvoked"
      BY <2>2 DEF TakesClick, Own, Opens
    <3>2. Vouched(n, 1) /\ Head(box[n]) = box[n][1]
      <4>1. 1 \in 1..Len(box[n]) /\ Head(box[n]) = box[n][1]
        BY <3>1, EmptySeq DEF TypeOK
      <4> QED  BY <4>1, Zenon DEF ClickInv, BoxInv
    <3>3. token[n] = Head(box[n]).token
      BY <3>1, <3>2 DEF Vouched, ClickInv, BoxInv
    <3>4. [page |-> Head(box[n]).page, token |-> token[n]] \in heard[n]
      BY <3>1, <3>2, <3>3 DEF Vouched
    <3>5. window'[n] \in heard'[n]
      BY <3>1, <3>4 DEF TypeOK
    <3>6. \A m \in Notices : m # n => waiter'[m] = waiter[m] /\ window'[m] = window[m]
      BY <3>1 DEF TypeOK
    <3>7. \A s \in Servers : s # n /\ window'[s] = window[s]
      BY <3>1, NotifierAssumption DEF TypeOK, NotifierAssumption
    <3> QED  BY <1>1, <2>1, <3>5, <3>6, <3>7
  <2>3. CASE ~TakesClick(n)
    <3>1. window' = window /\ \A m \in Notices : waiter'[m] = "window" => waiter[m] = "window"
      BY <1>2, <2>3 DEF TypeOK, Waits, PostToDesktop, Notify, NotifyFails, Subscribe, GraceOver, Takes,
         SkipsSignal, TakesToken, TakesClose
    <3> QED  BY <1>1, <2>1, <3>1
  <2> QED  BY <2>2, <2>3
<1>3. ASSUME NEW n \in Notices \union Others, ClickNotice(n) \/ Dismiss(n)
      PROVE  WindowTellsItsClick'
  <2>1. UNCHANGED <<waiter, window, server, answered>>
    BY <1>3 DEF ClickNotice, Dismiss
  <2>2. \A m \in Notices : heard[m] \subseteq heard'[m]
    <3>1. heard' = heard \/ \E c : heard' = [heard EXCEPT ![n] = @ \union {c}]
      BY <1>3, Zenon DEF ClickNotice, Dismiss
    <3>2. CASE heard' = heard
      BY <3>2
    <3>3. ASSUME NEW c, heard' = [heard EXCEPT ![n] = @ \union {c}]
          PROVE  \A m \in Notices : heard[m] \subseteq heard'[m]
      <4>1. \A m \in Notices : heard'[m] = IF m = n THEN heard[m] \union {c} ELSE heard[m]
        BY <3>3 DEF TypeOK
      <4> QED  BY <4>1
    <3> QED  BY <3>1, <3>2, <3>3
  <2> QED  BY <1>1, <2>1, <2>2
<1>4. ASSUME NEW s \in Servers, Serves(s)
      PROVE  WindowTellsItsClick'
  <2>1. UNCHANGED <<waiter, heard>>
    BY <1>4 DEF Serves, StartServer, RequestName, NoBus, Answer, HandOver, OpenAsked, OpenUnasked
  <2>2. \A r \in Servers : answered[r] \subseteq answered'[r]
    <3>1. answered' = answered \/ \E c : answered' = [answered EXCEPT ![s] = @ \union {c}]
      BY <1>4, Zenon DEF Serves, StartServer, RequestName, NoBus, Answer, HandOver, OpenAsked,
         OpenUnasked
    <3>2. CASE answered' = answered
      BY <3>2
    <3>3. ASSUME NEW c, answered' = [answered EXCEPT ![s] = @ \union {c}]
          PROVE  \A r \in Servers : answered[r] \subseteq answered'[r]
      <4>1. \A r \in Servers : answered'[r] = IF r = s THEN answered[r] \union {c} ELSE answered[r]
        BY <3>3 DEF TypeOK
      <4> QED  BY <4>1
    <3> QED  BY <3>1, <3>2, <3>3
  <2>3. CASE NoBus(s) \/ OpenAsked(s) \/ OpenUnasked(s)
    <3>1. PICK click : window' = [window EXCEPT ![s] = click] /\ click \in answered[s] \union {Status}
      <4>1. CASE NoBus(s) \/ OpenUnasked(s)
        BY <4>1 DEF NoBus, OpenUnasked, Opens, Status
      <4>2. CASE OpenAsked(s)
        <5>1. chan[s] # <<>> /\ chan[s] \in Seq(Click) /\ window' = [window EXCEPT ![s] = Head(chan[s])]
          BY <4>2 DEF OpenAsked, Opens, TypeOK
        <5>2. 1 \in 1..Len(chan[s]) /\ Head(chan[s]) = chan[s][1]
          BY <5>1, EmptySeq
        <5>3. Head(chan[s]) \in answered[s]
          BY <5>2 DEF ClickInv, ThreadInv
        <5> QED  BY <5>1, <5>3
      <4> QED  BY <2>3, <4>1, <4>2
    <3>2. server' = [server EXCEPT ![s] = "window"]
      BY <2>3 DEF NoBus, OpenAsked, OpenUnasked
    <3>3. \A n \in Notices : n # s /\ window'[n] = window[n]
      BY <3>1, NotifierAssumption DEF TypeOK, NotifierAssumption
    <3>4. window'[s] \in answered'[s] \union {Status}
      BY <2>2, <3>1 DEF TypeOK
    <3>5. \A r \in Servers : r # s => window'[r] = window[r] /\ server'[r] = server[r]
      BY <3>1, <3>2 DEF TypeOK
    <3> QED  BY <1>1, <2>1, <2>2, <3>3, <3>4, <3>5
  <2>4. CASE StartServer(s) \/ RequestName(s) \/ Answer(s) \/ HandOver(s)
    <3>1. window' = window /\ \A r \in Servers : server'[r] = "window" => server[r] = "window"
      BY <2>4 DEF StartServer, RequestName, Answer, HandOver, TypeOK
    <3> QED  BY <1>1, <2>1, <2>2, <3>1
  <2> QED  BY <1>4, <2>3, <2>4 DEF Serves
<1>5. CASE Activate
  BY <1>1, <1>5 DEF Activate
<1>6. CASE UNCHANGED vars
  BY <1>1, <1>6
<1> QED  BY <1>2, <1>3, <1>4, <1>5, <1>6 DEF Next

(***************************************************************************)
(* However many notices of whatever programs, servers, clicks and swapped  *)
(* threads there are: a window shows the page, with the token, of a click  *)
(* its own process heard or answered, or status unasked.                   *)
(***************************************************************************)
THEOREM WindowTellsItsClickHolds == Spec => []WindowTellsItsClick
<1>1. Init => ClickInv
  BY DEF Init, ClickInv, BoxInv, ThreadInv, WindowTellsItsClick
<1>2. TypeOK /\ ClickInv /\ [Next]_vars => ClickInv'
  BY BoxStep, ThreadStep, WindowStep DEF ClickInv
<1>3. ClickInv => WindowTellsItsClick
  BY DEF ClickInv
<1> QED  BY <1>1, <1>2, <1>3, TypeCorrect, PTL DEF Spec

-----------------------------------------------------------------------------
(***************************************************************************)
(* What a server answered is on its way while it listens.  Only the owner  *)
(* of the name answers, it listens, and before that it answered nothing.   *)
(***************************************************************************)
Queued(s) == {chan[s][i] : i \in DOMAIN chan[s]}

KeptInv ==
  \A s \in Servers :
    /\ owner = s => server[s] = "serves"
    /\ server[s] \in {"idle", "started"} =>
         answered[s] = {} /\ threads[s] = {} /\ chan[s] = <<>>
    /\ server[s] = "serves" => answered[s] = threads[s] \union Queued(s)

\* An empty channel holds nothing, and one that is appended to one more.
LEMMA QueuedIs ==
  ASSUME NEW q \in Seq(Click), NEW c \in Click
  PROVE  /\ q = <<>> => {q[i] : i \in DOMAIN q} = {}
         /\ {Append(q, c)[i] : i \in DOMAIN Append(q, c)} = {q[i] : i \in DOMAIN q} \union {c}
<1> DEFINE n == Len(q)
           a == Append(q, c)
<1>1. /\ n \in Nat /\ DOMAIN q = 1..n /\ DOMAIN a = 1..(n + 1)
      /\ a[n + 1] = c /\ \A i \in 1..n : a[i] = q[i]
  BY AppendProperties, LenProperties
<1> HIDE DEF n, a
<1>2. DOMAIN a = DOMAIN q \union {n + 1}
  BY <1>1
<1>3. {a[i] : i \in DOMAIN a} = {q[i] : i \in DOMAIN q} \union {c}
  BY <1>1, <1>2
<1>4. q = <<>> => {q[i] : i \in DOMAIN q} = {}
  OBVIOUS
<1> QED  BY <1>3, <1>4 DEF a

LEMMA KeptInit == Init => KeptInv
<1> SUFFICES ASSUME Init, NEW s \in Servers
             PROVE  /\ owner # s /\ server[s] = "idle"
                    /\ answered[s] = {} /\ threads[s] = {} /\ chan[s] = <<>>
  BY DEF KeptInv
<1> QED  BY NotifierAssumption DEF Init, NotifierAssumption

LEMMA KeptStep == TypeOK /\ KeptInv /\ [Next]_vars => KeptInv'
<1> SUFFICES ASSUME TypeOK, KeptInv, [Next]_vars
             PROVE  KeptInv'
  OBVIOUS
<1> USE DEF vars, fdoVars, busVars, deskVars
<1>1. ASSUME UNCHANGED <<owner, server, threads, chan, answered>>
      PROVE  KeptInv'
  BY <1>1 DEF KeptInv, Queued
<1>2. ASSUME NEW n \in Notices, Waits(n)
      PROVE  KeptInv'
  BY <1>1, <1>2 DEF Waits, PostToDesktop, Notify, NotifyFails, Subscribe, GraceOver, Takes,
     SkipsSignal, TakesToken, TakesClick, TakesClose
<1>3. ASSUME NEW n \in Notices \union Others, ClickNotice(n) \/ Dismiss(n)
      PROVE  KeptInv'
  BY <1>1, <1>3 DEF ClickNotice, Dismiss
<1>4. ASSUME NEW s \in Servers, Serves(s)
      PROVE  KeptInv'
  <2> SUFFICES ASSUME NEW r \in Servers
               PROVE  /\ owner' = r => server'[r] = "serves"
                      /\ server'[r] \in {"idle", "started"} =>
                           answered'[r] = {} /\ threads'[r] = {} /\ chan'[r] = <<>>
                      /\ server'[r] = "serves" => answered'[r] = threads'[r] \union Queued(r)'
    BY DEF KeptInv
  <2>0. /\ owner = r => server[r] = "serves"
        /\ server[r] \in {"idle", "started"} =>
             answered[r] = {} /\ threads[r] = {} /\ chan[r] = <<>>
        /\ server[r] = "serves" => answered[r] = threads[r] \union Queued(r)
        /\ chan[r] = <<>> => Queued(r) = {}
    BY DEF KeptInv, Queued
  <2>1. CASE StartServer(s) \/ RequestName(s) \/ NoBus(s) \/ OpenUnasked(s)
    <3>1. UNCHANGED <<threads, chan, answered>> /\ Queued(r)' = Queued(r)
      BY <2>1 DEF StartServer, RequestName, NoBus, OpenUnasked, Queued
    <3>2. CASE StartServer(s)
      <4>1. owner' = owner /\ server[s] = "idle" /\ server' = [server EXCEPT ![s] = "started"]
        BY <3>2 DEF StartServer
      <4> QED  BY <2>0, <3>1, <4>1 DEF TypeOK
    <3>3. CASE RequestName(s)
      <4>1. /\ server[s] = "started"
            /\ owner' = IF owner = None THEN s ELSE owner
            /\ server' = [server EXCEPT ![s] = IF owner = None THEN "serves" ELSE "done"]
        BY <3>3 DEF RequestName
      <4>2. CASE r = s
        BY <2>0, <3>1, <4>1, <4>2 DEF TypeOK
      <4>3. CASE r # s
        BY <2>0, <3>1, <4>1, <4>3 DEF TypeOK
      <4> QED  BY <4>2, <4>3
    <3>4. CASE NoBus(s)
      <4>1. owner' = owner /\ server[s] = "started" /\ server' = [server EXCEPT ![s] = "window"]
        BY <3>4 DEF NoBus
      <4> QED  BY <2>0, <3>1, <4>1 DEF TypeOK
    <3>5. CASE OpenUnasked(s)
      <4>1. owner' = None /\ server' = [server EXCEPT ![s] = "window"] /\ r # None
        BY <3>5, NotifierAssumption DEF OpenUnasked, NotifierAssumption
      <4> QED  BY <2>0, <3>1, <4>1 DEF TypeOK
    <3> QED  BY <2>1, <3>2, <3>3, <3>4, <3>5
  <2>2. CASE Answer(s)
    <3>1. PICK c \in calls :
            /\ threads' = [threads EXCEPT ![s] = @ \union {c}]
            /\ answered' = [answered EXCEPT ![s] = @ \union {c}]
      BY <2>2 DEF Answer
    <3>2. owner = s /\ UNCHANGED <<owner, server, chan>> /\ Queued(r)' = Queued(r)
      BY <2>2 DEF Answer, Queued
    <3>3. CASE r = s
      BY <2>0, <3>1, <3>2, <3>3 DEF TypeOK
    <3>4. CASE r # s
      BY <2>0, <3>1, <3>2, <3>4 DEF TypeOK
    <3> QED  BY <3>3, <3>4
  <2>3. CASE HandOver(s)
    <3>1. PICK c \in threads[s] :
            /\ threads' = [threads EXCEPT ![s] = @ \ {c}]
            /\ chan' = IF server[s] = "serves" THEN [chan EXCEPT ![s] = Append(@, c)] ELSE chan
      BY <2>3 DEF HandOver
    <3>2. UNCHANGED <<owner, server, answered>>
      BY <2>3 DEF HandOver
    <3>3. CASE r = s /\ server[s] = "serves"
      <4>1. chan[s] \in Seq(Click) /\ c \in Click /\ chan'[s] = Append(chan[s], c)
        BY <3>1, <3>3 DEF TypeOK
      <4>2. Queued(s)' = Queued(s) \union {c}
        BY <4>1, QueuedIs DEF Queued
      <4>3. threads'[s] = threads[s] \ {c}
        BY <3>1 DEF TypeOK
      <4> QED  BY <2>0, <3>1, <3>2, <3>3, <4>2, <4>3
    <3>4. CASE r = s /\ server[s] # "serves"
      BY <2>0, <3>1, <3>2, <3>4 DEF TypeOK
    <3>5. CASE r # s
      <4>1. threads'[r] = threads[r] /\ chan'[r] = chan[r]
        BY <3>1, <3>5 DEF TypeOK
      <4>2. Queued(r)' = Queued(r)
        BY <4>1 DEF Queued
      <4> QED  BY <2>0, <3>2, <4>1, <4>2
    <3> QED  BY <3>3, <3>4, <3>5
  <2>4. CASE OpenAsked(s)
    <3>1. /\ owner' = None /\ server' = [server EXCEPT ![s] = "window"] /\ r # None
          /\ chan' = [chan EXCEPT ![s] = <<>>] /\ UNCHANGED <<threads, answered>>
      BY <2>4, NotifierAssumption DEF OpenAsked, NotifierAssumption
    <3>2. CASE r = s
      BY <3>1, <3>2 DEF TypeOK
    <3>3. CASE r # s
      <4>1. chan'[r] = chan[r] /\ server'[r] = server[r]
        BY <3>1, <3>3 DEF TypeOK
      <4>2. Queued(r)' = Queued(r)
        BY <4>1 DEF Queued
      <4> QED  BY <2>0, <3>1, <4>1, <4>2
    <3> QED  BY <3>2, <3>3
  <2> QED  BY <1>4, <2>1, <2>2, <2>3, <2>4 DEF Serves
<1>5. CASE Activate
  BY <1>1, <1>5 DEF Activate
<1>6. CASE UNCHANGED vars
  BY <1>1, <1>6
<1> QED  BY <1>2, <1>3, <1>4, <1>5, <1>6 DEF Next

(***************************************************************************)
(* However many servers and activations there are, and however the threads *)
(* overtake each other: what a listening server answered is on its way.    *)
(***************************************************************************)
THEOREM AnswersAreKeptHolds == Spec => []AnswersAreKept
<1>1. KeptInv => AnswersAreKept
  BY DEF KeptInv, AnswersAreKept, Queued
<1> QED  BY <1>1, KeptInit, KeptStep, TypeCorrect, PTL DEF Spec
=============================================================================
