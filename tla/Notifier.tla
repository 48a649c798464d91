------------------------------ MODULE Notifier ------------------------------
(***************************************************************************)
(* The desktop notice and what a click on it does:                         *)
(* crates/am5-spd-diag-notify/src/main.rs, with notify_desktop of hub.rs   *)
(* and normalize_action of notify.rs.                                      *)
(*                                                                         *)
(* notify_desktop starts a process for every notice.  It posts the notice  *)
(* with the desktop's own service and ends, or with the freedesktop one    *)
(* and waits for its signals.  A click on a notice of the first kind, or   *)
(* on the program's icon, is an activation over D-Bus, for which the bus   *)
(* starts a server process.  Both kinds of process end as a window.        *)
(***************************************************************************)
EXTENDS Naturals, Sequences, FiniteSets

CONSTANTS
  Notices,    \* processes that post a notice, and the notices
  Others,     \* notices of other programs
  Servers,    \* processes started with --activated
  Pages,      \* pages a notice offers
  MaxClicks,  \* bound: clicks
  None

ASSUME NotifierAssumption ==
  /\ Notices \intersect (Others \union Servers) = {}
  /\ "status" \in Pages
  /\ MaxClicks \in Nat
  /\ None \notin Notices \union Servers

VARIABLES
  service,  \* the desktop: gives activation tokens, closes notices when clicked
  clicks,   \* clicks so far; a click's number is its activation token
  shown,    \* notices on the freedesktop service
  slot,     \* a notice is on the desktop's service, which keeps one
  waiter,   \* the process of each notice
  box,      \* signals on their way to it
  token,    \* the activation token it has got
  calls,    \* activations on the bus
  owner,    \* the server that owns the program's name
  server,   \* the servers
  threads,  \* activations a server has answered, each held by a thread
  chan,     \* activations handed over to its main thread
  window,   \* what each window was opened with
  heard,    \* history: the clicks on each notice while its process listened
  missed,   \* history: notices closed while their process did not listen yet
  answered  \* history: the activations each server has answered

fdoVars  == <<shown, waiter, box, token, heard, missed>>
busVars  == <<calls, owner, server, threads, chan, answered>>
deskVars == <<service, clicks, slot, window>>
vars     == <<deskVars, fdoVars, busVars>>

Click  == [page : Pages, token : 0..MaxClicks]
Signal == [name : {"ActivationToken", "ActionInvoked", "NotificationClosed"}, of : Notices \union Others,
           page : Pages, token : 0..MaxClicks]

TypeOK ==
  /\ service \in [tokens : BOOLEAN, closes : {"no", "before", "after"}]
  /\ clicks \in 0..MaxClicks
  /\ shown \subseteq Notices \union Others
  /\ slot \in BOOLEAN
  /\ waiter \in [Notices -> {"idle", "sent", "listens", "grace", "window", "done"}]
  /\ box \in [Notices -> Seq(Signal)]
  /\ token \in [Notices -> 0..MaxClicks]
  /\ calls \subseteq Click
  /\ owner \in Servers \union {None}
  /\ server \in [Servers -> {"idle", "started", "serves", "window", "done"}]
  /\ threads \in [Servers -> SUBSET Click]
  /\ chan \in [Servers -> Seq(Click)]
  /\ window \in [Notices \union Servers -> Click \union {None}]
  /\ heard \in [Notices -> SUBSET Click]
  /\ missed \subseteq Notices \union Others
  /\ answered \in [Servers -> SUBSET Click]

Init ==
  /\ service \in [tokens : BOOLEAN, closes : {"no", "before", "after"}]
  /\ clicks = 0
  /\ shown = Others
  /\ slot = FALSE
  /\ waiter = [n \in Notices |-> "idle"]
  /\ box = [n \in Notices |-> <<>>]
  /\ token = [n \in Notices |-> 0]
  /\ calls = {}
  /\ owner = None
  /\ server = [s \in Servers |-> "idle"]
  /\ threads = [s \in Servers |-> {}]
  /\ chan = [s \in Servers |-> <<>>]
  /\ window = [p \in Notices \union Servers |-> None]
  /\ heard = [n \in Notices |-> {}]
  /\ missed = {}
  /\ answered = [s \in Servers |-> {}]

-----------------------------------------------------------------------------
(* The freedesktop service and the process that waits for it. *)

Listens(n) == n \in Notices /\ waiter[n] \in {"listens", "grace"}

\* A signal goes to every process that listens, whichever notice it is about.
Sent(signals) == [n \in Notices |-> IF Listens(n) THEN box[n] \o signals ELSE box[n]]

Invoked(n, page, t) == [name |-> "ActionInvoked", of |-> n, page |-> page, token |-> t]
Token(n, t) == [name |-> "ActivationToken", of |-> n, page |-> "status", token |-> t]
Closed(n) == [name |-> "NotificationClosed", of |-> n, page |-> "status", token |-> 0]

\* gtk_add_notification: the same id again replaces the notice before.
PostToDesktop(n) ==
  /\ waiter[n] = "idle"
  /\ waiter' = [waiter EXCEPT ![n] = "done"]
  /\ slot' = TRUE
  /\ UNCHANGED <<service, clicks, window, shown, box, token, heard, missed, busVars>>

\* send_fdo_and_wait, until Notify has returned.
Notify(n) ==
  /\ waiter[n] = "idle"
  /\ waiter' = [waiter EXCEPT ![n] = "sent"]
  /\ shown' = shown \union {n}
  /\ UNCHANGED <<deskVars, box, token, heard, missed, busVars>>

\* No bus, no service, or no match rule.
NotifyFails(n) ==
  /\ waiter[n] \in {"idle", "sent"}
  /\ waiter' = [waiter EXCEPT ![n] = "done"]
  /\ UNCHANGED <<deskVars, shown, box, token, heard, missed, busVars>>

Subscribe(n) ==
  /\ waiter[n] = "sent"
  /\ waiter' = [waiter EXCEPT ![n] = "listens"]
  /\ UNCHANGED <<deskVars, shown, box, token, heard, missed, busVars>>

\* A service may give no token; a click's number is one.
TokenOf(click) == IF service.tokens THEN click ELSE 0

\* What it sends for a click: it may close a notice that asked to stay, before
\* or after.
ClickSignals(n, page, t) ==
  LET click == (IF t = 0 THEN <<>> ELSE <<Token(n, t)>>) \o <<Invoked(n, page, t)>>
  IN  CASE service.closes = "no"     -> click
        [] service.closes = "before" -> <<Closed(n)>> \o click
        [] service.closes = "after"  -> Append(click, Closed(n))

\* The user clicks.
ClickNotice(n) ==
  /\ n \in shown
  /\ clicks < MaxClicks
  /\ clicks' = clicks + 1
  /\ \E page \in Pages :
       /\ box' = Sent(ClickSignals(n, page, TokenOf(clicks')))
       /\ heard' = IF Listens(n)
                   THEN [heard EXCEPT ![n] = @ \union {[page |-> page, token |-> TokenOf(clicks')]}]
                   ELSE heard
  /\ shown' = IF service.closes = "no" THEN shown ELSE shown \ {n}
  /\ missed' = IF n \notin shown' /\ ~Listens(n) THEN missed \union {n} ELSE missed
  /\ UNCHANGED <<service, slot, window, waiter, token, busVars>>

\* The user or the service closes the notice.
Dismiss(n) ==
  /\ n \in shown
  /\ shown' = shown \ {n}
  /\ box' = Sent(<<Closed(n)>>)
  /\ missed' = IF Listens(n) THEN missed ELSE missed \union {n}
  /\ UNCHANGED <<deskVars, waiter, token, heard, busVars>>

\* gtk_remove_notification.
Withdraw == slot' = FALSE

\* show_window: the notice on the desktop's service goes first.
Opens(p, click) ==
  /\ window' = [window EXCEPT ![p] = click]
  /\ Withdraw

Passes(n) == box' = [box EXCEPT ![n] = Tail(@)]

\* MUTANT: a signal about any notice is taken for one about this.
OwnOrOther(n) == box[n] # <<>>

Own(n) == box[n] # <<>> /\ Head(box[n]).of = n

SkipsSignal(n) ==
  /\ Listens(n)
  /\ box[n] # <<>> /\ ~Own(n)
  /\ Passes(n)
  /\ UNCHANGED <<deskVars, shown, waiter, token, heard, missed, busVars>>

TakesToken(n) ==
  /\ Listens(n) /\ Own(n)
  /\ Head(box[n]).name = "ActivationToken"
  /\ token' = [token EXCEPT ![n] = Head(box[n]).token]
  /\ Passes(n)
  /\ UNCHANGED <<deskVars, shown, waiter, heard, missed, busVars>>

\* close_fdo, then the window; nothing is received any more.
TakesClick(n) ==
  /\ Listens(n) /\ Own(n)
  /\ Head(box[n]).name = "ActionInvoked"
  /\ waiter' = [waiter EXCEPT ![n] = "window"]
  /\ Opens(n, [page |-> Head(box[n]).page, token |-> token[n]])
  /\ shown' = shown \ {n}
  /\ box' = [(IF n \in shown THEN Sent(<<Closed(n)>>) ELSE box) EXCEPT ![n] = <<>>]
  /\ UNCHANGED <<service, clicks, token, heard, missed, busVars>>

\* MUTANT: the process ends at once.
TakesCloseAtOnce(n) ==
  /\ Listens(n) /\ Own(n)
  /\ Head(box[n]).name = "NotificationClosed"
  /\ waiter' = [waiter EXCEPT ![n] = "done"]
  /\ Passes(n)
  /\ UNCHANGED <<deskVars, shown, token, heard, missed, busVars>>

\* A click may still come: CLOSE_GRACE_MS.
TakesClose(n) ==
  /\ Listens(n) /\ Own(n)
  /\ Head(box[n]).name = "NotificationClosed"
  /\ waiter' = [waiter EXCEPT ![n] = "grace"]
  /\ Passes(n)
  /\ UNCHANGED <<deskVars, shown, token, heard, missed, busVars>>

\* MUTANT: the deadline is asked for only after a signal.
GraceOverOnSignal(n) ==
  /\ waiter[n] = "grace"
  /\ box[n] # <<>>
  /\ waiter' = [waiter EXCEPT ![n] = "done"]
  /\ UNCHANGED <<deskVars, shown, box, token, heard, missed, busVars>>

\* Signals sent with the close are assumed to come within the grace.
GraceOver(n) ==
  /\ waiter[n] = "grace"
  /\ box[n] = <<>>
  /\ waiter' = [waiter EXCEPT ![n] = "done"]
  /\ UNCHANGED <<deskVars, shown, box, token, heard, missed, busVars>>

-----------------------------------------------------------------------------
(* Activations over D-Bus. *)

\* A click on the desktop's notice, which may go with it, or on the icon.
Activate ==
  /\ clicks < MaxClicks
  /\ clicks' = clicks + 1
  /\ \E page \in Pages :
       /\ ~slot => page = "status"
       /\ calls' = calls \union {[page |-> page, token |-> TokenOf(clicks')]}
  /\ slot' \in {slot, FALSE}
  /\ UNCHANGED <<service, window, fdoVars, owner, server, threads, chan, answered>>

\* The bus starts one server for a name nobody owns; one may be started by hand.
StartServer(s) ==
  /\ server[s] = "idle"
  /\ server' = [server EXCEPT ![s] = "started"]
  /\ UNCHANGED <<deskVars, fdoVars, calls, owner, threads, chan, answered>>

\* MUTANT: a server is queued for the name instead of ending.
RequestNameTwice(s) ==
  /\ server[s] = "started"
  /\ owner' = IF owner = None THEN s ELSE owner
  /\ server' = [server EXCEPT ![s] = IF owner = None THEN "serves" ELSE "queued"]
  /\ UNCHANGED <<deskVars, fdoVars, calls, threads, chan, answered>>

\* Whoever does not become the owner ends without a window.
RequestName(s) ==
  /\ server[s] = "started"
  /\ owner' = IF owner = None THEN s ELSE owner
  /\ server' = [server EXCEPT ![s] = IF owner = None THEN "serves" ELSE "done"]
  /\ UNCHANGED <<deskVars, fdoVars, calls, threads, chan, answered>>

\* No bus: the status window without being asked.
NoBus(s) ==
  /\ server[s] = "started"
  /\ server' = [server EXCEPT ![s] = "window"]
  /\ Opens(s, [page |-> "status", token |-> 0])
  /\ UNCHANGED <<service, clicks, fdoVars, calls, owner, threads, chan, answered>>

\* activate, open, activate_action: answered, then queue_activation.
Answer(s) ==
  /\ owner = s
  /\ \E c \in calls :
       /\ calls' = calls \ {c}
       /\ threads' = [threads EXCEPT ![s] = @ \union {c}]
       /\ answered' = [answered EXCEPT ![s] = @ \union {c}]
  /\ UNCHANGED <<deskVars, fdoVars, owner, server, chan>>

\* MUTANT: an activation is sent only if none is waiting.
HandOverOnce(s) ==
  /\ \E c \in threads[s] :
       /\ threads' = [threads EXCEPT ![s] = @ \ {c}]
       /\ chan' = IF server[s] = "serves" /\ chan[s] = <<>>
                THEN [chan EXCEPT ![s] = Append(@, c)] ELSE chan
  /\ UNCHANGED <<deskVars, fdoVars, calls, owner, server, answered>>

\* The thread sends after 50 ms; after the main thread has gone on, in vain.
HandOver(s) ==
  /\ \E c \in threads[s] :
       /\ threads' = [threads EXCEPT ![s] = @ \ {c}]
       /\ chan' = IF server[s] = "serves" THEN [chan EXCEPT ![s] = Append(@, c)] ELSE chan
  /\ UNCHANGED <<deskVars, fdoVars, calls, owner, server, answered>>

\* The first activation is the last: the name is given up for the window.
OpenAsked(s) ==
  /\ server[s] = "serves"
  /\ chan[s] # <<>>
  /\ Opens(s, Head(chan[s]))
  /\ server' = [server EXCEPT ![s] = "window"]
  /\ owner' = None
  /\ chan' = [chan EXCEPT ![s] = <<>>]
  /\ UNCHANGED <<service, clicks, fdoVars, calls, threads, answered>>

\* Nothing for 25 s: the status page.
OpenUnasked(s) ==
  /\ server[s] = "serves"
  /\ chan[s] = <<>>
  /\ Opens(s, [page |-> "status", token |-> 0])
  /\ server' = [server EXCEPT ![s] = "window"]
  /\ owner' = None
  /\ UNCHANGED <<service, clicks, fdoVars, calls, threads, chan, answered>>

-----------------------------------------------------------------------------

Takes(n) == SkipsSignal(n) \/ TakesToken(n) \/ TakesClick(n) \/ TakesClose(n)

Waits(n) ==
  PostToDesktop(n) \/ Notify(n) \/ NotifyFails(n) \/ Subscribe(n) \/ Takes(n) \/ GraceOver(n)

Serves(s) ==
  StartServer(s) \/ RequestName(s) \/ NoBus(s) \/ Answer(s) \/ HandOver(s) \/ OpenAsked(s)
    \/ OpenUnasked(s)

Next ==
  \/ \E n \in Notices : Waits(n)
  \/ \E n \in Notices \union Others : ClickNotice(n) \/ Dismiss(n)
  \/ \E s \in Servers : Serves(s)
  \/ Activate

Spec == Init /\ [][Next]_vars

\* A process goes on with what it has received, timers run out, threads run.
FairSpec ==
  /\ Spec
  /\ \A n \in Notices : WF_vars(Takes(n)) /\ WF_vars(GraceOver(n))
  /\ \A s \in Servers : WF_vars(HandOver(s)) /\ WF_vars(OpenAsked(s) \/ OpenUnasked(s))

-----------------------------------------------------------------------------

(***************************************************************************)
(* A window shows the page of a click its own process was told of, with    *)
(* the token of that click and no other's: signals of other notices, an    *)
(* earlier token, a slow thread or a swallowed activation change nothing.  *)
(* Only a server nobody asked in time shows status unasked.                *)
(***************************************************************************)
WindowTellsItsClick ==
  /\ \A n \in Notices : waiter[n] = "window" => window[n] \in heard[n]
  /\ \A s \in Servers : server[s] = "window" =>
       window[s] \in answered[s] \union {[page |-> "status", token |-> 0]}

(***************************************************************************)
(* A server tells every caller that it is coming before it does anything   *)
(* (queue_activation).  While it listens, what it so promised is on its    *)
(* way: in a thread, or in the channel the window will be opened from.     *)
(***************************************************************************)
AnswersAreKept ==
  \A s \in Servers : server[s] = "serves" =>
    answered[s] = threads[s] \union {chan[s][i] : i \in DOMAIN chan[s]}

(***************************************************************************)
(* A process that heard a click becomes a window, also when the close of   *)
(* the notice overtook the click (CLOSE_GRACE_MS); a server that answered  *)
(* an activation becomes one, for the first handed over or unasked.        *)
(***************************************************************************)
ClickOpensWindow ==
  /\ \A n \in Notices : heard[n] # {} ~> waiter[n] = "window"
  /\ \A s \in Servers : answered[s] # {} ~> server[s] = "window"

(***************************************************************************)
(* A process does not outlive its notice: when the notice was closed in    *)
(* its hearing, it ends or becomes the window.                             *)
(***************************************************************************)
WaiterEnds ==
  \A n \in Notices :
    Listens(n) /\ n \notin shown \union missed ~> waiter[n] \in {"window", "done"}
=============================================================================
