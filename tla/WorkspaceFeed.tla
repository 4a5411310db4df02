------------------------------ MODULE WorkspaceFeed ------------------------------
(***************************************************************************)
(* The list of Workspaces that one page of the web application shows       *)
(* (hooks/workspaces/useProjectWorkspaces.ts): a request per reason to     *)
(* reload, answers in any order, events over a WebSocket that comes and    *)
(* goes, and a user who moves between projects.                            *)
(*                                                                         *)
(* What the server would answer is a version that grows with every change; *)
(* the event of a change is the version it made. The set of seen events is *)
(* never full here.                                                        *)
(***************************************************************************)
EXTENDS Naturals

CONSTANTS
    Views,          \* the project and access a page can be about: its key
    MaxVersion,     \* bound on the changes of one view
    MaxLoads        \* bound on the requests of a page

ASSUME FeedAssumption == MaxVersion \in Nat /\ MaxLoads \in Nat \ {0}

VARIABLES
    version,    \* the server's version of each view
    view,       \* the key of the page
    shown,      \* what is displayed
    token,      \* the number of the last request
    loads,      \* requests that have not been answered
    online,     \* the WebSocket is open
    seen,       \* events the socket of this view has handled
    sending     \* events on their way to the open socket

feedVars == <<version, view, shown, token, loads, online, seen, sending>>

Versions == 0..MaxVersion

\* reply: what the server has answered, if it has, and the version it read.
Loads ==
    [token: 1..MaxLoads, view: Views, reply: {"none", "error", "list"}, version: Versions]

NewLoad(n, v) == [token |-> n, view |-> v, reply |-> "none", version |-> 0]

FeedTypeOK ==
    /\ version \in [Views -> Versions]
    /\ view \in Views
    /\ shown \in [version: Versions, loading: BOOLEAN, error: BOOLEAN]
    /\ token \in 1..MaxLoads
    /\ loads \subseteq Loads
    /\ \A p, q \in loads : p.token = q.token => p = q
    /\ online \in BOOLEAN
    /\ seen \subseteq Versions /\ sending \subseteq Versions

\* load: the token of the request is now the current one.
Load(loading) ==
    /\ token < MaxLoads
    /\ token' = token + 1
    /\ loads' = loads \cup {NewLoad(token + 1, view)}
    /\ shown' = [shown EXCEPT !.loading = loading \/ @, !.error = FALSE]

\* The first effect of a mounted page is a load; nothing is shown before.
FeedInit ==
    /\ version = [v \in Views |-> 0]
    /\ view \in Views
    /\ token = 1
    /\ loads = {NewLoad(1, view)}
    /\ shown = [version |-> 0, loading |-> TRUE, error |-> FALSE]
    /\ online = FALSE
    /\ seen = {} /\ sending = {}

(***************************************************************************)
(* The server and the network.                                             *)
(***************************************************************************)
\* A change commits; its event goes to the page if it is connected.
ChangeView(v) ==
    /\ version[v] < MaxVersion
    /\ version' = [version EXCEPT ![v] = @ + 1]
    /\ sending' = IF online /\ v = view THEN sending \cup {version[v] + 1} ELSE sending
    /\ UNCHANGED <<view, shown, token, loads, online, seen>>

\* The request is executed, or fails somewhere.
AnswerLoad(q) ==
    /\ q \in loads
    /\ q.reply = "none"
    /\ \E answered \in {[q EXCEPT !.reply = "list", !.version = version[q.view]],
                        [q EXCEPT !.reply = "error"]} :
          loads' = (loads \ {q}) \cup {answered}
    /\ UNCHANGED <<version, view, shown, token, online, seen, sending>>

ConnectFeed ==
    /\ ~online
    /\ online' = TRUE
    /\ UNCHANGED <<version, view, shown, token, loads, seen, sending>>

\* What was on its way is lost. The page connects again after a delay and asks
\* for no replay.
DisconnectFeed ==
    /\ online
    /\ online' = FALSE
    /\ sending' = {}
    /\ UNCHANGED <<version, view, shown, token, loads, seen>>

(***************************************************************************)
(* The page.                                                               *)
(***************************************************************************)
IsCurrent_Any(q) == q.view = view       \* fault: any answer for the project
IsCurrent_Late(q) == q.token = token + 1    \* fault: numbered before the increment
IsCurrent(q) == q.token = token

\* The answer of a request that is no longer the current one is ignored.
ApplyLoad(q) ==
    /\ q \in loads
    /\ q.reply # "none"
    /\ loads' = loads \ {q}
    /\ shown' = IF ~IsCurrent(q) THEN shown
                ELSE IF q.reply = "error" THEN [shown EXCEPT !.loading = FALSE, !.error = TRUE]
                ELSE [version |-> q.version, loading |-> FALSE, error |-> FALSE]
    /\ UNCHANGED <<version, view, token, online, seen, sending>>

\* onmessage: an event that was not seen yet reloads. Events can be delivered
\* again, and in any order.
Hear_Coalesced(e) ==            \* fault: no second load while one is under way
    /\ e \in sending
    /\ \E left \in {sending, sending \ {e}} : sending' = left
    /\ IF e \in seen \/ \E q \in loads : q.token = token
       THEN UNCHANGED <<shown, token, loads>> ELSE Load(FALSE)
    /\ seen' = seen \cup {e}
    /\ UNCHANGED <<version, view, online>>
Hear(e) ==
    /\ e \in sending
    /\ \E left \in {sending, sending \ {e}} : sending' = left
    /\ IF e \in seen THEN UNCHANGED <<shown, token, loads>> ELSE Load(FALSE)
    /\ seen' = seen \cup {e}
    /\ UNCHANGED <<version, view, online>>

\* The window gets the focus, another tab reports a change, or the user asks.
Refresh ==
    /\ \E loading \in BOOLEAN : Load(loading)
    /\ UNCHANGED <<version, view, online, seen, sending>>

\* Another key: the effects are cleaned up, nothing of the old key is shown,
\* and the page loads and connects for the new one.
SwitchView(v) ==
    /\ v # view
    /\ token < MaxLoads
    /\ view' = v
    /\ token' = token + 1
    /\ loads' = loads \cup {NewLoad(token + 1, v)}
    /\ shown' = [version |-> 0, loading |-> TRUE, error |-> FALSE]
    /\ online' = FALSE /\ seen' = {} /\ sending' = {}
    /\ UNCHANGED version

FeedNext ==
    \/ \E v \in Views : ChangeView(v) \/ SwitchView(v)
    \/ \E q \in loads : AnswerLoad(q) \/ ApplyLoad(q)
    \/ \E e \in sending : Hear(e)
    \/ ConnectFeed
    \/ DisconnectFeed
    \/ Refresh

FeedSpec == FeedInit /\ [][FeedNext]_feedVars

(***************************************************************************)
(* Properties.                                                             *)
(***************************************************************************)
\* As long as the page stays on a view, what it shows never goes back to an
\* older version, whatever the order of answers (the token of load).
ShownNeverOlder == [][view' = view => shown'.version >= shown.version]_feedVars

\* A page at rest shows every change it has heard of: no event is absorbed by a
\* request that was answered before the change (every event starts a load).
RestingPageHasHeard ==
    ~shown.loading /\ ~shown.error /\ (\A q \in loads : q.token # token)
    => \A e \in seen : e <= shown.version

\* Once a page has heard of a change it comes to show it, to report an error,
\* or to be about something else.
HeardIsShown ==
    \A e \in 1..MaxVersion, v \in Views :
        view = v /\ e \in seen ~> view # v \/ shown.error \/ shown.version >= e
===============================================================================
