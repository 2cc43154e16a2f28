----------------------------- MODULE ClientLink -----------------------------
(***************************************************************************)
(* One client's link to the server: logging in and out (ui_glue/login.rs), *)
(* the stored credential (credential.rs), the task that connects, serves   *)
(* and connects again (net/mod.rs, net/conn.rs), its pump and heartbeat,   *)
(* and what the window shows of it (ui_update/conn.rs).                    *)
(*                                                                         *)
(* The login is a watched value: the net task reads it at the gate without *)
(* marking it as seen, and hears of a change only in its main loop.  A     *)
(* connection is over once its pump is, and the pump ends when nobody      *)
(* holds the outbound channel any more: not the heartbeat, not a spawned   *)
(* task that answers a command or sends a file.                            *)
(***************************************************************************)
EXTENDS Naturals, Sequences

CONSTANTS
    Tokens,      \* tokens the server can issue, one for each login
    NoToken,     \* logged out
    MaxHolders,  \* bound: spawned tasks that hold the outbound channel
    MaxReports,  \* bound: events the net task is ahead of the window
    MaxFaults    \* bound: lost connections, refused ones, expiries, restarts

ASSUME LinkAssumption ==
    /\ NoToken \notin Tokens
    /\ MaxHolders \in Nat /\ MaxReports \in Nat /\ MaxFaults \in Nat

VARIABLES
    token,     \* the watched value (token_tx)
    unseen,    \* has it changed since the net task last marked it as seen?
    link,      \* where net::run and connect_once stand
    bound,     \* the token the connection was made with
    socket,    \* what reading the socket yields
    heartbeat, \* does the heartbeat task run?
    pump,      \* does the pump run?
    holders,   \* spawned tasks that hold the outbound channel
    reports,   \* ToUi
    painting,  \* closures posted to the user interface's thread
    page,      \* what the window shows
    stored,    \* credential.json
    valid,     \* tokens the server accepts
    issued,    \* tokens issued so far
    faults

linkVars == <<token, unseen, link, bound, socket, heartbeat, pump, holders, reports,
              painting, page, stored, valid, issued, faults>>

Reported == {"registered", "disconnected", "expired"}
Login == Tokens \cup {NoToken}

LinkTypeOK ==
    /\ token \in Login /\ bound \in Login /\ stored \in Login
    /\ unseen \in BOOLEAN /\ heartbeat \in BOOLEAN /\ pump \in BOOLEAN
    /\ link \in {"gate", "waiting", "connecting", "live", "draining", "sleeping"}
    /\ socket \in {"none", "open", "lost", "refused"}
    /\ holders \in 0 .. MaxHolders
    /\ reports \in Seq(Reported) /\ Len(reports) <= MaxReports
    /\ painting \in Seq(Reported)
    /\ page \in [logged : BOOLEAN, loading : BOOLEAN, connected : BOOLEAN]
    /\ valid \subseteq issued /\ issued \subseteq Tokens /\ faults \in 0 .. MaxFaults

\* main: the stored credential opens the gate at once.
Starts(t) ==
    /\ token = t /\ unseen = FALSE /\ link = "gate" /\ bound = NoToken
    /\ socket = "none" /\ heartbeat = FALSE /\ pump = FALSE /\ holders = 0
    /\ reports = <<>> /\ painting = <<>>
    /\ page = [logged |-> t # NoToken, loading |-> FALSE, connected |-> FALSE]

LinkInit ==
    /\ Starts(NoToken)
    /\ stored = NoToken /\ valid = {} /\ issued = {} /\ faults = 0

Fault == faults < MaxFaults /\ faults' = faults + 1

----------------------------------------------------------------------------
(* net::run and connect_once *)

user == <<token, page, stored, valid, issued, painting>>
pipe == <<socket, heartbeat, pump, holders>>
Tell(e) == Len(reports) < MaxReports /\ reports' = Append(reports, e)

\* The gate reads the value; without a login it waits for a change...
Gate ==
    /\ link = "gate"
    /\ IF token = NoToken THEN link' = "waiting" /\ UNCHANGED bound
                          ELSE link' = "connecting" /\ bound' = token
    /\ UNCHANGED <<user, unseen, pipe, reports, faults>>

\* ... which marks the value as seen, and reads it again.
GateOpens ==
    /\ link = "waiting" /\ unseen
    /\ unseen' = FALSE /\ link' = "gate"
    /\ UNCHANGED <<user, bound, pipe, reports, faults>>

\* The socket opens even for a token the server refuses, which it then closes
\* with 1008; pump and heartbeat start, and the window is told.
Connect ==
    /\ link = "connecting"
    /\ link' = "live" /\ heartbeat' = TRUE /\ pump' = TRUE /\ holders' = 0
    /\ socket' = IF bound \in valid THEN "open" ELSE "refused"
    /\ Tell("registered")
    /\ UNCHANGED <<user, unseen, bound, faults>>

ConnectFails ==
    /\ link = "connecting" /\ Fault
    /\ link' = "sleeping" /\ Tell("disconnected")
    /\ UNCHANGED <<user, unseen, bound, pipe>>

\* mutant: the heartbeat is left running
LeaveHeartbeat == link' = "draining" /\ UNCHANGED <<heartbeat, socket, pump, holders>>

\* The main loop is left: the heartbeat is aborted, the channel dropped.
Leave == link' = "draining" /\ heartbeat' = FALSE /\ UNCHANGED <<socket, pump, holders>>

ReadEnds ==
    /\ link = "live" /\ socket # "open"
    /\ Leave
    /\ IF socket = "refused" THEN Tell("expired") ELSE UNCHANGED reports
    /\ UNCHANGED <<user, unseen, bound, faults>>

\* A change of the login ends the connection only if nobody is logged in.
TokenChanged ==
    /\ link = "live" /\ unseen
    /\ unseen' = FALSE
    /\ IF token = NoToken THEN Leave ELSE UNCHANGED <<link, pipe>>
    /\ UNCHANGED <<user, bound, reports, faults>>

\* The pump has ended: the connection is over, and is made again after a while.
Drained ==
    /\ link = "draining" /\ ~pump
    /\ link' = "sleeping" /\ socket' = "none" /\ Tell("disconnected")
    /\ UNCHANGED <<user, unseen, bound, heartbeat, pump, holders, faults>>

Wake ==
    /\ link = "sleeping" /\ link' = "gate"
    /\ UNCHANGED <<user, unseen, bound, pipe, reports, faults>>

----------------------------------------------------------------------------
(* The tasks of a connection *)

others == <<user, unseen, link, bound, socket, reports, faults>>

\* The pump ends when the last sender is gone, or a write fails.
PumpEnds ==
    /\ pump /\ pump' = FALSE
    /\ \/ link = "draining" /\ ~heartbeat /\ holders = 0
       \/ socket # "open"
    /\ UNCHANGED <<others, heartbeat, holders>>

\* The heartbeat ends by itself when the pump has.
HeartbeatEnds ==
    /\ heartbeat /\ ~pump /\ heartbeat' = FALSE
    /\ UNCHANGED <<others, pump, holders>>

\* A command, a listing or a file is answered by a task of its own.
TaskStarts ==
    /\ link = "live" /\ socket = "open" /\ holders < MaxHolders
    /\ holders' = holders + 1
    /\ UNCHANGED <<others, heartbeat, pump>>

TaskEnds ==
    /\ holders > 0 /\ holders' = holders - 1
    /\ UNCHANGED <<others, heartbeat, pump>>

----------------------------------------------------------------------------
(* The window and its user *)

task == <<link, bound, pipe>>

LoginClicked ==
    /\ ~page.logged /\ ~page.loading
    /\ page' = [page EXCEPT !.loading = TRUE]
    /\ UNCHANGED <<task, token, unseen, reports, painting, stored, valid, issued, faults>>

\* The thread that logs in posts its result; the closure stores the credential,
\* which may fail, shows the main page and lets the net task through the gate.
LoginAnswered ==
    /\ page.loading
    /\ \/ \E t \in Tokens \ issued :
            /\ token' = t /\ unseen' = TRUE
            /\ page' = [page EXCEPT !.logged = TRUE, !.loading = FALSE]
            /\ issued' = issued \cup {t} /\ valid' = valid \cup {t}
            /\ \/ stored' = t /\ UNCHANGED faults
               \/ Fault /\ UNCHANGED stored
       \/ /\ page' = [page EXCEPT !.loading = FALSE]
          /\ UNCHANGED <<token, unseen, issued, valid, stored, faults>>
    /\ UNCHANGED <<task, reports, painting>>

LoggedOut == token' = NoToken /\ unseen' = TRUE /\ stored' = NoToken

Logout ==
    /\ page.logged /\ LoggedOut
    /\ page' = [page EXCEPT !.logged = FALSE, !.connected = FALSE]
    /\ UNCHANGED <<task, reports, painting, valid, issued, faults>>

\* consume_to_ui posts closures; an expired login is dropped at once, whatever
\* login it was.
HandleReport ==
    /\ reports # <<>> /\ reports' = Tail(reports)
    /\ IF Head(reports) = "expired" THEN LoggedOut ELSE UNCHANGED <<token, unseen, stored>>
    /\ painting' = Append(painting, Head(reports))
    /\ UNCHANGED <<task, page, valid, issued, faults>>

Paint ==
    /\ painting # <<>> /\ painting' = Tail(painting)
    /\ page' = CASE Head(painting) = "registered" -> [page EXCEPT !.connected = TRUE]
                 [] Head(painting) = "disconnected" -> [page EXCEPT !.connected = FALSE]
                 [] OTHER -> [page EXCEPT !.connected = FALSE, !.logged = FALSE]
    /\ UNCHANGED <<task, token, unseen, reports, stored, valid, issued, faults>>

----------------------------------------------------------------------------
(* Faults *)

ConnectionLost ==
    /\ socket = "open" /\ Fault /\ socket' = "lost"
    /\ UNCHANGED <<user, unseen, link, bound, heartbeat, pump, holders, reports>>

\* The server forgets a token: it expires, the account is disabled or renamed,
\* the signing key is lost.  Connections that were made with it stay.
Expire ==
    /\ Fault
    /\ \E t \in valid : valid' = valid \ {t}
    /\ UNCHANGED <<token, unseen, task, reports, painting, page, stored, issued>>

\* The client quits or crashes, and is started again.
Restart ==
    /\ Fault /\ link # "gate"
    /\ token' = stored /\ unseen' = FALSE /\ link' = "gate" /\ bound' = NoToken
    /\ socket' = "none" /\ heartbeat' = FALSE /\ pump' = FALSE /\ holders' = 0
    /\ reports' = <<>> /\ painting' = <<>>
    /\ page' = [logged |-> stored # NoToken, loading |-> FALSE, connected |-> FALSE]
    /\ UNCHANGED <<stored, valid, issued>>

\* What the client does by itself, in each of its tasks.
NetTask == \/ Gate \/ GateOpens \/ Connect \/ ReadEnds \/ TokenChanged
           \/ Drained \/ Wake
WindowTask == HandleReport \/ Paint

LinkNext ==
    \/ NetTask \/ ConnectFails
    \/ PumpEnds \/ HeartbeatEnds \/ TaskStarts \/ TaskEnds
    \/ WindowTask \/ LoginClicked \/ LoginAnswered \/ Logout
    \/ ConnectionLost \/ Expire \/ Restart

\* Every task keeps running.
LinkFairness ==
    /\ WF_linkVars(NetTask) /\ WF_linkVars(PumpEnds) /\ WF_linkVars(TaskEnds)
    /\ WF_linkVars(HandleReport) /\ WF_linkVars(Paint)

LinkSpec == LinkInit /\ [][LinkNext]_linkVars /\ LinkFairness

----------------------------------------------------------------------------
(* Properties *)

\* A client that is logged in has a connection; one that is not waits at the gate
\* and shows itself offline.
LinkSettled ==
    IF token = NoToken THEN link = "waiting" /\ ~page.connected ELSE link = "live"

\* Once logins, logouts and faults are over, the link settles: no change of the
\* login is missed between reading it and listening for the next, and no task left
\* behind keeps the old connection from being torn down (net/mod.rs, net/conn.rs).
LinkSettles == <>[]LinkSettled
=============================================================================
