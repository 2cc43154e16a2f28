--------------------------- MODULE ClientSession ---------------------------
(***************************************************************************)
(* The sessions of one client as its parts see them: the context of the    *)
(* connection (net/conn.rs, net/dispatch.rs), the ids the user interface   *)
(* shares (cur, ctrl, ended), what the window shows, and the session the   *)
(* capture and clipboard workers serve.                                    *)
(*                                                                         *)
(* Four threads of control meet here.  The net task takes one message from *)
(* the server or one action of the user.  consume_to_ui takes what the net *)
(* task reports, changes the shared ids at once and posts a closure to the *)
(* user interface's thread.  That thread runs closures and, between them,  *)
(* the callbacks of the user's clicks.  The server is what the client can  *)
(* see of it: it answers on a reliable lane in order, and frames have a    *)
(* slot of their own that may be late.  An action of the user reaches the  *)
(* server with the step of the net task that sends it: a later delivery is *)
(* a server that acted earlier.                                            *)
(***************************************************************************)
EXTENDS Naturals, Sequences

CONSTANTS
    Sessions,    \* session ids
    NoSession,   \* none
    InFlight,    \* bound: events waiting in the queues together
    MaxClicks,   \* bound: clicks of the user
    MaxLosses    \* bound: connections lost

ASSUME SessionAssumption ==
    NoSession \notin Sessions /\ InFlight \in Nat /\ MaxClicks \in Nat /\ MaxLosses \in Nat

VARIABLES
    srv,       \* the server's view of each session
    down,      \* the reliable lane to this client
    slot,      \* the session of the frame in the frame lane
    ctx,       \* SessionCtx
    capture,   \* the session consume_capture pushes frames to
    clip,      \* the session consume_clipboard watches for
    up,        \* FromUi
    toUi,      \* ToUi
    ids,       \* cur_session, ctrl_session, ended_session
    posted,    \* closures posted to the user interface's thread
    win,       \* what the window shows
    clicks, losses,  \* counters of the bounds
    entered,   \* history: the session of the last ack the window showed
    lost       \* history: sessions that were open when a connection was lost

csVars == <<srv, down, slot, ctx, capture, clip, up, toUi, ids, posted, win,
            clicks, losses, entered, lost>>
net == <<srv, down, slot, ctx, capture, clip>>
screen == <<ids, posted, win>>
history == <<entered, lost>>

Maybe == Sessions \cup {NoSession}
Event(k, s) == [kind |-> k, id |-> s]

DownKinds == {"request", "controlled", "ack", "reject", "notice", "end", "result"}
UpKinds == {"start", "cancel", "accept", "refuse", "hangup", "stop"}
UiKinds == {"request", "controlled", "ack", "reject", "frame", "end", "result"}

SessTypeOK ==
    /\ srv \in [Sessions -> {"unused", "asked", "offered", "out", "mute", "in", "over"}]
    /\ down \in Seq([kind : DownKinds, id : Maybe])
    /\ slot \in Maybe
    /\ ctx \in [controlling : Maybe, controlled : Maybe, cancelled : BOOLEAN]
    /\ capture \in Maybe /\ clip \in Maybe
    /\ up \in Seq([kind : UpKinds, id : Maybe])
    /\ toUi \in Seq([kind : UiKinds, id : Maybe])
    /\ ids \in [cur : Maybe, ctrl : Maybe, ended : Maybe]
    /\ posted \in Seq([kind : UiKinds, id : Maybe])
    /\ win \in [dialog : BOOLEAN, banner : BOOLEAN, view : BOOLEAN,
                asking : BOOLEAN, output : SUBSET Sessions]
    /\ clicks \in 0 .. MaxClicks /\ losses \in 0 .. MaxLosses
    /\ entered \in Maybe /\ lost \in SUBSET Sessions

Fresh0 == [controlling |-> NoSession, controlled |-> NoSession, cancelled |-> FALSE]

SessInit ==
    /\ srv = [s \in Sessions |-> "unused"]
    /\ down = <<>> /\ slot = NoSession /\ ctx = Fresh0
    /\ capture = NoSession /\ clip = NoSession
    /\ up = <<>> /\ toUi = <<>> /\ posted = <<>>
    /\ ids = [cur |-> NoSession, ctrl |-> NoSession, ended |-> NoSession]
    /\ win = [dialog |-> FALSE, banner |-> FALSE, view |-> FALSE,
              asking |-> FALSE, output |-> {}]
    /\ clicks = 0 /\ losses = 0 /\ entered = NoSession /\ lost = {}

----------------------------------------------------------------------------
(* The server, as the client sees it *)

Room == Len(down) + Len(up) + Len(toUi) + Len(posted) < InFlight
Tells(k, s) == down' = Append(down, Event(k, s))
fixed == <<ctx, capture, clip, up, toUi, screen, clicks, losses, history>>

\* Somebody asks for this machine, with a password or without.
PeerConnects(s) ==
    /\ Room
    /\ srv[s] = "unused"
    /\ \/ srv' = [srv EXCEPT ![s] = "in"] /\ Tells("controlled", s)
       \/ srv' = [srv EXCEPT ![s] = "offered"] /\ Tells("request", s)
    /\ UNCHANGED <<slot, fixed>>

PeerAnswers(s) ==
    /\ Room
    /\ srv[s] = "asked"
    /\ \/ srv' = [srv EXCEPT ![s] = "out"] /\ Tells("ack", s)
       \/ srv' = [srv EXCEPT ![s] = "over"] /\ Tells("reject", NoSession)
    /\ UNCHANGED <<slot, fixed>>

\* The other side hangs up, leaves, or withdraws what it asked for.
PeerEnds(s) ==
    /\ Room
    /\ srv[s] \in {"offered", "out", "mute", "in"}
    /\ srv' = [srv EXCEPT ![s] = "over"]
    /\ Tells("end", s)
    /\ UNCHANGED <<slot, fixed>>

\* The other side of a session we control: a frame, an answer to a command, or
\* word that it cannot capture, after which no frame follows.
PeerSends(s) ==
    /\ Room
    /\ \/ srv[s] = "out" /\ slot' = s /\ UNCHANGED <<srv, down>>
       \/ /\ srv[s] = "out" /\ srv' = [srv EXCEPT ![s] = "mute"]
          /\ Tells("notice", s) /\ UNCHANGED slot
       \/ srv[s] \in {"out", "mute"} /\ Tells("result", s) /\ UNCHANGED <<srv, slot>>
    /\ UNCHANGED fixed

Asked == {s \in Sessions : srv[s] \in {"asked", "out", "mute"}}

----------------------------------------------------------------------------
(* handle_downlink *)

IsNext(k) == down # <<>> /\ Head(down).kind = k
Reports(e) == toUi' = Append(toUi, e)
Taken == down' = Tail(down)
kept == <<up, screen, clicks, losses, history>>

\* IncomingControl without consent: at once into the controlled state...
IncomingControl ==
    /\ IsNext("controlled") /\ Taken
    /\ ctx' = [ctx EXCEPT !.controlled = Head(down).id]
    /\ capture' = Head(down).id /\ clip' = Head(down).id
    /\ Reports(Event("controlled", Head(down).id))
    /\ UNCHANGED <<srv, slot, kept>>

\* ... and with it: ask the user.
AskUser ==
    /\ IsNext("request") /\ Taken
    /\ Reports(Event("request", Head(down).id))
    /\ UNCHANGED <<srv, slot, ctx, capture, clip, kept>>

ConnectAck ==
    LET s == Head(down).id IN
    /\ IsNext("ack") /\ Taken
    /\ IF ctx.cancelled
       THEN /\ ctx' = [ctx EXCEPT !.cancelled = FALSE]
            /\ srv' = [srv EXCEPT ![s] = "over"]
            /\ UNCHANGED <<clip, toUi>>
       ELSE /\ ctx' = [ctx EXCEPT !.controlling = s] /\ clip' = s
            /\ Reports(Event("ack", s))
            /\ UNCHANGED srv
    /\ UNCHANGED <<slot, capture, kept>>

\* Reject and RemoteNotice look alike to the user interface.
RejectOrNotice ==
    /\ IsNext("reject") \/ IsNext("notice")
    /\ Taken /\ Reports(Event("reject", NoSession))
    /\ UNCHANGED <<srv, slot, ctx, capture, clip, kept>>

\* mutant: results of any session are passed on
ExecResultOfAny ==
    /\ IsNext("result") /\ Taken
    /\ Reports(Event("result", Head(down).id))
    /\ UNCHANGED <<srv, slot, ctx, capture, clip, kept>>

\* ExecResult and FileListResp are for the session this client controls.
ExecResult ==
    /\ IsNext("result") /\ Taken
    /\ IF ctx.controlling = Head(down).id THEN Reports(Event("result", Head(down).id))
                                          ELSE UNCHANGED toUi
    /\ UNCHANGED <<srv, slot, ctx, capture, clip, kept>>

\* A frame is passed on whatever its session.
Frame ==
    /\ slot # NoSession /\ slot' = NoSession /\ Room
    /\ Reports(Event("frame", slot))
    /\ UNCHANGED <<srv, down, ctx, capture, clip, kept>>

\* mutant: the end of the controlled session leaves the capture running
SessionEndStillCaptured ==
    LET s == Head(down).id IN
    /\ IsNext("end") /\ Taken
    /\ ctx' = [ctx EXCEPT !.controlling = IF @ = s THEN NoSession ELSE @,
                          !.controlled = IF @ = s THEN NoSession ELSE @]
    /\ clip' = NoSession
    /\ Reports(Event("end", s))
    /\ UNCHANGED <<srv, slot, capture, kept>>

SessionEnd ==
    LET s == Head(down).id IN
    /\ IsNext("end") /\ Taken
    /\ ctx' = [ctx EXCEPT !.controlling = IF @ = s THEN NoSession ELSE @,
                          !.controlled = IF @ = s THEN NoSession ELSE @]
    /\ capture' = IF ctx.controlled = s THEN NoSession ELSE capture
    /\ clip' = NoSession
    /\ Reports(Event("end", s))
    /\ UNCHANGED <<srv, slot, kept>>

----------------------------------------------------------------------------
(* handle_uplink, and what the server makes of it *)

IsAct(k) == up # <<>> /\ Head(up).kind = k
Acted == up' = Tail(up)
rest == <<slot, toUi, screen, clicks, losses, history>>

StartRemote ==
    /\ IsAct("start") /\ Acted
    /\ ctx' = [ctx EXCEPT !.cancelled = FALSE]
    /\ \/ \E s \in Sessions :
            /\ srv[s] = "unused"
            /\ \/ srv' = [srv EXCEPT ![s] = "out"] /\ Tells("ack", s)
               \/ srv' = [srv EXCEPT ![s] = "asked"] /\ UNCHANGED down
       \/ Tells("reject", NoSession) /\ UNCHANGED srv
    /\ UNCHANGED <<capture, clip, rest>>

\* The server ends whatever session this client asked for, and tells the other
\* side only.
CancelRemote ==
    /\ IsAct("cancel") /\ Acted
    /\ ctx' = [ctx EXCEPT !.cancelled = @ \/ ctx.controlling = NoSession]
    /\ IF Asked = {} THEN UNCHANGED srv
       ELSE \E s \in Asked : srv' = [srv EXCEPT ![s] = "over"]
    /\ UNCHANGED <<down, capture, clip, rest>>

\* The answer of the dialog: for the session id the dialog's callback read,
\* which may be none.
AuthDecision ==
    LET s == Head(up).id
        ok == Head(up).kind = "accept"
    IN
    /\ IsAct("accept") \/ IsAct("refuse")
    /\ Acted
    /\ IF ok THEN /\ ctx' = [ctx EXCEPT !.controlled = s]
                  /\ capture' = s /\ clip' = s
             ELSE UNCHANGED <<ctx, capture, clip>>
    /\ srv' = IF s # NoSession /\ srv[s] = "offered"
              THEN [srv EXCEPT ![s] = IF ok THEN "in" ELSE "over"] ELSE srv
    /\ UNCHANGED <<down, rest>>

Over(s) == IF s = NoSession THEN srv ELSE [srv EXCEPT ![s] = "over"]

Disconnect ==
    /\ IsAct("hangup") /\ Acted
    /\ ctx' = [ctx EXCEPT !.controlling = NoSession]
    /\ clip' = NoSession
    /\ srv' = Over(Head(up).id)
    /\ UNCHANGED <<down, capture, rest>>

StopControlled ==
    /\ IsAct("stop") /\ Acted
    /\ ctx' = [ctx EXCEPT !.controlled = IF @ = Head(up).id THEN NoSession ELSE @]
    /\ capture' = NoSession /\ clip' = NoSession
    /\ srv' = Over(Head(up).id)
    /\ UNCHANGED <<down, rest>>

\* The connection is lost and made anew with a fresh context; the server has
\* ended what was open.  Actions of the user wait for the new connection.
Reconnect ==
    /\ losses < MaxLosses /\ losses' = losses + 1
    /\ ctx' = Fresh0 /\ down' = <<>> /\ slot' = NoSession
    /\ srv' = [s \in Sessions |-> IF srv[s] = "unused" THEN "unused" ELSE "over"]
    /\ lost' = lost \cup {s \in Sessions : srv[s] # "unused"}
    /\ UNCHANGED <<capture, clip, up, toUi, screen, clicks, entered>>

----------------------------------------------------------------------------
(* consume_to_ui: the shared ids change at once, the window by a closure *)

Event0 == Head(toUi)
Posts(e) == posted' = Append(posted, e)
Handles(k) == toUi # <<>> /\ Event0.kind = k /\ toUi' = Tail(toUi)
quiet == <<net, up, win, clicks, losses, history>>

\* A frame is skipped when anything waits behind it.
DropStaleFrame ==
    /\ Handles("frame") /\ Len(toUi) > 1
    /\ UNCHANGED <<quiet, ids, posted>>

\* frame_belongs_to_ended
FrameBelongsToEnded(s) == ids.ended = s

HandleFrame ==
    LET s == Event0.id IN
    /\ Handles("frame") /\ Len(toUi) = 1
    /\ IF FrameBelongsToEnded(s) THEN UNCHANGED <<ids, posted>>
       ELSE ids' = [ids EXCEPT !.cur = s] /\ Posts(Event0)
    /\ UNCHANGED quiet

HandleRequest ==
    /\ Handles("request") \/ Handles("controlled")
    /\ ids' = [ids EXCEPT !.ctrl = Event0.id] /\ Posts(Event0)
    /\ UNCHANGED quiet

HandleAck ==
    /\ Handles("ack") /\ Posts(Event0)
    /\ ids' = [ids EXCEPT !.ended = NoSession, !.cur = Event0.id]
    /\ UNCHANGED quiet

HandleRejected ==
    /\ Handles("reject") /\ Posts(Event0)
    /\ ids' = [ids EXCEPT !.cur = NoSession]
    /\ UNCHANGED quiet

HandleResult ==
    /\ Handles("result") /\ Posts(Event0)
    /\ UNCHANGED <<quiet, ids>>

\* The end of any session ends the one this client controls on the screen.
HandleEnded ==
    /\ Handles("end") /\ Posts(Event0)
    /\ ids' = [cur |-> NoSession,
               ctrl |-> IF ids.ctrl = Event0.id THEN NoSession ELSE ids.ctrl,
               ended |-> IF ids.cur # NoSession THEN ids.cur ELSE ids.ended]
    /\ UNCHANGED quiet

----------------------------------------------------------------------------
(* The user interface's thread: closures, and callbacks of clicks *)

\* What a closure makes of the window.
Shown(e) ==
    CASE e.kind = "frame" -> [win EXCEPT !.view = TRUE]
      [] e.kind = "request" -> [win EXCEPT !.dialog = TRUE]
      [] e.kind = "controlled" -> [win EXCEPT !.dialog = FALSE, !.banner = TRUE]
      [] e.kind = "ack" -> [win EXCEPT !.asking = FALSE, !.view = TRUE, !.output = {}]
      [] e.kind = "reject" -> [win EXCEPT !.asking = FALSE, !.view = FALSE]
      [] e.kind = "result" -> [win EXCEPT !.output = @ \cup {e.id}]
      [] e.kind = "end" -> [win EXCEPT !.dialog = FALSE, !.banner = FALSE, !.asking = FALSE,
                                       !.view = FALSE, !.output = {}]

RunClosure ==
    /\ posted # <<>> /\ posted' = Tail(posted)
    /\ win' = Shown(Head(posted))
    /\ entered' = IF Head(posted).kind = "ack" THEN Head(posted).id ELSE entered
    /\ UNCHANGED <<net, up, toUi, ids, clicks, losses, lost>>

Clicks(e) ==
    /\ clicks < MaxClicks /\ clicks' = clicks + 1
    /\ Room /\ up' = Append(up, e)
    /\ UNCHANGED <<net, toUi, posted, losses, history>>

\* on_connect_b
ConnectB ==
    /\ ~win.view /\ ~win.asking
    /\ Clicks(Event("start", NoSession))
    /\ ids' = [ids EXCEPT !.ended = NoSession]
    /\ win' = [win EXCEPT !.asking = TRUE]

\* on_cancel_remote, by a click or by the countdown
CancelAsking ==
    /\ win.asking
    /\ Clicks(Event("cancel", NoSession))
    /\ win' = [win EXCEPT !.asking = FALSE]
    /\ UNCHANGED ids

\* on_disconnect_remote
DisconnectRemote ==
    /\ win.view
    /\ win' = [win EXCEPT !.view = FALSE, !.asking = FALSE]
    /\ IF ids.cur = NoSession
       THEN UNCHANGED <<net, up, toUi, ids, posted, clicks, losses, history>>
       ELSE /\ Clicks(Event("hangup", ids.cur))
            /\ ids' = [ids EXCEPT !.cur = NoSession, !.ended = ids.cur]

\* on_auth_accept and on_auth_reject; outside an update, see SelfUpdate
Answer(accept) ==
    /\ win.dialog
    /\ Clicks(Event(IF accept THEN "accept" ELSE "refuse", ids.ctrl))
    /\ win' = [win EXCEPT !.dialog = FALSE, !.banner = @ \/ accept]
    /\ UNCHANGED ids

\* on_stop_being_controlled
StopBeingControlled ==
    /\ win.banner
    /\ win' = [win EXCEPT !.banner = FALSE]
    /\ IF ids.ctrl = NoSession
       THEN UNCHANGED <<net, up, toUi, ids, posted, clicks, losses, history>>
       ELSE /\ Clicks(Event("stop", ids.ctrl))
            /\ ids' = [ids EXCEPT !.ctrl = NoSession]

SessNext ==
    \/ \E s \in Sessions : PeerConnects(s) \/ PeerAnswers(s) \/ PeerEnds(s) \/ PeerSends(s)
    \/ IncomingControl \/ AskUser \/ ConnectAck \/ RejectOrNotice \/ ExecResult
    \/ Frame \/ SessionEnd
    \/ StartRemote \/ CancelRemote \/ AuthDecision \/ Disconnect \/ StopControlled
    \/ Reconnect
    \/ DropStaleFrame \/ HandleFrame \/ HandleRequest \/ HandleAck \/ HandleRejected
    \/ HandleResult \/ HandleEnded
    \/ RunClosure \/ ConnectB \/ CancelAsking \/ DisconnectRemote
    \/ (\E accept \in BOOLEAN : Answer(accept)) \/ StopBeingControlled

SessSpec == SessInit /\ [][SessNext]_csVars

----------------------------------------------------------------------------
(* Properties *)

\* The workers serve only a session the connection is in: nothing of this
\* screen or clipboard goes to a session that was ended or replaced, except
\* that they go on serving one that died with a lost connection
\* (net/conn.rs, a reconnection makes a fresh context and tells no worker).
WorkersFollow ==
    /\ capture \in {NoSession, ctx.controlled} \cup lost
    /\ clip \in {NoSession, ctx.controlled, ctx.controlling} \cup lost

\* The output of commands the window shows is of the session it entered last: a
\* result of an earlier one is dropped by the net task, or wiped by the closure
\* of the ack it was posted before (net/dispatch.rs, ui_update/conn.rs).
OutputIsOurs == win.output \subseteq {entered}
=============================================================================
