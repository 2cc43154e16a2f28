----------------------------- MODULE FrameLane -----------------------------
(***************************************************************************)
(* The outbound side of one WebSocket connection (main.rs, handle_socket;  *)
(* hub.rs, send_to and send_frame_to): a reliable lane for control         *)
(* messages, a slot that holds the newest screen frame, and the pump, a    *)
(* task of its own that drains both into the socket, control first.  The   *)
(* client's pump (conn.rs) has the same loop.                              *)
(*                                                                         *)
(* Frames are numbered in the order in which they are put into the slot,   *)
(* so the slot holds frame number `published`, and there is a change the   *)
(* pump has not seen while it has taken an older one.                      *)
(***************************************************************************)
EXTENDS Naturals, Sequences, FiniteSets

CONSTANTS
    Controls,   \* control messages
    Senders,    \* socket tasks that forward frames to this connection
    NoControl,  \* no control message in hand
    MaxQueue,   \* bound: control messages waiting at once
    MaxFrames   \* bound: frames forwarded

ASSUME FrameLaneAssumption ==
    /\ NoControl \notin Controls
    /\ IsFiniteSet(Senders)
    /\ MaxQueue \in Nat /\ MaxFrames \in Nat

VARIABLES
    routed,     \* is the reliable lane registered in the hub?
    open,       \* is the frame slot registered in the hub?
    queue,      \* reliable lane; with each message the frames let past it
    counted,    \* senders that have counted a frame and not yet published it
    published,  \* frames put into the slot
    taken,      \* the newest frame the pump has seen
    at,         \* where the pump is
    draining,   \* has the pump given up the frame lane?
    control,    \* control message the pump is writing
    frame,      \* frame the pump is writing
    enqueued,   \* the hub's frame counter
    sent,       \* the pump's frame counter
    skipped,    \* history: frames replaced in the slot before they were taken
    shown,      \* newest frame written to the socket
    arrived,    \* what was written last
    socket      \* is the socket up?

laneVars == <<routed, open>>
slotVars == <<counted, published, enqueued>>
pumpVars == <<taken, at, draining, control, frame, sent, skipped, shown, arrived>>
vars == <<laneVars, queue, slotVars, pumpVars, socket>>

Waiting == [msg : Controls, passed : Nat]

TypeOK ==
    /\ routed \in BOOLEAN /\ open \in BOOLEAN /\ draining \in BOOLEAN
    /\ socket \in BOOLEAN
    /\ queue \in Seq(Waiting)
    /\ counted \in SUBSET Senders
    /\ published \in Nat /\ taken \in Nat /\ frame \in Nat /\ shown \in Nat
    /\ enqueued \in Nat /\ sent \in Nat /\ skipped \in Nat
    /\ at \in {"select", "poll", "control", "frame", "ended"}
    /\ control \in Controls \cup {NoControl}
    /\ arrived \in Controls \cup {NoControl} \cup Nat

Init ==
    /\ routed = TRUE /\ open = TRUE /\ socket = TRUE
    /\ queue = <<>> /\ counted = {} /\ published = 0 /\ taken = 0
    /\ at = "select" /\ draining = FALSE /\ control = NoControl /\ frame = 0
    /\ enqueued = 0 /\ sent = 0 /\ skipped = 0 /\ shown = 0
    /\ arrived = NoControl

----------------------------------------------------------------------------
(* The senders *)

\* Hub::send_to
SendTo(m) ==
    /\ routed /\ Len(queue) < MaxQueue
    /\ queue' = Append(queue, [msg |-> m, passed |-> 0])
    /\ UNCHANGED <<laneVars, slotVars, pumpVars, socket>>

\* mutant: count what is replaced in the slot instead of what is put into it
CountReplaced(p) ==
    /\ open /\ p \notin counted
    /\ published + Cardinality(counted) < MaxFrames
    /\ counted' = counted \cup {p}
    /\ enqueued' = IF published > taken THEN enqueued + 1 ELSE enqueued
    /\ UNCHANGED <<laneVars, queue, published, pumpVars, socket>>

\* Hub::send_frame_to finds the slot registered and counts the frame ...
Count(p) ==
    /\ open /\ p \notin counted
    /\ published + Cardinality(counted) < MaxFrames
    /\ counted' = counted \cup {p}
    /\ enqueued' = enqueued + 1
    /\ UNCHANGED <<laneVars, queue, published, pumpVars, socket>>

\* ... and puts it into the slot.
Publish(p) ==
    /\ p \in counted
    /\ counted' = counted \ {p}
    /\ published' = published + 1
    /\ UNCHANGED <<laneVars, queue, enqueued, pumpVars, socket>>

\* The id is unregistered, or registered for a newer connection: the reliable
\* lane first, then the slot, which waits for those that hold its entry.
Unroute ==
    /\ routed
    /\ routed' = FALSE
    /\ UNCHANGED <<open, queue, slotVars, pumpVars, socket>>

CloseSlot ==
    /\ ~routed /\ open /\ counted = {}
    /\ open' = FALSE
    /\ UNCHANGED <<routed, queue, slotVars, pumpVars, socket>>

----------------------------------------------------------------------------
(* The pump *)

\* The reliable lane is polled first.
TakeControl ==
    /\ at = "select" /\ queue # <<>>
    /\ control' = Head(queue).msg
    /\ queue' = Tail(queue)
    /\ at' = "control"
    /\ UNCHANGED <<laneVars, slotVars, taken, draining, frame, sent, skipped,
                   shown, arrived, socket>>

\* mutant: whichever lane is ready is polled first
PollEither ==
    /\ at = "select" /\ ~draining
    /\ at' = "poll"
    /\ UNCHANGED <<laneVars, queue, slotVars, taken, draining, control, frame,
                   sent, skipped, shown, arrived, socket>>

\* It is empty: the slot is polled, unless it has been seen to be closed.
PollSlot ==
    /\ at = "select" /\ ~draining /\ queue = <<>>
    /\ at' = "poll"
    /\ UNCHANGED <<laneVars, queue, slotVars, taken, draining, control, frame,
                   sent, skipped, shown, arrived, socket>>

\* Nothing is new in the slot either: wait, and start over when woken.
Park ==
    /\ at = "poll" /\ published = taken /\ open
    /\ at' = "select"
    /\ UNCHANGED <<laneVars, queue, slotVars, taken, draining, control, frame,
                   sent, skipped, shown, arrived, socket>>

\* mutant: a frame is not looked for in a slot that has been closed
TakeFrameOpen ==
    /\ at = "poll" /\ published > taken /\ open
    /\ frame' = published /\ taken' = published
    /\ skipped' = skipped + (published - taken - 1)
    /\ at' = "frame"
    /\ UNCHANGED <<laneVars, queue, slotVars, draining, control, sent, shown,
                   arrived, socket>>

\* There is a change: take what the slot holds by now and mark it as seen.
TakeFrame ==
    /\ at = "poll" /\ published > taken
    /\ frame' = published /\ taken' = published
    /\ skipped' = skipped + (published - taken - 1)
    /\ at' = "frame"
    /\ UNCHANGED <<laneVars, queue, slotVars, draining, control, sent, shown,
                   arrived, socket>>

\* mutants: what still waits in the reliable lane is dropped, or never looked at
DrainDropping ==
    /\ at = "poll" /\ published = taken /\ ~open
    /\ draining' = TRUE /\ at' = "select" /\ queue' = <<>>
    /\ UNCHANGED <<laneVars, slotVars, taken, control, frame, sent, skipped,
                   shown, arrived, socket>>
DrainEnding ==
    /\ at = "poll" /\ published = taken /\ ~open
    /\ draining' = TRUE /\ at' = "ended"
    /\ UNCHANGED <<laneVars, queue, slotVars, taken, control, frame, sent,
                   skipped, shown, arrived, socket>>

\* The slot is closed and holds nothing unseen: go on with the reliable lane alone.
Drain ==
    /\ at = "poll" /\ published = taken /\ ~open
    /\ draining' = TRUE /\ at' = "select"
    /\ UNCHANGED <<laneVars, queue, slotVars, taken, control, frame, sent,
                   skipped, shown, arrived, socket>>

WriteControl ==
    /\ at = "control" /\ socket
    /\ arrived' = control /\ control' = NoControl
    /\ at' = "select"
    /\ UNCHANGED <<laneVars, queue, slotVars, taken, draining, frame, sent,
                   skipped, shown, socket>>

WriteFrame ==
    /\ at = "frame" /\ socket
    /\ shown' = frame /\ arrived' = frame
    /\ sent' = sent + 1
    /\ queue' = [i \in DOMAIN queue |-> [queue[i] EXCEPT !.passed = @ + 1]]
    /\ at' = "select"
    /\ UNCHANGED <<laneVars, slotVars, taken, draining, control, frame, skipped,
                   socket>>

\* A write fails: the pump ends.
WriteFails ==
    /\ at \in {"control", "frame"} /\ ~socket
    /\ at' = "ended"
    /\ UNCHANGED <<laneVars, queue, slotVars, taken, draining, control, frame,
                   sent, skipped, shown, arrived, socket>>

\* The socket task has left its loop and cleaned up: it aborts the pump.
Abort ==
    /\ ~socket /\ ~routed /\ ~open /\ at # "ended"
    /\ at' = "ended"
    /\ UNCHANGED <<laneVars, queue, slotVars, taken, draining, control, frame,
                   sent, skipped, shown, arrived, socket>>

SocketBreaks ==
    /\ socket
    /\ socket' = FALSE
    /\ UNCHANGED <<laneVars, queue, slotVars, pumpVars>>

----------------------------------------------------------------------------

Pump ==
    \/ TakeControl \/ PollSlot \/ Park \/ TakeFrame \/ Drain
    \/ WriteControl \/ WriteFrame

Next ==
    \/ \E m \in Controls : SendTo(m)
    \/ \E p \in Senders : Count(p) \/ Publish(p)
    \/ Unroute \/ CloseSlot \/ Pump \/ WriteFails \/ Abort \/ SocketBreaks

Spec == Init /\ [][Next]_vars

\* The pump's task runs on, and a write to a socket that is up completes.
FairSpec == Spec /\ WF_vars(Pump)

----------------------------------------------------------------------------
(* Properties *)

\* A control message is never held up by more than the one frame whose turn it
\* was when the message was sent (the select of the pump is biased).
OneFrameAhead == \A i \in DOMAIN queue : queue[i].passed <= 1

\* What frame_lane_drop reports once the pump has nothing to do is the number
\* of frames replaced in the slot and never sent: the difference of the two
\* counters neither reports a frame that was sent nor misses one.
frame_lane_drop == IF enqueued > sent THEN enqueued - sent ELSE 0
AtRest == at = "select" /\ counted = {} /\ published = taken
DropIsExact == AtRest => frame_lane_drop = skipped

\* The pump keeps what the outbound side promises: no control message is lost,
\* doubled or reordered and no frame arrives after a newer one.
Messages(q) == [i \in DOMAIN q |-> q[i].msg]
Backlog == IF control = NoControl THEN Messages(queue)
                                  ELSE <<control>> \o Messages(queue)
O == INSTANCE Outbox WITH
        Nothing <- NoControl, backlog <- Backlog, newest <- published, up <- socket
KeepsPromise == O!Spec

\* A control message that waits is written in the end, frames or no frames,
\* also after the id was unregistered, while the socket is up.
ControlsArrive ==
    \A m \in Controls :
        (\E i \in DOMAIN queue : queue[i].msg = m) ~> (arrived = m \/ ~socket)

\* Once the reliable lane falls quiet, the newest frame reaches the screen, the
\* last one before the slot was closed too.
NewestArrives ==
    <>[](queue = <<>>) =>
        \A n \in 1..MaxFrames : (published >= n) ~> (shown >= n \/ ~socket)

(***************************************************************************)
(* The inductive invariant behind them.                                    *)
(***************************************************************************)
InHand == IF at = "frame" THEN 1 ELSE 0

IInv ==
    /\ TypeOK
    /\ OneFrameAhead
    /\ at \in {"poll", "frame"} => \A i \in DOMAIN queue : queue[i].passed = 0
    /\ at = "control" => control # NoControl
    /\ at \in {"select", "poll", "frame"} => control = NoControl
    /\ shown <= frame /\ frame = taken /\ taken <= published
    /\ at = "frame" => shown < frame
    /\ enqueued = published + Cardinality(counted)
    /\ at # "ended" => taken = sent + skipped + InHand
    /\ ~open => ~routed /\ counted = {}
============================================================================
