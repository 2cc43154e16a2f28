------------------------------- MODULE Outbox -------------------------------
(***************************************************************************)
(* What a connection's outbound side promises to those who send through    *)
(* it: control messages arrive, each once and in their order; of the       *)
(* screen frames it may skip any, and what arrives is always newer than    *)
(* what arrived before.                                                    *)
(***************************************************************************)
EXTENDS Naturals, Sequences

CONSTANTS Controls,  \* control messages
          Nothing    \* nothing has arrived yet

VARIABLES backlog,   \* control messages sent that have not arrived
          newest,    \* frames are numbered; the number of the newest
          shown,     \* the frame that arrived last
          arrived,   \* what arrived last, of either kind
          up         \* is the socket up?

vars == <<backlog, newest, shown, arrived, up>>

Init ==
    /\ backlog = <<>> /\ newest = 0 /\ shown = 0
    /\ arrived = Nothing /\ up = TRUE

Say(m) ==
    /\ backlog' = Append(backlog, m)
    /\ UNCHANGED <<newest, shown, arrived, up>>

Show ==
    /\ newest' = newest + 1
    /\ UNCHANGED <<backlog, shown, arrived, up>>

ControlArrives ==
    /\ up /\ backlog # <<>>
    /\ arrived' = Head(backlog)
    /\ backlog' = Tail(backlog)
    /\ UNCHANGED <<newest, shown, up>>

FrameArrives ==
    /\ up
    /\ shown' \in (shown + 1)..newest
    /\ arrived' = shown'
    /\ UNCHANGED <<backlog, newest, up>>

GoDown ==
    /\ up' = FALSE
    /\ UNCHANGED <<backlog, newest, shown, arrived>>

Next ==
    \/ \E m \in Controls : Say(m)
    \/ Show \/ ControlArrives \/ FrameArrives \/ GoDown

Spec == Init /\ [][Next]_vars
=============================================================================
