-------------------------- MODULE FrameLaneProofs --------------------------
(***************************************************************************)
(* The lane keeps its inductive invariant and implements Outbox, for any   *)
(* sets of control messages and senders and any bounds.                    *)
(***************************************************************************)
EXTENDS FrameLane, SequenceTheorems, FiniteSetTheorems, TLAPS

\* Counting sets of senders.
LEMMA Counting ==
    ASSUME NEW S \in SUBSET Senders
    PROVE  /\ Cardinality(S) \in Nat
           /\ Cardinality({}) = 0
           /\ \A p \in Senders \ S : Cardinality(S \cup {p}) = Cardinality(S) + 1
           /\ \A p \in S : Cardinality(S \ {p}) = Cardinality(S) - 1
<1>1. IsFiniteSet(S)
  BY FrameLaneAssumption, FS_Subset
<1>. QED
  BY <1>1, FS_CardinalityType, FS_EmptySet, FS_AddElement, FS_RemoveElement

\* A lane is appended to and popped message by message.
LEMMA Lanes ==
    ASSUME NEW q \in Seq(Waiting), NEW w \in Waiting
    PROVE  /\ Append(q, w) \in Seq(Waiting)
           /\ \A i \in DOMAIN Append(q, w) :
                 Append(q, w)[i] = w \/ (i \in DOMAIN q /\ Append(q, w)[i] = q[i])
           /\ q # <<>> => /\ Head(q) \in Waiting /\ Tail(q) \in Seq(Waiting)
                          /\ \A i \in DOMAIN Tail(q) :
                                i + 1 \in DOMAIN q /\ Tail(q)[i] = q[i + 1]
<1>1. /\ Append(q, w) \in Seq(Waiting) /\ Len(Append(q, w)) = Len(q) + 1
      /\ \A i \in 1..Len(q) : Append(q, w)[i] = q[i]
      /\ Append(q, w)[Len(q) + 1] = w
  BY AppendProperties
<1>2. q # <<>> => /\ Head(q) \in Waiting /\ Tail(q) \in Seq(Waiting)
                  /\ Len(Tail(q)) = Len(q) - 1
                  /\ \A i \in 1..Len(Tail(q)) : Tail(q)[i] = q[i + 1]
  BY HeadTailProperties
<1>3. DOMAIN q = 1..Len(q) /\ Len(q) \in Nat
  BY LenProperties
<1>4. DOMAIN Append(q, w) = 1..(Len(q) + 1)
  BY <1>1, LenProperties
<1>5. ASSUME NEW i \in DOMAIN Append(q, w)
      PROVE  Append(q, w)[i] = w \/ (i \in DOMAIN q /\ Append(q, w)[i] = q[i])
  <2>1. CASE i = Len(q) + 1
    BY <2>1, <1>1, Zenon
  <2>2. CASE i # Len(q) + 1
    <3>1. i \in 1..Len(q)
      BY <1>3, <1>4, <2>2
    <3>. QED
      BY <3>1, <1>1, <1>3, Zenon
  <2>. QED
    BY <2>1, <2>2, Zenon
<1>6. ASSUME q # <<>>, NEW i \in DOMAIN Tail(q)
      PROVE  i + 1 \in DOMAIN q /\ Tail(q)[i] = q[i + 1]
  <2>1. i \in 1..(Len(q) - 1) /\ DOMAIN Tail(q) = 1..Len(Tail(q))
    BY <1>6, <1>2, LenProperties
  <2>2. i + 1 \in 1..Len(q)
    BY <2>1, <1>3
  <2>. QED
    BY <1>6, <2>1, <2>2, <1>2, <1>3, Zenon
<1>. QED
  BY <1>1, <1>2, <1>5, <1>6, Zenon

LEMMA InitInvariant == Init => IInv
<1>. SUFFICES ASSUME Init PROVE IInv
  OBVIOUS
<1>1. <<>> \in Seq(Waiting) /\ {} \in SUBSET Senders
  OBVIOUS
<1>2. TypeOK
  BY <1>1 DEF Init, TypeOK
<1>. QED
  BY <1>1, <1>2, Counting DEF Init, IInv, OneFrameAhead, InHand

\* The senders' steps and the hub's.
LEMMA LaneStep ==
    ASSUME IInv,
           \/ \E m \in Controls : SendTo(m)
           \/ \E p \in Senders : Count(p) \/ Publish(p)
           \/ Unroute \/ CloseSlot \/ SocketBreaks
    PROVE  IInv'
<1>. USE DEF IInv, laneVars, slotVars, pumpVars, InHand
<1>1. ASSUME NEW m \in Controls, SendTo(m) PROVE IInv'
  <2>. DEFINE w == [msg |-> m, passed |-> 0]
  <2>1. w \in Waiting /\ queue \in Seq(Waiting)
    BY DEF TypeOK, Waiting
  <2>2. TypeOK'
    BY <1>1, <2>1, Lanes DEF SendTo, TypeOK
  <2>3. \A i \in DOMAIN queue' : \/ queue'[i].passed = 0
                                 \/ i \in DOMAIN queue /\ queue'[i] = queue[i]
    BY <1>1, <2>1, Lanes DEF SendTo
  <2>. QED
    BY <1>1, <2>2, <2>3 DEF SendTo, OneFrameAhead
<1>2. ASSUME NEW p \in Senders, Count(p) PROVE IInv'
  <2>1. TypeOK'
    BY <1>2 DEF Count, TypeOK
  <2>2. (enqueued = published + Cardinality(counted))'
    BY <1>2, Counting DEF Count, TypeOK
  <2>. QED
    BY <1>2, <2>1, <2>2 DEF Count, OneFrameAhead
<1>3. ASSUME NEW p \in Senders, Publish(p) PROVE IInv'
  <2>1. TypeOK'
    BY <1>3 DEF Publish, TypeOK
  <2>2. (enqueued = published + Cardinality(counted))'
    BY <1>3, Counting DEF Publish, TypeOK
  <2>. QED
    BY <1>3, <2>1, <2>2 DEF Publish, OneFrameAhead, TypeOK
<1>4. CASE Unroute
  <2>1. TypeOK'
    BY <1>4 DEF Unroute, TypeOK
  <2>. QED
    BY <1>4, <2>1 DEF Unroute, OneFrameAhead
<1>5. CASE CloseSlot
  <2>1. TypeOK'
    BY <1>5 DEF CloseSlot, TypeOK
  <2>. QED
    BY <1>5, <2>1 DEF CloseSlot, OneFrameAhead
<1>6. CASE SocketBreaks
  <2>1. TypeOK'
    BY <1>6 DEF SocketBreaks, TypeOK
  <2>. QED
    BY <1>6, <2>1 DEF SocketBreaks, OneFrameAhead
<1>. QED
  BY <1>1, <1>2, <1>3, <1>4, <1>5, <1>6

LEMMA PumpStep ==
    ASSUME IInv, Pump \/ WriteFails \/ Abort
    PROVE  IInv'
<1>. USE DEF IInv, laneVars, slotVars, pumpVars, InHand
<1>1. CASE TakeControl
  <2>1. /\ Head(queue) \in Waiting /\ Tail(queue) \in Seq(Waiting)
        /\ \A i \in DOMAIN Tail(queue) :
              i + 1 \in DOMAIN queue /\ Tail(queue)[i] = queue[i + 1]
    BY <1>1, Lanes DEF TakeControl, TypeOK
  <2>2. TypeOK'
    BY <1>1, <2>1 DEF TakeControl, TypeOK, Waiting
  <2>3. OneFrameAhead'
    BY <1>1, <2>1 DEF TakeControl, OneFrameAhead
  <2>4. control' # NoControl
    BY <1>1, <2>1, FrameLaneAssumption DEF TakeControl, Waiting
  <2>. QED
    BY <1>1, <2>2, <2>3, <2>4 DEF TakeControl
<1>2. CASE PollSlot
  <2>1. TypeOK'
    BY <1>2 DEF PollSlot, TypeOK
  <2>. QED
    BY <1>2, <2>1 DEF PollSlot, OneFrameAhead
<1>3. CASE TakeFrame
  <2>1. TypeOK'
    BY <1>3 DEF TakeFrame, TypeOK
  <2>2. (/\ shown <= frame /\ frame = taken /\ taken <= published
         /\ shown < frame /\ taken = sent + skipped + 1)'
    BY <1>3 DEF TakeFrame, TypeOK
  <2>. QED
    BY <1>3, <2>1, <2>2 DEF TakeFrame, OneFrameAhead
<1>9. CASE Park
  <2>1. TypeOK'
    BY <1>9 DEF Park, TypeOK
  <2>. QED
    BY <1>9, <2>1 DEF Park, OneFrameAhead
<1>4. CASE Drain
  <2>1. TypeOK'
    BY <1>4 DEF Drain, TypeOK
  <2>. QED
    BY <1>4, <2>1 DEF Drain, OneFrameAhead
<1>5. CASE WriteControl
  <2>1. TypeOK'
    BY <1>5 DEF WriteControl, TypeOK
  <2>. QED
    BY <1>5, <2>1 DEF WriteControl, OneFrameAhead
<1>6. CASE WriteFrame
  <2>1. /\ queue \in Seq(Waiting) /\ DOMAIN queue' = DOMAIN queue
        /\ \A i \in DOMAIN queue : /\ queue'[i] \in Waiting
                                   /\ queue'[i].passed = queue[i].passed + 1
    <3>1. \A i \in DOMAIN queue : queue[i] \in Waiting
      BY ElementOfSeq, LenProperties DEF TypeOK
    <3>2. queue' = [i \in DOMAIN queue |-> [queue[i] EXCEPT !.passed = @ + 1]]
      BY <1>6 DEF WriteFrame
    <3>3. ASSUME NEW r \in Waiting
          PROVE  /\ [r EXCEPT !.passed = @ + 1] \in Waiting
                 /\ [r EXCEPT !.passed = @ + 1].passed = r.passed + 1
      BY DEF Waiting
    <3>. QED
      BY <3>1, <3>2, <3>3 DEF TypeOK
  <2>2. queue' \in Seq(Waiting)
    <3>1. Len(queue) \in Nat /\ DOMAIN queue = 1..Len(queue)
      BY <2>1, LenProperties
    <3>2. queue' = [i \in 1..Len(queue) |-> queue'[i]]
      BY <1>6, <3>1 DEF WriteFrame
    <3>. QED
      BY <2>1, <3>1, <3>2
  <2>3. TypeOK'
    BY <1>6, <2>2 DEF WriteFrame, TypeOK
  <2>4. OneFrameAhead'
    BY <1>6, <2>1 DEF WriteFrame, OneFrameAhead
  <2>. QED
    BY <1>6, <2>3, <2>4 DEF WriteFrame, TypeOK
<1>7. CASE WriteFails
  <2>1. TypeOK'
    BY <1>7 DEF WriteFails, TypeOK
  <2>. QED
    BY <1>7, <2>1 DEF WriteFails, OneFrameAhead
<1>8. CASE Abort
  <2>1. TypeOK'
    BY <1>8 DEF Abort, TypeOK
  <2>. QED
    BY <1>8, <2>1 DEF Abort, OneFrameAhead
<1>. QED
  BY <1>1, <1>2, <1>3, <1>4, <1>5, <1>6, <1>7, <1>8, <1>9 DEF Pump

LEMMA NextInvariant == IInv /\ [Next]_vars => IInv'
<1>. SUFFICES ASSUME IInv, [Next]_vars PROVE IInv'
  OBVIOUS
<1>1. CASE UNCHANGED vars
  BY <1>1 DEF vars, laneVars, slotVars, pumpVars, IInv, TypeOK, OneFrameAhead, InHand
<1>. QED
  BY <1>1, LaneStep, PumpStep DEF Next

\* The inductive invariant of the lane and the pump holds throughout.
THEOREM LaneInvariance == Spec => []IInv
  BY InitInvariant, NextInvariant, PTL DEF Spec

\* No control message is held up by more than one frame, whatever the rate of
\* frames and the timing of the pump.
THEOREM ControlFirst == Spec => []OneFrameAhead
<1>1. IInv => OneFrameAhead
  BY DEF IInv
<1>. QED
  BY <1>1, LaneInvariance, PTL

\* The reported drop is exact for any number of senders and frames.
THEOREM DropReportExact == Spec => []DropIsExact
<1>1. IInv => DropIsExact
  <2>. SUFFICES ASSUME IInv, AtRest PROVE frame_lane_drop = skipped
    BY DEF DropIsExact
  <2>1. Cardinality(counted) = 0
    BY Counting DEF AtRest
  <2>2. /\ enqueued = published + 0 /\ taken = sent + skipped + 0
        /\ published = taken
    BY <2>1 DEF IInv, AtRest, InHand
  <2>. QED
    BY <2>2 DEF IInv, TypeOK, frame_lane_drop
<1>. QED
  BY <1>1, LaneInvariance, PTL

----------------------------------------------------------------------------
(* The lane implements Outbox. *)

\* The messages of a lane, as the lane is appended to, popped and rewritten.
LEMMA MessagesOf ==
    ASSUME NEW q \in Seq(Waiting)
    PROVE  /\ Messages(q) \in Seq(Controls)
           /\ Len(Messages(q)) = Len(q)
           /\ \A i \in 1..Len(q) : Messages(q)[i] = q[i].msg
<1>1. Len(q) \in Nat /\ DOMAIN q = 1..Len(q)
  BY LenProperties
<1>2. \A i \in 1..Len(q) : q[i].msg \in Controls
  <2>1. \A i \in 1..Len(q) : q[i] \in Waiting
    BY ElementOfSeq
  <2>. QED
    BY <2>1 DEF Waiting
<1>. QED
  BY <1>1, <1>2 DEF Messages

LEMMA MessagesAppend ==
    ASSUME NEW q \in Seq(Waiting), NEW w \in Waiting
    PROVE  Messages(Append(q, w)) = Append(Messages(q), w.msg)
<1>1. /\ Append(q, w) \in Seq(Waiting) /\ Len(Append(q, w)) = Len(q) + 1
      /\ \A i \in 1..Len(q) : Append(q, w)[i] = q[i]
      /\ Append(q, w)[Len(q) + 1] = w /\ Len(q) \in Nat
  BY AppendProperties, LenProperties
<1>2. w.msg \in Controls
  BY DEF Waiting
<1>3. /\ Append(Messages(q), w.msg) \in Seq(Controls)
      /\ Len(Append(Messages(q), w.msg)) = Len(q) + 1
      /\ \A i \in 1..Len(q) : Append(Messages(q), w.msg)[i] = q[i].msg
      /\ Append(Messages(q), w.msg)[Len(q) + 1] = w.msg
  BY <1>2, MessagesOf, AppendProperties
<1>4. /\ Messages(Append(q, w)) \in Seq(Controls)
      /\ Len(Messages(Append(q, w))) = Len(q) + 1
      /\ \A i \in 1..(Len(q) + 1) : Messages(Append(q, w))[i] = Append(q, w)[i].msg
  BY <1>1, MessagesOf
<1>5. \A i \in 1..(Len(q) + 1) : Messages(Append(q, w))[i] = Append(Messages(q), w.msg)[i]
  BY <1>1, <1>3, <1>4
<1>. QED
  BY <1>3, <1>4, <1>5, SeqEqual

\* Putting a message in front of a lane, and taking it off again.
LEMMA InFront ==
    ASSUME NEW c \in Controls, NEW s \in Seq(Controls), NEW m \in Controls
    PROVE  /\ <<c>> \o s \in Seq(Controls) /\ <<c>> \o s # <<>>
           /\ Head(<<c>> \o s) = c /\ Tail(<<c>> \o s) = s
           /\ <<c>> \o Append(s, m) = Append(<<c>> \o s, m)
<1>. DEFINE t == <<c>> \o s
<1>1. <<c>> \in Seq(Controls) /\ Len(<<c>>) = 1 /\ <<c>>[1] = c
  OBVIOUS
<1>2. Len(s) \in Nat
  BY LenProperties
<1>3. /\ t \in Seq(Controls) /\ Len(t) = Len(s) + 1 /\ t[1] = c
      /\ \A i \in 1..Len(s) : t[i + 1] = s[i]
  BY <1>1, <1>2, ConcatProperties
<1>4. t # <<>>
  BY <1>2, <1>3
<1>5. /\ Head(t) = t[1] /\ Tail(t) \in Seq(Controls) /\ Len(Tail(t)) = Len(s)
      /\ \A i \in 1..Len(s) : Tail(t)[i] = t[i + 1]
  BY <1>2, <1>3, <1>4, HeadTailProperties
<1>6. Tail(t) = s
  BY <1>3, <1>5, SeqEqual
<1>7. /\ Append(s, m) \in Seq(Controls) /\ Len(Append(s, m)) = Len(s) + 1
      /\ \A i \in 1..Len(s) : Append(s, m)[i] = s[i]
      /\ Append(s, m)[Len(s) + 1] = m
  BY AppendProperties
<1>8. /\ Append(t, m) \in Seq(Controls) /\ Len(Append(t, m)) = Len(s) + 2
      /\ \A i \in 1..(Len(s) + 1) : Append(t, m)[i] = t[i]
      /\ Append(t, m)[Len(s) + 2] = m
  BY <1>2, <1>3, AppendProperties
<1>9. /\ <<c>> \o Append(s, m) \in Seq(Controls)
      /\ Len(<<c>> \o Append(s, m)) = Len(s) + 2
      /\ \A i \in 1..(Len(s) + 2) :
            (<<c>> \o Append(s, m))[i] = IF i = 1 THEN c ELSE Append(s, m)[i - 1]
  BY <1>1, <1>2, <1>7, ConcatProperties
<1>10. \A i \in 1..(Len(s) + 2) : (<<c>> \o Append(s, m))[i] = Append(t, m)[i]
  <2>. SUFFICES ASSUME NEW i \in 1..(Len(s) + 2)
                PROVE  (<<c>> \o Append(s, m))[i] = Append(t, m)[i]
    OBVIOUS
  <2>1. CASE i = 1
    BY <2>1, <1>2, <1>3, <1>8, <1>9
  <2>2. CASE i = Len(s) + 2
    BY <2>2, <1>2, <1>7, <1>8, <1>9
  <2>3. CASE i \in 2..(Len(s) + 1)
    <3>. DEFINE j == i - 1
    <3>1. j \in 1..Len(s) /\ i = j + 1
      BY <2>3, <1>2
    <3>. QED
      BY <3>1, <2>3, <1>2, <1>3, <1>7, <1>8, <1>9
  <2>. QED
    BY <1>2, <2>1, <2>2, <2>3
<1>11. <<c>> \o Append(s, m) = Append(t, m)
  BY <1>8, <1>9, <1>10, SeqEqual
<1>. QED
  BY <1>3, <1>4, <1>5, <1>6, <1>11, Zenon

\* Taking a message off the lane moves it to the pump's hand.
LEMMA MessagesPop ==
    ASSUME NEW q \in Seq(Waiting), q # <<>>
    PROVE  Messages(q) = <<Head(q).msg>> \o Messages(Tail(q))
<1>1. /\ Head(q) = q[1] /\ Head(q) \in Waiting
      /\ Tail(q) \in Seq(Waiting) /\ Len(Tail(q)) = Len(q) - 1
      /\ \A i \in 1..Len(Tail(q)) : Tail(q)[i] = q[i + 1]
      /\ Len(q) \in Nat \ {0}
  BY HeadTailProperties, EmptySeq
<1>. DEFINE c == Head(q).msg
            s == Messages(Tail(q))
<1>2. c \in Controls
  BY <1>1 DEF Waiting
<1>3. /\ s \in Seq(Controls) /\ Len(s) = Len(q) - 1
      /\ \A i \in 1..(Len(q) - 1) : s[i] = q[i + 1].msg
  <2>1. /\ s \in Seq(Controls) /\ Len(s) = Len(Tail(q))
        /\ \A i \in 1..Len(Tail(q)) : s[i] = Tail(q)[i].msg
    BY <1>1, MessagesOf
  <2>. HIDE DEF s
  <2>. QED
    BY <1>1, <2>1
<1>4. /\ <<c>> \in Seq(Controls) /\ Len(<<c>>) = 1 /\ <<c>>[1] = c
  BY <1>2
<1>5. /\ <<c>> \o s \in Seq(Controls) /\ Len(<<c>> \o s) = Len(q)
      /\ \A i \in 1..Len(q) : (<<c>> \o s)[i] = IF i <= 1 THEN <<c>>[i] ELSE s[i - 1]
  <2>. HIDE DEF c, s
  <2>1. /\ <<c>> \o s \in Seq(Controls)
        /\ Len(<<c>> \o s) = Len(<<c>>) + Len(s)
        /\ \A i \in 1..(Len(<<c>>) + Len(s)) :
              (<<c>> \o s)[i] = IF i <= Len(<<c>>) THEN <<c>>[i] ELSE s[i - Len(<<c>>)]
    BY <1>3, <1>4, ConcatProperties
  <2>2. Len(<<c>>) = 1 /\ Len(<<c>>) + Len(s) = Len(q)
    BY <1>1, <1>3, <1>4
  <2>. QED
    BY <2>1, <2>2
<1>6. \A i \in 1..Len(q) : (<<c>> \o s)[i] = Messages(q)[i]
  <2>. SUFFICES ASSUME NEW i \in 1..Len(q)
                PROVE  (<<c>> \o s)[i] = q[i].msg
    BY MessagesOf
  <2>1. CASE i = 1
    BY <2>1, <1>1, <1>4, <1>5
  <2>2. CASE i # 1
    <3>. DEFINE j == i - 1
    <3>1. j \in 1..(Len(q) - 1) /\ i = j + 1 /\ ~(i <= 1)
      BY <2>2, <1>1
    <3>. HIDE DEF s
    <3>. QED
      BY <3>1, <1>3, <1>5
  <2>. QED
    BY <2>1, <2>2
<1>7. /\ Messages(q) \in Seq(Controls) /\ Len(Messages(q)) = Len(q)
  BY MessagesOf
<1>. HIDE DEF c, s
<1>8. Messages(q) = <<c>> \o s
  BY <1>5, <1>6, <1>7, SeqEqual
<1>. QED
  BY <1>8 DEF c, s

\* A step that leaves the lane, the hand and what was written alone.
LEMMA Stutters ==
    ASSUME UNCHANGED <<queue, control, published, shown, arrived, socket>>
    PROVE  UNCHANGED O!vars
  BY DEF O!vars, Backlog, Messages

LEMMA InitImplements == Init => O!Init
  BY DEF Init, O!Init, Backlog, Messages

LEMMA StepImplements == IInv /\ [Next]_vars => [O!Next]_(O!vars)
<1>. SUFFICES ASSUME IInv, [Next]_vars PROVE O!Next \/ UNCHANGED O!vars
  BY DEF O!Next
<1>. USE DEF laneVars, slotVars, pumpVars
<1>0. /\ queue \in Seq(Waiting) /\ control \in Controls \cup {NoControl}
      /\ Messages(queue) \in Seq(Controls) /\ socket \in BOOLEAN
  BY MessagesOf DEF IInv, TypeOK
<1>1. ASSUME NEW m \in Controls, SendTo(m) PROVE O!Say(m)
  <2>. DEFINE w == [msg |-> m, passed |-> 0]
  <2>1. w \in Waiting /\ w.msg = m
    BY DEF Waiting
  <2>2. Messages(queue') = Append(Messages(queue), m)
    BY <1>0, <1>1, <2>1, MessagesAppend DEF SendTo
  <2>3. Backlog' = Append(Backlog, m)
    <3>1. CASE control = NoControl
      BY <3>1, <1>1, <2>2 DEF Backlog, SendTo, Messages
    <3>2. CASE control # NoControl
      <4>1. Backlog = <<control>> \o Messages(queue)
        BY <3>2 DEF Backlog
      <4>2. Backlog' = <<control>> \o Messages(queue')
        BY <3>2, <1>1 DEF Backlog, SendTo, Messages
      <4>. QED
        BY <4>1, <4>2, <3>2, <2>2, <1>0, InFront
    <3>. QED
      BY <3>1, <3>2
  <2>. QED
    BY <1>1, <2>3 DEF SendTo, O!Say
<1>2. ASSUME NEW p \in Senders, Publish(p) PROVE O!Show
  BY <1>2 DEF Publish, O!Show, Backlog, Messages
<1>3. CASE TakeControl
  <2>1. control = NoControl /\ control' = Head(queue).msg /\ control' # NoControl
    <3>1. Head(queue) \in Waiting
      BY <1>0, <1>3, HeadTailProperties DEF TakeControl
    <3>. QED
      BY <3>1, <1>3, FrameLaneAssumption DEF TakeControl, IInv, Waiting
  <2>2. Messages(queue) = <<Head(queue).msg>> \o Messages(Tail(queue))
    BY <1>0, <1>3, MessagesPop DEF TakeControl
  <2>3. Backlog' = Backlog
    BY <2>1, <2>2, <1>3 DEF Backlog, TakeControl, Messages
  <2>. QED
    BY <2>3, <1>3 DEF TakeControl, O!vars
<1>4. CASE WriteControl
  <2>1. control \in Controls /\ control' = NoControl
    BY <1>0, <1>4 DEF WriteControl, IInv
  <2>2. /\ Backlog = <<control>> \o Messages(queue)
        /\ Backlog' = Messages(queue)
    BY <2>1, <1>4, FrameLaneAssumption DEF WriteControl, Backlog, Messages
  <2>3. Backlog # <<>> /\ Head(Backlog) = control /\ Tail(Backlog) = Messages(queue)
    BY <2>1, <2>2, <1>0, InFront
  <2>4. O!ControlArrives
    BY <2>2, <2>3, <1>4 DEF WriteControl, O!ControlArrives
  <2>. QED
    BY <2>4 DEF O!Next
<1>5. CASE WriteFrame
  <2>1. Messages(queue') = Messages(queue)
    <3>1. \A i \in DOMAIN queue : queue[i] \in Waiting
      BY <1>0, ElementOfSeq, LenProperties
    <3>2. queue' = [i \in DOMAIN queue |-> [queue[i] EXCEPT !.passed = @ + 1]]
      BY <1>5 DEF WriteFrame
    <3>3. \A r \in Waiting : [r EXCEPT !.passed = @ + 1].msg = r.msg
      BY DEF Waiting
    <3>4. \A i \in DOMAIN queue : queue'[i].msg = queue[i].msg
      BY <3>1, <3>2, <3>3
    <3>. QED
      BY <3>2, <3>4 DEF Messages
  <2>2. Backlog' = Backlog
    BY <2>1, <1>5 DEF Backlog, WriteFrame, Messages
  <2>3. shown' \in (shown + 1)..published
    BY <1>5 DEF WriteFrame, IInv, TypeOK
  <2>4. O!FrameArrives
    BY <2>2, <2>3, <1>5 DEF WriteFrame, O!FrameArrives
  <2>. QED
    BY <2>4 DEF O!Next
<1>6. CASE SocketBreaks
  <2>1. O!GoDown
    BY <1>6 DEF SocketBreaks, O!GoDown, Backlog, Messages
  <2>. QED
    BY <2>1 DEF O!Next
<1>7. ASSUME \/ \E p \in Senders : Count(p)
             \/ Unroute \/ CloseSlot \/ PollSlot \/ Park \/ TakeFrame \/ Drain
             \/ WriteFails \/ Abort \/ UNCHANGED vars
      PROVE  UNCHANGED O!vars
  <2>1. UNCHANGED <<queue, control, published, shown, arrived, socket>>
    BY <1>7 DEF Count, Unroute, CloseSlot, PollSlot, Park, TakeFrame, Drain,
                WriteFails, Abort, vars
  <2>. QED
    BY <2>1, Stutters
<1>. QED
  BY <1>1, <1>2, <1>3, <1>4, <1>5, <1>6, <1>7 DEF Next, Pump, O!Next

\* The pump keeps the promise of the outbound side: a control message is never
\* lost, doubled or reordered and no frame arrives after a newer one, for any
\* traffic, across the hub's withdrawal of the lane and of the slot.
THEOREM LaneImplementsOutbox == Spec => KeepsPromise
<1>1. Spec => O!Init
  BY InitImplements DEF Spec
<1>2. Spec => [][O!Next]_(O!vars)
  BY LaneInvariance, StepImplements, PTL DEF Spec
<1>. QED
  BY <1>1, <1>2 DEF KeepsPromise, O!Spec
============================================================================
