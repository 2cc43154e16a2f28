------------------------ MODULE ClientSessionProofs ------------------------
(***************************************************************************)
(* Proofs about ClientSession, for every set of sessions and every bound   *)
(* on what is under way: whatever the parts of the client tell each other  *)
(* names a session the server has heard of, so the workers serve nothing   *)
(* but the session the connection is in, and the output the window shows   *)
(* is of the session it entered last.                                      *)
(***************************************************************************)
EXTENDS ClientSession, TLAPS

----------------------------------------------------------------------------
(* Types, and the sessions that are spoken of *)

\* Session ids that are in use, or were.
Met == {NoSession} \cup {s \in Sessions : srv[s] # "unused"}

\* Messages that name one; the answer to a command is always of some session.
Spoken(K) == {m \in [kind : K, id : Met] : m.kind = "result" => m.id # NoSession}

\* Everything that is under way or is shared speaks of such a session.
Known ==
    /\ SessTypeOK
    /\ slot \in Met
    /\ ctx \in [controlling : Met, controlled : Met, cancelled : BOOLEAN]
    /\ ids \in [cur : Met, ctrl : Met, ended : Met]
    /\ down \in Seq(Spoken(DownKinds)) /\ up \in Seq(Spoken(UpKinds))
    /\ toUi \in Seq(Spoken(UiKinds)) /\ posted \in Seq(Spoken(UiKinds))

LEMMA SeqGrows ==
    ASSUME NEW S, NEW T, S \subseteq T, NEW q \in Seq(S)
    PROVE  q \in Seq(T)
OBVIOUS

LEMMA QueueGrows ==
    ASSUME NEW K, Met \subseteq Met', NEW q \in Seq(Spoken(K))
    PROVE  q \in Seq(Spoken(K)')
<1>1. Spoken(K) \subseteq Spoken(K)'
  BY DEF Spoken
<1> QED BY <1>1, SeqGrows

LEMMA HeadTail ==
    ASSUME NEW S, NEW q \in Seq(S), q # << >>
    PROVE  Head(q) \in S /\ Tail(q) \in Seq(S)
OBVIOUS

LEMMA Appended ==
    ASSUME NEW S, NEW q \in Seq(S), NEW e \in S
    PROVE  Append(q, e) \in Seq(S)
OBVIOUS

\* What the server has heard of, it has heard of for good.
LEMMA MetGrows ==
    ASSUME SessTypeOK, \A s \in Sessions : srv[s] # "unused" => srv'[s] # "unused"
    PROVE  Met \subseteq Met' /\ Met' \subseteq Maybe /\ NoSession \in Met
BY DEF Met, Maybe

\* What stays known when nothing but the server's table grows.
LEMMA KnownKept ==
    ASSUME Known, \A s \in Sessions : srv[s] # "unused" => srv'[s] # "unused"
    PROVE  /\ slot' = slot => slot' \in Met'
           /\ ctx' = ctx => ctx' \in [controlling : Met', controlled : Met', cancelled : BOOLEAN]
           /\ ids' = ids => ids' \in [cur : Met', ctrl : Met', ended : Met']
           /\ down' \in {down, Tail(down)} /\ (down' # down => down # << >>)
                 => down' \in Seq(Spoken(DownKinds)')
           /\ up' \in {up, Tail(up)} /\ (up' # up => up # << >>)
                 => up' \in Seq(Spoken(UpKinds)')
           /\ toUi' \in {toUi, Tail(toUi)} /\ (toUi' # toUi => toUi # << >>)
                 => toUi' \in Seq(Spoken(UiKinds)')
           /\ posted' \in {posted, Tail(posted)} /\ (posted' # posted => posted # << >>)
                 => posted' \in Seq(Spoken(UiKinds)')
<1>1. Met \subseteq Met'
  BY MetGrows DEF Known
<1>2. \A K : \A q \in Seq(Spoken(K)) :
        q \in Seq(Spoken(K)') /\ (q # << >> => Tail(q) \in Seq(Spoken(K)'))
  BY <1>1, QueueGrows, HeadTail
<1> QED BY <1>1, <1>2 DEF Known

\* The parts of the invariant, after a step.
LEMMA KnownFromParts ==
    ASSUME SessTypeOK, \A s \in Sessions : srv[s] # "unused" => srv'[s] # "unused",
           srv' \in [Sessions -> {"unused", "asked", "offered", "out", "mute", "in", "over"}],
           slot' \in Met',
           ctx' \in [controlling : Met', controlled : Met', cancelled : BOOLEAN],
           ids' \in [cur : Met', ctrl : Met', ended : Met'],
           down' \in Seq(Spoken(DownKinds)'),
           up' \in Seq(Spoken(UpKinds)'),
           toUi' \in Seq(Spoken(UiKinds)'),
           capture' \in Maybe, clip' \in Maybe,
           posted' \in Seq(Spoken(UiKinds)'),
           win' \in [dialog : BOOLEAN, banner : BOOLEAN, view : BOOLEAN,
                     asking : BOOLEAN, output : SUBSET Sessions],
           clicks' \in 0 .. MaxClicks, losses' \in 0 .. MaxLosses,
           entered' \in Maybe, lost' \in SUBSET Sessions
    PROVE  Known'
<1>1. Met' \subseteq Maybe
  BY MetGrows
<1>2. /\ down' \in Seq([kind : DownKinds, id : Maybe])
      /\ up' \in Seq([kind : UpKinds, id : Maybe])
      /\ toUi' \in Seq([kind : UiKinds, id : Maybe])
      /\ posted' \in Seq([kind : UiKinds, id : Maybe])
  <2>1. \A K : Spoken(K)' \subseteq [kind : K, id : Maybe]
    BY <1>1 DEF Spoken
  <2> QED BY <2>1, SeqGrows
<1>3. /\ slot' \in Maybe
      /\ ctx' \in [controlling : Maybe, controlled : Maybe, cancelled : BOOLEAN]
      /\ ids' \in [cur : Maybe, ctrl : Maybe, ended : Maybe]
  BY <1>1
<1> QED BY <1>2, <1>3 DEF Known, SessTypeOK

LEMMA KnownInit == SessInit => Known
BY SessionAssumption DEF SessInit, Known, SessTypeOK, Met, Maybe, Fresh0

States == {"unused", "asked", "offered", "out", "mute", "in", "over"}

\* A message is added to a queue whose ids stay known.
LEMMA Told ==
    ASSUME Known, \A s \in Sessions : srv[s] # "unused" => srv'[s] # "unused", NEW e
    PROVE  /\ e \in Spoken(DownKinds)' => Append(down, e) \in Seq(Spoken(DownKinds)')
           /\ e \in Spoken(UpKinds)' => Append(up, e) \in Seq(Spoken(UpKinds)')
           /\ e \in Spoken(UiKinds)' => /\ Append(toUi, e) \in Seq(Spoken(UiKinds)')
                                       /\ Append(posted, e) \in Seq(Spoken(UiKinds)')
<1>1. Met \subseteq Met'
  BY MetGrows DEF Known
<1>2. \A K : \A q \in Seq(Spoken(K)) : q \in Seq(Spoken(K)')
  BY <1>1, QueueGrows
<1> QED BY <1>2, Appended DEF Known

LEMMA PeerKnown ==
    ASSUME Known, NEW s \in Sessions,
           PeerConnects(s) \/ PeerAnswers(s) \/ PeerEnds(s) \/ PeerSends(s)
    PROVE  Known'
<1>1. /\ srv' \in [Sessions -> States]
      /\ \A q \in Sessions : srv[q] # "unused" => srv'[q] # "unused"
      /\ srv'[s] # "unused"
  BY DEF Known, SessTypeOK, PeerConnects, PeerAnswers, PeerEnds, PeerSends, States
<1>2. UNCHANGED fixed
  BY DEF PeerConnects, PeerAnswers, PeerEnds, PeerSends
<1>3. slot' \in Met'
  <2>1. slot' = slot \/ slot' = s
    BY DEF PeerConnects, PeerAnswers, PeerEnds, PeerSends
  <2> QED BY <1>1, <2>1, KnownKept DEF Met
<1>4. down' \in Seq(Spoken(DownKinds)')
  <2>1. \/ down' = down
        \/ \E k \in DownKinds : Tells(k, s)
        \/ Tells("reject", NoSession)
    BY DEF PeerConnects, PeerAnswers, PeerEnds, PeerSends, DownKinds
  <2>2. \A k \in DownKinds : Event(k, s) \in Spoken(DownKinds)'
    BY <1>1, SessionAssumption DEF Event, Spoken, Met
  <2>3. Event("reject", NoSession) \in Spoken(DownKinds)'
    BY DEF Event, Spoken, Met, DownKinds
  <2> QED BY <1>1, <2>1, <2>2, <2>3, KnownKept, Told DEF Tells
<1> QED BY <1>1, <1>2, <1>3, <1>4, KnownKept, KnownFromParts
        DEF Known, SessTypeOK, fixed, screen, history, States

\* A message of the server: an id that was known reaches the context, the workers
\* and the user interface.
LEMMA DownlinkKnown ==
    ASSUME Known,
           IncomingControl \/ AskUser \/ ConnectAck \/ RejectOrNotice \/ ExecResult \/ SessionEnd
    PROVE  Known'
<1> DEFINE e == Head(down)
<1>1. down # << >> /\ down' = Tail(down) /\ UNCHANGED <<slot, kept>>
  BY DEF IncomingControl, AskUser, ConnectAck, RejectOrNotice, ExecResult, SessionEnd, IsNext,
         Taken
<1>2. e.kind \in DownKinds /\ e.id \in Met /\ (e.kind = "result" => e.id # NoSession)
  <2>1. e \in Spoken(DownKinds)
    BY <1>1, HeadTail DEF Known
  <2> QED BY <2>1 DEF Spoken
<1> HIDE DEF e
<1>3. /\ srv' \in [Sessions -> States]
      /\ \A q \in Sessions : srv[q] # "unused" => srv'[q] # "unused"
  BY DEF Known, SessTypeOK, States, IncomingControl, AskUser, ConnectAck, RejectOrNotice,
         ExecResult, SessionEnd
<1>4. Met \subseteq Met' /\ NoSession \in Met /\ Met \subseteq Maybe
  BY <1>3, MetGrows DEF Known
<1>5. ctx' \in [controlling : Met', controlled : Met', cancelled : BOOLEAN]
  <2>1. \/ ctx' = ctx
        \/ ctx' = [ctx EXCEPT !.controlled = e.id]
        \/ ctx' = [ctx EXCEPT !.cancelled = FALSE]
        \/ ctx' = [ctx EXCEPT !.controlling = e.id]
        \/ ctx' = [ctx EXCEPT !.controlling = IF @ = e.id THEN NoSession ELSE @,
                              !.controlled = IF @ = e.id THEN NoSession ELSE @]
    BY DEF IncomingControl, AskUser, ConnectAck, RejectOrNotice, ExecResult, SessionEnd, e
  <2>2. ctx \in [controlling : Met', controlled : Met', cancelled : BOOLEAN]
    BY <1>4 DEF Known
  <2> QED BY <1>2, <1>4, <2>1, <2>2
<1>6. capture' \in Maybe /\ clip' \in Maybe
  <2>1. capture' \in {capture, e.id, NoSession} /\ clip' \in {clip, e.id, NoSession}
    BY DEF IncomingControl, AskUser, ConnectAck, RejectOrNotice, ExecResult, SessionEnd, e
  <2> QED BY <1>2, <1>4, <2>1 DEF Known, SessTypeOK
<1>7. toUi' \in Seq(Spoken(UiKinds)')
  <2>1. \/ toUi' = toUi
        \/ \E k \in UiKinds : Reports(Event(k, e.id)) /\ (k = "result" => e.kind = "result")
        \/ Reports(Event("reject", NoSession))
    BY DEF IncomingControl, AskUser, ConnectAck, RejectOrNotice, ExecResult, SessionEnd, e,
           UiKinds, IsNext
  <2>2. \A k \in UiKinds : (k = "result" => e.kind = "result")
                           => Event(k, e.id) \in Spoken(UiKinds)'
    BY <1>2, <1>4 DEF Event, Spoken
  <2>3. Event("reject", NoSession) \in Spoken(UiKinds)'
    BY <1>4 DEF Event, Spoken, UiKinds
  <2> QED BY <1>3, <2>1, <2>2, <2>3, KnownKept, Told DEF Reports
<1> QED BY <1>1, <1>3, <1>5, <1>6, <1>7, KnownKept, KnownFromParts
        DEF Known, SessTypeOK, kept, screen, history, States

\* An action of the user reaches the net task and the server.
LEMMA UplinkKnown ==
    ASSUME Known, StartRemote \/ CancelRemote \/ AuthDecision \/ Disconnect \/ StopControlled
    PROVE  Known'
<1> DEFINE e == Head(up)
<1>1. up # << >> /\ up' = Tail(up) /\ UNCHANGED rest
  BY DEF StartRemote, CancelRemote, AuthDecision, Disconnect, StopControlled, IsAct, Acted
<1>2. e.kind \in UpKinds /\ e.id \in Met
  <2>1. e \in Spoken(UpKinds)
    BY <1>1, HeadTail DEF Known
  <2> QED BY <2>1 DEF Spoken
<1> HIDE DEF e
<1>3. /\ srv' \in [Sessions -> States]
      /\ \A q \in Sessions : srv[q] # "unused" => srv'[q] # "unused"
  <2>1. CASE StartRemote
    BY <2>1 DEF Known, SessTypeOK, States, StartRemote
  <2>2. CASE CancelRemote
    BY <2>2 DEF Known, SessTypeOK, States, CancelRemote, Asked
  <2>3. CASE AuthDecision
    BY <2>3 DEF Known, SessTypeOK, States, AuthDecision
  <2>4. CASE Disconnect \/ StopControlled
    <3>1. srv' = Over(e.id)
      BY <2>4 DEF Disconnect, StopControlled, e
    <3>2. srv \in [Sessions -> States]
      BY DEF Known, SessTypeOK, States
    <3> QED BY <3>1, <3>2 DEF Over, States
  <2> QED BY <2>1, <2>2, <2>3, <2>4
<1>4. Met \subseteq Met' /\ NoSession \in Met /\ Met \subseteq Maybe
  BY <1>3, MetGrows DEF Known
<1>5. ctx' \in [controlling : Met', controlled : Met', cancelled : BOOLEAN]
  <2>1. ctx \in [controlling : Met', controlled : Met', cancelled : BOOLEAN]
    BY <1>4 DEF Known
  <2>2. \/ ctx' = ctx
        \/ \E b \in BOOLEAN : ctx' = [ctx EXCEPT !.cancelled = b]
        \/ ctx' = [ctx EXCEPT !.controlled = e.id]
        \/ ctx' = [ctx EXCEPT !.controlling = NoSession]
        \/ ctx' = [ctx EXCEPT !.controlled = IF @ = e.id THEN NoSession ELSE @]
    BY <2>1 DEF StartRemote, CancelRemote, AuthDecision, Disconnect, StopControlled, e
  <2> QED BY <1>2, <1>4, <2>1, <2>2
<1>6. capture' \in Maybe /\ clip' \in Maybe
  <2>1. capture' \in {capture, e.id, NoSession} /\ clip' \in {clip, e.id, NoSession}
    BY DEF StartRemote, CancelRemote, AuthDecision, Disconnect, StopControlled, e
  <2> QED BY <1>2, <1>4, <2>1 DEF Known, SessTypeOK
<1>7. down' \in Seq(Spoken(DownKinds)')
  <2>1. \/ down' = down
        \/ \E s \in Met' : Tells("ack", s)
        \/ Tells("reject", NoSession)
    <3>1. CASE StartRemote
      BY <3>1 DEF StartRemote, Met, Known, SessTypeOK
    <3>2. CASE ~StartRemote
      BY <3>2 DEF CancelRemote, AuthDecision, Disconnect, StopControlled
    <3> QED BY <3>1, <3>2
  <2>2. \A k \in {"ack", "reject"}, q \in Met' : Event(k, q) \in Spoken(DownKinds)'
    BY DEF Event, Spoken, DownKinds
  <2> QED BY <1>3, <1>4, <2>1, <2>2, KnownKept, Told DEF Tells
<1> QED BY <1>1, <1>3, <1>5, <1>6, <1>7, KnownKept, KnownFromParts
        DEF Known, SessTypeOK, rest, screen, history, States

LEMMA ReconnectKnown ==
    ASSUME Known, Reconnect
    PROVE  Known'
<1>1. /\ srv' \in [Sessions -> States]
      /\ \A q \in Sessions : srv[q] # "unused" => srv'[q] # "unused"
  BY DEF Known, SessTypeOK, States, Reconnect
<1>2. NoSession \in Met'
  BY DEF Met
<1>3. /\ slot' \in Met' /\ down' \in Seq(Spoken(DownKinds)')
      /\ ctx' \in [controlling : Met', controlled : Met', cancelled : BOOLEAN]
  BY <1>2 DEF Reconnect, Fresh0
<1>4. losses' \in 0 .. MaxLosses
  BY SessionAssumption DEF Reconnect, Known, SessTypeOK
<1> QED BY <1>1, <1>3, <1>4, KnownKept, KnownFromParts
        DEF Known, SessTypeOK, Reconnect, screen, States

\* What the net task reports changes the shared ids and is posted on, or is dropped.
LEMMA ReportKnown ==
    ASSUME Known,
           \/ Frame \/ DropStaleFrame \/ HandleFrame \/ HandleRequest \/ HandleAck
           \/ HandleRejected \/ HandleResult \/ HandleEnded
    PROVE  Known'
<1>0. Met \subseteq Maybe /\ NoSession \in Met
  BY DEF Known, Met, Maybe
<1>1. CASE Frame
  <2>1. UNCHANGED srv /\ Met' = Met
    BY <1>1 DEF Frame, Met
  <2>2. Event("frame", slot) \in Spoken(UiKinds)'
    BY <2>1 DEF Known, Event, Spoken, UiKinds
  <2>3. toUi' \in Seq(Spoken(UiKinds)')
    BY <1>1, <2>1, <2>2, Told DEF Frame, Reports
  <2>4. slot' \in Met'
    BY <1>0, <1>1, <2>1 DEF Frame
  <2> QED BY <1>1, <2>1, <2>3, <2>4, KnownKept, KnownFromParts
          DEF Known, SessTypeOK, Frame, kept, screen, history
<1>2. ASSUME ~Frame PROVE Known'
  <2> DEFINE e == Head(toUi)
  <2>1. toUi # << >> /\ toUi' = Tail(toUi) /\ UNCHANGED quiet
    BY <1>2 DEF DropStaleFrame, HandleFrame, HandleRequest, HandleAck, HandleRejected,
           HandleResult, HandleEnded, Handles
  <2>2. e \in Spoken(UiKinds) /\ e.id \in Met
    BY <2>1, HeadTail DEF Known, Spoken
  <2> HIDE DEF e
  <2>3. UNCHANGED srv /\ Met' = Met
    BY <2>1 DEF quiet, net, Met
  <2>4. posted' \in Seq(Spoken(UiKinds)')
    <3>1. posted' = posted \/ posted' = Append(posted, e)
      BY <1>2 DEF DropStaleFrame, HandleFrame, HandleRequest, HandleAck, HandleRejected,
             HandleResult, HandleEnded, Posts, Event0, e
    <3>2. e \in Spoken(UiKinds)'
      BY <2>2, <2>3 DEF Spoken
    <3> QED BY <2>3, <3>1, <3>2, KnownKept, Told
  <2>5. ids' \in [cur : Met', ctrl : Met', ended : Met']
    <3>1. \/ ids' = ids
          \/ ids' = [ids EXCEPT !.cur = e.id]
          \/ ids' = [ids EXCEPT !.ctrl = e.id]
          \/ ids' = [ids EXCEPT !.ended = NoSession, !.cur = e.id]
          \/ ids' = [ids EXCEPT !.cur = NoSession]
          \/ ids' = [cur |-> NoSession,
                     ctrl |-> IF ids.ctrl = e.id THEN NoSession ELSE ids.ctrl,
                     ended |-> IF ids.cur # NoSession THEN ids.cur ELSE ids.ended]
      BY <1>2 DEF DropStaleFrame, HandleFrame, HandleRequest, HandleAck, HandleRejected,
             HandleResult, HandleEnded, Event0, e
    <3>2. ids \in [cur : Met, ctrl : Met, ended : Met] /\ e.id \in Met
      BY <2>2 DEF Known
    <3>3. Met' = Met /\ NoSession \in Met
      BY <1>0, <2>3
    <3> HIDE DEF Met
    <3>4. ids.cur \in Met /\ ids.ctrl \in Met /\ ids.ended \in Met
      BY <3>2
    <3>5. CASE ids' = [cur |-> NoSession,
                       ctrl |-> IF ids.ctrl = e.id THEN NoSession ELSE ids.ctrl,
                       ended |-> IF ids.cur # NoSession THEN ids.cur ELSE ids.ended]
      BY <3>3, <3>4, <3>5
    <3>6. CASE ids' # [cur |-> NoSession,
                       ctrl |-> IF ids.ctrl = e.id THEN NoSession ELSE ids.ctrl,
                       ended |-> IF ids.cur # NoSession THEN ids.cur ELSE ids.ended]
      <4>1. ids' \in [cur : Met, ctrl : Met, ended : Met]
        BY <3>1, <3>2, <3>3, <3>6
      <4> QED BY <3>3, <4>1
    <3> QED BY <3>5, <3>6
  <2> QED BY <2>1, <2>3, <2>4, <2>5, KnownKept, KnownFromParts
          DEF Known, SessTypeOK, quiet, net, history
<1> QED BY <1>1, <1>2

LEMMA ShownType ==
    ASSUME win \in [dialog : BOOLEAN, banner : BOOLEAN, view : BOOLEAN,
                    asking : BOOLEAN, output : SUBSET Sessions],
           NEW e \in [kind : UiKinds, id : Maybe], e.kind = "result" => e.id \in Sessions
    PROVE  Shown(e) \in [dialog : BOOLEAN, banner : BOOLEAN, view : BOOLEAN,
                         asking : BOOLEAN, output : SUBSET Sessions]
BY DEF Shown, UiKinds

\* The thread of the user interface runs a closure.
LEMMA ClosureKnown ==
    ASSUME Known, RunClosure
    PROVE  Known'
<1> DEFINE e == Head(posted)
<1>1. /\ posted # << >> /\ posted' = Tail(posted) /\ win' = Shown(e)
      /\ entered' \in {entered, e.id}
      /\ UNCHANGED <<net, up, toUi, ids, clicks, losses, lost>>
  BY DEF RunClosure
<1>2. e \in Spoken(UiKinds)
  BY <1>1, HeadTail DEF Known
<1> HIDE DEF e
<1>3. /\ e \in [kind : UiKinds, id : Maybe] /\ e.id \in Maybe
      /\ e.kind = "result" => e.id \in Sessions
  BY <1>2 DEF Spoken, Met, Maybe
<1>4. win' \in [dialog : BOOLEAN, banner : BOOLEAN, view : BOOLEAN,
                asking : BOOLEAN, output : SUBSET Sessions]
  BY <1>1, <1>3, ShownType DEF Known, SessTypeOK
<1> QED BY <1>1, <1>3, <1>4, KnownKept, KnownFromParts DEF Known, SessTypeOK, net

\* The user clicks.
LEMMA ClickKnown ==
    ASSUME Known,
           \/ ConnectB \/ CancelAsking \/ DisconnectRemote \/ StopBeingControlled
           \/ \E accept \in BOOLEAN : Answer(accept)
    PROVE  Known'
<1>1. UNCHANGED <<net, toUi, posted, losses, history>>
  BY DEF ConnectB, CancelAsking, DisconnectRemote, Answer, StopBeingControlled, Clicks
<1>2. UNCHANGED srv /\ Met' = Met /\ NoSession \in Met
  BY <1>1 DEF net, Met
<1>3. \/ UNCHANGED <<up, clicks>>
      \/ \E k \in UpKinds \ {"result"}, q \in {NoSession, ids.cur, ids.ctrl} : Clicks(Event(k, q))
  BY DEF ConnectB, CancelAsking, DisconnectRemote, Answer, StopBeingControlled, UpKinds
<1>4. clicks' \in 0 .. MaxClicks
  BY <1>3, SessionAssumption DEF Clicks, Known, SessTypeOK
<1>5. ids.cur \in Met /\ ids.ctrl \in Met /\ ids.ended \in Met
  BY DEF Known
<1>6. up' \in Seq(Spoken(UpKinds)')
  <2>1. \A k \in UpKinds \ {"result"}, q \in {NoSession, ids.cur, ids.ctrl} :
            Event(k, q) \in Spoken(UpKinds)'
    BY <1>2, <1>5 DEF Event, Spoken
  <2> QED BY <1>2, <1>3, <2>1, KnownKept, Told DEF Clicks
<1>7. ids' \in [cur : Met', ctrl : Met', ended : Met']
  <2>1. \/ ids' = ids
        \/ ids' = [ids EXCEPT !.ended = NoSession]
        \/ ids' = [ids EXCEPT !.cur = NoSession, !.ended = ids.cur]
        \/ ids' = [ids EXCEPT !.ctrl = NoSession]
    BY DEF ConnectB, CancelAsking, DisconnectRemote, Answer, StopBeingControlled
  <2>2. ids \in [cur : Met, ctrl : Met, ended : Met]
    BY DEF Known
  <2> HIDE DEF Met
  <2>3. ids' \in [cur : Met, ctrl : Met, ended : Met]
    BY <1>2, <1>5, <2>1, <2>2
  <2> QED BY <1>2, <2>3
<1>8. win' \in [dialog : BOOLEAN, banner : BOOLEAN, view : BOOLEAN,
                asking : BOOLEAN, output : SUBSET Sessions]
  <2>1. \/ win' = [win EXCEPT !.asking = TRUE]
        \/ win' = [win EXCEPT !.asking = FALSE]
        \/ win' = [win EXCEPT !.view = FALSE, !.asking = FALSE]
        \/ \E b \in BOOLEAN : win' = [win EXCEPT !.dialog = FALSE, !.banner = @ \/ b]
        \/ win' = [win EXCEPT !.banner = FALSE]
    BY DEF ConnectB, CancelAsking, DisconnectRemote, Answer, StopBeingControlled
  <2> QED BY <2>1 DEF Known, SessTypeOK
<1> QED BY <1>1, <1>2, <1>4, <1>6, <1>7, <1>8, KnownKept, KnownFromParts
        DEF Known, SessTypeOK, net, history

LEMMA KnownStep ==
    ASSUME Known, [SessNext]_csVars
    PROVE  Known'
<1>1. CASE UNCHANGED csVars
  BY <1>1 DEF csVars, Known, SessTypeOK, Met, Spoken
<1>2. CASE SessNext
  BY <1>2, PeerKnown, DownlinkKnown, UplinkKnown, ReconnectKnown, ReportKnown, ClosureKnown,
     ClickKnown DEF SessNext
<1> QED BY <1>1, <1>2

LEMMA KnownInvariance == SessSpec => []Known
<1>1. Known /\ [SessNext]_csVars => Known'
  BY KnownStep
<1> QED BY <1>1, KnownInit, PTL DEF SessSpec

\* Every part of the client keeps its types.
THEOREM SessionTypes == SessSpec => []SessTypeOK
<1>1. Known => SessTypeOK
  BY DEF Known
<1> QED BY <1>1, KnownInvariance, PTL

----------------------------------------------------------------------------
(* The workers *)

LEMMA WorkersStep ==
    ASSUME Known, WorkersFollow, [SessNext]_csVars
    PROVE  WorkersFollow'
<1> USE DEF WorkersFollow
<1>1. CASE UNCHANGED csVars
  BY <1>1 DEF csVars
<1>2. ASSUME UNCHANGED <<ctx, capture, clip, lost>> PROVE WorkersFollow'
  BY <1>2
<1>3. CASE Reconnect
  <2>1. ctx.controlled \in lost' \cup {NoSession} /\ ctx.controlling \in lost' \cup {NoSession}
    BY <1>3 DEF Known, Met, Reconnect
  <2>2. capture' = capture /\ clip' = clip /\ lost \subseteq lost'
    BY <1>3 DEF Reconnect
  <2> QED BY <2>1, <2>2
<1>4. CASE IncomingControl \/ ConnectAck \/ SessionEnd
  BY <1>4 DEF IncomingControl, ConnectAck, SessionEnd, kept, history, Known
<1>5. CASE AuthDecision \/ Disconnect \/ StopControlled
  BY <1>5 DEF AuthDecision, Disconnect, StopControlled, rest, history, Known
<1>6. CASE StartRemote \/ CancelRemote
  BY <1>6 DEF StartRemote, CancelRemote, rest, history, Known
<1>7. CASE \/ AskUser \/ RejectOrNotice \/ ExecResult \/ Frame
           \/ \E s \in Sessions : PeerConnects(s) \/ PeerAnswers(s) \/ PeerEnds(s) \/ PeerSends(s)
  BY <1>2, <1>7 DEF AskUser, RejectOrNotice, ExecResult, Frame, PeerConnects, PeerAnswers,
     PeerEnds, PeerSends, kept, fixed, history
<1>8. CASE \/ DropStaleFrame \/ HandleFrame \/ HandleRequest \/ HandleAck \/ HandleRejected
           \/ HandleResult \/ HandleEnded \/ RunClosure \/ ConnectB \/ CancelAsking
           \/ DisconnectRemote \/ (\E accept \in BOOLEAN : Answer(accept))
           \/ StopBeingControlled
  BY <1>2, <1>8 DEF DropStaleFrame, HandleFrame, HandleRequest, HandleAck, HandleRejected,
     HandleResult, HandleEnded, RunClosure, ConnectB, CancelAsking, DisconnectRemote, Answer,
     StopBeingControlled, Clicks, quiet, net, history
<1> QED BY <1>1, <1>3, <1>4, <1>5, <1>6, <1>7, <1>8 DEF SessNext

LEMMA WorkersInit == SessInit => WorkersFollow
BY DEF SessInit, WorkersFollow

\* The capture and clipboard workers serve only a session the connection is in,
\* or one that died with a lost connection (net/conn.rs, net/dispatch.rs).
THEOREM WorkersHold == SessSpec => []WorkersFollow
<1>1. SessInit => WorkersFollow
  BY WorkersInit
<1>2. Known /\ WorkersFollow /\ [SessNext]_csVars => WorkersFollow'
  BY WorkersStep
<1> QED BY <1>1, <1>2, KnownInvariance, PTL DEF SessSpec

----------------------------------------------------------------------------
(* The output of commands *)

\* The session a reader of q is in after it, when it was in x before: that of the
\* last ack.
IsLast(q, x, y) ==
    \/ y = x /\ \A i \in DOMAIN q : q[i].kind # "ack"
    \/ \E i \in DOMAIN q : /\ q[i].kind = "ack" /\ q[i].id = y
                           /\ \A j \in DOMAIN q : j > i => q[j].kind # "ack"

\* Every result in q is of the session its reader is in when it comes to it.
InOrder(q, x) ==
    \A n \in DOMAIN q : q[n].kind = "result" =>
        \/ q[n].id = x /\ \A j \in DOMAIN q : j < n => q[j].kind # "ack"
        \/ \E i \in DOMAIN q :
              /\ i < n /\ q[i].kind = "ack" /\ q[i].id = q[n].id
              /\ \A j \in DOMAIN q : i < j /\ j < n => q[j].kind # "ack"

Enters(e, x) == IF e.kind = "ack" THEN e.id ELSE x

\* The net task is in z, or in none; what it has reported leads from y to z, and
\* what is posted from the session the window has entered to y.
Ours ==
    /\ win.output \subseteq {entered}
    /\ \E y, z : /\ IsLast(posted, entered, y) /\ InOrder(posted, entered)
                 /\ IsLast(toUi, y, z) /\ InOrder(toUi, y)
                 /\ ctx.controlling \in {NoSession, z}

LEMMA AppendFacts ==
    ASSUME NEW S, NEW q \in Seq(S), NEW e
    PROVE  /\ DOMAIN Append(q, e) = 1 .. Len(q) + 1 /\ DOMAIN q = 1 .. Len(q) /\ Len(q) \in Nat
           /\ \A i \in DOMAIN q : Append(q, e)[i] = q[i]
           /\ Append(q, e)[Len(q) + 1] = e
OBVIOUS

LEMMA AppendLast ==
    ASSUME NEW S, NEW q \in Seq(S), NEW e, NEW x, NEW y, IsLast(q, x, y)
    PROVE  IsLast(Append(q, e), x, Enters(e, y))
<1> DEFINE n == Len(q) + 1
<1> SUFFICES ASSUME NEW p, p = Append(q, e) PROVE IsLast(p, x, Enters(e, y))
  OBVIOUS
<1>1. /\ DOMAIN p = 1 .. n /\ DOMAIN q = 1 .. Len(q) /\ Len(q) \in Nat
      /\ \A i \in DOMAIN q : p[i] = q[i]
      /\ p[n] = e
  BY AppendFacts
<1>2. CASE e.kind = "ack"
  <2>1. n \in DOMAIN p /\ \A j \in DOMAIN p : ~(j > n)
    BY <1>1
  <2> QED BY <1>1, <1>2, <2>1 DEF IsLast, Enters
<1>3. CASE e.kind # "ack"
  <2>1. CASE y = x /\ \A i \in DOMAIN q : q[i].kind # "ack"
    <3>1. \A i \in DOMAIN p : p[i].kind # "ack"
      BY <1>1, <1>3, <2>1
    <3> QED BY <1>3, <2>1, <3>1 DEF IsLast, Enters
  <2>2. ASSUME NEW i \in DOMAIN q, q[i].kind = "ack", q[i].id = y,
               \A j \in DOMAIN q : j > i => q[j].kind # "ack"
        PROVE  IsLast(p, x, Enters(e, y))
    <3>1. i \in DOMAIN p /\ p[i] = q[i]
      BY <1>1
    <3>2. \A j \in DOMAIN p : j > i => p[j].kind # "ack"
      BY <1>1, <1>3, <2>2
    <3> QED BY <1>3, <2>2, <3>1, <3>2 DEF IsLast, Enters
  <2> QED BY <2>1, <2>2 DEF IsLast
<1> QED BY <1>2, <1>3

LEMMA AppendInOrder ==
    ASSUME NEW S, NEW q \in Seq(S), NEW e, NEW x, NEW y, IsLast(q, x, y), InOrder(q, x),
           e.kind = "result" => e.id = y
    PROVE  InOrder(Append(q, e), x)
<1> DEFINE n == Len(q) + 1
<1> SUFFICES ASSUME NEW p, p = Append(q, e) PROVE InOrder(p, x)
  OBVIOUS
<1>1. /\ DOMAIN p = 1 .. n /\ DOMAIN q = 1 .. Len(q) /\ Len(q) \in Nat
      /\ \A i \in DOMAIN q : p[i] = q[i]
      /\ p[n] = e
  BY AppendFacts
<1> SUFFICES ASSUME NEW m \in DOMAIN p, p[m].kind = "result"
             PROVE  \/ p[m].id = x /\ \A j \in DOMAIN p : j < m => p[j].kind # "ack"
                    \/ \E i \in DOMAIN p :
                          /\ i < m /\ p[i].kind = "ack" /\ p[i].id = p[m].id
                          /\ \A j \in DOMAIN p : i < j /\ j < m => p[j].kind # "ack"
  BY DEF InOrder
<1>2. \A j \in DOMAIN p : j < m => j \in DOMAIN q
  BY <1>1
<1>3. CASE m = n
  <2>1. p[m].id = y
    BY <1>1, <1>3
  <2>2. CASE y = x /\ \A i \in DOMAIN q : q[i].kind # "ack"
    BY <1>1, <1>2, <2>1, <2>2
  <2>3. ASSUME NEW i \in DOMAIN q, q[i].kind = "ack", q[i].id = y,
               \A j \in DOMAIN q : j > i => q[j].kind # "ack"
        PROVE  \E k \in DOMAIN p :
                  /\ k < m /\ p[k].kind = "ack" /\ p[k].id = p[m].id
                  /\ \A j \in DOMAIN p : k < j /\ j < m => p[j].kind # "ack"
    <3>1. i \in DOMAIN p /\ i < m /\ p[i] = q[i]
      BY <1>1, <1>3
    <3>2. \A j \in DOMAIN p : i < j /\ j < m => p[j].kind # "ack"
      BY <1>1, <1>2, <2>3
    <3> QED BY <2>1, <2>3, <3>1, <3>2
  <2> QED BY <2>2, <2>3 DEF IsLast
<1>4. CASE m # n
  <2>1. m \in DOMAIN q /\ p[m] = q[m]
    BY <1>1, <1>4
  <2>2. CASE q[m].id = x /\ \A j \in DOMAIN q : j < m => q[j].kind # "ack"
    BY <1>1, <1>2, <2>1, <2>2
  <2>3. ASSUME NEW i \in DOMAIN q, i < m, q[i].kind = "ack", q[i].id = q[m].id,
               \A j \in DOMAIN q : i < j /\ j < m => q[j].kind # "ack"
        PROVE  \E k \in DOMAIN p :
                  /\ k < m /\ p[k].kind = "ack" /\ p[k].id = p[m].id
                  /\ \A j \in DOMAIN p : k < j /\ j < m => p[j].kind # "ack"
    <3>1. i \in DOMAIN p /\ p[i] = q[i]
      BY <1>1
    <3>2. \A j \in DOMAIN p : i < j /\ j < m => p[j].kind # "ack"
      BY <1>1, <1>2, <2>3
    <3> QED BY <2>1, <2>3, <3>1, <3>2
  <2> QED BY <2>1, <2>2, <2>3 DEF InOrder
<1> QED BY <1>3, <1>4

LEMMA TailFacts ==
    ASSUME NEW S, NEW q \in Seq(S), q # << >>
    PROVE  /\ Len(q) \in Nat \ {0} /\ DOMAIN q = 1 .. Len(q)
           /\ DOMAIN Tail(q) = 1 .. Len(q) - 1
           /\ \A i \in 1 .. Len(q) - 1 : Tail(q)[i] = q[i + 1]
           /\ Head(q) = q[1]
OBVIOUS

LEMMA TailLast ==
    ASSUME NEW S, NEW q \in Seq(S), q # << >>, NEW x, NEW y, IsLast(q, x, y)
    PROVE  IsLast(Tail(q), Enters(Head(q), x), y)
<1> DEFINE w == Enters(Head(q), x)
<1> SUFFICES ASSUME NEW p, p = Tail(q) PROVE IsLast(p, w, y)
  OBVIOUS
<1>1. /\ Len(q) \in Nat \ {0} /\ DOMAIN q = 1 .. Len(q) /\ DOMAIN p = 1 .. Len(q) - 1
      /\ \A i \in 1 .. Len(q) - 1 : p[i] = q[i + 1]
      /\ Head(q) = q[1]
  BY TailFacts
<1>2. \A i \in DOMAIN p : i + 1 \in DOMAIN q /\ i + 1 > 1 /\ p[i] = q[i + 1]
  BY <1>1
<1>3. CASE y = x /\ \A i \in DOMAIN q : q[i].kind # "ack"
  <2>1. w = x
    BY <1>1, <1>3 DEF Enters
  <2>2. \A i \in DOMAIN p : p[i].kind # "ack"
    BY <1>2, <1>3
  <2> QED BY <1>3, <2>1, <2>2 DEF IsLast
<1>4. ASSUME NEW i \in DOMAIN q, q[i].kind = "ack", q[i].id = y,
             \A j \in DOMAIN q : j > i => q[j].kind # "ack"
      PROVE  IsLast(p, w, y)
  <2>1. CASE i = 1
    <3>1. w = y
      BY <1>1, <1>4, <2>1 DEF Enters
    <3>2. \A k \in DOMAIN p : p[k].kind # "ack"
      BY <1>2, <1>4, <2>1
    <3> QED BY <3>1, <3>2 DEF IsLast
  <2>2. CASE i # 1
    <3>1. i - 1 \in DOMAIN p /\ p[i - 1] = q[i]
      BY <1>1, <2>2
    <3>2. \A k \in DOMAIN p : k > i - 1 => p[k].kind # "ack"
      BY <1>1, <1>2, <1>4
    <3> QED BY <1>4, <3>1, <3>2 DEF IsLast
  <2> QED BY <2>1, <2>2
<1> QED BY <1>3, <1>4 DEF IsLast

LEMMA TailInOrder ==
    ASSUME NEW S, NEW q \in Seq(S), q # << >>, NEW x, InOrder(q, x)
    PROVE  /\ InOrder(Tail(q), Enters(Head(q), x))
           /\ Head(q).kind = "result" => Head(q).id = x
<1> DEFINE w == Enters(Head(q), x)
<1> SUFFICES ASSUME NEW p, p = Tail(q)
             PROVE  InOrder(p, w) /\ (Head(q).kind = "result" => Head(q).id = x)
  OBVIOUS
<1>1. /\ Len(q) \in Nat \ {0} /\ DOMAIN q = 1 .. Len(q) /\ DOMAIN p = 1 .. Len(q) - 1
      /\ \A i \in 1 .. Len(q) - 1 : p[i] = q[i + 1]
      /\ Head(q) = q[1]
  BY TailFacts
<1>2. \A i \in DOMAIN p : i + 1 \in DOMAIN q /\ i + 1 > 1 /\ p[i] = q[i + 1]
  BY <1>1
<1>3. Head(q).kind = "result" => Head(q).id = x
  <2>1. 1 \in DOMAIN q /\ \A i \in DOMAIN q : ~(i < 1)
    BY <1>1
  <2> QED BY <1>1, <2>1 DEF InOrder
<1>4. ASSUME NEW m \in DOMAIN p, p[m].kind = "result"
      PROVE  \/ p[m].id = w /\ \A j \in DOMAIN p : j < m => p[j].kind # "ack"
             \/ \E i \in DOMAIN p :
                   /\ i < m /\ p[i].kind = "ack" /\ p[i].id = p[m].id
                   /\ \A j \in DOMAIN p : i < j /\ j < m => p[j].kind # "ack"
  <2> DEFINE n == m + 1
  <2>1. n \in DOMAIN q /\ p[m] = q[n] /\ n \in Nat /\ m \in Nat
    BY <1>1, <1>2
  <2>2. CASE q[n].id = x /\ \A j \in DOMAIN q : j < n => q[j].kind # "ack"
    <3>1. w = x
      BY <1>1, <2>1, <2>2 DEF Enters
    <3>2. \A j \in DOMAIN p : j < m => p[j].kind # "ack"
      BY <1>1, <1>2, <2>2
    <3> QED BY <2>1, <2>2, <3>1, <3>2
  <2>3. ASSUME NEW i \in DOMAIN q, i < n, q[i].kind = "ack", q[i].id = q[n].id,
               \A j \in DOMAIN q : i < j /\ j < n => q[j].kind # "ack"
        PROVE  \/ p[m].id = w /\ \A j \in DOMAIN p : j < m => p[j].kind # "ack"
               \/ \E k \in DOMAIN p :
                     /\ k < m /\ p[k].kind = "ack" /\ p[k].id = p[m].id
                     /\ \A j \in DOMAIN p : k < j /\ j < m => p[j].kind # "ack"
    <3>1. CASE i = 1
      <4>1. w = q[n].id
        BY <1>1, <2>3, <3>1 DEF Enters
      <4>2. \A j \in DOMAIN p : j < m => p[j].kind # "ack"
        BY <1>1, <1>2, <2>1, <2>3, <3>1
      <4> QED BY <2>1, <4>1, <4>2
    <3>2. CASE i # 1
      <4>1. i - 1 \in DOMAIN p /\ p[i - 1] = q[i] /\ i - 1 < m
        BY <1>1, <2>1, <2>3, <3>2
      <4>2. \A j \in DOMAIN p : i - 1 < j /\ j < m => p[j].kind # "ack"
        BY <1>1, <1>2, <2>1, <2>3
      <4> QED BY <2>1, <2>3, <4>1, <4>2
    <3> QED BY <3>1, <3>2
  <2> QED BY <1>4, <2>1, <2>2, <2>3 DEF InOrder
<1> QED BY <1>3, <1>4 DEF InOrder

\* Steps that leave the queues to the window alone.
LEMMA OursKept ==
    ASSUME Ours, UNCHANGED <<posted, toUi, entered>>, win'.output = win.output,
           ctx'.controlling \in {NoSession, ctx.controlling}
    PROVE  Ours'
<1>1. PICK y, z : /\ IsLast(posted, entered, y) /\ InOrder(posted, entered)
                  /\ IsLast(toUi, y, z) /\ InOrder(toUi, y)
                  /\ ctx.controlling \in {NoSession, z}
  BY DEF Ours
<1>2. /\ IsLast(posted, entered, y)' /\ InOrder(posted, entered)'
      /\ IsLast(toUi, y, z)' /\ InOrder(toUi, y)'
      /\ (ctx.controlling \in {NoSession, z})'
  BY <1>1
<1> QED BY <1>2 DEF Ours

\* The net task reports e: an ack enters its session, and an answer to a command is
\* of the session it is in.
LEMMA OursReported ==
    ASSUME Known, Ours, NEW e, toUi' = Append(toUi, e), UNCHANGED <<posted, entered, win>>,
           IF e.kind = "ack" THEN ctx'.controlling = e.id
                             ELSE ctx'.controlling \in {NoSession, ctx.controlling},
           e.kind = "result" => e.id = ctx.controlling /\ e.id # NoSession
    PROVE  Ours'
<1>1. PICK y, z : /\ IsLast(posted, entered, y) /\ InOrder(posted, entered)
                  /\ IsLast(toUi, y, z) /\ InOrder(toUi, y)
                  /\ ctx.controlling \in {NoSession, z}
  BY DEF Ours
<1> DEFINE w == Enters(e, z)
<1>2. toUi \in Seq(Spoken(UiKinds))
  BY DEF Known
<1>3. e.kind = "result" => e.id = z
  BY <1>1
<1>4. IsLast(toUi', y, w) /\ InOrder(toUi', y)
  BY <1>1, <1>2, <1>3, AppendLast, AppendInOrder
<1>5. ctx'.controlling \in {NoSession, w}
  BY <1>1 DEF Enters
<1>6. IsLast(posted', entered', y) /\ InOrder(posted', entered')
  BY <1>1
<1>7. win'.output \subseteq {entered'}
  BY DEF Ours
<1> HIDE DEF w
<1> QED BY <1>4, <1>5, <1>6, <1>7 DEF Ours

\* What was reported is posted in its turn; what is dropped is no ack.
LEMMA OursHandled ==
    ASSUME Known, Ours, toUi # << >>, toUi' = Tail(toUi), UNCHANGED <<ctx, entered, win>>,
           \/ posted' = Append(posted, Head(toUi))
           \/ posted' = posted /\ Head(toUi).kind # "ack"
    PROVE  Ours'
<1>1. PICK y, z : /\ IsLast(posted, entered, y) /\ InOrder(posted, entered)
                  /\ IsLast(toUi, y, z) /\ InOrder(toUi, y)
                  /\ ctx.controlling \in {NoSession, z}
  BY DEF Ours
<1> DEFINE e == Head(toUi)
           w == Enters(e, y)
<1>2. toUi \in Seq(Spoken(UiKinds)) /\ posted \in Seq(Spoken(UiKinds))
  BY DEF Known
<1>3. IsLast(toUi', w, z) /\ InOrder(toUi', w) /\ (e.kind = "result" => e.id = y)
  BY <1>1, <1>2, TailLast, TailInOrder
<1>4. IsLast(posted', entered', w) /\ InOrder(posted', entered')
  <2>1. CASE posted' = Append(posted, e)
    BY <1>1, <1>2, <1>3, <2>1, AppendLast, AppendInOrder
  <2>2. CASE posted' = posted /\ e.kind # "ack"
    BY <1>1, <2>2 DEF Enters
  <2> QED BY <2>1, <2>2
<1>5. win'.output \subseteq {entered'} /\ ctx'.controlling \in {NoSession, z}
  BY <1>1 DEF Ours
<1> HIDE DEF w
<1> QED BY <1>3, <1>4, <1>5 DEF Ours

\* The window enters a session with nothing of another on it, and shows results of
\* the one it is in.
LEMMA OursShown ==
    ASSUME Known, Ours, RunClosure
    PROVE  Ours'
<1>1. PICK y, z : /\ IsLast(posted, entered, y) /\ InOrder(posted, entered)
                  /\ IsLast(toUi, y, z) /\ InOrder(toUi, y)
                  /\ ctx.controlling \in {NoSession, z}
  BY DEF Ours
<1> DEFINE e == Head(posted)
<1>2. /\ posted # << >> /\ posted' = Tail(posted) /\ win' = Shown(e)
      /\ entered' = Enters(e, entered) /\ UNCHANGED <<toUi, ctx>>
  BY DEF RunClosure, Enters, net
<1>3. /\ IsLast(posted', entered', y) /\ InOrder(posted', entered')
      /\ e.kind = "result" => e.id = entered
  BY <1>1, <1>2, TailLast, TailInOrder DEF Known
<1>4. e \in Spoken(UiKinds)
  BY <1>2, HeadTail DEF Known
<1> HIDE DEF e
<1>5. e.kind \in UiKinds
  BY <1>4 DEF Spoken
<1>6. win'.output \subseteq {entered'}
  BY <1>2, <1>3, <1>5 DEF Shown, Enters, UiKinds, Ours, Known, SessTypeOK
<1>7. IsLast(toUi', y, z) /\ InOrder(toUi', y) /\ ctx'.controlling \in {NoSession, z}
  BY <1>1, <1>2
<1> QED BY <1>3, <1>6, <1>7 DEF Ours

LEMMA OursStep ==
    ASSUME Known, Ours, [SessNext]_csVars
    PROVE  Ours'
<1>1. CASE UNCHANGED csVars
  BY <1>1, OursKept DEF csVars
<1>2. CASE \/ StartRemote \/ CancelRemote \/ AuthDecision \/ Disconnect \/ StopControlled
           \/ Reconnect
           \/ \E s \in Sessions : PeerConnects(s) \/ PeerAnswers(s) \/ PeerEnds(s) \/ PeerSends(s)
  <2>1. UNCHANGED <<posted, toUi, entered, win>>
    BY <1>2 DEF StartRemote, CancelRemote, AuthDecision, Disconnect, StopControlled, Reconnect,
       PeerConnects, PeerAnswers, PeerEnds, PeerSends, rest, fixed, screen, history
  <2>2. ctx'.controlling \in {NoSession, ctx.controlling}
    BY <1>2 DEF StartRemote, CancelRemote, AuthDecision, Disconnect, StopControlled, Reconnect,
       PeerConnects, PeerAnswers, PeerEnds, PeerSends, fixed, Fresh0, Known
  <2> QED BY <2>1, <2>2, OursKept
<1>3. CASE IncomingControl \/ AskUser \/ ConnectAck \/ RejectOrNotice \/ ExecResult \/ SessionEnd
  <2>1. UNCHANGED <<posted, entered, win>>
    BY <1>3 DEF IncomingControl, AskUser, ConnectAck, RejectOrNotice, ExecResult, SessionEnd,
       kept, screen, history
  <2>2. CASE ConnectAck
    <3>1. CASE ctx.cancelled
      BY <2>1, <2>2, <3>1, OursKept DEF ConnectAck, Known
    <3>2. CASE ~ctx.cancelled
      <4> DEFINE e == Event("ack", Head(down).id)
      <4>1. toUi' = Append(toUi, e) /\ ctx' = [ctx EXCEPT !.controlling = Head(down).id]
        BY <2>2, <3>2 DEF ConnectAck, Reports
      <4>2. e.kind = "ack" /\ ctx'.controlling = e.id
        BY <4>1 DEF Event, Known
      <4> HIDE DEF e
      <4> QED BY <2>1, <4>1, <4>2, OursReported
    <3> QED BY <3>1, <3>2
  <2>3. CASE ExecResult
    <3>1. CASE ctx.controlling # Head(down).id
      BY <2>1, <2>3, <3>1, OursKept DEF ExecResult
    <3>2. CASE ctx.controlling = Head(down).id
      <4> DEFINE e == Event("result", Head(down).id)
      <4>1. toUi' = Append(toUi, e) /\ ctx' = ctx /\ down # << >> /\ Head(down).kind = "result"
        BY <2>3, <3>2 DEF ExecResult, Reports, IsNext
      <4>2. Head(down) \in Spoken(DownKinds)
        BY <4>1, HeadTail DEF Known
      <4>3. e.kind = "result" /\ e.id = ctx.controlling /\ e.id # NoSession
        BY <3>2, <4>1, <4>2 DEF Event, Spoken
      <4> HIDE DEF e
      <4> QED BY <2>1, <4>1, <4>3, OursReported
    <3> QED BY <3>1, <3>2
  <2>4. CASE IncomingControl \/ AskUser \/ RejectOrNotice \/ SessionEnd
    <3>1. PICK e : toUi' = Append(toUi, e) /\ e.kind \in {"controlled", "request", "reject", "end"}
      BY <2>4 DEF IncomingControl, AskUser, RejectOrNotice, SessionEnd, Reports, Event
    <3>2. ctx'.controlling \in {NoSession, ctx.controlling}
      BY <2>4 DEF IncomingControl, AskUser, RejectOrNotice, SessionEnd, Known
    <3> QED BY <2>1, <3>1, <3>2, OursReported
  <2> QED BY <1>3, <2>2, <2>3, <2>4
<1>4. CASE Frame
  <2>1. PICK e : toUi' = Append(toUi, e) /\ e.kind = "frame"
    BY <1>4 DEF Frame, Reports, Event
  <2> QED BY <1>4, <2>1, OursReported DEF Frame, kept, screen, history
<1>5. CASE \/ DropStaleFrame \/ HandleFrame \/ HandleRequest \/ HandleAck \/ HandleRejected
           \/ HandleResult \/ HandleEnded
  <2>1. toUi # << >> /\ toUi' = Tail(toUi) /\ UNCHANGED <<ctx, entered, win>>
    BY <1>5 DEF DropStaleFrame, HandleFrame, HandleRequest, HandleAck, HandleRejected,
       HandleResult, HandleEnded, Handles, quiet, net, history
  <2>2. \/ posted' = Append(posted, Head(toUi))
        \/ posted' = posted /\ Head(toUi).kind # "ack"
    BY <1>5 DEF DropStaleFrame, HandleFrame, HandleRequest, HandleAck, HandleRejected,
       HandleResult, HandleEnded, Handles, Posts, Event0
  <2> QED BY <2>1, <2>2, OursHandled
<1>6. CASE \/ ConnectB \/ CancelAsking \/ DisconnectRemote \/ StopBeingControlled
           \/ \E accept \in BOOLEAN : Answer(accept)
  <2>1. UNCHANGED <<posted, toUi, entered, ctx>>
    BY <1>6 DEF ConnectB, CancelAsking, DisconnectRemote, StopBeingControlled, Answer, Clicks,
       net, history
  <2>2. win'.output = win.output
    BY <1>6 DEF ConnectB, CancelAsking, DisconnectRemote, StopBeingControlled, Answer, Known,
       SessTypeOK
  <2> QED BY <2>1, <2>2, OursKept
<1> QED BY <1>1, <1>2, <1>3, <1>4, <1>5, <1>6, OursShown DEF SessNext

LEMMA OursInit == SessInit => Ours
<1> SUFFICES ASSUME SessInit PROVE Ours
  OBVIOUS
<1>1. /\ IsLast(posted, entered, NoSession) /\ InOrder(posted, entered)
      /\ IsLast(toUi, NoSession, NoSession) /\ InOrder(toUi, NoSession)
  BY DEF SessInit, IsLast, InOrder
<1> QED BY <1>1 DEF SessInit, Fresh0, Ours

\* The output of commands the window shows is of the session it entered last
\* (net/dispatch.rs drops the results of other sessions, the closure of an ack in
\* ui_update/conn.rs wipes what was shown).
THEOREM OutputHolds == SessSpec => []OutputIsOurs
<1>1. Known /\ Ours /\ [SessNext]_csVars => Ours'
  BY OursStep
<1>2. Ours => OutputIsOurs
  BY DEF Ours, OutputIsOurs
<1> QED BY <1>1, <1>2, OursInit, KnownInvariance, PTL DEF SessSpec
============================================================================
