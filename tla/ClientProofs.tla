---------------------------- MODULE ClientProofs ----------------------------
(***************************************************************************)
(* Proofs about the parts of the client, and the client as a whole: its    *)
(* step is one of a part, so what the parts' invariants say together is    *)
(* the invariant of the whole.                                             *)
(*                                                                         *)
(* Adaptive, for every window and every frame in it: a choice made by hand *)
(* is not undone by what was seen before it.  Of a window only matters     *)
(* whether it is overloaded, healthy or neither.                           *)
(*                                                                         *)
(* ScreenStream, for every interval, every keyframe interval and any       *)
(* number of viewers: how long a viewer can look at what is not right.  A  *)
(* frame sent resets the age; until a keyframe is due the age is no more   *)
(* than that of the frame, and then one gap is left.                       *)
(*                                                                         *)
(* SelfUpdate, for every set of versions: what was recorded before the     *)
(* daemon took the gate is never interrupted.                              *)
(*                                                                         *)
(* Clipboard, for every set of texts: no side sends what it had before the *)
(* session.  The induction over a sequence is the one of InputPathProofs.  *)
(*                                                                         *)
(* ClientLink, for every set of tokens: its values and its bounds.         *)
(***************************************************************************)
EXTENDS MC_Client, ClientSessionProofs, FileTransferProofs, InputPathProofs

----------------------------------------------------------------------------
(* Adaptive quality *)

Numbers ==
    /\ level \in 0 .. MaxLevel /\ controller \in Controller
    /\ since \in 0 .. Horizon /\ overloads \in 0 .. Horizon

\* What the controller has come to, it has come to since the reset, unless the
\* reset is still to be taken.
Earned ==
    ~resetting => /\ 2 * controller.level <= overloads
                  /\ controller.level < MaxLevel
                       => /\ 2 * controller.level + controller.over <= overloads
                          /\ controller.over <= 1

\* A reset that is not taken is young: no window began after it, and one at most
\* was under way.
Young == resetting => since = 0 \/ (since = 1 /\ ~collecting)

LevelEarned == since >= 2 => 2 * level <= overloads

ManualInv == Numbers /\ Earned /\ Young /\ LevelEarned

----------------------------------------------------------------------------

\* What one step of the controller comes to: a level down, a level up, or the
\* level it had with a longer or a broken row of overloaded windows.
LEMMA ObservedCases ==
    ASSUME NEW c \in Controller, NEW s
    PROVE  LET d == Observed(c, s)
           IN  /\ d \in Controller
               /\ \/ /\ Overloaded(s) /\ c.over >= 1 /\ c.level < MaxLevel
                     /\ d.level = c.level + 1 /\ d.over = 0
                  \/ /\ Overloaded(s) /\ (c.over = 0 \/ c.level = MaxLevel)
                     /\ d.level = c.level /\ d.over <= c.over + 1
                  \/ /\ ~Overloaded(s) /\ d.level <= c.level /\ d.over = 0
<1> DEFINE d == Observed(c, s)
<1> USE DEF MaxLevel, OverloadToDegrade, HealthyToRecover
<1>0. /\ c.level \in 0 .. 3 /\ c.over \in 0 .. 2 /\ c.healthy \in 0 .. 3
      /\ c = [level |-> c.level, over |-> c.over, healthy |-> c.healthy]
  BY DEF Controller
<1>1. ASSUME NEW l \in 0 .. 3, NEW o \in 0 .. 2, NEW h \in 0 .. 3,
             d = [level |-> l, over |-> o, healthy |-> h]
      PROVE  d \in Controller /\ d.level = l /\ d.over = o
  <2> HIDE DEF d
  <2> QED BY <1>1 DEF Controller
<1>2. CASE Overloaded(s)
  <2> DEFINE o == IF c.over < OverloadToDegrade THEN c.over + 1 ELSE c.over
             lower == [level |-> c.level + 1, over |-> 0, healthy |-> 0]
             stay == [c EXCEPT !.healthy = 0, !.over = o]
  <2>0. d = IF c.over + 1 >= OverloadToDegrade /\ c.level < MaxLevel THEN lower ELSE stay
    BY <1>2, Zenon DEF Observed
  <2>1. CASE c.over + 1 >= OverloadToDegrade /\ c.level < MaxLevel
    <3>1. d = [level |-> c.level + 1, over |-> 0, healthy |-> 0]
      BY <2>0, <2>1
    <3>2. c.level + 1 \in 0 .. 3 /\ 0 \in 0 .. 2 /\ 0 \in 0 .. 3
      BY <1>0, <2>1
    <3> HIDE DEF d
    <3>3. d \in Controller /\ d.level = c.level + 1 /\ d.over = 0
      BY <1>1, <3>1, <3>2
    <3> QED BY <1>0, <1>2, <2>1, <3>3 DEF d
  <2>2. CASE ~(c.over + 1 >= OverloadToDegrade /\ c.level < MaxLevel)
    <3>1. d = stay
      BY <2>0, <2>2, Zenon
    <3>2. o \in 0 .. 2 /\ 0 \in 0 .. 3 /\ o <= c.over + 1
      BY <1>0
    <3> HIDE DEF d, o
    <3>3. d = [level |-> c.level, over |-> o, healthy |-> 0]
      BY <1>0, <3>1
    <3>4. d \in Controller /\ d.level = c.level /\ d.over = o
      BY <1>0, <1>1, <3>2, <3>3
    <3> QED BY <1>0, <1>2, <2>2, <3>2, <3>4 DEF d
  <2> QED BY <2>1, <2>2
<1>3. CASE ~Overloaded(s)
  <2>1. \E l \in 0 .. 3, h \in 0 .. 3 :
          l <= c.level /\ d = [level |-> l, over |-> 0, healthy |-> h]
    <3>1. CASE Healthy(s) /\ c.healthy + 1 >= HealthyToRecover /\ c.level > 0
      <4>1. d = [level |-> c.level - 1, over |-> 0, healthy |-> 0]
        BY <1>3, <3>1 DEF Observed
      <4>2. c.level - 1 \in 0 .. 3 /\ c.level - 1 <= c.level
        BY <1>0, <3>1
      <4> HIDE DEF d
      <4> QED BY <4>1, <4>2
    <3>2. CASE Healthy(s) /\ ~(c.healthy + 1 >= HealthyToRecover /\ c.level > 0)
      <4> DEFINE h == IF c.healthy < HealthyToRecover THEN c.healthy + 1 ELSE c.healthy
      <4>1. d = [c EXCEPT !.over = 0, !.healthy = h]
        BY <1>3, <3>2 DEF Observed
      <4>2. h \in 0 .. 3
        BY <1>0
      <4> HIDE DEF d, h
      <4>3. d = [level |-> c.level, over |-> 0, healthy |-> h]
        BY <1>0, <4>1
      <4> QED BY <1>0, <4>2, <4>3
    <3>3. CASE ~Healthy(s)
      <4>1. d = [c EXCEPT !.over = 0, !.healthy = 0]
        BY <1>3, <3>3 DEF Observed
      <4> HIDE DEF d
      <4>2. d = [level |-> c.level, over |-> 0, healthy |-> 0]
        BY <1>0, <4>1
      <4> QED BY <1>0, <4>2
    <3> QED BY <3>1, <3>2, <3>3
  <2>2. PICK l \in 0 .. 3, h \in 0 .. 3 :
          l <= c.level /\ d = [level |-> l, over |-> 0, healthy |-> h]
    BY <2>1
  <2> HIDE DEF d
  <2>3. 0 \in 0 .. 2
    OBVIOUS
  <2>4. d \in Controller /\ d.level = l /\ d.over = 0
    BY <1>1, <2>2, <2>3, SMTT(30)
  <2> QED BY <1>3, <2>2, <2>4 DEF d
<1> QED BY <1>2, <1>3

\* A level down is earned by two overloaded windows in a row.
LEMMA ObservedEarns ==
    ASSUME NEW c \in Controller, NEW n \in Nat, NEW s,
           2 * c.level <= n,
           c.level < MaxLevel => 2 * c.level + c.over <= n /\ c.over <= 1
    PROVE  LET d == Observed(c, s)
               m == IF Overloaded(s) THEN n + 1 ELSE n
           IN  /\ 2 * d.level <= m
               /\ d.level < MaxLevel => 2 * d.level + d.over <= m /\ d.over <= 1
<1> DEFINE d == Observed(c, s)
<1>1. /\ d \in Controller
      /\ \/ /\ Overloaded(s) /\ c.over >= 1 /\ c.level < MaxLevel
            /\ d.level = c.level + 1 /\ d.over = 0
         \/ /\ Overloaded(s) /\ (c.over = 0 \/ c.level = MaxLevel)
            /\ d.level = c.level /\ d.over <= c.over + 1
         \/ /\ ~Overloaded(s) /\ d.level <= c.level /\ d.over = 0
  BY ObservedCases
<1> HIDE DEF d
<1>2. /\ c.level \in 0 .. 3 /\ c.over \in 0 .. 2
      /\ d.level \in 0 .. 3 /\ d.over \in 0 .. 2
  BY <1>1 DEF Controller, MaxLevel, OverloadToDegrade
<1>3. CASE Overloaded(s)
  BY <1>1, <1>2, <1>3 DEF MaxLevel, d
<1>4. CASE ~Overloaded(s)
  BY <1>1, <1>2, <1>4 DEF MaxLevel, d
<1> QED BY <1>3, <1>4

LEMMA ManualInit == AdaptiveInit => ManualInv
BY AdaptiveAssumption
   DEF AdaptiveInit, ManualInv, Numbers, Earned, Young, LevelEarned, Controller, Controller0,
       MaxLevel, OverloadToDegrade, HealthyToRecover

\* A window is observed.
LEMMA StoredStep == ASSUME ManualInv, LevelStored PROVE ManualInv'
<1> DEFINE s == Aggregate(frames)
           c == Observed(controller, s)
<1>1. /\ collecting /\ collecting' = FALSE /\ controller' = c /\ level' = c.level
      /\ since' = Counted(since) /\ resetting' = resetting
      /\ overloads' = IF Overloaded(s) THEN Counted(overloads) ELSE overloads
  BY DEF LevelStored
<1>2. c \in Controller
  BY ObservedCases DEF ManualInv, Numbers
<1>3. /\ since' \in 0 .. Horizon /\ overloads' \in 0 .. Horizon
      /\ since = 0 => since' = 1
      /\ since' >= 2 => since >= 1
  <2>1. Horizon \in Nat /\ Horizon >= 6 /\ since \in 0 .. Horizon /\ overloads \in 0 .. Horizon
    BY AdaptiveAssumption DEF ManualInv, Numbers, MaxLevel, OverloadToDegrade
  <2>2. since' \in 0 .. Horizon /\ (since = 0 => since' = 1) /\ (since' >= 2 => since >= 1)
    BY <1>1, <2>1 DEF Counted
  <2>3. overloads' \in 0 .. Horizon
    <3>1. CASE Overloaded(s)
      BY <1>1, <2>1, <3>1 DEF Counted
    <3>2. CASE ~Overloaded(s)
      BY <1>1, <2>1, <3>2
    <3> QED BY <3>1, <3>2
  <2> QED BY <2>2, <2>3
<1>4. CASE resetting
  <2>1. since = 0 /\ since' = 1
    BY <1>1, <1>3, <1>4 DEF ManualInv, Young
  <2> QED BY <1>1, <1>2, <1>3, <1>4, <2>1
          DEF ManualInv, Numbers, Earned, Young, LevelEarned, Controller
<1>5. CASE ~resetting
  <2> DEFINE m == IF Overloaded(s) THEN overloads + 1 ELSE overloads
  <2>1. /\ 2 * c.level <= m
        /\ c.level < MaxLevel => 2 * c.level + c.over <= m /\ c.over <= 1
    BY <1>5, ObservedEarns DEF ManualInv, Numbers, Earned
  <2>2. overloads' = m \/ overloads' >= 2 * MaxLevel
    <3>1. Horizon \in Nat /\ Horizon >= 2 * MaxLevel /\ overloads \in 0 .. Horizon
      BY AdaptiveAssumption DEF ManualInv, Numbers, OverloadToDegrade
    <3>2. CASE Overloaded(s)
      BY <1>1, <3>1, <3>2 DEF Counted
    <3>3. CASE ~Overloaded(s)
      BY <1>1, <3>3
    <3> QED BY <3>2, <3>3
  <2>3. /\ 2 * c.level <= overloads'
        /\ c.level < MaxLevel => 2 * c.level + c.over <= overloads' /\ c.over <= 1
    BY <1>2, <1>3, <2>1, <2>2 DEF Controller, MaxLevel
  <2> HIDE DEF c
  <2> QED BY <1>1, <1>2, <1>3, <1>5, <2>3
          DEF ManualInv, Numbers, Earned, Young, LevelEarned, Controller
<1> QED BY <1>4, <1>5

LEMMA ManualStep == ASSUME ManualInv, [AdaptiveNext]_adaptiveVars PROVE ManualInv'
<1> USE DEF ManualInv, Numbers, Earned, Young, LevelEarned
<1>1. CASE FrameSampled
  BY <1>1 DEF FrameSampled
<1>2. CASE WindowEnds
  <2>1. /\ resetting' = FALSE /\ UNCHANGED <<level, since, overloads>>
        /\ controller' = controller \/ (resetting /\ controller' = Controller0)
        /\ resetting => controller' = Controller0
    BY <1>2 DEF WindowEnds
  <2>2. /\ Controller0 \in Controller /\ Controller0.level = 0 /\ Controller0.over = 0
    BY DEF Controller, Controller0, MaxLevel, OverloadToDegrade, HealthyToRecover
  <2>3. CASE resetting
    BY <2>1, <2>2, <2>3, AdaptiveAssumption DEF MaxLevel
  <2>4. CASE ~resetting
    BY <2>1, <2>4
  <2> QED BY <2>3, <2>4
<1>3. CASE ChangedByHand
  BY <1>3, AdaptiveAssumption DEF ChangedByHand, MaxLevel
<1>4. CASE ResetMarked
  BY <1>4, AdaptiveAssumption DEF ResetMarked, MaxLevel
<1>5. CASE UNCHANGED adaptiveVars
  BY <1>5 DEF adaptiveVars
<1> QED BY <1>1, <1>2, <1>3, <1>4, <1>5, StoredStep DEF AdaptiveNext

LEMMA ManualInvWins == ManualInv => ManualWins
BY DEF ManualInv, Numbers, LevelEarned, ManualWins, LevelRead, OverloadToDegrade, MaxLevel

\* A quality picked by hand takes effect, and what was seen before it does not
\* count from the second window on (adaptive.rs, request_reset and take_reset).
THEOREM ManualWinsHolds == AdaptiveSpec => []ManualWins
BY ManualInvWins, ManualInit, ManualStep, PTL DEF AdaptiveSpec

\* The window is never longer than its bound: it is emptied when its level is stored.
LEMMA AdaptiveTypeStep ==
    ASSUME AdaptiveTypeOK, ManualInv, [AdaptiveNext]_adaptiveVars
    PROVE  AdaptiveTypeOK'
<1>1. Numbers'
  BY ManualStep DEF ManualInv
<1>2. /\ enabled' \in BOOLEAN /\ resetting' \in BOOLEAN
      /\ collecting' \in BOOLEAN /\ marking' \in BOOLEAN
  BY Zenon DEF AdaptiveTypeOK, AdaptiveNext, adaptiveVars, FrameSampled, WindowEnds, LevelStored,
               ChangedByHand, ResetMarked
<1>3. frames' \in Seq(Sample) /\ Len(frames') <= WindowLength
  <2>0. frames \in Seq(Sample) /\ Len(frames) <= WindowLength /\ WindowLength \in Nat
    BY AdaptiveAssumption DEF AdaptiveTypeOK
  <2>1. CASE FrameSampled
    <3>1. PICK s \in Sample : frames' = Append(frames, s)
      BY <2>1 DEF FrameSampled
    <3>2. Len(frames) < WindowLength
      BY <2>1 DEF FrameSampled
    <3> QED BY <2>0, <3>1, <3>2
  <2>2. CASE LevelStored
    <3>1. frames' = << >>
      BY <2>2 DEF LevelStored
    <3> QED BY <2>0, <3>1
  <2>3. CASE WindowEnds \/ ChangedByHand \/ ResetMarked \/ UNCHANGED adaptiveVars
    <3>1. frames' = frames
      BY <2>3, Zenon DEF WindowEnds, ChangedByHand, ResetMarked, adaptiveVars
    <3> QED BY <2>0, <3>1
  <2> QED BY <2>1, <2>2, <2>3 DEF AdaptiveNext
<1> QED BY <1>1, <1>2, <1>3, Zenon DEF AdaptiveTypeOK, Numbers

LEMMA AdaptiveTypeStart == AdaptiveInit => AdaptiveTypeOK
<1> SUFFICES ASSUME AdaptiveInit PROVE AdaptiveTypeOK
  OBVIOUS
<1>1. Numbers
  BY ManualInit DEF ManualInv
<1>2. /\ enabled \in BOOLEAN /\ resetting \in BOOLEAN
      /\ collecting \in BOOLEAN /\ marking \in BOOLEAN
  BY Zenon DEF AdaptiveInit
<1>3. frames \in Seq(Sample) /\ Len(frames) <= WindowLength
  <2>1. frames = << >>
    BY DEF AdaptiveInit
  <2> QED BY <2>1, AdaptiveAssumption
<1> QED BY <1>1, <1>2, <1>3, Zenon DEF AdaptiveTypeOK, Numbers

----------------------------------------------------------------------------
(* The screen *)

Round == [at : {"asleep", "capture", "encode"}, viewer : Watched,
          picture : Picture, tiers : Tiers, mode : RenderModes]

Shape ==
    /\ shown \in Pictures /\ tiers \in Tiers /\ mode \in RenderModes
    /\ active \in Watched /\ round \in Round
    /\ sinceCap \in Nat /\ sinceSent \in 0 .. Keyframe /\ stale \in Nat

\* No keyframe is due: what the viewer sees is not older than the last frame.
Recent == sinceSent < Keyframe /\ round.at # "encode" => stale <= sinceSent

\* A keyframe is due, and the thread is on its way to it.
Due == sinceSent = Keyframe /\ round.at = "asleep" /\ active # NoViewer
         => stale <= Keyframe + sinceCap

\* A round for a viewer that is no longer the active one owes nothing.
Changed == round.at # "asleep" /\ round.viewer # active => stale = 0

StaleInv == Shape /\ Recent /\ Due /\ Changed /\ StaleAtMostKeyframe

----------------------------------------------------------------------------

LEMMA MaxGapBounds ==
    /\ MaxGap \in Nat /\ IdleInterval <= MaxGap
    /\ \A r \in Rates : 2 * Interval[r] <= MaxGap
    /\ 2 * LowInterval <= MaxGap
<1> DEFINE slowest == CHOOSE r \in Rates : \A q \in Rates : Interval[r] >= Interval[q]
<1>1. \A r \in Rates : Interval[r] \in Nat
  BY StreamAssumption
<1>2. \E r \in Rates : \A q \in Rates : Interval[r] >= Interval[q]
  BY <1>1 DEF Rates
<1>3. slowest \in Rates /\ \A q \in Rates : Interval[slowest] >= Interval[q]
  BY <1>2
<1>4. MaxGap = Largest(IdleInterval, 2 * Largest(Interval[slowest], LowInterval))
  BY DEF MaxGap
<1> HIDE DEF slowest
<1>5. LowInterval \in Nat /\ IdleInterval \in Nat /\ Interval[slowest] \in Nat
  BY <1>1, <1>3, StreamAssumption
<1> QED BY <1>1, <1>3, <1>4, <1>5 DEF Largest

\* However the tiers, the mode and the idleness change, a capture is due in time.
LEMMA GapBound ==
    ASSUME tiers \in Tiers
    PROVE  LET gap == Relaxed(IntervalFor(mode, tiers, 3))
           IN  gap \in Nat /\ gap <= MaxGap
<1> DEFINE base == IntervalFor(mode, tiers, 3)
           low == IF mode = "lowBandwidth" THEN Largest(Interval[tiers.fps], LowInterval)
                                           ELSE Interval[tiers.fps]
<1>1. tiers.fps \in Rates
  BY DEF Tiers
<1>2. /\ Interval[tiers.fps] \in Nat /\ LowInterval \in Nat /\ MaxGap \in Nat
      /\ 2 * Interval[tiers.fps] <= MaxGap /\ 2 * LowInterval <= MaxGap
      /\ IdleInterval <= MaxGap /\ IdleInterval \in Nat
  BY <1>1, MaxGapBounds, StreamAssumption
<1>3. low \in Nat /\ 2 * low <= MaxGap
  BY <1>2 DEF Largest
<1>4. base = IF Skips(mode) THEN (low * 8) \div 4 ELSE low
  BY DEF IntervalFor, Stretch
<1>5. base \in Nat /\ base <= MaxGap
  <2> HIDE DEF low, base
  <2> QED BY <1>2, <1>3, <1>4
<1> HIDE DEF base
<1> QED BY <1>2, <1>5 DEF Relaxed, Largest, base

LEMMA StaleInit == StreamInit => StaleInv
<1> SUFFICES ASSUME StreamInit PROVE StaleInv
  OBVIOUS
<1>1. Tiers0 \in Tiers
  BY DEF Tiers, Tiers0, Resolutions, Clarities, Rates
<1>2. Asleep \in Round /\ Asleep.at = "asleep"
  BY <1>1 DEF Asleep, Round, Watched, Picture, RenderModes
<1>3. Shape
  BY <1>1, <1>2, StreamAssumption DEF StreamInit, Shape, Watched
<1>4. StaleAtMostKeyframe
  BY MaxGapBounds, StreamAssumption DEF StreamInit, StaleAtMostKeyframe
<1> QED BY <1>2, <1>3, <1>4, StreamAssumption
        DEF StreamInit, StaleInv, Recent, Due, Changed, Shape

----------------------------------------------------------------------------
(* One lemma per kind of step *)

LEMMA AsksTiers == ASSUME NEW q \in Qualities PROVE Asks(q) \in Tiers
<1>1. OfMode(q.mode) \in Tiers
  BY DEF OfMode, Tiers, Resolutions, Clarities, Rates
<1>2. /\ q.res \in Resolutions \cup {"keep"} /\ q.clarity \in Clarities \cup {"keep"}
      /\ q.fps \in Rates \cup {"keep"}
  BY StreamAssumption
<1> QED BY <1>1, <1>2 DEF Asks, Tiers

\* What others do leaves the ages alone, or begins them anew.
LEMMA OthersStep ==
    ASSUME StaleInv, ScreenChanges \/ SetQuality \/ SetMode \/ SetActive \/ Typed
    PROVE  StaleInv'
<1>1. /\ UNCHANGED <<round, sinceCap, sinceSent>>
      /\ (stale' = stale /\ active' = active) \/ stale' = 0
  BY DEF ScreenChanges, SetQuality, SetMode, SetActive, Typed, thread
<1>2. shown' \in Pictures /\ tiers' \in Tiers /\ mode' \in RenderModes /\ active' \in Watched
  BY AsksTiers, StreamAssumption
     DEF StaleInv, Shape, ScreenChanges, SetQuality, SetMode, SetActive, Typed, thread
<1>3. Shape'
  BY <1>1, <1>2 DEF StaleInv, Shape
<1>4. StaleAtMostKeyframe'
  BY <1>1, MaxGapBounds, StreamAssumption DEF StaleInv, Shape, StaleAtMostKeyframe
<1> QED BY <1>1, <1>3, <1>4, StreamAssumption
        DEF StaleInv, Shape, Recent, Due, Changed

\* A unit of time passes: the only step that ages.
LEMMA PassesStep == ASSUME StaleInv, Passes PROVE StaleInv'
<1>1. /\ round.at = "asleep" /\ sinceCap' = sinceCap + 1
      /\ sinceCap < Relaxed(IntervalFor(mode, tiers, 3))
      /\ sinceSent' = IF sinceSent < Keyframe THEN sinceSent + 1 ELSE sinceSent
      /\ UNCHANGED <<shown, tiers, mode, active, round>>
  BY DEF Passes, inputs
<1>2. stale' = 0 \/ (stale' = stale + 1 /\ active # NoViewer)
  BY DEF Passes, UpToDate
<1>3. sinceCap + 1 <= MaxGap
  <2> DEFINE gap == Relaxed(IntervalFor(mode, tiers, 3))
  <2>1. gap \in Nat /\ gap <= MaxGap /\ sinceCap < gap /\ sinceCap \in Nat /\ MaxGap \in Nat
    BY <1>1, GapBound, MaxGapBounds DEF StaleInv, Shape
  <2> HIDE DEF gap
  <2> QED BY <2>1
<1>4. /\ sinceSent \in 0 .. Keyframe /\ sinceCap \in Nat /\ stale \in Nat
      /\ Keyframe \in Nat \ {0} /\ MaxGap \in Nat
  BY MaxGapBounds, StreamAssumption DEF StaleInv, Shape
<1>5. sinceSent' \in 0 .. Keyframe /\ sinceCap' \in Nat /\ stale' \in Nat
  BY <1>1, <1>2, <1>4
<1>6. Shape'
  BY <1>1, <1>5 DEF StaleInv, Shape
<1>7. /\ sinceSent < Keyframe => stale' <= sinceSent + 1
      /\ sinceSent = Keyframe => stale' <= Keyframe + sinceCap + 1
  BY <1>1, <1>2, <1>4 DEF StaleInv, Recent, Due
<1>8. StaleAtMostKeyframe'
  BY <1>3, <1>4, <1>5, <1>7 DEF StaleAtMostKeyframe
<1>9. Recent' /\ Due'
  BY <1>1, <1>4, <1>5, <1>7 DEF Recent, Due
<1> QED BY <1>1, <1>6, <1>8, <1>9 DEF StaleInv, Changed

\* The thread looks: from here on it goes to a capture, or nobody is there.
LEMMA LookStep == ASSUME StaleInv, NEW load \in 0 .. 3, Look(load) PROVE StaleInv'
<1>1. /\ round.at = "asleep" /\ sinceCap' = 0
      /\ UNCHANGED <<shown, tiers, mode, active, sinceSent, stale>>
      /\ round' = IF active = NoViewer THEN round
                  ELSE [at |-> "capture", viewer |-> active, picture |-> NoPicture,
                        tiers |-> tiers, mode |-> mode]
  BY DEF Look, shared
<1>2. CASE active = NoViewer
  BY <1>1, <1>2 DEF StaleInv, Shape, Recent, Due, Changed, StaleAtMostKeyframe
<1>3. CASE active # NoViewer
  <2>1. round' \in Round /\ round'.at = "capture" /\ round'.viewer = active
    BY <1>1, <1>3 DEF StaleInv, Shape, Round, Picture
  <2> QED BY <1>1, <1>3, <2>1
          DEF StaleInv, Shape, Recent, Due, Changed, StaleAtMostKeyframe
<1> QED BY <1>2, <1>3

\* A round that ends without an age: something went out, or failed.
LEMMA AnewStep ==
    ASSUME StaleInv, stale' = 0, round' = Asleep,
           UNCHANGED <<shown, tiers, mode, active, sinceCap, sinceSent>>
    PROVE  StaleInv'
<1>1. Asleep \in Round /\ Asleep.at = "asleep"
  BY DEF Asleep, Round, Watched, Picture, RenderModes, Tiers, Tiers0, Resolutions,
         Clarities, Rates
<1>2. Shape'
  BY <1>1 DEF StaleInv, Shape
<1>3. StaleAtMostKeyframe'
  BY MaxGapBounds, StreamAssumption DEF StaleAtMostKeyframe
<1> QED BY <1>1, <1>2, <1>3, StreamAssumption
        DEF StaleInv, Shape, Recent, Due, Changed

\* A frame that goes out leaves no age: it is the active viewer's, or the
\* active viewer has just come.
LEMMA PushedStale ==
    ASSUME StaleInv, round.at # "asleep", NEW p, NEW t, Pushed(round.viewer, p, t),
           UNCHANGED active
    PROVE  stale' = 0 /\ round' = Asleep
BY DEF Pushed, StaleInv, Changed

LEMMA UnableStep == ASSUME StaleInv, Unable PROVE StaleInv'
<1>1. /\ round.at = "capture" /\ active' = NoViewer /\ round' = Asleep
      /\ UNCHANGED <<shown, tiers, mode, sinceCap, sinceSent, stale>>
  BY DEF Unable
<1>2. Asleep \in Round /\ Asleep.at = "asleep" /\ NoViewer \in Watched
  BY DEF Asleep, Round, Watched, Picture, RenderModes, Tiers, Tiers0, Resolutions,
         Clarities, Rates
<1> QED BY <1>1, <1>2 DEF StaleInv, Shape, Recent, Due, Changed, StaleAtMostKeyframe

\* A frame is sent whenever a keyframe is due.
LEMMA DecideStep == ASSUME StaleInv, Decide PROVE StaleInv'
<1>1. /\ round.at = "capture"
      /\ UNCHANGED <<shown, tiers, mode, active, sinceCap, stale>>
      /\ \/ round' = [round EXCEPT !.at = "encode", !.picture = shown] /\ sinceSent' = 0
         \/ ~Forced /\ round' = Asleep /\ sinceSent' = sinceSent
  BY DEF Decide, inputs
<1>2. CASE round' = [round EXCEPT !.at = "encode", !.picture = shown] /\ sinceSent' = 0
  <2>1. round' \in Round /\ round'.at = "encode" /\ round'.viewer = round.viewer
    BY <1>2 DEF StaleInv, Shape, Round, Picture
  <2>2. Shape'
    BY <1>1, <1>2, <2>1, StreamAssumption DEF StaleInv, Shape
  <2> QED BY <1>1, <1>2, <2>1, <2>2
          DEF StaleInv, Recent, Due, Changed, StaleAtMostKeyframe
<1>3. CASE ~Forced /\ round' = Asleep /\ sinceSent' = sinceSent
  <2>1. Asleep \in Round /\ Asleep.at = "asleep"
    BY DEF Asleep, Round, Watched, Picture, RenderModes, Tiers, Tiers0, Resolutions,
           Clarities, Rates
  <2>2. sinceSent < Keyframe
    BY <1>3, StreamAssumption DEF Forced, StaleInv, Shape
  <2>3. Shape'
    BY <1>1, <1>3, <2>1 DEF StaleInv, Shape
  <2> QED BY <1>1, <1>3, <2>1, <2>2, <2>3, StreamAssumption
          DEF StaleInv, Shape, Recent, Due, Changed, StaleAtMostKeyframe
<1> QED BY <1>1, <1>2, <1>3

LEMMA StaleStep == ASSUME StaleInv, [StreamNext]_streamVars PROVE StaleInv'
<1>1. CASE ScreenChanges \/ SetQuality \/ SetMode \/ SetActive \/ Typed
  BY <1>1, OthersStep
<1>2. CASE Passes
  BY <1>2, PassesStep
<1>3. CASE \E load \in 0 .. 3 : Look(load)
  BY <1>3, LookStep
<1>4. CASE Unable
  BY <1>4, UnableStep
<1>5. CASE Misfires
  BY <1>5, AnewStep DEF Misfires, inputs
<1>6. CASE LegacyFrame
  <2>1. /\ round.at # "asleep" /\ Pushed(round.viewer, shown, round.tiers)
        /\ UNCHANGED <<shown, tiers, mode, active, sinceCap, sinceSent>>
    BY <1>6 DEF LegacyFrame, inputs
  <2> QED BY <2>1, PushedStale, AnewStep
<1>7. CASE Decide
  BY <1>7, DecideStep
<1>8. CASE Encode
  <2>1. /\ round.at # "asleep" /\ Pushed(round.viewer, round.picture, round.tiers)
        /\ UNCHANGED <<shown, tiers, mode, active, sinceCap, sinceSent>>
    BY <1>8 DEF Encode, inputs
  <2> QED BY <2>1, PushedStale, AnewStep
<1>9. CASE UNCHANGED streamVars
  BY <1>9 DEF streamVars, StaleInv, Shape, Recent, Due, Changed, StaleAtMostKeyframe
<1> QED BY <1>1, <1>2, <1>3, <1>4, <1>5, <1>6, <1>7, <1>8, <1>9 DEF StreamNext

\* However the picture, the tiers, the mode and the session change between two
\* steps of a round, no viewer looks at what is not right for longer than a
\* keyframe interval and one gap (framediff.rs, decide; workers.rs).
THEOREM StaleHolds == StreamSpec => []StaleAtMostKeyframe
<1>1. StaleInv => StaleAtMostKeyframe
  BY DEF StaleInv
<1> QED BY <1>1, StaleInit, StaleStep, PTL DEF StreamSpec

\* What the thread and the viewers keep, beside what the ages depend on.
Kept ==
    /\ typed \in BOOLEAN /\ able \in BOOLEAN
    /\ notified \in Watched /\ viewed \in [Viewers -> FrameSent]
    /\ skip \in [tiles : Picture, quality : Tiers, viewer : Watched, skips : 0 .. IdleSkips]
    /\ sinceCap <= MaxGap

\* Whatever is pushed is a picture with its tiers; a frame for nobody is not kept.
LEMMA PushedKeeps ==
    ASSUME Kept, NEW v, NEW p \in Picture, NEW t \in Tiers, Pushed(v, p, t)
    PROVE  viewed' \in [Viewers -> FrameSent]
<1>1. [picture |-> p, tiers |-> t] \in FrameSent
  BY DEF FrameSent
<1>2. viewed' = [viewed EXCEPT ![v] = [picture |-> p, tiers |-> t]]
  BY DEF Pushed
<1> QED BY <1>1, <1>2 DEF Kept

LEMMA DecideKeeps ==
    ASSUME StaleInv, Kept, Decide
    PROVE  Kept'
<1>1. PICK quality, skips :
        /\ skip' = [tiles |-> shown, viewer |-> round.viewer, quality |-> quality, skips |-> skips]
        /\ quality \in {tiers, skip.quality}
        /\ skips \in {0, skip.skips} \/ (skip.skips < IdleSkips /\ skips = skip.skips + 1)
  BY DEF Decide
<1>2. /\ shown \in Picture /\ round.viewer \in Watched /\ tiers \in Tiers
      /\ skip.quality \in Tiers /\ skip.skips \in 0 .. IdleSkips
  BY DEF StaleInv, Shape, Kept, Round, Picture
<1>3. quality \in Tiers /\ skips \in 0 .. IdleSkips
  BY <1>1, <1>2, StreamAssumption
<1>4. skip' \in [tiles : Picture, quality : Tiers, viewer : Watched, skips : 0 .. IdleSkips]
  BY <1>1, <1>2, <1>3
<1>5. UNCHANGED <<typed, able, notified, viewed, sinceCap>>
  BY DEF Decide, inputs
<1> QED BY <1>4, <1>5, Zenon DEF Kept

LEMMA MaxGapSame == MaxGap' = MaxGap
BY DEF MaxGap, Largest

LEMMA KeptStep ==
    ASSUME StaleInv, Kept, [StreamNext]_streamVars
    PROVE  Kept'
<1> USE MaxGapSame
<1>1. CASE ScreenChanges \/ SetQuality \/ SetMode \/ SetActive \/ Typed
  BY <1>1, Zenon DEF Kept, ScreenChanges, SetQuality, SetMode, SetActive, Typed, thread
<1>2. CASE Passes
  <2>1. UNCHANGED <<typed, able, skip, notified, viewed>>
    BY <1>2 DEF Passes, inputs
  <2>2. sinceCap' <= MaxGap
    <3> DEFINE gap == Relaxed(IntervalFor(mode, tiers, 3))
    <3>1. /\ gap \in Nat /\ gap <= MaxGap /\ sinceCap < gap /\ sinceCap \in Nat
          /\ MaxGap \in Nat /\ sinceCap' = sinceCap + 1
      BY <1>2, GapBound, MaxGapBounds DEF StaleInv, Shape, Passes
    <3> HIDE DEF gap
    <3> QED BY <3>1
  <2> QED BY <2>1, <2>2, Zenon DEF Kept
<1>3. CASE \E load \in 0 .. 3 : Look(load)
  <2>1. sinceCap' = 0 /\ typed' = FALSE /\ UNCHANGED <<able, skip, notified, viewed>>
    BY <1>3 DEF Look
  <2>2. sinceCap' <= MaxGap
    BY <2>1, MaxGapBounds
  <2> QED BY <2>1, <2>2, Zenon DEF Kept
<1>4. CASE Unable
  <2>1. notified' = round.viewer /\ UNCHANGED <<typed, able, skip, viewed, sinceCap>>
    BY <1>4 DEF Unable
  <2>2. round.viewer \in Watched
    BY DEF StaleInv, Shape, Round
  <2> QED BY <2>1, <2>2, Zenon DEF Kept
<1>5. CASE Misfires
  BY <1>5, Zenon DEF Misfires, Kept, inputs
<1>6. CASE LegacyFrame
  <2>1. /\ Pushed(round.viewer, shown, round.tiers)
        /\ UNCHANGED <<typed, able, skip, notified, sinceCap>>
    BY <1>6 DEF LegacyFrame, inputs
  <2>2. viewed' \in [Viewers -> FrameSent]
    BY <2>1, PushedKeeps DEF StaleInv, Shape, Round, Picture
  <2> QED BY <2>1, <2>2, Zenon DEF Kept
<1>7. CASE Decide
  BY <1>7, DecideKeeps
<1>8. CASE Encode
  <2>1. /\ Pushed(round.viewer, round.picture, round.tiers)
        /\ UNCHANGED <<typed, able, skip, notified, sinceCap>>
    BY <1>8 DEF Encode, inputs
  <2>2. viewed' \in [Viewers -> FrameSent]
    BY <2>1, PushedKeeps DEF StaleInv, Shape, Round
  <2> QED BY <2>1, <2>2, Zenon DEF Kept
<1>9. CASE UNCHANGED streamVars
  BY <1>9, Zenon DEF streamVars, Kept
<1> QED BY <1>1, <1>2, <1>3, <1>4, <1>5, <1>6, <1>7, <1>8, <1>9 DEF StreamNext

LEMMA KeptStart == StreamInit => Kept
<1> SUFFICES ASSUME StreamInit PROVE Kept
  OBVIOUS
<1>1. Tiers0 \in Tiers /\ NoPicture \in Picture /\ NoViewer \in Watched
  BY DEF Tiers, Tiers0, Resolutions, Clarities, Rates, Picture, Watched
<1>2. NoFrame \in FrameSent
  BY <1>1 DEF NoFrame, FrameSent
<1>3. viewed \in [Viewers -> FrameSent]
  BY <1>2 DEF StreamInit
<1>4. skip \in [tiles : Picture, quality : Tiers, viewer : Watched, skips : 0 .. IdleSkips]
  BY <1>1, StreamAssumption DEF StreamInit
<1>5. sinceCap <= MaxGap
  BY MaxGapBounds DEF StreamInit
<1>6. typed \in BOOLEAN /\ able \in BOOLEAN /\ notified \in Watched
  BY <1>1, Zenon DEF StreamInit
<1> QED BY <1>3, <1>4, <1>5, <1>6 DEF Kept

LEMMA StreamTypeParts == ASSUME StaleInv, Kept PROVE StreamTypeOK
<1>1. sinceCap \in 0 .. MaxGap
  BY MaxGapBounds DEF StaleInv, Shape, Kept
<1> QED BY <1>1, Zenon DEF StaleInv, Shape, Kept, StreamTypeOK, Round

----------------------------------------------------------------------------
(* The self-update *)

\* Nothing is remembered that does not go on any more, and what the daemon has
\* looked at already was not going on.
Looked ==
    /\ early \subseteq Going
    /\ daemon = "ctrl" => "cur" \notin early
    /\ daemon = "pending" => early \subseteq {"pending"}
    /\ daemon = "replacing" => early = {}

UpdateInv == UpdateTypeOK /\ Looked

Flags == /\ updating \in BOOLEAN /\ curSet \in BOOLEAN /\ ctrlSet \in BOOLEAN
         /\ gated \in BOOLEAN /\ recording \in BOOLEAN

Places ==
    /\ version \in Versions /\ newer \in Versions
    /\ daemon \in {"asleep", "downloading", "staged", "cur", "ctrl", "pending", "replacing"}
    /\ pending \in {"none", "ahead", "past"}
    /\ outgoing \in {"none", "asked", "acked", "refused", "open", "ending"}
    /\ served \in {"none", "asking", "offered", "admitted", "open", "ending"}

Rest == asked \in 0 .. MaxAsked /\ early \subseteq {"cur", "ctrl", "pending"}

LEMMA TypeParts == UpdateTypeOK <=> Flags /\ Places /\ Rest
BY DEF UpdateTypeOK, Flags, Places, Rest

LEMMA GoingType == Going \subseteq {"cur", "ctrl", "pending"}
BY DEF Going

\* Every action keeps the flags Boolean.
LEMMA FlagsStep ==
    ASSUME Flags, [UpdateNext]_updateVars
    PROVE  Flags'
<1> USE DEF Flags, theDaemon
<1>1. CASE Check \/ Download \/ TakeGate
  BY <1>1, Zenon DEF Check, Download, TakeGate
<1>2. ASSUME NEW place, NEW going, NEW next, LookAt(place, going, next) PROVE Flags'
  BY <1>2, Zenon DEF LookAt
<1>3. CASE Replace
  BY <1>3, Zenon DEF Replace
<1>4. CASE ConnectPasses \/ ConnectAsks
  BY <1>4, Zenon DEF ConnectPasses, ConnectAsks
<1>5. CASE DeadlinePasses
  BY <1>5, Zenon DEF DeadlinePasses
<1>6. CASE GivesUp
  BY <1>6, Zenon DEF GivesUp
<1>7. CASE AnswersDialog \/ StopsServing
  BY <1>7, Zenon DEF AnswersDialog, StopsServing
<1>8. CASE NetTells
  BY <1>8, Zenon DEF NetTells
<1>9. CASE AckRecorded \/ AckSettled \/ RefusalRecorded
  BY <1>9, Zenon DEF AckRecorded, AckSettled, RefusalRecorded
<1>10. CASE FrameRecorded \/ ServedRecorded
  BY <1>10, Zenon DEF FrameRecorded, ServedRecorded
<1>11. CASE EndRecorded
  BY <1>11, Zenon DEF EndRecorded
<1>12. CASE UNCHANGED updateVars
  BY <1>12, Zenon DEF updateVars
<1> QED
  BY <1>1, <1>2, <1>3, <1>4, <1>5, <1>6, <1>7, <1>8, <1>9, <1>10, <1>11, <1>12, Zenon
     DEF UpdateNext

\* Every action leads from one place to another.
LEMMA PlacesStep ==
    ASSUME Places, [UpdateNext]_updateVars
    PROVE  Places'
<1> USE DEF Places, theDaemon
<1>1. CASE Check \/ Download \/ TakeGate
  BY <1>1 DEF Check, Download, TakeGate, Manifest
<1>2. CASE \/ LookAt("cur", curSet, "ctrl") \/ LookAt("ctrl", ctrlSet, "pending")
           \/ LookAt("pending", pending = "ahead", "replacing")
  BY <1>2 DEF LookAt
<1>3. CASE Replace
  BY <1>3 DEF Replace
<1>4. CASE ConnectPasses \/ ConnectAsks \/ DeadlinePasses \/ GivesUp
  BY <1>4 DEF ConnectPasses, ConnectAsks, DeadlinePasses, GivesUp
<1>5. CASE AnswersDialog \/ StopsServing \/ NetTells
  BY <1>5 DEF AnswersDialog, StopsServing, NetTells
<1>6. CASE AckRecorded \/ AckSettled \/ RefusalRecorded
  BY <1>6 DEF AckRecorded, AckSettled, RefusalRecorded
<1>7. CASE FrameRecorded \/ ServedRecorded \/ EndRecorded
  BY <1>7 DEF FrameRecorded, ServedRecorded, EndRecorded
<1>8. CASE UNCHANGED updateVars
  BY <1>8 DEF updateVars
<1> QED
  BY <1>1, <1>2, <1>3, <1>4, <1>5, <1>6, <1>7, <1>8 DEF UpdateNext

\* The counter stays within its bound; the history is a set of what was going on.
LEMMA RestStep ==
    ASSUME Rest, [UpdateNext]_updateVars
    PROVE  Rest'
<1>1. CASE \/ Check \/ Download \/ LookAt("cur", curSet, "ctrl")
           \/ LookAt("ctrl", ctrlSet, "pending")
           \/ LookAt("pending", pending = "ahead", "replacing")
  BY <1>1 DEF Check, Download, LookAt, Rest
<1>2. CASE TakeGate
  BY <1>2, GoingType DEF TakeGate, Rest
<1>3. CASE Replace
  BY <1>3 DEF Replace, Rest
<1>4. CASE ConnectPasses \/ NetTells
  <2>1. early' = early
    BY <1>4 DEF ConnectPasses, NetTells
  <2>2. asked' = asked \/ (asked < MaxAsked /\ asked' = asked + 1)
    BY <1>4 DEF ConnectPasses, NetTells
  <2> QED BY <2>1, <2>2, UpdateAssumption DEF Rest
<1>5. CASE ConnectAsks \/ AnswersDialog \/ AckRecorded \/ FrameRecorded \/ ServedRecorded
  BY <1>5 DEF ConnectAsks, AnswersDialog, AckRecorded, FrameRecorded, ServedRecorded, Rest
<1>6. CASE DeadlinePasses \/ GivesUp \/ StopsServing \/ AckSettled \/ RefusalRecorded
           \/ EndRecorded
  <2>1. early' \subseteq early /\ asked' = asked
    BY <1>6, Zenon DEF DeadlinePasses, GivesUp, StopsServing, AckSettled, RefusalRecorded,
                       EndRecorded, StillGoing
  <2> QED BY <2>1 DEF Rest
<1>7. CASE UNCHANGED updateVars
  BY <1>7 DEF updateVars, Rest
<1> QED
  BY <1>1, <1>2, <1>3, <1>4, <1>5, <1>6, <1>7 DEF UpdateNext

\* Every action keeps the variables in their types.
LEMMA UpdateTypeStep ==
    ASSUME UpdateTypeOK, [UpdateNext]_updateVars
    PROVE  UpdateTypeOK'
<1>1. Flags /\ Places /\ Rest
  BY TypeParts
<1>2. Flags' /\ Places' /\ Rest'
  BY <1>1, FlagsStep, PlacesStep, RestStep
<1> QED BY <1>2 DEF UpdateTypeOK, Flags, Places, Rest

LEMMA UpdateTypeInit == UpdateInit => UpdateTypeOK
<1> SUFFICES ASSUME UpdateInit PROVE UpdateTypeOK
  OBVIOUS
<1>1. Flags
  BY Zenon DEF UpdateInit, Flags
<1>2. Places
  BY DEF UpdateInit, Places
<1>3. Rest
  BY UpdateAssumption DEF UpdateInit, Rest
<1> QED BY <1>1, <1>2, <1>3, TypeParts

\* Every variable keeps its type, whatever versions there are
\* (update.rs, activity.rs).
THEOREM UpdateTypes == UpdateSpec => []UpdateTypeOK
<1>1. UpdateInit => UpdateTypeOK
  BY UpdateTypeInit
<1>2. UpdateTypeOK /\ [UpdateNext]_updateVars => UpdateTypeOK'
  BY UpdateTypeStep
<1> QED BY <1>1, <1>2, PTL DEF UpdateSpec

\* What forgets something that was recorded forgets it in the history too.
LEMMA StillGoingKeeps ==
    ASSUME Looked, StillGoing, UNCHANGED daemon
    PROVE  Looked'
BY DEF Looked, StillGoing

\* What records more, or nothing, takes nothing away.
LEMMA GrowingKeeps ==
    ASSUME Looked, Going \subseteq Going', UNCHANGED <<daemon, early>>
    PROVE  Looked'
BY DEF Looked

\* Every action keeps the history within what goes on.
LEMMA LookedStep ==
    ASSUME UpdateTypeOK, Looked, [UpdateNext]_updateVars
    PROVE  Looked'
<1>1. CASE Check
  BY <1>1 DEF Check, Looked, Going
<1>2. CASE Download
  BY <1>2 DEF Download, Looked, Going
<1>3. CASE TakeGate
  BY <1>3 DEF TakeGate, Looked, Going
<1>4. CASE LookAt("cur", curSet, "ctrl")
  <2>1. ~curSet => "cur" \notin early
    BY DEF Looked, Going
  <2>2. Going' = Going /\ early' = early
    BY <1>4 DEF LookAt, Going
  <2>3. daemon' = "asleep" \/ (~curSet /\ daemon' = "ctrl")
    BY <1>4 DEF LookAt
  <2> QED BY <2>1, <2>2, <2>3 DEF Looked
<1>5. CASE LookAt("ctrl", ctrlSet, "pending")
  <2>1. daemon = "ctrl" /\ (~ctrlSet => "ctrl" \notin early)
    BY <1>5 DEF Looked, Going, LookAt
  <2>2. Going' = Going /\ early' = early
    BY <1>5 DEF LookAt, Going
  <2>3. daemon' = "asleep" \/ (~ctrlSet /\ daemon' = "pending")
    BY <1>5 DEF LookAt
  <2> QED BY <2>1, <2>2, <2>3 DEF Looked, UpdateTypeOK
<1>6. CASE LookAt("pending", pending = "ahead", "replacing")
  <2>1. daemon = "pending" /\ (pending # "ahead" => "pending" \notin early)
    BY <1>6 DEF Looked, Going, LookAt
  <2>2. Going' = Going /\ early' = early
    BY <1>6 DEF LookAt, Going
  <2>3. daemon' = "asleep" \/ (pending # "ahead" /\ daemon' = "replacing")
    BY <1>6 DEF LookAt
  <2> QED BY <2>1, <2>2, <2>3 DEF Looked
<1>7. CASE Replace
  BY <1>7 DEF Replace, Looked
<1>8. CASE ConnectPasses \/ ConnectAsks \/ AnswersDialog \/ NetTells
  <2>1. Going \subseteq Going'
    BY <1>8 DEF ConnectPasses, ConnectAsks, AnswersDialog, NetTells, Going, theDaemon
  <2>2. UNCHANGED <<daemon, early>>
    BY <1>8 DEF ConnectPasses, ConnectAsks, AnswersDialog, NetTells, theDaemon
  <2> QED BY <2>1, <2>2, GrowingKeeps
<1>9. CASE AckRecorded \/ FrameRecorded \/ ServedRecorded
  <2>1. Going \subseteq Going'
    BY <1>9 DEF AckRecorded, FrameRecorded, ServedRecorded, Going, theDaemon
  <2>2. UNCHANGED <<daemon, early>>
    BY <1>9 DEF AckRecorded, FrameRecorded, ServedRecorded, theDaemon
  <2> QED BY <2>1, <2>2, GrowingKeeps
<1>10. CASE DeadlinePasses \/ GivesUp \/ StopsServing \/ AckSettled \/ RefusalRecorded
            \/ EndRecorded
  <2>1. StillGoing /\ UNCHANGED daemon
    BY <1>10 DEF DeadlinePasses, GivesUp, StopsServing, AckSettled, RefusalRecorded,
                 EndRecorded, theDaemon
  <2> QED BY <2>1, StillGoingKeeps
<1>11. CASE UNCHANGED updateVars
  BY <1>11 DEF updateVars, Looked, Going
<1> QED
  BY <1>1, <1>2, <1>3, <1>4, <1>5, <1>6, <1>7, <1>8, <1>9, <1>10, <1>11 DEF UpdateNext

LEMMA UpdateStart == UpdateInit => UpdateInv
BY UpdateTypeInit, Zenon DEF UpdateInit, UpdateInv, Looked

LEMMA UpdateKept ==
    ASSUME UpdateInv, [UpdateNext]_updateVars
    PROVE  UpdateInv'
BY UpdateTypeStep, LookedStep DEF UpdateInv

\* The program is never replaced while something goes on that was recorded
\* before the daemon took the gate (activity.rs, try_enter_updating).
THEOREM UpdateGateHolds == UpdateSpec => []UpdateGate
<1>1. UpdateInit => UpdateInv
  BY UpdateStart
<1>2. UpdateInv /\ [UpdateNext]_updateVars => UpdateInv'
  BY UpdateKept
<1>3. UpdateInv => UpdateGate
  BY DEF UpdateInv, Looked, UpdateGate
<1> QED BY <1>1, <1>2, <1>3, PTL DEF UpdateSpec

----------------------------------------------------------------------------
(* The clipboard *)

\* What a turn of the thread makes of the texts that came.
PollTo(x, came, last, fails, now, base) ==
    LET switched == in[x] # previous[x]
        reads == in[x] # 0 /\ ~(fails /\ ~switched) /\ now # Empty
        pushes == reads /\ now \notin TooBig /\ ShouldPush(now, base)
    IN  /\ came => last \in Texts
        /\ now = (IF came THEN AsRead(x, last) ELSE board[x])
        /\ base = Baseline(switched, IF fails THEN Empty ELSE now, IF came THEN last ELSE synced[x])
        /\ fails => busy < MaxBusy
        /\ busy' = IF fails THEN busy + 1 ELSE busy
        /\ board' = [board EXCEPT ![x] = now]
        /\ incoming' = [incoming EXCEPT ![x] = <<>>]
        /\ previous' = [previous EXCEPT ![x] = in[x]]
        /\ synced' = [synced EXCEPT ![x] =
                        IF pushes \/ (reads /\ now \in TooBig) THEN now ELSE base]
        /\ sent' = IF pushes
                   THEN [sent EXCEPT ![x] = Append(@, [session |-> in[x], text |-> now])]
                   ELSE sent
        /\ old' = [old EXCEPT ![x] = @ /\ ~came]
        /\ blind' = [blind EXCEPT ![x] = IF switched THEN fails ELSE @]
        /\ UNCHANGED <<theSessions, copies>>

\* Some of the places of a sequence have a last one.
LEMMA LastOfSome ==
    ASSUME NEW n \in Nat, NEW S \in SUBSET (1 .. n), S # {}
    PROVE  Max(S) \in S
<1> DEFINE T == {m \in Nat : \A R \in SUBSET (1 .. m) : R # {} => \E i \in R : \A j \in R : i >= j}
<1>1. 0 \in T
  <2>1. 1 .. 0 = {}
    OBVIOUS
  <2> QED BY <2>1
<1>2. ASSUME NEW m \in Nat, m \in T PROVE m + 1 \in T
  <2> SUFFICES ASSUME NEW R \in SUBSET (1 .. m + 1), R # {}
               PROVE  \E i \in R : \A j \in R : i >= j
    OBVIOUS
  <2>1. CASE m + 1 \in R
    BY <2>1
  <2>2. CASE m + 1 \notin R
    <3>1. R \in SUBSET (1 .. m)
      BY <2>2
    <3> QED BY <1>2, <3>1
  <2> QED BY <2>1, <2>2
<1> HIDE DEF T
<1>3. n \in T
  BY <1>1, <1>2, SetInduction
<1>4. \E i \in S : \A j \in S : i >= j
  BY <1>3 DEF T
<1> QED BY <1>4 DEF Max

LEMMA PollsSo ==
    ASSUME ClipTypeOK, NEW x \in Sides, Polls(x)
    PROVE  \E came, fails, last, now, base :
              came \in BOOLEAN /\ fails \in BOOLEAN /\ PollTo(x, came, last, fails, now, base)
<1>1. PICK written \in SUBSET DOMAIN incoming[x], fails \in BOOLEAN :
        LET came == written # {}
            last == incoming[x][Max(written)]
            now == IF came THEN AsRead(x, last) ELSE board[x]
            switched == in[x] # previous[x]
            base == Baseline(switched, IF fails THEN Empty ELSE now,
                             IF came THEN last ELSE synced[x])
            reads == in[x] # 0 /\ ~(fails /\ ~switched) /\ now # Empty
            pushes == reads /\ now \notin TooBig /\ ShouldPush(now, base)
        IN
        /\ fails => busy < MaxBusy
        /\ busy' = IF fails THEN busy + 1 ELSE busy
        /\ board' = [board EXCEPT ![x] = now]
        /\ incoming' = [incoming EXCEPT ![x] = <<>>]
        /\ previous' = [previous EXCEPT ![x] = in[x]]
        /\ synced' = [synced EXCEPT ![x] =
                        IF pushes \/ (reads /\ now \in TooBig) THEN now ELSE base]
        /\ pushes => Len(sent[x]) < InTransit
        /\ sent' = IF pushes
                   THEN [sent EXCEPT ![x] = Append(@, [session |-> in[x], text |-> now])]
                   ELSE sent
        /\ old' = [old EXCEPT ![x] = @ /\ ~came]
        /\ blind' = [blind EXCEPT ![x] = IF switched THEN fails ELSE @]
        /\ UNCHANGED <<theSessions, copies>>
  BY Zenon DEF Polls
<1>2. written # {} => incoming[x][Max(written)] \in Texts
  <2> SUFFICES ASSUME written # {} PROVE incoming[x][Max(written)] \in Texts
    OBVIOUS
  <2>1. incoming[x] \in Seq(Texts)
    BY DEF ClipTypeOK
  <2>2. Len(incoming[x]) \in Nat /\ DOMAIN incoming[x] = 1 .. Len(incoming[x])
    BY <2>1
  <2>3. Max(written) \in written
    BY <2>2, LastOfSome
  <2> QED BY <2>1, <2>2, <2>3
<1> DEFINE last == incoming[x][Max(written)]
           came == written # {}
           now == IF came THEN AsRead(x, last) ELSE board[x]
           base == Baseline(in[x] # previous[x], IF fails THEN Empty ELSE now,
                            IF came THEN last ELSE synced[x])
<1>3. PollTo(x, came, last, fails, now, base)
  BY <1>1, <1>2, Zenon DEF PollTo
<1>4. came \in BOOLEAN
  OBVIOUS
<1> HIDE DEF last, came, now, base
<1> QED BY <1>3, <1>4, Zenon

Messages == [session : 1 .. MaxSessions, text : Texts]

\* A side whose thread is in the open session has learnt of it; and what is on its
\* clipboard from before the session is not what the thread would send.
Knows(x) == previous[x] = open /\ open # 0 => in[x] = open
Stale(x) == in[x] = previous[x] /\ in[x] # 0 /\ old[x] /\ ~blind[x] => board[x] \in {Empty, synced[x]}

ClipInv == ClipTypeOK /\ \A x \in Sides : Knows(x) /\ Stale(x)

LEMMA ClipFacts ==
    ASSUME ClipTypeOK
    PROVE  /\ opened \in 0 .. MaxSessions /\ open \in {0, opened}
           /\ in \in [Sides -> 0 .. opened] /\ previous \in [Sides -> 0 .. opened]
           /\ board \in [Sides -> Texts \cup {Empty}] /\ synced \in [Sides -> Texts \cup {Empty}]
           /\ incoming \in [Sides -> Seq(Texts)] /\ sent \in [Sides -> Seq(Messages)]
           /\ copies \in 0 .. MaxCopies /\ busy \in 0 .. MaxBusy
           /\ old \in [Sides -> BOOLEAN] /\ blind \in [Sides -> BOOLEAN]
BY DEF ClipTypeOK, Messages

LEMMA ClipStart ==
    ASSUME ClipInit
    PROVE  ClipInv
<1> DEFINE text == CHOOSE t \in Texts : Normal[t] = t /\ t \notin TooBig
<1>1. text \in Texts
  BY ClipboardAssumption
<1> HIDE DEF text
<1>2. ClipTypeOK
  BY <1>1, ClipboardAssumption DEF ClipInit, ClipTypeOK, text
<1>3. \A x \in Sides : Knows(x) /\ Stale(x)
  BY DEF ClipInit, Knows, Stale
<1> QED BY <1>2, <1>3 DEF ClipInv

LEMMA ConnectsStep ==
    ASSUME ClipInv, PairConnects
    PROVE  ClipInv'
<1>1. ClipTypeOK /\ \A x \in Sides : Stale(x)
  BY DEF ClipInv
<1>2. ClipTypeOK'
  <2>1. opened' \in 0 .. MaxSessions /\ open' \in {0, opened'}
        /\ \A k \in 0 .. opened : k \in 0 .. opened' /\ k # open'
    BY <1>1, ClipboardAssumption DEF PairConnects, ClipTypeOK
  <2>2. in' \in [Sides -> 0 .. opened'] /\ previous' \in [Sides -> 0 .. opened']
    BY <1>1, <2>1 DEF PairConnects, ClipTypeOK
  <2> QED BY <1>1, <2>1, <2>2 DEF PairConnects, ClipTypeOK
<1>3. ASSUME NEW x \in Sides PROVE Knows(x)'
  <2>1. previous[x] \in 0 .. opened /\ opened \in Nat /\ open' = opened + 1 /\ previous' = previous
    BY <1>1 DEF PairConnects, ClipTypeOK
  <2>2. previous'[x] # open'
    BY <2>1
  <2> QED BY <2>2 DEF Knows
<1>4. ASSUME NEW x \in Sides PROVE Stale(x)'
  BY <1>1 DEF PairConnects, Stale
<1> QED BY <1>2, <1>3, <1>4 DEF ClipInv

LEMMA EndsStep ==
    ASSUME ClipInv, PairEnds
    PROVE  ClipInv'
<1>1. ClipTypeOK'
  BY DEF ClipInv, PairEnds, ClipTypeOK
<1>2. ASSUME NEW x \in Sides PROVE Knows(x)' /\ Stale(x)'
  BY DEF ClipInv, PairEnds, Knows, Stale
<1> QED BY <1>1, <1>2 DEF ClipInv

LEMMA LearnsStep ==
    ASSUME ClipInv, NEW y \in Sides, Learns(y)
    PROVE  ClipInv'
<1>1. ClipTypeOK /\ \A x \in Sides : Knows(x) /\ Stale(x)
  BY DEF ClipInv
<1>2. ClipTypeOK'
  <2>1. open \in 0 .. opened
    BY <1>1 DEF ClipTypeOK
  <2> QED BY <1>1, <2>1 DEF Learns, ClipTypeOK
<1>3. ASSUME NEW x \in Sides PROVE Knows(x)' /\ Stale(x)'
  <2>1. CASE x = y
    <3>1. in'[x] = open /\ in[x] # open /\ previous' = previous /\ open' = open
      BY <1>1, <2>1 DEF Learns, ClipTypeOK
    <3> QED BY <1>1, <3>1 DEF Knows, Stale
  <2>2. CASE x # y
    <3>1. in'[x] = in[x] /\ old'[x] = old[x]
      BY <1>1, <2>2 DEF Learns, ClipTypeOK
    <3> QED BY <1>1, <3>1 DEF Learns, Knows, Stale
  <2> QED BY <2>1, <2>2
<1> QED BY <1>2, <1>3 DEF ClipInv

LEMMA CopiesStep ==
    ASSUME ClipInv, NEW y \in Sides, Copies(y)
    PROVE  ClipInv'
<1>1. ClipTypeOK /\ \A x \in Sides : Knows(x) /\ Stale(x)
  BY DEF ClipInv
<1>2. PICK t \in Texts \cup {Empty} : board' = [board EXCEPT ![y] = t]
  BY DEF Copies
<1>3. ClipTypeOK'
  <2>1. copies' \in 0 .. MaxCopies /\ old' \in [Sides -> BOOLEAN]
    BY <1>1, ClipboardAssumption DEF Copies, ClipTypeOK
  <2>2. board' \in [Sides -> Texts \cup {Empty}]
    BY <1>1, <1>2 DEF ClipTypeOK
  <2> QED BY <1>1, <2>1, <2>2 DEF Copies, ClipTypeOK, theSessions
<1>4. ASSUME NEW x \in Sides PROVE Knows(x)' /\ Stale(x)'
  <2>1. UNCHANGED <<open, in, previous, synced, blind>>
    BY DEF Copies, theSessions
  <2>2. CASE x = y
    <3>1. old'[x] = FALSE
      BY <1>1, <2>2 DEF Copies, ClipTypeOK
    <3> QED BY <1>1, <2>1, <3>1 DEF Knows, Stale
  <2>3. CASE x # y
    <3>1. board'[x] = board[x] /\ old'[x] = old[x]
      BY <1>1, <1>2, <2>3 DEF Copies, ClipTypeOK
    <3> QED BY <1>1, <2>1, <3>1 DEF Knows, Stale
  <2> QED BY <2>2, <2>3
<1> QED BY <1>3, <1>4 DEF ClipInv

\* What a turn leaves in last_synced, and what it sends.
SyncsTo(x, now, base) == \E told \in {now, base} : synced' = [synced EXCEPT ![x] = told]
SendsText(x, now, base) ==
    /\ in[x] # 0 /\ now \in Texts /\ now # base
    /\ sent' = [sent EXCEPT ![x] = Append(@, [session |-> in[x], text |-> now])]

\* The texts a turn handles, and what it leaves.
LEMMA PollToFacts ==
    ASSUME ClipTypeOK, NEW x \in Sides, NEW came \in BOOLEAN, NEW fails \in BOOLEAN,
           NEW last, NEW now, NEW base, PollTo(x, came, last, fails, now, base)
    PROVE  /\ now \in Texts \cup {Empty} /\ base \in Texts \cup {Empty}
           /\ SyncsTo(x, now, base) /\ (sent' = sent \/ SendsText(x, now, base))
<1>1. now \in Texts \cup {Empty}
  <2>1. CASE came
    BY <2>1, ClipboardAssumption DEF PollTo, AsRead
  <2>2. CASE ~came
    BY <2>2, ClipFacts DEF PollTo
  <2> QED BY <2>1, <2>2
<1>2. base \in Texts \cup {Empty}
  BY <1>1, ClipFacts DEF PollTo, Baseline
<1>3. SyncsTo(x, now, base)
  BY DEF PollTo, SyncsTo
<1>4. sent' = sent \/ SendsText(x, now, base)
  BY <1>1 DEF PollTo, ShouldPush, SendsText
<1> QED BY <1>1, <1>2, <1>3, <1>4

\* After a turn, what is old and was seen needs no sending.
LEMMA PolledOld ==
    ASSUME ClipInv, NEW x \in Sides, NEW came \in BOOLEAN, NEW fails \in BOOLEAN,
           NEW last, NEW now, NEW base, PollTo(x, came, last, fails, now, base),
           old'[x], ~blind'[x], in[x] # 0
    PROVE  now \in {Empty, base}
<1>1. /\ old' = [old EXCEPT ![x] = @ /\ ~came]
      /\ blind' = [blind EXCEPT ![x] = IF in[x] # previous[x] THEN fails ELSE @]
  BY DEF PollTo
<1>2. ClipTypeOK /\ old \in [Sides -> BOOLEAN] /\ blind \in [Sides -> BOOLEAN]
  BY ClipFacts DEF ClipInv
<1>3. ~came /\ old[x]
  BY <1>1, <1>2
<1>4. now = board[x]
  BY <1>3 DEF PollTo
<1>5. CASE in[x] # previous[x]
  <2>1. ~fails
    BY <1>1, <1>2, <1>5
  <2>2. base = now
    BY <1>5, <2>1 DEF PollTo, Baseline
  <2> QED BY <2>2
<1>6. CASE in[x] = previous[x]
  <2>1. ~blind[x]
    BY <1>1, <1>2, <1>6
  <2>2. base = synced[x]
    BY <1>3, <1>6 DEF PollTo, Baseline
  <2>3. board[x] \in {Empty, synced[x]}
    BY <1>3, <1>6, <2>1 DEF ClipInv, Stale
  <2> QED BY <1>4, <2>2, <2>3
<1> QED BY <1>5, <1>6

LEMMA PollsStep ==
    ASSUME ClipInv, NEW y \in Sides, Polls(y)
    PROVE  ClipInv'
<1>1. ClipTypeOK /\ \A x \in Sides : Knows(x) /\ Stale(x)
  BY DEF ClipInv
<1>2. PICK came, fails, last, now, base :
         came \in BOOLEAN /\ fails \in BOOLEAN /\ PollTo(y, came, last, fails, now, base)
  BY <1>1, PollsSo
<1>3. /\ now \in Texts \cup {Empty} /\ base \in Texts \cup {Empty}
      /\ SyncsTo(y, now, base) /\ (sent' = sent \/ SendsText(y, now, base))
  BY <1>1, <1>2, PollToFacts
<1> PICK told \in {now, base} : synced' = [synced EXCEPT ![y] = told]
  BY <1>3 DEF SyncsTo
<1>4. /\ UNCHANGED <<open, opened, in, copies>>
      /\ board' = [board EXCEPT ![y] = now]
      /\ incoming' = [incoming EXCEPT ![y] = <<>>]
      /\ previous' = [previous EXCEPT ![y] = in[y]]
      /\ (fails => busy < MaxBusy) /\ busy' = IF fails THEN busy + 1 ELSE busy
      /\ \E o \in BOOLEAN, b \in BOOLEAN : old' = [old EXCEPT ![y] = o] /\ blind' = [blind EXCEPT ![y] = b]
  <2> DEFINE o == old[y] /\ ~came
             b == IF in[y] # previous[y] THEN fails ELSE blind[y]
  <2>1. o \in BOOLEAN
    BY Zenon
  <2>2. b \in BOOLEAN
    <3>1. fails \in BOOLEAN /\ blind[y] \in BOOLEAN
      BY <1>1, <1>2, ClipFacts
    <3> QED BY <3>1, Zenon
  <2>3. /\ UNCHANGED <<open, opened, in, copies>>
        /\ board' = [board EXCEPT ![y] = now]
        /\ incoming' = [incoming EXCEPT ![y] = <<>>]
        /\ previous' = [previous EXCEPT ![y] = in[y]]
        /\ (fails => busy < MaxBusy) /\ busy' = IF fails THEN busy + 1 ELSE busy
    BY <1>2 DEF PollTo, theSessions
  <2>4. old' = [old EXCEPT ![y] = o] /\ blind' = [blind EXCEPT ![y] = b]
    BY <1>2, Zenon DEF PollTo
  <2> HIDE DEF o, b
  <2> QED BY <2>1, <2>2, <2>3, <2>4
<1>5. ClipTypeOK'
  <2>1. /\ board' \in [Sides -> Texts \cup {Empty}] /\ synced' \in [Sides -> Texts \cup {Empty}]
        /\ old' \in [Sides -> BOOLEAN] /\ blind' \in [Sides -> BOOLEAN]
    BY <1>1, <1>3, <1>4, ClipFacts
  <2>2. /\ incoming' \in [Sides -> Seq(Texts)] /\ previous' \in [Sides -> 0 .. opened']
        /\ in' \in [Sides -> 0 .. opened']
    <3>1. << >> \in Seq(Texts)
      OBVIOUS
    <3> QED BY <1>1, <1>4, <3>1, ClipFacts
  <2>3. busy' \in 0 .. MaxBusy
    BY <1>1, <1>4, ClipFacts, ClipboardAssumption
  <2>4. sent' \in [Sides -> Seq(Messages)]
    <3>1. CASE sent' = sent
      BY <1>1, <3>1, ClipFacts
    <3>2. CASE SendsText(y, now, base)
      <4>1. in[y] \in 1 .. MaxSessions
        BY <1>1, <3>2, ClipFacts, ClipboardAssumption DEF SendsText
      <4>2. [session |-> in[y], text |-> now] \in Messages
        BY <3>2, <4>1 DEF Messages, SendsText
      <4>3. sent[y] \in Seq(Messages) /\ sent \in [Sides -> Seq(Messages)]
        BY <1>1, ClipFacts
      <4>4. Append(sent[y], [session |-> in[y], text |-> now]) \in Seq(Messages)
        BY <4>2, <4>3
      <4> QED BY <3>2, <4>3, <4>4 DEF SendsText
    <3> QED BY <1>3, <3>1, <3>2
  <2>5. opened' \in 0 .. MaxSessions /\ open' \in {0, opened'} /\ copies' \in 0 .. MaxCopies
    BY <1>1, <1>4, ClipFacts
  <2> QED BY <2>1, <2>2, <2>3, <2>4, <2>5 DEF ClipTypeOK, Messages
<1>6. ASSUME NEW x \in Sides PROVE Knows(x)' /\ Stale(x)'
  <2>1. CASE x = y
    <3>1. previous'[x] = in'[x]
      BY <1>1, <1>4, <2>1, ClipFacts
    <3>2. ASSUME in'[x] # 0, old'[x], ~blind'[x] PROVE board'[x] \in {Empty, synced'[x]}
      <4>1. now \in {Empty, base} /\ board'[x] = now /\ synced'[x] = told
        BY <1>1, <1>2, <1>3, <1>4, <2>1, <3>2, PolledOld, ClipFacts
      <4> QED BY <4>1
    <3> QED BY <1>4, <3>1, <3>2 DEF Knows, Stale
  <2>2. CASE x # y
    <3>1. /\ previous'[x] = previous[x] /\ board'[x] = board[x] /\ synced'[x] = synced[x]
          /\ old'[x] = old[x] /\ blind'[x] = blind[x]
      BY <1>1, <1>3, <1>4, <2>2, ClipFacts
    <3> QED BY <1>1, <1>4, <3>1 DEF Knows, Stale
  <2> QED BY <2>1, <2>2
<1> QED BY <1>5, <1>6 DEF ClipInv

LEMMA ArrivesStep ==
    ASSUME ClipInv, NEW y \in Sides, Arrives(y)
    PROVE  ClipInv'
<1>1. ClipTypeOK /\ \A x \in Sides : Knows(x) /\ Stale(x)
  BY DEF ClipInv
<1>2. UNCHANGED <<open, opened, in, previous, board, synced, copies, busy, old, blind>>
  BY DEF Arrives, theSessions
<1>3. sent[y] \in Seq(Messages) /\ sent[y] # << >> /\ sent \in [Sides -> Seq(Messages)]
  BY <1>1, ClipFacts DEF Arrives
<1>4. Head(sent[y]) \in Messages /\ Tail(sent[y]) \in Seq(Messages)
  BY <1>3
<1>5. sent' \in [Sides -> Seq(Messages)]
  BY <1>3, <1>4 DEF Arrives
<1>6. incoming' \in [Sides -> Seq(Texts)]
  <2>1. CASE UNCHANGED incoming
    BY <1>1, <2>1, ClipFacts
  <2>2. CASE incoming' = [incoming EXCEPT ![Peer(y)] = Append(@, Head(sent[y]).text)]
    <3>1. Head(sent[y]).text \in Texts
      BY <1>4 DEF Messages
    <3>2. \A x \in Sides : Append(incoming[x], Head(sent[y]).text) \in Seq(Texts)
      BY <1>1, <3>1, ClipFacts
    <3> QED BY <1>1, <2>2, <3>2, ClipFacts
  <2> QED BY <2>1, <2>2 DEF Arrives
<1>7. ClipTypeOK'
  BY <1>1, <1>2, <1>5, <1>6, ClipFacts DEF ClipTypeOK, Messages
<1>8. \A x \in Sides : Knows(x)' /\ Stale(x)'
  BY <1>1, <1>2 DEF Knows, Stale
<1> QED BY <1>7, <1>8 DEF ClipInv

LEMMA ClipKept ==
    ASSUME ClipInv, [ClipNext]_clipVars
    PROVE  ClipInv'
<1>1. CASE PairConnects
  BY <1>1, ConnectsStep
<1>2. CASE PairEnds
  BY <1>2, EndsStep
<1>3. CASE \E x \in Sides : Learns(x) \/ Copies(x) \/ Turns(x) \/ Arrives(x)
  BY <1>3, LearnsStep, CopiesStep, PollsStep, ArrivesStep DEF Turns
<1>4. CASE UNCHANGED clipVars
  BY <1>4 DEF clipVars, ClipInv, ClipTypeOK, Knows, Stale
<1> QED BY <1>1, <1>2, <1>3, <1>4 DEF ClipNext

\* In every state: what a thread would send of an old text, it was blind to.
THEOREM ClipHolds == ClipSpec => []ClipInv
<1>1. ClipInit => ClipInv
  BY ClipStart
<1>2. ClipInv /\ [ClipNext]_clipVars => ClipInv'
  BY ClipKept
<1> QED BY <1>1, <1>2, PTL DEF ClipSpec

\* Only a turn of a side's own thread sends for it.
LEMMA SendsWhatIsNew ==
    ASSUME ClipInv, ClipNext, NEW x \in Sides, Len(sent'[x]) > Len(sent[x])
    PROVE  ~old'[x] \/ blind'[x]
<1>1. ClipTypeOK /\ sent \in [Sides -> Seq(Messages)] /\ Len(sent[x]) \in Nat
  BY ClipFacts DEF ClipInv
<1>2. sent' # sent
  BY <1>1
<1>3. \A y \in Sides : ~Learns(y) /\ ~Copies(y)
  BY <1>2 DEF Learns, Copies
<1>4. ~PairConnects /\ ~PairEnds
  BY <1>2 DEF PairConnects, PairEnds
<1>5. ASSUME NEW y \in Sides, Arrives(y) PROVE FALSE
  <2>1. sent[y] \in Seq(Messages) /\ sent[y] # << >> /\ sent' = [sent EXCEPT ![y] = Tail(@)]
    BY <1>1, <1>5 DEF Arrives
  <2>2. Len(Tail(sent[y])) = Len(sent[y]) - 1 /\ Len(sent[y]) \in Nat
    BY <2>1
  <2>3. sent'[x] = IF x = y THEN Tail(sent[y]) ELSE sent[x]
    BY <1>1, <2>1
  <2> QED BY <1>1, <2>2, <2>3
<1>6. ASSUME NEW y \in Sides, Polls(y) PROVE ~old'[x] \/ blind'[x]
  <2>1. PICK came, fails, last, now, base :
           came \in BOOLEAN /\ fails \in BOOLEAN /\ PollTo(y, came, last, fails, now, base)
    BY <1>1, <1>6, PollsSo
  <2>2. /\ in[y] # 0 /\ now \in Texts /\ now # base
        /\ sent' = [sent EXCEPT ![y] = Append(@, [session |-> in[y], text |-> now])]
    <3>1. sent' = sent \/ SendsText(y, now, base)
      BY <1>1, <2>1, PollToFacts
    <3> QED BY <1>2, <3>1 DEF SendsText
  <2>3. x = y
    BY <1>1, <2>2
  <2>4. now \notin {Empty, base}
    BY <2>2, ClipboardAssumption
  <2> QED BY <2>1, <2>2, <2>3, <2>4, PolledOld
<1> QED BY <1>3, <1>4, <1>5, <1>6 DEF ClipNext, Turns

\* No side sends what was on its clipboard before it was in the session, unless the
\* very reading that should have told it failed (workers.rs, consume_clipboard).
THEOREM CopiedHolds == ClipSpec => OnlyCopiedMeanwhile
<1> DEFINE New == \A x \in Sides : Len(sent'[x]) > Len(sent[x]) => (~old'[x] \/ blind'[x])
<1>1. ClipInv /\ [ClipNext]_clipVars => [New]_clipVars
  <2> SUFFICES ASSUME ClipInv, ClipNext PROVE New
    OBVIOUS
  <2> QED BY SendsWhatIsNew
<1> QED BY <1>1, ClipHolds, PTL DEF ClipSpec, OnlyCopiedMeanwhile

----------------------------------------------------------------------------
(* The link *)

\* What the window shows of a client that starts.
LEMMA StartPage ==
    ASSUME NEW b \in BOOLEAN
    PROVE  [logged |-> b, loading |-> FALSE, connected |-> FALSE]
             \in [logged : BOOLEAN, loading : BOOLEAN, connected : BOOLEAN]
OBVIOUS

LEMMA LinkTypeStart == LinkInit => LinkTypeOK
<1> SUFFICES ASSUME LinkInit PROVE LinkTypeOK
  OBVIOUS
<1>1. << >> \in Seq(Reported) /\ Len(<< >>) = 0
  OBVIOUS
<1>2. page \in [logged : BOOLEAN, loading : BOOLEAN, connected : BOOLEAN]
  <2>1. page = [logged |-> FALSE, loading |-> FALSE, connected |-> FALSE]
    BY DEF LinkInit, Starts
  <2> QED BY <2>1, StartPage
<1>3. /\ token = NoToken /\ bound = NoToken /\ stored = NoToken
      /\ unseen = FALSE /\ heartbeat = FALSE /\ pump = FALSE
      /\ link = "gate" /\ socket = "none" /\ holders = 0 /\ faults = 0
      /\ reports = << >> /\ painting = << >> /\ valid = {} /\ issued = {}
  BY Zenon DEF LinkInit, Starts
<1>4. /\ reports \in Seq(Reported) /\ painting \in Seq(Reported) /\ Len(reports) <= MaxReports
  <2>1. Len(reports) = 0
    BY <1>3
  <2> QED BY <1>1, <1>3, <2>1, LinkAssumption
<1>5. /\ unseen \in BOOLEAN /\ heartbeat \in BOOLEAN /\ pump \in BOOLEAN
      /\ token \in Login /\ bound \in Login /\ stored \in Login
  BY <1>3, Zenon DEF Login
<1>6. holders \in 0 .. MaxHolders /\ faults \in 0 .. MaxFaults
  BY <1>3, LinkAssumption
<1>7. /\ link \in {"gate", "waiting", "connecting", "live", "draining", "sleeping"}
      /\ socket \in {"none", "open", "lost", "refused"}
      /\ valid \subseteq issued /\ issued \subseteq Tokens
  BY <1>3
<1> QED BY <1>2, <1>4, <1>5, <1>6, <1>7, Zenon DEF LinkTypeOK

\* A report that is told is of the queue's type, and the queue stays bounded.
LEMMA TellKeeps ==
    ASSUME LinkTypeOK, NEW e \in Reported, Tell(e)
    PROVE  reports' \in Seq(Reported) /\ Len(reports') <= MaxReports
BY LinkAssumption DEF LinkTypeOK, Tell

\* The net task has its own variables, and reports.
LEMMA NetTaskTypes ==
    ASSUME LinkTypeOK, NetTask \/ ConnectFails
    PROVE  LinkTypeOK'
<1> USE DEF LinkTypeOK, user, pipe
<1>1. CASE Gate
  BY <1>1 DEF Gate
<1>2. CASE GateOpens
  BY <1>2 DEF GateOpens
<1>3. CASE Connect
  BY <1>3, TellKeeps, LinkAssumption DEF Connect, Reported
<1>4. CASE ConnectFails
  BY <1>4, TellKeeps, LinkAssumption DEF ConnectFails, Fault, Reported
<1>5. CASE ReadEnds
  BY <1>5, TellKeeps DEF ReadEnds, Leave, Reported
<1>6. CASE TokenChanged
  BY <1>6 DEF TokenChanged, Leave
<1>7. CASE Drained
  BY <1>7, TellKeeps DEF Drained, Reported
<1>8. CASE Wake
  BY <1>8 DEF Wake
<1> QED BY <1>1, <1>2, <1>3, <1>4, <1>5, <1>6, <1>7, <1>8 DEF NetTask

LEMMA TasksTypes ==
    ASSUME LinkTypeOK, PumpEnds \/ HeartbeatEnds \/ TaskStarts \/ TaskEnds
    PROVE  LinkTypeOK'
<1> USE DEF LinkTypeOK, others, user
<1>1. CASE PumpEnds
  BY <1>1 DEF PumpEnds
<1>2. CASE HeartbeatEnds
  BY <1>2 DEF HeartbeatEnds
<1>3. CASE TaskStarts
  BY <1>3, LinkAssumption DEF TaskStarts
<1>4. CASE TaskEnds
  BY <1>4, LinkAssumption DEF TaskEnds
<1> QED BY <1>1, <1>2, <1>3, <1>4

\* What leaves a queue leaves the queue of its type, and the rest of it.
LEMMA ReportTaken ==
    ASSUME NEW q \in Seq(Reported), q # << >>
    PROVE  /\ Head(q) \in Reported /\ Tail(q) \in Seq(Reported) /\ Len(Tail(q)) <= Len(q)
           /\ \A p \in Seq(Reported) : Append(p, Head(q)) \in Seq(Reported)
OBVIOUS

LEMMA WindowTypes ==
    ASSUME LinkTypeOK, WindowTask \/ LoginClicked \/ LoginAnswered \/ Logout
    PROVE  LinkTypeOK'
<1> USE DEF LinkTypeOK, task, pipe
<1>1. CASE HandleReport
  <2>1. /\ reports' \in Seq(Reported) /\ Len(reports') <= MaxReports
        /\ painting' \in Seq(Reported)
    BY <1>1, ReportTaken, LinkAssumption DEF HandleReport
  <2>2. token' \in Login /\ unseen' \in BOOLEAN /\ stored' \in Login
    BY <1>1 DEF HandleReport, LoggedOut, Login
  <2> QED BY <1>1, <2>1, <2>2 DEF HandleReport
<1>2. CASE Paint
  <2>1. painting' \in Seq(Reported)
    BY <1>2, ReportTaken DEF Paint
  <2>2. page' \in [logged : BOOLEAN, loading : BOOLEAN, connected : BOOLEAN]
    BY <1>2 DEF Paint
  <2> QED BY <1>2, <2>1, <2>2 DEF Paint
<1>3. CASE LoginClicked
  BY <1>3 DEF LoginClicked
<1>4. CASE LoginAnswered
  <2>1. UNCHANGED <<task, reports, painting>>
    BY <1>4 DEF LoginAnswered
  <2>2. CASE \E t \in Tokens \ issued :
               /\ token' = t /\ unseen' = TRUE
               /\ page' = [page EXCEPT !.logged = TRUE, !.loading = FALSE]
               /\ issued' = issued \cup {t} /\ valid' = valid \cup {t}
               /\ \/ stored' = t /\ UNCHANGED faults
                  \/ Fault /\ UNCHANGED stored
    <3>1. /\ token' \in Login /\ unseen' \in BOOLEAN /\ stored' \in Login
          /\ valid' \subseteq issued' /\ issued' \subseteq Tokens
          /\ faults' \in 0 .. MaxFaults
      BY <2>2, LinkAssumption DEF Login, Fault
    <3>2. page' \in [logged : BOOLEAN, loading : BOOLEAN, connected : BOOLEAN]
      BY <2>2
    <3> QED BY <2>1, <3>1, <3>2
  <2>3. CASE /\ page' = [page EXCEPT !.loading = FALSE]
             /\ UNCHANGED <<token, unseen, issued, valid, stored, faults>>
    BY <2>1, <2>3
  <2> QED BY <1>4, <2>2, <2>3, Zenon DEF LoginAnswered
<1>5. CASE Logout
  BY <1>5 DEF Logout, LoggedOut, Login
<1> QED BY <1>1, <1>2, <1>3, <1>4, <1>5 DEF WindowTask

LEMMA FaultTypes ==
    ASSUME LinkTypeOK, ConnectionLost \/ Expire \/ Restart
    PROVE  LinkTypeOK'
<1> USE LinkAssumption DEF LinkTypeOK, task, pipe, user, Fault
<1>1. CASE ConnectionLost
  BY <1>1 DEF ConnectionLost
<1>2. CASE Expire
  BY <1>2 DEF Expire
<1>3. CASE Restart
  <2>1. << >> \in Seq(Reported) /\ Len(<< >>) = 0
    OBVIOUS
  <2>2. page' \in [logged : BOOLEAN, loading : BOOLEAN, connected : BOOLEAN]
    <3>1. page' = [logged |-> stored # NoToken, loading |-> FALSE, connected |-> FALSE]
      BY <1>3 DEF Restart
    <3> QED BY <3>1, StartPage, Zenon
  <2>3. /\ token' = stored /\ unseen' = FALSE /\ link' = "gate" /\ bound' = NoToken
        /\ socket' = "none" /\ heartbeat' = FALSE /\ pump' = FALSE /\ holders' = 0
        /\ reports' = << >> /\ painting' = << >>
        /\ faults < MaxFaults /\ faults' = faults + 1 /\ UNCHANGED <<stored, valid, issued>>
    BY <1>3, Zenon DEF Restart
  <2>4. /\ reports' \in Seq(Reported) /\ painting' \in Seq(Reported)
        /\ Len(reports') <= MaxReports
    <3>1. Len(reports') = 0
      BY <2>3
    <3> QED BY <2>1, <2>3, <3>1
  <2>5. /\ unseen' \in BOOLEAN /\ heartbeat' \in BOOLEAN /\ pump' \in BOOLEAN
        /\ token' \in Login /\ bound' \in Login /\ stored' \in Login
    BY <2>3, Zenon DEF Login
  <2>6. holders' \in 0 .. MaxHolders /\ faults' \in 0 .. MaxFaults
    BY <2>3
  <2>7. /\ link' \in {"gate", "waiting", "connecting", "live", "draining", "sleeping"}
        /\ socket' \in {"none", "open", "lost", "refused"}
        /\ valid' \subseteq issued' /\ issued' \subseteq Tokens
    BY <2>3
  <2> QED BY <2>2, <2>4, <2>5, <2>6, <2>7, Zenon
<1> QED BY <1>1, <1>2, <1>3

LEMMA LinkTypeKept ==
    ASSUME LinkTypeOK, [LinkNext]_linkVars
    PROVE  LinkTypeOK'
<1>1. CASE UNCHANGED linkVars
  BY <1>1 DEF linkVars, LinkTypeOK
<1> QED BY <1>1, NetTaskTypes, TasksTypes, WindowTypes, FaultTypes DEF LinkNext

\* The link's values stay of their types: the window is never more than a bounded
\* number of reports behind, no task of a connection is counted below none, and only
\* issued tokens are valid, through every order of logins, losses and restarts
\* (net/mod.rs, ui_glue/login.rs).
THEOREM LinkTypes == LinkSpec => []LinkTypeOK
BY LinkTypeStart, LinkTypeKept, PTL DEF LinkSpec

----------------------------------------------------------------------------
(* The client as a whole *)

ClientInv ==
    /\ Known /\ WorkersFollow /\ Ours
    /\ LinkTypeOK
    /\ StaleInv /\ Kept
    /\ ManualInv /\ AdaptiveTypeOK
    /\ ClipInv
    /\ InputInv /\ WithinActs
    /\ TransferInv
    /\ UpdateInv
    /\ part \in {"session", "link", "screen", "quality", "clipboard", "input", "files", "update"}

\* A step of the client is a step of each part, or leaves it as it is.
LEMMA StepOfParts ==
    ASSUME [ClientNext]_allVars
    PROVE  /\ [SessNext]_csVars /\ [LinkNext]_linkVars /\ [StreamNext]_streamVars
           /\ [AdaptiveNext]_adaptiveVars /\ [ClipNext]_clipVars /\ [InputNext]_inputVars
           /\ [TransferNext]_transferVars /\ [UpdateNext]_updateVars
BY DEF ClientNext, allVars

LEMMA ClientStart == ClientInit => ClientInv
<1> SUFFICES ASSUME ClientInit PROVE ClientInv
  OBVIOUS
<1>1. /\ SessInit /\ LinkInit /\ StreamInit /\ AdaptiveInit /\ ClipInit /\ InputInit
      /\ TransferInit /\ UpdateInit
  BY DEF ClientInit
<1>2. Known /\ WorkersFollow /\ Ours
  BY <1>1, KnownInit, WorkersInit, OursInit
<1>3. LinkTypeOK /\ StaleInv /\ Kept /\ ManualInv /\ AdaptiveTypeOK
  BY <1>1, LinkTypeStart, StaleInit, KeptStart, ManualInit, AdaptiveTypeStart
<1>4. ClipInv /\ InputInv /\ WithinActs
  BY <1>1, ClipStart, InputStart, RoomStart
<1>5. TransferInv /\ UpdateInv
  BY <1>1, TransferInitially, UpdateStart
<1>6. part \in {"session", "link", "screen", "quality", "clipboard", "input", "files", "update"}
  BY DEF ClientInit
<1> QED BY <1>2, <1>3, <1>4, <1>5, <1>6 DEF ClientInv

LEMMA ClientStep ==
    ASSUME ClientInv, [ClientNext]_allVars
    PROVE  ClientInv'
<1>1. Known' /\ WorkersFollow' /\ Ours'
  BY StepOfParts, KnownStep, WorkersStep, OursStep DEF ClientInv
<1>2. LinkTypeOK'
  BY StepOfParts, LinkTypeKept DEF ClientInv
<1>3. StaleInv' /\ Kept'
  BY StepOfParts, StaleStep, KeptStep DEF ClientInv
<1>4. ManualInv' /\ AdaptiveTypeOK'
  BY StepOfParts, ManualStep, AdaptiveTypeStep DEF ClientInv
<1>5. ClipInv'
  BY StepOfParts, ClipKept DEF ClientInv
<1>6. InputInv' /\ WithinActs'
  BY StepOfParts, InputKept, RoomKept DEF ClientInv
<1>7. TransferInv' /\ UpdateInv'
  BY StepOfParts, TransferKept, UpdateKept DEF ClientInv
<1>8. part' = part
  BY DEF ClientNext, allVars
<1> QED BY <1>1, <1>2, <1>3, <1>4, <1>5, <1>6, <1>7, <1>8 DEF ClientInv

LEMMA ClientInvariance == ClientSpec => []ClientInv
<1>1. ClientInv /\ [ClientNext]_allVars => ClientInv'
  BY ClientStep
<1> QED BY <1>1, ClientStart, PTL DEF ClientSpec

\* The values of every part of the client stay of their types, whatever runs
\* (the modules of the client's crate).
THEOREM ClientTypes == ClientSpec => []ClientTypeOK
<1>1. ClientInv => ClientTypeOK
  <2> SUFFICES ASSUME ClientInv PROVE ClientTypeOK
    OBVIOUS
  <2>1. SessTypeOK /\ LinkTypeOK /\ AdaptiveTypeOK /\ UpdateTypeOK /\ ClipTypeOK
    BY DEF ClientInv, Known, UpdateInv, ClipInv
  <2>2. StreamTypeOK /\ InputTypeOK /\ TransferTypeOK
    BY StreamTypeParts, InputTypeParts, TransferTypeParts DEF ClientInv
  <2>3. part \in {"session", "link", "screen", "quality", "clipboard", "input", "files", "update"}
    BY DEF ClientInv
  <2> QED BY <2>1, <2>2, <2>3, Zenon DEF ClientTypeOK
<1> QED BY <1>1, ClientInvariance, PTL

\* What the parts promise, the client as a whole keeps: workers follow the session,
\* output goes to its owner, no picture stays stale, a choice by hand wins, a file
\* is whole, and no update interrupts a session.
THEOREM ClientSafe ==
    ClientSpec => [](/\ WorkersFollow /\ OutputIsOurs /\ StaleAtMostKeyframe /\ ManualWins
                     /\ FileWhole /\ UpdateGate)
<1>1. ClientInv => /\ WorkersFollow /\ OutputIsOurs /\ StaleAtMostKeyframe /\ ManualWins
                   /\ FileWhole /\ UpdateGate
  <2> SUFFICES ASSUME ClientInv
               PROVE  /\ WorkersFollow /\ OutputIsOurs /\ StaleAtMostKeyframe /\ ManualWins
                      /\ FileWhole /\ UpdateGate
    OBVIOUS
  <2>1. OutputIsOurs
    BY DEF ClientInv, Ours, OutputIsOurs
  <2>2. ManualWins
    BY ManualInvWins DEF ClientInv
  <2>3. UpdateGate
    BY DEF ClientInv, UpdateInv, Looked, UpdateGate
  <2> QED BY <2>1, <2>2, <2>3 DEF ClientInv, StaleInv, TransferInv
<1> QED BY <1>1, ClientInvariance, PTL

\* And what no step of a part may do, no step of the client does.
THEOREM ClientActs == ClientSpec => InputFaithful /\ OnlyCopiedMeanwhile
<1> DEFINE Faithful == ModifiersAgree /\ (Len(inbox') < Len(inbox) => NothingLost /\ ClicksLand)
           New == \A x \in Sides : Len(sent'[x]) > Len(sent[x]) => (~old'[x] \/ blind'[x])
<1>1. ClientInv /\ [ClientNext]_allVars => [Faithful]_inputVars
  BY StepOfParts, InputActs DEF ClientInv
<1>2. ClientInv /\ [ClientNext]_allVars => [New]_clipVars
  BY StepOfParts, SendsWhatIsNew DEF ClientInv
<1> QED BY <1>1, <1>2, ClientInvariance, PTL DEF ClientSpec, InputFaithful, OnlyCopiedMeanwhile
============================================================================
