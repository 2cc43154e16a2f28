------------------------------ MODULE Adaptive ------------------------------
(***************************************************************************)
(* The adaptive control of the controlled side's quality: the collector    *)
(* (run_collector in telemetry.rs) aggregates the frames of a window, a    *)
(* controller (adaptive.rs) degrades after some overloaded windows in a    *)
(* row and recovers after more healthy ones, and the capture thread reads  *)
(* the level.  A quality picked by hand resets both, from another task:    *)
(* the level at once, the controller at the next window.                   *)
(***************************************************************************)
EXTENDS Naturals, Sequences, FiniteSets

CONSTANTS
    EncodeTimes,   \* encoding times of a frame, in ms
    Dirtiness,     \* shares of a picture that changed, in percent
    WindowLength,  \* bound: frames in a window
    StarveFrames,  \* frames of a window below which a stream starves
    Horizon        \* bound: windows counted after a change by hand; no fewer than
                   \* lead to the last level

MaxLevel == 3          \* MAX_LEVEL
OverloadToDegrade == 2 \* OVERLOAD_TO_DEGRADE
HealthyToRecover == 3  \* HEALTHY_TO_RECOVER

ASSUME AdaptiveAssumption ==
    /\ EncodeTimes \subseteq Nat /\ Dirtiness \subseteq 0 .. 100
    /\ WindowLength \in Nat /\ StarveFrames \in Nat
    /\ Horizon \in Nat /\ Horizon >= OverloadToDegrade * MaxLevel

VARIABLES
    level,       \* LEVEL
    enabled,     \* ENABLED
    resetting,   \* PENDING_RESET
    controller,  \* AdaptiveController
    frames,      \* win_frames
    collecting,  \* has the collector taken the reset but not stored the level?
    marking,     \* has a change by hand cleared the level but not marked the reset?
    since, overloads  \* history: windows and overloaded windows since that change

adaptiveVars == <<level, enabled, resetting, controller, frames, collecting, marking,
                  since, overloads>>

Sample == [skipped : BOOLEAN, encode : EncodeTimes \cup {0}, dirty : Dirtiness \cup {0}]
Controller == [level : 0 .. MaxLevel, over : 0 .. OverloadToDegrade,
               healthy : 0 .. HealthyToRecover]
Controller0 == [level |-> 0, over |-> 0, healthy |-> 0]

AdaptiveTypeOK ==
    /\ level \in 0 .. MaxLevel /\ enabled \in BOOLEAN /\ resetting \in BOOLEAN
    /\ controller \in Controller
    /\ frames \in Seq(Sample) /\ Len(frames) <= WindowLength
    /\ collecting \in BOOLEAN /\ marking \in BOOLEAN
    /\ since \in 0 .. Horizon /\ overloads \in 0 .. Horizon

AdaptiveInit ==
    /\ level = 0 /\ enabled = TRUE /\ resetting = FALSE
    /\ controller = Controller0 /\ frames = <<>>
    /\ collecting = FALSE /\ marking = FALSE /\ since = 0 /\ overloads = 0

----------------------------------------------------------------------------
(* A window *)

\* The 95th percentile of n sorted values stands at this place, rounded.
Rank95(n) == ((n - 1) * 95 + 50) \div 100

\* percentile: the value v such that Rank95 of the others come before it.
Percentile95(indices, value(_)) ==
    IF indices = {} THEN 0
    ELSE LET AtMost(v) == Cardinality({i \in indices : value(i) <= v})
             covers == {value(i) : i \in {j \in indices :
                                            AtMost(value(j)) > Rank95(Cardinality(indices))}}
         IN  CHOOSE v \in covers : \A w \in covers : v <= w

\* aggregate, as far as the controller looks.
Aggregate(w) ==
    LET all == DOMAIN w
        out == {i \in all : ~w[i].skipped}
        Encode95(i) == w[i].encode
        Dirty95(i) == w[i].dirty
    IN  [sent |-> Cardinality(out),
         encode |-> Percentile95(out, Encode95), dirty |-> Percentile95(all, Dirty95)]

Overloaded(s) == s.encode > 200 \/ (s.sent < StarveFrames /\ s.dirty > 10)
Healthy(s) == s.encode < 120 /\ s.sent >= StarveFrames

\* AdaptiveController::observe
Observed(c, s) ==
    CASE Overloaded(s) ->
           IF c.over + 1 >= OverloadToDegrade /\ c.level < MaxLevel
           THEN [level |-> c.level + 1, over |-> 0, healthy |-> 0]
           ELSE [c EXCEPT !.healthy = 0,
                          !.over = IF @ < OverloadToDegrade THEN @ + 1 ELSE @]
      [] ~Overloaded(s) /\ Healthy(s) ->
           IF c.healthy + 1 >= HealthyToRecover /\ c.level > 0
           THEN [level |-> c.level - 1, over |-> 0, healthy |-> 0]
           ELSE [c EXCEPT !.over = 0,
                          !.healthy = IF @ < HealthyToRecover THEN @ + 1 ELSE @]
      [] OTHER -> [c EXCEPT !.over = 0, !.healthy = 0]

Counted(n) == IF n < Horizon THEN n + 1 ELSE n

----------------------------------------------------------------------------

\* A frame was sent, or skipped with nothing changed.
FrameSampled ==
    /\ Len(frames) < WindowLength
    /\ \E s \in Sample :
         /\ s.skipped => s.encode = 0 /\ s.dirty = 0
         /\ ~s.skipped => s.encode # 0
         /\ frames' = Append(frames, s)
    /\ UNCHANGED <<level, enabled, resetting, controller, collecting, marking, since,
                   overloads>>

\* mutant: the collector does not look whether a reset is asked for
WindowEndsUnreset ==
    /\ ~collecting
    /\ resetting' = FALSE
    /\ controller' = controller
    /\ collecting' = (frames # <<>>)
    /\ UNCHANGED <<level, enabled, frames, marking, since, overloads>>

\* A window ends: a reset asked for is taken, and an empty window is not
\* looked at...
WindowEnds ==
    /\ ~collecting
    /\ resetting' = FALSE
    /\ controller' = IF resetting THEN Controller0 ELSE controller
    /\ collecting' = (frames # <<>>)
    /\ UNCHANGED <<level, enabled, frames, marking, since, overloads>>

\* ... any other is observed, and the level stored.
LevelStored ==
    LET s == Aggregate(frames)
        c == Observed(controller, s)
    IN
    /\ collecting /\ collecting' = FALSE
    /\ controller' = c /\ level' = c.level /\ frames' = <<>>
    /\ since' = Counted(since)
    /\ overloads' = IF Overloaded(s) THEN Counted(overloads) ELSE overloads
    /\ UNCHANGED <<enabled, resetting, marking>>

\* SetQuality, with or without the switch: request_reset clears the level...
ChangedByHand ==
    /\ ~marking /\ marking' = TRUE
    /\ enabled' \in BOOLEAN
    /\ level' = 0
    /\ UNCHANGED <<resetting, controller, frames, collecting, since, overloads>>

\* ... and then asks the collector for a new controller.
ResetMarked ==
    /\ marking /\ marking' = FALSE
    /\ resetting' = TRUE /\ since' = 0 /\ overloads' = 0
    /\ UNCHANGED <<level, enabled, controller, frames, collecting>>

AdaptiveNext ==
    FrameSampled \/ WindowEnds \/ LevelStored \/ ChangedByHand \/ ResetMarked

AdaptiveSpec == AdaptiveInit /\ [][AdaptiveNext]_adaptiveVars

\* What the capture thread reads.
LevelRead == IF enabled THEN level ELSE 0

----------------------------------------------------------------------------
(* Properties *)

\* From the second window after a change by hand on, every step down has been
\* earned by two overloaded windows since: what was seen before the change no
\* longer counts.  In the first window it may, when the collector stores a level
\* it computed before (adaptive.rs: the choice is to take effect first).
ManualWins == since >= 2 => OverloadToDegrade * LevelRead <= overloads
=============================================================================
