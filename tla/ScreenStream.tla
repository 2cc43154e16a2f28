---------------------------- MODULE ScreenStream ----------------------------
(***************************************************************************)
(* The controlled side's screen (consume_capture in workers.rs): a thread  *)
(* of its own wakes up often, captures when an interval is over or somebody *)
(* has just typed, compares the tiles of the picture with the last ones    *)
(* (framediff.rs), and encodes and sends it or skips it.  The tiers of     *)
(* quality (capture.rs), the render mode (render_mode.rs), the adaptive    *)
(* level (see Adaptive) and the active session are shared with other       *)
(* threads and read at different moments of one round.                     *)
(*                                                                         *)
(* Times are ages in units of the shortest interval, and the thread keeps  *)
(* up: a round takes less than a unit.                                     *)
(***************************************************************************)
EXTENDS Integers

CONSTANTS
    Viewers,      \* sessions that watch this screen
    NoViewer,     \* none
    Pictures,     \* what the screen can show
    NoPicture,    \* nothing captured
    Qualities,    \* SetQuality messages: mode and three optional tiers
    Modes,        \* render modes used
    Interval,     \* frame rate tier -> interval
    LowInterval,  \* LOW_BW_INTERVAL_MS
    Keyframe,     \* KEYFRAME_INTERVAL_MS
    IdleSkips,    \* IDLE_SKIPS_THRESHOLD
    IdleInterval  \* IDLE_INTERVAL_MS

Resolutions == {"720p", "900p", "1080p", "native"}
Clarities == {"standard", "high"}
Rates == {"smooth", "standard", "saver"}
RenderModes == {"legacy", "frameskip", "full", "lowBandwidth", "diagnostic"}

ASSUME StreamAssumption ==
    /\ NoViewer \notin Viewers /\ NoPicture \notin Pictures
    /\ Qualities \subseteq [mode : {"hq", "smooth"}, res : Resolutions \cup {"keep"},
                            clarity : Clarities \cup {"keep"}, fps : Rates \cup {"keep"}]
    /\ Modes \subseteq RenderModes
    /\ Interval \in [Rates -> Nat \ {0}] /\ LowInterval \in Nat
    /\ Keyframe \in Nat \ {0} /\ IdleSkips \in Nat /\ IdleInterval \in Nat

VARIABLES
    shown,     \* what the screen shows
    tiers,     \* TIERS, the tiers asked for
    mode,      \* the render mode, with its switches
    active,    \* the session frames are pushed to
    typed,     \* was input injected since the last capture?
    able,      \* can this machine capture at all?
    round,     \* where the thread stands in its loop, with what it has read
    skip,      \* SkipState
    notified,  \* the session that was told capturing is impossible
    viewed,    \* session -> the last frame pushed to it: picture and tiers
    sinceCap, sinceSent,  \* age of last_cap_ms, of last_sent_ms
    stale      \* history: how long ago what the viewer sees was right

streamVars == <<shown, tiers, mode, active, typed, able, round, skip, notified, viewed,
                sinceCap, sinceSent, stale>>

Tiers == [res : Resolutions, clarity : Clarities, fps : Rates]
Picture == Pictures \cup {NoPicture}
Watched == Viewers \cup {NoViewer}
FrameSent == [picture : Picture, tiers : Tiers]

Largest(a, b) == IF a >= b THEN a ELSE b

\* TIERS starts as (720p, standard, smooth).
Tiers0 == [res |-> "720p", clarity |-> "standard", fps |-> "smooth"]
NoFrame == [picture |-> NoPicture, tiers |-> Tiers0]
Asleep == [at |-> "asleep", viewer |-> NoViewer, picture |-> NoPicture,
           tiers |-> Tiers0, mode |-> "frameskip"]

----------------------------------------------------------------------------
(* Quality *)

\* tiers_for_mode, tiers_from_set_quality: what is left out follows the mode.
OfMode(m) == IF m = "hq" THEN [res |-> "1080p", clarity |-> "high", fps |-> "standard"]
                         ELSE [res |-> "720p", clarity |-> "standard", fps |-> "smooth"]
Asks(q) ==
    LET d == OfMode(q.mode) IN
    [res |-> IF q.res = "keep" THEN d.res ELSE q.res,
     clarity |-> IF q.clarity = "keep" THEN d.clarity ELSE q.clarity,
     fps |-> IF q.fps = "keep" THEN d.fps ELSE q.fps]

\* RenderMode::switches
Skips(m) == m \notin {"legacy", "full"}

\* params_for_tiers and clamp_params, then adaptive::clamp: the interval.  The
\* adaptive level lengthens it, by at most two, and only where frames are skipped.
Stretch(level) == CASE level = 0 -> 4 [] level = 1 -> 5 [] level = 2 -> 6 [] OTHER -> 8
IntervalFor(m, t, level) ==
    LET low == IF m = "lowBandwidth" THEN Largest(Interval[t.fps], LowInterval)
                                     ELSE Interval[t.fps]
    IN  IF Skips(m) THEN (low * Stretch(level)) \div 4 ELSE low

\* relaxed_interval
Relaxed(base) ==
    IF typed THEN base
    ELSE IF skip.skips >= IdleSkips THEN Largest(IdleInterval, base) ELSE base

\* The longest gap between two captures.
MaxGap ==
    LET slowest == CHOOSE r \in Rates : \A q \in Rates : Interval[r] >= Interval[q]
    IN  Largest(IdleInterval, 2 * Largest(Interval[slowest], LowInterval))

StreamTypeOK ==
    /\ shown \in Pictures /\ tiers \in Tiers /\ mode \in RenderModes
    /\ active \in Watched /\ typed \in BOOLEAN /\ able \in BOOLEAN
    /\ round \in [at : {"asleep", "capture", "encode"}, viewer : Watched,
                  picture : Picture, tiers : Tiers, mode : RenderModes]
    /\ skip \in [tiles : Picture, quality : Tiers, viewer : Watched, skips : 0 .. IdleSkips]
    /\ notified \in Watched /\ viewed \in [Viewers -> FrameSent]
    /\ sinceCap \in 0 .. MaxGap /\ sinceSent \in 0 .. Keyframe
    /\ stale \in Nat

StreamInit ==
    /\ shown \in Pictures /\ tiers = Tiers0 /\ mode \in Modes /\ active = NoViewer
    /\ typed = FALSE /\ able \in BOOLEAN /\ round = Asleep
    /\ skip = [tiles |-> NoPicture, quality |-> Tiers0, viewer |-> NoViewer, skips |-> 0]
    /\ notified = NoViewer /\ viewed = [v \in Viewers |-> NoFrame]
    /\ sinceCap = 0 /\ sinceSent = Keyframe /\ stale = 0

----------------------------------------------------------------------------
(* What others do *)

\* Does the viewer look at the screen as it is, in the quality asked for?
UpToDate ==
    active = NoViewer \/ ~able
    \/ viewed[active] = [picture |-> shown, tiers |-> tiers]

inputs == <<shown, tiers, mode, active, typed>>
thread == <<able, round, skip, notified, viewed, sinceCap, sinceSent>>

ScreenChanges ==
    /\ \E p \in Pictures : shown' = p
    /\ UNCHANGED <<tiers, mode, active, typed, thread, stale>>

\* dispatch, SetQuality
SetQuality ==
    /\ \E q \in Qualities : tiers' = Asks(q)
    /\ UNCHANGED <<shown, mode, active, typed, thread, stale>>

\* The user of this machine picks another render mode.
SetMode ==
    /\ mode' \in Modes
    /\ UNCHANGED <<shown, tiers, active, typed, thread, stale>>

\* CaptureCtrl::Start and Stop, on a session's beginning and end or when its
\* viewer looks away (SetCapture).
SetActive ==
    /\ active' \in Watched \ {active} /\ stale' = 0
    /\ UNCHANGED <<shown, tiers, mode, typed, thread>>

\* mark_input_now
Typed ==
    /\ ~typed /\ typed' = TRUE
    /\ UNCHANGED <<shown, tiers, mode, active, thread, stale>>

\* A unit of time passes while the thread sleeps and no capture is due.
Passes ==
    /\ round.at = "asleep" /\ ~typed
    /\ sinceCap < Relaxed(IntervalFor(mode, tiers, 3))
    /\ sinceCap' = sinceCap + 1
    /\ sinceSent' = IF sinceSent < Keyframe THEN sinceSent + 1 ELSE sinceSent
    /\ stale' = IF UpToDate THEN 0 ELSE stale + 1
    /\ UNCHANGED <<inputs, able, round, skip, notified, viewed>>

----------------------------------------------------------------------------
(* The thread *)

shared == <<shown, tiers, mode, active>>

\* The thread looks whether a capture is due, for the tiers it reads now.
Look(level) ==
    /\ round.at = "asleep"
    /\ typed \/ sinceCap >= Relaxed(IntervalFor(mode, tiers, level))
    /\ sinceCap' = 0 /\ typed' = FALSE
    /\ round' = IF active = NoViewer THEN round
                ELSE [at |-> "capture", viewer |-> active, picture |-> NoPicture,
                      tiers |-> tiers, mode |-> mode]
    /\ UNCHANGED <<shared, able, skip, notified, viewed, sinceSent, stale>>

\* On Wayland, or without a display: whatever session is active by now is
\* stopped, the one that was read is told, once.
Unable ==
    /\ round.at = "capture" /\ ~able
    /\ notified' = round.viewer /\ active' = NoViewer /\ round' = Asleep
    /\ UNCHANGED <<shown, tiers, mode, typed, able, skip, viewed, sinceCap, sinceSent, stale>>

\* A capture or an encoding that fails is logged; SkipState keeps what decide
\* made of it.
Misfires ==
    /\ round.at # "asleep" /\ able
    /\ round' = Asleep /\ stale' = 0
    /\ UNCHANGED <<inputs, able, skip, notified, viewed, sinceCap, sinceSent>>

\* The frame goes out: it was right when the round began.
Pushed(v, p, t) ==
    /\ viewed' = [viewed EXCEPT ![v] = [picture |-> p, tiers |-> t]]
    /\ round' = Asleep
    /\ stale' = IF v = active THEN 0 ELSE stale

\* The old path: every picture is sent, and nothing remembered.
LegacyFrame ==
    /\ round.at = "capture" /\ able /\ round.mode = "legacy"
    /\ Pushed(round.viewer, shown, round.tiers)
    /\ UNCHANGED <<inputs, able, skip, notified, sinceCap, sinceSent>>

\* mutant: no keyframe is due after a while
ForcedByChangeOnly == tiers # skip.quality

\* SkipState::decide forces a frame that is due or whose quality has changed.
Forced == sinceSent >= Keyframe \/ tiers # skip.quality

\* SkipState::decide on what was captured, for the tiers as they are by now.
Decide ==
    LET last == IF skip.viewer = round.viewer THEN skip.tiles ELSE NoPicture
        sends == ~Skips(mode) \/ shown # last \/ Forced
    IN
    /\ round.at = "capture" /\ able /\ round.mode # "legacy"
    /\ skip' = [tiles |-> shown, viewer |-> round.viewer,
                quality |-> IF sends THEN tiers ELSE skip.quality,
                skips |-> IF sends THEN 0
                          ELSE IF skip.skips < IdleSkips THEN skip.skips + 1
                          ELSE skip.skips]
    /\ IF sends THEN /\ round' = [round EXCEPT !.at = "encode", !.picture = shown]
                     /\ sinceSent' = 0
                ELSE round' = Asleep /\ UNCHANGED sinceSent
    /\ UNCHANGED <<inputs, able, notified, viewed, sinceCap, stale>>

\* The picture is encoded for the tiers read at the start of the round.
Encode ==
    /\ round.at = "encode"
    /\ Pushed(round.viewer, round.picture, round.tiers)
    /\ UNCHANGED <<inputs, able, skip, notified, sinceCap, sinceSent>>

StreamNext ==
    \/ ScreenChanges \/ SetQuality \/ SetMode \/ SetActive \/ Typed \/ Passes
    \/ (\E level \in 0 .. 3 : Look(level))
    \/ Unable \/ Misfires \/ LegacyFrame \/ Decide \/ Encode

StreamSpec == StreamInit /\ [][StreamNext]_streamVars

----------------------------------------------------------------------------
(* Properties *)

\* However the picture, the tiers, the mode and the session change between two
\* steps of a round, a viewer does not look at an old picture, or at the right
\* one in a quality it no longer asks for, for longer than a keyframe interval
\* and one gap, counted from the last failure (framediff.rs: a skipped picture
\* is taken to be the one the viewer has, which it is not after a failed
\* encoding, a quality read twice or a stretch of the old path).
StaleAtMostKeyframe == stale <= Keyframe + MaxGap
=============================================================================
