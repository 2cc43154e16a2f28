----------------------------- MODULE SelfUpdate -----------------------------
(***************************************************************************)
(* The replacement of the running client by a new version (update.rs) and  *)
(* the gate that keeps it away from sessions (activity.rs, and where       *)
(* ui_glue uses it).  The update daemon, the user interface's thread and   *)
(* consume_to_ui share it; the connection is in a session a little before  *)
(* consume_to_ui records it, and out of it a little before it forgets it.  *)
(* The deadline of a session being asked for is compared with a date read  *)
(* as the gate is taken, so no deadline passes inside the gate.            *)
(***************************************************************************)
EXTENDS Naturals

CONSTANTS
    Versions,    \* versions, as numbers
    MaxAsked     \* bound: sessions asked for, on either side

ASSUME UpdateAssumption == Versions \subseteq Nat /\ MaxAsked \in Nat

VARIABLES
    version,     \* of the running program
    daemon,      \* where the update daemon is
    newer,       \* the version it has decided for
    updating,    \* updating
    curSet, ctrlSet,  \* are cur_session and ctrl_session recorded?
    pending,     \* pending_until_ms: "none", "ahead" of now, or "past"
    gated,       \* has on_connect_b found no update, and not asked yet?
    outgoing,    \* the session this machine controls
    served,      \* the session it is controlled in
    recording,   \* is consume_to_ui between an ack's session and its deadline?
    asked,       \* counter of the bound
    early        \* history: what was recorded when the daemon took the gate, and still is

updateVars == <<version, daemon, newer, updating, curSet, ctrlSet, pending, gated, outgoing,
                served, recording, asked, early>>
theDaemon == <<version, daemon, newer, updating>>

UpdateTypeOK ==
    /\ version \in Versions /\ newer \in Versions
    /\ daemon \in {"asleep", "downloading", "staged", "cur", "ctrl", "pending", "replacing"}
    /\ updating \in BOOLEAN /\ curSet \in BOOLEAN /\ ctrlSet \in BOOLEAN
    /\ pending \in {"none", "ahead", "past"} /\ gated \in BOOLEAN /\ recording \in BOOLEAN
    /\ outgoing \in {"none", "asked", "acked", "refused", "open", "ending"}
    /\ served \in {"none", "asking", "offered", "admitted", "open", "ending"}
    /\ asked \in 0 .. MaxAsked
    /\ early \subseteq {"cur", "ctrl", "pending"}

UpdateInit ==
    /\ version \in Versions /\ daemon = "asleep" /\ newer = version /\ updating = FALSE
    /\ curSet = FALSE /\ ctrlSet = FALSE /\ pending = "none" /\ gated = FALSE
    /\ outgoing = "none" /\ served = "none" /\ recording = FALSE
    /\ asked = 0 /\ early = {}

\* What is recorded as going on.
Going == (IF curSet THEN {"cur"} ELSE {}) \cup (IF ctrlSet THEN {"ctrl"} ELSE {})
         \cup (IF pending = "ahead" THEN {"pending"} ELSE {})

----------------------------------------------------------------------------
(* The daemon *)

\* latest.json, as far as it decides; inBucket stands for bucket < rollout_percent.
Manifest == [version : Versions, least : Versions, enabled : BOOLEAN, auto : BOOLEAN,
             inBucket : BOOLEAN, allowDowngrade : BOOLEAN, complete : BOOLEAN,
             signed : BOOLEAN, sameOrigin : BOOLEAN]

\* decide_with_asset
Decision(m) ==
    LET isNewer == m.version > version
        wanted == IF m.allowDowngrade THEN m.version # version
                  ELSE isNewer /\ (m.least > version \/ m.inBucket)
    IN  CASE ~m.enabled -> "skip"
          [] m.enabled /\ ~m.auto -> IF isNewer THEN "notice" ELSE "skip"
          [] m.enabled /\ m.auto -> IF wanted /\ m.complete THEN "update" ELSE "skip"

\* run_once, up to a download: only a signed manifest whose download comes from
\* the same origin is decided on.
Check ==
    /\ daemon = "asleep"
    /\ \E m \in Manifest :
         /\ m.signed /\ m.sameOrigin /\ Decision(m) = "update"
         /\ newer' = m.version
    /\ daemon' = "downloading"
    /\ UNCHANGED <<version, updating, curSet, ctrlSet, pending, gated, outgoing, served,
                   recording, asked, early>>

\* download_verified: refused unless size and digest are those of the manifest.
Download ==
    /\ daemon = "downloading" /\ daemon' \in {"staged", "asleep"}
    /\ UNCHANGED <<version, newer, updating, curSet, ctrlSet, pending, gated, outgoing,
                   served, recording, asked, early>>

\* mutant: the session this machine controls is not looked at again
TakeGateUnread ==
    /\ daemon = "staged" /\ ~updating
    /\ updating' = TRUE /\ daemon' = "ctrl" /\ early' = Going
    /\ UNCHANGED <<version, newer, curSet, ctrlSet, pending, gated, outgoing, served,
                   recording, asked>>

\* try_enter_updating takes the gate first...
TakeGate ==
    /\ daemon = "staged" /\ ~updating
    /\ updating' = TRUE /\ daemon' = "cur" /\ early' = Going
    /\ UNCHANGED <<version, newer, curSet, ctrlSet, pending, gated, outgoing, served,
                   recording, asked>>

\* ... and then looks again, at one thing after the other (is_idle)...
LookAt(place, going, next) ==
    /\ daemon = place
    /\ daemon' = IF going THEN "asleep" ELSE next
    /\ updating' = ~going
    /\ UNCHANGED <<version, newer, curSet, ctrlSet, pending, gated, outgoing, served,
                   recording, asked, early>>

\* ... before it replaces the program, which starts anew, or fails to.
Replace ==
    /\ daemon = "replacing" /\ daemon' = "asleep" /\ updating' = FALSE /\ early' = {}
    /\ \/ /\ version' = newer
          /\ curSet' = FALSE /\ ctrlSet' = FALSE /\ pending' = "none" /\ gated' = FALSE
          /\ outgoing' = "none" /\ served' = "none" /\ recording' = FALSE
       \/ UNCHANGED <<version, curSet, ctrlSet, pending, gated, outgoing, served, recording>>
    /\ UNCHANGED <<newer, asked>>

----------------------------------------------------------------------------
(* The user *)

StillGoing == early' = early \cap Going'

\* on_connect_b looks at the gate...
ConnectPasses ==
    /\ ~gated /\ ~updating /\ outgoing = "none" /\ asked < MaxAsked
    /\ gated' = TRUE /\ asked' = asked + 1
    /\ UNCHANGED <<theDaemon, curSet, ctrlSet, pending, outgoing, served, recording, early>>

\* ... then sets the deadline and asks.
ConnectAsks ==
    /\ gated /\ gated' = FALSE
    /\ pending' = "ahead" /\ outgoing' = "asked"
    /\ UNCHANGED <<theDaemon, curSet, ctrlSet, served, recording, asked, early>>

\* The deadline of 30 seconds passes; consent may take twice that.
DeadlinePasses ==
    /\ pending = "ahead" /\ daemon \notin {"cur", "ctrl", "pending"} /\ pending' = "past"
    /\ UNCHANGED <<theDaemon, curSet, ctrlSet, gated, outgoing, served, recording, asked>>
    /\ StillGoing

\* on_cancel_remote, or on_disconnect_remote, which ends nothing when no session is
\* recorded.
GivesUp ==
    /\ ~gated /\ outgoing \in {"asked", "open"} /\ pending' = "none"
    /\ outgoing' = IF outgoing = "open" /\ ~curSet THEN "open" ELSE "none"
    /\ curSet' = (curSet /\ outgoing = "asked")
    /\ UNCHANGED <<theDaemon, ctrlSet, gated, served, recording, asked>>
    /\ StillGoing

\* on_auth_accept, refused during an update, and on_auth_reject, which leaves the
\* session recorded.
AnswersDialog ==
    /\ ~gated /\ served = "offered"
    /\ \/ ~updating /\ served' = "open"
       \/ served' = "none"
    /\ UNCHANGED <<theDaemon, curSet, ctrlSet, pending, gated, outgoing, recording, asked, early>>

\* on_stop_being_controlled
StopsServing ==
    /\ ~gated /\ served = "open" /\ served' = "none" /\ ctrlSet' = FALSE
    /\ UNCHANGED <<theDaemon, curSet, pending, gated, outgoing, recording, asked>>
    /\ StillGoing

----------------------------------------------------------------------------
(* The connection, and consume_to_ui behind it *)

\* The answer to what this machine asked for; somebody asking for it, with consent
\* or without; the end of either session.
NetTells ==
    /\ \/ outgoing = "asked" /\ outgoing' \in {"acked", "refused"} /\ UNCHANGED <<served, asked>>
       \/ outgoing = "open" /\ outgoing' = "ending" /\ UNCHANGED <<served, asked>>
       \/ /\ served = "none" /\ asked < MaxAsked /\ asked' = asked + 1
          /\ served' \in {"asking", "admitted"} /\ UNCHANGED outgoing
       \/ served \in {"offered", "open"} /\ served' = "ending" /\ UNCHANGED <<outgoing, asked>>
    /\ UNCHANGED <<theDaemon, curSet, ctrlSet, pending, gated, recording, early>>

\* handle_remote_ack records the session...
AckRecorded ==
    /\ ~recording /\ outgoing = "acked"
    /\ outgoing' = "open" /\ curSet' = TRUE /\ recording' = TRUE
    /\ UNCHANGED <<theDaemon, ctrlSet, pending, gated, served, asked, early>>

\* ... and ends the deadline.
AckSettled ==
    /\ recording /\ recording' = FALSE /\ pending' = "none"
    /\ UNCHANGED <<theDaemon, curSet, ctrlSet, gated, outgoing, served, asked>>
    /\ StillGoing

\* handle_remote_rejected
RefusalRecorded ==
    /\ ~recording /\ outgoing = "refused"
    /\ outgoing' = "none" /\ curSet' = FALSE /\ pending' = "none"
    /\ UNCHANGED <<theDaemon, ctrlSet, gated, served, recording, asked>>
    /\ StillGoing

\* handle_frame records the session of the frame.
FrameRecorded ==
    /\ ~recording /\ outgoing = "open" /\ curSet' = TRUE
    /\ UNCHANGED <<theDaemon, ctrlSet, pending, gated, outgoing, served, recording, asked, early>>

\* handle_control_request and handle_being_controlled
ServedRecorded ==
    /\ ~recording /\ served \in {"asking", "admitted"}
    /\ served' = IF served = "asking" THEN "offered" ELSE "open"
    /\ ctrlSet' = TRUE
    /\ UNCHANGED <<theDaemon, curSet, pending, gated, outgoing, recording, asked, early>>

\* handle_session_ended: of whichever session, it forgets the one this machine
\* controls, and the deadline.
EndRecorded ==
    /\ ~recording
    /\ \/ outgoing = "ending" /\ outgoing' = "none" /\ UNCHANGED <<served, ctrlSet>>
       \/ served = "ending" /\ served' = "none" /\ ctrlSet' = FALSE /\ UNCHANGED outgoing
    /\ curSet' = FALSE /\ pending' = "none"
    /\ UNCHANGED <<theDaemon, gated, recording, asked>>
    /\ StillGoing

UpdateNext ==
    \/ Check \/ Download \/ TakeGate
    \/ LookAt("cur", curSet, "ctrl") \/ LookAt("ctrl", ctrlSet, "pending")
    \/ LookAt("pending", pending = "ahead", "replacing") \/ Replace
    \/ ConnectPasses \/ ConnectAsks \/ DeadlinePasses \/ GivesUp \/ AnswersDialog \/ StopsServing
    \/ NetTells \/ AckRecorded \/ AckSettled \/ RefusalRecorded \/ FrameRecorded
    \/ ServedRecorded \/ EndRecorded

UpdateSpec == UpdateInit /\ [][UpdateNext]_updateVars

----------------------------------------------------------------------------
(* Properties *)

\* The program is not replaced while something goes on that was recorded before
\* the daemon took the gate: it looks again after it took it (activity.rs,
\* try_enter_updating).
UpdateGate == daemon = "replacing" => early = {}

\* What the design asks for: no session that goes on or is being asked for is
\* broken by the replacement.
NothingInterrupted ==
    daemon = "replacing" => /\ outgoing \notin {"asked", "acked", "open"}
                            /\ served \notin {"admitted", "open"}
=============================================================================
