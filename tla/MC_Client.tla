----------------------------- MODULE MC_Client -----------------------------
(***************************************************************************)
(* The parts of the client for TLC.  They share no state as they are       *)
(* modelled, so one behaviour runs one of them and leaves the others as    *)
(* they began.                                                             *)
(***************************************************************************)
EXTENDS ClientSession, ClientLink, ScreenStream, Adaptive, Clipboard, InputPath,
        FileTransfer, SelfUpdate

VARIABLE part   \* the one that runs

allVars == <<part, csVars, linkVars, streamVars, adaptiveVars, clipVars, inputVars,
             transferVars, updateVars>>

ClientInit ==
    /\ part \in {"session", "link", "screen", "quality", "clipboard", "input", "files", "update"}
    /\ SessInit /\ LinkInit /\ StreamInit /\ AdaptiveInit /\ ClipInit /\ InputInit
    /\ TransferInit /\ UpdateInit
    \* A part that does not run has no choice of its beginning.
    /\ part # "screen" => able /\ mode = "legacy" /\ shown = CHOOSE p \in Pictures : TRUE
    /\ part # "input" => ime
    /\ part # "update" => version = CHOOSE v \in Versions : TRUE

ClientNext ==
    /\ UNCHANGED part
    /\ \/ /\ part = "session" /\ SessNext
          /\ UNCHANGED <<linkVars, streamVars, adaptiveVars, clipVars, inputVars,
                         transferVars, updateVars>>
       \/ /\ part = "link" /\ LinkNext
          /\ UNCHANGED <<csVars, streamVars, adaptiveVars, clipVars, inputVars,
                         transferVars, updateVars>>
       \/ /\ part = "screen" /\ StreamNext
          /\ UNCHANGED <<csVars, linkVars, adaptiveVars, clipVars, inputVars,
                         transferVars, updateVars>>
       \/ /\ part = "quality" /\ AdaptiveNext
          /\ UNCHANGED <<csVars, linkVars, streamVars, clipVars, inputVars,
                         transferVars, updateVars>>
       \/ /\ part = "clipboard" /\ ClipNext
          /\ UNCHANGED <<csVars, linkVars, streamVars, adaptiveVars, inputVars,
                         transferVars, updateVars>>
       \/ /\ part = "input" /\ InputNext
          /\ UNCHANGED <<csVars, linkVars, streamVars, adaptiveVars, clipVars,
                         transferVars, updateVars>>
       \/ /\ part = "files" /\ TransferNext
          /\ UNCHANGED <<csVars, linkVars, streamVars, adaptiveVars, clipVars, inputVars,
                         updateVars>>
       \/ /\ part = "update" /\ UpdateNext
          /\ UNCHANGED <<csVars, linkVars, streamVars, adaptiveVars, clipVars, inputVars,
                         transferVars>>

\* LinkFairness and ClipFairness, for the part that runs.
ClientFairness ==
    /\ WF_linkVars(part = "link" /\ NetTask) /\ WF_linkVars(part = "link" /\ PumpEnds)
    /\ WF_linkVars(part = "link" /\ TaskEnds) /\ WF_linkVars(part = "link" /\ HandleReport)
    /\ WF_linkVars(part = "link" /\ Paint)
    /\ \A x \in Sides : /\ WF_clipVars(part = "clipboard" /\ Turns(x))
                        /\ WF_clipVars(part = "clipboard" /\ Arrives(x))

ClientSpec == ClientInit /\ [][ClientNext]_allVars /\ ClientFairness

\* The values of every part stay of their types.
ClientTypeOK ==
    CASE part = "session" -> SessTypeOK
      [] part = "link" -> LinkTypeOK
      [] part = "screen" -> StreamTypeOK
      [] part = "quality" -> AdaptiveTypeOK
      [] part = "clipboard" -> ClipTypeOK
      [] part = "input" -> InputTypeOK
      [] part = "files" -> TransferTypeOK
      [] part = "update" -> UpdateTypeOK

\* LinkSettles, of the part that is the link: once logins, logouts and faults are
\* over, a client that is logged in has a connection again and one that is not waits
\* at the gate, shown offline (net/mod.rs, net/conn.rs).
LinkComesBack == <>[](part = "link" => LinkSettled)

\* A viewer that saves on the frame rate at high quality, and one that leaves all
\* to the mode.
MCQualities ==
    {[mode |-> "hq", res |-> "keep", clarity |-> "keep", fps |-> "saver"],
     [mode |-> "smooth", res |-> "keep", clarity |-> "keep", fps |-> "keep"]}
MCInterval == [r \in Rates |-> IF r = "saver" THEN 2 ELSE 1]

\* One text that the other machine hands back otherwise than it was written.
MCNormal == [t \in Texts |-> IF t = "a" THEN "A" ELSE t]

\* One file of one chunk, one of two, one that is too large.
MCSize == [f \in {"one", "two", "large"} |->
             CASE f = "one" -> 1 [] f = "two" -> 2 [] OTHER -> 3]
=============================================================================
