----------------------------- MODULE Clipboard -----------------------------
(***************************************************************************)
(* The clipboard shared by the two machines of a session                   *)
(* (consume_clipboard in workers.rs).  Both machines run the same thread:  *)
(* twice a second it writes to the clipboard of its system what the other  *)
(* sent, and sends what the user copied.  Nothing tells the two apart but  *)
(* last_synced, the text that needs no sending.  One of the systems hands  *)
(* some texts back otherwise than they were written (line ends, say).      *)
(***************************************************************************)
EXTENDS Naturals, Sequences, FiniteSetsExt

CONSTANTS
    Texts,        \* texts a user may copy
    TooBig,       \* those over 256 KB
    Normal,       \* what the other machine's clipboard makes of a text
    MaxSessions,  \* bound: sessions of the pair, one after the other
    MaxCopies,    \* bound: texts copied
    MaxBusy,      \* bound: readings that fail because the clipboard is busy
    InTransit     \* bound: texts on the way in one direction

Empty == ""    \* no text on the clipboard
Sides == {"one", "other"}
Peer(side) == CHOOSE p \in Sides : p # side

ASSUME ClipboardAssumption ==
    /\ TooBig \subseteq Texts /\ Empty \notin Texts
    /\ Normal \in [Texts -> Texts]
    /\ \A t \in Texts : Normal[Normal[t]] = Normal[t]  \* the system's, by assumption
    /\ \E t \in Texts : Normal[t] = t /\ t \notin TooBig
    /\ MaxSessions \in Nat /\ MaxCopies \in Nat /\ MaxBusy \in Nat /\ InTransit \in Nat

VARIABLES
    open,        \* the session open at the server, 0 when none
    opened,      \* sessions opened so far
    in,          \* per side: the session it is in; active of its thread
    previous,    \* per side: prev_active
    board,       \* per side: the text on the clipboard of its system
    synced,      \* per side: last_synced
    incoming,    \* per side: texts received and not written yet
    sent,        \* per side: messages sent and not received yet
    copies, busy,  \* counters of the bounds
    old,         \* history, per side: is the text from before the session?
    blind        \* history, per side: did the reading for its baseline fail?

clipVars == <<open, opened, in, previous, board, synced, incoming, sent,
              copies, busy, old, blind>>
theSessions == <<open, opened, in>>

ClipTypeOK ==
    /\ opened \in 0 .. MaxSessions /\ open \in {0, opened}
    /\ in \in [Sides -> 0 .. opened] /\ previous \in [Sides -> 0 .. opened]
    /\ board \in [Sides -> Texts \cup {Empty}] /\ synced \in [Sides -> Texts \cup {Empty}]
    /\ incoming \in [Sides -> Seq(Texts)]
    /\ sent \in [Sides -> Seq([session : 1 .. MaxSessions, text : Texts])]
    /\ copies \in 0 .. MaxCopies /\ busy \in 0 .. MaxBusy
    /\ old \in [Sides -> BOOLEAN] /\ blind \in [Sides -> BOOLEAN]

\* Each side starts with a text its user had copied before.
ClipInit ==
    /\ open = 0 /\ opened = 0 /\ in = [x \in Sides |-> 0] /\ previous = in
    /\ board = [x \in Sides |-> CHOOSE t \in Texts : Normal[t] = t /\ t \notin TooBig]
    /\ synced = [x \in Sides |-> Empty]
    /\ incoming = [x \in Sides |-> <<>>] /\ sent = [x \in Sides |-> <<>>]
    /\ copies = 0 /\ busy = 0
    /\ old = [x \in Sides |-> TRUE] /\ blind = [x \in Sides |-> FALSE]

----------------------------------------------------------------------------
(* Sessions: each side learns of them in its own time *)

PairConnects ==
    /\ open = 0 /\ opened < MaxSessions
    /\ open' = opened + 1 /\ opened' = opened + 1
    /\ UNCHANGED <<in, previous, board, synced, incoming, sent, copies, busy,
                   old, blind>>

PairEnds ==
    /\ open # 0 /\ open' = 0
    /\ UNCHANGED <<opened, in, previous, board, synced, incoming, sent, copies,
                   busy, old, blind>>

\* A side learns that a session began or ended (ClipboardMsg::Start or Stop; a
\* session that replaces another needs no Stop between): what is on its
\* clipboard now is older than the session.
Learns(x) ==
    /\ in[x] # open /\ in' = [in EXCEPT ![x] = open]
    /\ old' = [old EXCEPT ![x] = TRUE]
    /\ UNCHANGED <<open, opened, previous, board, synced, incoming, sent, copies, busy,
                   blind>>

----------------------------------------------------------------------------

\* The user of this side copies a text, or something that is none.
Copies(x) ==
    /\ copies < MaxCopies /\ copies' = copies + 1
    /\ \E t \in Texts \cup {Empty} : board' = [board EXCEPT ![x] = t]
    /\ old' = [old EXCEPT ![x] = FALSE]
    /\ UNCHANGED <<theSessions, previous, synced, incoming, sent, busy, blind>>

AsRead(x, t) == IF x = "other" THEN Normal[t] ELSE t

\* mutant: whatever is on the clipboard is sent
ShouldPushAny(current, last) == current # Empty

\* should_push_clipboard
ShouldPush(current, last) == current # Empty /\ current # last

\* mutant: a new session keeps the baseline of the last one
BaselineKept(switched, read, last) == last

\* The text that needs no sending after a change of session.
Baseline(switched, read, last) == IF switched THEN read ELSE last

\* A turn of the thread: write what came, take a baseline when the session
\* changed, and send what is new.  A text fails to be written now and then.
Polls(x) ==
    \E written \in SUBSET DOMAIN incoming[x], fails \in BOOLEAN :
        LET came == written # {}
            last == incoming[x][Max(written)]
            now == IF came THEN AsRead(x, last) ELSE board[x]
            switched == in[x] # previous[x]
            base == Baseline(switched, IF fails THEN Empty ELSE now,
                             IF came THEN last ELSE synced[x])
            reads == in[x] # 0 /\ ~(fails /\ ~switched) /\ now # Empty
            pushes == reads /\ now \notin TooBig /\ ShouldPush(now, base)
        IN
        /\ fails => busy < MaxBusy
        /\ busy' = IF fails THEN busy + 1 ELSE busy
        /\ board' = [board EXCEPT ![x] = now]
        /\ incoming' = [incoming EXCEPT ![x] = <<>>]
        /\ previous' = [previous EXCEPT ![x] = in[x]]
        /\ synced' = [synced EXCEPT ![x] =
                        IF pushes \/ (reads /\ now \in TooBig) THEN now ELSE base]
        /\ pushes => Len(sent[x]) < InTransit
        /\ sent' = IF pushes
                   THEN [sent EXCEPT ![x] = Append(@, [session |-> in[x], text |-> now])]
                   ELSE sent
        /\ old' = [old EXCEPT ![x] = @ /\ ~came]
        /\ blind' = [blind EXCEPT ![x] = IF switched THEN fails ELSE @]
        /\ UNCHANGED <<theSessions, copies>>

\* A turn that changes something.
Turns(x) == Polls(x) /\ clipVars' # clipVars

\* A text arrives: the server drops it when the session is over, and the
\* dispatch when this side is not in it.
Arrives(x) ==
    /\ sent[x] # <<>> /\ sent' = [sent EXCEPT ![x] = Tail(@)]
    /\ LET m == Head(sent[x])
           y == Peer(x)
       IN  \/ /\ in[y] = m.session
              /\ incoming' = [incoming EXCEPT ![y] = Append(@, m.text)]
           \/ (in[y] # m.session \/ open # m.session) /\ UNCHANGED incoming
    /\ UNCHANGED <<theSessions, previous, board, synced, copies, busy, old, blind>>

ClipNext ==
    \/ PairConnects \/ PairEnds
    \/ \E x \in Sides : Learns(x) \/ Copies(x) \/ Turns(x) \/ Arrives(x)

\* The threads keep turning, and the connections keep carrying.
ClipFairness == \A x \in Sides : WF_clipVars(Turns(x)) /\ WF_clipVars(Arrives(x))

ClipSpec == ClipInit /\ [][ClipNext]_clipVars /\ ClipFairness

----------------------------------------------------------------------------
(* Properties *)

\* Once nobody copies and the sessions stay as they are, the two clipboards stop
\* sending to each other: no text goes back and forth for ever, not even one
\* that a system hands back changed (workers.rs, last_synced).
ClipboardSettles ==
    <>[](\A x \in Sides : sent[x] = <<>> /\ incoming[x] = <<>>)

\* No side sends what was on its clipboard before it was in the session, unless
\* the very reading that should have told it failed (workers.rs, the baseline is
\* read with unwrap_or_default).
OnlyCopiedMeanwhile ==
    [][\A x \in Sides : Len(sent'[x]) > Len(sent[x]) => (~old'[x] \/ blind'[x])]_clipVars
=============================================================================
