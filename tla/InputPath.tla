----------------------------- MODULE InputPath -----------------------------
(***************************************************************************)
(* Mouse and keyboard from the viewer of a session to the injection on the *)
(* machine it controls: what the window makes of the user's hands          *)
(* (ui_glue/input.rs, key_route.rs), the gate of the dispatch, the         *)
(* coalescing of moves (coalesce_inputs in workers.rs) and the injector    *)
(* (inject.rs).  Input travels in order on the reliable lane, so an event  *)
(* is put into the injector's queue when it is made: a later arrival is a  *)
(* viewer who acted later.  The size of the frame pointed at and the size  *)
(* the injector scales by are not modelled: both are the real screen here. *)
(***************************************************************************)
EXTENDS Integers, Sequences

CONSTANTS
    Spots,       \* places on the controlled screen
    NoSpot,      \* none
    Buttons,     \* mouse buttons
    Modifiers,   \* Ctrl, Alt, Meta: keys that change what another key means
    Printables,  \* keys of one printable character
    Named,       \* keys with a name, such as Enter
    MaxActs,     \* bound: acts of the user that are sent on
    MaxGaps      \* bound: changes of the session

ASSUME InputAssumption ==
    /\ MaxActs \in Nat /\ MaxGaps \in Nat /\ NoSpot \notin Spots
    /\ Modifiers \cap (Printables \cup Buttons) = {}

Keys == Modifiers \cup Printables \cup Named

VARIABLES
    ime,        \* does the viewer's system compose text (Windows), or pass keys on?
    fingers,    \* the keys and buttons the user holds
    serving,    \* is the controlled side in the session the events are of?
    inbox,      \* events handed to the injector's thread
    buttonsDown,  \* buttons_down
    cursor,     \* where the injected pointer is
    mods,       \* mods_held
    pressed,    \* keys pressed on the controlled system
    acts, gaps, \* counters of the bounds
    holding,    \* history: buttons whose press has come and whose release has not
    odd,        \* history: did a release come alone while another button was held?
    missed      \* history: was a key touched while the session was not served?

inputVars == <<ime, fingers, serving, inbox, buttonsDown, cursor, mods, pressed, acts, gaps,
               holding, odd, missed>>
injector == <<buttonsDown, cursor, mods, pressed>>

\* An event; at and drag are ghosts: the spot the user saw it at, and whether the
\* events before it left a button pressed.
InputEvent == [kind : {"move", "button", "key", "text"}, what : Buttons \cup Keys \cup {"none"},
               down : BOOLEAN, at : Spots \cup {NoSpot}, drag : BOOLEAN]

InputTypeOK ==
    /\ ime \in BOOLEAN /\ fingers \subseteq Keys \cup Buttons /\ serving \in BOOLEAN
    /\ inbox \in Seq(InputEvent)
    /\ buttonsDown \in 0 .. MaxActs /\ cursor \in Spots \cup {NoSpot}
    /\ mods \subseteq Modifiers /\ pressed \subseteq Keys
    /\ acts \in 0 .. MaxActs /\ gaps \in 0 .. MaxGaps
    /\ holding \subseteq Buttons /\ odd \in BOOLEAN /\ missed \in BOOLEAN

InputInit ==
    /\ ime \in BOOLEAN /\ fingers = {} /\ serving = FALSE /\ inbox = <<>>
    /\ buttonsDown = 0 /\ cursor = NoSpot /\ mods = {} /\ pressed = {}
    /\ acts = 0 /\ gaps = 0 /\ holding = {} /\ odd = FALSE
    /\ missed = FALSE

----------------------------------------------------------------------------
(* The viewer *)

InputOf(kind, what, down, spot, drag) ==
    [kind |-> kind, what |-> what, down |-> down, at |-> spot, drag |-> drag]

MoveTo(spot) == InputOf("move", "none", FALSE, spot, holding # {})

\* The dispatch hands on what is of its session, and drops the rest.
Sends(events) ==
    /\ acts < MaxActs
    /\ IF serving THEN acts' = acts + 1 /\ inbox' = inbox \o events
                  ELSE UNCHANGED <<acts, inbox>>
    /\ UNCHANGED <<ime, serving, injector, gaps>>

\* on_pointer_move
PointerMoves(spot) == Sends(<<MoveTo(spot)>>) /\ UNCHANGED <<fingers, holding, odd, missed>>

\* A button or a key goes the other way.
Touches(it, down) ==
    /\ down # (it \in fingers)
    /\ fingers' = IF down THEN fingers \cup {it} ELSE fingers \ {it}

\* on_pointer_button: a move to the spot goes before it.
PointerButton(button, down, spot) ==
    /\ Touches(button, down)
    /\ Sends(<<MoveTo(spot), InputOf("button", button, down, spot, FALSE)>>)
    /\ IF ~serving THEN UNCHANGED <<holding, odd>>
       ELSE /\ holding' = IF down THEN holding \cup {button} ELSE holding \ {button}
            /\ odd' = (odd \/ (~down /\ button \notin holding /\ holding # {}))
    /\ UNCHANGED missed

\* key_route, and on_key where text is not composed: keys go as they are, a
\* printable one without a modifier goes as text, and its release goes nowhere.
Routed(key, down) ==
    IF key \in Printables /\ ime /\ fingers \cap Modifiers = {}
    THEN IF down THEN <<InputOf("text", "none", TRUE, NoSpot, FALSE)>> ELSE <<>>
    ELSE <<InputOf("key", key, down, NoSpot, FALSE)>>

KeyTouched(key, down) ==
    /\ Touches(key, down)
    /\ Sends(Routed(key, down))
    /\ missed' = (missed \/ ~serving)
    /\ UNCHANGED <<holding, odd>>

\* The controlled side leaves the session, or enters the next one; the thread
\* keeps its queue and its state.
SessionTurns ==
    /\ gaps < MaxGaps /\ gaps' = gaps + 1 /\ serving' = ~serving
    /\ UNCHANGED <<ime, fingers, inbox, injector, acts, holding, odd, missed>>

----------------------------------------------------------------------------
(* The injector's thread *)

\* mutant: a release that comes alone counts below zero
HeldAfterUnclamped(n, e) ==
    IF e.kind # "button" THEN n ELSE IF e.down THEN n + 1 ELSE n - 1

HeldAfter(n, e) ==
    CASE e.kind # "button" -> n
      [] e.kind = "button" /\ e.down -> n + 1
      [] e.kind = "button" /\ ~e.down -> IF n > 0 THEN n - 1 ELSE 0

\* coalesce_inputs: of the moves with no button down only the last before each
\* other event is kept.
CoalesceOne(made, e) ==
    CASE e.kind = "move" /\ made.n > 0 -> [made EXCEPT !.out = Append(@, e)]
      [] e.kind = "move" /\ made.n <= 0 -> [made EXCEPT !.hover = <<e>>]
      [] OTHER -> [out |-> made.out \o made.hover \o <<e>>, hover |-> <<>>,
                   n |-> HeldAfter(made.n, e)]

\* What a step makes of a state, after each of the events.
Through(Step(_, _), state, events) ==
    LET after[i \in 0 .. Len(events)] ==
            IF i = 0 THEN state ELSE Step(after[i - 1], events[i])
    IN  after

Coalesced(batch, n) ==
    LET made == Through(CoalesceOne, [out |-> <<>>, hover |-> <<>>, n |-> n], batch)[Len(batch)]
    IN  [out |-> made.out \o made.hover, n |-> made.n]

\* Injector::apply.  A printable key without a modifier is typed at its press; any
\* other is pressed and released.
Applied(was, e) ==
    LET held == IF e.what \notin Modifiers THEN was.mods
                ELSE IF e.down THEN was.mods \cup {e.what} ELSE was.mods \ {e.what}
    IN  CASE e.kind = "move" -> [was EXCEPT !.cursor = e.at]
          [] e.kind = "key" /\ held = {} /\ e.what \in Printables -> [was EXCEPT !.mods = held]
          [] e.kind = "key" /\ ~(held = {} /\ e.what \in Printables) ->
               [was EXCEPT !.mods = held,
                           !.pressed = IF e.down THEN @ \cup {e.what} ELSE @ \ {e.what}]
          [] OTHER -> was

Injector == [cursor |-> cursor, mods |-> mods, pressed |-> pressed]

\* The thread takes what has come, as far as it sees, and injects it.  Nothing it
\* reads on the way is changed by another.
Inject ==
    /\ \E k \in 1 .. Len(inbox) :
         LET made == Coalesced(SubSeq(inbox, 1, k), buttonsDown)
             after == Through(Applied, Injector, made.out)[Len(made.out)]
         IN  /\ inbox' = SubSeq(inbox, k + 1, Len(inbox))
             /\ buttonsDown' = made.n
             /\ cursor' = after.cursor /\ mods' = after.mods /\ pressed' = after.pressed
    /\ UNCHANGED <<ime, fingers, serving, acts, gaps, holding, odd, missed>>

InputNext ==
    \/ \E spot \in Spots : PointerMoves(spot)
    \/ \E button \in Buttons, down \in BOOLEAN, spot \in Spots : PointerButton(button, down, spot)
    \/ \E key \in Keys, down \in BOOLEAN : KeyTouched(key, down)
    \/ SessionTurns \/ Inject

InputSpec == InputInit /\ [][InputNext]_inputVars

----------------------------------------------------------------------------
(* Properties *)

\* The batch a step injects, and what is made of it.
Batch == SubSeq(inbox, 1, Len(inbox) - Len(inbox'))
Made == Coalesced(Batch, buttonsDown).out

IsDrag(e) == e.kind = "move" /\ e.drag

\* What of the events may not be lost: all but moves, and with drags those moves too.
Owed(events, drags) ==
    LET Keep(kept, e) == IF e.kind # "move" \/ (drags /\ IsDrag(e)) THEN Append(kept, e) ELSE kept
    IN  Through(Keep, <<>>, events)[Len(events)]

\* Coalescing loses no button, no key and no text, and of a drag no move, however
\* the events fall into batches and whatever a lost session left behind: except
\* after a release that came alone while another button was held.
NothingLost == Owed(Made, ~odd) = Owed(Batch, ~odd)

\* A button goes down or up where the user had the pointer.
ClicksLand ==
    LET after == Through(Applied, Injector, Made) IN
    \A i \in DOMAIN Made : Made[i].kind = "button" => Made[i].at = after[i - 1].cursor

\* The modifiers the injector believes in are those the user holds, once all has
\* come, if no key was touched outside the session.
ModifiersAgree == (inbox = <<>> /\ ~missed) => mods = fingers \cap Modifiers

\* What is injected is what the user did (workers.rs, coalesce_inputs; inject.rs).
InputFaithful ==
    [][ModifiersAgree /\ (Len(inbox') < Len(inbox) => NothingLost /\ ClicksLand)]_inputVars
=============================================================================
