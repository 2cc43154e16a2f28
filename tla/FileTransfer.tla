---------------------------- MODULE FileTransfer ----------------------------
(***************************************************************************)
(* The files one client receives (transfer.rs, and its callers in          *)
(* net/dispatch.rs): those the machine that controls it pushes, and those  *)
(* it pulls from the machine it controls.  A transfer is a task of its own *)
(* on the sending side, which nothing stops; the tasks of both directions  *)
(* interleave.  Messages are handled in the order they were sent, so one   *)
(* is handled as it is sent: a later arrival is a task that ran later.     *)
(* The ids of pulls are counted by this client, those of pushes by         *)
(* whoever controls it, each from one: the same id may be in use twice.    *)
(* Sizes are in chunks.  No two transfers here send the same file.         *)
(***************************************************************************)
EXTENDS Naturals, Sequences, FiniteSets, Functions

CONSTANTS
    Size,         \* by file, its size
    MaxFile,      \* MAX_FILE
    MaxTransfers, \* bound: transfers, in each direction
    MaxMeetings,  \* bound: sessions, in each direction
    MaxFailures   \* bound: opens and writes that fail

Files == DOMAIN Size
Directions == {"push", "pull"}

ASSUME TransferAssumption ==
    /\ Size \in [Files -> Nat] /\ MaxFile \in Nat
    /\ MaxTransfers \in Nat /\ MaxMeetings \in Nat /\ MaxFailures \in Nat

VARIABLES
    meeting,    \* by direction, the session it runs in, 0 when none
    met,        \* by direction, sessions so far
    tasks,      \* by direction, the transfers asked for: what each has still to send
    used,       \* files asked for so far
    receivers,  \* RECEIVERS: what is being received, by id
    targets,    \* PULL_TARGETS: the ids whose directory is registered
    saved,      \* files reported complete
    failures,   \* counter of the bound
    torn,       \* history: transfers in which a write failed
    mixed,      \* history: transfers whose id another one used at the same time
    swept       \* history: did the end of another session clear the targets?

transferVars == <<meeting, met, tasks, used, receivers, targets, saved, failures, torn, mixed, swept>>

Ids == 1 .. MaxTransfers
Transfers == Directions \X (1 .. MaxTransfers)

TransferTypeOK ==
    /\ meeting \in [Directions -> 0 .. MaxMeetings] /\ met \in [Directions -> 0 .. MaxMeetings]
    /\ \A d \in Directions : \A i \in DOMAIN tasks[d] :
         /\ i <= MaxTransfers /\ tasks[d][i].session \in 1 .. met[d]
         /\ tasks[d][i].id \in Ids /\ Range(tasks[d][i].files) \subseteq Files
    /\ DOMAIN receivers \subseteq Ids /\ used \subseteq Files /\ targets \subseteq Ids
    /\ \A id \in DOMAIN receivers : /\ receivers[id].owner \in Transfers
                                    /\ receivers[id].place \in {"chosen", "recv"}
                                    /\ receivers[id].written <= MaxFile
    /\ failures \in 0 .. MaxFailures
    /\ torn \subseteq Transfers /\ mixed \subseteq Transfers /\ swept \in BOOLEAN

TransferInit ==
    /\ meeting = [d \in Directions |-> 0] /\ met = meeting
    /\ tasks = [d \in Directions |-> <<>>] /\ used = {}
    /\ receivers = <<>> /\ targets = {} /\ saved = {}
    /\ failures = 0 /\ torn = {} /\ mixed = {} /\ swept = FALSE

----------------------------------------------------------------------------
(* Sessions *)

Meets(d) ==
    /\ met[d] < MaxMeetings
    /\ met' = [met EXCEPT ![d] = @ + 1] /\ meeting' = [meeting EXCEPT ![d] = met[d] + 1]
    /\ UNCHANGED <<tasks, used, receivers, targets, saved, failures, torn, mixed, swept>>

\* Disconnect and SessionEnd of any session clear the targets (clear_pull_targets);
\* StopControlled and a lost connection do not.  What is being received stays.
Parts(d) ==
    /\ meeting[d] # 0 /\ meeting' = [meeting EXCEPT ![d] = 0]
    /\ \/ targets' = {} /\ swept' = (swept \/ (d = "push" /\ meeting["pull"] # 0))
       \/ UNCHANGED <<targets, swept>>
    /\ UNCHANGED <<met, tasks, used, receivers, saved, failures, torn, mixed>>

----------------------------------------------------------------------------
(* Asking, and the sending side *)

\* next_id: of this client's counter for a pull; of the other side's for a push,
\* which another machine starts anew.
NextId(d) ==
    IF d = "pull" THEN Len(tasks[d]) + 1
    ELSE Cardinality({i \in DOMAIN tasks[d] : tasks[d][i].session = meeting[d]}) + 1

\* What send_file_push spawns, for a push or for the answer to a pull.
NewTask(d, files) ==
    [session |-> meeting[d], id |-> NextId(d), at |-> 0, folder |-> Len(files) > 1, files |-> files]

\* PushFile and PullFile, of one file or of a folder; a pull registers where to.
Ask(d) ==
    /\ meeting[d] # 0 /\ Len(tasks[d]) < MaxTransfers
    /\ \E f, g \in Files \ used :
         /\ used' = used \cup {f, g}
         /\ tasks' = [tasks EXCEPT ![d] = Append(@, NewTask(d, IF f = g THEN <<f>> ELSE <<f, g>>))]
    /\ targets' = IF d = "pull" THEN targets \cup {NextId(d)} ELSE targets
    /\ UNCHANGED <<meeting, met, receivers, saved, failures, torn, mixed, swept>>

TaskAt(t) == tasks[t[1]][t[2]]
Running(t) == t[2] \in DOMAIN tasks[t[1]] /\ TaskAt(t).files # <<>>
NextFile(t) == Head(TaskAt(t).files)

\* The session of the task is the one this client is in.
Current(t) == TaskAt(t).session = meeting[t[1]]

\* The task goes on: to a place in its file, or to the next file.
GoesTo(t, place) == tasks' = [tasks EXCEPT ![t[1]][t[2]].at = place]
GoesOn(t) ==
    LET w == TaskAt(t) IN
    tasks' = [tasks EXCEPT ![t[1]][t[2]] = [w EXCEPT !.at = 0, !.files = Tail(w.files)]]

Without(id) == Restrict(receivers, DOMAIN receivers \ {id})
With(id, r) == [i \in DOMAIN receivers \cup {id} |-> IF i = id THEN r ELSE receivers[i]]

\* send_one_file cannot read the file, or finds it too large.  Of a folder it is
\* left out; else a FileError is sent, and makes the receiver give up (abort)
\* whatever it receives under that id.
SkipFile(t) ==
    /\ Running(t) /\ TaskAt(t).at = 0 /\ Size[NextFile(t)] > MaxFile
    /\ GoesOn(t)
    /\ receivers' = IF TaskAt(t).folder THEN receivers ELSE Without(TaskAt(t).id)
    /\ UNCHANGED <<meeting, met, used, targets, saved, failures, torn, mixed, swept>>

----------------------------------------------------------------------------
(* The receiving side: FileOpen and FileChunk *)

\* FileOpen: open_recv takes the place of what is being received under the id.
\* A pull is saved where it was registered, anything else in the directory that
\* came with it, or in recv_dir.
OpenFile(t) ==
    LET id == TaskAt(t).id
        place == IF t[1] = "push" \/ id \in targets THEN "chosen" ELSE "recv"
        fresh == [owner |-> t, size |-> Size[NextFile(t)], written |-> 0, got |-> <<>>,
                  place |-> place]
    IN
    /\ Running(t) /\ TaskAt(t).at = 0 /\ Size[NextFile(t)] <= MaxFile
    /\ GoesTo(t, 1)
    /\ \/ /\ Current(t) /\ receivers' = With(id, fresh)
          /\ mixed' = IF id \in DOMAIN receivers THEN mixed \cup {receivers[id].owner} ELSE mixed
          /\ UNCHANGED failures
       \/ /\ Current(t) /\ failures < MaxFailures /\ failures' = failures + 1
          /\ UNCHANGED <<receivers, mixed>>
       \/ ~Current(t) /\ UNCHANGED <<receivers, mixed, failures>>
    /\ UNCHANGED <<meeting, met, used, targets, saved, torn, swept>>

\* mutant: a pull whose write failed is not given up
KeptAfterFailureAlways(t, r) == With(TaskAt(t).id, r)

\* After a failed write a pull is given up (abort); a push is not.
KeptAfterFailure(t, r) ==
    IF t[1] = "push" THEN With(TaskAt(t).id, r) ELSE Without(TaskAt(t).id)

\* FileChunk: write_chunk
WriteChunk(t) ==
    LET f == NextFile(t)
        id == TaskAt(t).id
        k == TaskAt(t).at
        n == IF Size[f] = 0 THEN 0 ELSE 1
        last == k >= Size[f]
        r == [receivers[id] EXCEPT !.written = @ + n]
        whole == [r EXCEPT !.got = IF n = 0 THEN @ ELSE Append(@, <<f, k>>)]
        known == Current(t) /\ id \in DOMAIN receivers
        over == r.written > MaxFile \/ r.written > r.size + 1
    IN
    /\ Running(t) /\ k > 0
    /\ IF last THEN GoesOn(t) ELSE GoesTo(t, k + 1)
    /\ mixed' = IF known /\ receivers[id].owner # t
                THEN mixed \cup {t, receivers[id].owner} ELSE mixed
    /\ \/ ~known /\ UNCHANGED <<receivers, saved, failures, torn>>
       \/ /\ known /\ over /\ receivers' = Without(id)
          /\ UNCHANGED <<saved, failures, torn>>
       \/ /\ known /\ ~over /\ failures < MaxFailures /\ failures' = failures + 1
          /\ receivers' = KeptAfterFailure(t, r) /\ torn' = torn \cup {t}
          /\ UNCHANGED saved
       \/ /\ known /\ ~over
          /\ receivers' = IF last THEN Without(id) ELSE With(id, whole)
          /\ saved' = IF last THEN saved \cup {[by |-> t, file |-> f, got |-> whole.got,
                                                place |-> r.place]}
                      ELSE saved
          /\ UNCHANGED <<failures, torn>>
    /\ UNCHANGED <<meeting, met, used, targets, swept>>

TransferNext ==
    \/ \E d \in Directions : Meets(d) \/ Parts(d) \/ Ask(d)
    \/ \E t \in Transfers : SkipFile(t) \/ OpenFile(t) \/ WriteChunk(t)

TransferSpec == TransferInit /\ [][TransferNext]_transferVars

----------------------------------------------------------------------------
(* Properties *)

Whole(f) == [i \in 1 .. Size[f] |-> <<f, i>>]

\* A file reported complete holds just what its sender sent, however transfers,
\* sessions and failures interleave, unless another transfer used its id at the
\* same time or, of a push, a write failed in it; and a pull is saved where the
\* user wanted it unless the end of another session cleared the table
\* (transfer.rs).
FileWhole ==
    \A s \in saved :
        /\ (s.by \in mixed \/ (s.by[1] = "push" /\ s.by \in torn)) \/ s.got = Whole(s.file)
        /\ s.by[1] = "push" \/ s.place = "chosen" \/ swept \/ s.by \in mixed
=============================================================================
