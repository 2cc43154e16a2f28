------------------------- MODULE FileTransferProofs -------------------------
(***************************************************************************)
(* Proofs about FileTransfer, for all sizes of files and any number of     *)
(* transfers, sessions and failures: what is received under an id by the   *)
(* transfer that opened it is what that transfer has sent so far, unless   *)
(* another transfer used the id or, of a push, a write failed.             *)
(***************************************************************************)
EXTENDS FileTransfer, FiniteSetTheorems, TLAPS

Sent == [session : Nat, id : Ids, at : Nat, folder : BOOLEAN, files : Seq(Files)]
Received == [owner : Transfers, size : Nat, written : 0 .. MaxFile,
             got : Seq(Files \X Nat), place : {"chosen", "recv"}]

Types ==
    /\ meeting \in [Directions -> 0 .. MaxMeetings] /\ met \in [Directions -> 0 .. MaxMeetings]
    /\ \A d \in Directions : meeting[d] <= met[d]
    /\ tasks \in [Directions -> Seq(Sent)]
    /\ \A d \in Directions : /\ Len(tasks[d]) <= MaxTransfers
                             /\ \A i \in DOMAIN tasks[d] : tasks[d][i].session \in 1 .. met[d]
    /\ used \subseteq Files /\ targets \subseteq Ids
    /\ DOMAIN receivers \subseteq Ids /\ receivers \in [DOMAIN receivers -> Received]
    /\ failures \in 0 .. MaxFailures
    /\ torn \subseteq Transfers /\ mixed \subseteq Transfers /\ swept \in BOOLEAN

\* Transfer t is what the record under its id belongs to, in the session at hand.
Begun(t) == t[2] \in DOMAIN tasks[t[1]]
Receiving(t) ==
    /\ Begun(t) /\ Current(t)
    /\ TaskAt(t).id \in DOMAIN receivers /\ receivers[TaskAt(t).id].owner = t

Excused(t) == t \in mixed \/ (t[1] = "push" /\ t \in torn)

\* The record holds what t has sent of the file it is in.
Prefix(f, n) == [i \in 1 .. n |-> <<f, i>>]
InPlace(t) ==
    LET k == TaskAt(t).at IN
    /\ k > 0 /\ TaskAt(t).files # << >>
    /\ k <= Size[NextFile(t)] \/ k = 1
    /\ receivers[TaskAt(t).id].got = Prefix(NextFile(t), k - 1)

Progress == \A t \in Transfers : Receiving(t) => Excused(t) \/ InPlace(t)

\* A pull of the session at hand is registered, and is saved where it was.
Registered ==
    \A t \in Transfers :
        t[1] = "pull" /\ Begun(t) /\ Current(t) => swept \/ TaskAt(t).id \in targets
PlacedAt(id) ==
    /\ Begun(receivers[id].owner)
    /\ receivers[id].owner[1] = "pull" => swept \/ receivers[id].place = "chosen"
Placed == \A id \in DOMAIN receivers : PlacedAt(id)

TransferInv == Types /\ Progress /\ Registered /\ Placed /\ FileWhole

----------------------------------------------------------------------------
(* Lemmas about the model's operators *)

LEMMA TransferPairs ==
    /\ \A t \in Transfers : t[1] \in Directions /\ t[2] \in 1 .. MaxTransfers
                            /\ t = <<t[1], t[2]>>
    /\ \A d \in Directions, i \in 1 .. MaxTransfers : <<d, i>> \in Transfers
BY DEF Transfers

LEMMA WithFacts ==
    ASSUME Types, NEW id \in Ids, NEW r \in Received
    PROVE  /\ DOMAIN With(id, r) = DOMAIN receivers \cup {id}
           /\ With(id, r)[id] = r
           /\ \A i \in DOMAIN receivers : i # id => With(id, r)[i] = receivers[i]
           /\ DOMAIN With(id, r) \subseteq Ids /\ With(id, r) \in [DOMAIN With(id, r) -> Received]
BY DEF With, Types

LEMMA WithoutFacts ==
    ASSUME Types, NEW id
    PROVE  /\ DOMAIN Without(id) = DOMAIN receivers \ {id}
           /\ \A i \in DOMAIN Without(id) : Without(id)[i] = receivers[i]
           /\ DOMAIN Without(id) \subseteq Ids /\ Without(id) \in [DOMAIN Without(id) -> Received]
BY DEF Without, Restrict, Types

\* One task moves, and goes on sending under its id in its session.
Moves(t, w) ==
    /\ tasks' \in [Directions -> Seq(Sent)]
    /\ \A d \in Directions : DOMAIN tasks'[d] = DOMAIN tasks[d] /\ Len(tasks'[d]) = Len(tasks[d])
    /\ \A u \in Transfers : Begun(u) => TaskAt(u)' = IF u = t THEN w ELSE TaskAt(u)
    /\ w.session = TaskAt(t).session /\ w.id = TaskAt(t).id

LEMMA TaskFacts ==
    ASSUME Types, NEW t \in Transfers, Begun(t)
    PROVE  TaskAt(t) \in Sent
BY TransferPairs DEF Types, Begun, TaskAt

LEMMA OneMoves ==
    ASSUME Types, NEW t \in Transfers, Begun(t), NEW w \in Sent,
           tasks' = [tasks EXCEPT ![t[1]] = [@ EXCEPT ![t[2]] = w]],
           w.session = TaskAt(t).session, w.id = TaskAt(t).id
    PROVE  Moves(t, w)
<1>1. t[1] \in Directions /\ tasks \in [Directions -> Seq(Sent)] /\ t[2] \in DOMAIN tasks[t[1]]
  BY TransferPairs DEF Types, Begun
<1>2. \A d \in Directions : tasks'[d] = IF d = t[1] THEN [tasks[d] EXCEPT ![t[2]] = w] ELSE tasks[d]
  BY <1>1
<1>3. \A d \in Directions : /\ tasks[d] \in Seq(Sent) /\ tasks'[d] \in Seq(Sent)
                            /\ Len(tasks'[d]) = Len(tasks[d]) /\ DOMAIN tasks'[d] = DOMAIN tasks[d]
  BY <1>1, <1>2
<1>4. ASSUME NEW u \in Transfers, Begun(u)
      PROVE  TaskAt(u)' = IF u = t THEN w ELSE TaskAt(u)
  <2>1. u[1] \in Directions /\ u[2] \in DOMAIN tasks[u[1]]
    BY <1>4, TransferPairs DEF Begun
  <2>2. CASE u[1] = t[1] /\ u[2] = t[2]
    BY <1>2, <2>1, <2>2, TransferPairs DEF TaskAt
  <2>3. CASE ~(u[1] = t[1] /\ u[2] = t[2])
    BY <1>2, <2>1, <2>3 DEF TaskAt
  <2> QED BY <2>2, <2>3
<1>5. tasks' \in [Directions -> Seq(Sent)]
  BY <1>1, <1>3
<1> QED BY <1>3, <1>4, <1>5 DEF Moves

LEMMA GoesToMoves ==
    ASSUME Types, NEW t \in Transfers, Begun(t), NEW k \in Nat, GoesTo(t, k)
    PROVE  Moves(t, [TaskAt(t) EXCEPT !.at = k])
<1> DEFINE w == [TaskAt(t) EXCEPT !.at = k]
<1>1. TaskAt(t) \in Sent
  BY TaskFacts
<1>2. w \in Sent /\ w.session = TaskAt(t).session /\ w.id = TaskAt(t).id
  BY <1>1 DEF Sent
<1>3. tasks' = [tasks EXCEPT ![t[1]] = [@ EXCEPT ![t[2]] = w]]
  BY TransferPairs DEF GoesTo, TaskAt, Types, Begun
<1> QED BY <1>2, <1>3, OneMoves

LEMMA GoesOnMoves ==
    ASSUME Types, NEW t \in Transfers, Running(t), GoesOn(t)
    PROVE  Moves(t, [TaskAt(t) EXCEPT !.at = 0, !.files = Tail(TaskAt(t).files)])
<1> DEFINE w == [TaskAt(t) EXCEPT !.at = 0, !.files = Tail(TaskAt(t).files)]
<1>1. Begun(t) /\ TaskAt(t) \in Sent /\ TaskAt(t).files # << >>
  BY TaskFacts DEF Running, Begun
<1>2. w \in Sent /\ w.session = TaskAt(t).session /\ w.id = TaskAt(t).id
  <2>1. Tail(TaskAt(t).files) \in Seq(Files)
    BY <1>1 DEF Sent
  <2> QED BY <1>1, <2>1 DEF Sent
<1>3. tasks' = [tasks EXCEPT ![t[1]] = [@ EXCEPT ![t[2]] = w]]
  BY DEF GoesOn
<1> QED BY <1>1, <1>2, <1>3, OneMoves

LEMMA PrefixGrows ==
    ASSUME NEW f, NEW n \in Nat, n > 0
    PROVE  Append(Prefix(f, n - 1), <<f, n>>) = Prefix(f, n)
<1>1. Prefix(f, n - 1) \in Seq({f} \X Nat) /\ Len(Prefix(f, n - 1)) = n - 1
  BY DEF Prefix
<1> QED BY <1>1 DEF Prefix

----------------------------------------------------------------------------
(* Steps of a transfer *)

LEMMA MovesKeeps ==
    ASSUME Types, NEW t \in Transfers, Begun(t), NEW w, Moves(t, w), meeting' = meeting
    PROVE  /\ \A u \in Transfers : Begun(u)' <=> Begun(u)
           /\ \A u \in Transfers : Begun(u) => /\ TaskAt(u)'.session = TaskAt(u).session
                                               /\ TaskAt(u)'.id = TaskAt(u).id
                                               /\ Current(u)' <=> Current(u)
BY TransferPairs DEF Moves, Begun, Current

LEMMA TypesKept ==
    ASSUME Types, NEW t \in Transfers, Begun(t), NEW w, Moves(t, w),
           UNCHANGED <<meeting, met, used, targets, swept>>,
           DOMAIN receivers' \subseteq Ids, receivers' \in [DOMAIN receivers' -> Received],
           failures' \in 0 .. MaxFailures, torn' \subseteq Transfers, mixed' \subseteq Transfers
    PROVE  Types'
<1>1. ASSUME NEW d \in Directions, NEW i \in DOMAIN tasks'[d]
      PROVE  tasks'[d][i].session \in 1 .. met'[d]
  <2>1. i \in DOMAIN tasks[d] /\ i \in 1 .. MaxTransfers
    <3>1. tasks[d] \in Seq(Sent) /\ Len(tasks[d]) <= MaxTransfers /\ i \in DOMAIN tasks[d]
      BY <1>1 DEF Moves, Types
    <3> QED BY <3>1, TransferAssumption
  <2> DEFINE u == <<d, i>>
  <2>2. u \in Transfers /\ u[1] = d /\ u[2] = i
    BY <2>1, TransferPairs
  <2> HIDE DEF u
  <2>3. tasks'[d][i].session = tasks[d][i].session
    BY <2>1, <2>2, MovesKeeps DEF Begun, TaskAt
  <2> QED BY <2>1, <2>3 DEF Types
<1> QED BY <1>1 DEF Types, Moves

\* What a transfer does to the record under its id disturbs no other transfer,
\* or is held against it.
LEMMA OthersProgress ==
    ASSUME Types, Progress, NEW t \in Transfers, Begun(t), NEW w, Moves(t, w), meeting' = meeting,
           mixed \subseteq mixed', torn \subseteq torn', NEW id,
           \A i \in DOMAIN receivers' : i # id => i \in DOMAIN receivers /\ receivers'[i] = receivers[i],
           id \in DOMAIN receivers' =>
               \/ receivers'[id].owner = t
               \/ receivers'[id].owner \in mixed'
               \/ id \in DOMAIN receivers /\ receivers'[id] = receivers[id],
           NEW u \in Transfers, u # t, Receiving(u)'
    PROVE  Excused(u)' \/ InPlace(u)'
<1>1. /\ Begun(u) /\ Current(u) /\ TaskAt(u)' = TaskAt(u)
  BY MovesKeeps DEF Receiving, Moves
<1> DEFINE q == TaskAt(u).id
<1>2. q \in DOMAIN receivers' /\ receivers'[q].owner = u
  BY <1>1 DEF Receiving
<1>3. CASE q = id /\ u \in mixed'
  BY <1>3 DEF Excused
<1>4. CASE q \in DOMAIN receivers /\ receivers'[q] = receivers[q]
  <2>1. Receiving(u)
    BY <1>1, <1>2, <1>4 DEF Receiving
  <2>2. Excused(u) => Excused(u)'
    BY DEF Excused
  <2>3. InPlace(u) => InPlace(u)'
    BY <1>1, <1>4 DEF InPlace, NextFile
  <2> QED BY <2>1, <2>2, <2>3 DEF Progress
<1> QED BY <1>2, <1>3, <1>4

\* A transfer that is at no place of a file receives nothing, or is excused.
LEMMA BetweenFiles ==
    ASSUME Progress, NEW t \in Transfers, TaskAt(t).at = 0, Receiving(t)
    PROVE  Excused(t)
BY DEF Progress, InPlace

LEMMA RegisteredKept ==
    ASSUME Types, Registered, NEW t \in Transfers, Begun(t), NEW w, Moves(t, w),
           UNCHANGED <<meeting, targets, swept>>
    PROVE  Registered'
BY MovesKeeps DEF Registered

LEMMA SkipStep ==
    ASSUME TransferInv, NEW t \in Transfers, SkipFile(t)
    PROVE  TransferInv'
<1> DEFINE id == TaskAt(t).id
           w == [TaskAt(t) EXCEPT !.at = 0, !.files = Tail(TaskAt(t).files)]
<1>1. /\ Types /\ Progress /\ Registered /\ Placed /\ FileWhole
      /\ Running(t) /\ Begun(t) /\ TaskAt(t).at = 0 /\ GoesOn(t)
      /\ UNCHANGED <<meeting, met, used, targets, saved, failures, torn, mixed, swept>>
  BY DEF TransferInv, SkipFile, Running, Begun
<1>2. Moves(t, w)
  BY <1>1, GoesOnMoves
<1>3. receivers' = receivers \/ receivers' = Without(id)
  BY DEF SkipFile
<1> HIDE DEF w, id
<1>4. /\ DOMAIN receivers' \subseteq DOMAIN receivers
      /\ \A i \in DOMAIN receivers' : receivers'[i] = receivers[i]
      /\ DOMAIN receivers' \subseteq Ids /\ receivers' \in [DOMAIN receivers' -> Received]
  BY <1>1, <1>3, WithoutFacts DEF Types
<1>5. Types'
  BY <1>1, <1>2, <1>4, TypesKept DEF Types
<1>6. Progress'
  <2> SUFFICES ASSUME NEW u \in Transfers, Receiving(u)' PROVE Excused(u)' \/ InPlace(u)'
    BY DEF Progress
  <2>1. CASE u # t
    BY <1>1, <1>2, <1>4, <2>1, OthersProgress
  <2>2. CASE u = t
    <3>1. Receiving(t)
      BY <1>1, <1>2, <1>4, <2>2, MovesKeeps DEF Receiving
    <3> QED BY <1>1, <2>2, <3>1, BetweenFiles DEF Excused
  <2> QED BY <2>1, <2>2
<1>7. Registered'
  BY <1>1, <1>2, RegisteredKept
<1>8. Placed'
  <2> SUFFICES ASSUME NEW i \in DOMAIN receivers' PROVE PlacedAt(i)'
    BY DEF Placed
  <2>1. /\ i \in DOMAIN receivers /\ receivers'[i] = receivers[i]
        /\ receivers[i].owner \in Transfers
    BY <1>1, <1>4 DEF Types, Received
  <2>2. PlacedAt(i)
    BY <1>1, <2>1 DEF Placed
  <2>3. Begun(receivers[i].owner)'
    BY <1>1, <1>2, <2>1, <2>2, MovesKeeps DEF PlacedAt
  <2> QED BY <1>1, <2>1, <2>2, <2>3 DEF PlacedAt
<1>9. FileWhole'
  BY <1>1 DEF FileWhole
<1> QED BY <1>5, <1>6, <1>7, <1>8, <1>9 DEF TransferInv

\* What is placed stays so while its owner is still a transfer.
LEMMA PlacedKept ==
    ASSUME Types, Placed, NEW t \in Transfers, Begun(t), NEW w, Moves(t, w),
           UNCHANGED <<meeting, swept>>,
           \A i \in DOMAIN receivers' :
              \/ /\ i \in DOMAIN receivers /\ receivers'[i].owner = receivers[i].owner
                 /\ receivers'[i].place = receivers[i].place
              \/ /\ receivers'[i].owner = t
                 /\ t[1] = "pull" => swept \/ receivers'[i].place = "chosen"
    PROVE  Placed'
<1> SUFFICES ASSUME NEW i \in DOMAIN receivers' PROVE PlacedAt(i)'
  BY DEF Placed
<1>1. CASE i \in DOMAIN receivers /\ receivers'[i].owner = receivers[i].owner
           /\ receivers'[i].place = receivers[i].place
  <2>1. receivers[i].owner \in Transfers /\ PlacedAt(i)
    BY <1>1 DEF Types, Received, Placed
  <2>2. Begun(receivers[i].owner)'
    BY <2>1, MovesKeeps DEF PlacedAt
  <2> QED BY <1>1, <2>1, <2>2 DEF PlacedAt
<1>2. CASE receivers'[i].owner = t /\ (t[1] = "pull" => swept \/ receivers'[i].place = "chosen")
  <2>1. Begun(t)'
    BY MovesKeeps
  <2> QED BY <1>2, <2>1 DEF PlacedAt
<1> QED BY <1>1, <1>2

LEMMA NextFileType ==
    ASSUME Types, NEW t \in Transfers, Running(t)
    PROVE  /\ Begun(t) /\ TaskAt(t) \in Sent /\ TaskAt(t).id \in Ids /\ TaskAt(t).at \in Nat
           /\ NextFile(t) \in Files /\ Size[NextFile(t)] \in Nat
<1>1. Begun(t) /\ TaskAt(t) \in Sent /\ TaskAt(t).files # << >>
  BY TaskFacts DEF Running, Begun
<1>2. TaskAt(t).files \in Seq(Files)
  BY <1>1 DEF Sent
<1>3. NextFile(t) \in Files
  BY <1>1, <1>2 DEF NextFile
<1> QED BY <1>1, <1>3, TransferAssumption DEF Sent

LEMMA OpenStep ==
    ASSUME TransferInv, NEW t \in Transfers, OpenFile(t)
    PROVE  TransferInv'
<1> DEFINE id == TaskAt(t).id
           w == [TaskAt(t) EXCEPT !.at = 1]
           place == IF t[1] = "push" \/ id \in targets THEN "chosen" ELSE "recv"
           fresh == [owner |-> t, size |-> Size[NextFile(t)], written |-> 0, got |-> << >>,
                     place |-> place]
<1>1. /\ Types /\ Progress /\ Registered /\ Placed /\ FileWhole
      /\ Running(t) /\ TaskAt(t).at = 0 /\ GoesTo(t, 1)
      /\ UNCHANGED <<meeting, met, used, targets, saved, torn, swept>>
  BY DEF TransferInv, OpenFile
<1>2. /\ Begun(t) /\ id \in Ids /\ Size[NextFile(t)] \in Nat /\ NextFile(t) \in Files
      /\ TaskAt(t) \in Sent /\ TaskAt(t).files # << >>
  BY <1>1, NextFileType DEF Running
<1>3. Moves(t, w) /\ w.at = 1 /\ w.files = TaskAt(t).files /\ w.id = id
  BY <1>1, <1>2, GoesToMoves DEF Sent
<1>4. fresh \in Received /\ fresh.owner = t /\ fresh.got = << >> /\ fresh.place = place
  BY <1>2, TransferAssumption DEF Received
<1>5. \/ Current(t) /\ receivers' = With(id, fresh) /\ failures' = failures
         /\ mixed' = IF id \in DOMAIN receivers THEN mixed \cup {receivers[id].owner} ELSE mixed
      \/ UNCHANGED <<receivers, mixed>> /\ failures' \in {failures, failures + 1}
         /\ (failures' # failures => failures < MaxFailures)
  BY DEF OpenFile
<1> HIDE DEF w, id, fresh
<1>6. FileWhole' /\ Registered'
  <2>1. mixed \subseteq mixed'
    BY <1>5
  <2> QED BY <1>1, <1>2, <1>3, <2>1, RegisteredKept DEF FileWhole
<1>7. ASSUME Current(t), receivers' = With(id, fresh), failures' = failures,
             mixed' = IF id \in DOMAIN receivers THEN mixed \cup {receivers[id].owner} ELSE mixed
      PROVE  Types' /\ Progress' /\ Placed'
  <2>1. /\ DOMAIN receivers' = DOMAIN receivers \cup {id} /\ receivers'[id] = fresh
        /\ \A i \in DOMAIN receivers : i # id => receivers'[i] = receivers[i]
        /\ DOMAIN receivers' \subseteq Ids /\ receivers' \in [DOMAIN receivers' -> Received]
    <3>1. /\ DOMAIN With(id, fresh) = DOMAIN receivers \cup {id} /\ With(id, fresh)[id] = fresh
          /\ \A i \in DOMAIN receivers : i # id => With(id, fresh)[i] = receivers[i]
          /\ DOMAIN With(id, fresh) \subseteq Ids
          /\ With(id, fresh) \in [DOMAIN With(id, fresh) -> Received]
      BY <1>1, <1>2, <1>4, WithFacts
    <3> QED BY <1>7, <3>1, Zenon
  <2>2. mixed' \subseteq Transfers
    BY <1>1, <1>7 DEF Types, Received
  <2>3. Types'
    BY <1>1, <1>2, <1>3, <1>7, <2>1, <2>2, TypesKept DEF Types
  <2>4. Progress'
    <3> SUFFICES ASSUME NEW u \in Transfers, Receiving(u)' PROVE Excused(u)' \/ InPlace(u)'
      BY DEF Progress
    <3>1. CASE u # t
      BY <1>1, <1>2, <1>3, <1>4, <1>7, <2>1, <3>1, OthersProgress
    <3>2. CASE u = t
      <4>1. TaskAt(t)' = w /\ receivers'[TaskAt(t)'.id].got = << >>
        BY <1>2, <1>3, <1>4, <2>1 DEF Moves
      <4>2. Prefix(NextFile(t)', 0) = << >>
        BY DEF Prefix
      <4> QED BY <1>2, <1>3, <3>2, <4>1, <4>2 DEF InPlace
    <3> QED BY <3>1, <3>2
  <2>5. t[1] = "pull" => swept \/ fresh.place = "chosen"
    BY <1>1, <1>2, <1>4, <1>7 DEF Registered, id
  <2>6. Placed'
    BY <1>1, <1>2, <1>3, <1>4, <2>1, <2>5, PlacedKept
  <2> QED BY <2>3, <2>4, <2>6
<1>8. ASSUME UNCHANGED <<receivers, mixed>>, failures' \in {failures, failures + 1},
             failures' # failures => failures < MaxFailures
      PROVE  Types' /\ Progress' /\ Placed'
  <2>1. failures' \in 0 .. MaxFailures
    BY <1>1, <1>8, TransferAssumption DEF Types
  <2>2. Types'
    BY <1>1, <1>2, <1>3, <1>8, <2>1, TypesKept DEF Types
  <2>3. Progress'
    <3> SUFFICES ASSUME NEW u \in Transfers, Receiving(u)' PROVE Excused(u)' \/ InPlace(u)'
      BY DEF Progress
    <3>1. CASE u # t
      BY <1>1, <1>2, <1>3, <1>8, <3>1, OthersProgress
    <3>2. CASE u = t
      <4>1. Receiving(t)
        BY <1>1, <1>2, <1>3, <1>8, <3>2, MovesKeeps DEF Receiving
      <4> QED BY <1>1, <1>8, <3>2, <4>1, BetweenFiles DEF Excused
    <3> QED BY <3>1, <3>2
  <2>4. Placed'
    BY <1>1, <1>2, <1>3, <1>8, PlacedKept
  <2> QED BY <2>2, <2>3, <2>4
<1> QED BY <1>5, <1>6, <1>7, <1>8 DEF TransferInv

\* What a chunk of t finds under its id, and what becomes of the record.
LEMMA WriteStep ==
    ASSUME TransferInv, NEW t \in Transfers, WriteChunk(t)
    PROVE  TransferInv'
<1> DEFINE f == NextFile(t)
           id == TaskAt(t).id
           k == TaskAt(t).at
           n == IF Size[f] = 0 THEN 0 ELSE 1
           last == k >= Size[f]
           r == [receivers[id] EXCEPT !.written = @ + n]
           whole == [r EXCEPT !.got = IF n = 0 THEN @ ELSE Append(@, <<f, k>>)]
           known == Current(t) /\ id \in DOMAIN receivers
           over == r.written > MaxFile \/ r.written > r.size + 1
           report == [by |-> t, file |-> f, got |-> whole.got, place |-> r.place]
<1>1. /\ Types /\ Progress /\ Registered /\ Placed /\ FileWhole
      /\ Running(t) /\ k > 0 /\ (IF last THEN GoesOn(t) ELSE GoesTo(t, k + 1))
      /\ mixed' = IF known /\ receivers[id].owner # t
                  THEN mixed \cup {t, receivers[id].owner} ELSE mixed
      /\ UNCHANGED <<meeting, met, used, targets, swept>>
  BY DEF TransferInv, WriteChunk
<1>2. /\ Begun(t) /\ id \in Ids /\ k \in Nat /\ f \in Files /\ Size[f] \in Nat
      /\ TaskAt(t) \in Sent /\ TaskAt(t).files # << >> /\ n \in {0, 1}
  BY <1>1, NextFileType DEF Running
<1>3. PICK w : Moves(t, w) /\ (~last => w.at = k + 1 /\ w.files = TaskAt(t).files /\ w.id = id)
  <2>1. CASE last
    BY <1>1, <1>2, <2>1, GoesOnMoves
  <2>2. CASE ~last
    <3> DEFINE v == [TaskAt(t) EXCEPT !.at = k + 1]
    <3>1. k + 1 \in Nat /\ GoesTo(t, k + 1)
      BY <1>1, <1>2, <2>2
    <3>2. Moves(t, v)
      BY <1>1, <1>2, <3>1, GoesToMoves
    <3>3. v.at = k + 1 /\ v.files = TaskAt(t).files /\ v.id = id
      BY <1>2 DEF Sent
    <3> QED BY <3>2, <3>3
  <2> QED BY <2>1, <2>2
<1>4. \/ ~known /\ UNCHANGED <<receivers, saved, failures, torn>>
      \/ known /\ receivers' = Without(id) /\ UNCHANGED <<saved, failures, torn>>
      \/ known /\ ~over /\ failures < MaxFailures /\ failures' = failures + 1
         /\ receivers' = KeptAfterFailure(t, r) /\ torn' = torn \cup {t} /\ saved' = saved
      \/ known /\ ~over /\ last /\ receivers' = Without(id) /\ saved' = saved \cup {report}
         /\ UNCHANGED <<failures, torn>>
      \/ known /\ ~over /\ ~last /\ receivers' = With(id, whole) /\ saved' = saved
         /\ UNCHANGED <<failures, torn>>
  BY DEF WriteChunk
<1>5. ASSUME known
      PROVE  /\ receivers[id] \in Received
             /\ r.owner = receivers[id].owner /\ r.place = receivers[id].place
             /\ r.got = receivers[id].got
             /\ ~over => r \in Received
             /\ ~over => whole \in Received
             /\ whole.owner = r.owner /\ whole.place = r.place
             /\ whole.got = IF n = 0 THEN r.got ELSE Append(r.got, <<f, k>>)
  <2>1. receivers[id] \in Received
    BY <1>1, <1>5 DEF Types
  <2>2. /\ r.owner = receivers[id].owner /\ r.place = receivers[id].place /\ r.size = receivers[id].size
        /\ r.got = receivers[id].got /\ r.written = receivers[id].written + n
    BY <2>1 DEF Received
  <2>3. r.written \in Nat
    BY <1>2, <2>1, <2>2, TransferAssumption DEF Received
  <2>4. ~over => r.written \in 0 .. MaxFile
    BY <2>3, TransferAssumption
  <2>5. ~over => r \in Received
    BY <2>1, <2>4 DEF Received
  <2> HIDE DEF r
  <2>6. /\ r \in [owner : Transfers, size : Nat, written : Nat, got : Seq(Files \X Nat),
                  place : {"chosen", "recv"}]
    BY <2>1, <2>3 DEF Received, r
  <2>7. /\ whole.owner = r.owner /\ whole.place = r.place
        /\ whole.got = IF n = 0 THEN r.got ELSE Append(r.got, <<f, k>>)
    BY <2>6
  <2>8. (IF n = 0 THEN r.got ELSE Append(r.got, <<f, k>>)) \in Seq(Files \X Nat)
    BY <1>2, <2>6
  <2>9. ~over => whole \in Received
    BY <2>5, <2>8 DEF Received
  <2> QED BY <2>1, <2>2, <2>5, <2>7, <2>9
<1>6. report.by = t /\ report.file = f /\ report.got = whole.got /\ report.place = r.place
  OBVIOUS
<1> HIDE DEF f, id, n, r, whole, over, report
<1>7. mixed \subseteq mixed' /\ mixed' \subseteq Transfers /\ torn \subseteq torn'
      /\ torn' \subseteq Transfers /\ failures' \in 0 .. MaxFailures
  <2>1. known => receivers[id].owner \in Transfers
    BY <1>5 DEF Received
  <2>2. mixed \subseteq mixed' /\ mixed' \subseteq Transfers
    BY <1>1, <2>1 DEF Types
  <2>3. torn \subseteq torn' /\ torn' \subseteq Transfers
    BY <1>1, <1>4 DEF Types
  <2>4. failures' \in 0 .. MaxFailures
    BY <1>1, <1>4, TransferAssumption DEF Types
  <2> QED BY <2>2, <2>3, <2>4
<1>8. \/ receivers' = receivers
      \/ known /\ receivers' = Without(id)
      \/ known /\ ~over /\ receivers' = With(id, r)
      \/ known /\ ~over /\ receivers' = With(id, whole)
  BY <1>4 DEF KeptAfterFailure, id
<1>9. /\ DOMAIN receivers' \subseteq DOMAIN receivers
      /\ DOMAIN receivers' \subseteq Ids /\ receivers' \in [DOMAIN receivers' -> Received]
      /\ \A i \in DOMAIN receivers' : i # id => receivers'[i] = receivers[i]
      /\ id \in DOMAIN receivers' => /\ receivers'[id].owner = receivers[id].owner
                                     /\ receivers'[id].place = receivers[id].place
  <2>1. CASE receivers' = receivers
    BY <1>1, <2>1 DEF Types
  <2>2. CASE known /\ receivers' = Without(id)
    BY <1>1, <2>2, WithoutFacts
  <2>3. ASSUME NEW x \in Received, known, receivers' = With(id, x), x.owner = receivers[id].owner,
               x.place = receivers[id].place
        PROVE  /\ DOMAIN receivers' \subseteq DOMAIN receivers
               /\ DOMAIN receivers' \subseteq Ids /\ receivers' \in [DOMAIN receivers' -> Received]
               /\ \A i \in DOMAIN receivers' : i # id => receivers'[i] = receivers[i]
               /\ id \in DOMAIN receivers' => /\ receivers'[id].owner = receivers[id].owner
                                              /\ receivers'[id].place = receivers[id].place
    <3>1. /\ DOMAIN With(id, x) = DOMAIN receivers \cup {id} /\ With(id, x)[id] = x
          /\ \A i \in DOMAIN receivers : i # id => With(id, x)[i] = receivers[i]
          /\ DOMAIN With(id, x) \subseteq Ids /\ With(id, x) \in [DOMAIN With(id, x) -> Received]
      BY <1>1, <1>2, WithFacts
    <3>2. DOMAIN receivers' = DOMAIN receivers
      BY <2>3, <3>1
    <3>3. receivers' \in [DOMAIN receivers' -> Received] /\ DOMAIN receivers' \subseteq Ids
      BY <2>3, <3>1, Zenon
    <3> QED BY <2>3, <3>1, <3>2, <3>3
  <2>4. CASE known /\ ~over /\ receivers' = With(id, r)
    BY <1>5, <2>3, <2>4
  <2>5. CASE known /\ ~over /\ receivers' = With(id, whole)
    BY <1>5, <2>3, <2>5
  <2> QED BY <1>8, <2>1, <2>2, <2>4, <2>5
<1>10. Types'
  BY <1>1, <1>2, <1>3, <1>7, <1>9, TypesKept
<1>11. Registered'
  BY <1>1, <1>2, <1>3, RegisteredKept
<1>12. Placed'
  BY <1>1, <1>2, <1>3, <1>9, PlacedKept
<1>13. ASSUME NEW u \in Transfers, u # t, Receiving(u)'
       PROVE  Excused(u)' \/ InPlace(u)'
  <2>1. id \in DOMAIN receivers' =>
               \/ receivers'[id].owner = t
               \/ receivers'[id].owner \in mixed'
               \/ id \in DOMAIN receivers /\ receivers'[id] = receivers[id]
    BY <1>1, <1>8, <1>9
  <2> QED BY <1>1, <1>2, <1>3, <1>7, <1>9, <1>13, <2>1, OthersProgress
<1>14. ASSUME known, receivers[id].owner = t
       PROVE  Excused(t) \/ (/\ f = NextFile(t) /\ (k <= Size[f] \/ k = 1)
                             /\ receivers[id].got = Prefix(f, k - 1))
  BY <1>1, <1>2, <1>14 DEF Progress, Receiving, InPlace, id, f
<1>15. ASSUME Receiving(t)' PROVE Excused(t)' \/ InPlace(t)'
  <2>1. /\ Current(t) /\ TaskAt(t)'.id = id /\ id \in DOMAIN receivers'
        /\ receivers'[id].owner = t /\ TaskAt(t)' = w
    BY <1>1, <1>2, <1>3, <1>15, MovesKeeps DEF Receiving, id, Moves
  <2>2. known /\ receivers[id].owner = t
    BY <1>9, <2>1
  <2>3. CASE ~Excused(t)' 
    <3>1. ~Excused(t) /\ t \notin mixed'
      BY <1>7, <2>3 DEF Excused
    <3>2. known /\ ~over /\ ~last /\ receivers' = With(id, whole)
      BY <1>1, <1>2, <1>4, <2>1, <2>2, <2>3, WithoutFacts DEF KeptAfterFailure, Excused, id
    <3>3. n = 1 /\ k <= Size[f] /\ k - 1 \in Nat /\ receivers[id].got = Prefix(f, k - 1)
      BY <1>1, <1>2, <1>14, <2>2, <3>1, <3>2 DEF n
    <3>4. receivers'[id].got = Append(Prefix(f, k - 1), <<f, k>>)
      <4>1. whole \in Received /\ whole.got = Append(receivers[id].got, <<f, k>>)
        BY <1>5, <3>2, <3>3
      <4>2. receivers'[id] = whole
        BY <1>1, <1>2, <3>2, <4>1, WithFacts
      <4> QED BY <3>3, <4>1, <4>2
    <3>5. receivers'[id].got = Prefix(f, k)
      BY <1>1, <1>2, <3>4, PrefixGrows
    <3>6. w.at = k + 1 /\ w.files = TaskAt(t).files /\ k + 1 <= Size[f] /\ (k + 1) - 1 = k
      BY <1>2, <1>3, <3>2
    <3>7. NextFile(t)' = f
      BY <2>1, <3>6 DEF NextFile, f
    <3>8. Size[NextFile(t)'] = Size[f]
      BY <3>7
    <3> QED BY <1>2, <2>1, <3>5, <3>6, <3>7, <3>8 DEF InPlace
  <2> QED BY <2>3
<1>16. Progress'
  BY <1>13, <1>15 DEF Progress
<1>17. FileWhole'
  <2> SUFFICES ASSUME NEW s \in saved'
               PROVE  /\ \/ s.by \in mixed' \/ (s.by[1] = "push" /\ s.by \in torn')
                         \/ s.got = Whole(s.file)
                      /\ s.by[1] = "push" \/ s.place = "chosen" \/ swept \/ s.by \in mixed'
    BY <1>1 DEF FileWhole
  <2>1. CASE s \in saved
    BY <1>1, <1>7, <2>1 DEF FileWhole
  <2>2. ASSUME known, ~over, last, s = report, receivers[id].owner # t
        PROVE  t \in mixed'
    BY <1>1, <2>2
  <2>3. ASSUME known, ~over, last, s = report, receivers[id].owner = t
        PROVE  /\ Excused(t) \/ s.got = Whole(f)
               /\ t[1] = "push" \/ s.place = "chosen" \/ swept
    <3>1. PlacedAt(id)
      BY <1>1, <2>3 DEF Placed
    <3>2. t[1] = "push" \/ s.place = "chosen" \/ swept
      BY <1>5, <1>6, <2>3, <3>1, TransferPairs DEF PlacedAt, Directions
    <3>3. ASSUME ~Excused(t) PROVE s.got = Whole(f)
      <4>1. k <= Size[f] \/ k = 1
        BY <1>14, <2>3, <3>3
      <4>2. receivers[id].got = Prefix(f, k - 1)
        BY <1>14, <2>3, <3>3
      <4>3. CASE Size[f] = 0
        <5>1. n = 0 /\ k - 1 = 0
          BY <1>1, <1>2, <4>1, <4>3 DEF n
        <5>2. s.got = Prefix(f, 0)
          BY <1>5, <1>6, <2>3, <4>2, <5>1
        <5> QED BY <4>3, <5>2 DEF Prefix, Whole
      <4>4. CASE Size[f] # 0
        <5>1. n = 1 /\ k = Size[f] /\ k - 1 \in Nat
          BY <1>1, <1>2, <2>3, <4>1, <4>4 DEF n
        <5>2. s.got = Append(Prefix(f, k - 1), <<f, k>>)
          BY <1>5, <1>6, <2>3, <4>2, <5>1
        <5>3. Append(Prefix(f, k - 1), <<f, k>>) = Prefix(f, k)
          BY <1>1, <1>2, PrefixGrows
        <5>4. s.got = Prefix(f, Size[f])
          BY <5>1, <5>2, <5>3
        <5> QED BY <5>4 DEF Prefix, Whole
      <4> QED BY <4>3, <4>4
    <3> QED BY <3>2, <3>3
  <2>4. s \in saved \/ (known /\ ~over /\ last /\ s = report)
    BY <1>4
  <2>5. CASE known /\ ~over /\ last /\ s = report
    BY <1>6, <1>7, <2>2, <2>3, <2>5 DEF Excused
  <2> QED BY <2>1, <2>4, <2>5
<1> QED BY <1>10, <1>11, <1>12, <1>16, <1>17 DEF TransferInv

----------------------------------------------------------------------------
(* Sessions and requests *)

\* A session that starts or ends makes no transfer receive again.
LEMMA SessionsKeep ==
    ASSUME TransferInv, UNCHANGED <<tasks, receivers, saved, torn, mixed>>,
           swept => swept',
           \A u \in Transfers : Begun(u) /\ Current(u)' => Current(u)
    PROVE  Progress' /\ Placed' /\ FileWhole'
<1>1. Types /\ Progress /\ Placed /\ FileWhole
  BY DEF TransferInv
<1>2. ASSUME NEW u \in Transfers, Receiving(u)'
      PROVE  Excused(u)' \/ InPlace(u)'
  <2>1. TaskAt(u)' = TaskAt(u) /\ Receiving(u)
    BY <1>2 DEF Receiving, Begun, TaskAt
  <2>2. Excused(u) \/ InPlace(u)
    BY <1>1, <2>1 DEF Progress
  <2> QED BY <2>1, <2>2 DEF Excused, InPlace, NextFile
<1>3. Progress'
  BY <1>2 DEF Progress
<1>4. Placed'
  BY <1>1 DEF Placed, PlacedAt, Begun
<1>5. FileWhole'
  BY <1>1 DEF FileWhole
<1> QED BY <1>3, <1>4, <1>5

LEMMA SessionOf ==
    ASSUME Types, NEW u \in Transfers, Begun(u)
    PROVE  /\ u[1] \in Directions /\ TaskAt(u).session \in 1 .. met[u[1]]
           /\ met[u[1]] \in 0 .. MaxMeetings /\ meeting[u[1]] \in 0 .. MaxMeetings
BY TransferPairs DEF Types, Begun, TaskAt

LEMMA MeetsStep ==
    ASSUME TransferInv, NEW d \in Directions, Meets(d)
    PROVE  TransferInv'
<1>1. /\ Types /\ Registered /\ met[d] \in Nat /\ met[d] < MaxMeetings
      /\ met' = [met EXCEPT ![d] = @ + 1] /\ meeting' = [meeting EXCEPT ![d] = met[d] + 1]
      /\ UNCHANGED <<tasks, used, receivers, targets, saved, failures, torn, mixed, swept>>
  BY DEF TransferInv, Meets, Types
<1>2. ASSUME NEW u \in Transfers, Begun(u), Current(u)'
      PROVE  Current(u)
  <2>1. TaskAt(u)' = TaskAt(u) /\ TaskAt(u).session \in 1 .. met[u[1]] /\ u[1] \in Directions
    BY <1>1, <1>2, SessionOf DEF TaskAt
  <2>2. meeting'[u[1]] = IF u[1] = d THEN met[d] + 1 ELSE meeting[u[1]]
    BY <1>1, <2>1 DEF Types
  <2>3. u[1] # d
    BY <1>1, <1>2, <2>1, <2>2 DEF Current
  <2> QED BY <1>2, <2>1, <2>2, <2>3 DEF Current
<1>3. Types'
  <2>1. /\ meeting' \in [Directions -> 0 .. MaxMeetings] /\ met' \in [Directions -> 0 .. MaxMeetings]
        /\ \A e \in Directions : meeting'[e] <= met'[e] /\ met[e] <= met'[e]
    BY <1>1, TransferAssumption DEF Types
  <2>2. \A e \in Directions : \A i \in DOMAIN tasks[e] : tasks[e][i].session \in 1 .. met'[e]
    BY <1>1, <2>1, TransferAssumption DEF Types
  <2> QED BY <1>1, <2>1, <2>2 DEF Types
<1>4. Registered'
  BY <1>1, <1>2 DEF Registered, Begun, TaskAt
<1> QED BY <1>1, <1>2, <1>3, <1>4, SessionsKeep DEF TransferInv

LEMMA PartsStep ==
    ASSUME TransferInv, NEW d \in Directions, Parts(d)
    PROVE  TransferInv'
<1>1. /\ Types /\ Registered /\ meeting' = [meeting EXCEPT ![d] = 0]
      /\ \/ targets' = {} /\ swept' = (swept \/ (d = "push" /\ meeting["pull"] # 0))
         \/ UNCHANGED <<targets, swept>>
      /\ UNCHANGED <<met, tasks, used, receivers, saved, failures, torn, mixed>>
  BY DEF TransferInv, Parts
<1>2. ASSUME NEW u \in Transfers, Begun(u), Current(u)'
      PROVE  Current(u) /\ u[1] # d /\ meeting[u[1]] # 0
  <2>1. TaskAt(u)' = TaskAt(u) /\ TaskAt(u).session \in 1 .. met[u[1]] /\ u[1] \in Directions
    BY <1>1, <1>2, SessionOf DEF TaskAt
  <2>2. meeting'[u[1]] = IF u[1] = d THEN 0 ELSE meeting[u[1]]
    BY <1>1, <2>1 DEF Types
  <2>3. meeting'[u[1]] = TaskAt(u).session /\ TaskAt(u).session # 0
    BY <1>2, <2>1 DEF Current
  <2> QED BY <2>2, <2>3 DEF Current
<1>3. swept' \in BOOLEAN /\ (swept => swept')
  BY <1>1 DEF Types
<1>4. Types'
  <2>1. /\ meeting' \in [Directions -> 0 .. MaxMeetings]
        /\ \A e \in Directions : meeting'[e] <= met'[e]
    BY <1>1, TransferAssumption DEF Types
  <2>2. targets' \subseteq Ids
    BY <1>1 DEF Types
  <2> QED BY <1>1, <1>3, <2>1, <2>2 DEF Types
<1>5. Registered'
  <2> SUFFICES ASSUME NEW u \in Transfers, u[1] = "pull", Begun(u)', Current(u)'
               PROVE  swept' \/ TaskAt(u)'.id \in targets'
    BY DEF Registered
  <2>1. Begun(u) /\ TaskAt(u)' = TaskAt(u)
    BY <1>1 DEF Begun, TaskAt
  <2>2. Current(u) /\ d # "pull" /\ meeting["pull"] # 0
    BY <1>2, <2>1
  <2>3. swept \/ TaskAt(u).id \in targets
    BY <1>1, <2>1, <2>2 DEF Registered
  <2>4. CASE UNCHANGED <<targets, swept>>
    BY <2>1, <2>3, <2>4
  <2>5. CASE swept' = (swept \/ (d = "push" /\ meeting["pull"] # 0))
    <3>1. d = "push" /\ meeting["pull"] # 0
      BY <2>2 DEF Directions
    <3> QED BY <2>5, <3>1, Zenon
  <2> QED BY <1>1, <2>4, <2>5
<1>6. \A u \in Transfers : Begun(u) /\ Current(u)' => Current(u)
  BY <1>2
<1>7. Progress' /\ Placed' /\ FileWhole'
  BY <1>1, <1>3, <1>6, SessionsKeep
<1> QED BY <1>4, <1>5, <1>7 DEF TransferInv

\* What is counted on the other side for a session is among what was asked for.
LEMMA NextIdType ==
    ASSUME Types, NEW d \in Directions, Len(tasks[d]) < MaxTransfers
    PROVE  NextId(d) \in Ids
<1> DEFINE S == {i \in DOMAIN tasks[d] : tasks[d][i].session = meeting[d]}
<1>1. Len(tasks[d]) \in Nat /\ DOMAIN tasks[d] = 1 .. Len(tasks[d])
  BY DEF Types
<1>2. IsFiniteSet(DOMAIN tasks[d]) /\ Cardinality(DOMAIN tasks[d]) = Len(tasks[d])
  BY <1>1, FS_Interval
<1>3. IsFiniteSet(S) /\ Cardinality(S) <= Len(tasks[d]) /\ Cardinality(S) \in Nat
  <2>1. S \subseteq DOMAIN tasks[d]
    OBVIOUS
  <2> HIDE DEF S
  <2> QED BY <1>2, <2>1, FS_Subset, FS_CardinalityType
<1> HIDE DEF S
<1>4. NextId(d) = IF d = "pull" THEN Len(tasks[d]) + 1 ELSE Cardinality(S) + 1
  BY DEF NextId, S
<1> QED BY <1>1, <1>3, <1>4, TransferAssumption DEF Ids

LEMMA AskStep ==
    ASSUME TransferInv, NEW d \in Directions, Ask(d)
    PROVE  TransferInv'
<1> DEFINE q == tasks[d]
<1> PICK m : m = Len(q) + 1
  OBVIOUS
<1> DEFINE new == <<d, m>>
<1>1. /\ Types /\ Progress /\ Registered /\ Placed /\ FileWhole
      /\ meeting[d] # 0 /\ Len(q) < MaxTransfers
      /\ targets' = (IF d = "pull" THEN targets \cup {NextId(d)} ELSE targets)
      /\ UNCHANGED <<meeting, met, receivers, saved, failures, torn, mixed, swept>>
  BY DEF TransferInv, Ask
<1>2. PICK files \in Seq(Files) : tasks' = [tasks EXCEPT ![d] = Append(q, NewTask(d, files))]
  <2>1. PICK f, g \in Files \ used :
          tasks' = [tasks EXCEPT ![d] = Append(@, NewTask(d, IF f = g THEN <<f>> ELSE <<f, g>>))]
    BY DEF Ask
  <2>2. (IF f = g THEN <<f>> ELSE <<f, g>>) \in Seq(Files)
    OBVIOUS
  <2> QED BY <1>1, <2>1, <2>2 DEF Types
<1> DEFINE w == NewTask(d, files)
<1>3. /\ w \in Sent /\ w.session = meeting[d] /\ w.id = NextId(d) /\ w.session \in 1 .. met[d]
  <2>1. meeting[d] \in 1 .. met[d] /\ meeting[d] \in Nat /\ NextId(d) \in Ids
    BY <1>1, NextIdType, TransferAssumption DEF Types
  <2>2. (Len(files) > 1) \in BOOLEAN
    OBVIOUS
  <2> QED BY <2>1, <2>2 DEF NewTask, Sent
<1> HIDE DEF w
<1>4. /\ q \in Seq(Sent) /\ Len(q) \in Nat /\ m \in 1 .. MaxTransfers /\ new \in Transfers
  BY <1>1, TransferPairs, TransferAssumption DEF Types
<1>5. \A e \in Directions : tasks'[e] = IF e = d THEN Append(q, w) ELSE tasks[e]
  BY <1>1, <1>2 DEF Types, w
<1>6. ASSUME NEW u \in Transfers
      PROVE  /\ Begun(u)' <=> Begun(u) \/ u = new
             /\ Begun(u) => u # new /\ TaskAt(u)' = TaskAt(u)
             /\ TaskAt(new)' = w
  <2>1. u[1] \in Directions /\ u = <<u[1], u[2]>> /\ new[1] = d /\ new[2] = m
    BY TransferPairs
  <2>2. /\ DOMAIN q = 1 .. Len(q) /\ DOMAIN Append(q, w) = 1 .. m
        /\ \A i \in 1 .. Len(q) : Append(q, w)[i] = q[i]
        /\ Append(q, w)[m] = w
    BY <1>3, <1>4
  <2> HIDE DEF new
  <2>3. u = new <=> u[1] = d /\ u[2] = m
    BY <2>1 DEF new
  <2>4. TaskAt(new)' = w
    BY <1>5, <2>1, <2>2 DEF TaskAt
  <2>5. CASE u[1] = d
    <3>1. tasks[u[1]] = q /\ tasks'[u[1]] = Append(q, w) /\ Len(q) + 1 = m
      BY <1>4, <1>5, <2>5
    <3>2. Begun(u) <=> u[2] \in 1 .. Len(q)
      BY <2>2, <3>1 DEF Begun
    <3>3. Begun(u)' <=> u[2] \in 1 .. m
      BY <2>2, <3>1 DEF Begun
    <3>4. u[2] \in 1 .. Len(q) => u[2] # m /\ TaskAt(u)' = TaskAt(u)
      BY <1>4, <2>2, <3>1 DEF TaskAt
    <3>5. u[2] \in 1 .. m <=> u[2] \in 1 .. Len(q) \/ u[2] = m
      BY <1>4, <3>1
    <3> QED BY <2>3, <2>4, <2>5, <3>2, <3>3, <3>4, <3>5
  <2>6. CASE u[1] # d
    BY <1>5, <2>1, <2>3, <2>4, <2>6 DEF Begun, TaskAt
  <2> QED BY <2>5, <2>6
<1> HIDE DEF q, new
<1>7. Types'
  <2>1. tasks' \in [Directions -> Seq(Sent)]
    BY <1>1, <1>2, <1>3, <1>4 DEF Types, w, q
  <2>2. ASSUME NEW e \in Directions
        PROVE  /\ Len(tasks'[e]) <= MaxTransfers
               /\ \A i \in DOMAIN tasks'[e] : tasks'[e][i].session \in 1 .. met[e]
    <3>1. CASE e = d
      <4>1. tasks'[e] = Append(q, w) /\ Len(Append(q, w)) = m /\ m <= MaxTransfers
        <5>1. m = Len(q) + 1 /\ m <= MaxTransfers
          BY <1>4, TransferAssumption
        <5>2. tasks'[e] = Append(q, w)
          BY <1>5, <3>1
        <5> QED BY <1>3, <1>4, <5>1, <5>2
      <4>2. \A i \in DOMAIN Append(q, w) : (i \in DOMAIN q /\ Append(q, w)[i] = q[i]) \/ Append(q, w)[i] = w
        BY <1>3, <1>4
      <4>3. \A i \in DOMAIN q : q[i].session \in 1 .. met[d]
        BY <1>1 DEF Types, q
      <4> QED BY <1>3, <3>1, <4>1, <4>2, <4>3
    <3>2. CASE e # d
      BY <1>1, <1>5, <2>2, <3>2 DEF Types
    <3> QED BY <3>1, <3>2
  <2>3. used' \subseteq Files /\ targets' \subseteq Ids
    <3>1. used' \subseteq Files
      BY <1>1 DEF Ask, Types
    <3>2. NextId(d) \in Ids
      BY <1>3 DEF Sent
    <3> QED BY <1>1, <3>1, <3>2 DEF Types
  <2> QED BY <1>1, <2>1, <2>2, <2>3 DEF Types
<1>8. ASSUME NEW u \in Transfers, Receiving(u)'
      PROVE  Excused(u)' \/ InPlace(u)'
  <2>1. \A i \in DOMAIN receivers : receivers[i].owner \in Transfers /\ Begun(receivers[i].owner)
    BY <1>1 DEF Types, Received, Placed, PlacedAt
  <2>2. /\ TaskAt(u)'.id \in DOMAIN receivers /\ receivers[TaskAt(u)'.id].owner = u
        /\ Current(u)'
    BY <1>1, <1>8 DEF Receiving
  <2>3. Begun(u) /\ TaskAt(u)' = TaskAt(u)
    BY <1>6, <2>1, <2>2
  <2>4. Receiving(u)
    BY <1>1, <2>2, <2>3 DEF Receiving, Current
  <2>5. Excused(u) \/ InPlace(u)
    BY <1>1, <2>4 DEF Progress
  <2> QED BY <1>1, <2>3, <2>5 DEF Excused, InPlace, NextFile
<1>9. Registered'
  <2> SUFFICES ASSUME NEW u \in Transfers, u[1] = "pull", Begun(u)', Current(u)'
               PROVE  swept' \/ TaskAt(u)'.id \in targets'
    BY DEF Registered
  <2>1. CASE Begun(u)
    <3>1. TaskAt(u)' = TaskAt(u) /\ Current(u)
      BY <1>1, <1>6, <2>1 DEF Current
    <3>2. swept \/ TaskAt(u).id \in targets
      BY <1>1, <2>1, <3>1 DEF Registered
    <3> QED BY <1>1, <3>1, <3>2
  <2>2. CASE u = new
    <3>1. d = "pull" /\ TaskAt(u)' = w
      BY <1>6, <2>2 DEF new
    <3> QED BY <1>1, <1>3, <3>1
  <2> QED BY <1>6, <2>1, <2>2
<1>10. Placed'
  <2> SUFFICES ASSUME NEW i \in DOMAIN receivers PROVE PlacedAt(i)'
    BY <1>1 DEF Placed
  <2>1. receivers[i].owner \in Transfers /\ PlacedAt(i)
    BY <1>1 DEF Types, Received, Placed
  <2>2. PICK o \in Transfers : o = receivers[i].owner /\ Begun(o)
    BY <2>1 DEF PlacedAt
  <2>3. receivers' = receivers /\ swept' = swept /\ Begun(o)'
    BY <1>1, <1>6, <2>2
  <2> QED BY <2>1, <2>2, <2>3 DEF PlacedAt, Begun
<1>11. FileWhole'
  BY <1>1 DEF FileWhole
<1> QED BY <1>7, <1>8, <1>9, <1>10, <1>11 DEF TransferInv, Progress

----------------------------------------------------------------------------
(* What a client receives, for all sizes and any number of transfers *)

LEMMA TransferInitially == TransferInit => TransferInv
<1> SUFFICES ASSUME TransferInit PROVE TransferInv
  OBVIOUS
<1>1. /\ meeting = [d \in Directions |-> 0] /\ met = [d \in Directions |-> 0]
      /\ tasks = [d \in Directions |-> << >>] /\ used = {} /\ receivers = << >>
      /\ targets = {} /\ saved = {} /\ failures = 0 /\ torn = {} /\ mixed = {} /\ swept = FALSE
  BY DEF TransferInit
<1>2. DOMAIN receivers = {}
  BY <1>1
<1>3. \A t \in Transfers : ~Begun(t)
  BY <1>1, TransferPairs DEF Begun
<1>4. Types
  <2>1. /\ meeting \in [Directions -> 0 .. MaxMeetings] /\ met \in [Directions -> 0 .. MaxMeetings]
        /\ \A d \in Directions : meeting[d] <= met[d]
    BY <1>1, TransferAssumption
  <2>2. /\ tasks \in [Directions -> Seq(Sent)]
        /\ \A d \in Directions : Len(tasks[d]) <= MaxTransfers /\ DOMAIN tasks[d] = {}
    BY <1>1, TransferAssumption
  <2>3. receivers \in [DOMAIN receivers -> Received]
    BY <1>1, <1>2
  <2>4. failures \in 0 .. MaxFailures
    BY <1>1, TransferAssumption
  <2>5. swept \in BOOLEAN
    BY <1>1, Zenon
  <2>6. /\ \A d \in Directions : /\ Len(tasks[d]) <= MaxTransfers
                                 /\ \A i \in DOMAIN tasks[d] : tasks[d][i].session \in 1 .. met[d]
    BY <2>2
  <2>7. used \subseteq Files /\ targets \subseteq Ids /\ DOMAIN receivers \subseteq Ids
        /\ torn \subseteq Transfers /\ mixed \subseteq Transfers
    BY <1>1, <1>2
  <2> QED BY <2>1, <2>2, <2>3, <2>4, <2>6, <2>7, <2>5 DEF Types
<1>5. Progress /\ Registered /\ Placed /\ FileWhole
  BY <1>1, <1>2, <1>3 DEF Progress, Receiving, Registered, Placed, FileWhole
<1> QED BY <1>4, <1>5 DEF TransferInv

LEMMA TransferStuttering ==
    ASSUME TransferInv, UNCHANGED transferVars
    PROVE  TransferInv'
BY DEF transferVars, TransferInv, Types, Progress, Receiving, Begun, Current, TaskAt, Excused, InPlace,
       NextFile, Registered, Placed, PlacedAt, FileWhole

LEMMA TransferKept ==
    ASSUME TransferInv, [TransferNext]_transferVars
    PROVE  TransferInv'
<1>1. ASSUME NEW d \in Directions, Meets(d) \/ Parts(d) \/ Ask(d) PROVE TransferInv'
  BY <1>1, MeetsStep, PartsStep, AskStep
<1>2. ASSUME NEW t \in Transfers, SkipFile(t) \/ OpenFile(t) \/ WriteChunk(t) PROVE TransferInv'
  BY <1>2, SkipStep, OpenStep, WriteStep
<1>3. CASE UNCHANGED transferVars
  BY <1>3, TransferStuttering
<1> QED BY <1>1, <1>2, <1>3 DEF TransferNext

\* What the invariant says of the transfers holds in every state.
THEOREM TransferHolds == TransferSpec => []TransferInv
<1>1. TransferInv /\ [TransferNext]_transferVars => TransferInv'
  BY TransferKept
<1> QED BY <1>1, TransferInitially, PTL DEF TransferSpec

\* A file reported complete holds just what its sender sent, whatever the sizes
\* and however transfers, sessions and failures interleave, but for the transfers
\* the property names; and a pull is saved where the user wanted it (transfer.rs).
THEOREM FilesHold == TransferSpec => []FileWhole
<1>1. TransferInv => FileWhole
  BY DEF TransferInv
<1> QED BY <1>1, TransferHolds, PTL

LEMMA TransferTypeParts == TransferInv => TransferTypeOK
<1> SUFFICES ASSUME Types PROVE TransferTypeOK
  BY DEF TransferInv
<1>1. ASSUME NEW d \in Directions, NEW i \in DOMAIN tasks[d]
      PROVE  /\ i <= MaxTransfers /\ tasks[d][i].session \in 1 .. met[d]
             /\ tasks[d][i].id \in Ids /\ Range(tasks[d][i].files) \subseteq Files
  <2>1. i <= MaxTransfers /\ tasks[d][i].session \in 1 .. met[d] /\ tasks[d][i] \in Sent
    BY <1>1, TransferAssumption DEF Types
  <2>2. tasks[d][i].id \in Ids /\ tasks[d][i].files \in Seq(Files)
    BY <2>1 DEF Sent
  <2> QED BY <2>1, <2>2 DEF Range
<1>2. ASSUME NEW id \in DOMAIN receivers
      PROVE  /\ receivers[id].owner \in Transfers /\ receivers[id].place \in {"chosen", "recv"}
             /\ receivers[id].written <= MaxFile
  BY <1>2, TransferAssumption DEF Types, Received
<1> QED BY <1>1, <1>2 DEF Types, TransferTypeOK

\* What a client sends and receives stays well formed: what is written of a file
\* never passes MAX_FILE, and every record is under an id that was given out.
THEOREM TransferTypes == TransferSpec => []TransferTypeOK
BY TransferTypeParts, TransferHolds, PTL
============================================================================
