---------------------------- MODULE StoresProofs ----------------------------
(***************************************************************************)
(* Proofs about the server's persistent state.                             *)
(*                                                                         *)
(* Registry, for every set of endpoints, owners, handlers and spawned      *)
(* tasks: its types, that nothing is online before it was heard of, and    *)
(* that a settled removal stays.                                           *)
(*                                                                         *)
(* Accounts, for every set of accounts, names, requests and changes asked  *)
(* for: names stay unique, a server that is up has one superadmin, a start *)
(* keeps the accounts there are, the old credential is imported once, and  *)
(* no row is written in part.                                              *)
(***************************************************************************)
EXTENDS MC_Stores, TLAPS

----------------------------------------------------------------------------
(* The terminal registry *)

LEMMA RegRecords ==
    /\ NoEntry \in Entry /\ NoRow \in Row /\ NoJob \in Job /\ AtRest \in Doing
BY DEF NoEntry, NoRow, NoJob, AtRest, Entry, Row, Job, Doing, Owner

LEMMA EpochType == Epoch \in Nat /\ Epoch > OnlineTimeout
BY RegistryAssumption DEF Epoch

\* A spawned task is one of the tasks.
LEMMA SpawnType ==
    ASSUME RegTypeOK, NEW job \in Job, Spawn(job)
    PROVE  jobs' \in [Jobs -> Job]
BY DEF Spawn, RegTypeOK

\* What is put in the map is an endpoint.
Registering == \A h \in Handlers : doing[h].at = "insert" => doing[h].id \in Endpoints

RegInv == RegTypeOK /\ Registering

\* Only Upsert makes a handler one that puts an endpoint in the map.
LEMMA RegisteringStep ==
    ASSUME RegInv, [RegNext]_regVars
    PROVE  Registering'
<1> USE DEF RegInv, RegTypeOK, Registering
<1>1. ASSUME NEW h \in Handlers, NEW e \in Endpoints,
             Remove(h, e) \/ \E o \in Owner : Upsert(h, e, o)
      PROVE  Registering'
  <2>1. CASE Remove(h, e)
    BY <2>1 DEF Remove
  <2>2. ASSUME NEW o \in Owner, Upsert(h, e, o) PROVE Registering'
    BY <2>2 DEF Upsert
  <2> QED BY <1>1, <2>1, <2>2
<1>2. ASSUME NEW h \in Handlers, Inserted(h) \/ Removed(h) PROVE Registering'
  BY <1>2 DEF Inserted, Removed, AtRest
<1>3. ASSUME NEW e \in Endpoints, Touch(e) PROVE Registering'
  BY <1>3 DEF Touch
<1>4. ASSUME NEW j \in Jobs, SaveLands(j) \/ DeleteLands(j) \/ JobFails(j)
      PROVE  Registering'
  BY <1>4 DEF SaveLands, DeleteLands, JobFails
<1>5. CASE Shutdown
  BY <1>5 DEF Shutdown, AtRest
<1>6. CASE (\E ok \in BOOLEAN : LoadFromDb(ok)) \/ Tick \/ UNCHANGED regVars
  BY <1>6 DEF LoadFromDb, Tick, regVars
<1> QED BY <1>1, <1>2, <1>3, <1>4, <1>5, <1>6 DEF RegNext

\* Every action keeps the variables in their types.
LEMMA RegTypeStep ==
    ASSUME RegInv, [RegNext]_regVars
    PROVE  RegTypeOK'
<1> USE RegRecords, EpochType, RegistryAssumption DEF RegInv
<1>1. clock \in Nat
  BY DEF RegTypeOK
<1>2. ASSUME NEW h \in Handlers, NEW e \in Endpoints, Remove(h, e) PROVE RegTypeOK'
  <2>1. [at |-> "remove", id |-> e, owner |-> NoOwner, seen |-> 0] \in Doing
    BY DEF Doing, Owner
  <2>2. [kind |-> "delete", id |-> e, owner |-> NoOwner, seen |-> 0] \in Job
    BY DEF Job, Owner
  <2>3. jobs' \in [Jobs -> Job]
    BY <1>2, <2>2, SpawnType DEF Remove
  <2> QED BY <1>2, <2>1, <2>3 DEF Remove, RegTypeOK
<1>3. ASSUME NEW h \in Handlers, NEW e \in Endpoints, NEW o \in Owner, Upsert(h, e, o)
      PROVE  RegTypeOK'
  <2>1. [at |-> "insert", id |-> e, owner |-> o, seen |-> clock] \in Doing
    BY <1>1 DEF Doing
  <2>2. [kind |-> "save", id |-> e, owner |-> o, seen |-> clock] \in Job
    BY <1>1 DEF Job
  <2>3. jobs' \in [Jobs -> Job]
    BY <1>3, <2>2, SpawnType DEF Upsert
  <2> QED BY <1>3, <2>1, <2>3 DEF Upsert, RegTypeOK
<1>4. ASSUME NEW h \in Handlers, Inserted(h) PROVE RegTypeOK'
  <2>1. doing[h] \in Doing
    BY DEF RegTypeOK
  <2>2. [there |-> TRUE, owner |-> doing[h].owner, seen |-> doing[h].seen, password |-> TRUE]
           \in Entry
    BY <2>1 DEF Doing, Entry
  <2>3. entries' \in [Endpoints -> Entry]
    BY <1>4, <2>2 DEF Inserted, RegTypeOK
  <2>4. heard' \subseteq Endpoints
    BY <1>4 DEF Inserted, RegTypeOK, Registering
  <2> QED BY <1>4, <2>3, <2>4 DEF Inserted, RegTypeOK
<1>5. ASSUME NEW h \in Handlers, Removed(h) PROVE RegTypeOK'
  BY <1>5 DEF Removed, RegTypeOK
<1>6. ASSUME NEW e \in Endpoints, Touch(e) PROVE RegTypeOK'
  <2>1. [entries[e] EXCEPT !.seen = clock] \in Entry
    BY <1>1 DEF RegTypeOK, Entry
  <2>2. entries' \in [Endpoints -> Entry]
    BY <1>6, <2>1 DEF Touch, RegTypeOK
  <2> QED BY <1>6, <2>2 DEF Touch, RegTypeOK
<1>7. ASSUME NEW j \in Jobs, SaveLands(j) PROVE RegTypeOK'
  <2>1. jobs[j] \in Job
    BY DEF RegTypeOK
  <2>2. [there |-> TRUE, owner |-> jobs[j].owner, seen |-> jobs[j].seen] \in Row
    BY <2>1 DEF Job, Row
  <2>3. table' \in [Endpoints -> Row]
    BY <1>7, <2>2 DEF SaveLands, RegTypeOK
  <2> QED BY <1>7, <2>3 DEF SaveLands, RegTypeOK
<1>8. ASSUME NEW j \in Jobs, DeleteLands(j) \/ JobFails(j) PROVE RegTypeOK'
  BY <1>8 DEF DeleteLands, JobFails, RegTypeOK
<1>9. CASE Shutdown
  <2>1. serving' \in BOOLEAN
    BY <1>9, Zenon DEF Shutdown
  <2>2. restarts' \in 0 .. MaxRestarts
    BY <1>9 DEF Shutdown, RegTypeOK
  <2> QED BY <1>9, <2>1, <2>2 DEF Shutdown, RegTypeOK
<1>10. ASSUME NEW ok \in BOOLEAN, LoadFromDb(ok) PROVE RegTypeOK'
  <2>1. ASSUME NEW e \in Endpoints PROVE Restored(e) \in Entry
    <3>1. table[e] \in Row /\ clock - OnlineTimeout - 1 \in Nat
      BY DEF RegTypeOK, Epoch
    <3>2. Earlier(table[e].seen, clock - OnlineTimeout - 1) \in Nat
      BY <3>1 DEF Earlier, Row
    <3> QED BY <3>1, <3>2 DEF Restored, Entry, Row
  <2>2. entries' \in [Endpoints -> Entry]
    BY <1>10, <2>1 DEF LoadFromDb, RegTypeOK
  <2>3. serving' \in BOOLEAN
    BY <1>10, Zenon DEF LoadFromDb
  <2> QED BY <1>10, <2>2, <2>3 DEF LoadFromDb, RegTypeOK
<1>11. CASE Tick
  BY <1>11 DEF Tick, RegTypeOK
<1>12. CASE UNCHANGED regVars
  BY <1>12 DEF regVars, RegTypeOK
<1> QED
  BY <1>2, <1>3, <1>4, <1>5, <1>6, <1>7, <1>8, <1>9, <1>10, <1>11, <1>12 DEF RegNext

LEMMA RegInvInit == RegInit => RegInv
<1> USE RegRecords, EpochType, RegistryAssumption
<1> SUFFICES ASSUME RegInit PROVE RegInv
  OBVIOUS
<1>1. serving \in BOOLEAN
  BY Zenon DEF RegInit
<1>2. RegTypeOK
  BY <1>1 DEF RegInit, RegTypeOK
<1>3. Registering
  BY DEF RegInit, Registering, AtRest
<1> QED BY <1>2, <1>3 DEF RegInv

LEMMA RegInvStep == RegInv /\ [RegNext]_regVars => RegInv'
BY RegTypeStep, RegisteringStep DEF RegInv

\* Every variable of the registry keeps its type (registry.rs).
THEOREM RegTypes == RegSpec => []RegTypeOK
<1>1. RegInv => RegTypeOK
  BY DEF RegInv
<1> QED BY <1>1, RegInvInit, RegInvStep, PTL DEF RegSpec

----------------------------------------------------------------------------
(* Offline until heard *)

\* An entry restored from the table, and not refreshed since, was last seen so
\* long ago that no time of the clock brings it back.
LEMMA OfflineStep ==
    ASSUME RegTypeOK, OfflineUntilHeard, [RegNext]_regVars
    PROVE  OfflineUntilHeard'
<1> USE RegistryAssumption, EpochType
<1>1. /\ clock \in Nat /\ OnlineTimeout \in Nat
      /\ \A e \in Endpoints : entries[e] \in Entry /\ entries[e].seen \in Nat
  BY DEF RegTypeOK, Entry
<1>2. CASE UNCHANGED <<entries, heard>> /\ (clock' = clock \/ clock' = clock + 1)
  <2>1. ASSUME NEW e \in Endpoints, Online(e)' PROVE Online(e)
    BY <1>1, <1>2, <2>1 DEF Online
  <2> QED BY <1>2, <2>1 DEF OfflineUntilHeard
<1>3. ASSUME NEW h \in Handlers, Inserted(h) PROVE OfflineUntilHeard'
  <2>1. ASSUME NEW e \in Endpoints, Online(e)', e # doing[h].id PROVE Online(e)
    BY <1>3, <2>1, <1>1 DEF Online, Inserted, RegTypeOK
  <2> QED BY <1>3, <2>1 DEF OfflineUntilHeard, Inserted
<1>4. ASSUME NEW h \in Handlers, Removed(h) PROVE OfflineUntilHeard'
  <2>1. ASSUME NEW e \in Endpoints, Online(e)' PROVE Online(e)
    BY <1>4, <2>1, <1>1 DEF Online, Removed, RegTypeOK, NoEntry
  <2> QED BY <1>4, <2>1 DEF OfflineUntilHeard, Removed
<1>5. ASSUME NEW e \in Endpoints, Touch(e) PROVE OfflineUntilHeard'
  <2>1. ASSUME NEW d \in Endpoints, Online(d)', d # e PROVE Online(d)
    BY <1>5, <2>1, <1>1 DEF Online, Touch, RegTypeOK
  <2> QED BY <1>5, <2>1 DEF OfflineUntilHeard, Touch
<1>6. CASE Shutdown
  BY <1>6 DEF Shutdown, OfflineUntilHeard, Online, NoEntry
<1>7. ASSUME NEW ok \in BOOLEAN, LoadFromDb(ok) PROVE OfflineUntilHeard'
  <2>1. CASE ok
    <3>1. ASSUME NEW e \in Endpoints PROVE ~Online(e)'
      <4>1. table[e].seen \in Nat /\ entries'[e] = Restored(e) /\ clock' = clock
        BY <1>7, <2>1 DEF LoadFromDb, RegTypeOK, Row
      <4>2. CASE table[e].there
        BY <4>1, <4>2, <1>1 DEF Restored, Earlier, Online
      <4>3. CASE ~table[e].there
        BY <4>1, <4>3 DEF Restored, NoEntry, Online
      <4> QED BY <4>2, <4>3
    <3> QED BY <3>1 DEF OfflineUntilHeard
  <2>2. CASE ~ok
    BY <1>7, <2>2 DEF LoadFromDb, OfflineUntilHeard, Online
  <2> QED BY <2>1, <2>2
<1>8. ASSUME NEW h \in Handlers, NEW e \in Endpoints,
             Remove(h, e) \/ \E o \in Owner : Upsert(h, e, o)
      PROVE  OfflineUntilHeard'
  BY <1>8, <1>2 DEF Remove, Upsert
<1>9. ASSUME NEW j \in Jobs, SaveLands(j) \/ DeleteLands(j) \/ JobFails(j)
      PROVE  OfflineUntilHeard'
  BY <1>9, <1>2 DEF SaveLands, DeleteLands, JobFails
<1>10. CASE Tick \/ UNCHANGED regVars
  BY <1>10, <1>2 DEF Tick, regVars
<1> QED
  BY <1>3, <1>4, <1>5, <1>6, <1>7, <1>8, <1>9, <1>10 DEF RegNext

\* No endpoint is shown online before its agent has registered with this run of
\* the server, however short the outage was (registry.rs, load_from_db).
THEOREM OfflineUntilHeardHolds == RegSpec => []OfflineUntilHeard
<1>1. RegInit => OfflineUntilHeard
  BY DEF RegInit, OfflineUntilHeard, Online, NoEntry
<1>2. RegInv /\ OfflineUntilHeard /\ [RegNext]_regVars => OfflineUntilHeard'
  BY OfflineStep DEF RegInv
<1> QED BY <1>1, <1>2, RegInvInit, RegInvStep, PTL DEF RegSpec

----------------------------------------------------------------------------
(* A settled removal *)

\* Only a registration of an endpoint that is gone ends its being gone.
LEMMA GoneStep ==
    ASSUME RegTypeOK, [RegNext]_regVars, NEW e \in Endpoints, Gone(e), ~Registers(e)
    PROVE  Gone(e)'
<1>1. ASSUME NEW h \in Handlers, NEW d \in Endpoints, Remove(h, d) PROVE Gone(e)'
  BY <1>1 DEF Remove, Spawn, Gone, RegTypeOK
<1>2. ASSUME NEW h \in Handlers, NEW d \in Endpoints, NEW o \in Owner, Upsert(h, d, o)
      PROVE  Gone(e)'
  <2>1. d # e
    BY <1>2 DEF Upsert, Registers, RegTypeOK
  <2> QED BY <1>2, <2>1 DEF Upsert, Spawn, Gone, RegTypeOK
<1>3. ASSUME NEW h \in Handlers, Inserted(h) PROVE Gone(e)'
  <2>1. doing[h].id # e
    BY <1>3 DEF Inserted, Gone
  <2> QED BY <1>3, <2>1 DEF Inserted, Gone, RegTypeOK, AtRest
<1>4. ASSUME NEW h \in Handlers, Removed(h) PROVE Gone(e)'
  BY <1>4 DEF Removed, Gone, RegTypeOK, AtRest, NoEntry
<1>5. ASSUME NEW d \in Endpoints, Touch(d) PROVE Gone(e)'
  <2>1. d # e
    BY <1>5 DEF Touch, Gone
  <2> QED BY <1>5, <2>1 DEF Touch, Gone, RegTypeOK
<1>6. ASSUME NEW j \in Jobs, SaveLands(j) PROVE Gone(e)'
  <2>1. jobs[j].id # e
    BY <1>6 DEF SaveLands, Gone
  <2> QED BY <1>6, <2>1 DEF SaveLands, Gone, RegTypeOK, NoJob
<1>7. ASSUME NEW j \in Jobs, DeleteLands(j) \/ JobFails(j) PROVE Gone(e)'
  BY <1>7 DEF DeleteLands, JobFails, Gone, RegTypeOK, NoJob, NoRow
<1>8. CASE Shutdown
  BY <1>8 DEF Shutdown, Gone, NoEntry, NoJob, AtRest
<1>9. ASSUME NEW ok \in BOOLEAN, LoadFromDb(ok) PROVE Gone(e)'
  BY <1>9 DEF LoadFromDb, Gone, Restored, NoEntry
<1>10. CASE Tick \/ UNCHANGED regVars
  BY <1>10 DEF Tick, regVars, Gone
<1> QED
  BY <1>1, <1>2, <1>3, <1>4, <1>5, <1>6, <1>7, <1>8, <1>9, <1>10 DEF RegNext

\* Once a removal has settled, only a new registration brings the endpoint back
\* (registry.rs, remove, touch and load_from_db).
THEOREM RemovalSticksHolds == RegSpec => RemovalSticks
<1>1. RegInv /\ [RegNext]_regVars
        => [\A e \in Endpoints : Gone(e) => Gone(e)' \/ Registers(e)]_regVars
  BY GoneStep DEF RegInv
<1> QED BY <1>1, RegInvInit, RegInvStep, PTL DEF RegSpec, RemovalSticks

----------------------------------------------------------------------------
(* The inductive invariant *)

\* A row of the table users, or the absence of one.
RowOfUsers == [name : Names \cup {NoName}, password : Passwords \cup {"none"},
               role : Roles \cup {"none"}, grant : SUBSET All, enabled : BOOLEAN]

Shapes ==
    /\ users \in [Ids -> RowOfUsers] /\ copy \in [Ids -> RowOfUsers]
    /\ settings \in [done : BOOLEAN, user : Names \cup {NoName}, hash : BOOLEAN]
    /\ proc \in [Procs -> Proc]
    /\ req \in [Requests -> Req]

Early == {"down", "migrate", "copy"}
Ready == {"import", "mark", "dropUser", "dropHash", "up", "rename", "reset"}

\* The command line rests while the server starts; the old schema is there until
\* the migration commits, and requests come after it.
Order ==
    /\ schema \in {"old", "new"}
    /\ proc["server"].at \notin {"up", "down"} => proc["cli"].at = "down"
    /\ \A p \in Procs : proc[p].at = "copy" => schema = "old"
    /\ \A p \in Procs : proc[p].at \notin Early => schema = "new"
    /\ \A r \in Requests : req[r].at # "idle" => proc["server"].at = "up"

\* Row i is copied as it is, but for its role and grant.
CopiedRow(i) ==
    /\ copy[i].role = "none" <=> users[i].role = "none"
    /\ copy[i].role = "superadmin" <=> users[i].role = "superadmin"
    /\ copy[i].name = users[i].name /\ copy[i].enabled = users[i].enabled

Copied == \A p \in Procs : proc[p].at = "copy"
            => \A i \in Ids : copy[i] = NoAccount \/ CopiedRow(i)

\* The superadmin is the account of that name, and enabled.
SuperNamed ==
    \A i \in Ids : /\ IsSuper(i) <=> users[i].name = "superadmin"
                   /\ IsSuper(i) => users[i].enabled

SuperThere == \A p \in Procs : proc[p].at \in Ready => \E i \in Ids : IsSuper(i)

\* What requests remember of an account's tier is still true when they use it.
TierKnown ==
    \A r \in Requests, i \in Ids : req[r].id = i =>
        /\ req[r].at \in {"disable", "rename"} => ~IsSuper(i)
        /\ req[r].at \in {"available", "change"} => (IsSuper(i) <=> req[r].read = "superadmin")

AccInv == Shapes /\ Order /\ Copied /\ NamesUnique /\ SuperNamed /\ SuperThere /\ TierKnown

----------------------------------------------------------------------------
(* What a step makes of the table *)

\* Every account keeps its name and tier.
Kept ==
    \A i \in Ids : /\ Used(i)' <=> Used(i)
                   /\ IsSuper(i)' <=> IsSuper(i)
                   /\ Used(i) => users'[i].name = users[i].name
                   /\ users'[i].name = "superadmin" <=> users[i].name = "superadmin"
                   /\ IsSuper(i) => users'[i].enabled

\* A row is added under a name nobody has; the superadmin under that name.
Adds(k, n) ==
    /\ ~Used(k) /\ Used(k)' /\ Named(n) = {}
    /\ users'[k].name = n /\ users'[k].enabled
    /\ IsSuper(k)' <=> n = "superadmin"
    /\ \A i \in Ids \ {k} : users'[i] = users[i]

\* A row gets a name nobody else has, the superadmin its own.
Renames(k, n) ==
    /\ Named(n) \subseteq {k}
    /\ IsSuper(k) <=> n = "superadmin"
    /\ users'[k].name = n /\ users'[k].role = users[k].role
    /\ users'[k].enabled = users[k].enabled
    /\ \A i \in Ids \ {k} : users'[i] = users[i]

Effect == Kept \/ \E k \in Ids, n \in Names \cup {NoName} : Adds(k, n) \/ Renames(k, n)

LEMMA UnchangedKept == SuperNamed /\ UNCHANGED users => Kept
BY DEF Kept, Used, IsSuper, SuperNamed

\* Whatever a step makes of the table, names stay unique.
LEMMA EffectNames == ASSUME NamesUnique, Effect PROVE NamesUnique'
<1>1. CASE Kept
  BY <1>1 DEF Kept, NamesUnique, Used
<1>2. ASSUME NEW k \in Ids, NEW n \in Names \cup {NoName}, Adds(k, n) PROVE NamesUnique'
  <2>1. \A i \in Ids \ {k} : Used(i) => users[i].name # n
    BY <1>2 DEF Adds, Named
  <2> QED BY <1>2, <2>1 DEF Adds, NamesUnique, Used
<1>3. ASSUME NEW k \in Ids, NEW n \in Names \cup {NoName}, Renames(k, n) PROVE NamesUnique'
  <2>1. \A i \in Ids \ {k} : Used(i) => users[i].name # n
    BY <1>3 DEF Renames, Named
  <2> QED BY <1>3, <2>1 DEF Renames, NamesUnique, Used
<1> QED BY <1>1, <1>2, <1>3 DEF Effect

\* ... and the superadmin is the account of that name.
LEMMA EffectSuper == ASSUME SuperNamed, Effect PROVE SuperNamed'
<1>1. CASE Kept
  BY <1>1 DEF Kept, SuperNamed, IsSuper
<1>2. ASSUME NEW k \in Ids, NEW n \in Names \cup {NoName}, Adds(k, n) PROVE SuperNamed'
  BY <1>2 DEF Adds, SuperNamed, IsSuper
<1>3. ASSUME NEW k \in Ids, NEW n \in Names \cup {NoName}, Renames(k, n) PROVE SuperNamed'
  BY <1>3 DEF Renames, SuperNamed, IsSuper
<1> QED BY <1>1, <1>2, <1>3 DEF Effect

\* ... and nobody stops being it.
LEMMA EffectStays == ASSUME Effect, NEW i \in Ids, IsSuper(i) PROVE IsSuper(i)'
<1>1. CASE Kept
  BY <1>1 DEF Kept
<1>2. ASSUME NEW k \in Ids, NEW n \in Names \cup {NoName}, Adds(k, n) PROVE IsSuper(i)'
  BY <1>2 DEF Adds, IsSuper, Used
<1>3. ASSUME NEW k \in Ids, NEW n \in Names \cup {NoName}, Renames(k, n) PROVE IsSuper(i)'
  BY <1>3 DEF Renames, IsSuper
<1> QED BY <1>1, <1>2, <1>3 DEF Effect

\* Nobody becomes it where there is one.
LEMMA EffectNobody ==
    ASSUME Effect, SuperNamed, NEW s \in Ids, IsSuper(s), NEW i \in Ids, ~IsSuper(i)
    PROVE  ~IsSuper(i)'
<1>1. CASE Kept
  BY <1>1 DEF Kept
<1>2. ASSUME NEW k \in Ids, NEW n \in Names \cup {NoName}, Adds(k, n) PROVE ~IsSuper(i)'
  <2>1. s \in Named("superadmin")
    BY DEF SuperNamed, Named, IsSuper, Used
  <2> QED BY <1>2, <2>1 DEF Adds, IsSuper
<1>3. ASSUME NEW k \in Ids, NEW n \in Names \cup {NoName}, Renames(k, n) PROVE ~IsSuper(i)'
  BY <1>3 DEF Renames, IsSuper
<1> QED BY <1>1, <1>2, <1>3 DEF Effect

----------------------------------------------------------------------------
(* Every step has such an effect *)

LEMMA UnusedChoice == ASSUME Unused # {} PROVE \E k \in Ids : k = Fresh /\ ~Used(k)
<1>1. Fresh \in Unused
  BY DEF Fresh
<1> QED BY <1>1 DEF Unused

\* A new row is an addition.
LEMMA NewRowAdds ==
    ASSUME Shapes, NEW n \in Names \cup {NoName}, NEW pw, NEW grant,
           NEW role \in {"superadmin", "user"}, role = "superadmin" <=> n = "superadmin",
           Named(n) = {}, NEW k \in Ids, ~Used(k),
           users' = [users EXCEPT ![k] = NewRow(n, pw, role, grant)]
    PROVE  Adds(k, n)
<1>1. users'[k] = NewRow(n, pw, role, grant) /\ \A i \in Ids \ {k} : users'[i] = users[i]
  BY DEF Shapes
<1>2. users'[k].name = n /\ users'[k].role = role /\ users'[k].enabled
  BY <1>1 DEF NewRow
<1>3. (IsSuper(k)' <=> n = "superadmin") /\ Used(k)'
  BY <1>2 DEF IsSuper, Used
<1> QED BY <1>1, <1>2, <1>3 DEF Adds

\* Writing a password, a grant or a flag of an account keeps names and tiers.
LEMMA OtherFields ==
    ASSUME Shapes, SuperNamed, NEW k, NEW x,
           \/ users' = [users EXCEPT ![k].password = x]
           \/ users' = [users EXCEPT ![k].grant = x]
           \/ users' = [users EXCEPT ![k].enabled = x] /\ (x \/ (k \in Ids => ~IsSuper(k)))
    PROVE  Kept
<1>1. \A i \in Ids : users[i] \in RowOfUsers
  BY DEF Shapes
<1>2. \A i \in Ids : users'[i].name = users[i].name /\ users'[i].role = users[i].role
  BY <1>1 DEF Shapes, RowOfUsers
<1>3. \A i \in Ids : IsSuper(i) => users'[i].enabled
  BY <1>1 DEF Shapes, RowOfUsers, SuperNamed
<1> QED BY <1>2, <1>3 DEF Kept, Used, IsSuper

LEMMA NameWrite ==
    ASSUME Shapes, NEW k \in Ids, NEW n \in Names \cup {NoName}, Unique(n, k),
           IsSuper(k) <=> n = "superadmin",
           \/ users' = [users EXCEPT ![k].name = n]
           \/ \E pw : users' = [users EXCEPT ![k].name = n, ![k].password = pw]
    PROVE  Effect
<1>1. \A i \in Ids : users[i] \in RowOfUsers
  BY DEF Shapes
<1>2. /\ users'[k].name = n /\ users'[k].role = users[k].role
      /\ users'[k].enabled = users[k].enabled
      /\ \A i \in Ids \ {k} : users'[i] = users[i]
  BY <1>1 DEF Shapes, RowOfUsers
<1>3. Renames(k, n)
  BY <1>2 DEF Renames, Unique
<1> QED BY <1>3 DEF Effect

\* Where a request or a start is under way, there is a superadmin.
LEMMA SuperWhereReady ==
    ASSUME AccInv, \/ \E r \in Requests : req[r].at # "idle"
                   \/ \E p \in Procs : proc[p].at \in Ready
    PROVE  \E s \in Ids : IsSuper(s) /\ s \in Named("superadmin")
<1>1. \E p \in Procs : proc[p].at \in Ready
  BY DEF AccInv, Order, Ready, Procs
<1>2. PICK s \in Ids : IsSuper(s)
  BY <1>1 DEF AccInv, SuperThere
<1> QED BY <1>2 DEF AccInv, SuperNamed, Named, IsSuper, Used

\* The end of the migration changes roles and grants only.
LEMMA CommitKept == ASSUME AccInv, NEW p \in Procs, Commit(p) PROVE Kept
<1> USE DEF AccInv
<1>1. users' = copy /\ \A i \in Ids : copy[i] = NoAccount \/ CopiedRow(i)
  BY DEF Commit, Copied
<1>2. \A i \in Ids : Used(i) => copy[i] # NoAccount
  BY DEF Commit, Uncopied
<1>3. ASSUME NEW i \in Ids, copy[i] = NoAccount
      PROVE  ~Used(i) /\ ~IsSuper(i) /\ users[i].name # "superadmin"
  BY <1>2, <1>3 DEF SuperNamed, Used, IsSuper
<1>4. ASSUME NEW i \in Ids, copy[i] = NoAccount
      PROVE  ~Used(i)' /\ ~IsSuper(i)' /\ users'[i].name # "superadmin"
  BY <1>1, <1>4, AccountsAssumption DEF NoAccount, Used, IsSuper
<1>5. ASSUME NEW i \in Ids, CopiedRow(i)
      PROVE  /\ Used(i)' <=> Used(i)
             /\ IsSuper(i)' <=> IsSuper(i)
             /\ users'[i].name = users[i].name
             /\ IsSuper(i) => users'[i].enabled
  BY <1>1, <1>5 DEF CopiedRow, Used, IsSuper, SuperNamed
<1> QED BY <1>1, <1>3, <1>4, <1>5 DEF Kept

\* The start of the server.
LEMMA StartEffect ==
    ASSUME AccInv, NEW p \in Procs,
           \/ Launch(p) \/ Migrate(p) \/ CopyRow(p) \/ Commit(p) \/ ReadCredential(p)
           \/ CreateSuperadmin(p) \/ Import(p) \/ MarkMigrated(p)
    PROVE  Effect
<1> USE DEF AccInv
<1>1. CASE \/ Launch(p) \/ Migrate(p) \/ CopyRow(p) \/ ReadCredential(p) \/ MarkMigrated(p)
  <2>1. UNCHANGED users
    BY <1>1 DEF Launch, Migrate, CopyRow, ReadCredential, MarkMigrated, Settles, tables
  <2> QED BY <2>1, UnchangedKept DEF Effect
<1>2. CASE Commit(p)
  BY <1>2, CommitKept DEF Effect
<1>3. CASE CreateSuperadmin(p)
  <2>1. CASE UNCHANGED users
    BY <2>1, UnchangedKept DEF Effect
  <2>2. CASE /\ Named("superadmin") = {} /\ Unused # {}
             /\ users' = [users EXCEPT ![Fresh] = NewRow("superadmin", "default", "superadmin", {})]
    <3>1. PICK k \in Ids : k = Fresh /\ ~Used(k)
      BY <2>2, UnusedChoice
    <3>2. Adds(k, "superadmin")
      BY <2>2, <3>1, NewRowAdds, AccountsAssumption
    <3> QED BY <3>2, AccountsAssumption DEF Effect
  <2> QED BY <1>3, <2>1, <2>2 DEF CreateSuperadmin
<1>4. CASE Import(p)
  <2> DEFINE n == ImportName(proc[p].legacy)
  <2>1. n \in Names \cup {NoName} /\ n # "superadmin"
    BY AccountsAssumption DEF ImportName, Shapes, Proc
  <2>2. CASE UNCHANGED users
    BY <2>2, UnchangedKept DEF Effect
  <2>3. CASE /\ Named(n) = {} /\ Unused # {}
             /\ users' = [users EXCEPT ![Fresh] = NewRow(n, "old", "user", Assignable)]
    <3>1. PICK k \in Ids : k = Fresh /\ ~Used(k)
      BY <2>3, UnusedChoice
    <3>2. Adds(k, n)
      BY <2>1, <2>3, <3>1, NewRowAdds
    <3> QED BY <2>1, <3>2 DEF Effect
  <2> QED BY <1>4, <2>2, <2>3 DEF Import
<1> QED BY <1>1, <1>2, <1>3, <1>4

\* The command line.
LEMMA CommandEffect ==
    ASSUME AccInv,
           FindTarget \/ CliRename \/ (\E pw \in NewPasswords : CliReset(pw)) \/ Interrupt \/ Stop
    PROVE  Effect
<1> USE DEF AccInv
<1>1. CASE FindTarget \/ Interrupt \/ Stop
  <2>1. UNCHANGED users
    BY <1>1 DEF FindTarget, Interrupt, Stop, tables
  <2> QED BY <2>1, UnchangedKept DEF Effect
<1>2. CASE CliRename
  <2> DEFINE i == proc["cli"].target
  <2>1. CASE UNCHANGED users
    BY <2>1, UnchangedKept DEF Effect
  <2>2. CASE MayRename(i, CliName) /\ users' = [users EXCEPT ![i].name = CliName]
    <3>1. CASE i \in Ids
      <4>1. PICK s \in Ids : IsSuper(s) /\ s \in Named("superadmin")
        BY <1>2, SuperWhereReady DEF CliRename, Ready, Procs
      <4>2. CliName # "superadmin"
        BY <2>2, <4>1 DEF MayRename, Unique
      <4> QED BY <2>2, <3>1, <4>2, NameWrite, AccountsAssumption DEF MayRename
    <3>2. CASE i \notin Ids
      <4>1. users' = users
        BY <2>2, <3>2 DEF Shapes
      <4> QED BY <4>1, UnchangedKept DEF Effect
    <3> QED BY <3>1, <3>2
  <2> QED BY <1>2, <2>1, <2>2 DEF CliRename
<1>3. ASSUME NEW pw \in NewPasswords, CliReset(pw) PROVE Effect
  BY <1>3, OtherFields DEF CliReset, Effect
<1> QED BY <1>1, <1>2, <1>3

\* Requests.
LEMMA RequestEffect ==
    ASSUME AccInv, NEW r \in Requests,
           \/ Insert(r) \/ Disable(r) \/ SetPermissions(r) \/ CheckName(r) \/ Rename(r)
           \/ SetEnabled(r) \/ NameAvailable(r) \/ Change(r)
    PROVE  Effect
<1> USE DEF AccInv
<1> DEFINE q == req[r]
<1>1. q \in Req
  BY DEF Shapes
<1>2. q.at # "idle"
  BY DEF Insert, Disable, SetPermissions, CheckName, Rename, SetEnabled, NameAvailable, Change
<1>3. PICK s \in Ids : IsSuper(s) /\ s \in Named("superadmin")
  BY <1>2, SuperWhereReady
<1>4. CASE UNCHANGED users
  BY <1>4, UnchangedKept DEF Effect
<1>5. ASSUME Unique(q.name, NoId), Unused # {},
             users' = [users EXCEPT ![Fresh] = NewRow(q.name, "default", "user", q.grant)]
      PROVE  Effect
  <2>1. Named(q.name) = {}
    BY <1>5, AccountsAssumption DEF Unique, Named
  <2>2. q.name # "superadmin" /\ q.name \in Names \cup {NoName}
    BY <1>1, <1>3, <2>1 DEF Req
  <2>3. PICK k \in Ids : k = Fresh /\ ~Used(k)
    BY <1>5, UnusedChoice
  <2>4. Adds(k, q.name)
    BY <1>5, <2>1, <2>2, <2>3, NewRowAdds
  <2> QED BY <2>2, <2>4 DEF Effect
<1>6. CASE Insert(r)
  BY <1>4, <1>5, <1>6 DEF Insert
<1>7. CASE Disable(r)
  <2>1. q.id \in Ids => ~IsSuper(q.id)
    BY <1>7 DEF Disable, TierKnown
  <2> QED BY <1>7, <2>1, OtherFields DEF Disable, Effect
<1>8. CASE SetPermissions(r)
  <2>1. UNCHANGED users \/ users' = [users EXCEPT ![q.id].grant = q.grant]
    BY <1>8 DEF SetPermissions
  <2> QED BY <1>4, <2>1, OtherFields DEF Effect
<1>9. CASE CheckName(r) \/ NameAvailable(r)
  BY <1>4, <1>9 DEF CheckName, NameAvailable
<1>10. ASSUME NEW n \in Names \cup {NoName}, Unique(n, q.id),
              q.id \in Ids => (IsSuper(q.id) <=> n = "superadmin"),
              \/ users' = [users EXCEPT ![q.id].name = n]
              \/ \E pw : users' = [users EXCEPT ![q.id].name = n, ![q.id].password = pw]
       PROVE  Effect
  <2>1. CASE q.id \in Ids
    BY <1>10, <2>1, NameWrite
  <2>2. CASE q.id \notin Ids
    <3>1. CASE users' = [users EXCEPT ![q.id].name = n]
      <4>1. users' = users
        BY <2>2, <3>1 DEF Shapes
      <4> QED BY <1>4, <4>1
    <3>2. ASSUME NEW pw, users' = [users EXCEPT ![q.id].name = n, ![q.id].password = pw]
          PROVE  Effect
      <4> DEFINE v == [users EXCEPT ![q.id].name = n]
      <4>1. v = users
        BY <2>2 DEF Shapes
      <4>2. users' = [v EXCEPT ![q.id].password = pw]
        BY <3>2
      <4>3. users' = users
        BY <2>2, <4>1, <4>2 DEF Shapes
      <4> QED BY <1>4, <4>3
    <3> QED BY <1>10, <3>1, <3>2
  <2> QED BY <2>1, <2>2
<1>11. CASE Rename(r)
  <2>1. ASSUME Unique(q.name, q.id), q.id \in Ids PROVE IsSuper(q.id) <=> q.name = "superadmin"
    <3>1. ~IsSuper(q.id)
      BY <1>11, <2>1 DEF Rename, TierKnown
    <3> QED BY <1>3, <2>1, <3>1 DEF Unique
  <2> QED BY <1>1, <1>4, <1>10, <1>11, <2>1 DEF Rename, Req
<1>12. CASE SetEnabled(r)
  <2>1. \/ UNCHANGED users
        \/ users' = [users EXCEPT ![q.id].enabled = TRUE]
        \/ users' = [users EXCEPT ![q.id].enabled = FALSE] /\ ~IsSuper(q.id)
    BY <1>12 DEF SetEnabled, MayDisable
  <2> QED BY <1>4, <2>1, OtherFields DEF Effect
<1>13. CASE Change(r)
  <2>1. q.id \in Ids => (IsSuper(q.id) <=> q.read = "superadmin")
    BY <1>13 DEF Change, TierKnown
  <2> QED BY <1>1, <1>4, <1>10, <1>13, <2>1 DEF Change, Req
<1> QED BY <1>6, <1>7, <1>8, <1>9, <1>11, <1>12, <1>13

\* Every step keeps names and tiers, adds a row or renames one.
LEMMA StepEffect == ASSUME AccInv, [AccNext]_accVars PROVE Effect
<1>1. CASE UNCHANGED accVars
  BY <1>1, UnchangedKept DEF accVars, Effect, AccInv
<1>2. ASSUME NEW n \in Names, NEW pw \in Passwords, Login(n, pw) PROVE Effect
  BY <1>2, UnchangedKept DEF Login, Effect, AccInv
<1>3. ASSUME NEW r \in Requests,
             \/ \E c \in Creations : Create(r, c)
             \/ \E i \in Ids, c \in Patches : Patch(r, i, c)
             \/ \E i \in Ids, old \in Passwords, pw \in NewPasswords :
                   ChangePassword(r, i, old, pw)
      PROVE  Effect
  <2>1. UNCHANGED users
    BY <1>3 DEF Create, Patch, ChangePassword, Begins
  <2> QED BY <2>1, UnchangedKept DEF Effect, AccInv
<1>4. ASSUME NEW r \in Requests, NEW i \in Ids, NEW pw \in NewPasswords, ResetPassword(r, i, pw)
      PROVE  Effect
  BY <1>4, OtherFields DEF ResetPassword, Effect, AccInv
<1> QED BY <1>1, <1>2, <1>3, <1>4, StartEffect, CommandEffect, RequestEffect DEF AccNext

----------------------------------------------------------------------------
(* Shapes *)

LEMMA RecordTypes ==
    /\ NoReq \in Req /\ Off \in Proc /\ NoAccount \in RowOfUsers
    /\ \A n \in Names \cup {NoName}, pw \in Passwords, role \in Roles, grant \in SUBSET All :
          NewRow(n, pw, role, grant) \in RowOfUsers
BY DEF NoReq, Req, Off, Proc, Labels, NoAccount, RowOfUsers, NewRow

LEMMA GrantTypes == Assignable \subseteq All /\ Operator \subseteq All /\ Auditor \subseteq All
BY DEF Assignable, Operator, Auditor, All

LEMMA GoesType ==
    ASSUME Shapes, NEW p \in Procs, NEW label \in Labels, Goes(p, label)
    PROVE  proc' \in [Procs -> Proc]
<1>1. [proc[p] EXCEPT !.at = label] \in Proc
  BY DEF Shapes, Proc
<1> QED BY <1>1 DEF Goes, Shapes

\* A request that begins, goes on or is done is a request.
LEMMA RequestTypes ==
    ASSUME Shapes, NEW r \in Requests
    PROVE  /\ Done(r) => req' \in [Requests -> Req]
           /\ \A label \in {"grant", "check", "rename", "enable", "change"} :
                At(r, label) => req' \in [Requests -> Req]
           /\ \A q \in Req : Begins(r, q) => req' \in [Requests -> Req]
<1>1. Done(r) => req' \in [Requests -> Req]
  BY RecordTypes DEF Done, Shapes
<1>2. ASSUME NEW label \in {"grant", "check", "rename", "enable", "change"}, At(r, label)
      PROVE  req' \in [Requests -> Req]
  <2>1. [req[r] EXCEPT !.at = label] \in Req
    BY DEF Shapes, Req
  <2> QED BY <1>2, <2>1 DEF At, Shapes
<1>3. ASSUME NEW q \in Req, Begins(r, q) PROVE req' \in [Requests -> Req]
  BY <1>3 DEF Begins, Shapes
<1> QED BY <1>1, <1>2, <1>3

\* A row with one field written is a row.
LEMMA FieldTypes ==
    ASSUME Shapes, NEW k
    PROVE  /\ \A pw \in Passwords \cup {"none"} :
                users' = [users EXCEPT ![k].password = pw] => users' \in [Ids -> RowOfUsers]
           /\ \A grant \in SUBSET All :
                users' = [users EXCEPT ![k].grant = grant] => users' \in [Ids -> RowOfUsers]
           /\ \A on \in BOOLEAN :
                users' = [users EXCEPT ![k].enabled = on] => users' \in [Ids -> RowOfUsers]
           /\ \A n \in Names \cup {NoName} :
                users' = [users EXCEPT ![k].name = n] => users' \in [Ids -> RowOfUsers]
           /\ \A n \in Names \cup {NoName}, pw \in Passwords \cup {"none"} :
                users' = [users EXCEPT ![k].name = n, ![k].password = pw]
                  => users' \in [Ids -> RowOfUsers]
<1>1. \A i \in Ids : users[i] \in RowOfUsers
  BY DEF Shapes
<1>2. ASSUME NEW pw \in Passwords \cup {"none"}, users' = [users EXCEPT ![k].password = pw]
      PROVE  users' \in [Ids -> RowOfUsers]
  <2>1. \A i \in Ids : [users[i] EXCEPT !.password = pw] \in RowOfUsers
    BY <1>1 DEF RowOfUsers
  <2> QED BY <1>1, <1>2, <2>1 DEF Shapes
<1>3. ASSUME NEW grant \in SUBSET All, users' = [users EXCEPT ![k].grant = grant]
      PROVE  users' \in [Ids -> RowOfUsers]
  <2>1. \A i \in Ids : [users[i] EXCEPT !.grant = grant] \in RowOfUsers
    BY <1>1 DEF RowOfUsers
  <2> QED BY <1>1, <1>3, <2>1 DEF Shapes
<1>4. ASSUME NEW on \in BOOLEAN, users' = [users EXCEPT ![k].enabled = on]
      PROVE  users' \in [Ids -> RowOfUsers]
  <2>1. \A i \in Ids : [users[i] EXCEPT !.enabled = on] \in RowOfUsers
    BY <1>1 DEF RowOfUsers
  <2> QED BY <1>1, <1>4, <2>1 DEF Shapes
<1>5. ASSUME NEW n \in Names \cup {NoName}, users' = [users EXCEPT ![k].name = n]
      PROVE  users' \in [Ids -> RowOfUsers]
  <2>1. \A i \in Ids : [users[i] EXCEPT !.name = n] \in RowOfUsers
    BY <1>1 DEF RowOfUsers
  <2> QED BY <1>1, <1>5, <2>1 DEF Shapes
<1>6. ASSUME NEW n \in Names \cup {NoName}, NEW pw \in Passwords \cup {"none"},
             users' = [users EXCEPT ![k].name = n, ![k].password = pw]
      PROVE  users' \in [Ids -> RowOfUsers]
  <2>1. \A i \in Ids : [users[i] EXCEPT !.name = n, !.password = pw] \in RowOfUsers
    BY <1>1 DEF RowOfUsers
  <2>2. users' = [users EXCEPT ![k] = [users[k] EXCEPT !.name = n, !.password = pw]]
    BY <1>1, <1>6 DEF Shapes
  <2> QED BY <1>1, <2>1, <2>2 DEF Shapes
<1> QED BY <1>2, <1>3, <1>4, <1>5, <1>6

\* A row that is converted stays a row.
LEMMA ConvertedType == ASSUME NEW row \in RowOfUsers PROVE Converted(row) \in RowOfUsers
BY GrantTypes DEF Converted, RowOfUsers, Roles

LEMMA StartShapes ==
    ASSUME Shapes, NEW p \in Procs,
           \/ Launch(p) \/ Migrate(p) \/ CopyRow(p) \/ Commit(p) \/ ReadCredential(p)
           \/ CreateSuperadmin(p) \/ Import(p) \/ MarkMigrated(p)
    PROVE  Shapes'
<1> USE RecordTypes, AccountsAssumption
<1>1. CASE Launch(p)
  <2>1. [Off EXCEPT !.at = "migrate"] \in Proc
    BY DEF Off, Proc, Labels
  <2> QED BY <1>1, <2>1 DEF Launch, tables, web, Shapes
<1>2. CASE Migrate(p)
  <2>1. proc' \in [Procs -> Proc]
    BY <1>2, GoesType DEF Migrate, Labels
  <2> QED BY <1>2, <2>1 DEF Migrate, web, Shapes
<1>3. CASE CopyRow(p)
  <2>1. \A i \in Ids : Converted(users[i]) \in RowOfUsers
    BY ConvertedType DEF Shapes
  <2>2. PICK i \in Ids : copy' = [copy EXCEPT ![i] = Converted(users[i])]
    BY <1>3 DEF CopyRow, Uncopied
  <2>3. copy' \in [Ids -> RowOfUsers]
    BY <2>1, <2>2 DEF Shapes
  <2> QED BY <1>3, <2>3 DEF CopyRow, web, Shapes
<1>4. CASE Commit(p)
  <2>1. proc' \in [Procs -> Proc]
    BY <1>4, GoesType DEF Commit, Labels
  <2> QED BY <1>4, <2>1 DEF Commit, web, Shapes
<1>5. CASE ReadCredential(p)
  <2> DEFINE name == IF settings.done \/ ~settings.hash THEN NoName ELSE settings.user
  <2>1. name \in Names \cup {NoName}
    BY DEF Shapes
  <2>2. [proc[p] EXCEPT !.at = "superadmin", !.legacy = name] \in Proc
    BY <2>1 DEF Shapes, Proc, Labels
  <2>3. proc' = [proc EXCEPT ![p] = [proc[p] EXCEPT !.at = "superadmin", !.legacy = name]]
    BY <1>5 DEF ReadCredential, Shapes, Proc
  <2> QED BY <1>5, <2>2, <2>3 DEF ReadCredential, tables, web, Shapes
<1>6. CASE CreateSuperadmin(p)
  <2>1. proc' \in [Procs -> Proc]
    BY <1>6, GoesType DEF CreateSuperadmin, Labels
  <2>2. NewRow("superadmin", "default", "superadmin", {}) \in RowOfUsers
    BY DEF Roles, FixedRoles
  <2>3. users' \in [Ids -> RowOfUsers]
    BY <1>6, <2>2 DEF CreateSuperadmin, Shapes
  <2> QED BY <1>6, <2>1, <2>3 DEF CreateSuperadmin, web, Shapes
<1>7. CASE Import(p)
  <2>1. proc' \in [Procs -> Proc]
    BY <1>7, GoesType DEF Import, Labels
  <2>2. NewRow(ImportName(proc[p].legacy), "old", "user", Assignable) \in RowOfUsers
    BY GrantTypes DEF Roles, ImportName, Shapes, Proc
  <2>3. users' \in [Ids -> RowOfUsers]
    BY <1>7, <2>2 DEF Import, Shapes
  <2> QED BY <1>7, <2>1, <2>3 DEF Import, web, Shapes
<1>8. CASE MarkMigrated(p)
  <2>1. proc' \in [Procs -> Proc]
    BY <1>8, GoesType DEF MarkMigrated, Settles, Labels
  <2>2. /\ [settings EXCEPT !.done = TRUE] \in [done : BOOLEAN, user : Names \cup {NoName}, hash : BOOLEAN]
        /\ [settings EXCEPT !.user = NoName] \in [done : BOOLEAN, user : Names \cup {NoName}, hash : BOOLEAN]
        /\ [settings EXCEPT !.hash = FALSE] \in [done : BOOLEAN, user : Names \cup {NoName}, hash : BOOLEAN]
    BY DEF Shapes
  <2>3. settings' \in [done : BOOLEAN, user : Names \cup {NoName}, hash : BOOLEAN]
    BY <1>8, <2>2 DEF MarkMigrated, Settles, Shapes
  <2> QED BY <1>8, <2>1, <2>3 DEF MarkMigrated, Settles, web, Shapes
<1> QED BY <1>1, <1>2, <1>3, <1>4, <1>5, <1>6, <1>7, <1>8

LEMMA CommandShapes ==
    ASSUME Shapes,
           FindTarget \/ CliRename \/ (\E pw \in NewPasswords : CliReset(pw)) \/ Interrupt \/ Stop
    PROVE  Shapes'
<1> USE RecordTypes, AccountsAssumption
<1> "cli" \in Procs /\ "server" \in Procs
  BY DEF Procs
<1>1. CASE FindTarget
  <2>1. PICK n : proc' = [proc EXCEPT !["cli"].at = "rename", !["cli"].target = Holder(n)]
    BY <1>1 DEF FindTarget
  <2>2. Holder(n) \in Ids \cup {NoId}
    <3>1. CASE Named(n) = {}
      BY <3>1 DEF Holder
    <3>2. CASE Named(n) # {}
      BY <3>2 DEF Holder, Named
    <3> QED BY <3>1, <3>2
  <2>3. [proc["cli"] EXCEPT !.at = "rename", !.target = Holder(n)] \in Proc
    BY <2>2 DEF Shapes, Proc, Labels
  <2>4. proc' = [proc EXCEPT !["cli"] = [proc["cli"] EXCEPT !.at = "rename", !.target = Holder(n)]]
    BY <2>1 DEF Shapes, Proc
  <2>5. proc' \in [Procs -> Proc]
    BY <2>3, <2>4 DEF Shapes
  <2>6. UNCHANGED <<users, copy, settings, req>>
    BY <1>1 DEF FindTarget, tables, web
  <2> QED BY <2>5, <2>6 DEF Shapes
<1>2. CASE CliRename
  <2>1. proc' \in [Procs -> Proc]
    BY <1>2, GoesType DEF CliRename, Labels
  <2>2. users' \in [Ids -> RowOfUsers]
    BY <1>2, FieldTypes DEF CliRename, Shapes
  <2> QED BY <1>2, <2>1, <2>2 DEF CliRename, web, Shapes
<1>3. ASSUME NEW pw \in NewPasswords, CliReset(pw) PROVE Shapes'
  <2>1. proc' \in [Procs -> Proc]
    BY <1>3, GoesType DEF CliReset, Labels
  <2>2. users' \in [Ids -> RowOfUsers]
    BY <1>3, FieldTypes DEF CliReset
  <2> QED BY <1>3, <2>1, <2>2 DEF CliReset, web, Shapes
<1>4. CASE Interrupt
  BY <1>4 DEF Interrupt, web, Shapes
<1>5. CASE Stop
  BY <1>5 DEF Stop, Shapes
<1> QED BY <1>1, <1>2, <1>3, <1>4, <1>5

\* What a request makes of the table and of itself.
LEMMA RequestShapes ==
    ASSUME Shapes, NEW r \in Requests,
           \/ Insert(r) \/ Disable(r) \/ SetPermissions(r) \/ CheckName(r) \/ Rename(r)
           \/ SetEnabled(r) \/ NameAvailable(r) \/ Change(r)
    PROVE  Shapes'
<1> USE RecordTypes, AccountsAssumption DEF start
<1> DEFINE q == req[r]
<1>1. q \in Req /\ q.name \in Names \cup {NoName} /\ q.read \in Names \cup {NoName}
      /\ q.password \in Passwords \cup {"none"} /\ q.grant \in SUBSET All
  BY DEF Shapes, Req
<1>2. UNCHANGED <<copy, settings, proc>>
  BY DEF Insert, Disable, SetPermissions, CheckName, Rename, SetEnabled, NameAvailable, Change
<1>3. ASSUME users' \in [Ids -> RowOfUsers], req' \in [Requests -> Req] PROVE Shapes'
  BY <1>2, <1>3 DEF Shapes
<1>4. CASE Insert(r)
  <2>1. NewRow(q.name, "default", "user", q.grant) \in RowOfUsers
    BY <1>1 DEF NewRow, RowOfUsers, Roles
  <2>2. users' \in [Ids -> RowOfUsers]
    BY <1>4, <2>1 DEF Insert, Shapes
  <2>3. CASE /\ Unused # {} /\ req' = [req EXCEPT ![r].at = "disable", ![r].id = Fresh]
    <3>1. Fresh \in Ids
      BY <2>3, UnusedChoice
    <3>2. [q EXCEPT !.at = "disable", !.id = Fresh] \in Req
      BY <1>1, <3>1 DEF Req
    <3>3. req' = [req EXCEPT ![r] = [q EXCEPT !.at = "disable", !.id = Fresh]]
      BY <2>3 DEF Shapes, Req
    <3> QED BY <1>3, <2>2, <3>2, <3>3 DEF Shapes
  <2>4. CASE Done(r)
    BY <1>3, <2>2, <2>4, RequestTypes
  <2> QED BY <1>4, <2>3, <2>4 DEF Insert
<1>5. CASE Disable(r)
  BY <1>3, <1>5, FieldTypes, RequestTypes DEF Disable
<1>6. CASE SetPermissions(r)
  <2>1. users' \in [Ids -> RowOfUsers]
    BY <1>1, <1>6, FieldTypes DEF SetPermissions, Shapes
  <2>2. req' \in [Requests -> Req]
    BY <1>6, RequestTypes DEF SetPermissions
  <2> QED BY <1>3, <2>1, <2>2
<1>7. CASE CheckName(r) \/ NameAvailable(r)
  <2>1. users' \in [Ids -> RowOfUsers]
    BY <1>7 DEF CheckName, NameAvailable, Shapes
  <2>2. req' \in [Requests -> Req]
    BY <1>7, RequestTypes DEF CheckName, NameAvailable
  <2> QED BY <1>3, <2>1, <2>2
<1>8. CASE Rename(r)
  <2>1. users' \in [Ids -> RowOfUsers]
    BY <1>1, <1>8, FieldTypes DEF Rename, Shapes
  <2>2. req' \in [Requests -> Req]
    BY <1>8, RequestTypes DEF Rename
  <2> QED BY <1>3, <2>1, <2>2
<1>9. CASE SetEnabled(r)
  <2>1. \/ UNCHANGED users
        \/ users' = [users EXCEPT ![q.id].enabled = TRUE]
        \/ users' = [users EXCEPT ![q.id].enabled = FALSE]
    BY <1>9 DEF SetEnabled
  <2>2. users' \in [Ids -> RowOfUsers]
    BY <2>1, FieldTypes DEF Shapes
  <2> QED BY <1>3, <1>9, <2>2, RequestTypes DEF SetEnabled
<1>10. CASE Change(r)
  <2>1. users' \in [Ids -> RowOfUsers]
    BY <1>1, <1>10, FieldTypes DEF Change, Shapes
  <2> QED BY <1>3, <1>10, <2>1, RequestTypes DEF Change
<1> QED BY <1>4, <1>5, <1>6, <1>7, <1>8, <1>9, <1>10

\* The steps that begin a request, or handle one in a single step.
OneStep ==
    \/ \E n \in Names, pw \in Passwords : Login(n, pw)
    \/ \E r \in Requests :
          \/ \E c \in Creations : Create(r, c)
          \/ \E i \in Ids, c \in Patches : Patch(r, i, c)
          \/ \E i \in Ids, pw \in NewPasswords : ResetPassword(r, i, pw)
          \/ \E i \in Ids, old \in Passwords, pw \in NewPasswords :
                ChangePassword(r, i, old, pw)

LEMMA OneStepShapes == ASSUME Shapes, OneStep PROVE Shapes'
<1> USE RecordTypes, AccountsAssumption DEF start
<1>1. ASSUME NEW r \in Requests, NEW q \in Req, Begins(r, q) PROVE Shapes'
  <2>1. req' \in [Requests -> Req]
    BY <1>1, RequestTypes
  <2> QED BY <1>1, <2>1 DEF Begins, Shapes
<1>2. ASSUME NEW n \in Names, NEW pw \in Passwords, Login(n, pw) PROVE Shapes'
  BY <1>2 DEF Login, Shapes
<1>3. ASSUME NEW r \in Requests, NEW c \in Creations, Create(r, c) PROVE Shapes'
  <2>1. [NoReq EXCEPT !.at = "insert", !.name = c.name, !.grant = c.grant,
                      !.enabled = c.enabled] \in Req
    BY DEF NoReq, Req
  <2> QED BY <1>1, <1>3, <2>1 DEF Create
<1>4. ASSUME NEW r \in Requests, NEW i \in Ids, NEW c \in Patches, Patch(r, i, c) PROVE Shapes'
  <2>1. [NoReq EXCEPT !.at = "grant", !.id = i, !.granting = c.granting,
                      !.grant = c.grant, !.name = c.name, !.enabled = c.enabled] \in Req
    BY DEF NoReq, Req
  <2> QED BY <1>1, <1>4, <2>1 DEF Patch
<1>5. ASSUME NEW r \in Requests, NEW i \in Ids, NEW pw \in NewPasswords, ResetPassword(r, i, pw)
      PROVE  Shapes'
  <2>1. users' \in [Ids -> RowOfUsers]
    BY <1>5, FieldTypes DEF ResetPassword
  <2> QED BY <1>5, <2>1 DEF ResetPassword, Shapes
<1>6. ASSUME NEW r \in Requests, NEW i \in Ids, NEW old \in Passwords, NEW pw \in NewPasswords,
             ChangePassword(r, i, old, pw)
      PROVE  Shapes'
  <2>1. users[i].name \in Names \cup {NoName}
    BY DEF Shapes, RowOfUsers
  <2>2. [NoReq EXCEPT !.at = "available", !.id = i, !.password = pw,
                      !.read = users[i].name] \in Req
    BY <2>1 DEF NoReq, Req
  <2> QED BY <1>1, <1>6, <2>2 DEF ChangePassword
<1> QED BY <1>2, <1>3, <1>4, <1>5, <1>6 DEF OneStep

LEMMA ShapesStep == ASSUME Shapes, [AccNext]_accVars PROVE Shapes'
<1>1. CASE UNCHANGED accVars
  BY <1>1 DEF accVars, Shapes
<1>2. CASE OneStep
  BY <1>2, OneStepShapes
<1> QED BY <1>1, <1>2, StartShapes, CommandShapes, RequestShapes DEF AccNext, OneStep

----------------------------------------------------------------------------
(* Order *)

\* One of the two programs goes on, and leaves the requests alone.
LEMMA Moves ==
    ASSUME Shapes, Order, NEW p \in Procs, NEW label,
           proc'[p].at = label, \A q \in Procs \ {p} : proc'[q] = proc[q],
           proc[p].at # "down", p = "server" => proc[p].at # "up",
           \/ schema' = schema
           \/ schema' = "new" /\ proc[p].at = "copy",
           label = "copy" => schema' = "old", label \notin Early => schema' = "new",
           UNCHANGED req
    PROVE  Order'
<1>1. proc'["server"].at \notin {"up", "down"} => proc'["cli"].at = "down"
  BY DEF Order, Procs
<1>2. ASSUME NEW q \in Procs, proc'[q].at = "copy" PROVE schema' = "old"
  BY <1>2 DEF Order, Procs
<1>3. ASSUME NEW q \in Procs, proc'[q].at \notin Early PROVE schema' = "new"
  BY <1>3 DEF Order, Procs
<1>4. ASSUME NEW r \in Requests, req'[r].at # "idle" PROVE proc'["server"].at = "up"
  BY <1>4 DEF Order, Procs
<1> QED BY <1>1, <1>2, <1>3, <1>4 DEF Order

LEMMA StartOrder ==
    ASSUME Shapes, Order, NEW p \in Procs,
           \/ Launch(p) \/ Migrate(p) \/ CopyRow(p) \/ Commit(p) \/ ReadCredential(p)
           \/ CreateSuperadmin(p) \/ Import(p) \/ MarkMigrated(p)
    PROVE  Order'
<1> USE DEF Shapes, Proc, Early
<1>1. CASE Launch(p)
  <2>1. proc'[p].at = "migrate" /\ \A q \in Procs \ {p} : proc'[q] = proc[q]
    BY <1>1 DEF Launch, Off
  <2>2. UNCHANGED <<schema, req>>
    BY <1>1 DEF Launch, tables, web
  <2>3. /\ p = "cli" => proc["server"].at \in {"up", "down"}
        /\ p = "server" => proc["cli"].at = "down" /\ proc[p].at = "down"
    BY <1>1 DEF Launch
  <2> QED BY <2>1, <2>2, <2>3 DEF Order, Procs
<1>2. CASE Migrate(p)
  <2>1. \A q \in Procs \ {p} : proc'[q] = proc[q]
    BY <1>2 DEF Migrate, Goes
  <2>2. UNCHANGED <<schema, req>> /\ proc[p].at = "migrate"
    BY <1>2 DEF Migrate, web
  <2>3. CASE schema = "new"
    <3>1. proc'[p].at = "credential"
      BY <1>2, <2>3 DEF Migrate, Goes
    <3> QED BY <2>1, <2>2, <2>3, <3>1, Moves
  <2>4. CASE schema = "old"
    <3>1. proc'[p].at = "copy"
      BY <1>2, <2>4 DEF Migrate, Goes
    <3> QED BY <2>1, <2>2, <2>4, <3>1, Moves
  <2> QED BY <2>3, <2>4 DEF Order
<1>3. CASE CopyRow(p)
  BY <1>3 DEF CopyRow, Order, web
<1>4. CASE Commit(p)
  BY <1>4, Moves DEF Commit, Goes, web
<1>5. CASE ReadCredential(p)
  <2>1. proc'[p].at = "superadmin" /\ \A q \in Procs \ {p} : proc'[q] = proc[q]
    BY <1>5 DEF ReadCredential
  <2>2. schema = "new"
    BY <1>5 DEF ReadCredential, Order
  <2> QED BY <1>5, <2>1, <2>2, Moves DEF ReadCredential, tables, web
<1>6. CASE CreateSuperadmin(p) \/ Import(p) \/ MarkMigrated(p)
  <2>1. PICK label : Goes(p, label) /\ label \notin {"copy", "down", "migrate"}
    BY <1>6 DEF CreateSuperadmin, Import, MarkMigrated, Settles
  <2>2. proc[p].at \notin {"up", "down", "migrate", "copy"} /\ UNCHANGED <<schema, req>>
    BY <1>6 DEF CreateSuperadmin, Import, MarkMigrated, Settles, web
  <2>3. schema = "new"
    BY <2>2 DEF Order
  <2> QED BY <2>1, <2>2, <2>3, Moves DEF Goes
<1> QED BY <1>1, <1>2, <1>3, <1>4, <1>5, <1>6

LEMMA CommandOrder ==
    ASSUME Shapes, Order,
           FindTarget \/ CliRename \/ (\E pw \in NewPasswords : CliReset(pw)) \/ Interrupt \/ Stop
    PROVE  Order'
<1> USE DEF Shapes, Proc, Early
<1> "cli" \in Procs /\ "server" \in Procs
  BY DEF Procs
<1>1. CASE FindTarget \/ CliRename \/ (\E pw \in NewPasswords : CliReset(pw))
  <2> DEFINE Step(label) == /\ proc'["cli"].at = label /\ label # "copy"
                            /\ \A q \in Procs \ {"cli"} : proc'[q] = proc[q]
  <2>1. PICK label \in {"rename", "reset", "down"} : Step(label)
    <3>1. CASE FindTarget
      <4>1. Step("rename")
        BY <3>1 DEF FindTarget
      <4> QED BY <4>1
    <3>2. CASE CliRename
      <4>1. Step("reset") \/ Step("down")
        BY <3>2 DEF CliRename, Goes
      <4> QED BY <4>1
    <3>3. CASE \E pw \in NewPasswords : CliReset(pw)
      <4>1. Step("down")
        BY <3>3 DEF CliReset, Goes
      <4> QED BY <4>1
    <3> QED BY <1>1, <3>1, <3>2, <3>3
  <2>2. proc["cli"].at \notin {"down", "migrate", "copy"} /\ UNCHANGED <<schema, req>>
    BY <1>1 DEF FindTarget, CliRename, CliReset, tables, web
  <2>3. schema = "new"
    BY <2>2 DEF Order
  <2> QED BY <2>1, <2>2, <2>3, Moves
<1>2. CASE Interrupt
  BY <1>2 DEF Interrupt, Order, Procs, Off, web
<1>3. CASE Stop
  BY <1>3 DEF Stop, Order, Procs, Off, NoReq
<1> QED BY <1>1, <1>2, <1>3

\* Requests run on a server that is up.
LEMMA ServedOrder ==
    ASSUME Order, proc["server"].at = "up", UNCHANGED <<schema, proc>>
    PROVE  Order'
BY DEF Order

LEMMA RequestServed ==
    ASSUME Order, NEW r \in Requests,
           \/ Insert(r) \/ Disable(r) \/ SetPermissions(r) \/ CheckName(r) \/ Rename(r)
           \/ SetEnabled(r) \/ NameAvailable(r) \/ Change(r)
    PROVE  /\ req[r].at # "idle" /\ proc["server"].at = "up"
           /\ UNCHANGED <<schema, proc, copy>>
           /\ \A s \in Requests \ {r} : Shapes => req'[s] = req[s]
<1>1. req[r].at # "idle"
  BY DEF Insert, Disable, SetPermissions, CheckName, Rename, SetEnabled, NameAvailable, Change
<1>2. UNCHANGED <<schema, proc, copy>>
  BY DEF Insert, Disable, SetPermissions, CheckName, Rename, SetEnabled, NameAvailable, Change,
         start
<1>3. ASSUME NEW s \in Requests \ {r}, Shapes PROVE req'[s] = req[s]
  BY <1>3 DEF Insert, Disable, SetPermissions, CheckName, Rename, SetEnabled, NameAvailable,
              Change, Done, At, Shapes
<1> QED BY <1>1, <1>2, <1>3 DEF Order

LEMMA OneStepServed ==
    ASSUME OneStep
    PROVE  proc["server"].at = "up" /\ UNCHANGED <<schema, proc, copy>>
BY DEF OneStep, Login, Create, Patch, ResetPassword, ChangePassword, Begins, Serving, start

LEMMA OrderStep == ASSUME Shapes, Order, [AccNext]_accVars PROVE Order'
<1>1. CASE UNCHANGED accVars
  BY <1>1 DEF accVars, Order
<1>2. CASE OneStep
  BY <1>2, OneStepServed, ServedOrder
<1>3. ASSUME NEW r \in Requests,
             \/ Insert(r) \/ Disable(r) \/ SetPermissions(r) \/ CheckName(r) \/ Rename(r)
             \/ SetEnabled(r) \/ NameAvailable(r) \/ Change(r)
      PROVE  Order'
  BY <1>3, RequestServed, ServedOrder
<1> QED BY <1>1, <1>2, <1>3, StartOrder, CommandOrder DEF AccNext, OneStep
----------------------------------------------------------------------------
(* The copy of the migration *)

\* While the schema is the old one the table is only read, into the copy.
LEMMA OldSteps ==
    ASSUME AccInv, [AccNext]_accVars, schema' = "old"
    PROVE  /\ UNCHANGED users
           /\ \/ copy' = [i \in Ids |-> NoAccount]
              \/ UNCHANGED copy /\ \A p \in Procs : proc'[p].at = "copy" => proc[p].at = "copy"
              \/ \E p \in Procs : CopyRow(p)
<1> USE DEF AccInv
<1> DEFINE Goal == /\ UNCHANGED users
                   /\ \/ copy' = [i \in Ids |-> NoAccount]
                      \/ UNCHANGED copy /\ \A p \in Procs : proc'[p].at = "copy" => proc[p].at = "copy"
                      \/ \E p \in Procs : CopyRow(p)
<1>1. CASE UNCHANGED accVars
  BY <1>1 DEF accVars
<1>2. CASE OneStep
  <2>1. schema = "old"
    BY <1>2, OneStepServed
  <2> QED BY <1>2, <2>1, OneStepServed DEF Order, Early, Procs
<1>3. ASSUME NEW r \in Requests,
             \/ Insert(r) \/ Disable(r) \/ SetPermissions(r) \/ CheckName(r) \/ Rename(r)
             \/ SetEnabled(r) \/ NameAvailable(r) \/ Change(r)
      PROVE  Goal
  <2>1. schema = "old" /\ proc["server"].at = "up"
    BY <1>3, RequestServed
  <2> QED BY <2>1 DEF Order, Early, Procs
<1>4. ASSUME NEW p \in Procs, Launch(p) PROVE Goal
  <2>1. proc'[p].at = "migrate" /\ \A q \in Procs \ {p} : proc'[q] = proc[q]
    BY <1>4 DEF Launch, Off, Shapes
  <2>2. UNCHANGED <<users, copy>>
    BY <1>4 DEF Launch, tables
  <2> QED BY <2>1, <2>2
<1>5. ASSUME NEW p \in Procs, Migrate(p) PROVE Goal
  BY <1>5 DEF Migrate
<1>6. ASSUME NEW p \in Procs, CopyRow(p) PROVE Goal
  BY <1>6 DEF CopyRow
<1>7. ASSUME NEW p \in Procs,
             Commit(p) \/ ReadCredential(p) \/ CreateSuperadmin(p) \/ Import(p) \/ MarkMigrated(p)
      PROVE  FALSE
  <2>1. CASE Commit(p)
    BY <2>1 DEF Commit
  <2>2. CASE ReadCredential(p) \/ CreateSuperadmin(p) \/ Import(p) \/ MarkMigrated(p)
    <3>1. schema = "old" /\ proc[p].at \in {"credential", "superadmin", "import", "mark",
                                             "dropUser", "dropHash"}
      BY <2>2 DEF ReadCredential, CreateSuperadmin, Import, MarkMigrated, Settles, tables
    <3> QED BY <3>1 DEF Order, Early
  <2> QED BY <1>7, <2>1, <2>2
<1>8. CASE FindTarget \/ CliRename \/ (\E pw \in NewPasswords : CliReset(pw))
  <2>1. schema = "old" /\ proc["cli"].at \in {"up", "rename", "reset"}
    BY <1>8 DEF FindTarget, CliRename, CliReset, tables
  <2> QED BY <2>1 DEF Order, Early, Procs
<1>9. CASE Interrupt \/ Stop
  BY <1>9 DEF Interrupt, Stop
<1> QED BY <1>1, <1>2, <1>3, <1>4, <1>5, <1>6, <1>7, <1>8, <1>9 DEF AccNext, OneStep

LEMMA CopiedStep == ASSUME AccInv, Order', [AccNext]_accVars PROVE Copied'
<1> SUFFICES ASSUME NEW p \in Procs, proc'[p].at = "copy", NEW i \in Ids
             PROVE  copy'[i] = NoAccount \/ CopiedRow(i)'
  BY DEF Copied
<1>1. schema' = "old"
  BY DEF Order
<1>2. UNCHANGED users
  BY <1>1, OldSteps
<1>3. CASE copy' = [j \in Ids |-> NoAccount]
  BY <1>3
<1>4. CASE UNCHANGED copy /\ proc[p].at = "copy"
  BY <1>2, <1>4 DEF AccInv, Copied, CopiedRow
<1>5. ASSUME NEW q \in Procs, CopyRow(q) PROVE copy'[i] = NoAccount \/ CopiedRow(i)'
  <2>1. PICK k \in Ids : Used(k) /\ copy' = [copy EXCEPT ![k] = Converted(users[k])]
    BY <1>5 DEF CopyRow, Uncopied
  <2>2. CASE i = k
    <3>1. copy'[i] = Converted(users[i]) /\ users[i] \in RowOfUsers /\ users[i].role # "none"
      BY <2>1, <2>2 DEF AccInv, Shapes, Used
    <3>2. /\ copy'[i].role = "superadmin" <=> users[i].role = "superadmin"
          /\ copy'[i].role # "none"
          /\ copy'[i].name = users[i].name /\ copy'[i].enabled = users[i].enabled
      BY <3>1 DEF Converted, RowOfUsers
    <3> QED BY <1>2, <3>1, <3>2 DEF CopiedRow
  <2>3. CASE i # k
    <3>1. copy'[i] = copy[i] /\ proc[p].at = "copy"
      BY <1>5, <2>1, <2>3 DEF CopyRow, AccInv, Shapes
    <3> QED BY <1>2, <3>1 DEF AccInv, Copied, CopiedRow
  <2> QED BY <2>2, <2>3
<1> QED BY <1>1, <1>3, <1>4, <1>5, OldSteps

----------------------------------------------------------------------------
(* The superadmin, and what requests know of it *)

\* The creation of the superadmin is the way into a start that has one.
LEMMA BecomesReady ==
    ASSUME AccInv, [AccNext]_accVars, NEW p \in Procs, proc'[p].at \in Ready,
           \A q \in Procs : proc[q].at \notin Ready
    PROVE  CreateSuperadmin(p)
<1> USE DEF AccInv, Ready
<1>1. CASE UNCHANGED accVars
  BY <1>1 DEF accVars
<1>2. CASE OneStep
  BY <1>2, OneStepServed
<1>3. ASSUME NEW r \in Requests,
             \/ Insert(r) \/ Disable(r) \/ SetPermissions(r) \/ CheckName(r) \/ Rename(r)
             \/ SetEnabled(r) \/ NameAvailable(r) \/ Change(r)
      PROVE  FALSE
  BY <1>3, RequestServed
<1>4. ASSUME NEW q \in Procs, proc'[q].at \notin Ready,
             \A o \in Procs \ {q} : proc'[o] = proc[o]
      PROVE  FALSE
  BY <1>4
<1>5. ASSUME NEW q \in Procs, Launch(q) PROVE FALSE
  BY <1>4, <1>5 DEF Launch, Off, Shapes
<1>6. ASSUME NEW q \in Procs, Migrate(q) PROVE FALSE
  <2>1. /\ proc'[q].at = "credential" \/ proc'[q].at = "copy"
        /\ \A o \in Procs \ {q} : proc'[o] = proc[o]
    BY <1>6 DEF Migrate, Goes, Shapes, Proc
  <2> QED BY <1>4, <2>1
<1>7. ASSUME NEW q \in Procs, CopyRow(q) PROVE FALSE
  BY <1>7 DEF CopyRow
<1>8. ASSUME NEW q \in Procs, Commit(q) PROVE FALSE
  <2>1. proc'[q].at = "credential" /\ \A o \in Procs \ {q} : proc'[o] = proc[o]
    BY <1>8 DEF Commit, Goes, Shapes, Proc
  <2> QED BY <1>4, <2>1
<1>9. ASSUME NEW q \in Procs, ReadCredential(q) PROVE FALSE
  <2>1. proc'[q].at = "superadmin" /\ \A o \in Procs \ {q} : proc'[o] = proc[o]
    BY <1>9 DEF ReadCredential, Shapes, Proc
  <2> QED BY <1>4, <2>1
<1>10. ASSUME NEW q \in Procs, Import(q) \/ MarkMigrated(q) PROVE FALSE
  BY <1>10 DEF Import, MarkMigrated, Settles
<1>11. ASSUME NEW q \in Procs, CreateSuperadmin(q) PROVE q = p
  <2>1. \A o \in Procs \ {q} : proc'[o] = proc[o]
    BY <1>11 DEF CreateSuperadmin, Goes, Shapes, Proc
  <2> QED BY <2>1
<1>12. CASE FindTarget \/ CliRename \/ (\E pw \in NewPasswords : CliReset(pw))
  BY <1>12 DEF FindTarget, CliRename, CliReset, Procs
<1>13. CASE Interrupt \/ Stop
  BY <1>4, <1>13 DEF Interrupt, Stop, Off, Shapes, Procs
<1> QED BY <1>1, <1>2, <1>3, <1>5, <1>6, <1>7, <1>8, <1>9, <1>10, <1>11, <1>12, <1>13
        DEF AccNext, OneStep

LEMMA SuperThereStep == ASSUME AccInv, [AccNext]_accVars PROVE SuperThere'
<1> SUFFICES ASSUME NEW p \in Procs, proc'[p].at \in Ready
             PROVE  \E i \in Ids : IsSuper(i)'
  BY DEF SuperThere
<1>1. Effect
  BY StepEffect
<1>2. ASSUME NEW s \in Ids, IsSuper(s) PROVE \E i \in Ids : IsSuper(i)'
  BY <1>1, <1>2, EffectStays
<1>3. CASE \E q \in Procs : proc[q].at \in Ready
  BY <1>2, <1>3 DEF AccInv, SuperThere
<1>4. CASE \A q \in Procs : proc[q].at \notin Ready
  <2>1. CreateSuperadmin(p)
    BY <1>4, BecomesReady
  <2>2. CASE Named("superadmin") # {}
    BY <1>2, <2>2 DEF AccInv, SuperNamed, Named
  <2>3. CASE Named("superadmin") = {}
    <3>1. Unused # {}
          /\ users' = [users EXCEPT ![Fresh] = NewRow("superadmin", "default", "superadmin", {})]
      BY <2>1, <2>3 DEF CreateSuperadmin
    <3>2. PICK k \in Ids : k = Fresh
      BY <3>1, UnusedChoice
    <3>3. users'[k].role = "superadmin"
      BY <3>1, <3>2 DEF NewRow, AccInv, Shapes
    <3> QED BY <3>3 DEF IsSuper
  <2> QED BY <2>2, <2>3
<1> QED BY <1>3, <1>4

\* What a request r remembers of account i.
Remembers(r, i) ==
    req[r].id = i =>
        /\ req[r].at \in {"disable", "rename"} => ~IsSuper(i)
        /\ req[r].at \in {"available", "change"} => (IsSuper(i) <=> req[r].read = "superadmin")

LEMMA RemembersIdle ==
    ASSUME NEW r, NEW i, req'[r].at \in {"idle", "insert", "grant", "check", "enable"}
    PROVE  Remembers(r, i)'
BY DEF Remembers

\* What waits is still true: tiers do not change where there is a superadmin.
LEMMA RemembersWaiting ==
    ASSUME AccInv, [AccNext]_accVars, NEW r \in Requests, NEW i \in Ids, req'[r] = req[r]
    PROVE  Remembers(r, i)'
<1>1. CASE req[r].at = "idle"
  BY <1>1, RemembersIdle
<1>2. CASE req[r].at # "idle"
  <2>1. PICK s \in Ids : IsSuper(s)
    BY <1>2, SuperWhereReady
  <2>2. IsSuper(i)' <=> IsSuper(i)
    BY <2>1, StepEffect, EffectStays, EffectNobody DEF AccInv
  <2> QED BY <2>2 DEF Remembers, AccInv, TierKnown
<1> QED BY <1>1, <1>2

\* A request that begins.
LEMMA RemembersBegins ==
    ASSUME AccInv, [AccNext]_accVars, OneStep, NEW r \in Requests, NEW i \in Ids
    PROVE  Remembers(r, i)'
<1> USE DEF AccInv
<1>1. CASE UNCHANGED req
  BY <1>1, RemembersWaiting
<1>2. ASSUME NEW t \in Requests, NEW q, Begins(t, q),
             q.at \in {"insert", "grant"} \/ (t = r => req'[r] = q /\ Remembers(r, i)')
      PROVE  Remembers(r, i)'
  <2>1. CASE t = r
    <3>1. req'[r] = q
      BY <1>2, <2>1 DEF Begins, Shapes
    <3> QED BY <1>2, <2>1, <3>1, RemembersIdle
  <2>2. CASE t # r
    <3>1. req'[r] = req[r]
      BY <1>2, <2>2 DEF Begins, Shapes
    <3> QED BY <3>1, RemembersWaiting
  <2> QED BY <2>1, <2>2
<1>3. ASSUME NEW n \in Names, NEW pw \in Passwords, Login(n, pw) PROVE Remembers(r, i)'
  BY <1>1, <1>3 DEF Login
<1>4. ASSUME NEW t \in Requests, NEW c \in Creations, Create(t, c) PROVE Remembers(r, i)'
  <2> DEFINE q == [NoReq EXCEPT !.at = "insert", !.name = c.name, !.grant = c.grant,
                                !.enabled = c.enabled]
  <2>1. q.at = "insert"
    BY DEF NoReq
  <2>2. Begins(t, q)
    BY <1>4 DEF Create
  <2> HIDE DEF q
  <2> QED BY <1>2, <2>1, <2>2
<1>5. ASSUME NEW t \in Requests, NEW k \in Ids, NEW c \in Patches, Patch(t, k, c)
      PROVE  Remembers(r, i)'
  <2> DEFINE q == [NoReq EXCEPT !.at = "grant", !.id = k, !.granting = c.granting,
                                !.grant = c.grant, !.name = c.name, !.enabled = c.enabled]
  <2>1. q.at = "grant"
    BY DEF NoReq
  <2>2. Begins(t, q)
    BY <1>5 DEF Patch
  <2> HIDE DEF q
  <2> QED BY <1>2, <2>1, <2>2
<1>6. ASSUME NEW t \in Requests, NEW k \in Ids, NEW pw \in NewPasswords, ResetPassword(t, k, pw)
      PROVE  Remembers(r, i)'
  BY <1>1, <1>6 DEF ResetPassword
<1>7. ASSUME NEW t \in Requests, NEW k \in Ids, NEW old \in Passwords, NEW pw \in NewPasswords,
             ChangePassword(t, k, old, pw)
      PROVE  Remembers(r, i)'
  <2> DEFINE q == [NoReq EXCEPT !.at = "available", !.id = k, !.password = pw,
                                !.read = users[k].name]
  <2>1. q.at = "available" /\ q.id = k /\ q.read = users[k].name
    BY DEF NoReq
  <2>2. Begins(t, q) /\ UNCHANGED users
    BY <1>7 DEF ChangePassword, Begins
  <2> HIDE DEF q
  <2>3. ASSUME t = r PROVE req'[r] = q /\ Remembers(r, i)'
    <3>1. req'[r] = q
      BY <2>2, <2>3 DEF Begins, Shapes
    <3>2. IsSuper(k) <=> users[k].name = "superadmin"
      BY DEF SuperNamed
    <3> QED BY <2>1, <2>2, <3>1, <3>2 DEF Remembers, IsSuper
  <2> QED BY <1>2, <2>2, <2>3
<1> QED BY <1>3, <1>4, <1>5, <1>6, <1>7 DEF OneStep

\* A request that goes on.
LEMMA RemembersGoesOn ==
    ASSUME AccInv, [AccNext]_accVars, NEW r \in Requests, NEW i \in Ids,
           \/ Insert(r) \/ Disable(r) \/ SetPermissions(r) \/ CheckName(r) \/ Rename(r)
           \/ SetEnabled(r) \/ NameAvailable(r) \/ Change(r)
    PROVE  Remembers(r, i)'
<1> USE DEF AccInv
<1>1. ASSUME Done(r) PROVE Remembers(r, i)'
  <2>1. req'[r].at = "idle"
    BY <1>1 DEF Done, NoReq, Shapes
  <2> QED BY <2>1, RemembersIdle
<1>2. ASSUME NEW label \in {"check", "enable"}, At(r, label) PROVE Remembers(r, i)'
  <2>1. req'[r].at = label
    BY <1>2 DEF At, Shapes, Req
  <2> QED BY <2>1, RemembersIdle
<1>3. CASE Insert(r)
  <2>1. CASE /\ Unused # {} /\ req' = [req EXCEPT ![r].at = "disable", ![r].id = Fresh]
             /\ users' = [users EXCEPT ![Fresh] = NewRow(req[r].name, "default", "user", req[r].grant)]
    <3>1. PICK k \in Ids : k = Fresh
      BY <2>1, UnusedChoice
    <3>2. users'[k].role = "user"
      BY <2>1, <3>1 DEF NewRow, Shapes
    <3>3. req'[r].at = "disable" /\ req'[r].id = k
      BY <2>1, <3>1 DEF Shapes, Req
    <3> QED BY <3>2, <3>3 DEF Remembers, IsSuper
  <2> QED BY <1>1, <1>3, <2>1 DEF Insert
<1>4. CASE Disable(r) \/ SetEnabled(r) \/ Change(r)
  BY <1>1, <1>4 DEF Disable, SetEnabled, Change
<1>5. CASE SetPermissions(r)
  BY <1>1, <1>2, <1>5 DEF SetPermissions
<1>6. CASE Rename(r)
  BY <1>1, <1>2, <1>6 DEF Rename
<1>7. CASE CheckName(r)
  <2>1. CASE MayRename(req[r].id, req[r].name) /\ At(r, "rename")
    <3>1. req'[r].at = "rename" /\ req'[r].id = req[r].id
      BY <2>1 DEF At, Shapes, Req
    <3>2. ~IsSuper(req[r].id) /\ UNCHANGED users
      BY <1>7, <2>1 DEF MayRename, CheckName
    <3> QED BY <3>1, <3>2 DEF Remembers, IsSuper
  <2> QED BY <1>1, <1>2, <1>7, <2>1 DEF CheckName
<1>8. CASE NameAvailable(r)
  <2>1. CASE At(r, "change")
    <3>1. req'[r].at = "change" /\ req'[r].id = req[r].id /\ req'[r].read = req[r].read
      BY <2>1 DEF At, Shapes, Req
    <3>2. req[r].at = "available" /\ UNCHANGED users
      BY <1>8 DEF NameAvailable
    <3> QED BY <3>1, <3>2 DEF Remembers, TierKnown, IsSuper
  <2> QED BY <1>1, <1>8, <2>1 DEF NameAvailable
<1> QED BY <1>3, <1>4, <1>5, <1>6, <1>7, <1>8

LEMMA TierKnownStep == ASSUME AccInv, [AccNext]_accVars PROVE TierKnown'
<1> SUFFICES ASSUME NEW r \in Requests, NEW i \in Ids PROVE Remembers(r, i)'
  BY DEF TierKnown, Remembers
<1>1. CASE UNCHANGED req
  BY <1>1, RemembersWaiting
<1>2. CASE OneStep
  BY <1>2, RemembersBegins
<1>3. ASSUME NEW t \in Requests,
             \/ Insert(t) \/ Disable(t) \/ SetPermissions(t) \/ CheckName(t) \/ Rename(t)
             \/ SetEnabled(t) \/ NameAvailable(t) \/ Change(t)
      PROVE  Remembers(r, i)'
  <2>1. CASE t = r
    BY <1>3, <2>1, RemembersGoesOn
  <2>2. CASE t # r
    BY <1>3, <2>2, RequestServed, RemembersWaiting DEF AccInv
  <2> QED BY <2>1, <2>2
<1>4. ASSUME NEW p \in Procs,
             \/ Launch(p) \/ Migrate(p) \/ CopyRow(p) \/ Commit(p) \/ ReadCredential(p)
             \/ CreateSuperadmin(p) \/ Import(p) \/ MarkMigrated(p)
      PROVE  UNCHANGED req
  BY <1>4 DEF Launch, Migrate, CopyRow, Commit, ReadCredential, CreateSuperadmin, Import,
              MarkMigrated, Settles, web
<1>5. CASE FindTarget \/ CliRename \/ (\E pw \in NewPasswords : CliReset(pw)) \/ Interrupt
  BY <1>1, <1>5 DEF FindTarget, CliRename, CliReset, Interrupt, web
<1>6. CASE Stop
  <2>1. req'[r].at = "idle"
    BY <1>6 DEF Stop, NoReq
  <2> QED BY <2>1, RemembersIdle
<1>7. CASE UNCHANGED accVars
  BY <1>1, <1>7 DEF accVars
<1> QED BY <1>1, <1>2, <1>3, <1>4, <1>5, <1>6, <1>7 DEF AccNext, OneStep

----------------------------------------------------------------------------
(* The theorems *)

LEMMA RoleRowsRows ==
    ASSUME NEW i \in Ids
    PROVE  /\ RoleRows(i) \in RowOfUsers
           /\ RoleRows(i).role = "superadmin" <=> RoleRows(i).name = "superadmin"
           /\ RoleRows(i).role = "superadmin" => RoleRows(i).enabled
<1> DEFINE a == CHOOSE j \in Ids : TRUE
           b == CHOOSE j \in Ids \ {a} : TRUE
<1>1. CASE i = a
  <2>1. RoleRows(i) = NewRow("superadmin", "old", "superadmin", {})
    BY <1>1 DEF RoleRows
  <2>2. NewRow("superadmin", "old", "superadmin", {}) \in RowOfUsers
    BY RecordTypes, AccountsAssumption DEF Roles, FixedRoles
  <2> QED BY <2>1, <2>2 DEF NewRow
<1>2. CASE i # a /\ i = b
  <2>1. RoleRows(i) = NewRow("admin", "old", "operator", {})
    BY <1>2 DEF RoleRows
  <2>2. NewRow("admin", "old", "operator", {}) \in RowOfUsers
    BY RecordTypes, AccountsAssumption DEF Roles, FixedRoles
  <2> QED BY <2>1, <2>2 DEF NewRow
<1>3. CASE i # a /\ i # b
  <2>1. RoleRows(i) = NoAccount
    BY <1>3 DEF RoleRows
  <2> QED BY <2>1, RecordTypes, AccountsAssumption DEF NoAccount
<1> QED BY <1>1, <1>2, <1>3

LEMMA RoleRowsUnique ==
    ASSUME NEW i \in Ids, NEW j \in Ids, RoleRows(i).role # "none", RoleRows(j).role # "none",
           RoleRows(i).name = RoleRows(j).name
    PROVE  i = j
<1> DEFINE a == CHOOSE k \in Ids : TRUE
           b == CHOOSE k \in Ids \ {a} : TRUE
<1>1. ASSUME NEW k \in Ids, RoleRows(k).role # "none"
      PROVE  /\ k = a \/ (k # a /\ k = b)
             /\ k = a => RoleRows(k).name = "superadmin"
             /\ k # a => RoleRows(k).name = "admin"
  <2>1. CASE k = a
    <3>1. RoleRows(k) = NewRow("superadmin", "old", "superadmin", {})
      BY <2>1 DEF RoleRows
    <3> HIDE DEF a, b
    <3> QED BY <2>1, <3>1 DEF NewRow
  <2>2. CASE k # a /\ k = b
    BY <2>2 DEF RoleRows, NewRow
  <2>3. CASE k # a /\ k # b
    BY <1>1, <2>3 DEF RoleRows, NoAccount
  <2> QED BY <2>1, <2>2, <2>3
<1> HIDE DEF a, b
<1> QED BY <1>1

LEMMA AccInvInit == ASSUME AccInit PROVE AccInv
<1> USE RecordTypes, AccountsAssumption
<1>1. PICK d \in Databases, u \in LegacyUsers :
        /\ schema = IF d = "roles" THEN "old" ELSE "new"
        /\ users = [i \in Ids |-> IF d = "roles" THEN RoleRows(i) ELSE NoAccount]
        /\ settings = IF d = "credential"
                      THEN [done |-> FALSE, user |-> u, hash |-> TRUE]
                      ELSE [done |-> FALSE, user |-> NoName, hash |-> FALSE]
  BY DEF AccInit
<1>2. /\ copy = [i \in Ids |-> NoAccount] /\ proc = [p \in Procs |-> Off]
      /\ req = [r \in Requests |-> NoReq]
  BY DEF AccInit
<1>3. \A i \in Ids : users[i] = RoleRows(i) \/ users[i] = NoAccount
  BY <1>1
<1>4. Shapes
  <2>1. users \in [Ids -> RowOfUsers]
    BY <1>1, RoleRowsRows
  <2>2. settings \in [done : BOOLEAN, user : Names \cup {NoName}, hash : BOOLEAN]
    BY <1>1
  <2> QED BY <1>2, <2>1, <2>2 DEF Shapes
<1>5. Order /\ Copied /\ SuperThere /\ TierKnown
  BY <1>1, <1>2 DEF Order, Copied, SuperThere, TierKnown, Off, NoReq, Early, Ready, Procs
<1>6. SuperNamed
  <2> SUFFICES ASSUME NEW i \in Ids
               PROVE  /\ users[i].role = "superadmin" <=> users[i].name = "superadmin"
                      /\ users[i].role = "superadmin" => users[i].enabled
    BY DEF SuperNamed, IsSuper
  <2>1. CASE users[i] = RoleRows(i)
    BY <2>1, RoleRowsRows
  <2>2. CASE users[i] = NoAccount
    BY <2>2 DEF NoAccount
  <2> QED BY <1>3, <2>1, <2>2
<1>7. NamesUnique
  BY <1>3, RoleRowsUnique DEF NamesUnique, Used, NoAccount
<1> QED BY <1>4, <1>5, <1>6, <1>7 DEF AccInv

LEMMA AccInvStep == ASSUME AccInv, [AccNext]_accVars PROVE AccInv'
<1>1. Shapes' /\ Order'
  BY ShapesStep, OrderStep DEF AccInv
<1>2. NamesUnique' /\ SuperNamed'
  BY StepEffect, EffectNames, EffectSuper DEF AccInv
<1> QED BY <1>1, <1>2, CopiedStep, SuperThereStep, TierKnownStep DEF AccInv

LEMMA AccInvHolds == AccSpec => []AccInv
BY AccInvInit, AccInvStep, PTL DEF AccSpec

\* Names stay unique, for all requests, starts and runs of the command line: the
\* constraint of the column decides where two statements overlap (users.rs).
THEOREM NamesUniqueHolds == AccSpec => []NamesUnique
<1>1. AccInv => NamesUnique
  BY DEF AccInv
<1> QED BY <1>1, AccInvHolds, PTL

\* A server that is up has its one superadmin, enabled and under its name
\* (bootstrap, set_username, set_enabled, change_credential of users.rs).
THEOREM OneSuperadminHolds == AccSpec => []OneSuperadmin
<1>1. ASSUME AccInv PROVE OneSuperadmin
  <2> USE <1>1 DEF AccInv
  <2>1. SUFFICES ASSUME Serving
                 PROVE  \E i \in Ids : /\ IsSuper(i) /\ users[i].enabled
                                       /\ users[i].name = "superadmin"
                                       /\ \A j \in Ids : IsSuper(j) => j = i
    BY DEF OneSuperadmin
  <2>2. PICK s \in Ids : IsSuper(s)
    BY <2>1 DEF Serving, SuperThere, Ready, Procs
  <2>3. users[s].enabled /\ users[s].name = "superadmin"
    BY <2>2 DEF SuperNamed
  <2>4. ASSUME NEW j \in Ids, IsSuper(j) PROVE j = s
    BY <2>2, <2>3, <2>4 DEF SuperNamed, NamesUnique, Used, IsSuper
  <2> QED BY <2>2, <2>3, <2>4
<1> QED BY <1>1, AccInvHolds, PTL

----------------------------------------------------------------------------
(* A start keeps the accounts *)

\* The copy of a row is the conversion of it.
CopiedWhole ==
    \A p \in Procs : proc[p].at = "copy"
        => \A i \in Ids : copy[i] = NoAccount \/ copy[i] = Converted(users[i])

LEMMA CopiedWholeStep ==
    ASSUME AccInv, CopiedWhole, Order', [AccNext]_accVars
    PROVE  CopiedWhole'
<1> SUFFICES ASSUME NEW p \in Procs, proc'[p].at = "copy", NEW i \in Ids
             PROVE  copy'[i] = NoAccount \/ copy'[i] = Converted(users'[i])
  BY DEF CopiedWhole
<1>1. schema' = "old"
  BY DEF Order
<1>2. UNCHANGED users
  BY <1>1, OldSteps
<1>3. CASE copy' = [j \in Ids |-> NoAccount]
  BY <1>3
<1>4. CASE UNCHANGED copy /\ proc[p].at = "copy"
  BY <1>2, <1>4 DEF CopiedWhole
<1>5. ASSUME NEW q \in Procs, CopyRow(q)
      PROVE  copy'[i] = NoAccount \/ copy'[i] = Converted(users'[i])
  <2>1. PICK k \in Ids : copy' = [copy EXCEPT ![k] = Converted(users[k])]
    BY <1>5 DEF CopyRow, Uncopied
  <2>2. copy \in [Ids -> RowOfUsers] /\ proc[p].at = "copy"
    BY <1>5 DEF CopyRow, AccInv, Shapes
  <2>3. copy'[i] = IF i = k THEN Converted(users[i]) ELSE copy[i]
    BY <2>1, <2>2
  <2> QED BY <1>2, <2>2, <2>3 DEF CopiedWhole
<1> QED BY <1>1, <1>3, <1>4, <1>5, OldSteps

\* The new schema grants what the old one did.
LEMMA ConvertedGrants ==
    ASSUME NEW row \in RowOfUsers, row.role # "none"
    PROVE  /\ Converted(row).name = row.name /\ Converted(row).password = row.password
           /\ Converted(row).enabled = row.enabled
           /\ Effective(Converted(row)) = OfRole(row.role)
<1>1. row.role \in {"superadmin", "admin", "operator", "auditor", "user"}
  BY DEF RowOfUsers, Roles, FixedRoles
<1>2. Assignable # {} /\ Operator # {} /\ Auditor # {}
  BY DEF Assignable, Operator, Auditor
<1>3. CASE row.role = "superadmin"
  <2>1. Converted(row) = [row EXCEPT !.grant = {}]
    BY <1>3 DEF Converted
  <2> QED BY <1>3, <2>1 DEF RowOfUsers, Effective, OfRole
<1>4. ASSUME NEW grant, Converted(row) = [row EXCEPT !.role = "user", !.grant = grant],
             OfRole(row.role) = IF grant = {} THEN OfRole("user") ELSE grant
      PROVE  /\ Converted(row).name = row.name /\ Converted(row).password = row.password
             /\ Converted(row).enabled = row.enabled
             /\ Effective(Converted(row)) = OfRole(row.role)
  <2>1. /\ Converted(row).name = row.name /\ Converted(row).password = row.password
        /\ Converted(row).enabled = row.enabled
        /\ Converted(row).role = "user" /\ Converted(row).grant = grant
    BY <1>4 DEF RowOfUsers
  <2> QED BY <1>4, <2>1 DEF Effective
<1>5. CASE row.role = "admin"
  <2>1. Converted(row) = [row EXCEPT !.role = "user", !.grant = Assignable]
    BY <1>5 DEF Converted
  <2>2. OfRole(row.role) = Assignable
    BY <1>5 DEF OfRole
  <2> QED BY <1>2, <1>4, <2>1, <2>2
<1>6. CASE row.role = "operator"
  <2>1. Converted(row) = [row EXCEPT !.role = "user", !.grant = Operator]
    BY <1>6 DEF Converted
  <2>2. OfRole(row.role) = Operator
    BY <1>6 DEF OfRole
  <2> QED BY <1>2, <1>4, <2>1, <2>2
<1>7. CASE row.role = "auditor"
  <2>1. Converted(row) = [row EXCEPT !.role = "user", !.grant = Auditor]
    BY <1>7 DEF Converted
  <2>2. OfRole(row.role) = Auditor
    BY <1>7 DEF OfRole
  <2> QED BY <1>2, <1>4, <2>1, <2>2
<1>8. CASE row.role = "user"
  <2>1. Converted(row) = [row EXCEPT !.role = "user", !.grant = {}]
    BY <1>8 DEF Converted
  <2>2. OfRole(row.role) = OfRole("user")
    BY <1>8
  <2> QED BY <1>4, <2>1, <2>2
<1> QED BY <1>1, <1>3, <1>5, <1>6, <1>7, <1>8

\* Account i is as it was, and grants what it did.
KeepsAccount(i) ==
    /\ users'[i].name = users[i].name /\ users'[i].password = users[i].password
    /\ users'[i].enabled = users[i].enabled
    /\ GrantedBy(schema', users'[i]) = GrantedBy(schema, users[i])

\* What a start, or a stop, makes of the accounts there are.
LEMMA StartKeeps ==
    ASSUME AccInv, CopiedWhole, NEW p \in Procs,
           \/ Launch(p) \/ Migrate(p) \/ CopyRow(p) \/ Commit(p) \/ ReadCredential(p)
           \/ CreateSuperadmin(p) \/ Import(p) \/ MarkMigrated(p) \/ Interrupt \/ Stop,
           NEW i \in Ids, Used(i)
    PROVE  KeepsAccount(i)
<1>1. CASE \/ Launch(p) \/ Migrate(p) \/ CopyRow(p) \/ ReadCredential(p) \/ MarkMigrated(p)
           \/ Interrupt \/ Stop
  <2>1. UNCHANGED <<users, schema>>
    BY <1>1 DEF Launch, Migrate, CopyRow, ReadCredential, MarkMigrated, Settles, tables,
                Interrupt, Stop
  <2> QED BY <2>1 DEF KeepsAccount
<1>2. CASE Commit(p)
  <2>1. users' = copy /\ schema' = "new" /\ proc[p].at = "copy" /\ schema = "old"
        /\ copy[i] # NoAccount
    BY <1>2 DEF Commit, Uncopied, AccInv, Order
  <2>2. users'[i] = Converted(users[i])
    BY <2>1 DEF CopiedWhole
  <2>3. users[i] \in RowOfUsers /\ users[i].role # "none"
    BY DEF AccInv, Shapes, Used
  <2>4. GrantedBy(schema, users[i]) = OfRole(users[i].role)
        /\ GrantedBy(schema', users'[i]) = Effective(users'[i])
    BY <2>1 DEF GrantedBy
  <2> QED BY <2>2, <2>3, <2>4, ConvertedGrants DEF KeepsAccount
<1>3. CASE CreateSuperadmin(p) \/ Import(p)
  <2>1. UNCHANGED schema
    BY <1>3 DEF CreateSuperadmin, Import
  <2>2. users' = users \/ (Unused # {} /\ \E row : users' = [users EXCEPT ![Fresh] = row])
    BY <1>3 DEF CreateSuperadmin, Import
  <2>3. users'[i] = users[i]
    <3>1. CASE Unused # {} /\ \E row : users' = [users EXCEPT ![Fresh] = row]
      <4>1. Fresh # i
        BY <3>1, UnusedChoice
      <4> QED BY <3>1, <4>1 DEF AccInv, Shapes
    <3> QED BY <2>2, <3>1
  <2> QED BY <2>1, <2>3 DEF KeepsAccount
<1> QED BY <1>1, <1>2, <1>3

\* Starting, stopping and the migration leave every account with its name, its
\* password and what it may do (db.rs, main.rs).
THEOREM StartKeepsHolds == AccSpec => StartKeepsAccounts
<1> DEFINE Moving == \E p \in Procs : proc'[p] # proc[p] /\ proc[p].at \notin {"up", "rename", "reset"}
           Keeping == Moving => \A i \in Ids : Used(i) =>
              /\ users'[i].name = users[i].name /\ users'[i].password = users[i].password
              /\ users'[i].enabled = users[i].enabled
              /\ GrantedBy(schema', users'[i]) = GrantedBy(schema, users[i])
<1>1. AccInit => CopiedWhole
  BY DEF AccInit, CopiedWhole, Off
<1>2. AccInv /\ CopiedWhole /\ [AccNext]_accVars => CopiedWhole'
  BY AccInvStep, CopiedWholeStep DEF AccInv
<1>3. AccInv /\ CopiedWhole /\ [AccNext]_accVars => [Keeping]_accVars
  <2> SUFFICES ASSUME AccInv, CopiedWhole, AccNext,
                      NEW p \in Procs, proc'[p] # proc[p], proc[p].at \notin {"up", "rename", "reset"},
                      NEW i \in Ids, Used(i)
               PROVE  KeepsAccount(i)
    BY DEF KeepsAccount
  <2>1. ~OneStep
    BY OneStepServed
  <2>2. \A r \in Requests :
           ~(\/ Insert(r) \/ Disable(r) \/ SetPermissions(r) \/ CheckName(r) \/ Rename(r)
             \/ SetEnabled(r) \/ NameAvailable(r) \/ Change(r))
    BY RequestServed DEF AccInv
  <2>3. ~(FindTarget \/ CliRename \/ \E pw \in NewPasswords : CliReset(pw))
    BY DEF FindTarget, CliRename, CliReset, Goes, AccInv, Shapes, Procs
  <2>4. \E q \in Procs :
           \/ Launch(q) \/ Migrate(q) \/ CopyRow(q) \/ Commit(q) \/ ReadCredential(q)
           \/ CreateSuperadmin(q) \/ Import(q) \/ MarkMigrated(q) \/ Interrupt \/ Stop
    BY <2>1, <2>2, <2>3 DEF AccNext, OneStep
  <2> QED BY <2>4, StartKeeps
<1> QED BY <1>1, <1>2, <1>3, AccInvHolds, PTL DEF AccSpec, StartKeepsAccounts

----------------------------------------------------------------------------
(* The old credential is imported once *)

\* No later start reads a credential.
Exhausted == settings.done \/ ~settings.hash \/ settings.user = NoName

\* What a start has read of the credential, and what has become of its mark.
Credential(p) ==
    /\ proc[p].at = "superadmin" =>
         IF proc[p].legacy = NoName THEN Exhausted ELSE proc[p].legacy = settings.user /\ ~Exhausted
    /\ proc[p].at = "import" =>
         proc[p].legacy # NoName /\ proc[p].legacy = settings.user /\ ~Exhausted
    /\ proc[p].at = "dropUser" => settings.done \/ failures >= 1
    /\ proc[p].at = "dropHash" => Exhausted \/ failures >= 2
    /\ proc[p].at \in {"up", "rename", "reset"} => Exhausted

ImportInv ==
    /\ imports \in {0, 1} /\ failures \in 0 .. MaxDbFailures
    /\ \A p \in Procs : Credential(p)
    /\ imports = 1 => Exhausted \/ Named(ImportName(settings.user)) # {}

Starting == {"credential", "superadmin", "import", "mark", "dropUser", "dropHash"}

\* One program starts at a time.
LEMMA OneStarts ==
    ASSUME Order, NEW p \in Procs, proc[p].at \notin {"down", "up", "find", "rename", "reset"},
           NEW q \in Procs, q # p
    PROVE  proc[q].at \in {"down", "up"}
BY DEF Order, Procs

\* A step that leaves the settings alone leaves the other program's credential alone.
LEMMA SameCredential ==
    ASSUME NEW q, Credential(q), proc'[q] = proc[q], UNCHANGED settings,
           failures' >= failures, failures \in Nat, failures' \in Nat
    PROVE  Credential(q)'
BY DEF Credential, Exhausted

\* One that is down has none.
LEMMA DownCredential ==
    ASSUME NEW q, proc[q].at \in {"down", "migrate", "copy", "credential", "mark", "find"}
    PROVE  Credential(q)
BY DEF Credential

\* Accounts keep their names, but where a request or the command line renames one.
NamesStay == \A n : Named(n) # {} => Named(n)' # {}

LEMMA KeptNames ==
    ASSUME NEW k, \A i \in Ids : Used(i) => Used(i)' /\ users'[i].name = users[i].name
    PROVE  NamesStay
BY DEF NamesStay, Named

LEMMA GoesFacts ==
    ASSUME Shapes, NEW p \in Procs, NEW label, Goes(p, label)
    PROVE  /\ proc'[p].at = label /\ proc'[p].legacy = proc[p].legacy
           /\ \A q \in Procs \ {p} : proc'[q] = proc[q]
BY DEF Goes, Shapes, Proc

\* A step that changes no setting, of one program at most.
LEMMA QuietImport ==
    ASSUME ImportInv, MaxDbFailures \in Nat, NEW p \in Procs,
           \A q \in Procs \ {p} : proc'[q] = proc[q], Credential(p)',
           UNCHANGED <<settings, failures, imports>>, Exhausted \/ NamesStay
    PROVE  ImportInv'
<1>1. ASSUME NEW q \in Procs PROVE Credential(q)'
  <2>1. CASE q = p
    BY <2>1
  <2>2. CASE q # p
    <3>1. failures \in Nat /\ failures' = failures /\ proc'[q] = proc[q] /\ Credential(q)
      BY <2>2 DEF ImportInv
    <3> QED BY <3>1, SameCredential
  <2> QED BY <2>1, <2>2
<1>2. imports' = 1 => Exhausted' \/ Named(ImportName(settings.user))' # {}
  BY DEF ImportInv, Exhausted, NamesStay, Named, Used, ImportName
<1> QED BY <1>1, <1>2 DEF ImportInv

\* Requests are handled where no start reads a credential any more.
LEMMA ServedImport ==
    ASSUME ImportInv, MaxDbFailures \in Nat, proc["server"].at = "up",
           UNCHANGED <<proc, settings, failures, imports>>
    PROVE  ImportInv'
<1>1. "server" \in Procs
  BY DEF Procs
<1>2. Exhausted /\ Credential("server")'
  BY <1>1 DEF ImportInv, Credential, Exhausted
<1> QED BY <1>1, <1>2, QuietImport

LEMMA CommandImport ==
    ASSUME Shapes, ImportInv, MaxDbFailures \in Nat,
           FindTarget \/ CliRename \/ (\E pw \in NewPasswords : CliReset(pw))
    PROVE  ImportInv'
<1> "cli" \in Procs
  BY DEF Procs
<1>1. proc["cli"].at \in {"up", "rename", "reset"} /\ UNCHANGED <<settings, failures, imports>>
  BY DEF FindTarget, CliRename, CliReset, tables
<1>2. Exhausted
  BY <1>1 DEF ImportInv, Credential
<1>3. /\ proc'["cli"].at \in {"rename", "reset", "down"}
      /\ \A q \in Procs \ {"cli"} : proc'[q] = proc[q]
  <2>1. CASE FindTarget
    BY <2>1 DEF FindTarget, Shapes, Proc
  <2>2. CASE CliRename \/ (\E pw \in NewPasswords : CliReset(pw))
    <3>1. Goes("cli", "reset") \/ Goes("cli", "down")
      BY <2>2 DEF CliRename, CliReset
    <3> QED BY <3>1, GoesFacts
  <2> QED BY <2>1, <2>2
<1>4. Credential("cli")'
  BY <1>1, <1>2, <1>3 DEF Credential, Exhausted
<1> QED BY <1>1, <1>2, <1>3, <1>4, QuietImport

LEMMA EndImport ==
    ASSUME Shapes, ImportInv, MaxDbFailures \in Nat, Interrupt \/ Stop
    PROVE  ImportInv'
<1>1. UNCHANGED <<users, settings, failures, imports>>
  BY DEF Interrupt, Stop
<1>2. PICK p \in Procs : proc'[p].at = "down" /\ \A q \in Procs \ {p} : proc'[q] = proc[q]
  BY DEF Interrupt, Stop, Shapes, Off, Procs
<1>3. NamesStay
  BY <1>1 DEF NamesStay, Named, Used
<1>4. Credential(p)'
  BY <1>2 DEF Credential
<1> QED BY <1>1, <1>2, <1>3, <1>4, QuietImport

\* The beginning of a start, up to the reading of the credential.
LEMMA BeginImport ==
    ASSUME AccInv, ImportInv, MaxDbFailures \in Nat, NEW p \in Procs,
           Launch(p) \/ Migrate(p) \/ CopyRow(p) \/ Commit(p) \/ ReadCredential(p)
    PROVE  ImportInv'
<1>1. UNCHANGED <<settings, failures, imports>> /\ Shapes
  BY DEF Launch, Migrate, CopyRow, Commit, ReadCredential, tables, AccInv
<1>2. \A q \in Procs \ {p} : proc'[q] = proc[q]
  BY <1>1, GoesFacts DEF Launch, Migrate, CopyRow, Commit, ReadCredential, Shapes
<1>3. NamesStay
  <2>1. CASE Commit(p)
    <3>1. Kept
      BY <2>1, CommitKept
    <3> QED BY <3>1 DEF Kept, NamesStay, Named
  <2>2. CASE UNCHANGED users
    BY <2>2 DEF NamesStay, Named, Used
  <2> QED BY <2>1, <2>2 DEF Launch, Migrate, CopyRow, ReadCredential, tables
<1>4. Credential(p)'
  <2>1. CASE Launch(p)
    <3>1. proc'[p].at = "migrate"
      BY <1>1, <2>1 DEF Launch, Shapes, Off
    <3> QED BY <3>1 DEF Credential
  <2>2. CASE Migrate(p) \/ Commit(p)
    <3>1. proc'[p].at \in {"credential", "copy"}
      BY <1>1, <2>2, GoesFacts DEF Migrate, Commit
    <3> QED BY <3>1 DEF Credential
  <2>3. CASE CopyRow(p)
    <3>1. proc'[p].at = "copy"
      BY <2>3 DEF CopyRow
    <3> QED BY <3>1 DEF Credential
  <2>4. CASE ReadCredential(p)
    <3>1. /\ proc'[p].at = "superadmin"
          /\ proc'[p].legacy = IF settings.done \/ ~settings.hash THEN NoName ELSE settings.user
      BY <1>1, <2>4 DEF ReadCredential, Shapes, Proc
    <3>2. IF proc'[p].legacy = NoName THEN Exhausted'
          ELSE proc'[p].legacy = settings'.user /\ ~Exhausted'
      BY <1>1, <3>1, Zenon DEF Exhausted
    <3> QED BY <3>1, <3>2 DEF Credential
  <2> QED BY <2>1, <2>2, <2>3, <2>4
<1> QED BY <1>1, <1>2, <1>3, <1>4, QuietImport

LEMMA SuperadminImport ==
    ASSUME AccInv, ImportInv, MaxDbFailures \in Nat, NEW p \in Procs, CreateSuperadmin(p)
    PROVE  ImportInv'
<1>1. /\ proc[p].at = "superadmin" /\ UNCHANGED <<settings, failures, imports>> /\ Shapes
      /\ Goes(p, IF proc[p].legacy = NoName THEN "up" ELSE "import")
  BY DEF CreateSuperadmin, AccInv
<1>2. /\ proc'[p].at = (IF proc[p].legacy = NoName THEN "up" ELSE "import")
      /\ proc'[p].legacy = proc[p].legacy /\ \A q \in Procs \ {p} : proc'[q] = proc[q]
  BY <1>1, GoesFacts
<1>3. Credential(p)'
  BY <1>1, <1>2 DEF ImportInv, Credential, Exhausted
<1>4. NamesStay
  <2>1. ASSUME NEW i \in Ids, Used(i) PROVE Used(i)' /\ users'[i].name = users[i].name
    <3>1. CASE UNCHANGED users
      BY <2>1, <3>1 DEF Used
    <3>2. CASE Unused # {}
               /\ users' = [users EXCEPT ![Fresh] = NewRow("superadmin", "default", "superadmin", {})]
      <4>1. Fresh # i
        BY <2>1, <3>2, UnusedChoice
      <4> QED BY <1>1, <2>1, <3>2, <4>1 DEF Shapes, Used
    <3> QED BY <3>1, <3>2 DEF CreateSuperadmin
  <2> QED BY <2>1, KeptNames
<1> QED BY <1>1, <1>2, <1>3, <1>4, QuietImport

\* The import itself: the credential was there, so nothing was imported of it yet, or
\* the account it became still has the name.
LEMMA ImportImport ==
    ASSUME AccInv, ImportInv, MaxDbFailures \in Nat, NEW p \in Procs, Import(p)
    PROVE  ImportInv'
<1> PICK n : n = ImportName(proc[p].legacy)
  OBVIOUS
<1>1. /\ proc[p].at = "import" /\ UNCHANGED <<settings, failures>> /\ Shapes /\ Goes(p, "mark")
  BY DEF Import, AccInv
<1>2. /\ proc'[p].at = "mark" /\ \A q \in Procs \ {p} : proc'[q] = proc[q]
  BY <1>1, GoesFacts
<1>3. Credential(p)'
  BY <1>2 DEF Credential
<1>4. n = ImportName(settings.user) /\ ~Exhausted
  BY <1>1 DEF ImportInv, Credential
<1>5. CASE Named(n) # {}
  <2>1. UNCHANGED <<users, imports>>
    BY <1>5 DEF Import
  <2>2. NamesStay
    BY <2>1 DEF NamesStay, Named, Used
  <2> QED BY <1>1, <1>2, <1>3, <2>1, <2>2, QuietImport
<1>6. CASE Named(n) = {}
  <2>1. /\ Unused # {} /\ users' = [users EXCEPT ![Fresh] = NewRow(n, "old", "user", Assignable)]
        /\ imports' = imports + 1
    BY <1>6 DEF Import
  <2>2. imports = 0
    BY <1>4, <1>6 DEF ImportInv
  <2>3. PICK k \in Ids : k = Fresh
    BY <2>1, UnusedChoice
  <2>4. users'[k].name = n /\ users'[k].role # "none"
    BY <1>1, <2>1, <2>3 DEF Shapes, NewRow
  <2>5. Named(n)' # {}
    BY <2>4 DEF Named, Used
  <2>6. Named(ImportName(settings.user))' # {}
    <3>1. ImportName(settings.user)' = n
      BY <1>1, <1>4 DEF ImportName
    <3> QED BY <2>5, <3>1 DEF Named, Used
  <2>7. ASSUME NEW q \in Procs PROVE Credential(q)'
    <3>1. CASE q # p
      <4>1. proc'[q] = proc[q] /\ failures' = failures /\ failures \in Nat /\ Credential(q)
        BY <1>1, <1>2, <3>1 DEF ImportInv
      <4> QED BY <1>1, <4>1, SameCredential
    <3> QED BY <1>3, <3>1
  <2> QED BY <1>1, <2>1, <2>2, <2>6, <2>7 DEF ImportInv
<1> QED BY <1>5, <1>6

\* The mark: a write that fails is counted, and three would have to fail.
LEMMA MarkImport ==
    ASSUME AccInv, ImportInv, MaxDbFailures \in Nat, MaxDbFailures <= 2,
           NEW p \in Procs, MarkMigrated(p)
    PROVE  ImportInv'
<1>1. Shapes /\ Order /\ UNCHANGED <<users, imports>>
  BY DEF MarkMigrated, Settles, AccInv
<1>2. settings.done \in BOOLEAN /\ settings.hash \in BOOLEAN
      /\ settings \in [done : BOOLEAN, user : Names \cup {NoName}, hash : BOOLEAN]
  BY <1>1 DEF Shapes
<1>3. /\ failures \in 0 .. MaxDbFailures
      /\ \/ failures' = failures
         \/ settings' = settings /\ failures < MaxDbFailures /\ failures' = failures + 1
  BY DEF MarkMigrated, Settles, ImportInv
<1>4. failures \in Nat /\ failures' \in 0 .. MaxDbFailures /\ failures' \in Nat /\ failures' >= failures
  BY <1>3
<1>5. PICK from \in {"mark", "dropUser", "dropHash"}, to \in {"dropUser", "dropHash", "up"} :
         /\ proc[p].at = from /\ proc'[p].at = to
         /\ \A q \in Procs \ {p} : proc'[q] = proc[q]
  BY <1>1, GoesFacts DEF MarkMigrated, Settles
<1>6. Exhausted => Exhausted'
  BY <1>2 DEF MarkMigrated, Settles, Exhausted
<1>7. ASSUME NEW q \in Procs, q # p PROVE Credential(q)'
  <2>1. proc[q].at \in {"down", "up"} /\ Credential(q) /\ proc'[q] = proc[q]
    BY <1>1, <1>5, <1>7, OneStarts DEF ImportInv
  <2> QED BY <1>6, <2>1 DEF Credential
<1>8. Credential(p)'
  <2>1. CASE Settles(p, "mark", "dropUser", [settings EXCEPT !.done = TRUE])
    <3>1. proc'[p].at = "dropUser"
      BY <1>1, <2>1, GoesFacts DEF Settles
    <3>2. settings'.done \/ failures' >= 1
      BY <1>2, <1>4, <2>1 DEF Settles
    <3> QED BY <3>1, <3>2 DEF Credential
  <2>2. CASE Settles(p, "dropUser", "dropHash", [settings EXCEPT !.user = NoName])
    <3>1. proc'[p].at = "dropHash" /\ proc[p].at = "dropUser"
      BY <1>1, <2>2, GoesFacts DEF Settles
    <3>2. settings.done \/ failures >= 1
      BY <3>1 DEF ImportInv, Credential
    <3>3. CASE settings' = [settings EXCEPT !.user = NoName]
      <4>1. settings'.user = NoName
        BY <1>2, <3>3
      <4> QED BY <3>1, <4>1 DEF Credential, Exhausted
    <3>4. CASE settings' = settings /\ failures' = failures + 1
      <4>1. settings'.done \/ failures' >= 2
        BY <1>4, <3>2, <3>4
      <4> QED BY <3>1, <4>1 DEF Credential, Exhausted
    <3> QED BY <2>2, <3>3, <3>4 DEF Settles
  <2>3. CASE Settles(p, "dropHash", "up", [settings EXCEPT !.hash = FALSE])
    <3>1. proc'[p].at = "up" /\ proc[p].at = "dropHash"
      BY <1>1, <2>3, GoesFacts DEF Settles
    <3>2. Exhausted \/ failures >= 2
      BY <3>1 DEF ImportInv, Credential
    <3>3. CASE settings' = [settings EXCEPT !.hash = FALSE]
      <4>1. settings'.hash = FALSE
        BY <1>2, <3>3
      <4> QED BY <3>1, <4>1 DEF Credential, Exhausted
    <3>4. CASE settings' = settings /\ failures < MaxDbFailures
      <4>1. Exhausted
        BY <1>4, <3>2, <3>4
      <4>2. Exhausted'
        BY <1>6, <4>1
      <4> QED BY <3>1, <4>2 DEF Credential
    <3> QED BY <2>3, <3>3, <3>4 DEF Settles
  <2> QED BY <2>1, <2>2, <2>3 DEF MarkMigrated
<1>9. imports' = 1 => Exhausted' \/ Named(ImportName(settings.user))' # {}
  <2>1. Exhausted' \/ settings'.user = settings.user
    BY <1>2 DEF MarkMigrated, Settles, Exhausted
  <2>2. Named(ImportName(settings.user)) # {} /\ settings'.user = settings.user
          => Named(ImportName(settings.user))' # {}
    BY <1>1 DEF Named, Used, ImportName
  <2> QED BY <1>1, <1>6, <2>1, <2>2 DEF ImportInv
<1> QED BY <1>1, <1>4, <1>7, <1>8, <1>9 DEF ImportInv

LEMMA ImportKept ==
    ASSUME AccInv, ImportInv, MaxDbFailures \in Nat, MaxDbFailures <= 2, [AccNext]_accVars
    PROVE  ImportInv'
<1>1. CASE UNCHANGED accVars
  BY <1>1 DEF accVars, ImportInv, Credential, Exhausted, Named, Used, ImportName
<1>2. CASE OneStep
  <2>1. UNCHANGED <<proc, settings, failures, imports>>
    BY <1>2 DEF OneStep, Login, Create, Patch, ResetPassword, ChangePassword, Begins, start
  <2> QED BY <1>2, <2>1, OneStepServed, ServedImport
<1>3. ASSUME NEW r \in Requests,
             \/ Insert(r) \/ Disable(r) \/ SetPermissions(r) \/ CheckName(r) \/ Rename(r)
             \/ SetEnabled(r) \/ NameAvailable(r) \/ Change(r)
      PROVE  ImportInv'
  <2>1. UNCHANGED <<proc, settings, failures, imports>>
    BY <1>3 DEF Insert, Disable, SetPermissions, CheckName, Rename, SetEnabled, NameAvailable,
                Change, start
  <2>2. proc["server"].at = "up"
    BY <1>3, RequestServed DEF AccInv
  <2> QED BY <2>1, <2>2, ServedImport
<1>4. CASE FindTarget \/ CliRename \/ (\E pw \in NewPasswords : CliReset(pw))
  BY <1>4, CommandImport DEF AccInv
<1>5. CASE Interrupt \/ Stop
  BY <1>5, EndImport DEF AccInv
<1>6. ASSUME NEW p \in Procs,
             Launch(p) \/ Migrate(p) \/ CopyRow(p) \/ Commit(p) \/ ReadCredential(p)
      PROVE  ImportInv'
  BY <1>6, BeginImport
<1>7. ASSUME NEW p \in Procs, CreateSuperadmin(p) \/ Import(p) \/ MarkMigrated(p)
      PROVE  ImportInv'
  BY <1>7, SuperadminImport, ImportImport, MarkImport
<1> QED BY <1>1, <1>2, <1>3, <1>4, <1>5, <1>6, <1>7 DEF AccNext, OneStep

\* The old credential becomes an account at most once, whatever is interrupted or
\* renamed, where no more than two writes of the mark fail: after a start whose three
\* writes failed, a renamed account would be imported again (settings.rs, main.rs).
THEOREM ImportedOnceHolds == MaxDbFailures <= 2 => (AccSpec => []ImportedOnce)
<1> SUFFICES ASSUME MaxDbFailures <= 2 PROVE AccSpec => []ImportedOnce
  OBVIOUS
<1>1. AccInit => ImportInv
  BY AccountsAssumption DEF AccInit, ImportInv, Credential, Off
<1>2. AccInv /\ ImportInv /\ [AccNext]_accVars => ImportInv'
  BY AccountsAssumption, ImportKept
<1>3. ImportInv => ImportedOnce
  BY DEF ImportInv, ImportedOnce
<1> QED BY <1>1, <1>2, <1>3, AccInvHolds, PTL DEF AccSpec

----------------------------------------------------------------------------
(* No row is written in part *)

Rows == users \in [Ids -> Account] /\ copy \in [Ids -> Account]

\* A request that is going to write a row has found it there, and has all it writes.
RequestSound(r) ==
    /\ req[r].at \in {"disable", "grant", "check", "rename", "enable", "available", "change"}
         => req[r].id \in Ids /\ Used(req[r].id)
    /\ req[r].at \in {"insert", "rename"} => req[r].name \in Names
    /\ req[r].at \in {"available", "change"} => req[r].read \in Names /\ req[r].password \in Passwords

\* So has a program.
ProgramSound(p) ==
    /\ proc[p].at \in {"rename", "reset"} => proc[p].target \in Ids /\ Used(proc[p].target)
    /\ proc[p].at = "import" => proc[p].legacy # NoName

Sound == (\A r \in Requests : RequestSound(r)) /\ \A p \in Procs : ProgramSound(p)

Counting ==
    /\ token \in [Ids -> Claim] /\ secret \in Nat
    /\ served \in 0 .. MaxRequests /\ stops \in 0 .. MaxStops
    /\ failures \in 0 .. MaxDbFailures /\ imports \in Nat

RowsInv == AccInv /\ Rows /\ Sound /\ Counting

\* A row that is there stays there.
LEMMA UsedStays == ASSUME AccInv, [AccNext]_accVars, NEW i \in Ids, Used(i) PROVE Used(i)'
<1>1. Effect
  BY StepEffect
<1>2. CASE Kept
  BY <1>2 DEF Kept
<1>3. ASSUME NEW k \in Ids, NEW n \in Names \cup {NoName}, Adds(k, n) \/ Renames(k, n)
      PROVE  Used(i)'
  BY <1>3 DEF Adds, Renames, Used
<1> QED BY <1>1, <1>2, <1>3 DEF Effect

LEMMA AccountRows ==
    /\ NoAccount \in Account
    /\ \A n \in Names, pw \in Passwords, role \in Roles, grant \in SUBSET All :
          NewRow(n, pw, role, grant) \in Account
BY DEF NoAccount, Account, NewRow

\* A row that is there may be written any field of.
LEMMA WrittenRow ==
    ASSUME NEW row \in Account, row.role # "none"
    PROVE  /\ row.name \in Names
           /\ \A pw \in Passwords : [row EXCEPT !.password = pw] \in Account
           /\ \A grant \in SUBSET All : [row EXCEPT !.grant = grant] \in Account
           /\ \A enabled \in BOOLEAN : [row EXCEPT !.enabled = enabled] \in Account
           /\ \A n \in Names : [row EXCEPT !.name = n] \in Account
           /\ \A n \in Names, pw \in Passwords :
                 [row EXCEPT !.name = n, !.password = pw] \in Account
           /\ Converted(row) \in Account
<1> DEFINE Real == [name : Names, password : Passwords, role : Roles,
                    grant : SUBSET All, enabled : BOOLEAN]
<1>1. row \in Real /\ Real \subseteq Account
  BY DEF Account, NoAccount
<1>2. /\ \A pw \in Passwords : [row EXCEPT !.password = pw] \in Real
      /\ \A grant \in SUBSET All : [row EXCEPT !.grant = grant] \in Real
      /\ \A enabled \in BOOLEAN : [row EXCEPT !.enabled = enabled] \in Real
      /\ \A n \in Names : [row EXCEPT !.name = n] \in Real
      /\ \A n \in Names, pw \in Passwords : [row EXCEPT !.name = n, !.password = pw] \in Real
  BY <1>1
<1>3. Converted(row) \in Real
  BY <1>1, GrantTypes DEF Converted, Roles, FixedRoles
<1> QED BY <1>1, <1>2, <1>3

\* A start and the migration.
LEMMA StartRows ==
    ASSUME AccInv, Rows, Sound, NEW p \in Procs,
           \/ Launch(p) \/ Migrate(p) \/ CopyRow(p) \/ Commit(p) \/ ReadCredential(p)
           \/ CreateSuperadmin(p) \/ Import(p) \/ MarkMigrated(p)
    PROVE  Rows'
<1> USE AccountRows, AccountsAssumption
<1>1. CASE Launch(p) \/ ReadCredential(p) \/ MarkMigrated(p)
  <2>1. UNCHANGED <<users, copy>>
    BY <1>1 DEF Launch, ReadCredential, MarkMigrated, Settles, tables
  <2> QED BY <2>1 DEF Rows
<1>2. CASE Migrate(p)
  BY <1>2 DEF Migrate, Rows
<1>3. CASE CopyRow(p)
  <2>1. PICK i \in Uncopied : copy' = [copy EXCEPT ![i] = Converted(users[i])]
    BY <1>3 DEF CopyRow
  <2>2. i \in Ids /\ users[i].role # "none"
    BY DEF Uncopied, Used
  <2>3. Converted(users[i]) \in Account
    BY <2>2, WrittenRow DEF Rows
  <2>4. UNCHANGED users
    BY <1>3 DEF CopyRow
  <2> QED BY <2>1, <2>2, <2>3, <2>4 DEF Rows
<1>4. CASE Commit(p)
  BY <1>4 DEF Commit, Rows
<1>5. CASE CreateSuperadmin(p)
  <2>1. UNCHANGED copy
    BY <1>5 DEF CreateSuperadmin
  <2>2. CASE Named("superadmin") # {}
    BY <1>5, <2>1, <2>2 DEF CreateSuperadmin, Rows
  <2>3. CASE Named("superadmin") = {}
    <3>1. PICK k \in Ids : k = Fresh
      BY <1>5, <2>3, UnusedChoice DEF CreateSuperadmin
    <3>2. users' = [users EXCEPT ![k] = NewRow("superadmin", "default", "superadmin", {})]
      BY <1>5, <2>3, <3>1 DEF CreateSuperadmin
    <3>3. NewRow("superadmin", "default", "superadmin", {}) \in Account
      BY DEF Roles, FixedRoles
    <3> QED BY <2>1, <3>2, <3>3 DEF Rows
  <2> QED BY <2>2, <2>3
<1>6. CASE Import(p)
  <2> DEFINE n == ImportName(proc[p].legacy)
  <2>1. UNCHANGED copy /\ proc[p].at = "import"
    BY <1>6 DEF Import
  <2>2. n \in Names
    BY <2>1 DEF Sound, ProgramSound, AccInv, Shapes, Proc, ImportName
  <2>3. CASE Named(n) # {}
    BY <1>6, <2>1, <2>3 DEF Import, Rows
  <2>4. CASE Named(n) = {}
    <3>1. PICK k \in Ids : k = Fresh
      BY <1>6, <2>4, UnusedChoice DEF Import
    <3>2. users' = [users EXCEPT ![k] = NewRow(n, "old", "user", Assignable)]
      BY <1>6, <2>4, <3>1 DEF Import
    <3>3. NewRow(n, "old", "user", Assignable) \in Account
      BY <2>2, GrantTypes DEF Roles
    <3> QED BY <2>1, <3>2, <3>3 DEF Rows
  <2> QED BY <2>3, <2>4
<1> QED BY <1>1, <1>2, <1>3, <1>4, <1>5, <1>6

\* The command line, and the stops.
LEMMA CommandRows ==
    ASSUME Rows, Sound,
           FindTarget \/ CliRename \/ (\E pw \in NewPasswords : CliReset(pw)) \/ Interrupt \/ Stop
    PROVE  Rows'
<1> USE AccountRows, AccountsAssumption
<1>1. CASE FindTarget
  BY <1>1 DEF FindTarget, tables, Rows
<1>2. CASE Interrupt \/ Stop
  BY <1>2 DEF Interrupt, Stop, Rows
<1>3. ASSUME CliRename \/ \E pw \in NewPasswords : CliReset(pw) PROVE Rows'
  <2> DEFINE i == proc["cli"].target
  <2>1. UNCHANGED copy /\ i \in Ids /\ Used(i)
    BY <1>3 DEF CliRename, CliReset, Sound, ProgramSound, Procs
  <2>2. CASE users' = users
    BY <2>1, <2>2 DEF Rows
  <2>3. ASSUME users' = [users EXCEPT ![i].name = CliName], CliName # NoName PROVE Rows'
    BY <2>1, <2>3, WrittenRow DEF Rows, Used
  <2>4. ASSUME NEW pw \in NewPasswords, users' = [users EXCEPT ![i].password = pw] PROVE Rows'
    BY <2>1, <2>4, WrittenRow DEF Rows, Used
  <2> QED BY <1>3, <2>2, <2>3, <2>4 DEF CliRename, CliReset
<1> QED BY <1>1, <1>2, <1>3

\* The requests.
LEMMA RequestRows ==
    ASSUME AccInv, Rows, Sound, NEW r \in Requests,
           \/ Insert(r) \/ Disable(r) \/ SetPermissions(r) \/ CheckName(r) \/ Rename(r)
           \/ SetEnabled(r) \/ NameAvailable(r) \/ Change(r)
    PROVE  Rows'
<1> DEFINE i == req[r].id
<1> USE AccountRows, AccountsAssumption DEF start
<1>1. UNCHANGED copy /\ RequestSound(r) /\ req[r] \in Req
  BY DEF Insert, Disable, SetPermissions, CheckName, Rename, SetEnabled, NameAvailable, Change,
         Sound, AccInv, Shapes
<1>2. CASE UNCHANGED users
  BY <1>1, <1>2 DEF Rows
<1>3. CASE Insert(r)
  <2>1. CASE Unique(req[r].name, NoId)
    <3>1. PICK k \in Ids : k = Fresh
      BY <1>3, UnusedChoice DEF Insert
    <3> DEFINE row == NewRow(req[r].name, "default", "user", req[r].grant)
    <3>2. users' = [users EXCEPT ![k] = row]
      BY <1>3, <2>1, <3>1 DEF Insert
    <3>3. row \in Account
      BY <1>1, <1>3 DEF Insert, RequestSound, Req, Roles
    <3> QED BY <1>1, <3>2, <3>3 DEF Rows
  <2> QED BY <1>2, <1>3, <2>1 DEF Insert
<1>4. CASE Disable(r) \/ SetPermissions(r) \/ Rename(r) \/ SetEnabled(r) \/ Change(r)
  <2>1. i \in Ids /\ users[i] \in Account /\ users[i].role # "none"
    BY <1>1, <1>4 DEF Disable, SetPermissions, Rename, SetEnabled, Change, RequestSound, Rows, Used
  <2>2. ASSUME NEW row \in Account, users' = [users EXCEPT ![i] = row] PROVE Rows'
    BY <1>1, <2>1, <2>2 DEF Rows
  <2>3. CASE Disable(r)
    BY <2>1, <2>2, <2>3, WrittenRow DEF Disable
  <2>4. CASE SetPermissions(r)
    <3>1. req[r].grant \in SUBSET All
      BY <1>1 DEF Req
    <3> QED BY <1>2, <2>1, <2>2, <2>4, <3>1, WrittenRow DEF SetPermissions
  <2>5. CASE Rename(r)
    <3>1. req[r].name \in Names
      BY <1>1, <2>5 DEF Rename, RequestSound
    <3> QED BY <1>2, <2>1, <2>2, <2>5, <3>1, WrittenRow DEF Rename
  <2>6. CASE SetEnabled(r)
    <3>1. ASSUME NEW on \in BOOLEAN, users' = [users EXCEPT ![i].enabled = on] PROVE Rows'
      BY <2>1, <2>2, <3>1, WrittenRow
    <3> QED BY <1>2, <2>6, <3>1 DEF SetEnabled
  <2>7. CASE Change(r)
    <3>1. req[r].read \in Names /\ req[r].password \in Passwords
      BY <1>1, <2>7 DEF Change, RequestSound
    <3>2. CASE Unique(req[r].read, i)
      <4>1. users' = [users EXCEPT ![i] = [users[i] EXCEPT !.name = req[r].read,
                                                          !.password = req[r].password]]
        BY <2>7, <3>2 DEF Change, AccInv, Shapes
      <4> QED BY <2>1, <2>2, <3>1, <4>1, WrittenRow
    <3> QED BY <1>2, <2>7, <3>2 DEF Change
  <2> QED BY <1>4, <2>3, <2>4, <2>5, <2>6, <2>7
<1>5. CASE CheckName(r) \/ NameAvailable(r)
  BY <1>2, <1>5 DEF CheckName, NameAvailable
<1> QED BY <1>3, <1>4, <1>5

LEMMA RowsStep == ASSUME AccInv, Rows, Sound, [AccNext]_accVars PROVE Rows'
<1>1. CASE UNCHANGED accVars
  BY <1>1 DEF accVars, Rows
<1>2. ASSUME NEW r \in Requests, NEW i \in Ids, NEW pw \in NewPasswords, ResetPassword(r, i, pw)
      PROVE  Rows'
  BY <1>2, WrittenRow, AccountsAssumption DEF ResetPassword, start, Rows, Used
<1>3. CASE \/ \E n \in Names, pw \in Passwords : Login(n, pw)
           \/ \E r \in Requests :
                \/ \E c \in Creations : Create(r, c)
                \/ \E i \in Ids, c \in Patches : Patch(r, i, c)
                \/ \E i \in Ids, old \in Passwords, pw \in NewPasswords :
                      ChangePassword(r, i, old, pw)
  BY <1>3 DEF Login, Create, Patch, ChangePassword, Begins, start, Rows
<1> QED BY <1>1, <1>2, <1>3, StartRows, CommandRows, RequestRows DEF AccNext

\* What is not touched stays sound, since rows stay.
LEMMA SoundStays ==
    ASSUME \A i \in Ids : Used(i) => Used(i)'
    PROVE  /\ \A r \in Requests : RequestSound(r) /\ req'[r] = req[r] => RequestSound(r)'
           /\ \A p \in Procs : ProgramSound(p) /\ proc'[p] = proc[p] => ProgramSound(p)'
BY DEF RequestSound, ProgramSound

\* A request that goes on with what it has.
LEMMA RequestGoesOn ==
    ASSUME AccInv, Sound, \A i \in Ids : Used(i) => Used(i)', NEW r \in Requests,
           \/ Done(r)
           \/ At(r, "check") /\ req[r].at = "grant"
           \/ At(r, "rename") /\ req[r].at = "check" /\ req[r].name # NoName
           \/ At(r, "enable") /\ req[r].at \in {"check", "rename"}
           \/ At(r, "change") /\ req[r].at = "available"
    PROVE  \A s \in Requests : RequestSound(s)'
<1>1. RequestSound(r) /\ req[r] \in Req /\ req \in [Requests -> Req]
  BY DEF Sound, AccInv, Shapes
<1>2. \A s \in Requests \ {r} : req'[s] = req[s]
  BY <1>1 DEF Done, At
<1>3. RequestSound(r)'
  <2>1. CASE Done(r)
    BY <1>1, <2>1 DEF Done, NoReq, RequestSound
  <2>2. ASSUME NEW label, At(r, label),
               \/ label \in {"check", "rename", "enable"}
                  /\ req[r].at \in {"grant", "check", "rename"}
                  /\ (label = "rename" => req[r].name # NoName)
               \/ label = "change" /\ req[r].at = "available"
        PROVE  RequestSound(r)'
    <3>1. /\ req'[r].at = label /\ req'[r].id = req[r].id /\ req'[r].name = req[r].name
          /\ req'[r].read = req[r].read /\ req'[r].password = req[r].password
      BY <1>1, <2>2 DEF At, Req
    <3>2. req[r].name \in Names \cup {NoName}
      BY <1>1 DEF Req
    <3> QED BY <1>1, <2>2, <3>1, <3>2 DEF RequestSound
  <2> QED BY <2>1, <2>2
<1> QED BY <1>2, <1>3, SoundStays DEF Sound

LEMMA RequestsSound ==
    ASSUME AccInv, Sound, \A i \in Ids : Used(i) => Used(i)', NEW r \in Requests,
           \/ Insert(r) \/ Disable(r) \/ SetPermissions(r) \/ CheckName(r) \/ Rename(r)
           \/ SetEnabled(r) \/ NameAvailable(r) \/ Change(r)
    PROVE  \A s \in Requests : RequestSound(s)'
<1>1. CASE Insert(r)
  <2>1. CASE Done(r)
    BY <2>1, RequestGoesOn
  <2>2. CASE req' = [req EXCEPT ![r].at = "disable", ![r].id = Fresh] /\ Unique(req[r].name, NoId)
    <3>1. PICK k \in Ids : k = Fresh
      BY <1>1, UnusedChoice DEF Insert
    <3>2. users' = [users EXCEPT ![k] = NewRow(req[r].name, "default", "user", req[r].grant)]
      BY <1>1, <2>2, <3>1 DEF Insert
    <3>3. Used(k)'
      BY <3>2 DEF Used, NewRow, AccInv, Shapes
    <3>4. /\ req'[r].at = "disable" /\ req'[r].id = k
          /\ \A s \in Requests \ {r} : req'[s] = req[s]
      BY <2>2, <3>1 DEF AccInv, Shapes, Req
    <3>5. RequestSound(r)'
      BY <3>3, <3>4 DEF RequestSound
    <3> QED BY <3>4, <3>5, SoundStays DEF Sound
  <2> QED BY <1>1, <2>1, <2>2 DEF Insert
<1>2. CASE ~Insert(r)
  BY <1>2, RequestGoesOn
     DEF Disable, SetPermissions, CheckName, Rename, SetEnabled, NameAvailable, Change
<1> QED BY <1>1, <1>2

\* A request that begins: the account it is about is there, an administrator's
\* by the guard and one's own since the row is enabled.
LEMMA BeginsSound ==
    ASSUME AccInv, Rows, Sound, \A i \in Ids : Used(i) => Used(i)', OneStep
    PROVE  \A s \in Requests : RequestSound(s)'
<1> USE AccountsAssumption
<1>1. CASE UNCHANGED req
  BY <1>1, SoundStays DEF Sound
<1>2. ASSUME NEW r \in Requests, NEW q, Begins(r, q),
             \/ q.at = "insert" /\ q.name \in Names
             \/ q.at = "grant" /\ q.id \in Ids /\ Used(q.id)
             \/ /\ q.at = "available" /\ q.id \in Ids /\ Used(q.id)
                /\ q.read \in Names /\ q.password \in Passwords
      PROVE  \A s \in Requests : RequestSound(s)'
  <2>1. req'[r] = q /\ \A s \in Requests \ {r} : req'[s] = req[s]
    BY <1>2 DEF Begins, AccInv, Shapes
  <2>2. RequestSound(r)'
    BY <1>2, <2>1 DEF RequestSound
  <2> QED BY <2>1, <2>2, SoundStays DEF Sound
<1>3. ASSUME NEW r \in Requests, NEW c \in Creations, Create(r, c)
      PROVE  \A s \in Requests : RequestSound(s)'
  <2> DEFINE q == [NoReq EXCEPT !.at = "insert", !.name = c.name, !.grant = c.grant,
                                !.enabled = c.enabled]
  <2>1. Begins(r, q)
    BY <1>3 DEF Create
  <2>2. q.at = "insert" /\ q.name \in Names
    BY DEF NoReq
  <2> HIDE DEF q
  <2> QED BY <1>2, <2>1, <2>2
<1>4. ASSUME NEW r \in Requests, NEW i \in Ids, NEW c \in Patches, Patch(r, i, c)
      PROVE  \A s \in Requests : RequestSound(s)'
  <2> DEFINE q == [NoReq EXCEPT !.at = "grant", !.id = i, !.granting = c.granting,
                                !.grant = c.grant, !.name = c.name, !.enabled = c.enabled]
  <2>1. Begins(r, q) /\ Used(i)
    BY <1>4 DEF Patch
  <2>2. q.at = "grant" /\ q.id = i
    BY DEF NoReq
  <2> HIDE DEF q
  <2> QED BY <1>2, <2>1, <2>2
<1>5. ASSUME NEW r \in Requests, NEW i \in Ids, NEW old \in Passwords, NEW pw \in NewPasswords,
             ChangePassword(r, i, old, pw)
      PROVE  \A s \in Requests : RequestSound(s)'
  <2> DEFINE q == [NoReq EXCEPT !.at = "available", !.id = i, !.password = pw,
                                !.read = users[i].name]
  <2>1. Begins(r, q) /\ users[i].enabled
    BY <1>5 DEF ChangePassword, Admits
  <2>2. users[i] \in Account /\ users[i].role # "none"
    BY <2>1 DEF Rows, Account, NoAccount, Roles, FixedRoles
  <2>3. users[i].name \in Names /\ Used(i)
    BY <2>2, WrittenRow DEF Used
  <2>4. q.at = "available" /\ q.id = i /\ q.read = users[i].name /\ q.password = pw
    BY DEF NoReq
  <2> HIDE DEF q
  <2> QED BY <1>2, <2>1, <2>3, <2>4
<1>6. CASE \/ \E n \in Names, pw \in Passwords : Login(n, pw)
           \/ \E r \in Requests, i \in Ids, pw \in NewPasswords : ResetPassword(r, i, pw)
  BY <1>1, <1>6 DEF Login, ResetPassword
<1> QED BY <1>3, <1>4, <1>5, <1>6 DEF OneStep

\* A program that goes on.
LEMMA ProgramGoesOn ==
    ASSUME AccInv, Sound, \A i \in Ids : Used(i) => Used(i)', NEW p \in Procs, NEW label,
           Goes(p, label), label \in {"rename", "reset"} => proc[p].at \in {"rename", "reset"},
           label = "import" => proc[p].legacy # NoName
    PROVE  \A q \in Procs : ProgramSound(q)'
<1>1. /\ proc'[p].at = label /\ proc'[p].legacy = proc[p].legacy
      /\ proc'[p].target = proc[p].target
      /\ \A q \in Procs \ {p} : proc'[q] = proc[q]
  BY DEF Goes, AccInv, Shapes, Proc
<1>2. ProgramSound(p)
  BY DEF Sound
<1>3. ProgramSound(p)'
  BY <1>1, <1>2 DEF ProgramSound
<1> QED BY <1>1, <1>3, SoundStays DEF Sound

LEMMA ProgramsSound ==
    ASSUME AccInv, Sound, \A i \in Ids : Used(i) => Used(i)',
           \/ \E p \in Procs : \/ Launch(p) \/ Migrate(p) \/ CopyRow(p) \/ Commit(p)
                               \/ ReadCredential(p) \/ CreateSuperadmin(p) \/ Import(p)
                               \/ MarkMigrated(p)
           \/ FindTarget \/ CliRename \/ (\E pw \in NewPasswords : CliReset(pw))
           \/ Interrupt \/ Stop
    PROVE  \A q \in Procs : ProgramSound(q)'
<1> "cli" \in Procs /\ "server" \in Procs
  BY DEF Procs
<1>1. ASSUME NEW p \in Procs, NEW w, proc' = [proc EXCEPT ![p] = w],
             w.at \notin {"rename", "reset", "import"}
      PROVE  \A q \in Procs : ProgramSound(q)'
  <2>1. proc'[p] = w /\ \A q \in Procs \ {p} : proc'[q] = proc[q]
    BY <1>1 DEF AccInv, Shapes
  <2>2. ProgramSound(p)'
    BY <1>1, <2>1 DEF ProgramSound
  <2> QED BY <2>1, <2>2, SoundStays DEF Sound
<1>2. ASSUME NEW p \in Procs,
             Migrate(p) \/ Commit(p) \/ CreateSuperadmin(p) \/ Import(p) \/ MarkMigrated(p)
      PROVE  \A q \in Procs : ProgramSound(q)'
  <2>1. PICK label : Goes(p, label) /\ label \notin {"rename", "reset"}
                     /\ (label = "import" => proc[p].legacy # NoName)
    BY <1>2 DEF Migrate, Commit, CreateSuperadmin, Import, MarkMigrated, Settles
  <2> QED BY <2>1, ProgramGoesOn
<1>3. ASSUME NEW p \in Procs, CopyRow(p) PROVE \A q \in Procs : ProgramSound(q)'
  BY <1>3, SoundStays DEF CopyRow, Sound
<1>4. ASSUME NEW p \in Procs, Launch(p) PROVE \A q \in Procs : ProgramSound(q)'
  BY <1>1, <1>4 DEF Launch, Off
<1>5. ASSUME NEW p \in Procs, ReadCredential(p) PROVE \A q \in Procs : ProgramSound(q)'
  <2>1. /\ proc'[p].at = "superadmin" /\ \A q \in Procs \ {p} : proc'[q] = proc[q]
    BY <1>5 DEF ReadCredential, AccInv, Shapes, Proc
  <2>2. ProgramSound(p)'
    BY <2>1 DEF ProgramSound
  <2> QED BY <2>1, <2>2, SoundStays DEF Sound
<1>6. CASE FindTarget
  <2> DEFINE wanted == IF CliName # NoName /\ Named(CliName) # {} THEN CliName
                       ELSE IF Named("admin") # {} THEN "admin" ELSE "superadmin"
  <2>1. proc["cli"].at \in Ready
    BY <1>6 DEF FindTarget, Ready
  <2>2. Named("superadmin") # {}
    BY <2>1, SuperWhereReady
  <2>3. Holder(wanted) \in Named(wanted)
    BY <2>2 DEF Holder
  <2>4. PICK k \in Ids : k = Holder(wanted) /\ Used(k)
    BY <2>3 DEF Named
  <2>5. /\ proc'["cli"].at = "rename" /\ proc'["cli"].target = k
        /\ \A q \in Procs \ {"cli"} : proc'[q] = proc[q]
    BY <1>6, <2>4 DEF FindTarget, AccInv, Shapes, Proc
  <2>6. ProgramSound("cli")'
    BY <2>4, <2>5 DEF ProgramSound
  <2> QED BY <2>5, <2>6, SoundStays DEF Sound
<1>7. CASE CliRename \/ \E pw \in NewPasswords : CliReset(pw)
  <2>1. PICK label \in {"reset", "down"} : Goes("cli", label) /\ proc["cli"].at \in {"rename", "reset"}
    BY <1>7 DEF CliRename, CliReset
  <2> QED BY <2>1, ProgramGoesOn
<1>8. CASE Interrupt \/ Stop
  BY <1>1, <1>8 DEF Interrupt, Stop, Off
<1> QED BY <1>2, <1>3, <1>4, <1>5, <1>6, <1>7, <1>8

LEMMA SoundStep == ASSUME AccInv, Rows, Sound, [AccNext]_accVars PROVE Sound'
<1>1. \A i \in Ids : Used(i) => Used(i)'
  BY UsedStays
<1>2. CASE UNCHANGED accVars
  BY <1>1, <1>2, SoundStays DEF accVars, Sound
<1>3. CASE OneStep
  <2>1. UNCHANGED proc
    BY <1>3, OneStepServed
  <2> QED BY <1>1, <1>3, <2>1, BeginsSound, SoundStays DEF Sound
<1>4. ASSUME NEW r \in Requests,
             \/ Insert(r) \/ Disable(r) \/ SetPermissions(r) \/ CheckName(r) \/ Rename(r)
             \/ SetEnabled(r) \/ NameAvailable(r) \/ Change(r)
      PROVE  Sound'
  <2>1. UNCHANGED proc
    BY <1>4, RequestServed DEF AccInv
  <2> QED BY <1>1, <1>4, <2>1, RequestsSound, SoundStays DEF Sound
<1>5. CASE \/ \E p \in Procs : \/ Launch(p) \/ Migrate(p) \/ CopyRow(p) \/ Commit(p)
                               \/ ReadCredential(p) \/ CreateSuperadmin(p) \/ Import(p)
                               \/ MarkMigrated(p)
           \/ FindTarget \/ CliRename \/ (\E pw \in NewPasswords : CliReset(pw))
           \/ Interrupt
  <2>1. UNCHANGED req
    BY <1>5 DEF Launch, Migrate, CopyRow, Commit, ReadCredential, CreateSuperadmin, Import,
                MarkMigrated, Settles, FindTarget, CliRename, CliReset, Interrupt, web
  <2> QED BY <1>1, <1>5, <2>1, ProgramsSound, SoundStays DEF Sound
<1>6. CASE Stop
  <2>1. \A r \in Requests : req'[r] = NoReq
    BY <1>6 DEF Stop
  <2>2. \A r \in Requests : RequestSound(r)'
    BY <2>1 DEF NoReq, RequestSound
  <2> QED BY <1>1, <1>6, <2>2, ProgramsSound DEF Sound
<1> QED BY <1>2, <1>3, <1>4, <1>5, <1>6 DEF AccNext, OneStep

LEMMA CountingStep == ASSUME AccInv, Counting, [AccNext]_accVars PROVE Counting'
<1> USE AccountsAssumption DEF Counting
<1>1. CASE UNCHANGED accVars
  BY <1>1 DEF accVars
<1>2. CASE \E p \in Procs : \/ Launch(p) \/ Migrate(p) \/ CopyRow(p) \/ Commit(p)
                            \/ ReadCredential(p) \/ CreateSuperadmin(p) \/ Import(p)
  BY <1>2 DEF Launch, Migrate, CopyRow, Commit, ReadCredential, CreateSuperadmin, Import, web
<1>3. ASSUME NEW p \in Procs, MarkMigrated(p) PROVE Counting'
  BY <1>3 DEF MarkMigrated, Settles, web
<1>4. CASE FindTarget \/ CliRename \/ (\E pw \in NewPasswords : CliReset(pw)) \/ Interrupt \/ Stop
  <2>1. CASE FindTarget
    BY <2>1 DEF FindTarget, web
  <2>2. CASE CliRename
    BY <2>2 DEF CliRename, web
  <2>3. CASE \E pw \in NewPasswords : CliReset(pw)
    BY <2>3 DEF CliReset, web
  <2>4. CASE Interrupt
    BY <2>4 DEF Interrupt, web
  <2>5. CASE Stop
    BY <2>5 DEF Stop
  <2> QED BY <1>4, <2>1, <2>2, <2>3, <2>4, <2>5
<1>5. ASSUME NEW n \in Names, NEW pw \in Passwords, Login(n, pw) PROVE Counting'
  <2> DEFINE i == Holder(n)
             claim == [name |-> users[i].name, super |-> IsSuper(i), secret |-> secret]
  <2>1. token' = [token EXCEPT ![i] = claim] /\ UNCHANGED <<secret, served, stops, failures, imports>>
    BY <1>5 DEF Login, start
  <2>2. i \in Ids
    BY <1>5 DEF Login, Holder, Named
  <2>3. claim \in Claim
    BY <2>2 DEF Claim, IsSuper, AccInv, Shapes, RowOfUsers
  <2> QED BY <2>1, <2>3
<1>6. CASE OneStep /\ ~\E n \in Names, pw \in Passwords : Login(n, pw)
  <2>1. /\ served < MaxRequests /\ served' = served + 1
        /\ UNCHANGED <<token, secret, stops, failures, imports>>
    BY <1>6 DEF OneStep, Create, Patch, ResetPassword, ChangePassword, Begins, start
  <2> QED BY <2>1
<1>7. ASSUME NEW r \in Requests,
             \/ Insert(r) \/ Disable(r) \/ SetPermissions(r) \/ CheckName(r) \/ Rename(r)
             \/ SetEnabled(r) \/ NameAvailable(r) \/ Change(r)
      PROVE  Counting'
  BY <1>7 DEF Insert, Disable, SetPermissions, CheckName, Rename, SetEnabled, NameAvailable,
              Change, start
<1> QED BY <1>1, <1>2, <1>3, <1>4, <1>5, <1>6, <1>7 DEF AccNext, OneStep

LEMMA RowsInit == ASSUME AccInit PROVE Rows /\ Sound /\ Counting
<1>1. users \in [Ids -> Account] /\ copy \in [Ids -> Account]
  BY AccountRows, AccountsAssumption DEF AccInit, RoleRows, Roles, FixedRoles
<1>2. Sound
  BY DEF AccInit, Sound, RequestSound, ProgramSound, NoReq, Off
<1>3. Counting
  BY AccountsAssumption DEF AccInit, Counting, NoToken, Claim
<1> QED BY <1>1, <1>2, <1>3 DEF Rows

\* The values of the accounts stay of their types, for all requests and
\* databases: a row has its name, its password and its role, or is not there, and
\* no request or command writes to one that is not there (users.rs).
THEOREM AccTypes == AccSpec => []AccTypeOK
<1>1. AccInit => RowsInv
  BY RowsInit, AccInvInit DEF RowsInv
<1>2. RowsInv /\ [AccNext]_accVars => RowsInv'
  BY AccInvStep, RowsStep, SoundStep, CountingStep DEF RowsInv
<1>3. RowsInv => AccTypeOK
  BY DEF RowsInv, AccInv, Shapes, Order, Rows, Counting, AccTypeOK
<1> QED BY <1>1, <1>2, <1>3, PTL DEF AccSpec

\* Both stores at once, in behaviours that run either.
LEMMA BothStores == StoresSpec => RegSpec /\ AccSpec
<1>1. StoresInit => RegInit /\ AccInit
  BY DEF StoresInit
<1>2. [StoresNext]_<<store, regVars, accVars>> => [RegNext]_regVars /\ [AccNext]_accVars
  BY DEF StoresNext
<1> QED BY <1>1, <1>2, PTL DEF StoresSpec, RegSpec, AccSpec

\* The values of both stores stay of their types (registry.rs, users.rs).
THEOREM StoresTypes == StoresSpec => []StoresTypeOK
<1>1. RegTypeOK /\ AccTypeOK => StoresTypeOK
  BY DEF StoresTypeOK
<1> QED BY <1>1, BothStores, RegTypes, AccTypes, PTL

\* What each store promises holds where either runs (registry.rs, users.rs).
THEOREM StoresSafe ==
    StoresSpec => /\ [](OfflineUntilHeard /\ NamesUnique /\ OneSuperadmin)
                  /\ RemovalSticks /\ StartKeepsAccounts
BY BothStores, OfflineUntilHeardHolds, NamesUniqueHolds, OneSuperadminHolds,
   RemovalSticksHolds, StartKeepsHolds, PTL
============================================================================
