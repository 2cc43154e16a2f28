------------------------------ MODULE Registry ------------------------------
(***************************************************************************)
(* The server's terminal registry (registry.rs): the in-memory map of      *)
(* endpoints with their owner, password and last sign of life, and the     *)
(* table endpoint_registry it is saved to.                                 *)
(*                                                                         *)
(* Saving and deleting a row are tasks spawned without waiting, before the *)
(* map is changed; they land in any order, or fail.  A restart forgets the *)
(* map and the tasks, and reads the table back.                            *)
(***************************************************************************)
EXTENDS Naturals

CONSTANTS
    Endpoints,      \* endpoint ids
    Owners,         \* accounts an endpoint can be registered under
    NoOwner,        \* registered without a token
    NoEndpoint,     \* no endpoint
    Handlers,       \* server tasks that register or remove endpoints
    Jobs,           \* bound: saves and deletions under way at a time
    OnlineTimeout,  \* ONLINE_TIMEOUT_SEC
    MaxElapsed,     \* bound: seconds the clock advances
    MaxRestarts     \* bound: server restarts

ASSUME RegistryAssumption ==
    /\ NoOwner \notin Owners /\ NoEndpoint \notin Endpoints
    /\ OnlineTimeout \in Nat /\ MaxElapsed \in Nat /\ MaxRestarts \in Nat

VARIABLES
    serving,   \* is the server up?
    clock,     \* the server's wall clock, in seconds
    entries,   \* Registry.map
    table,     \* rows of endpoint_registry
    jobs,      \* spawned saves and deletions
    doing,     \* what each handler still has to do to the map
    heard,     \* endpoints whose agent registered since the server started
    restarts   \* restarts so far

regVars == <<serving, clock, entries, table, jobs, doing, heard, restarts>>

Owner == Owners \cup {NoOwner}
Entry == [there : BOOLEAN, owner : Owner, seen : Nat, password : BOOLEAN]
Row == [there : BOOLEAN, owner : Owner, seen : Nat]
Job   == [kind : {"none", "save", "delete"}, id : Endpoints \cup {NoEndpoint},
          owner : Owner, seen : Nat]
Doing == [at : {"idle", "insert", "remove"}, id : Endpoints \cup {NoEndpoint},
          owner : Owner, seen : Nat]

NoEntry == [there |-> FALSE, owner |-> NoOwner, seen |-> 0, password |-> FALSE]
NoRow   == [there |-> FALSE, owner |-> NoOwner, seen |-> 0]
NoJob   == [kind |-> "none", id |-> NoEndpoint, owner |-> NoOwner, seen |-> 0]
AtRest  == [at |-> "idle", id |-> NoEndpoint, owner |-> NoOwner, seen |-> 0]

\* The clock reads an epoch time, far beyond the timeout.
Epoch == OnlineTimeout + 1

RegTypeOK ==
    /\ serving \in BOOLEAN
    /\ clock \in Epoch .. Epoch + MaxElapsed
    /\ entries \in [Endpoints -> Entry]
    /\ table \in [Endpoints -> Row]
    /\ jobs \in [Jobs -> Job]
    /\ doing \in [Handlers -> Doing]
    /\ heard \in SUBSET Endpoints
    /\ restarts \in 0 .. MaxRestarts

RegInit ==
    /\ serving = TRUE /\ clock = Epoch
    /\ entries = [e \in Endpoints |-> NoEntry]
    /\ table = [e \in Endpoints |-> NoRow]
    /\ jobs = [j \in Jobs |-> NoJob]
    /\ doing = [h \in Handlers |-> AtRest]
    /\ heard = {} /\ restarts = 0

----------------------------------------------------------------------------
(* Handlers *)

Spawn(job) ==
    \E j \in Jobs : jobs[j] = NoJob /\ jobs' = [jobs EXCEPT ![j] = job]

\* Registry::upsert spawns the save, with the time and owner of the message...
Upsert(h, e, o) ==
    /\ serving /\ doing[h] = AtRest
    /\ Spawn([kind |-> "save", id |-> e, owner |-> o, seen |-> clock])
    /\ doing' = [doing EXCEPT ![h] = [at |-> "insert", id |-> e, owner |-> o, seen |-> clock]]
    /\ UNCHANGED <<serving, clock, entries, table, heard, restarts>>

\* ... and then puts the entry in the map.
Inserted(h) ==
    LET d == doing[h] IN
    /\ d.at = "insert"
    /\ entries' = [entries EXCEPT ![d.id] =
                     [there |-> TRUE, owner |-> d.owner, seen |-> d.seen, password |-> TRUE]]
    /\ doing' = [doing EXCEPT ![h] = AtRest]
    /\ heard' = heard \cup {d.id}
    /\ UNCHANGED <<serving, clock, table, jobs, restarts>>

\* mutant: a heartbeat puts a missing entry back
TouchRevives(e) ==
    /\ serving /\ e \in heard
    /\ entries' = [entries EXCEPT ![e].there = TRUE, ![e].seen = clock]
    /\ UNCHANGED <<serving, clock, table, jobs, doing, heard, restarts>>

\* A heartbeat, which an agent sends once it has registered, refreshes the
\* entry if there still is one.
Touch(e) ==
    /\ serving /\ e \in heard
    /\ entries[e].there
    /\ entries' = [entries EXCEPT ![e].seen = clock]
    /\ UNCHANGED <<serving, clock, table, jobs, doing, heard, restarts>>

\* Registry::remove (POST /api/endpoints/delete) spawns the deletion...
Remove(h, e) ==
    /\ serving /\ doing[h] = AtRest
    /\ Spawn([kind |-> "delete", id |-> e, owner |-> NoOwner, seen |-> 0])
    /\ doing' = [doing EXCEPT ![h] = [at |-> "remove", id |-> e, owner |-> NoOwner, seen |-> 0]]
    /\ UNCHANGED <<serving, clock, entries, table, heard, restarts>>

\* ... and then takes the entry out of the map.
Removed(h) ==
    LET d == doing[h] IN
    /\ d.at = "remove"
    /\ entries' = [entries EXCEPT ![d.id] = NoEntry]
    /\ doing' = [doing EXCEPT ![h] = AtRest]
    /\ UNCHANGED <<serving, clock, table, jobs, heard, restarts>>

----------------------------------------------------------------------------
(* The table *)

\* db_save: insert or overwrite the row, whatever was saved in between.
SaveLands(j) ==
    LET b == jobs[j] IN
    /\ b.kind = "save"
    /\ table' = [table EXCEPT ![b.id] = [there |-> TRUE, owner |-> b.owner, seen |-> b.seen]]
    /\ jobs' = [jobs EXCEPT ![j] = NoJob]
    /\ UNCHANGED <<serving, clock, entries, doing, heard, restarts>>

DeleteLands(j) ==
    LET b == jobs[j] IN
    /\ b.kind = "delete"
    /\ table' = [table EXCEPT ![b.id] = NoRow]
    /\ jobs' = [jobs EXCEPT ![j] = NoJob]
    /\ UNCHANGED <<serving, clock, entries, doing, heard, restarts>>

\* A save or a deletion that fails is logged and forgotten.
JobFails(j) ==
    /\ jobs[j] # NoJob
    /\ jobs' = [jobs EXCEPT ![j] = NoJob]
    /\ UNCHANGED <<serving, clock, entries, table, doing, heard, restarts>>

----------------------------------------------------------------------------
(* Restarts and time *)

Shutdown ==
    /\ serving /\ restarts < MaxRestarts
    /\ serving' = FALSE /\ restarts' = restarts + 1
    /\ entries' = [e \in Endpoints |-> NoEntry]
    /\ jobs' = [j \in Jobs |-> NoJob]
    /\ doing' = [h \in Handlers |-> AtRest]
    /\ heard' = {}
    /\ UNCHANGED <<clock, table>>

\* mutant: an entry comes back with the time it was saved with
RestoredAsSaved(e) ==
    IF table[e].there
    THEN [there |-> TRUE, owner |-> table[e].owner, password |-> FALSE,
          seen |-> table[e].seen]
    ELSE NoEntry

Earlier(a, b) == IF a <= b THEN a ELSE b

\* What load_from_db makes of a row: no password, and a time before the
\* threshold, however short the outage was.
Restored(e) ==
    IF table[e].there
    THEN [there |-> TRUE, owner |-> table[e].owner, password |-> FALSE,
          seen |-> Earlier(table[e].seen, clock - OnlineTimeout - 1)]
    ELSE NoEntry

\* Reading the table may fail, which leaves the map empty.
LoadFromDb(ok) ==
    /\ ~serving
    /\ serving' = TRUE
    /\ entries' = IF ok THEN [e \in Endpoints |-> Restored(e)] ELSE entries
    /\ UNCHANGED <<clock, table, jobs, doing, heard, restarts>>

Tick ==
    /\ clock < Epoch + MaxElapsed
    /\ clock' = clock + 1
    /\ UNCHANGED <<serving, entries, table, jobs, doing, heard, restarts>>

RegNext ==
    \/ \E h \in Handlers, e \in Endpoints :
          Remove(h, e) \/ \E o \in Owner : Upsert(h, e, o)
    \/ \E h \in Handlers : Inserted(h) \/ Removed(h)
    \/ \E e \in Endpoints : Touch(e)
    \/ \E j \in Jobs : SaveLands(j) \/ DeleteLands(j) \/ JobFails(j)
    \/ Shutdown \/ (\E ok \in BOOLEAN : LoadFromDb(ok)) \/ Tick

RegSpec == RegInit /\ [][RegNext]_regVars

----------------------------------------------------------------------------
(* Properties *)

\* Registry::views: an endpoint is online for a while after its last sign.
Online(e) == entries[e].there /\ clock - entries[e].seen <= OnlineTimeout

\* No endpoint is shown online before its agent has registered with this run
\* of the server, even when the outage was shorter than the timeout
\* (load_from_db moves the time it restores below the threshold).
OfflineUntilHeard == \A e \in Endpoints : Online(e) => e \in heard

\* An endpoint that is neither listed nor saved, nor about to be.
Gone(e) ==
    /\ ~entries[e].there /\ ~table[e].there
    /\ \A j \in Jobs : ~(jobs[j].kind = "save" /\ jobs[j].id = e)
    /\ \A h \in Handlers : ~(doing[h].at = "insert" /\ doing[h].id = e)

Registers(e) == \E h \in Handlers : doing'[h].at = "insert" /\ doing'[h].id = e

\* Once a removal has settled, only a new registration brings the endpoint
\* back: no heartbeat of an agent that is still connected, no late deletion and
\* no restart does (registry.rs, remove and touch).
RemovalSticks == [][\A e \in Endpoints : Gone(e) => Gone(e)' \/ Registers(e)]_regVars
=============================================================================
