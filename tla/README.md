# OhMyDesk: a verification project

OhMyDesk is a remote-desktop system: a server (Rust, axum/tokio) that relays
between desktop clients (Rust, Slint) and web consoles (React). This directory
holds TLA+ modules of its core, TLC configurations that check them on small
instances, and proofs checked by TLAPS.

Source paths below are relative to `src/src/`.

## Inventory

| Part | State | Operations | Hard behaviour |
|---|---|---|---|
| **Socket task** `server/src/main.rs` (`handle_socket`) | the id the connection is bound to; reliable lane; frame slot | bind on first message, read loop, clean-up, outbound pump | one task per connection on a thread pool; clean-up keyed by id, not by connection |
| **Hub** `server/src/hub.rs` | `clients`, `frame_clients`, `actors` | `handle_raw` (one arm per message), `route_to_peer`, `end_client_sessions` | look-up, send and removal are separate accesses; awaits between them |
| **Session handlers** `handlers.rs`, `session.rs` | table of live sessions with input counters | request, answer, withdraw, hang up | session built before an await, entered after it; removal by whoever comes first |
| **Audit** `audit.rs` | `sessions` and `audit_logs` rows | best-effort inserts and updates | a write may fail or be cut off by a restart |
| **Registry** `registry.rs` | endpoints with owner, password, last-seen | upsert, touch, remove, load at start | fire-and-forget writes, unordered |
| **Accounts** `users.rs`, `auth.rs`, `settings.rs`, `db.rs` | accounts with tier and permissions; the old credential; the schema | create, rename, permit, disable, set passwords; migrate, import, bootstrap | check-then-act in several statements; starts interrupted anywhere; the command line beside the server |
| **HTTP API** `http.rs` | none of its own | guards and the order of writes to the stores | a request may be refused half-way |
| **Client network** `client/src/net/` | session context (controlling, controlled, cancelled) | downlink, uplink, reconnect after 3 s | context is fresh per connection while capture, clipboard and UI go on |
| **Client workers** `workers.rs`, `capture.rs` | capture session, clipboard session | start, stop, follow | several sessions share one switch |
| **Client UI glue** `ui_glue/` | copies of the current, controlled and ended session | callbacks, events | single-slot copies updated by other threads |
| **File transfer** `transfer.rs` | open receptions, pull targets | open, chunk, done, abort | ends of session in mid-transfer |
| **Screen** `workers.rs`, `framediff.rs`, `capture.rs`, `adaptive.rs`, `telemetry.rs` | last hashes, ages, tiers, mode, level, controller | capture, compare, encode, skip; degrade, recover, reset | shared values read at different moments of one round |
| **Self-update** `update.rs`, `activity.rs` | version, gate, deadline | check, download, take the gate, replace | the gate and the sessions it guards are read and written by three threads |
| **Link** `net/mod.rs`, `net/conn.rs`, `ui_glue/login.rs`, `credential.rs` | login, credential, connection, pump | log in and out, connect, lose, expire | a connection is over only when nobody holds its channel |
| **Web console** `admin-web/src/` | store of sessions and endpoints | connect, cancel, show | no automatic reconnect |
| **MCP server** `mcp/src/` | none | read-only HTTP calls | none |

Components interact through messages only: every client has one WebSocket to
the server; within the server the tasks share the hub's concurrent maps and the
database.

What makes each part correct, and where a test hardly reaches, is the list
`hazards` of `PROJECT.json`.

## Modules

| Module | Models | State |
|---|---|---|
| `Hub` | the socket tasks, hub, session handlers, session table, rows and audit log | done |
| `MC_Hub` | TLC instances of `Hub` | done |
| `HubProofs` | proof: the types, the inductive invariant and the theorems that follow | done |
| `HubRoutingProofs` | proof, on top of it: `RoutableWhileOpen`, `OwnedByLogin`, `DeliveredToParty`, `SummaryComplete` | done |
| `Outbox` | what a connection's outbound side promises: ordered control messages, ever newer frames | done |
| `FrameLane` | the reliable lane, the single-slot frame lane and the pump; implements `Outbox` | done |
| `MC_FrameLane` | TLC instance of `FrameLane` | done |
| `FrameLaneProofs` | proof: the lane's inductive invariant and the refinement | done |
| `Registry` | the terminal registry: its map, the table behind it, saves and deletions that land in any order, restarts | done |
| `Accounts` | accounts, their migration, the old credential, the start of the server, the command line, tokens, the requests that change accounts | done |
| `StoresProofs` | proof: of the registry `OfflineUntilHeard` and `RemovalSticks`; of the accounts `NamesUnique`, `OneSuperadmin`, `StartKeepsAccounts` and `ImportedOnce`; of both `StoresTypeOK` | done |
| `MC_Stores` | TLC instance of `Registry` and `Accounts` | done |
| `ClientSession` | one client: session context, event consumer, window, shared session ids, capture and clipboard switches, reconnection | done |
| `ClientSessionProofs` | proof: the types, `WorkersFollow` and `OutputIsOurs` | done |
| `ClientLink` | the login, the connection, its pump and heartbeat, what keeps it from being torn down | done |
| `ScreenStream` | the capture thread: due, captured, compared, encoded, sent or skipped | done |
| `Adaptive` | the collector's windows, the controller, the level, the reset by hand | done |
| `Clipboard` | the clipboard threads of the two machines of a session | done |
| `InputPath` | hands, window, dispatch, coalescing and injector | done |
| `InputPathProofs` | proof: the types and `InputFaithful` | done |
| `FileTransfer` | pushes and pulls of one client, receptions and targets | done |
| `FileTransferProofs` | proof: the inductive invariant of transfers and `FileWhole` | done |
| `SelfUpdate` | the update daemon, the gate, and who looks at it when | done |
| `ClientProofs` | proof: `ManualWins`, `StaleAtMostKeyframe`, `OnlyCopiedMeanwhile`, `UpdateGate`, the types of link, screen and quality, and the client as a whole: `ClientTypeOK` | done |
| `MC_Client` | TLC instance of the client's parts | done |

The order was that of importance: what everybody relies on first (who is in a
session, and when it is over), then what is persistent, then what a user sees of
a session. The next steps would be `RemoteControl` (`Hub` with the client modules
on both ends of a lane, against an abstract session life cycle; `Hub` alone fills
the state space TLC can take here) and the console's store.

### How `Hub` corresponds to the code

Each connection `c` has a record `task[c]`: the label is what its task does
next, with the session it does it for. A message is handled by the first action
of its handler (`task[c] = Idle` is the guard), and the handler is continued by
the actions with the other labels. The steps are cut where other tasks can get
in between:

| Code | Actions |
|---|---|
| first message; later `Register` | `Bind`; `Register` |
| end of the read loop, `end_client_sessions`, removal | `Close`, `InputSummarised`, `RowSettled`, `Settled` (one round per session), `Leave` in the last |
| `handle_connect_request` | `Refuse`, `Refused`, or `Request`, `Inserted`, `Connected` |
| `handle_auth_result` | `AuthResult`, `Answered`, `Audited` |
| `handle_cancel_request` | `CancelRequest`, `Withdrawn`, `Audited` |
| `SessionEnd` arm, `handle_session_end` | `SessionEnd`, `HangUp`, `InputSummarised`, `RowSettled`, `Settled` |
| `Input` arm; audited messages; relayed messages | `Input` or `RelayAudited`, then `LookUp`; or `Relay`; then `Send` |
| process restart | `Crash` |

`clients`, `actors`, `owner`, `hasPw`, `live`, `inputs` are the shared maps;
`rows`, `log`, `counted` are what the database shows; `lane` is the reliable
lane of a connection. `forwarded` and `late` are history variables that no guard
reads.

Merged into one step, on purpose: the two map insertions of a bind and the two
removals at the end of a clean-up (nothing reads both); the collection and the
removal of a client's sessions in `remove_sessions_of` (each key is removed
atomically and only what is removed is settled); the check that the peer is
connected and the send to it; the notice of a session's end and its removal.
Connection ids are used once, session ids are fresh: UUIDs. What a client may
send is limited by `Told`: it speaks of a session only after its id has been on
a lane, and answers only requests made to it.

Left out of `Hub`: heartbeats, acknowledgements of registration, the endpoint
list and screenshot requests, which change no session; results of commands and
file data, which are routed like the relayed types that are there; frames, which
have a lane of their own; the texts of messages and audit entries.

### How `FrameLane` corresponds to the code

One instance is the outbound side of one connection. `queue` is the reliable
lane (an unbounded tokio channel), the watch channel that holds the newest frame
is `published` (its version, as each replacement raises it) and `taken` (the
version its receiver has seen): a change is pending while they differ, and a
frame's content is the version it was stored under. `at` is where the pump is in
its `select!`:

| Code | Actions |
|---|---|
| `Hub::send_to` | `SendTo` |
| `Hub::send_frame_to` | `Count`, then `Publish`; other senders and the pump may run in between |
| `remove_client`, or a newer connection under the id | `Unroute`, `CloseSlot` (the latter waits for senders that hold the map entry) |
| `select!`: control lane, else frame lane, else wait | `TakeControl`; `PollSlot`, then `TakeFrame`, `Drain` or `Park` |
| writes to the socket | `WriteControl`, `WriteFrame`, `WriteFails` |
| end of the read loop; `pump.abort()` | `SocketBreaks`; `Abort` |

After `Drain` the pump is in the inner loop, which reads the reliable lane
only (`draining`). The socket is seen to be down by its reader and by its writer
at once. `skipped` and the field `passed` of a waiting message are history. The
arm for a closed reliable lane is unreachable while the pump runs (the socket
task keeps a sender until it has aborted the pump) and is left out. The pump of
the client (`client/src/net/conn.rs`) is the same loop without the counters.

### How the server's stores correspond to the code

`Registry`: `entries` is the map, `table` the rows, `jobs` the spawned writes.
`Upsert` and `Remove` spawn the write first, as the code does, and change the map
in a step of their own (`Inserted`, `Removed`), since the handler may be
descheduled in between. `SaveLands`, `DeleteLands` and `JobFails` let the writes
land in any order. `Touch` is the heartbeat, `Shutdown` and `LoadFromDb` a restart,
with the restored time that `load_from_db` caps. `heard` is history: the endpoints
that registered with this run of the server.

`Accounts`: every SQL statement or transaction is a step.

| Code | Actions |
|---|---|
| `main`, first half | `Launch`, `Migrate`, `CopyRow`, `Commit`, `ReadCredential`, `CreateSuperadmin`, `Import`, `MarkMigrated` (three writes) |
| `run_set_password` | the same start, then `FindTarget`, `CliRename`, `CliReset`; it may be run beside a server that is up |
| a stop of either | `Stop`, `Interrupt` |
| `POST /api/login`; `Auth::validate` | `Login`; the guard `Admits` of every request |
| `POST /api/users` | `Create`, `Insert`, `Disable` |
| `PATCH /api/users/:id` | `Patch`, `SetPermissions`, `CheckName`, `Rename`, `SetEnabled` |
| reset and change of a password | `ResetPassword`; `ChangePassword`, `NameAvailable`, `Change` |

A set of permissions is a set of names. What a row grants (`Effective`) follows
`row_to_user`, with its rule that an empty set is read like the old role was. The
tier of an account never changes (`set_role` has no caller outside tests), so a
check of the tier is made in the step of the write it guards. Passwords are
values, hashes and signatures are equality.

### How the client's modules correspond to the code

`ClientSession` has the three tasks that share the session ids: the net task
(`handle_downlink`, `handle_uplink`: one action per message or click, and
`Reconnect`), the consumer of its events (`Handle...`, which set `cur`, `ctrl`,
`ended` at once and post a closure), and the window's thread (`RunClosure` and the
callbacks of clicks). The server appears as what a client can see of it: `Peer...`
put messages on the lane in order, frames have a slot. `capture` and `clip` are
the sessions the workers serve, `entered` and `lost` are history.

`ClientLink` has the net task's loop (`Gate`, `GateOpens`, `Connect`, `ReadEnds`,
`TokenChanged`, `Leave`, `Drained`, `Wake`), pump and heartbeat, the spawned tasks
that hold the outbound channel, the watched login (`unseen` says whether the net
task's receiver has a change pending), and the queue of reports to the window,
with `AuthExpired` in it.

`ScreenStream` cuts a round of the capture thread where it reads what others
write: `Look` (is a capture due; which level), then `Unable`, `Misfires`,
`LegacyFrame` or `Decide`, then `Encode`. The tiers, the mode, the session and the
adaptive level change in between. Times are ages in units of the shortest
interval; `Passes` is a unit of time without a round. `viewed` is what the viewer
looks at, and `stale` how long it has not been what it should be.

`Adaptive` has the collector (`FrameSampled`, `WindowEnds`, `LevelStored`), and the
reset, which stores the level and marks the controller in two writes
(`ChangedByHand`, `ResetMarked`). The percentile and the aggregation are
operators on the frames of a window; the thresholds are the code's.

`Clipboard` runs one operator, `Polls`, on both machines: take a message, adopt a
remote text, read the clipboard, compare, send. `InputPath` folds
`CoalesceOne` over a batch and `Applied` over what is left, as `coalesce_inputs` and
`Injector::apply` do; the batches are what happens to be in the queue.
`FileTransfer` has one action per message a transfer sends (`SkipFile`, `OpenFile`,
`WriteChunk`), handled as it is sent; `Ask` starts the task, `Meets` and `Parts` are
sessions. `SelfUpdate` has the daemon's steps (`Check`, `Download`, `TakeGate`, one
`LookAt` for each thing `is_idle` reads, `Replace`), the callbacks cut between their
look at the gate and what they do, and the recording of sessions by
`consume_to_ui`, which runs behind the connection.

## Runs

| Run | Instance | Shows |
|---|---|---|
| `hub_core` | 2 endpoints, 3 connections, 1 session id, sockets of one id may overlap, writes may fail, 1 restart | `TypeOK`, `SettledOnce`, `LiveUnsettled`, `InitiatorPresent`, and the whole inductive invariant `IInv` |
| `hub_traffic` | 2 endpoints, 3 connections, 1 session id, 1 input, a relayed and an audited message type | `OneStraggler`, `SummaryComplete`, `DeliveredToParty` |
| `hub_sequential` | 1 console and 2 endpoints, 4 connections, no overlap, 1 restart | `RoutableWhileOpen`, `OwnedByLogin` |
| `hub_live` | 2 endpoints, 2 connections, 2 session ids, fair handlers | `RowsSettle`, `CleanupCompletes` |
| `hub_identity`, `hub_orphan`, `hub_refusal`, `hub_withdrawal` | 2 connections | four statements of comments that the code does not keep (see *Findings*) |
| `frame_lane` | 2 control messages, 2 senders, 2 waiting, 3 frames; fair pump | `FrameLane` implements `Outbox` (`KeepsPromise`); `OneFrameAhead`, `DropIsExact`, `ControlsArrive`, `NewestArrives` |
| `server_stores` | registry: 1 endpoint, 1 owner or none, 2 handlers, 2 pending writes, 1 restart; accounts: 3 ids, 4 names, 2 requests, a database with the four roles or with the old credential, the command line, 1 stop | `StoresTypeOK`, `OfflineUntilHeard`, `RemovalSticks`; `NamesUnique`, `OneSuperadmin`, `ImportedOnce`, `StartKeepsAccounts` |
| `client` | each part of the client with its own small bounds, one in each behaviour | `ClientTypeOK`, `WorkersFollow`, `OutputIsOurs`, `LinkComesBack`, `StaleAtMostKeyframe`, `ManualWins`, `ClipboardSettles`, `OnlyCopiedMeanwhile`, `InputFaithful`, `FileWhole`, `UpdateGate` |
| `client_update` | the update gate, 2 versions, 2 sessions asked for | the design's demand that no session is interrupted does not hold (see *Findings*) |

The bounds: every race in the code is between the two parties of a session, or
between an old and a new socket of one of them, so three connections of two
ids contain each of them; a fourth adds the console, and a second session id adds
the clean-up that settles more than one. `MaxInputs`, `MaxConnects` and
`MaxCrashes` bound counters that only grow. The lanes are not part of the
view in which TLC tells states apart: the hub appends to them and never reads
them. Deadlock is not checked, as connections are used once and a finite
instance runs out of them.

In `frame_lane`, two messages can wait behind one in hand, three frames let one
be shown, one be replaced and one be the last before the slot closes, and two
senders can have counted and not published; `MaxQueue` and `MaxFrames` bound the
instance only, the proofs hold for all values.

`Overlap` says whether an id may reconnect before its old socket has been
cleaned up. The system allows it (a TCP connection may be half-open), and all
properties but `RoutableWhileOpen` and `OwnedByLogin` are checked with it. These
two do not hold with overlap, which is what `hub_identity` shows.

In `server_stores` one restart falls between any two steps of a removal and a
registration, and the clock can pass the timeout or not. Two requests that
overlap contain every race of check and write of `users.rs`; the creations and
changes asked for (`MCCreations`, `MCPatches`) hold names that are free, taken or
the superadmin's, and valid, invalid and empty permissions. A stop of the server or
the command line can fall after any statement; both may migrate.

In `client` every behaviour runs one part and leaves the others as they began
(`part`), since the parts share no state as modelled: their state spaces add up.
Two sessions let one end while the other goes on; two clicks and two events in
flight let each thread overtake the other; a `Keyframe` of three intervals lets a
skipped picture wait, be relaxed and be forced; six windows let the controller
degrade and recover after a reset; two copies on two sides can cross; two transfers
in each direction can share an id. Deadlock is not checked: the bounds on clicks,
faults and requests end every finite instance.

**Fairness.** `FairSpec` has weak fairness of `Resume(c)` for each connection: a
handler that has started runs on, as the tokio runtime polls every woken task
and each write completes with a result. Nothing makes a client speak or
disconnect. The liveness run has no restarts (a restart drops the pending
writes) and a database that answers successfully (a failed write is never
retried); both are needed.

`FrameLane!FairSpec` has weak fairness of the pump, a task of its own that the
runtime polls when either lane wakes it, whose writes to a socket that is up
complete. Since the select is biased, an endless stream of control messages may
keep frames waiting for good, so `NewestArrives` is stated for a reliable lane
that falls quiet. Nobody is obliged to send.

`ClientFairness` has weak fairness of the net task's loop, of the pump, of a
spawned command (it has a timeout, `exec.rs`), of the event consumer and the
window's thread, and of both clipboard threads, which wake up twice a second and
never block on each other, with the arrival of what was sent. The server's
answer to a login, the user and faults are not obliged to do anything, and faults
are bounded: `LinkComesBack` speaks of the time after the last one.

## Proofs

`HubProofs!Invariance` proves `Spec => []IInv` for all values of the constants
that satisfy `HubAssumption`; the other theorems follow from it.

`IInv` is needed since none of the properties is inductive. `SettledOnce` says a
disconnect entry is written once, but it is the tasks in flight that write it,
so the invariant follows each session id through its life (`Held`): not heard of
(`Unheard`), about to be entered by one task (`Inserting`), in the table, then
out of it with one task at most that settles it (`Settling`), and what those
that have looked it up may still do (`Found`, `Sending`). `Apart` says that no
two tasks hold one session in roles that exclude each other. `TaskShape` ties a
task's label to its other fields. The proof has one lemma per group of actions
and part of the invariant; the types come first.

`HubRoutingProofs` builds on it. `RoutableWhileOpen` and `OwnedByLogin` are proved
under `~Overlap`, the case they are stated for: a step either leaves bindings and
registrations alone (`KeepsIds`) or is one of the few that bind, register or leave,
and without overlap nobody else holds the id that a clean-up removes.
`DeliveredToParty` is an action property: a step puts at most one message on each
lane, and the label of the task that sends it says what was looked up. For
`SummaryComplete` the invariant `Summing` keeps a balance for each session: the inputs
counted (in the table, or in the audit log once it is frozen) are at least those
forwarded and those that a task has counted and not yet forwarded. The number of
such tasks is the cardinality of a finite set, and a step moves one connection in
or out of it.

`FrameLaneProofs!LaneInvariance` does the same for the lane; its invariant ties
the counters to the versions (`taken = sent + skipped` and one in hand,
`enqueued = published` and those counted) and says that no waiting message has
been passed while the pump is at the frame lane. `ControlFirst` and
`DropReportExact` follow. `LaneImplementsOutbox` proves that the initial state and
every step of the lane map to `Outbox` with the backlog being the message in the
pump's hand in front of those that wait: `TakeControl` moves a message between the
two and is a stutter, only a write makes a message arrive.

`StoresProofs`, registry: `OfflineUntilHeard` is inductive beside the types: a
restored entry lies so far back that the clock of its run never reaches it, and
every other sign of life is of an endpoint that was heard. `RemovalSticks` follows
action by action, since an endpoint that is gone has no pending save and no handler
about to insert it.

`StoresProofs`, accounts: every step has one of three effects on the table
(`StepEffect`): names and tiers are kept, a row is added under a name nobody has,
or a row gets a name nobody else has. Unique names, and the superadmin being the
account of that name, follow from the effect alone. The invariant `AccInv` adds
what the effects rest on: the order of a start and the schema (`Order`), the copy
the migration builds (`Copied`), that a start past `bootstrap` has a superadmin
(`SuperThere`), and that what a request remembers of an account's tier is still
true when it writes (`TierKnown`): a password change that read the superadmin
writes the superadmin's name back, and no other does. `StartKeepsAccounts` needs one
more: while a migration copies, what it has copied is what the row converts to now
(`CopiedWhole`), since nobody changes a row meanwhile.

`ImportedOnce` follows from `ImportInv`: what a start has read of the old credential
is still what is stored, and once the account was imported either its mark is there
or an account under its name is, so that a later start does not insert a second
one. The theorem has the hypothesis `MaxDbFailures <= 2`: the mark is three
independent writes, one of which suffices, and when all three fail a renamed account
is imported again at the next start. With `MaxDbFailures = 3` TLC finds that
behaviour, so the hypothesis is as weak as it can be.

`AccTypeOK` says that no row is written in part, and is not inductive: a request
writes a row it found several statements earlier. `RowsInv` says of each row that it
is whole or not there (`Rows`), and of each request and program that the row it is
about to write is there (`RequestSound`, `ProgramSound`); rows stay there, since each
of the three effects keeps the ids in use. `StoresTypes` and `StoresSafe` carry the
theorems over to `StoresSpec`, the specification the run checks, a step of which is
a step of one store that leaves the other as it is.

`ClientSessionProofs`: everything that is under way between the three threads, or is
shared by them, names a session the server has heard of (`Known`); a session is
new when the server opens it, so the ids that linger in a queue are never those of
a later session. `WorkersFollow` is inductive beside it. For `OutputIsOurs` the
invariant `Ours` reads the two queues between the net task and the window as one
history: what is posted leads from the session the window has entered to some `y`,
what is reported from `y` to some `z`, every result in between belongs to the last
session entered before it, and the net task is in `z` or in none. Moving a message
from one queue to the other, which the event consumer does, keeps that.

`FileTransferProofs`: `TransferInv` says where a transfer that has a record open
stands: the record holds exactly the chunks it has sent of the file it is in
(`Progress`), unless another transfer used the id or a write of a push failed; a pull
of the session at hand is registered (`Registered`) and saved where it was asked to
be (`Placed`) unless the table of targets was cleared. `FileWhole` is its last
conjunct.

`InputPathProofs`: coalescing and injecting go through sequences, and what they
compute for a batch of any length is proved by induction over its places. An
induction theorem that takes an operator cannot be instantiated by the provers, but
the well-foundedness of `<` on the naturals is stated of a set: `SetInduction`
follows from it, and `Recursion` and `CoalescingSteps` rest on that. `CoalescedFacts`
says of one batch that it leaves the injector as the uncoalesced events would, loses
nothing that is owed and moves no click. The invariant `InputInv` says of the
events that are still to come (`Coming`) that applying them makes the injector's
modifiers those the user holds, that their clicks lie where the pointer will be,
and that the count of buttons the coalescer starts with is right unless a release
came alone. The types need more: no prefix of the queue counts more buttons than
there were acts, and only keys are pressed (`WithinActs`).

`ClientProofs` holds the proofs of the parts that need less. `ManualWins`: what the
controller has come to, it has come to by overloaded windows since the reset, unless
the reset is still to be taken (`Earned`), which is so for one window at most
(`Young`). `StaleAtMostKeyframe`: a frame sent resets the age of what a viewer looks
at, until a keyframe is due that age is no more than that of the frame, and then one
gap is left. `OnlyCopiedMeanwhile`: a side that has polled since the session
began knows it (`Knows`), and what was on its board before and was read is what it
takes for synced (`Stale`). `UpdateGate`: the daemon looks at three things one after
the other, and what it has looked at was not going on (`Looked`). The types of
`ClientLink`, `ScreenStream` and `Adaptive` follow action by action, those of the
screen from the bound on the gap between two captures.

The client as a whole: a step of `ClientSpec` is a step of one part and leaves the
others as they are (`StepOfParts`), so the conjunction of the parts' invariants is
an invariant (`ClientInv`). `ClientTypes`, `ClientSafe` and `ClientActs` state of
`ClientSpec`, which the run checks, what the other theorems state of the parts.

Assumptions on the constants are those stated in the modules (`HubAssumption`,
`AccountsAssumption`, ...), which TLC evaluates. Three of them are there for what the
code's own types give: `Traffic` is of relayed messages other than input, which has
an arm of its own and is counted; a modifier is neither printable nor a button;
some text is small enough to be sent and comes back from the system as it was.

**Only model-checked.** Liveness, which rests on fairness and ENABLED and is out of
the prover's reach: `RowsSettle`, `CleanupCompletes`, `ControlsArrive`,
`NewestArrives`, `LinkComesBack`, `ClipboardSettles`. Every other property of a run
that passes is a theorem (`ImportedOnce` under the hypothesis named above).

## Findings

Five statements of the repository's comments and designs do not describe what the
code does; each has a run with a counterexample of a few steps.

1. `RefusalIsFinal`: a refused (or withdrawn) session's row stays `active`,
   although the protocol says a refused session is recorded as `Rejected`.
2. `NoOrphanAfterGoodbye`: a request that awaits its row can enter a session
   with a client whose clean-up has already run.
3. `IdentityBound`: the clean-up of an old socket takes the identity of the new
   one with it.
4. `EndsOnce`: a withdrawal that loses the race with a hang-up is audited all
   the same.

5. `NothingInterrupted`: a session that begins after the update gate was looked at
   is broken by the replacement of the program, although the design says that no
   session under way or being asked for is.

Modelled as it is, without a promise in the repository to hold it to: a login that
changes while the client connects leaves the connection bound to the old one; a
late report of an expired token logs a new login out; the ack of a withdrawn
request can enter its session after a new request; the end of one session clears
what the window and the clipboard keep of another; a push that could not be
written is reported complete, with a hole (excepted by name in `FileWhole`); the
release of a key pressed with Ctrl is dropped when Ctrl goes first; a password
change undoes a rename made meanwhile; an empty permission set grants everything.

## Not modelled

Listed with reasons in `PROJECT.json`: operating-system calls (grabbing the screen,
injecting keys, elevation), parsing and serialisation, cryptography (library
calls, each with its outcomes), layout and wording of the user interfaces,
packaging and scripts; the login log, chat, directory listings and single
screenshots, which are written or relayed and read by nothing that changes state;
the web console's store and the MCP server.

Not composed: `Hub` with clients at both ends, and `Hub` with `Accounts`. The races
between them (the ack before the notice, permissions copied when a connection
binds) are listed as hazards without a property; each side's half is in its own
module, and one model of both is beyond TLC at sizes where they happen.
