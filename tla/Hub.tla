-------------------------------- MODULE Hub --------------------------------
(***************************************************************************)
(* The server's session core: the WebSocket task of every connection       *)
(* (main.rs, handle_socket), the hub that routes its messages (hub.rs),    *)
(* the handlers that open, answer and close sessions (handlers.rs), the    *)
(* in-memory session table (session.rs) and the session and audit rows     *)
(* written to SQLite on the way (audit.rs).                                *)
(*                                                                         *)
(* The tasks run on a pool of threads, so handlers of different            *)
(* connections interleave at every .await and at every access of a shared  *)
(* table; the messages of one connection are handled one after another.    *)
(* One step looks a session up, or acts on what was found, or completes a  *)
(* write; what a handler still has to do is kept in task[c].               *)
(***************************************************************************)
EXTENDS Naturals, Sequences, FiniteSets

CONSTANTS
    Agents,       \* endpoint ids (desktop clients)
    Admins,       \* connection ids of web consoles ("admin-...")
    Conns,        \* WebSocket connections, each used once
    Sids,         \* session ids (fresh UUIDs)
    Users,        \* accounts
    SuperUsers,   \* accounts of the superadmin tier
    RemoteUsers,  \* accounts holding the use_remote permission
    UserOf,       \* the account whose token connections of an id present
    NoUser,       \* no identity
    NoId,         \* no connection id bound yet
    NoConn,       \* no connection registered
    Overlap,      \* may an id reconnect before its old socket is noticed dead?
    DbOutcomes,   \* possible results of a best-effort write: TRUE is success
    Traffic,      \* message types clients send inside a session here
    MaxInputs,    \* bound: input messages handled per session
    MaxConnects,  \* bound: positive answers handled per session
    MaxCrashes    \* bound: server restarts

Ids == Agents \cup Admins

VARIABLES
    bound,     \* connection -> id its first message bound it to
    task,      \* connection -> what its socket task awaits
    clients,   \* id -> connection that receives what is sent to it
    actors,    \* id -> identity bound by its token
    owner,     \* endpoint -> account it is registered under
    hasPw,     \* endpoints whose temporary password the registry knows
    live,      \* session ids in the session table
    meta,      \* session id -> the Session record built for it
    inputs,    \* session id -> its input counter while it is live
    rows,      \* session id -> status of its database row
    log,       \* session id -> number of audit rows of each kind
    counted,   \* session id -> inputs reported by its audit summary
    forwarded, \* history: inputs routed to the other side of a session
    late,      \* history: messages of a session a connection's task routed
               \* after the session had left the table
    lane,      \* connection -> reliable control lane towards the client
    crashes    \* restarts so far

vars == <<bound, task, clients, actors, owner, hasPw, live, meta, inputs,
          rows, log, counted, forwarded, late, lane, crashes>>

----------------------------------------------------------------------------
(* Types *)

Labels == {"unbound", "idle", "insert", "connect", "refuse", "answer",
           "withdraw", "hangup", "audit", "relay", "send", "input", "row",
           "bye", "closed"}
Kinds  == {"connect", "reject", "withdrawn", "input", "disconnect"}
Events == Kinds \cup {"none"}

\* Message types of the control lane that belong to a session.
AuditedTypes == {"exec", "file", "chat"}
Relayed == AuditedTypes \cup {"keys", "quality", "capture", "clipboard", "notice"}
MsgTypes == {"incoming", "ack", "reject", "end"} \cup Relayed
NoSid == "nosid"
AnySid == Sids \cup {NoSid}

ASSUME HubAssumption ==
    /\ Agents \cap Admins = {}
    /\ SuperUsers \subseteq Users /\ RemoteUsers \subseteq Users
    /\ NoUser \notin Users /\ NoId \notin Ids /\ NoConn \notin Conns
    /\ UserOf \in [Ids -> Users \cup {NoUser}]
    /\ \A i \in Admins : UserOf[i] # NoUser    \* an admin needs a valid token
    /\ Overlap \in BOOLEAN
    /\ Traffic \subseteq Relayed \ {"keys"}   \* what is typed is counted: Input
    /\ DbOutcomes \in {{TRUE}, {TRUE, FALSE}}
    /\ MaxInputs \in Nat /\ MaxConnects \in Nat /\ MaxCrashes \in Nat

Msg == [type : MsgTypes, sid : AnySid, auto : BOOLEAN]
Task == [at : Labels, sid : AnySid, kind : Events \cup Relayed,
         left : SUBSET Sids, quit : BOOLEAN]
Meta == [from : Ids \cup {NoId}, to : Agents \cup {NoId}, auto : BOOLEAN]

\* A session table entry that was never built.
Unborn == [from |-> NoId, to |-> NoId, auto |-> FALSE]

TypeOK ==
    /\ bound   \in [Conns -> Ids \cup {NoId}]
    /\ task    \in [Conns -> Task]
    /\ clients \in [Ids -> Conns \cup {NoConn}]
    /\ actors  \in [Ids -> Users \cup {NoUser}]
    /\ owner   \in [Agents -> Users \cup {NoUser}]
    /\ hasPw   \in SUBSET Agents
    /\ live    \in SUBSET Sids
    /\ meta    \in [Sids -> Meta]
    /\ inputs  \in [Sids -> Nat]
    /\ rows    \in [Sids -> {"absent", "active", "ended"}]
    /\ log     \in [Sids -> [Kinds -> Nat]]
    /\ counted \in [Sids -> Nat]
    /\ forwarded \in [Sids -> Nat]
    /\ late    \in [Conns -> [Sids -> Nat]]
    /\ lane    \in [Conns -> Seq(Msg)]
    /\ crashes \in 0..MaxCrashes

----------------------------------------------------------------------------
(* Helpers *)

At(label, s, k) ==
    [at |-> label, sid |-> s, kind |-> k, left |-> {}, quit |-> FALSE]
Unbound == At("unbound", NoSid, "none")
Idle    == At("idle", NoSid, "none")
Closed  == At("closed", NoSid, "none")

Note(type, s) == [type |-> type, sid |-> s, auto |-> FALSE]
Incoming(s)   == [type |-> "incoming", sid |-> s, auto |-> meta[s].auto]

\* Hub::send_to: append to the lane registered for an id, if there is one.
SendTo(i, m) ==
    IF i \in Ids /\ clients[i] # NoConn
    THEN [lane EXCEPT ![clients[i]] = Append(@, m)]
    ELSE lane

PartyOf(s) == {meta[s].from, meta[s].to}
Other(s, i) == IF meta[s].from = i THEN meta[s].to ELSE meta[s].from

\* mutant: the table is not asked whether the session is still in it
RoutableAlways(s, i) == i \in PartyOf(s)

\* SessionStore::peer_of finds a peer for sender i.
Routable(s, i) == s \in live /\ i \in PartyOf(s)

Fresh(s) == meta[s] = Unborn
Logged(s, k) == [log EXCEPT ![s][k] = @ + 1]

\* The gates of a connect request, in the order the code applies them.
MayUseRemote(i) == i \in Admins => actors[i] \in RemoteUsers \cup SuperUsers
InScope(i, to) ==
    i \in Admins => \/ actors[i] \in SuperUsers
                    \/ actors[i] # NoUser /\ owner[to] = actors[i]

\* Desktop clients only ask in mode B, without force; a console uses both modes.
Passwords == {"none", "right", "wrong"}
RequestsB == [to : Agents, mode : {"B"}, pw : Passwords, force : {FALSE}]
RequestsOf(i) ==
    IF i \in Agents THEN RequestsB
    ELSE RequestsB \cup [to : Agents, mode : {"A"}, pw : {"none"}, force : BOOLEAN]

\* decide_connect over the request and the registry's password check.
Decide(r) ==
    CASE r.mode = "A" -> IF r.force THEN "auto" ELSE "consent"
      [] r.mode = "B" /\ r.pw = "none" -> "consent"
      [] OTHER -> IF r.pw = "right" /\ r.to \in hasPw THEN "auto" ELSE "badpw"

----------------------------------------------------------------------------
(* Initial state and the life of a socket (handle_socket) *)

Init ==
    /\ bound = [c \in Conns |-> NoId]
    /\ task = [c \in Conns |-> Unbound]
    /\ clients = [i \in Ids |-> NoConn]
    /\ actors = [i \in Ids |-> NoUser]
    /\ owner = [a \in Agents |-> NoUser]
    /\ hasPw = {}
    /\ live = {}
    /\ meta = [s \in Sids |-> Unborn]
    /\ inputs = [s \in Sids |-> 0]
    /\ rows = [s \in Sids |-> "absent"]
    /\ log = [s \in Sids |-> [k \in Kinds |-> 0]]
    /\ counted = [s \in Sids |-> 0]
    /\ forwarded = [s \in Sids |-> 0]
    /\ late = [c \in Conns |-> [s \in Sids |-> 0]]
    /\ lane = [c \in Conns |-> <<>>]
    /\ crashes = 0

historyVars == <<forwarded, late>>
sessionVars == <<live, meta, inputs, rows, log, counted, historyVars>>
hubVars     == <<bound, clients, actors, owner, hasPw>>

\* mutant: the Register is handled before the identity is bound
BindLate(c, i) ==
    /\ task[c] = Unbound
    /\ Overlap \/ \A d \in Conns : bound[d] = i => task[d] = Closed
    /\ bound' = [bound EXCEPT ![c] = i]
    /\ task' = [task EXCEPT ![c] = Idle]
    /\ clients' = [clients EXCEPT ![i] = c]
    /\ actors' = IF UserOf[i] = NoUser THEN actors
                 ELSE [actors EXCEPT ![i] = UserOf[i]]
    /\ owner' = IF i \in Agents THEN [owner EXCEPT ![i] = actors[i]] ELSE owner
    /\ hasPw' = hasPw \cup ({i} \cap Agents)
    /\ UNCHANGED <<sessionVars, lane, crashes>>

\* The first message binds the connection to its sender's id.  An agent's is
\* its Register, which also stamps the owner and the password in the registry.
Bind(c, i) ==
    /\ task[c] = Unbound
    /\ Overlap \/ \A d \in Conns : bound[d] = i => task[d] = Closed
    /\ bound' = [bound EXCEPT ![c] = i]
    /\ task' = [task EXCEPT ![c] = Idle]
    /\ clients' = [clients EXCEPT ![i] = c]
    /\ actors' = IF UserOf[i] = NoUser THEN actors
                 ELSE [actors EXCEPT ![i] = UserOf[i]]
    /\ IF i \in Agents
       THEN /\ owner' = [owner EXCEPT ![i] = actors'[i]]
            /\ hasPw' = hasPw \cup {i}
       ELSE UNCHANGED <<owner, hasPw>>
    /\ UNCHANGED <<sessionVars, lane, crashes>>

\* A later Register (the agent rotated its password) stamps the owner anew,
\* from whatever identity is bound to the id at that moment.
Register(c) ==
    /\ task[c] = Idle /\ bound[c] \in Agents
    /\ owner' = [owner EXCEPT ![bound[c]] = actors[bound[c]]]
    /\ hasPw' = hasPw \cup {bound[c]}
    /\ UNCHANGED <<bound, task, clients, actors, sessionVars, lane, crashes>>

\* Removing an id from the hub: whoever it is registered for now.
Leave(i) ==
    /\ clients' = [clients EXCEPT ![i] = NoConn]
    /\ actors' = [actors EXCEPT ![i] = NoUser]

\* Announce the end of s to the party other than i and go on to settle it;
\* rest are the sessions still to be settled after it.
SettleNext(c, i, s, rest) ==
    /\ task' = [task EXCEPT ![c] = [At("input", s, "disconnect")
                                     EXCEPT !.left = rest, !.quit = TRUE]]
    /\ lane' = SendTo(Other(s, i), Note("end", s))

\* mutant: only sessions the id is the target of are looked for (every), or the
\* id is unregistered before they are settled (early)
CloseAs(c, every, early) ==
    /\ task[c] \in {Unbound, Idle}
    /\ LET i == bound[c]
           mine == {s \in live : i = meta[s].to \/ (every /\ i = meta[s].from)}
       IN  /\ live' = live \ mine
           /\ IF mine = {}
              THEN task' = [task EXCEPT ![c] = Closed] /\ UNCHANGED lane
              ELSE \E s \in mine : SettleNext(c, i, s, mine \ {s})
           /\ IF i # NoId /\ (early \/ mine = {}) THEN Leave(i)
              ELSE UNCHANGED <<clients, actors>>
    /\ UNCHANGED <<bound, owner, hasPw, meta, inputs, rows, log, counted, historyVars,
                   crashes>>
CloseTargetOnly(c) == CloseAs(c, FALSE, FALSE)
CloseLeavesFirst(c) == CloseAs(c, TRUE, TRUE)

\* The socket task leaves its loop: unregister, or settle first every session
\* its id takes part in (end_client_sessions).
Close(c) ==
    /\ task[c] \in {Unbound, Idle}
    /\ LET i == bound[c]
           mine == {s \in live : i \in PartyOf(s)}
       IN  /\ live' = live \ mine
           /\ IF mine = {}
              THEN /\ task' = [task EXCEPT ![c] = Closed]
                   /\ IF i = NoId THEN UNCHANGED <<clients, actors>> ELSE Leave(i)
                   /\ lane' = [lane EXCEPT ![c] = <<>>]
              ELSE /\ \E s \in mine : SettleNext(c, i, s, mine \ {s})
                   /\ UNCHANGED <<clients, actors>>
    /\ UNCHANGED <<bound, owner, hasPw, meta, inputs, rows, log, counted, historyVars,
                   crashes>>

----------------------------------------------------------------------------
(* Opening a session (handle_connect_request) *)

\* A request the gates refuse out loud is audited under an id no session has,
\* then answered with a Reject; the silent gates change nothing.
Refuse(c, r) ==
    LET i == bound[c] IN
    /\ task[c] = Idle
    /\ MayUseRemote(i)
    /\ \/ i = r.to
       \/ ~InScope(i, r.to)
       \/ (r.mode = "A" => i \in Admins) /\ Decide(r) = "badpw"
    /\ task' = [task EXCEPT ![c] = At("refuse", NoSid, "none")]
    /\ UNCHANGED <<hubVars, sessionVars, lane, crashes>>

Refused(c) ==
    /\ task[c].at = "refuse"
    /\ task' = [task EXCEPT ![c] = Idle]
    /\ lane' = SendTo(bound[c], Note("reject", NoSid))
    /\ UNCHANGED <<hubVars, sessionVars, crashes>>

\* An admitted request builds the session and awaits its row.
Request(c, r, s) ==
    LET i == bound[c] IN
    /\ task[c] = Idle
    /\ Fresh(s)
    /\ MayUseRemote(i) /\ i # r.to /\ InScope(i, r.to)
    /\ r.mode = "A" => i \in Admins
    /\ Decide(r) \in {"auto", "consent"}
    /\ meta' = [meta EXCEPT ![s] =
                   [from |-> i, to |-> r.to, auto |-> Decide(r) = "auto"]]
    /\ task' = [task EXCEPT ![c] = At("insert", s, "none")]
    /\ UNCHANGED <<hubVars, live, inputs, rows, log, counted, historyVars, lane, crashes>>

\* The row is written (or lost): enter the session in the table.  A request
\* that needs no consent is acknowledged and audited before the controlled
\* side is told; one that needs consent goes to the controlled side.
Inserted(c, ok) ==
    LET s == task[c].sid IN
    /\ task[c].at = "insert"
    /\ rows' = [rows EXCEPT ![s] = IF ok THEN "active" ELSE @]
    /\ live' = live \cup {s}
    /\ IF meta[s].auto
       THEN /\ lane' = SendTo(bound[c], Note("ack", s))
            /\ task' = [task EXCEPT ![c] = At("connect", s, "connect")]
       ELSE /\ lane' = SendTo(meta[s].to, Incoming(s))
            /\ task' = [task EXCEPT ![c] = Idle]
    /\ UNCHANGED <<hubVars, meta, inputs, log, counted, historyVars, crashes>>

Connected(c, ok) ==
    LET s == task[c].sid IN
    /\ task[c].at = "connect"
    /\ log' = IF ok THEN Logged(s, "connect") ELSE log
    /\ lane' = SendTo(meta[s].to, Incoming(s))
    /\ task' = [task EXCEPT ![c] = Idle]
    /\ UNCHANGED <<hubVars, live, meta, inputs, rows, counted, historyVars, crashes>>

----------------------------------------------------------------------------
(* Answering, withdrawing and ending a session *)

\* The controlled side answers (handle_auth_result): the session's initiator is
\* looked up; the answer to a session that is gone is ignored.
AuthResult(c, s, ok) ==
    /\ task[c] = Idle /\ s \in live
    /\ task' = [task EXCEPT ![c] = At("answer", s, IF ok THEN "connect" ELSE "reject")]
    /\ UNCHANGED <<hubVars, sessionVars, lane, crashes>>

\* mutant: a refusal leaves the session in the table
AnsweredKeeps(c) ==
    LET t == task[c] IN
    /\ t.at = "answer"
    /\ task' = [task EXCEPT ![c] = At("audit", t.sid, t.kind)]
    /\ lane' = SendTo(meta[t.sid].from,
                      Note(IF t.kind = "reject" THEN "reject" ELSE "ack", t.sid))
    /\ UNCHANGED <<hubVars, sessionVars, crashes>>

\* mutant: the acknowledgement goes to the side that answered
AnsweredBack(c) ==
    LET t == task[c] IN
    /\ t.at = "answer"
    /\ task' = [task EXCEPT ![c] = At("audit", t.sid, t.kind)]
    /\ live' = IF t.kind = "reject" THEN live \ {t.sid} ELSE live
    /\ lane' = SendTo(bound[c], Note(IF t.kind = "reject" THEN "reject" ELSE "ack", t.sid))
    /\ UNCHANGED <<hubVars, meta, inputs, rows, log, counted, historyVars, crashes>>

\* Acceptance acknowledges and changes nothing; refusal removes the session,
\* whoever else may have removed it since.
Answered(c) ==
    LET t == task[c] IN
    /\ t.at = "answer"
    /\ task' = [task EXCEPT ![c] = At("audit", t.sid, t.kind)]
    /\ live' = IF t.kind = "reject" THEN live \ {t.sid} ELSE live
    /\ lane' = SendTo(meta[t.sid].from,
                      Note(IF t.kind = "reject" THEN "reject" ELSE "ack", t.sid))
    /\ UNCHANGED <<hubVars, meta, inputs, rows, log, counted, historyVars, crashes>>

\* The initiator withdraws (handle_cancel_request): any session it has towards
\* the target is looked up, and then removed in memory.
CancelRequest(c, to) ==
    /\ task[c] = Idle
    /\ \E s \in live :
         /\ meta[s].from = bound[c] /\ meta[s].to = to
         /\ task' = [task EXCEPT ![c] = At("withdraw", s, "withdrawn")]
    /\ UNCHANGED <<hubVars, sessionVars, lane, crashes>>

\* mutant: the withdrawn session is announced and audited, and not removed
WithdrawnKeeps(c) ==
    LET s == task[c].sid IN
    /\ task[c].at = "withdraw"
    /\ task' = [task EXCEPT ![c] = At("audit", s, "withdrawn")]
    /\ lane' = SendTo(meta[s].to, Note("end", s))
    /\ UNCHANGED <<hubVars, sessionVars, crashes>>

Withdrawn(c) ==
    LET s == task[c].sid IN
    /\ task[c].at = "withdraw"
    /\ task' = [task EXCEPT ![c] = At("audit", s, "withdrawn")]
    /\ live' = live \ {s}
    /\ lane' = SendTo(meta[s].to, Note("end", s))
    /\ UNCHANGED <<hubVars, meta, inputs, rows, log, counted, historyVars, crashes>>

\* The last audit write of a handler.
Audited(c, ok) ==
    /\ task[c].at = "audit"
    /\ log' = IF ok THEN Logged(task[c].sid, task[c].kind) ELSE log
    /\ task' = [task EXCEPT ![c] = Idle]
    /\ UNCHANGED <<hubVars, live, meta, inputs, rows, counted, historyVars, lane,
                   crashes>>

\* One side hangs up (SessionEnd arm): its peer is looked up to be told first.
SessionEnd(c, s) ==
    /\ task[c] = Idle
    /\ Routable(s, bound[c])
    /\ task' = [task EXCEPT ![c] = At("hangup", s, "disconnect")]
    /\ UNCHANGED <<hubVars, sessionVars, lane, crashes>>

\* mutant: a hang-up is settled whether or not the session was still there
HangUpAnyway(c) ==
    LET s == task[c].sid IN
    /\ task[c].at = "hangup"
    /\ lane' = SendTo(Other(s, bound[c]), Note("end", s))
    /\ live' = live \ {s}
    /\ task' = [task EXCEPT ![c] = At("input", s, "disconnect")]
    /\ UNCHANGED <<hubVars, meta, inputs, rows, log, counted, historyVars, crashes>>

\* The peer is told and the session removed (handle_session_end): only the task
\* that finds it in the table settles it.
HangUp(c) ==
    LET s == task[c].sid IN
    /\ task[c].at = "hangup"
    /\ lane' = SendTo(Other(s, bound[c]), Note("end", s))
    /\ live' = live \ {s}
    /\ task' = [task EXCEPT ![c] = IF s \in live THEN At("input", s, "disconnect")
                                   ELSE Idle]
    /\ UNCHANGED <<hubVars, meta, inputs, rows, log, counted, historyVars, crashes>>

\* Settling a removed session is three writes: the input summary, the final
\* status of its row, the disconnect entry.
InputSummarised(c, ok) ==
    LET s == task[c].sid IN
    /\ task[c].at = "input"
    /\ log' = IF ok THEN Logged(s, "input") ELSE log
    /\ counted' = IF ok THEN [counted EXCEPT ![s] = inputs[s]] ELSE counted
    /\ task' = [task EXCEPT ![c].at = "row"]
    /\ UNCHANGED <<hubVars, live, meta, inputs, rows, historyVars, lane, crashes>>

\* mutant: a status no reader of the row knows
RowSettledUnknown(c, ok) ==
    LET s == task[c].sid IN
    /\ task[c].at = "row"
    /\ rows' = IF ok /\ rows[s] # "absent" THEN [rows EXCEPT ![s] = "closed"] ELSE rows
    /\ task' = [task EXCEPT ![c].at = "bye"]
    /\ UNCHANGED <<hubVars, live, meta, inputs, log, counted, historyVars, lane,
                   crashes>>

\* An UPDATE of a row that was never written changes nothing.
RowSettled(c, ok) ==
    LET s == task[c].sid IN
    /\ task[c].at = "row"
    /\ rows' = IF ok /\ rows[s] # "absent" THEN [rows EXCEPT ![s] = "ended"] ELSE rows
    /\ task' = [task EXCEPT ![c].at = "bye"]
    /\ UNCHANGED <<hubVars, live, meta, inputs, log, counted, historyVars, lane,
                   crashes>>

\* mutants: the clean-up stops after its first session, or its task goes back to
\* the loop of a socket that is gone
SettledAs(c, ok, next) ==
    LET t == task[c] IN
    /\ t.at = "bye"
    /\ log' = IF ok THEN Logged(t.sid, "disconnect") ELSE log
    /\ task' = [task EXCEPT ![c] = IF t.quit THEN next ELSE Idle]
    /\ IF t.quit /\ next = Closed THEN Leave(bound[c]) ELSE UNCHANGED <<clients, actors>>
    /\ UNCHANGED <<bound, owner, hasPw, live, meta, inputs, rows, counted,
                   historyVars, lane, crashes>>
SettledFirstOnly(c, ok) == SettledAs(c, ok, Closed)
SettledLoops(c, ok) == SettledAs(c, ok, Idle)

\* After the last write: back to the loop, on to the next session of a closed
\* connection, or unregister it.
Settled(c, ok) ==
    LET t == task[c] IN
    /\ t.at = "bye"
    /\ log' = IF ok THEN Logged(t.sid, "disconnect") ELSE log
    /\ \/ /\ ~t.quit
          /\ task' = [task EXCEPT ![c] = Idle]
          /\ UNCHANGED <<clients, actors, lane>>
       \/ /\ t.left # {}
          /\ \E s \in t.left : SettleNext(c, bound[c], s, t.left \ {s})
          /\ UNCHANGED <<clients, actors>>
       \/ /\ t.quit /\ t.left = {}
          /\ task' = [task EXCEPT ![c] = Closed]
          /\ Leave(bound[c])
          /\ lane' = [lane EXCEPT ![c] = <<>>]
    /\ UNCHANGED <<bound, owner, hasPw, live, meta, inputs, rows, counted,
                   historyVars, crashes>>

----------------------------------------------------------------------------
(* Traffic inside a session *)

\* mutant: only what the initiator sends is counted
InputOneSided(c, s) ==
    /\ task[c] = Idle
    /\ inputs' = IF s \in live /\ meta[s].from = bound[c]
                 THEN [inputs EXCEPT ![s] = @ + 1] ELSE inputs
    /\ task' = [task EXCEPT ![c] = At("relay", s, "keys")]
    /\ UNCHANGED <<hubVars, live, meta, rows, log, counted, historyVars, lane, crashes>>

\* Input is counted for the session before it is routed.
Input(c, s) ==
    /\ task[c] = Idle
    /\ inputs' = IF s \in live THEN [inputs EXCEPT ![s] = @ + 1] ELSE inputs
    /\ task' = [task EXCEPT ![c] = At("relay", s, "keys")]
    /\ UNCHANGED <<hubVars, live, meta, rows, log, counted, historyVars, lane, crashes>>

\* Commands, chat and file requests are audited, and routed after that write.
RelayAudited(c, s, type) ==
    /\ task[c] = Idle
    /\ task' = [task EXCEPT ![c] = At("relay", s, type)]
    /\ UNCHANGED <<hubVars, sessionVars, lane, crashes>>

\* Whatever else belongs to a session is routed as it comes: look up the peer.
Relay(c, s, type) ==
    /\ task[c] = Idle
    /\ Routable(s, bound[c])
    /\ task' = [task EXCEPT ![c] = At("send", s, type)]
    /\ UNCHANGED <<hubVars, sessionVars, lane, crashes>>

\* The look-up of route_to_peer for a message already counted or audited.
LookUp(c) ==
    LET t == task[c] IN
    /\ t.at = "relay"
    /\ task' = [task EXCEPT ![c] = IF Routable(t.sid, bound[c])
                                   THEN At("send", t.sid, t.kind) ELSE Idle]
    /\ UNCHANGED <<hubVars, sessionVars, lane, crashes>>

\* The peer that was found is sent the message, if it is connected.
Send(c) ==
    LET t == task[c]
        peer == Other(t.sid, bound[c])
        reached == peer \in Ids /\ clients[peer] # NoConn
    IN  /\ t.at = "send"
        /\ task' = [task EXCEPT ![c] = Idle]
        /\ lane' = SendTo(peer, Note(t.kind, t.sid))
        /\ forwarded' = IF reached /\ t.kind = "keys"
                        THEN [forwarded EXCEPT ![t.sid] = @ + 1] ELSE forwarded
        /\ late' = IF reached /\ t.sid \notin live
                   THEN [late EXCEPT ![c][t.sid] = @ + 1] ELSE late
        /\ UNCHANGED <<hubVars, live, meta, inputs, rows, log, counted, crashes>>

\* The process dies and starts again: memory is lost, the database stays.
Crash ==
    /\ crashes < MaxCrashes
    /\ crashes' = crashes + 1
    /\ task' = [c \in Conns |-> IF task[c] = Unbound THEN Unbound ELSE Closed]
    /\ clients' = [i \in Ids |-> NoConn]
    /\ actors' = [i \in Ids |-> NoUser]
    /\ hasPw' = {}
    /\ live' = {}
    /\ lane' = [c \in Conns |-> <<>>]
    /\ UNCHANGED <<bound, owner, meta, inputs, rows, log, counted, historyVars>>

----------------------------------------------------------------------------
(* The hub on its own: any message an honest client of the id may send *)

\* What the task of c does next in the handler it is running.
Resume(c) ==
    \/ Refused(c) \/ Answered(c) \/ Withdrawn(c) \/ HangUp(c)
    \/ LookUp(c) \/ Send(c)
    \/ \E ok \in DbOutcomes :
         \/ Inserted(c, ok) \/ Connected(c, ok) \/ Audited(c, ok)
         \/ InputSummarised(c, ok) \/ RowSettled(c, ok) \/ Settled(c, ok)

\* A client can only speak of a session it has been told of.
Told(s) == ~Fresh(s) /\ \A c \in Conns : task[c].at = "insert" => task[c].sid # s

Receive(c) ==
    \/ Register(c)
    \/ bound[c] # NoId /\ \E r \in RequestsOf(bound[c]) :
            Refuse(c, r) \/ \E s \in Sids : Request(c, r, s)
    \/ \E a \in Agents : CancelRequest(c, a)
    \/ \E s \in {r \in Sids : Told(r)} :
         \/ \E ok \in BOOLEAN :
              /\ bound[c] = meta[s].to /\ ~meta[s].auto
              /\ ok => log[s]["connect"] < MaxConnects
              /\ AuthResult(c, s, ok)
         \/ /\ bound[c] \in PartyOf(s)
            /\ \/ SessionEnd(c, s)
               \/ inputs[s] < MaxInputs /\ Input(c, s)
               \/ \E type \in Traffic : IF type \in AuditedTypes
                                        THEN RelayAudited(c, s, type)
                                        ELSE Relay(c, s, type)

Next ==
    \/ Crash
    \/ \E c \in Conns :
         \/ \E i \in Ids : Bind(c, i)
         \/ Receive(c) \/ Resume(c) \/ Close(c)

Spec == Init /\ [][Next]_vars

\* A handler runs on, its writes complete; nothing forces a client to speak.
Fairness == \A c \in Conns : WF_vars(Resume(c))
FairSpec == Spec /\ Fairness

----------------------------------------------------------------------------
(* Safety *)

Ends(s) == log[s]["reject"] + log[s]["withdrawn"] + log[s]["disconnect"]

\* A session is settled once: however the hang-ups of both sides and the
\* clean-ups of both connections interleave, one input summary and one
\* disconnect entry are written (SessionStore::end_session hands the session to
\* one caller, and both paths write only what they were handed).
SettledOnce == \A s \in Sids : log[s]["disconnect"] <= 1 /\ log[s]["input"] <= 1

\* A session still in the table has not been settled by anyone: its row is not
\* in a final state and no end of it is in the audit log.
LiveUnsettled ==
    \A s \in live : rows[s] # "ended" /\ Ends(s) = 0 /\ log[s]["input"] = 0

\* A session in the table has an initiator whose socket task still runs its
\* loop: requests and the clean-up of one connection are handled in order, so
\* none of its sessions can be entered behind the clean-up's back.
InitiatorPresent ==
    \A s \in live : \E c \in Conns :
        bound[c] = meta[s].from /\ task[c] # Closed /\ ~task[c].quit

\* A hang-up cannot recall what is being routed, but no connection routes more
\* than the one message it is handling into a session that has left the table
\* (route_to_peer looks the session up for every message).
OneStraggler == \A c \in Conns, s \in Sids : late[c][s] <= 1

\* The audited input summary misses no input that reached the other side
\* (handle_raw counts before it routes, end_session freezes the count).
SummaryComplete ==
    \A s \in Sids : log[s]["input"] = 1 => counted[s] >= forwarded[s]

\* What is sent about a session goes to a party of it: requests to the
\* controlled side, answers to the initiator, relayed messages to the party that
\* did not send them.
DeliveredToParty ==
    [][\A c \in Conns :
          Len(lane'[c]) > Len(lane[c]) =>
              LET m == lane'[c][Len(lane'[c])]
                  i == bound[c]
              IN  m.sid # NoSid =>
                  /\ i \in PartyOf(m.sid)
                  /\ m.type = "incoming" => i = meta[m.sid].to
                  /\ m.type \in {"ack", "reject"} => i = meta[m.sid].from
                  /\ m.type \in Relayed =>
                        \E d \in Conns : task[d].at = "send" /\ task'[d] = Idle
                                         /\ bound[d] \in PartyOf(m.sid) \ {i}]_vars

\* While no id has two sockets at once, every bound connection is the one its
\* id routes to and carries the identity of its token, until its clean-up ends.
RoutableWhileOpen ==
    \A c \in Conns :
        bound[c] # NoId /\ task[c] # Closed =>
            clients[bound[c]] = c /\ actors[bound[c]] = UserOf[bound[c]]

\* While no id has two sockets at once, a connected endpoint is registered
\* under the account of its token, however often it registers again.
OwnedByLogin ==
    \A a \in Agents : clients[a] # NoConn => owner[a] = UserOf[a]

(***************************************************************************)
(* The inductive invariant behind SettledOnce, LiveUnsettled,              *)
(* InitiatorPresent and OneStraggler.  A session id is about to be entered *)
(* by one task, then in the table, then out of it for good; one task at    *)
(* most settles it, and what was looked up before it left is all that is   *)
(* still done about it.                                                    *)
(***************************************************************************)
Settlement == {"input", "row", "bye"}
InSession  == {"insert", "connect", "answer", "withdraw", "hangup", "audit",
               "relay", "send"} \cup Settlement

Inserting(c, s) == task[c].at = "insert" /\ task[c].sid = s
Settling(c, s)  == \/ s \in task[c].left
                   \/ task[c].at \in Settlement /\ task[c].sid = s
Summarised(c, s) == task[c].at \in {"row", "bye"} /\ task[c].sid = s
Found(c, s)     == task[c].at \in {"answer", "withdraw", "audit"} /\ task[c].sid = s
Recording(c, s) == /\ task[c].at = "audit" /\ task[c].sid = s
                   /\ task[c].kind # "connect"
Sending(c, s)   == task[c].at = "send" /\ task[c].sid = s

TaskShape(c) ==
    LET t == task[c] IN
    /\ t.at = "unbound" => t = Unbound /\ bound[c] = NoId
    /\ t.at # "unbound" /\ t # Closed => bound[c] \in Ids
    /\ t.at = "idle" => t = Idle
    /\ t.at = "closed" => t = Closed
    /\ t.at \in InSession => t.sid \in Sids
    /\ t.at = "insert" => meta[t.sid].from = bound[c]
    /\ t.at = "answer" => t.kind \in {"connect", "reject"}
    /\ t.at = "audit" => t.kind \in {"connect", "reject", "withdrawn"}
    /\ t.at \in {"relay", "send"} => t.kind \in Relayed
    /\ t.quit => t.at \in Settlement
    /\ t.left # {} => t.quit /\ t.sid \notin t.left

\* Nothing has happened to s yet.
Unheard(s) ==
    /\ s \notin live /\ rows[s] # "ended" /\ Ends(s) = 0 /\ log[s]["input"] = 0
    /\ \A c \in Conns : late[c][s] = 0

HeldBy(c, s) ==
    /\ Inserting(c, s) => Unheard(s) /\ ~Fresh(s)
    /\ Settling(c, s) => /\ s \notin live /\ ~Fresh(s) /\ log[s]["disconnect"] = 0
                         /\ Summarised(c, s) \/ log[s]["input"] = 0
    /\ Found(c, s) => ~Fresh(s)
    /\ Recording(c, s) => s \notin live
    /\ Sending(c, s) => ~Fresh(s) /\ late[c][s] = 0

Apart(c, d, s) ==
    /\ Settling(c, s) /\ Settling(d, s) => c = d
    /\ Inserting(c, s) /\ Inserting(d, s) => c = d
    /\ Inserting(c, s) => ~Settling(d, s) /\ ~Found(d, s) /\ ~Sending(d, s)

Held(s) ==
    /\ \A c \in Conns : HeldBy(c, s)
    /\ \A c, d \in Conns : Apart(c, d, s)
    /\ IF Fresh(s) THEN Unheard(s) /\ rows[s] = "absent"
       ELSE meta[s].from \in Ids /\ meta[s].to \in Agents
    /\ s \in live => \A c \in Conns : late[c][s] = 0

IInv ==
    /\ TypeOK
    /\ \A c \in Conns : TaskShape(c)
    /\ \A s \in Sids : Held(s)
    /\ SettledOnce /\ LiveUnsettled /\ InitiatorPresent /\ OneStraggler

(* Liveness, without restarts and with a database that answers *)

HungUp(s) ==
    \E c \in Conns : \/ task[c].at \in {"input", "row"} /\ task[c].sid = s
                     \/ s \in task[c].left

\* Every session taken out by a hang-up or by the clean-up of a connection
\* gets its row settled, the last of a long list too.
RowsSettle == \A s \in Sids : HungUp(s) ~> rows[s] = "ended"

\* The clean-up of a closed connection comes to its end and unregisters it.
CleanupCompletes == \A c \in Conns : task[c].quit ~> task[c] = Closed

----------------------------------------------------------------------------
(* What comments of the repository say, and the code does not do *)

\* When a connection is gone, no session its id takes part in is left
\* (main.rs: the clean-up ends all of them, fixing the leak of orphans).
NoOrphanAfterGoodbye ==
    [][\A c \in Conns :
          task'[c] = Closed /\ task[c] # Closed /\ crashes' = crashes =>
              \A s \in live' : bound[c] \notin PartyOf(s)]_vars

\* A session the controlled side refused is recorded as not active once the
\* refusal is audited (protocol: the status records the final result).
RefusalIsFinal == \A s \in Sids : log[s]["reject"] = 1 => rows[s] # "active"

\* Every open connection with a valid token has its identity bound (main.rs).
IdentityBound ==
    \A c \in Conns :
        bound[c] # NoId /\ task[c] = Idle => actors[bound[c]] = UserOf[bound[c]]

\* A withdrawal whose session somebody else has ended meanwhile is ignored
\* (handle_cancel_request: no such session, silently ignored, a race), so that
\* one end of a session is audited.
EndsOnce == \A s \in Sids : Ends(s) <= 1
============================================================================
