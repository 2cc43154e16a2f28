-------------------------- MODULE HubRoutingProofs --------------------------
(***************************************************************************)
(* More proofs about Hub, on top of its inductive invariant: whose         *)
(* connection an id routes to, that everything sent about a session goes   *)
(* to the right party of it, and that the audited input summary misses     *)
(* nothing that was forwarded.                                             *)
(***************************************************************************)
EXTENDS HubProofs, FiniteSetTheorems

----------------------------------------------------------------------------
(* Identities *)

\* An id routes to a connection it was bound to, under the account of its token.
Registered ==
    \A i \in Ids : /\ clients[i] # NoConn => bound[clients[i]] = i
                   /\ actors[i] \in {NoUser, UserOf[i]}

\* Steps that bind, register and unregister nobody.
KeepsIds ==
    /\ UNCHANGED <<bound, clients, actors, owner>>
    /\ \A d \in Conns : task[d] = Closed => task'[d] = Closed

\* A connection is over: its id, if it has one, is unregistered.
LeavesHub(c) ==
    /\ task[c] # Closed /\ UNCHANGED <<bound, owner>>
    /\ task' = [task EXCEPT ![c] = Closed]
    /\ \/ bound[c] = NoId /\ UNCHANGED <<clients, actors>>
       \/ bound[c] \in Ids /\ Leave(bound[c])

\* A task that moves on, and was not over.
LEMMA MovesOn ==
    ASSUME TypeOK, NEW c \in Conns, NEW t, task' = [task EXCEPT ![c] = t],
           task[c].at # "closed", UNCHANGED <<bound, clients, actors, owner>>
    PROVE  KeepsIds
BY IdleFacts DEF TypeOK, KeepsIds

LEMMA SettleNextMoves ==
    ASSUME NEW c, NEW i, NEW s, NEW rest, SettleNext(c, i, s, rest)
    PROVE  \E t : task' = [task EXCEPT ![c] = t]
BY DEF SettleNext

LEMMA CloseKeeps ==
    ASSUME TypeOK, Shapes, NEW c \in Conns, Close(c)
    PROVE  KeepsIds \/ LeavesHub(c)
<1> DEFINE i == bound[c]
           mine == {s \in live : i \in PartyOf(s)}
<1>1. task[c].at # "closed" /\ UNCHANGED <<bound, owner>>
  BY IdleFacts DEF Close
<1>2. CASE mine = {}
  <2>1. task' = [task EXCEPT ![c] = Closed]
        /\ IF i = NoId THEN UNCHANGED <<clients, actors>> ELSE Leave(i)
    BY <1>2 DEF Close
  <2> QED BY <1>1, <2>1, IdleFacts DEF LeavesHub, TypeOK
<1>3. CASE mine # {}
  <2>1. (\E s \in mine : SettleNext(c, i, s, mine \ {s})) /\ UNCHANGED <<clients, actors>>
    BY <1>3 DEF Close
  <2> QED BY <1>1, <2>1, SettleNextMoves, MovesOn
<1> QED BY <1>2, <1>3

LEMMA SettledKeeps ==
    ASSUME TypeOK, Shapes, NEW c \in Conns, NEW ok, Settled(c, ok)
    PROVE  KeepsIds \/ LeavesHub(c)
<1>1. task[c].at = "bye" /\ UNCHANGED <<bound, owner>>
  BY DEF Settled
<1>2. bound[c] \in Ids
  BY <1>1, IdleFacts DEF Shapes, TaskShape
<1>3. CASE task' = [task EXCEPT ![c] = Idle] /\ UNCHANGED <<clients, actors, lane>>
  BY <1>1, <1>3, MovesOn
<1>4. CASE (\E s \in task[c].left : SettleNext(c, bound[c], s, task[c].left \ {s}))
           /\ UNCHANGED <<clients, actors>>
  BY <1>1, <1>4, SettleNextMoves, MovesOn
<1>5. CASE task' = [task EXCEPT ![c] = Closed] /\ Leave(bound[c])
  BY <1>1, <1>2, <1>5, IdleFacts DEF LeavesHub
<1> QED BY <1>3, <1>4, <1>5 DEF Settled

\* All steps but those that bind, register and crash.
LEMMA NextIds ==
    ASSUME TypeOK, Shapes, Next
    PROVE  \/ Crash
           \/ \E c \in Conns : \/ \E i \in Ids : Bind(c, i)
                               \/ Register(c)
                               \/ LeavesHub(c)
           \/ KeepsIds
<1> USE DEF hubVars
<1>1. ASSUME NEW c \in Conns, Receive(c) PROVE Register(c) \/ KeepsIds
  <2>1. ASSUME task[c] = Idle, UNCHANGED <<bound, clients, actors, owner>>,
               NEW t, task' = [task EXCEPT ![c] = t]
        PROVE  KeepsIds
    BY <2>1, IdleFacts, MovesOn
  <2>2. ASSUME NEW r, Refuse(c, r) PROVE KeepsIds
    BY <2>1, <2>2 DEF Refuse
  <2>3. ASSUME NEW r, NEW s, Request(c, r, s) PROVE KeepsIds
    BY <2>1, <2>3 DEF Request
  <2>4. ASSUME NEW a, CancelRequest(c, a) PROVE KeepsIds
    BY <2>1, <2>4 DEF CancelRequest
  <2>5. ASSUME NEW s, NEW ok, AuthResult(c, s, ok) PROVE KeepsIds
    BY <2>1, <2>5 DEF AuthResult
  <2>6. ASSUME NEW s, SessionEnd(c, s) PROVE KeepsIds
    BY <2>1, <2>6 DEF SessionEnd
  <2>7. ASSUME NEW s, Input(c, s) PROVE KeepsIds
    BY <2>1, <2>7 DEF Input
  <2>8. ASSUME NEW s, NEW type, Relay(c, s, type) \/ RelayAudited(c, s, type) PROVE KeepsIds
    BY <2>1, <2>8 DEF Relay, RelayAudited
  <2> QED BY <1>1, <2>2, <2>3, <2>4, <2>5, <2>6, <2>7, <2>8 DEF Receive
<1>2. ASSUME NEW c \in Conns, Resume(c) PROVE KeepsIds \/ LeavesHub(c)
  <2>1. ASSUME task[c].at # "closed", UNCHANGED <<bound, clients, actors, owner>>,
               NEW t, task' = [task EXCEPT ![c] = t]
        PROVE  KeepsIds
    BY <2>1, MovesOn
  <2>2. CASE Refused(c)
    BY <2>1, <2>2 DEF Refused
  <2>3. CASE Answered(c) \/ Withdrawn(c) \/ HangUp(c)
    BY <2>1, <2>3 DEF Answered, Withdrawn, HangUp
  <2>4. CASE LookUp(c) \/ Send(c)
    BY <2>1, <2>4 DEF LookUp, Send
  <2>5. ASSUME NEW ok, Inserted(c, ok) PROVE KeepsIds
    <3>1. \E t : task' = [task EXCEPT ![c] = t]
      BY <2>5 DEF Inserted
    <3> QED BY <2>1, <2>5, <3>1 DEF Inserted
  <2>6. ASSUME NEW ok, Connected(c, ok) \/ Audited(c, ok) PROVE KeepsIds
    BY <2>1, <2>6 DEF Connected, Audited
  <2>7. ASSUME NEW ok, InputSummarised(c, ok) \/ RowSettled(c, ok) PROVE KeepsIds
    <3>1. \E t : task' = [task EXCEPT ![c] = t]
      BY <2>7 DEF InputSummarised, RowSettled
    <3> QED BY <2>1, <2>7, <3>1 DEF InputSummarised, RowSettled
  <2>8. ASSUME NEW ok, Settled(c, ok) PROVE KeepsIds \/ LeavesHub(c)
    BY <2>8, SettledKeeps
  <2> QED BY <1>2, <2>2, <2>3, <2>4, <2>5, <2>6, <2>7, <2>8 DEF Resume
<1> QED BY <1>1, <1>2, CloseKeeps DEF Next

\* Whoever else comes and goes, an id routes to its own connection.
LEMMA RegisteredStep ==
    ASSUME TypeOK, Shapes, Registered, [Next]_vars
    PROVE  Registered'
<1>1. CASE Crash
  BY <1>1 DEF Crash, Registered
<1>2. ASSUME NEW c \in Conns, NEW i \in Ids, Bind(c, i) PROVE Registered'
  <2>1. /\ task[c] = Unbound /\ bound' = [bound EXCEPT ![c] = i]
        /\ clients' = [clients EXCEPT ![i] = c]
        /\ actors' = IF UserOf[i] = NoUser THEN actors ELSE [actors EXCEPT ![i] = UserOf[i]]
    BY <1>2 DEF Bind
  <2>2. bound[c] = NoId /\ NoId \notin Ids
    BY <2>1, IdleFacts, HubAssumption DEF Shapes, TaskShape
  <2>3. ASSUME NEW j \in Ids PROVE clients'[j] # NoConn => bound'[clients'[j]] = j
    <3>1. CASE j = i
      BY <2>1, <3>1 DEF TypeOK
    <3>2. CASE j # i
      <4>1. clients'[j] = clients[j] /\ (clients[j] # NoConn => bound[clients[j]] = j)
        BY <2>1, <3>2 DEF TypeOK, Registered
      <4>2. clients[j] # NoConn => clients[j] \in Conns /\ clients[j] # c
        BY <2>2, <4>1 DEF TypeOK
      <4> QED BY <2>1, <4>1, <4>2 DEF TypeOK
    <3> QED BY <3>1, <3>2
  <2>4. ASSUME NEW j \in Ids PROVE actors'[j] \in {NoUser, UserOf[j]}
    BY <2>1 DEF TypeOK, Registered
  <2> QED BY <2>3, <2>4 DEF Registered
<1>3. ASSUME NEW c \in Conns, Register(c) PROVE Registered'
  BY <1>3 DEF Register, Registered
<1>4. ASSUME NEW c \in Conns, LeavesHub(c) PROVE Registered'
  <2>1. CASE UNCHANGED <<clients, actors>>
    BY <1>4, <2>1 DEF LeavesHub, Registered
  <2>2. CASE bound[c] \in Ids /\ Leave(bound[c])
    BY <1>4, <2>2 DEF LeavesHub, Leave, Registered, TypeOK
  <2> QED BY <1>4, <2>1, <2>2 DEF LeavesHub
<1>5. CASE KeepsIds \/ UNCHANGED vars
  BY <1>5 DEF KeepsIds, vars, Registered
<1> QED BY <1>1, <1>2, <1>3, <1>4, <1>5, NextIds

LEMMA RegisteredInit == Init => Registered
BY DEF Init, Registered

\* Without a second socket of an id, an open connection is the one its id
\* routes to, and endpoints belong to the account they logged in with.
IdInv == RoutableWhileOpen /\ OwnedByLogin

LEMMA IdStep ==
    ASSUME ~Overlap, TypeOK, Shapes, Registered, IdInv, [Next]_vars
    PROVE  IdInv'
<1> USE DEF IdInv
<1>1. CASE Crash
  <2>1. /\ \A c \in Conns : task'[c] = IF task[c] = Unbound THEN Unbound ELSE Closed
        /\ bound' = bound /\ \A i \in Ids : clients'[i] = NoConn
    BY <1>1 DEF Crash
  <2>2. \A c \in Conns : bound[c] # NoId => task[c] # Unbound
    BY IdleFacts DEF Shapes, TaskShape
  <2> QED BY <2>1, <2>2 DEF RoutableWhileOpen, OwnedByLogin, Ids
<1>2. ASSUME NEW c \in Conns, NEW i \in Ids, Bind(c, i) PROVE IdInv'
  <2>1. /\ bound' = [bound EXCEPT ![c] = i] /\ task' = [task EXCEPT ![c] = Idle]
        /\ clients' = [clients EXCEPT ![i] = c]
        /\ actors' = IF UserOf[i] = NoUser THEN actors ELSE [actors EXCEPT ![i] = UserOf[i]]
        /\ \A d \in Conns : bound[d] = i => task[d] = Closed
        /\ IF i \in Agents THEN owner' = [owner EXCEPT ![i] = actors'[i]] ELSE owner' = owner
    BY <1>2 DEF Bind
  <2>2. actors'[i] = UserOf[i] /\ \A j \in Ids : j # i => actors'[j] = actors[j]
    BY <2>1 DEF TypeOK, Registered
  <2>3. ASSUME NEW d \in Conns, bound'[d] # NoId, task'[d] # Closed
        PROVE  clients'[bound'[d]] = d /\ actors'[bound'[d]] = UserOf[bound'[d]]
    <3>1. CASE d = c
      BY <2>1, <2>2, <3>1 DEF TypeOK
    <3>2. CASE d # c
      <4>1. bound'[d] = bound[d] /\ task'[d] = task[d]
        BY <2>1, <3>2 DEF TypeOK
      <4>2. bound[d] \in Ids /\ bound[d] # i
        BY <2>1, <2>3, <4>1 DEF TypeOK
      <4> QED BY <2>1, <2>2, <2>3, <4>1, <4>2 DEF TypeOK, RoutableWhileOpen
    <3> QED BY <3>1, <3>2
  <2>4. ASSUME NEW a \in Agents, clients'[a] # NoConn PROVE owner'[a] = UserOf[a]
    <3>1. CASE a = i
      BY <2>1, <2>2, <3>1 DEF TypeOK
    <3>2. CASE a # i
      BY <2>1, <2>4, <3>2 DEF TypeOK, OwnedByLogin, Ids
    <3> QED BY <3>1, <3>2
  <2> QED BY <2>3, <2>4 DEF RoutableWhileOpen, OwnedByLogin
<1>3. ASSUME NEW c \in Conns, Register(c) PROVE IdInv'
  <2>1. /\ task[c] = Idle /\ bound[c] \in Agents /\ bound[c] # NoId
        /\ owner' = [owner EXCEPT ![bound[c]] = actors[bound[c]]]
        /\ UNCHANGED <<bound, task, clients, actors>>
    BY <1>3, HubAssumption DEF Register, Ids
  <2>2. actors[bound[c]] = UserOf[bound[c]]
    BY <2>1, IdleFacts DEF RoutableWhileOpen
  <2> QED BY <2>1, <2>2 DEF RoutableWhileOpen, OwnedByLogin, TypeOK
<1>4. ASSUME NEW c \in Conns, LeavesHub(c) PROVE IdInv'
  <2>1. task'[c] = Closed /\ \A d \in Conns : d # c => task'[d] = task[d]
    BY <1>4 DEF LeavesHub, TypeOK
  <2>2. CASE UNCHANGED <<clients, actors>>
    BY <1>4, <2>1, <2>2 DEF LeavesHub, RoutableWhileOpen, OwnedByLogin
  <2>3. CASE bound[c] \in Ids /\ Leave(bound[c])
    <3>1. clients[bound[c]] = c
      BY <1>4, <2>3, HubAssumption DEF LeavesHub, RoutableWhileOpen
    <3>2. \A d \in Conns : d # c /\ bound[d] # NoId /\ task[d] # Closed => bound[d] # bound[c]
      BY <3>1 DEF RoutableWhileOpen
    <3> QED BY <1>4, <2>1, <2>3, <3>2
            DEF LeavesHub, Leave, RoutableWhileOpen, OwnedByLogin, TypeOK, Ids
  <2> QED BY <1>4, <2>2, <2>3 DEF LeavesHub
<1>5. CASE KeepsIds \/ UNCHANGED vars
  BY <1>5 DEF KeepsIds, vars, RoutableWhileOpen, OwnedByLogin
<1> QED BY <1>1, <1>2, <1>3, <1>4, <1>5, NextIds

LEMMA IdInit == Init => IdInv
BY DEF Init, IdInv, RoutableWhileOpen, OwnedByLogin, Ids

\* The identity of a connection is what its token says, while it is open.
LEMMA IdInvariance == ~Overlap => (Spec => []IdInv)
<1>1. IInv => TypeOK /\ Shapes
  BY DEF IInv, Shapes
<1>2. SUFFICES ASSUME ~Overlap PROVE Spec => []IdInv
  OBVIOUS
<1>3. IInv /\ Registered /\ IdInv /\ [Next]_vars => Registered' /\ IdInv'
  BY <1>1, <1>2, RegisteredStep, IdStep
<1> QED BY <1>3, Invariance, RegisteredInit, IdInit, PTL DEF Spec

\* While no id has two sockets at once, every bound connection is the one its
\* id routes to and carries the identity of its token (handle_socket binds,
\* registers and cleans up in one task).
THEOREM RoutableHolds == ~Overlap => (Spec => []RoutableWhileOpen)
<1>1. IdInv => RoutableWhileOpen
  BY DEF IdInv
<1> QED BY <1>1, IdInvariance, PTL

\* ... and its endpoint belongs to the account it logged in with, however often
\* it registers again (hub.rs, Register).
THEOREM OwnedHolds == ~Overlap => (Spec => []OwnedByLogin)
<1>1. IdInv => OwnedByLogin
  BY DEF IdInv
<1> QED BY <1>1, IdInvariance, PTL

----------------------------------------------------------------------------
(* Delivery *)

\* A session has two sides, and who is about to send in it is one of them.
Sided(s) == ~Fresh(s) => meta[s].from # meta[s].to
PartySends(c, s) == Sending(c, s) => bound[c] \in PartyOf(s)
Parties == \A s \in Sids : Sided(s) /\ \A c \in Conns : PartySends(c, s)

\* Steps that build no session: who sends after them was sending, or has just
\* looked the peer up.
LooksUp ==
    /\ meta' = meta
    /\ \A c \in Conns, s \in Sids :
          Sending(c, s)' => bound'[c] = bound[c] /\ (Sending(c, s) \/ Routable(s, bound[c]))

LEMMA LooksUpParties == ASSUME Parties, LooksUp PROVE Parties'
BY DEF Parties, LooksUp, Sided, PartySends, Fresh, PartyOf, Routable

\* A task that goes on to anything but sending.
LEMMA NoLook ==
    ASSUME TypeOK, NEW c \in Conns, NEW t, task' = [task EXCEPT ![c] = t], t.at # "send",
           meta' = meta, \A d \in Conns : d # c => bound'[d] = bound[d]
    PROVE  LooksUp
BY DEF TypeOK, LooksUp, Sending

LEMMA OneLook ==
    ASSUME TypeOK, NEW c \in Conns, NEW s, NEW k, Routable(s, bound[c]),
           task' = [task EXCEPT ![c] = At("send", s, k)], UNCHANGED <<meta, bound>>
    PROVE  LooksUp
BY DEF TypeOK, LooksUp, Sending, At

LEMMA SettleNextNoLook ==
    ASSUME TypeOK, NEW c \in Conns, NEW i, NEW s, NEW rest, SettleNext(c, i, s, rest),
           UNCHANGED <<meta, bound>>
    PROVE  LooksUp
<1> DEFINE t == [At("input", s, "disconnect") EXCEPT !.left = rest, !.quit = TRUE]
<1>1. task' = [task EXCEPT ![c] = t] /\ t.at = "input"
  BY DEF SettleNext, At
<1> QED BY <1>1, NoLook

LEMMA NextLooks ==
    ASSUME TypeOK, Shapes, Next
    PROVE  LooksUp \/ \E c \in Conns, s \in Sids : \E r \in RequestsOf(bound[c]) :
                          Request(c, r, s)
<1> USE DEF hubVars, sessionVars
<1>0. /\ Idle.at # "send" /\ Closed.at # "send"
      /\ \A label, s, k : At(label, s, k).at = label
  BY IdleFacts DEF At
<1>1. CASE Crash
  BY <1>1, IdleFacts DEF Crash, LooksUp, Sending
<1>2. ASSUME NEW c \in Conns, NEW i \in Ids, Bind(c, i) PROVE LooksUp
  <2>1. \A d \in Conns : d # c => bound'[d] = bound[d]
    BY <1>2 DEF Bind, TypeOK
  <2> QED BY <1>0, <1>2, <2>1, NoLook DEF Bind
<1>3. ASSUME NEW c \in Conns, Receive(c)
      PROVE  LooksUp \/ \E s \in Sids : \E r \in RequestsOf(bound[c]) : Request(c, r, s)
  <2>1. CASE Register(c)
    BY <2>1 DEF Register, LooksUp, Sending
  <2>2. ASSUME NEW r, Refuse(c, r) PROVE LooksUp
    BY <1>0, <2>2, NoLook DEF Refuse
  <2>3. ASSUME NEW a, CancelRequest(c, a) PROVE LooksUp
    <3>1. PICK s \in live : task' = [task EXCEPT ![c] = At("withdraw", s, "withdrawn")]
      BY <2>3 DEF CancelRequest
    <3> QED BY <1>0, <2>3, <3>1, NoLook DEF CancelRequest
  <2>4. ASSUME NEW s, NEW ok, AuthResult(c, s, ok) PROVE LooksUp
    BY <1>0, <2>4, NoLook DEF AuthResult
  <2>5. ASSUME NEW s, SessionEnd(c, s) PROVE LooksUp
    BY <1>0, <2>5, NoLook DEF SessionEnd
  <2>6. ASSUME NEW s, Input(c, s) PROVE LooksUp
    BY <1>0, <2>6, NoLook DEF Input
  <2>7. ASSUME NEW s, NEW type, RelayAudited(c, s, type) PROVE LooksUp
    BY <1>0, <2>7, NoLook DEF RelayAudited
  <2>8. ASSUME NEW s, NEW type, Relay(c, s, type) PROVE LooksUp
    BY <2>8, OneLook DEF Relay
  <2> QED BY <1>3, <2>1, <2>2, <2>3, <2>4, <2>5, <2>6, <2>7, <2>8 DEF Receive
<1>4. ASSUME NEW c \in Conns, Resume(c) PROVE LooksUp
  <2>1. CASE Refused(c)
    BY <1>0, <2>1, NoLook DEF Refused
  <2>2. CASE Answered(c) \/ Withdrawn(c)
    BY <1>0, <2>2, NoLook DEF Answered, Withdrawn
  <2>3. CASE HangUp(c)
    <3>1. \E t : task' = [task EXCEPT ![c] = t] /\ t.at # "send"
      BY <1>0, <2>3 DEF HangUp
    <3> QED BY <2>3, <3>1, NoLook DEF HangUp
  <2>4. CASE LookUp(c)
    <3>1. CASE Routable(task[c].sid, bound[c])
      BY <2>4, <3>1, OneLook DEF LookUp
    <3>2. CASE ~Routable(task[c].sid, bound[c])
      BY <1>0, <2>4, <3>2, NoLook DEF LookUp
    <3> QED BY <3>1, <3>2
  <2>5. CASE Send(c)
    BY <1>0, <2>5, NoLook DEF Send
  <2>6. ASSUME NEW ok, Inserted(c, ok) PROVE LooksUp
    <3>1. \E t : task' = [task EXCEPT ![c] = t] /\ t.at # "send"
      BY <1>0, <2>6 DEF Inserted
    <3> QED BY <2>6, <3>1, NoLook DEF Inserted
  <2>7. ASSUME NEW ok, Connected(c, ok) \/ Audited(c, ok) PROVE LooksUp
    BY <1>0, <2>7, NoLook DEF Connected, Audited
  <2>8. ASSUME NEW ok, InputSummarised(c, ok) \/ RowSettled(c, ok) PROVE LooksUp
    <3>1. task[c] \in Task
      BY DEF TypeOK
    <3>2. \E t : task' = [task EXCEPT ![c] = t] /\ t.at # "send"
      BY <2>8, <3>1 DEF InputSummarised, RowSettled, Task
    <3> QED BY <2>8, <3>2, NoLook DEF InputSummarised, RowSettled
  <2>9. ASSUME NEW ok, Settled(c, ok) PROVE LooksUp
    BY <1>0, <2>9, NoLook, SettleNextNoLook DEF Settled
  <2> QED BY <1>4, <2>1, <2>2, <2>3, <2>4, <2>5, <2>6, <2>7, <2>8, <2>9 DEF Resume
<1>5. ASSUME NEW c \in Conns, Close(c) PROVE LooksUp
  BY <1>0, <1>5, NoLook, SettleNextNoLook DEF Close
<1> QED BY <1>1, <1>2, <1>3, <1>4, <1>5 DEF Next

LEMMA PartiesStep ==
    ASSUME TypeOK, Core, Parties, [Next]_vars
    PROVE  Parties'
<1>1. CASE UNCHANGED vars
  BY <1>1 DEF vars, Parties, Sided, PartySends, Fresh, Sending, PartyOf
<1>2. ASSUME NEW c \in Conns, NEW s \in Sids, NEW r \in RequestsOf(bound[c]), Request(c, r, s)
      PROVE  Parties'
  <2>1. /\ Fresh(s) /\ bound[c] # r.to /\ bound' = bound
        /\ meta' = [meta EXCEPT ![s] = [from |-> bound[c], to |-> r.to,
                                        auto |-> Decide(r) = "auto"]]
        /\ task' = [task EXCEPT ![c] = At("insert", s, "none")]
    BY <1>2 DEF Request, hubVars
  <2>2. \A d \in Conns, q \in Sids : Sending(d, q)' => Sending(d, q) /\ q # s
    BY <2>1 DEF TypeOK, Sending, At, Core, Held, HeldBy
  <2>3. ASSUME NEW q \in Sids PROVE Sided(q)' /\ \A d \in Conns : PartySends(d, q)'
    <3>1. CASE q = s
      BY <2>1, <2>2, <3>1 DEF TypeOK, Sided, PartySends
    <3>2. CASE q # s
      <4>1. meta'[q] = meta[q]
        BY <2>1, <3>2 DEF TypeOK
      <4> QED BY <2>1, <2>2, <4>1 DEF Parties, Sided, PartySends, Fresh, PartyOf
    <3> QED BY <3>1, <3>2
  <2> QED BY <2>3 DEF Parties
<1> QED BY <1>1, <1>2, NextLooks, LooksUpParties DEF Core, Shapes

LEMMA PartiesInit == Init => Parties
BY IdleFacts DEF Init, Parties, Sided, PartySends, Fresh, Sending

\* What DeliveredToParty says of a message m that reaches the connections of i.
Proper(i, m) ==
    m.sid # NoSid =>
        /\ i \in PartyOf(m.sid)
        /\ m.type = "incoming" => i = meta[m.sid].to
        /\ m.type \in {"ack", "reject"} => i = meta[m.sid].from
        /\ m.type \in Relayed =>
              \E d \in Conns : task[d].at = "send" /\ task'[d] = Idle
                               /\ bound[d] \in PartyOf(m.sid) \ {i}
Deliveries ==
    \A c \in Conns : Len(lane'[c]) > Len(lane[c]) =>
                        Proper(bound[c], lane'[c][Len(lane'[c])])

\* A lane that grew did so for the connection the id routes to.
LEMMA SendToDelivers ==
    ASSUME TypeOK, Registered, NEW i, NEW m, lane' = SendTo(i, m), i \in Ids => Proper(i, m)
    PROVE  Deliveries
<1> SUFFICES ASSUME NEW c \in Conns, Len(lane'[c]) > Len(lane[c])
             PROVE  Proper(bound[c], lane'[c][Len(lane'[c])])
  BY DEF Deliveries
<1>1. lane \in [Conns -> Seq(Msg)] /\ lane[c] \in Seq(Msg)
  BY DEF TypeOK
<1>2. Len(lane[c]) \in Nat /\ lane' # lane
  BY <1>1
<1>3. i \in Ids /\ clients[i] # NoConn /\ lane' = [lane EXCEPT ![clients[i]] = Append(@, m)]
  BY <1>2 DEF SendTo
<1>4. c = clients[i]
  BY <1>1, <1>2, <1>3
<1>5. lane'[c] = Append(lane[c], m)
  BY <1>1, <1>3, <1>4
<1>6. Len(lane'[c]) = Len(lane[c]) + 1 /\ lane'[c][Len(lane[c]) + 1] = m
  BY <1>1, <1>5
<1>7. bound[c] = i
  BY <1>3, <1>4 DEF Registered
<1> QED BY <1>3, <1>6, <1>7

LEMMA NothingSent ==
    ASSUME TypeOK, \A c \in Conns : lane'[c] \in {lane[c], << >>}
    PROVE  Deliveries
<1> SUFFICES ASSUME NEW c \in Conns PROVE ~(Len(lane'[c]) > Len(lane[c]))
  BY DEF Deliveries
<1>1. Len(lane[c]) \in Nat /\ Len(<< >>) = 0
  BY DEF TypeOK
<1> QED BY <1>1

LEMMA SettleNextDelivers ==
    ASSUME TypeOK, Registered, NEW c, NEW i, NEW s, NEW rest, SettleNext(c, i, s, rest)
    PROVE  Deliveries
<1>1. lane' = SendTo(Other(s, i), Note("end", s))
  BY DEF SettleNext
<1>2. Proper(Other(s, i), Note("end", s))
  BY DEF Proper, Other, PartyOf, Note, Relayed, AuditedTypes
<1> QED BY <1>1, <1>2, SendToDelivers

\* The messages of the handlers.
LEMMA HandlersDeliver ==
    ASSUME TypeOK, Shapes, Registered, NEW c \in Conns
    PROVE  /\ Refused(c) => Deliveries
           /\ \A ok : Inserted(c, ok) \/ Connected(c, ok) => Deliveries
           /\ Answered(c) \/ Withdrawn(c) \/ HangUp(c) => Deliveries
<1> DEFINE s == task[c].sid
<1>1. /\ \A type, q : Note(type, q).type = type /\ Note(type, q).sid = q
      /\ Incoming(s).type = "incoming" /\ Incoming(s).sid = s
      /\ {"incoming", "ack", "reject", "end"} \cap Relayed = {}
      /\ meta[s].from \in PartyOf(s) /\ meta[s].to \in PartyOf(s)
  BY DEF Note, Incoming, Relayed, AuditedTypes, PartyOf
<1>2. ASSUME Refused(c) PROVE Deliveries
  <2>1. Proper(bound[c], Note("reject", NoSid))
    BY <1>1 DEF Proper
  <2> QED BY <1>2, <2>1, SendToDelivers DEF Refused
<1>3. Proper(meta[s].to, Incoming(s))
  BY <1>1 DEF Proper
<1>4. ASSUME NEW ok, Inserted(c, ok) PROVE Deliveries
  <2>1. bound[c] = meta[s].from
    BY <1>4 DEF Inserted, Shapes, TaskShape
  <2>2. Proper(bound[c], Note("ack", s))
    BY <1>1, <2>1 DEF Proper
  <2>3. lane' = SendTo(bound[c], Note("ack", s)) \/ lane' = SendTo(meta[s].to, Incoming(s))
    BY <1>4 DEF Inserted
  <2> HIDE DEF s
  <2> QED BY <1>3, <2>2, <2>3, SendToDelivers
<1>5. ASSUME NEW ok, Connected(c, ok) PROVE Deliveries
  <2>1. lane' = SendTo(meta[s].to, Incoming(s))
    BY <1>5 DEF Connected
  <2> QED BY <1>3, <2>1, SendToDelivers
<1>6. ASSUME Answered(c) PROVE Deliveries
  <2> DEFINE type == IF task[c].kind = "reject" THEN "reject" ELSE "ack"
  <2>1. lane' = SendTo(meta[s].from, Note(type, s))
    BY <1>6 DEF Answered
  <2>2. type \in {"ack", "reject"}
    OBVIOUS
  <2> HIDE DEF type, s
  <2>3. Proper(meta[s].from, Note(type, s))
    BY <1>1, <2>2 DEF Proper
  <2> QED BY <2>1, <2>3, SendToDelivers
<1>7. ASSUME Withdrawn(c) PROVE Deliveries
  <2>1. lane' = SendTo(meta[s].to, Note("end", s))
    BY <1>7 DEF Withdrawn
  <2>2. Proper(meta[s].to, Note("end", s))
    BY <1>1 DEF Proper
  <2> QED BY <2>1, <2>2, SendToDelivers
<1>8. ASSUME HangUp(c) PROVE Deliveries
  <2>1. lane' = SendTo(Other(s, bound[c]), Note("end", s))
    BY <1>8 DEF HangUp
  <2>2. Proper(Other(s, bound[c]), Note("end", s))
    BY <1>1 DEF Proper, Other
  <2> QED BY <2>1, <2>2, SendToDelivers
<1> QED BY <1>2, <1>4, <1>5, <1>6, <1>7, <1>8

\* What is relayed reaches the party that did not send it.
LEMMA SendDelivers ==
    ASSUME TypeOK, Core, Registered, Parties, NEW c \in Conns, Send(c)
    PROVE  Deliveries
<1> DEFINE s == task[c].sid
           i == bound[c]
<1>1. /\ task[c].at = "send" /\ task'[c] = Idle
      /\ lane' = SendTo(Other(s, i), Note(task[c].kind, s))
  BY DEF Send, TypeOK
<1>2. s \in Sids /\ task[c].kind \in Relayed
  BY <1>1 DEF Core, TaskShape, InSession
<1>3. Sending(c, s)
  BY <1>1 DEF Sending
<1>4. i \in PartyOf(s) /\ meta[s].from # meta[s].to
  BY <1>2, <1>3 DEF Parties, PartySends, Sided, Core, Held, HeldBy
<1>5. Other(s, i) \in PartyOf(s) /\ i # Other(s, i)
  BY <1>4 DEF Other, PartyOf
<1>6. Proper(Other(s, i), Note(task[c].kind, s))
  BY <1>1, <1>2, <1>4, <1>5 DEF Proper, Note, Relayed, AuditedTypes
<1> QED BY <1>1, <1>6, SendToDelivers

LEMMA CleanupDelivers ==
    ASSUME TypeOK, Registered, NEW c \in Conns
    PROVE  /\ Close(c) => Deliveries
           /\ \A ok : Settled(c, ok) => Deliveries
<1>1. ASSUME lane' = [lane EXCEPT ![c] = << >>] \/ lane' = lane PROVE Deliveries
  BY <1>1, NothingSent DEF TypeOK
<1>2. ASSUME Close(c) PROVE Deliveries
  <2>1. \/ lane' = [lane EXCEPT ![c] = << >>]
        \/ \E i, s, rest : SettleNext(c, i, s, rest)
    BY <1>2 DEF Close
  <2> QED BY <1>1, <2>1, SettleNextDelivers
<1>3. ASSUME NEW ok, Settled(c, ok) PROVE Deliveries
  <2>1. \/ lane' = [lane EXCEPT ![c] = << >>] \/ lane' = lane
        \/ \E i, s, rest : SettleNext(c, i, s, rest)
    BY <1>3 DEF Settled
  <2> QED BY <1>1, <2>1, SettleNextDelivers
<1> QED BY <1>2, <1>3

LEMMA NextDelivers ==
    ASSUME TypeOK, Core, Registered, Parties, [Next]_vars
    PROVE  Deliveries
<1>0. ASSUME lane' = lane PROVE Deliveries
  BY <1>0, NothingSent
<1>1. CASE Crash
  BY <1>1, NothingSent DEF Crash
<1>2. ASSUME NEW c \in Conns, NEW i, Bind(c, i) PROVE Deliveries
  BY <1>0, <1>2 DEF Bind
<1>3. ASSUME NEW c \in Conns, Receive(c) PROVE Deliveries
  BY <1>0, <1>3 DEF Receive, Register, Refuse, Request, CancelRequest, AuthResult, SessionEnd,
                    Input, RelayAudited, Relay
<1>4. ASSUME NEW c \in Conns, Resume(c) PROVE Deliveries
  <2>1. CASE LookUp(c)
    BY <1>0, <2>1 DEF LookUp
  <2>2. ASSUME NEW ok, Audited(c, ok) \/ InputSummarised(c, ok) \/ RowSettled(c, ok)
        PROVE  Deliveries
    BY <1>0, <2>2 DEF Audited, InputSummarised, RowSettled
  <2> QED BY <1>4, <2>1, <2>2, HandlersDeliver, SendDelivers, CleanupDelivers
          DEF Resume, Core, Shapes
<1>5. CASE UNCHANGED vars
  BY <1>0, <1>5 DEF vars
<1> QED BY <1>1, <1>2, <1>3, <1>4, <1>5, CleanupDelivers DEF Next

\* What is sent about a session goes to a party of it, and what is relayed to the
\* party that did not send it, however connections come, go and replace each
\* other (Hub::send_to, SessionStore::peer_of).
THEOREM DeliveryHolds == Spec => DeliveredToParty
<1>1. IInv => TypeOK /\ Core /\ Shapes
  BY DEF IInv, Core, Shapes
<1>2. IInv /\ Registered /\ Parties /\ [Next]_vars => Registered' /\ Parties'
  BY <1>1, RegisteredStep, PartiesStep
<1>3. IInv /\ Registered /\ Parties /\ [Next]_vars => Deliveries
  BY <1>1, NextDelivers
<1>4. Spec => [](IInv /\ Registered /\ Parties)
  BY <1>2, Invariance, RegisteredInit, PartiesInit, PTL DEF Spec
<1>5. IInv /\ Registered /\ Parties /\ [Next]_vars =>
         [\A c \in Conns :
             Len(lane'[c]) > Len(lane[c]) =>
                 LET m == lane'[c][Len(lane'[c])]
                     i == bound[c]
                 IN  m.sid # NoSid =>
                     /\ i \in PartyOf(m.sid)
                     /\ m.type = "incoming" => i = meta[m.sid].to
                     /\ m.type \in {"ack", "reject"} => i = meta[m.sid].from
                     /\ m.type \in Relayed =>
                           \E d \in Conns : task[d].at = "send" /\ task'[d] = Idle
                                            /\ bound[d] \in PartyOf(m.sid) \ {i}]_vars
  BY <1>3, Zenon DEF Deliveries, Proper
<1> QED BY <1>4, <1>5, PTL DEF Spec, DeliveredToParty

----------------------------------------------------------------------------
(* The input summary *)

\* Connection c handles an input of s that is counted and not yet forwarded.
Typed(c, s) ==
    /\ task[c].sid = s /\ task[c].kind = "keys"
    /\ task[c].at = "send" \/ (task[c].at = "relay" /\ s \in live)
Typing(s) == {c \in Conns : Typed(c, s)}

\* What was forwarded and what is about to be is counted, and the summary is the
\* count the session left the table with.
Counts(s) == IsFiniteSet(Typing(s)) /\ forwarded[s] + Cardinality(Typing(s)) <= inputs[s]
Frozen(s) == log[s]["input"] # 0 => counted[s] = inputs[s]

\* Nobody relays into a session that is yet to be entered in the table.
Relaying(c, s) == task[c].at = "relay" /\ task[c].sid = s
Summing == \A s \in Sids : /\ Counts(s) /\ Frozen(s)
                           /\ \A c \in Conns : Relaying(c, s) => Told(s)

LEMMA CountsShrink ==
    ASSUME TypeOK, NEW s \in Sids, Counts(s), \A c \in Conns : Typed(c, s)' => Typed(c, s),
           forwarded'[s] = forwarded[s], inputs'[s] = inputs[s]
    PROVE  Counts(s)'
<1>1. Typing(s)' \in SUBSET Typing(s)
  BY DEF Typing
<1>2. forwarded[s] \in Nat /\ inputs[s] \in Nat
  BY DEF TypeOK
<1>3. IsFiniteSet(Typing(s)) /\ forwarded[s] + Cardinality(Typing(s)) <= inputs[s]
  BY DEF Counts
<1>4. IsFiniteSet(Typing(s)') /\ Cardinality(Typing(s)') <= Cardinality(Typing(s))
  BY <1>1, <1>3, FS_Subset
<1>5. Cardinality(Typing(s)) \in Nat /\ Cardinality(Typing(s)') \in Nat
  BY <1>3, <1>4, FS_CardinalityType
<1>6. forwarded'[s] + Cardinality(Typing(s)') <= inputs'[s]
  BY <1>2, <1>3, <1>4, <1>5
<1> QED BY <1>4, <1>6 DEF Counts

LEMMA CountsGrow ==
    ASSUME TypeOK, NEW s \in Sids, NEW c \in Conns, Counts(s),
           \A d \in Conns : Typed(d, s)' => Typed(d, s) \/ d = c,
           forwarded'[s] = forwarded[s], inputs'[s] = inputs[s] + 1
    PROVE  Counts(s)'
<1> DEFINE G == Typing(s) \cup {c}
<1>1. Typing(s)' \in SUBSET G
  BY DEF Typing
<1>2. forwarded[s] \in Nat /\ inputs[s] \in Nat
  BY DEF TypeOK
<1>3. IsFiniteSet(Typing(s)) /\ forwarded[s] + Cardinality(Typing(s)) <= inputs[s]
  BY DEF Counts
<1>4. Cardinality(Typing(s)) \in Nat
  BY <1>3, FS_CardinalityType
<1>5. IsFiniteSet(G) /\ Cardinality(G) <= Cardinality(Typing(s)) + 1
  <2>1. /\ IsFiniteSet(G)
        /\ Cardinality(G) = IF c \in Typing(s) THEN Cardinality(Typing(s))
                            ELSE Cardinality(Typing(s)) + 1
    BY <1>3, FS_AddElement
  <2> HIDE DEF G
  <2> QED BY <1>4, <2>1
<1> HIDE DEF G
<1>6. IsFiniteSet(Typing(s)') /\ Cardinality(Typing(s)') <= Cardinality(G)
  BY <1>1, <1>5, FS_Subset
<1>7. Cardinality(G) \in Nat /\ Cardinality(Typing(s)') \in Nat
  BY <1>5, <1>6, FS_CardinalityType
<1>8. forwarded'[s] + Cardinality(Typing(s)') <= inputs'[s]
  BY <1>2, <1>3, <1>4, <1>5, <1>6, <1>7
<1> QED BY <1>6, <1>8 DEF Counts

LEMMA CountsSent ==
    ASSUME TypeOK, NEW s \in Sids, NEW c \in Conns, Counts(s), Typed(c, s),
           \A d \in Conns : Typed(d, s)' => Typed(d, s) /\ d # c,
           forwarded'[s] \in {forwarded[s], forwarded[s] + 1}, inputs'[s] = inputs[s]
    PROVE  Counts(s)'
<1> DEFINE R == Typing(s) \ {c}
<1>1. Typing(s)' \in SUBSET R /\ c \in Typing(s)
  BY DEF Typing
<1>2. forwarded[s] \in Nat /\ inputs[s] \in Nat
  BY DEF TypeOK
<1>3. IsFiniteSet(Typing(s)) /\ forwarded[s] + Cardinality(Typing(s)) <= inputs[s]
  BY DEF Counts
<1>4. Cardinality(Typing(s)) \in Nat
  BY <1>3, FS_CardinalityType
<1>5. IsFiniteSet(R) /\ Cardinality(R) = Cardinality(Typing(s)) - 1
  BY <1>1, <1>3, FS_RemoveElement
<1> HIDE DEF R
<1>6. IsFiniteSet(Typing(s)') /\ Cardinality(Typing(s)') <= Cardinality(R)
  BY <1>1, <1>5, FS_Subset
<1>7. Cardinality(R) \in Nat /\ Cardinality(Typing(s)') \in Nat
  BY <1>5, <1>6, FS_CardinalityType
<1>8. forwarded'[s] + Cardinality(Typing(s)') <= inputs'[s]
  BY <1>2, <1>3, <1>4, <1>5, <1>6, <1>7
<1> QED BY <1>6, <1>8 DEF Counts

\* Steps that count, forward and enter nothing, and of which no task comes to
\* look up, forward or enter.
Calm ==
    /\ UNCHANGED <<meta, inputs, forwarded>> /\ live' \subseteq live
    /\ \A d \in Conns : \/ task'[d] = task[d]
                        \/ task'[d].at \notin {"insert", "relay", "send"}
    /\ \A s \in Sids : Frozen(s) => Frozen(s)'

LEMMA FrozenKept ==
    ASSUME NEW s \in Sids, log'[s]["input"] = log[s]["input"], counted'[s] = counted[s],
           inputs'[s] = inputs[s] \/ log[s]["input"] = 0, Frozen(s)
    PROVE  Frozen(s)'
BY DEF Frozen

LEMMA OtherLogged ==
    ASSUME TypeOK, NEW s \in Sids, NEW k \in Kinds, k # "input",
           log' \in {log, Logged(s, k)}
    PROVE  \A q \in Sids : log'[q]["input"] = log[q]["input"]
<1>1. log \in [Sids -> [Kinds -> Nat]] /\ "input" \in Kinds
  BY DEF TypeOK, Kinds
<1>2. ASSUME log' = [log EXCEPT ![s][k] = @ + 1], NEW q \in Sids
      PROVE  log'[q]["input"] = log[q]["input"]
  <2>1. CASE q # s
    BY <1>1, <1>2, <2>1
  <2>2. CASE q = s
    <3>1. log'[q] = [log[q] EXCEPT ![k] = @ + 1]
      BY <1>1, <1>2, <2>2
    <3> QED BY <1>1, <2>2, <3>1
  <2> QED BY <2>1, <2>2
<1> QED BY <1>2 DEF Logged

LEMMA CalmTask ==
    ASSUME TypeOK, NEW c \in Conns, NEW t, task' = [task EXCEPT ![c] = t],
           t.at \notin {"insert", "relay", "send"}, live' \subseteq live,
           UNCHANGED <<meta, inputs, forwarded, counted>>,
           \A s \in Sids : log'[s]["input"] = log[s]["input"]
    PROVE  Calm
<1>1. \A d \in Conns : task'[d] = task[d] \/ task'[d].at \notin {"insert", "relay", "send"}
  BY DEF TypeOK
<1>2. \A s \in Sids : Frozen(s) => Frozen(s)'
  BY FrozenKept
<1> QED BY <1>1, <1>2 DEF Calm

LEMMA QuietTask ==
    ASSUME TypeOK, NEW c \in Conns, NEW label \in Labels \ {"insert", "relay", "send"},
           NEW s, NEW k, task' = [task EXCEPT ![c] = At(label, s, k)],
           live' \subseteq live, UNCHANGED <<meta, inputs, forwarded, counted, log>>
    PROVE  Calm
<1>1. At(label, s, k).at \notin {"insert", "relay", "send"}
  BY DEF At
<1> QED BY <1>1, CalmTask

LEMMA SettleNextCalm ==
    ASSUME TypeOK, NEW c \in Conns, NEW i, NEW s, NEW rest, SettleNext(c, i, s, rest),
           live' \subseteq live, UNCHANGED <<meta, inputs, forwarded, counted>>,
           \A q \in Sids : log'[q]["input"] = log[q]["input"]
    PROVE  Calm
<1> DEFINE t == [At("input", s, "disconnect") EXCEPT !.left = rest, !.quit = TRUE]
<1>1. task' = [task EXCEPT ![c] = t] /\ t.at = "input"
  BY DEF SettleNext, At
<1> HIDE DEF t
<1> QED BY <1>1, CalmTask

\* A session that was announced to a client has been entered for good.
LEMMA CalmTold ==
    ASSUME Calm, NEW s \in Sids, Told(s)
    PROVE  Told(s)'
BY DEF Calm, Told, Fresh

LEMMA CalmSumming ==
    ASSUME TypeOK, Summing, Calm
    PROVE  Summing'
<1> SUFFICES ASSUME NEW s \in Sids
             PROVE  /\ Counts(s)' /\ Frozen(s)'
                    /\ \A c \in Conns : Relaying(c, s)' => Told(s)'
  BY DEF Summing
<1>1. \A c \in Conns : Typed(c, s)' => Typed(c, s)
  BY DEF Calm, Typed
<1>2. Counts(s)'
  BY <1>1, CountsShrink DEF Calm, Summing
<1>3. \A c \in Conns : Relaying(c, s)' => Relaying(c, s)
  BY DEF Calm, Relaying
<1> QED BY <1>2, <1>3, CalmTold DEF Summing, Calm

\* What a connection binds, looks up to end, answers and announces.
LEMMA QuietCalm ==
    ASSUME TypeOK, NEW c \in Conns
    PROVE  /\ \A i : Bind(c, i) => Calm
           /\ Register(c) => Calm
           /\ \A r : Refuse(c, r) => Calm
           /\ \A a : CancelRequest(c, a) => Calm
           /\ \A s, ok : AuthResult(c, s, ok) => Calm
           /\ \A s : SessionEnd(c, s) => Calm
           /\ Refused(c) \/ Answered(c) \/ Withdrawn(c) \/ HangUp(c) => Calm
<1> DEFINE Moves(label) == \E s, k : task' = [task EXCEPT ![c] = At(label, s, k)]
           Pausing == {"idle", "refuse", "answer", "withdraw", "hangup", "audit", "input"}
<1>0. Pausing \subseteq Labels \ {"insert", "relay", "send"}
  BY DEF Labels
<1>1. ASSUME NEW label \in Pausing, Moves(label), live' \subseteq live,
             UNCHANGED <<meta, inputs, forwarded, counted, log>>
      PROVE  Calm
  BY <1>0, <1>1, QuietTask
<1>2. ASSUME Register(c) PROVE Calm
  BY <1>2 DEF Register, Calm, Frozen, sessionVars, historyVars
<1>3. ASSUME \/ \E i : Bind(c, i)
             \/ \E r : Refuse(c, r)
             \/ \E a : CancelRequest(c, a)
             \/ \E s, ok : AuthResult(c, s, ok)
             \/ \E s : SessionEnd(c, s)
             \/ Refused(c)
      PROVE  Calm
  <2>1. \E label \in Pausing : Moves(label)
    <3>1. CASE (\E i : Bind(c, i)) \/ Refused(c)
      BY <3>1 DEF Bind, Refused, Idle
    <3>2. CASE \E r : Refuse(c, r)
      BY <3>2 DEF Refuse
    <3>3. CASE \E a : CancelRequest(c, a)
      BY <3>3 DEF CancelRequest
    <3>4. CASE \E s, ok : AuthResult(c, s, ok)
      BY <3>4 DEF AuthResult
    <3>5. CASE \E s : SessionEnd(c, s)
      BY <3>5 DEF SessionEnd
    <3> QED BY <1>3, <3>1, <3>2, <3>3, <3>4, <3>5
  <2>2. UNCHANGED sessionVars
    BY <1>3 DEF Bind, Refuse, CancelRequest, AuthResult, SessionEnd, Refused
  <2> HIDE DEF Pausing, Moves
  <2> QED BY <1>1, <2>1, <2>2 DEF sessionVars, historyVars
<1>4. ASSUME Answered(c) \/ Withdrawn(c) \/ HangUp(c) PROVE Calm
  <2>1. live' \subseteq live /\ UNCHANGED <<meta, inputs, forwarded, counted, log>>
    BY <1>4 DEF Answered, Withdrawn, HangUp, historyVars
  <2>2. \E label \in Pausing : Moves(label)
    <3>1. CASE Answered(c) \/ Withdrawn(c)
      BY <3>1 DEF Answered, Withdrawn
    <3>2. CASE HangUp(c)
      BY <3>2 DEF HangUp, Idle
    <3> QED BY <1>4, <3>1, <3>2
  <2> HIDE DEF Pausing, Moves
  <2> QED BY <1>1, <2>1, <2>2
<1> QED BY <1>2, <1>3, <1>4

\* The writes, and the clean-up of a closed connection.
LEMMA WritesCalm ==
    ASSUME TypeOK, Core, NEW c \in Conns, NEW ok \in BOOLEAN
    PROVE  /\ Connected(c, ok) \/ Audited(c, ok) => Calm
           /\ InputSummarised(c, ok) \/ RowSettled(c, ok) => Calm
           /\ Settled(c, ok) \/ Close(c) => Calm
<1> USE DEF historyVars
<1>0. Idle.at = "idle" /\ Closed.at = "closed"
  BY IdleFacts
<1>1. ASSUME Connected(c, ok) \/ Audited(c, ok) PROVE Calm
  <2>1. PICK s \in Sids : s = task[c].sid
    BY <1>1, LoopShape DEF Connected, Audited, Labels, Settlement, InSession
  <2>2. \E k \in Kinds : k # "input" /\ log' \in {log, Logged(s, k)}
    <3>1. CASE Connected(c, ok)
      BY <2>1, <3>1 DEF Connected, Kinds
    <3>2. CASE Audited(c, ok)
      BY <2>1, <3>2 DEF Audited, Core, TaskShape, Kinds
    <3> QED BY <1>1, <3>1, <3>2
  <2>3. \A q \in Sids : log'[q]["input"] = log[q]["input"]
    BY <2>2, OtherLogged
  <2> QED BY <1>0, <1>1, <2>3, CalmTask DEF Connected, Audited
<1>2. ASSUME InputSummarised(c, ok) PROVE Calm
  <2>1. PICK s \in Sids : s = task[c].sid
    BY <1>2, SettlingShape DEF InputSummarised, Settlement
  <2>2. \A q \in Sids : Frozen(q) => Frozen(q)'
    BY <1>2, <2>1 DEF InputSummarised, Frozen, Logged, TypeOK
  <2>3. \A d \in Conns : task'[d] = task[d] \/ task'[d].at = "row"
    BY <1>2 DEF InputSummarised, TypeOK, Task
  <2> QED BY <1>2, <2>2, <2>3 DEF InputSummarised, Calm
<1>3. ASSUME RowSettled(c, ok) PROVE Calm
  <2>1. \A d \in Conns : task'[d] = task[d] \/ task'[d].at = "bye"
    BY <1>3 DEF RowSettled, TypeOK, Task
  <2> QED BY <1>3, <2>1 DEF RowSettled, Calm, Frozen
<1>4. ASSUME Settled(c, ok) PROVE Calm
  <2>1. PICK s \in Sids : s = task[c].sid
    BY <1>4, SettlingShape DEF Settled, Settlement
  <2>2. \A q \in Sids : log'[q]["input"] = log[q]["input"]
    BY <1>4, <2>1, OtherLogged DEF Settled, Kinds
  <2>3. \/ task' = [task EXCEPT ![c] = Idle]
        \/ task' = [task EXCEPT ![c] = Closed]
        \/ \E i, r, rest : SettleNext(c, i, r, rest)
    BY <1>4 DEF Settled
  <2> QED BY <1>0, <1>4, <2>2, <2>3, CalmTask, SettleNextCalm DEF Settled
<1>5. ASSUME Close(c) PROVE Calm
  <2>1. live' \subseteq live
    BY <1>5 DEF Close
  <2>2. \/ task' = [task EXCEPT ![c] = Closed]
        \/ \E i, r, rest : SettleNext(c, i, r, rest)
    BY <1>5 DEF Close
  <2> QED BY <1>0, <1>5, <2>1, <2>2, CalmTask, SettleNextCalm DEF Close
<1> QED BY <1>1, <1>2, <1>3, <1>4, <1>5

\* A request takes a session id nobody has spoken of.
LEMMA RequestSumming ==
    ASSUME TypeOK, Core, Summing, NEW c \in Conns, NEW r, NEW s \in Sids, Request(c, r, s)
    PROVE  Summing'
<1> DEFINE t == At("insert", s, "none")
<1>1. /\ Fresh(s) /\ task' = [task EXCEPT ![c] = t] /\ t.at = "insert" /\ t.sid = s
      /\ UNCHANGED <<live, inputs, log, counted, forwarded>>
      /\ \A q \in Sids : q # s => meta'[q] = meta[q]
  BY DEF Request, historyVars, At, TypeOK
<1> HIDE DEF t
<1>2. \A d \in Conns : task'[d] = IF d = c THEN t ELSE task[d]
  BY <1>1 DEF TypeOK
<1> SUFFICES ASSUME NEW q \in Sids
             PROVE  /\ Counts(q)' /\ Frozen(q)'
                    /\ \A d \in Conns : Relaying(d, q)' => Told(q)'
  BY DEF Summing
<1>3. \A d \in Conns : Typed(d, q)' => Typed(d, q)
  BY <1>1, <1>2 DEF Typed
<1>4. Counts(q)' /\ Frozen(q)'
  BY <1>1, <1>3, CountsShrink DEF Summing, Frozen
<1>5. ASSUME NEW d \in Conns, Relaying(d, q)' PROVE Told(q)'
  <2>1. Relaying(d, q) /\ Told(q) /\ q # s
    BY <1>1, <1>2, <1>5 DEF Relaying, Summing, Told
  <2> QED BY <1>1, <1>2, <2>1 DEF Told, Fresh
<1> QED BY <1>4, <1>5

\* Nothing changes but what one task is doing, and it does not enter a session.
LEMMA SameTold ==
    ASSUME TypeOK, NEW c \in Conns, NEW t, task' = [task EXCEPT ![c] = t], t.at # "insert",
           meta' = meta, NEW s \in Sids, Told(s)
    PROVE  Told(s)'
BY DEF TypeOK, Told, Fresh

\* Input is counted as it begins to be handled, if its session is in the table.
LEMMA InputSumming ==
    ASSUME TypeOK, Core, Summing, NEW c \in Conns, NEW s \in Sids, Told(s), Input(c, s)
    PROVE  Summing'
<1> DEFINE t == At("relay", s, "keys")
<1>1. /\ task[c] = Idle /\ task' = [task EXCEPT ![c] = t]
      /\ t.at = "relay" /\ t.sid = s
      /\ UNCHANGED <<live, meta, log, counted, forwarded>>
      /\ inputs' = IF s \in live THEN [inputs EXCEPT ![s] = @ + 1] ELSE inputs
  BY DEF Input, historyVars, At
<1> HIDE DEF t
<1>2. \A d \in Conns : task'[d] = IF d = c THEN t ELSE task[d]
  BY <1>1 DEF TypeOK
<1> SUFFICES ASSUME NEW q \in Sids
             PROVE  /\ Counts(q)' /\ Frozen(q)'
                    /\ \A d \in Conns : Relaying(d, q)' => Told(q)'
  BY DEF Summing
<1>3. Counts(q) /\ Frozen(q) /\ \A d \in Conns : Relaying(d, q) => Told(q)
  BY DEF Summing
<1>4. CASE q = s /\ s \in live
  <2>1. inputs'[q] = inputs[q] + 1
    BY <1>1, <1>4 DEF TypeOK
  <2>2. \A d \in Conns : Typed(d, q)' => Typed(d, q) \/ d = c
    BY <1>1, <1>2 DEF Typed
  <2>3. Counts(q)'
    BY <1>1, <1>3, <2>1, <2>2, CountsGrow
  <2>4. log[q]["input"] = 0
    BY <1>4 DEF Core, LiveUnsettled
  <2> QED BY <1>1, <1>4, <2>3, <2>4, SameTold DEF Frozen
<1>5. CASE ~(q = s /\ s \in live)
  <2>1. inputs'[q] = inputs[q]
    BY <1>1, <1>5 DEF TypeOK
  <2>2. \A d \in Conns : Typed(d, q)' => Typed(d, q)
    BY <1>1, <1>2, <1>5 DEF Typed
  <2>3. Counts(q)' /\ Frozen(q)'
    BY <1>1, <1>3, <2>1, <2>2, CountsShrink DEF Frozen
  <2>4. ASSUME NEW d \in Conns, Relaying(d, q)' PROVE Told(q)
    BY <1>1, <1>2, <1>3, <2>4 DEF Relaying
  <2> QED BY <1>1, <2>3, <2>4, SameTold
<1> QED BY <1>4, <1>5

\* A message that is not input, or input that was counted, is looked up or is
\* about to be sent.
LEMMA RelaySumming ==
    ASSUME TypeOK, Summing, NEW c \in Conns, NEW t, NEW s \in Sids,
           task' = [task EXCEPT ![c] = t], t.sid = s, t.at \in {"relay", "send"},
           t.kind = "keys" => Typed(c, s), t.at = "relay" => Told(s),
           UNCHANGED <<live, meta, inputs, log, counted, forwarded>>
    PROVE  Summing'
<1>1. \A d \in Conns : task'[d] = IF d = c THEN t ELSE task[d]
  BY DEF TypeOK
<1> SUFFICES ASSUME NEW q \in Sids
             PROVE  /\ Counts(q)' /\ Frozen(q)'
                    /\ \A d \in Conns : Relaying(d, q)' => Told(q)'
  BY DEF Summing
<1>2. \A d \in Conns : Typed(d, q)' => Typed(d, q)
  BY <1>1 DEF Typed
<1>3. Counts(q)' /\ Frozen(q)'
  BY <1>2, CountsShrink DEF Summing, Frozen
<1>4. ASSUME NEW d \in Conns, Relaying(d, q)' PROVE Told(q)
  BY <1>1, <1>4 DEF Relaying, Summing
<1> QED BY <1>3, <1>4, SameTold

LEMMA TrafficSumming ==
    ASSUME TypeOK, Core, Summing, NEW c \in Conns
    PROVE  /\ \A s \in Sids : \A type \in Traffic :
                (Told(s) /\ RelayAudited(c, s, type)) \/ Relay(c, s, type) => Summing'
           /\ LookUp(c) => Summing'
<1> USE DEF sessionVars, historyVars
<1>1. ASSUME NEW s \in Sids, NEW type \in Traffic, NEW label \in {"relay", "send"},
             task' = [task EXCEPT ![c] = At(label, s, type)], UNCHANGED sessionVars,
             label = "relay" => Told(s)
      PROVE  Summing'
  <2>1. At(label, s, type).sid = s /\ At(label, s, type).at = label
        /\ At(label, s, type).kind # "keys"
    BY HubAssumption DEF At
  <2> QED BY <1>1, <2>1, RelaySumming
<1>2. ASSUME LookUp(c) PROVE Summing'
  <2> DEFINE t == task[c]
  <2>1. PICK s \in Sids : s = t.sid
    BY <1>2, LoopShape DEF LookUp, Labels, Settlement, InSession
  <2>2. t.at = "relay" /\ UNCHANGED sessionVars
    BY <1>2 DEF LookUp
  <2>3. CASE Routable(s, bound[c])
    <3> DEFINE n == At("send", s, t.kind)
    <3>1. task' = [task EXCEPT ![c] = n] /\ n.sid = s /\ n.at = "send" /\ n.kind = t.kind
      BY <1>2, <2>1, <2>3 DEF LookUp, At
    <3>2. t.kind = "keys" => Typed(c, s)
      BY <2>1, <2>2, <2>3 DEF Typed, Routable
    <3> HIDE DEF n, t
    <3> QED BY <2>2, <3>1, <3>2, RelaySumming
  <2>4. CASE ~Routable(s, bound[c])
    <3>1. task' = [task EXCEPT ![c] = Idle]
      BY <1>2, <2>1, <2>4 DEF LookUp
    <3>2. Calm
      BY <2>2, <3>1, QuietTask DEF Idle, Labels
    <3> QED BY <3>2, CalmSumming
  <2> QED BY <2>3, <2>4
<1>3. ASSUME NEW s \in Sids, NEW type \in Traffic, Told(s), RelayAudited(c, s, type)
      PROVE  Summing'
  BY <1>1, <1>3 DEF RelayAudited
<1>4. ASSUME NEW s \in Sids, NEW type \in Traffic, Relay(c, s, type)
      PROVE  Summing'
  BY <1>1, <1>4 DEF Relay
<1> QED BY <1>2, <1>3, <1>4

\* What is sent was counted, and is counted off what is being typed.
LEMMA SendSumming ==
    ASSUME TypeOK, Core, Summing, NEW c \in Conns, Send(c)
    PROVE  Summing'
<1>1. PICK s \in Sids : s = task[c].sid
  BY LoopShape DEF Send, Labels, Settlement, InSession
<1>2. /\ task[c].at = "send" /\ task' = [task EXCEPT ![c] = Idle]
      /\ UNCHANGED <<live, meta, inputs, log, counted>>
      /\ IF task[c].kind = "keys"
         THEN forwarded' \in {forwarded, [forwarded EXCEPT ![s] = @ + 1]}
         ELSE forwarded' = forwarded
  BY <1>1 DEF Send
<1>3. Idle.at = "idle" /\ \A d \in Conns : task'[d] = IF d = c THEN Idle ELSE task[d]
  BY <1>2, IdleFacts DEF TypeOK
<1> SUFFICES ASSUME NEW q \in Sids
             PROVE  /\ Counts(q)' /\ Frozen(q)'
                    /\ \A d \in Conns : Relaying(d, q)' => Told(q)'
  BY DEF Summing
<1>4. Counts(q) /\ Frozen(q) /\ \A d \in Conns : Relaying(d, q) => Told(q)
  BY DEF Summing
<1>5. \A d \in Conns : (Typed(d, q)' => Typed(d, q) /\ d # c)
                       /\ (Relaying(d, q)' => Relaying(d, q))
  BY <1>2, <1>3 DEF Typed, Relaying
<1>6. Counts(q)'
  <2>1. CASE q = s /\ task[c].kind = "keys"
    <3>1. Typed(c, q) /\ forwarded'[q] \in {forwarded[q], forwarded[q] + 1}
      BY <1>1, <1>2, <2>1 DEF Typed, TypeOK
    <3> QED BY <1>2, <1>4, <1>5, <3>1, CountsSent
  <2>2. CASE q # s \/ task[c].kind # "keys"
    <3>1. forwarded'[q] = forwarded[q]
      BY <1>2, <2>2 DEF TypeOK
    <3> QED BY <1>2, <1>4, <1>5, <3>1, CountsShrink
  <2> QED BY <2>1, <2>2
<1> QED BY <1>2, <1>3, <1>4, <1>5, <1>6, SameTold DEF Frozen

\* A session enters the table with no input of it in hand: it was not told of.
LEMMA InsertedSumming ==
    ASSUME TypeOK, Core, Summing, NEW c \in Conns, NEW ok, Inserted(c, ok)
    PROVE  Summing'
<1>1. PICK s \in Sids : s = task[c].sid
  BY LoopShape DEF Inserted, Labels, Settlement, InSession
<1>2. /\ task[c].at = "insert" /\ live' = live \cup {s}
      /\ UNCHANGED <<meta, inputs, log, counted, forwarded>>
  BY <1>1 DEF Inserted, historyVars
<1>3. PICK label \in {"idle", "connect"} : \E q, k : task' = [task EXCEPT ![c] = At(label, q, k)]
  BY DEF Inserted, Idle
<1>4. PICK t : task' = [task EXCEPT ![c] = t] /\ t.at \in {"idle", "connect"}
  <2>1. PICK q, k : task' = [task EXCEPT ![c] = At(label, q, k)]
    BY <1>3
  <2>2. At(label, q, k).at = label
    BY DEF At
  <2> QED BY <2>1, <2>2
<1>5. \A d \in Conns : task'[d] = IF d = c THEN t ELSE task[d]
  BY <1>4 DEF TypeOK
<1> SUFFICES ASSUME NEW q \in Sids
             PROVE  /\ Counts(q)' /\ Frozen(q)'
                    /\ \A d \in Conns : Relaying(d, q)' => Told(q)'
  BY DEF Summing
<1>6. Counts(q) /\ Frozen(q) /\ \A d \in Conns : Relaying(d, q) => Told(q)
  BY DEF Summing
<1>7. \A d \in Conns : Relaying(d, s) => FALSE
  BY <1>1, <1>2 DEF Summing, Told
<1>8. \A d \in Conns : (Typed(d, q)' => Typed(d, q)) /\ (Relaying(d, q)' => Relaying(d, q))
  BY <1>2, <1>4, <1>5, <1>7 DEF Typed, Relaying
<1> QED BY <1>2, <1>4, <1>6, <1>8, CountsShrink, SameTold DEF Frozen

LEMMA SummingStep ==
    ASSUME TypeOK, Core, Summing, [Next]_vars
    PROVE  Summing'
<1>1. CASE Crash \/ UNCHANGED vars
  <2>1. Calm
    BY <1>1, IdleFacts DEF Crash, vars, Calm, historyVars, Frozen
  <2> QED BY <2>1, CalmSumming
<1>2. ASSUME NEW c \in Conns, Receive(c) PROVE Summing'
  <2>1. ASSUME NEW s \in Sids, Told(s), NEW type \in Traffic,
               RelayAudited(c, s, type) \/ Relay(c, s, type)
        PROVE  Summing'
    BY <2>1, TrafficSumming
  <2> QED BY <1>2, <2>1, QuietCalm, CalmSumming, RequestSumming, InputSumming DEF Receive
<1>3. ASSUME NEW c \in Conns, Resume(c) PROVE Summing'
  <2>1. DbOutcomes \subseteq BOOLEAN
    BY HubAssumption
  <2> QED BY <1>3, <2>1, QuietCalm, WritesCalm, CalmSumming, TrafficSumming, SendSumming,
             InsertedSumming DEF Resume
<1>4. ASSUME NEW c \in Conns, Close(c) \/ \E i \in Ids : Bind(c, i) PROVE Summing'
  BY <1>4, QuietCalm, WritesCalm, CalmSumming
<1> QED BY <1>1, <1>2, <1>3, <1>4 DEF Next

LEMMA SummingInit == Init => Summing
<1> SUFFICES ASSUME Init, NEW s \in Sids
             PROVE  /\ Counts(s) /\ Frozen(s)
                    /\ \A c \in Conns : Relaying(c, s) => Told(s)
  BY DEF Summing
<1>1. \A c \in Conns : task[c].at = "unbound"
  BY IdleFacts DEF Init
<1>2. Typing(s) = {}
  BY <1>1 DEF Typing, Typed
<1>3. Counts(s)
  BY <1>2, FS_EmptySet DEF Counts, Init
<1> QED BY <1>1, <1>3 DEF Init, Frozen, Relaying, Kinds

\* The audited input summary misses no input that reached the other side,
\* however many connections type into a session while it is ended (handle_raw
\* counts before it routes, end_session freezes the count).
THEOREM SummaryHolds == Spec => []SummaryComplete
<1>1. IInv => TypeOK /\ Core
  BY DEF IInv, Core
<1>2. IInv /\ Summing /\ [Next]_vars => Summing'
  BY <1>1, SummingStep
<1>3. IInv /\ Summing => SummaryComplete
  <2> SUFFICES ASSUME TypeOK, Summing, NEW s \in Sids, log[s]["input"] = 1
               PROVE  counted[s] >= forwarded[s]
    BY <1>1 DEF SummaryComplete
  <2>1. /\ IsFiniteSet(Typing(s)) /\ forwarded[s] + Cardinality(Typing(s)) <= inputs[s]
        /\ counted[s] = inputs[s]
    BY DEF Summing, Counts, Frozen
  <2>2. Cardinality(Typing(s)) \in Nat /\ forwarded[s] \in Nat /\ inputs[s] \in Nat
    BY <2>1, FS_CardinalityType DEF TypeOK
  <2> QED BY <2>1, <2>2
<1> QED BY <1>2, <1>3, Invariance, SummingInit, PTL DEF Spec
============================================================================
