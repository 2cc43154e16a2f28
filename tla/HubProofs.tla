----------------------------- MODULE HubProofs ------------------------------
(***************************************************************************)
(* Proofs about Hub, for every set of endpoints, consoles, connections and *)
(* session ids: every action keeps the variables in their types, as long   *)
(* as every task is well shaped; a session is settled by one task, once,   *)
(* after it has left the table, and at most one message a connection was   *)
(* already routing is sent about it afterwards.                            *)
(***************************************************************************)
EXTENDS Hub, SequenceTheorems, TLAPS

----------------------------------------------------------------------------
(* Helpers *)

\* What is sent keeps the lanes well typed, whoever it is sent to.
LEMMA SendToType ==
    ASSUME TypeOK, NEW i, NEW m \in Msg
    PROVE  SendTo(i, m) \in [Conns -> Seq(Msg)]
<1>1. ASSUME NEW c \in Conns PROVE Append(lane[c], m) \in Seq(Msg)
  BY <1>1, AppendProperties DEF TypeOK
<1>2. CASE i \in Ids /\ clients[i] # NoConn
  <2>1. clients[i] \in Conns
    BY <1>2 DEF TypeOK
  <2> QED BY <1>1, <1>2, <2>1 DEF SendTo, TypeOK
<1>3. CASE ~(i \in Ids /\ clients[i] # NoConn)
  BY <1>3 DEF SendTo, TypeOK
<1> QED BY <1>2, <1>3

\* The messages the hub builds are messages.
LEMMA NoteType ==
    ASSUME NEW type \in MsgTypes, NEW s \in AnySid
    PROVE  Note(type, s) \in Msg
BY DEF Note, Msg

LEMMA IncomingType ==
    ASSUME TypeOK, NEW s \in Sids
    PROVE  Incoming(s) \in Msg
BY DEF Incoming, Msg, TypeOK, Meta, AnySid, MsgTypes

\* The records a task is set to are tasks.
LEMMA AtType ==
    ASSUME NEW label \in Labels, NEW s \in AnySid, NEW k \in Events \cup Relayed
    PROVE  At(label, s, k) \in Task
BY DEF At, Task

LEMMA ConstantTasks == Unbound \in Task /\ Idle \in Task /\ Closed \in Task
BY AtType DEF Unbound, Idle, Closed, Labels, AnySid, Events

\* Adding an audit row keeps the counts well typed.
LEMMA LoggedType ==
    ASSUME TypeOK, NEW s \in Sids, NEW k \in Kinds
    PROVE  /\ Logged(s, k) \in [Sids -> [Kinds -> Nat]]
           /\ \A r \in Sids : \A j \in Kinds :
                 Logged(s, k)[r][j] = IF r = s /\ j = k THEN log[r][j] + 1 ELSE log[r][j]
           /\ \A r \in Sids \ {s} : Logged(s, k)[r] = log[r]
<1>1. log \in [Sids -> [Kinds -> Nat]]
  BY DEF TypeOK
<1>2. [log[s] EXCEPT ![k] = @ + 1] \in [Kinds -> Nat]
  BY <1>1
<1> QED BY <1>1, <1>2 DEF Logged

----------------------------------------------------------------------------
(* Types *)

LEMMA InitType == Init => TypeOK
BY ConstantTasks, HubAssumption, EmptySeq DEF Init, TypeOK, Unborn, Meta, Kinds

Shapes == \A c \in Conns : TaskShape(c)

LEMMA BindType ==
    ASSUME TypeOK, NEW c \in Conns, NEW i \in Ids, Bind(c, i)
    PROVE  TypeOK'
<1>1. task' \in [Conns -> Task] /\ bound' \in [Conns -> Ids \cup {NoId}]
  BY ConstantTasks DEF Bind, TypeOK
<1>2. /\ clients' \in [Ids -> Conns \cup {NoConn}]
      /\ actors' \in [Ids -> Users \cup {NoUser}]
  BY HubAssumption DEF Bind, TypeOK
<1>3. owner' \in [Agents -> Users \cup {NoUser}] /\ hasPw' \in SUBSET Agents
  <2>1. CASE i \in Agents
    <3>1. owner' = [owner EXCEPT ![i] = actors'[i]] /\ hasPw' = hasPw \cup {i}
      BY <2>1 DEF Bind
    <3>2. actors'[i] \in Users \cup {NoUser}
      BY <1>2
    <3> QED BY <2>1, <3>1, <3>2 DEF TypeOK
  <2>2. CASE i \notin Agents
    BY <2>2 DEF Bind, TypeOK
  <2> QED BY <2>1, <2>2
<1> QED BY <1>1, <1>2, <1>3 DEF Bind, TypeOK, sessionVars, historyVars

LEMMA RegisterType ==
    ASSUME TypeOK, NEW c \in Conns, Register(c)
    PROVE  TypeOK'
BY DEF TypeOK, Register, sessionVars, historyVars, Ids

LEMMA SettleNextType ==
    ASSUME TypeOK, NEW c \in Conns, NEW i, NEW s \in Sids, NEW rest \in SUBSET Sids,
           SettleNext(c, i, s, rest)
    PROVE  task' \in [Conns -> Task] /\ lane' \in [Conns -> Seq(Msg)]
<1>1. lane' \in [Conns -> Seq(Msg)]
  BY SendToType, NoteType DEF SettleNext, MsgTypes, AnySid
<1>2. At("input", s, "disconnect") \in Task
  BY AtType DEF Labels, AnySid, Events, Kinds
<1>3. [At("input", s, "disconnect") EXCEPT !.left = rest, !.quit = TRUE] \in Task
  BY <1>2 DEF Task
<1> QED BY <1>1, <1>3 DEF SettleNext, TypeOK

LEMMA CloseType ==
    ASSUME TypeOK, NEW c \in Conns, Close(c)
    PROVE  TypeOK'
<1> DEFINE i == bound[c]
           mine == {s \in live : i \in PartyOf(s)}
<1>1. live' \in SUBSET Sids
  BY DEF Close, TypeOK, historyVars
<1>2. CASE mine = {}
  <2>1. task' = [task EXCEPT ![c] = Closed] /\ lane' = [lane EXCEPT ![c] = <<>>]
    BY <1>2 DEF Close
  <2>2. task' \in [Conns -> Task] /\ lane' \in [Conns -> Seq(Msg)]
    BY <2>1, ConstantTasks, EmptySeq DEF TypeOK
  <2>3. clients' \in [Ids -> Conns \cup {NoConn}] /\ actors' \in [Ids -> Users \cup {NoUser}]
    BY <1>2 DEF Close, Leave, TypeOK
  <2> QED BY <1>1, <2>2, <2>3 DEF Close, TypeOK, historyVars
<1>3. CASE mine # {}
  <2>1. PICK s \in mine : SettleNext(c, i, s, mine \ {s})
    BY <1>3 DEF Close
  <2>2. s \in Sids /\ mine \ {s} \in SUBSET Sids
    BY DEF TypeOK
  <2>3. task' \in [Conns -> Task] /\ lane' \in [Conns -> Seq(Msg)]
    BY <2>1, <2>2, SettleNextType
  <2>4. UNCHANGED <<clients, actors>>
    BY <1>3 DEF Close
  <2> QED BY <1>1, <2>3, <2>4 DEF Close, TypeOK, historyVars
<1> QED BY <1>2, <1>3

LEMMA OpeningType ==
    ASSUME TypeOK, Shapes, NEW c \in Conns
    PROVE  /\ \A r \in RequestsOf(bound[c]) : Refuse(c, r) => TypeOK'
           /\ Refused(c) => TypeOK'
           /\ task[c] = Idle =>
                \A r \in RequestsOf(bound[c]) : \A s \in Sids : Request(c, r, s) => TypeOK'
           /\ \A ok \in BOOLEAN : Inserted(c, ok) \/ Connected(c, ok) => TypeOK'
<1>1. ASSUME NEW r \in RequestsOf(bound[c]), Refuse(c, r) PROVE TypeOK'
  <2>1. At("refuse", NoSid, "none") \in Task
    BY AtType DEF Labels, AnySid, Events
  <2> QED BY <1>1, <2>1 DEF Refuse, TypeOK, hubVars, sessionVars, historyVars
<1>2. ASSUME Refused(c) PROVE TypeOK'
  <2>1. lane' \in [Conns -> Seq(Msg)]
    BY <1>2, SendToType, NoteType DEF Refused, MsgTypes, AnySid
  <2> QED BY <1>2, <2>1, ConstantTasks DEF Refused, TypeOK, hubVars, sessionVars, historyVars
<1>3. ASSUME NEW r \in RequestsOf(bound[c]), NEW s \in Sids, task[c] = Idle,
             Request(c, r, s)
      PROVE  TypeOK'
  <2>1. At("insert", s, "none") \in Task
    BY AtType DEF Labels, AnySid, Events
  <2>2. r.to \in Agents
    BY DEF RequestsOf, RequestsB
  <2>3. bound[c] \in Ids
    BY <1>3 DEF Shapes, TaskShape, Idle, Closed, At
  <2>4. [from |-> bound[c], to |-> r.to, auto |-> Decide(r) = "auto"] \in Meta
    BY <2>2, <2>3 DEF Meta
  <2> QED BY <1>3, <2>1, <2>4 DEF Request, TypeOK, hubVars, historyVars
<1>4. ASSUME NEW ok \in BOOLEAN, Inserted(c, ok) PROVE TypeOK'
  <2> DEFINE s == task[c].sid
  <2>1. s \in Sids
    BY <1>4 DEF Inserted, Shapes, TaskShape, InSession, Settlement
  <2>2. At("connect", s, "connect") \in Task
    BY <2>1, AtType DEF Labels, AnySid, Events, Kinds
  <2>3. lane' \in [Conns -> Seq(Msg)]
    <3>1. Note("ack", s) \in Msg /\ Incoming(s) \in Msg
      BY <2>1, NoteType, IncomingType DEF MsgTypes, AnySid
    <3> QED BY <1>4, <3>1, SendToType DEF Inserted
  <2>4. task' \in [Conns -> Task]
    BY <1>4, <2>2, ConstantTasks DEF Inserted, TypeOK
  <2>5. rows' \in [Sids -> {"absent", "active", "ended"}] /\ live' \in SUBSET Sids
    BY <1>4, <2>1 DEF Inserted, TypeOK
  <2> QED BY <1>4, <2>3, <2>4, <2>5 DEF Inserted, TypeOK, hubVars, historyVars
<1>5. ASSUME NEW ok \in BOOLEAN, Connected(c, ok) PROVE TypeOK'
  <2>1. task[c].sid \in Sids
    BY <1>5 DEF Connected, Shapes, TaskShape, InSession, Settlement
  <2>2. lane' \in [Conns -> Seq(Msg)]
    BY <1>5, <2>1, IncomingType, SendToType DEF Connected
  <2>3. log' \in [Sids -> [Kinds -> Nat]]
    BY <1>5, <2>1, LoggedType DEF Connected, Kinds, TypeOK
  <2> QED BY <1>5, <2>2, <2>3, ConstantTasks DEF Connected, TypeOK, hubVars, historyVars
<1> QED BY <1>1, <1>2, <1>3, <1>4, <1>5

LEMMA FindingType ==
    ASSUME TypeOK, NEW c \in Conns
    PROVE  /\ \A s \in Sids : \A ok \in BOOLEAN : AuthResult(c, s, ok) => TypeOK'
           /\ \A a \in Agents : CancelRequest(c, a) => TypeOK'
           /\ \A s \in Sids : SessionEnd(c, s) => TypeOK'
<1>1. ASSUME NEW label \in Labels, NEW s \in Sids, NEW k \in Kinds,
             task' = [task EXCEPT ![c] = At(label, s, k)],
             UNCHANGED <<hubVars, sessionVars, lane, crashes>>
      PROVE  TypeOK'
  <2>1. At(label, s, k) \in Task
    BY AtType DEF AnySid, Events
  <2> QED BY <1>1, <2>1 DEF TypeOK, hubVars, sessionVars, historyVars
<1>2. {"answer", "withdraw", "hangup"} \subseteq Labels
      /\ {"connect", "reject", "withdrawn", "disconnect"} \subseteq Kinds
  BY DEF Labels, Kinds
<1>3. ASSUME NEW s \in Sids, NEW ok \in BOOLEAN, AuthResult(c, s, ok) PROVE TypeOK'
  BY <1>1, <1>2, <1>3 DEF AuthResult
<1>4. ASSUME NEW a \in Agents, CancelRequest(c, a) PROVE TypeOK'
  BY <1>1, <1>2, <1>4 DEF CancelRequest, TypeOK
<1>5. ASSUME NEW s \in Sids, SessionEnd(c, s) PROVE TypeOK'
  BY <1>1, <1>2, <1>5 DEF SessionEnd
<1> QED BY <1>3, <1>4, <1>5

LEMMA AnsweringType ==
    ASSUME TypeOK, Shapes, NEW c \in Conns
    PROVE  Answered(c) \/ Withdrawn(c) \/ HangUp(c) => TypeOK'
<1>1. ASSUME NEW t \in Task, task' = [task EXCEPT ![c] = t], live' \subseteq Sids,
             NEW i, NEW m \in Msg, lane' = SendTo(i, m),
             UNCHANGED <<hubVars, meta, inputs, rows, log, counted, historyVars, crashes>>
      PROVE  TypeOK'
  <2>1. lane' \in [Conns -> Seq(Msg)]
    BY <1>1, SendToType
  <2> QED BY <1>1, <2>1 DEF TypeOK, hubVars, historyVars
<1>2. ASSUME task[c].at \in {"answer", "withdraw", "hangup"} PROVE task[c].sid \in Sids
  BY <1>2 DEF Shapes, TaskShape, InSession
<1>3. \A type \in {"ack", "reject", "end"} : \A s \in Sids : Note(type, s) \in Msg
  BY NoteType DEF MsgTypes, AnySid
<1>4. ASSUME NEW label \in {"audit", "input"}, NEW s \in Sids,
             NEW k \in {"connect", "reject", "withdrawn", "disconnect"}
      PROVE  At(label, s, k) \in Task
  BY AtType DEF Labels, AnySid, Events, Kinds
<1>5. ASSUME Answered(c) PROVE TypeOK'
  <2>1. task[c].sid \in Sids /\ task[c].kind \in {"connect", "reject"}
    BY <1>2, <1>5 DEF Answered, Shapes, TaskShape
  <2>2. At("audit", task[c].sid, task[c].kind) \in Task
    BY <1>4, <2>1
  <2>3. Note(IF task[c].kind = "reject" THEN "reject" ELSE "ack", task[c].sid) \in Msg
    BY <1>3, <2>1
  <2>4. live' \subseteq Sids
    BY <1>5 DEF Answered, TypeOK
  <2> QED BY <1>1, <1>5, <2>2, <2>3, <2>4 DEF Answered
<1>6. ASSUME Withdrawn(c) PROVE TypeOK'
  <2>1. task[c].sid \in Sids
    BY <1>2, <1>6 DEF Withdrawn
  <2>2. At("audit", task[c].sid, "withdrawn") \in Task /\ Note("end", task[c].sid) \in Msg
    BY <1>3, <1>4, <2>1
  <2>3. live' \subseteq Sids
    BY <1>6 DEF Withdrawn, TypeOK
  <2> QED BY <1>1, <1>6, <2>2, <2>3 DEF Withdrawn
<1>7. ASSUME HangUp(c) PROVE TypeOK'
  <2>1. task[c].sid \in Sids
    BY <1>2, <1>7 DEF HangUp
  <2>2. At("input", task[c].sid, "disconnect") \in Task /\ Note("end", task[c].sid) \in Msg
    BY <1>3, <1>4, <2>1
  <2>3. live' \subseteq Sids
    BY <1>7 DEF HangUp, TypeOK
  <2> QED BY <1>1, <1>7, <2>2, <2>3, ConstantTasks DEF HangUp
<1> QED BY <1>5, <1>6, <1>7

LEMMA SettlingType ==
    ASSUME TypeOK, Shapes, NEW c \in Conns, NEW ok \in BOOLEAN
    PROVE  /\ Audited(c, ok) \/ InputSummarised(c, ok) \/ RowSettled(c, ok) => TypeOK'
           /\ Settled(c, ok) => TypeOK'
<1>1. task[c] \in Task
  BY DEF TypeOK
<1>2. ASSUME Audited(c, ok) PROVE TypeOK'
  <2>1. task[c].sid \in Sids /\ task[c].kind \in Kinds
    BY <1>2 DEF Audited, Shapes, TaskShape, InSession, Settlement, Kinds
  <2>2. log' \in [Sids -> [Kinds -> Nat]]
    BY <1>2, <2>1, LoggedType DEF Audited, TypeOK
  <2> QED BY <1>2, <2>2, ConstantTasks DEF Audited, TypeOK, hubVars, historyVars
<1>3. ASSUME InputSummarised(c, ok) PROVE TypeOK'
  <2>1. task[c].sid \in Sids
    BY <1>3 DEF InputSummarised, Shapes, TaskShape, InSession, Settlement
  <2>2. task' \in [Conns -> Task]
    BY <1>1, <1>3 DEF InputSummarised, TypeOK, Task, Labels
  <2>3. log' \in [Sids -> [Kinds -> Nat]] /\ counted' \in [Sids -> Nat]
    BY <1>3, <2>1, LoggedType DEF InputSummarised, Kinds, TypeOK
  <2> QED BY <1>3, <2>2, <2>3 DEF InputSummarised, TypeOK, hubVars, historyVars
<1>4. ASSUME RowSettled(c, ok) PROVE TypeOK'
  <2>1. task' \in [Conns -> Task]
    BY <1>1, <1>4 DEF RowSettled, TypeOK, Task, Labels
  <2>2. rows' \in [Sids -> {"absent", "active", "ended"}]
    BY <1>4 DEF RowSettled, TypeOK
  <2> QED BY <1>4, <2>1, <2>2 DEF RowSettled, TypeOK, hubVars, historyVars
<1>5. ASSUME Settled(c, ok) PROVE TypeOK'
  <2> DEFINE t == task[c]
  <2>1. log' \in [Sids -> [Kinds -> Nat]]
    <3>1. t.sid \in Sids
      BY <1>5 DEF Settled, Shapes, TaskShape, InSession, Settlement
    <3> QED BY <1>5, <3>1, LoggedType DEF Settled, Kinds, TypeOK
  <2>2. CASE task' = [task EXCEPT ![c] = Idle] /\ UNCHANGED <<clients, actors, lane>>
    BY <1>5, <2>1, <2>2, ConstantTasks DEF Settled, TypeOK, historyVars
  <2>3. CASE (\E s \in t.left : SettleNext(c, bound[c], s, t.left \ {s}))
             /\ UNCHANGED <<clients, actors>>
    <3>1. PICK s \in t.left : SettleNext(c, bound[c], s, t.left \ {s})
      BY <2>3
    <3>2. s \in Sids /\ t.left \ {s} \in SUBSET Sids
      BY <1>1 DEF Task
    <3>3. task' \in [Conns -> Task] /\ lane' \in [Conns -> Seq(Msg)]
      BY <3>1, <3>2, SettleNextType
    <3> QED BY <1>5, <2>1, <2>3, <3>3 DEF Settled, TypeOK, historyVars
  <2>4. CASE /\ task' = [task EXCEPT ![c] = Closed] /\ Leave(bound[c])
             /\ lane' = [lane EXCEPT ![c] = <<>>]
    <3>1. task' \in [Conns -> Task] /\ lane' \in [Conns -> Seq(Msg)]
      BY <2>4, ConstantTasks, EmptySeq DEF TypeOK
    <3> QED BY <1>5, <2>1, <2>4, <3>1 DEF Settled, Leave, TypeOK, historyVars
  <2> QED BY <1>5, <2>2, <2>3, <2>4 DEF Settled
<1> QED BY <1>2, <1>3, <1>4, <1>5

LEMMA TrafficType ==
    ASSUME TypeOK, NEW c \in Conns
    PROVE  /\ \A s \in Sids : Input(c, s) => TypeOK'
           /\ \A s \in Sids : \A type \in Relayed :
                Relay(c, s, type) \/ RelayAudited(c, s, type) => TypeOK'
           /\ Shapes /\ LookUp(c) => TypeOK'
           /\ Shapes /\ Send(c) => TypeOK'
<1>1. \A label \in {"relay", "send"} : \A s \in Sids : \A k \in Relayed :
            At(label, s, k) \in Task
  BY AtType DEF Labels, AnySid
<1>2. ASSUME NEW s \in Sids, Input(c, s) PROVE TypeOK'
  <2>1. At("relay", s, "keys") \in Task
    BY <1>1 DEF Relayed
  <2>2. inputs' \in [Sids -> Nat]
    BY <1>2 DEF Input, TypeOK
  <2> QED BY <1>2, <2>1, <2>2 DEF Input, TypeOK, hubVars, historyVars
<1>3. ASSUME NEW s \in Sids, NEW type \in Relayed, Relay(c, s, type) \/ RelayAudited(c, s, type)
      PROVE  TypeOK'
  <2>1. At("send", s, type) \in Task /\ At("relay", s, type) \in Task
    BY <1>1
  <2> QED BY <1>3, <2>1 DEF Relay, RelayAudited, TypeOK, hubVars, sessionVars, historyVars
<1>4. ASSUME Shapes, task[c].at \in {"relay", "send"}
      PROVE  task[c].sid \in Sids /\ task[c].kind \in Relayed
  BY <1>4 DEF Shapes, TaskShape, InSession
<1>5. ASSUME Shapes, LookUp(c) PROVE TypeOK'
  <2>1. At("send", task[c].sid, task[c].kind) \in Task
    BY <1>1, <1>4, <1>5 DEF LookUp
  <2> QED BY <1>5, <2>1, ConstantTasks DEF LookUp, TypeOK, hubVars, sessionVars, historyVars
<1>6. ASSUME Shapes, Send(c) PROVE TypeOK'
  <2>1. task[c].sid \in Sids /\ task[c].kind \in Relayed
    BY <1>4, <1>6 DEF Send
  <2>2. lane' \in [Conns -> Seq(Msg)]
    BY <1>6, <2>1, SendToType, NoteType DEF Send, MsgTypes, AnySid
  <2>3. forwarded' \in [Sids -> Nat]
    BY <1>6, <2>1 DEF Send, TypeOK
  <2>4. late' \in [Conns -> [Sids -> Nat]]
    BY <1>6, <2>1 DEF Send, TypeOK
  <2>5. task' \in [Conns -> Task]
    BY <1>6, ConstantTasks DEF Send, TypeOK
  <2> QED BY <1>6, <2>2, <2>3, <2>4, <2>5 DEF Send, TypeOK, hubVars
<1> QED BY <1>2, <1>3, <1>5, <1>6

LEMMA CrashType ==
    ASSUME TypeOK, Crash
    PROVE  TypeOK'
<1>1. lane' \in [Conns -> Seq(Msg)]
  BY EmptySeq DEF Crash
<1>2. crashes' \in 0..MaxCrashes
  BY HubAssumption DEF Crash, TypeOK, historyVars
<1> QED BY <1>1, <1>2, ConstantTasks DEF Crash, TypeOK, historyVars
----------------------------------------------------------------------------
(* The inductive invariant *)

Core ==
    /\ \A c \in Conns : TaskShape(c)
    /\ \A s \in Sids : Held(s)
    /\ SettledOnce /\ LiveUnsettled /\ InitiatorPresent /\ OneStraggler

\* What SettledOnce and OneStraggler, and what LiveUnsettled, say of one session.
Once(s) == /\ log[s]["disconnect"] <= 1 /\ log[s]["input"] <= 1
           /\ \A c \in Conns : late[c][s] <= 1
Unended(s) == rows[s] # "ended" /\ Ends(s) = 0 /\ log[s]["input"] = 0

----------------------------------------------------------------------------
(* What a step leaves alone *)

\* A task that does not move holds what it held.
LEMMA SameTask ==
    ASSUME NEW d, NEW q, task'[d] = task[d]
    PROVE  /\ Inserting(d, q)' <=> Inserting(d, q)
           /\ Settling(d, q)' <=> Settling(d, q)
           /\ Summarised(d, q)' <=> Summarised(d, q)
           /\ Found(d, q)' <=> Found(d, q)
           /\ Recording(d, q)' <=> Recording(d, q)
           /\ Sending(d, q)' <=> Sending(d, q)
BY DEF Inserting, Settling, Summarised, Found, Recording, Sending

\* Tasks that wait for a message, or are over, hold nothing.
LEMMA RestHoldsNothing ==
    ASSUME NEW c, task[c].at \in {"unbound", "idle", "refuse", "closed"},
           task[c].left = {}
    PROVE  \A q \in Sids : /\ ~Inserting(c, q) /\ ~Settling(c, q) /\ ~Summarised(c, q)
                           /\ ~Found(c, q) /\ ~Recording(c, q) /\ ~Sending(c, q)
BY DEF Inserting, Settling, Summarised, Found, Recording, Sending, Settlement

\* A session nobody takes, drops or writes about stays as it was held.
LEMMA OthersHeld ==
    ASSUME Core, NEW c \in Conns, NEW s \in Sids,
           \A d \in Conns : d # c => task'[d] = task[d],
           Inserting(c, s)' <=> Inserting(c, s), Settling(c, s)' <=> Settling(c, s),
           Summarised(c, s)' <=> Summarised(c, s), Found(c, s)' <=> Found(c, s),
           Recording(c, s)' <=> Recording(c, s), Sending(c, s)' <=> Sending(c, s),
           s \in live' <=> s \in live, meta'[s] = meta[s], rows'[s] = rows[s],
           log'[s] = log[s], \A d \in Conns : late'[d][s] = late[d][s]
    PROVE  Held(s)' /\ Once(s)'
<1>1. Held(s) /\ Once(s)
  BY DEF Core, SettledOnce, OneStraggler, Once
<1>2. \A d \in Conns :
        /\ Inserting(d, s)' <=> Inserting(d, s)
        /\ Settling(d, s)' <=> Settling(d, s)
        /\ Summarised(d, s)' <=> Summarised(d, s)
        /\ Found(d, s)' <=> Found(d, s)
        /\ Recording(d, s)' <=> Recording(d, s)
        /\ Sending(d, s)' <=> Sending(d, s)
  BY SameTask
<1>3. (Unheard(s)' <=> Unheard(s)) /\ (Fresh(s)' <=> Fresh(s))
  BY DEF Unheard, Ends, Fresh
<1>4. ASSUME NEW d \in Conns PROVE HeldBy(d, s)'
  <2>1. HeldBy(d, s)
    BY <1>1 DEF Held
  <2> QED BY <1>2, <1>3, <2>1, Zenon DEF HeldBy
<1>5. ASSUME NEW d \in Conns, NEW e \in Conns PROVE Apart(d, e, s)'
  <2>1. Apart(d, e, s)
    BY <1>1 DEF Held
  <2> QED BY <1>2, <2>1, Zenon DEF Apart
<1>6. Held(s)'
  BY <1>1, <1>3, <1>4, <1>5 DEF Held
<1> QED BY <1>1, <1>6 DEF Once

\* What holds of every session and every task makes the invariant.
LEMMA CoreFromParts ==
    ASSUME \A d \in Conns : TaskShape(d)', \A q \in Sids : Held(q)' /\ Once(q)',
           live' \subseteq Sids, \A q \in live' : Unended(q)', InitiatorPresent'
    PROVE  Core'
<1>1. SettledOnce' /\ OneStraggler'
  BY DEF SettledOnce, OneStraggler, Once
<1>2. LiveUnsettled'
  BY DEF LiveUnsettled, Unended
<1> QED BY <1>1, <1>2 DEF Core

\* A step that touches no session and moves one task from rest to rest.
LEMMA QuietStep ==
    ASSUME TypeOK, Core, NEW c \in Conns, NEW t \in Task,
           task' = [task EXCEPT ![c] = t],
           task[c].at \in {"unbound", "idle", "refuse"}, task[c].left = {},
           t.at \in {"idle", "refuse"}, t.left = {}, t.quit = FALSE,
           \A d \in Conns \ {c} : bound'[d] = bound[d],
           task[c].at # "unbound" => bound'[c] = bound[c],
           TaskShape(c)', UNCHANGED <<live, meta, rows, log, late>>
    PROVE  Core'
<1>1. task'[c] = t /\ \A d \in Conns : d # c => task'[d] = task[d]
  BY DEF TypeOK
<1>2. \A d \in Conns : TaskShape(d)'
  BY <1>1 DEF Core, TaskShape
<1>3. ASSUME NEW q \in Sids PROVE Held(q)' /\ Once(q)'
  <2>1. /\ ~Inserting(c, q)' /\ ~Settling(c, q)' /\ ~Summarised(c, q)'
        /\ ~Found(c, q)' /\ ~Recording(c, q)' /\ ~Sending(c, q)'
    BY <1>1 DEF Inserting, Settling, Summarised, Found, Recording, Sending, Settlement
  <2> QED BY <1>1, <2>1, RestHoldsNothing, OthersHeld
<1>4. \A q \in live : Unended(q)' /\ q \in Sids
  BY DEF Core, LiveUnsettled, Unended, Ends, TypeOK
<1>5. InitiatorPresent'
  <2>1. ASSUME NEW q \in live
        PROVE  \E d \in Conns : bound'[d] = meta[q].from /\ task'[d] # Closed /\ ~task'[d].quit
    <3>1. PICK d \in Conns : bound[d] = meta[q].from /\ task[d] # Closed /\ ~task[d].quit
      BY <2>1 DEF Core, InitiatorPresent
    <3>2. meta[q].from \in Ids
      BY <1>4, <2>1 DEF Core, Held, Unheard
    <3>3. task[d].at # "unbound"
      BY <3>1, <3>2, HubAssumption DEF Core, TaskShape
    <3>4. t # Closed
      BY DEF Closed, At
    <3> QED BY <1>1, <3>1, <3>3, <3>4
  <2> QED BY <2>1 DEF InitiatorPresent
<1> QED BY <1>2, <1>3, <1>4, <1>5, CoreFromParts

\* A step of c that concerns the session s alone: for the invariant it is enough
\* to look at s, at the shape of c's task, and at who initiated s.
LEMMA SessionStep ==
    ASSUME TypeOK, Core, NEW c \in Conns, NEW s \in Sids, NEW t \in Task,
           task' = [task EXCEPT ![c] = t], bound' = bound, t.left = task[c].left,
           task[c] = Idle \/ task[c].sid = s, t \in {Idle, Closed} \/ t.sid = s,
           TaskShape(c)', task[c].quit = FALSE => t # Closed /\ t.quit = FALSE,
           \A q \in Sids \ {s} :
               /\ q \in live' <=> q \in live
               /\ meta'[q] = meta[q] /\ rows'[q] = rows[q] /\ log'[q] = log[q]
               /\ \A d \in Conns : late'[d][q] = late[d][q],
           live' \subseteq Sids,
           \A d \in Conns \ {c} : Inserting(d, s) => meta'[s] = meta[s],
           Held(s)', Once(s)',
           s \in live' => /\ Unended(s)'
                          /\ \/ s \in live /\ meta'[s] = meta[s]
                             \/ bound[c] = meta'[s].from /\ t # Closed /\ t.quit = FALSE
    PROVE  Core'
<1>1. task'[c] = t /\ (\A d \in Conns : d # c => task'[d] = task[d]) /\ task[c] \in Task
  BY DEF TypeOK
<1>2. Idle.at = "idle" /\ Closed.at = "closed"
  BY DEF Idle, Closed, At
<1>3. \A d \in Conns : TaskShape(d)'
  <2>1. ASSUME NEW d \in Conns, d # c PROVE TaskShape(d)'
    <3>1. task'[d] = task[d] /\ bound'[d] = bound[d] /\ TaskShape(d)
      BY <1>1, <2>1 DEF Core
    <3>2. task[d].at = "insert" => meta'[task[d].sid].from = meta[task[d].sid].from
      BY <2>1, <3>1 DEF TaskShape, Inserting, InSession
    <3> QED BY <3>1, <3>2 DEF TaskShape
  <2> QED BY <2>1
<1>4. ASSUME NEW q \in Sids, q # s PROVE Held(q)' /\ Once(q)'
  <2>1. /\ Inserting(c, q)' <=> Inserting(c, q)
        /\ Settling(c, q)' <=> Settling(c, q)
        /\ Summarised(c, q)' <=> Summarised(c, q)
        /\ Found(c, q)' <=> Found(c, q)
        /\ Recording(c, q)' <=> Recording(c, q)
        /\ Sending(c, q)' <=> Sending(c, q)
    BY <1>1, <1>2, <1>4
       DEF Inserting, Settling, Summarised, Found, Recording, Sending, Settlement
  <2> QED BY <1>1, <1>4, <2>1, OthersHeld
<1>5. \A q \in live' : Unended(q)'
  <2>1. ASSUME NEW q \in live', q # s PROVE Unended(q)'
    BY <2>1 DEF Core, LiveUnsettled, Ends, Unended
  <2> QED BY <2>1
<1>6. InitiatorPresent'
  <2>1. ASSUME NEW q \in live', q \in live, meta'[q] = meta[q]
        PROVE  \E d \in Conns : bound'[d] = meta'[q].from /\ task'[d] # Closed /\ ~task'[d].quit
    <3>1. PICK d \in Conns : bound[d] = meta[q].from /\ task[d] # Closed /\ ~task[d].quit
      BY <2>1 DEF Core, InitiatorPresent
    <3>2. d = c => task[c].quit = FALSE
      BY <1>1, <3>1 DEF Task
    <3> QED BY <1>1, <3>1, <3>2
  <2> QED BY <1>1, <2>1 DEF InitiatorPresent
<1> QED BY <1>3, <1>4, <1>5, <1>6, CoreFromParts

----------------------------------------------------------------------------
(* The actions *)

LEMMA IdleFacts ==
    /\ Idle \in Task /\ Idle.at = "idle" /\ Idle.left = {} /\ Idle.quit = FALSE
    /\ Closed \in Task /\ Closed.at = "closed" /\ Closed.left = {} /\ Closed.quit = FALSE
    /\ Unbound.at = "unbound" /\ Unbound.left = {} /\ Unbound.quit = FALSE
    /\ Idle # Closed /\ Unbound # Closed
BY ConstantTasks DEF Idle, Closed, Unbound, At

\* What a task that is not cleaning up looks like.
LEMMA LoopShape ==
    ASSUME TypeOK, Core, NEW c \in Conns,
           task[c].at \in Labels \ ({"unbound", "closed"} \cup Settlement)
    PROVE  /\ task[c].quit = FALSE /\ task[c].left = {} /\ bound[c] \in Ids
           /\ task[c] # Closed /\ task[c].sid \in AnySid
           /\ task[c].at \in InSession => task[c].sid \in Sids
<1>1. TaskShape(c) /\ task[c] \in Task /\ task[c] # Closed
  BY IdleFacts DEF Core, TypeOK
<1> QED BY <1>1 DEF TaskShape, Task

\* Tasks that only bind, register or refuse.
LEMMA QuietActions ==
    ASSUME TypeOK, Core, NEW c \in Conns
    PROVE  /\ \A i \in Ids : Bind(c, i) => Core'
           /\ Register(c) => Core'
           /\ \A r \in RequestsOf(bound[c]) : Refuse(c, r) => Core'
           /\ Refused(c) => Core'
<1> USE DEF hubVars, sessionVars, historyVars
<1>1. ASSUME NEW i \in Ids, Bind(c, i) PROVE Core'
  <2>1. /\ task[c] = Unbound /\ task' = [task EXCEPT ![c] = Idle] /\ bound'[c] = i
        /\ \A d \in Conns \ {c} : bound'[d] = bound[d]
        /\ UNCHANGED <<live, meta, rows, log, late>>
    BY <1>1 DEF Bind, TypeOK
  <2>2. TaskShape(c)'
    BY <2>1 DEF TypeOK, TaskShape, Idle, Closed, Unbound, At, InSession, Settlement
  <2> QED BY <2>1, <2>2, IdleFacts, QuietStep
<1>2. ASSUME NEW t \in Task, t = Idle \/ t = At("refuse", NoSid, "none"),
             task[c].at \in {"idle", "refuse"}, task' = [task EXCEPT ![c] = t],
             UNCHANGED <<bound, live, meta, rows, log, late>>
      PROVE  Core'
  <2>1. /\ bound[c] \in Ids /\ task[c].left = {}
    BY <1>2, LoopShape DEF Labels, Settlement
  <2>2. t.at \in {"idle", "refuse"} /\ t.left = {} /\ t.quit = FALSE
    BY <1>2, IdleFacts DEF At
  <2>3. task'[c] = t /\ bound'[c] = bound[c]
    BY <1>2 DEF TypeOK
  <2>4. TaskShape(c)'
    BY <1>2, <2>1, <2>2, <2>3 DEF TaskShape, InSession, Settlement, Closed, At
  <2> QED BY <1>2, <2>1, <2>2, <2>4, QuietStep
<1>3. ASSUME Register(c) PROVE Core'
  <2>1. task[c] = Idle /\ task' = [task EXCEPT ![c] = Idle]
    BY <1>3 DEF Register, TypeOK
  <2> QED BY <1>2, <1>3, <2>1, IdleFacts DEF Register
<1>4. ASSUME NEW r \in RequestsOf(bound[c]), Refuse(c, r) PROVE Core'
  <2>1. At("refuse", NoSid, "none") \in Task
    BY AtType DEF Labels, AnySid, Events
  <2> QED BY <1>2, <1>4, <2>1, IdleFacts DEF Refuse
<1>5. ASSUME Refused(c) PROVE Core'
  BY <1>2, <1>5, IdleFacts DEF Refused
<1> QED BY <1>1, <1>3, <1>4, <1>5

\* A step that at most looks a session up in the table: what it goes on to answer
\* or to send was there.
LEMMA LookStep ==
    ASSUME TypeOK, Core, NEW c \in Conns, NEW s \in Sids, NEW t \in Task,
           task' = [task EXCEPT ![c] = t],
           task[c] = Idle \/ (task[c].at \in {"connect", "relay"} /\ task[c].sid = s),
           \/ t = Idle
           \/ t.at \in {"answer", "withdraw", "hangup", "relay", "send"} /\ t.sid = s,
           t.left = {}, t.quit = FALSE,
           t.at = "answer" => t.kind \in {"connect", "reject"},
           t.at \in {"relay", "send"} => t.kind \in Relayed,
           t.at \in {"answer", "withdraw", "send"} => s \in live,
           UNCHANGED <<bound, live, meta, rows, late>>,
           \A q \in Sids : q # s => log'[q] = log[q],
           \A k \in Kinds : k # "connect" => log'[s][k] = log[s][k]
    PROVE  Core'
<1>1. task'[c] = t /\ \A d \in Conns : d # c => task'[d] = task[d]
  BY DEF TypeOK
<1>2. task[c].at \in {"idle", "connect", "relay"} /\ t.at # "closed" /\ t # Closed
  BY IdleFacts
<1>3. task[c].left = {} /\ task[c].quit = FALSE /\ bound[c] \in Ids
  BY <1>2, LoopShape DEF Labels, Settlement
<1>4. TaskShape(c)'
  BY <1>1, <1>2, <1>3, IdleFacts DEF TaskShape, InSession, Settlement
<1>5. Held(s) /\ Once(s)
  BY DEF Core, SettledOnce, OneStraggler, Once
<1>6. /\ Ends(s)' = Ends(s) /\ log'[s]["input"] = log[s]["input"]
      /\ log'[s]["disconnect"] = log[s]["disconnect"]
  BY DEF Ends, Kinds
<1>7. (Unheard(s)' <=> Unheard(s)) /\ (Fresh(s)' <=> Fresh(s))
  BY <1>6 DEF Unheard, Fresh
<1>8. /\ ~Inserting(c, s)' /\ ~Settling(c, s)' /\ ~Summarised(c, s)' /\ ~Recording(c, s)'
      /\ Found(c, s)' \/ Sending(c, s)' => s \in live
  BY <1>1, IdleFacts
     DEF Inserting, Settling, Summarised, Found, Recording, Sending, Settlement
<1>9. s \in live => ~Fresh(s) /\ \A d \in Conns : ~Inserting(d, s) /\ ~Settling(d, s)
                                                  /\ late[d][s] = 0
  BY <1>5 DEF Held, HeldBy, Unheard
<1>10. Held(s)'
  <2>1. ASSUME NEW d \in Conns PROVE HeldBy(d, s)'
    <3>1. CASE d = c
      BY <1>7, <1>8, <1>9, <3>1 DEF HeldBy
    <3>2. CASE d # c
      <4>1. HeldBy(d, s)
        BY <1>5 DEF Held
      <4> QED BY <1>1, <1>6, <1>7, <3>2, <4>1, SameTask DEF HeldBy
    <3> QED BY <3>1, <3>2
  <2>2. ASSUME NEW d \in Conns, NEW e \in Conns PROVE Apart(d, e, s)'
    <3>1. \A x \in Conns : x # c => /\ Inserting(x, s)' <=> Inserting(x, s)
                                    /\ Settling(x, s)' <=> Settling(x, s)
                                    /\ Found(x, s)' <=> Found(x, s)
                                    /\ Sending(x, s)' <=> Sending(x, s)
      BY <1>1, SameTask
    <3>2. Apart(d, e, s)
      BY <1>5 DEF Held
    <3> QED BY <1>8, <1>9, <3>1, <3>2 DEF Apart
  <2> QED BY <1>5, <1>7, <2>1, <2>2 DEF Held
<1>11. Once(s)' /\ (s \in live' => Unended(s)')
  BY <1>5, <1>6 DEF Once, Unended, Core, LiveUnsettled
<1> QED BY <1>1, <1>2, <1>3, <1>4, <1>10, <1>11, SessionStep, IdleFacts DEF TypeOK

\* Handlers that look up, count or route, and the audit of a connect.
LEMMA LookActions ==
    ASSUME TypeOK, Core, NEW c \in Conns
    PROVE  /\ \A s \in Sids : \A ok \in BOOLEAN : AuthResult(c, s, ok) => Core'
           /\ \A a \in Agents : CancelRequest(c, a) => Core'
           /\ \A s \in Sids : SessionEnd(c, s) => Core'
           /\ \A s \in Sids : Input(c, s) => Core'
           /\ \A s \in Sids : \A type \in Relayed :
                Relay(c, s, type) \/ RelayAudited(c, s, type) => Core'
           /\ LookUp(c) => Core'
           /\ \A ok \in BOOLEAN : Connected(c, ok) => Core'
<1> USE DEF hubVars, sessionVars, historyVars
<1>1. ASSUME NEW s \in Sids, NEW label \in {"answer", "withdraw", "hangup", "relay", "send"},
             NEW k \in Kinds \cup Relayed, task' = [task EXCEPT ![c] = At(label, s, k)],
             task[c] = Idle \/ (task[c].at = "relay" /\ task[c].sid = s),
             label = "answer" => k \in {"connect", "reject"},
             label \in {"relay", "send"} => k \in Relayed,
             label \in {"answer", "withdraw", "send"} => s \in live,
             UNCHANGED <<bound, live, meta, rows, log, late>>
      PROVE  Core'
  <2>1. PICK t \in Task : /\ t = At(label, s, k) /\ t.at = label /\ t.sid = s
                          /\ t.kind = k /\ t.left = {} /\ t.quit = FALSE
    <3>1. At(label, s, k) \in Task
      BY AtType DEF Labels, AnySid, Events
    <3> QED BY <3>1 DEF At
  <2>2. task' = [task EXCEPT ![c] = t]
    BY <1>1, <2>1
  <2>3. /\ task[c] = Idle \/ (task[c].at \in {"connect", "relay"} /\ task[c].sid = s)
        /\ t.at = "answer" => t.kind \in {"connect", "reject"}
        /\ t.at \in {"relay", "send"} => t.kind \in Relayed
        /\ t.at \in {"answer", "withdraw", "send"} => s \in live
        /\ t.at \in {"answer", "withdraw", "hangup", "relay", "send"} /\ t.sid = s
    BY <1>1, <2>1
  <2>4. UNCHANGED <<bound, live, meta, rows, late, log>>
    BY <1>1
  <2> QED BY <2>1, <2>2, <2>3, <2>4, LookStep
<1>2. {"connect", "reject", "withdrawn", "disconnect"} \subseteq Kinds /\ "keys" \in Relayed
  BY DEF Kinds, Relayed
<1>3. ASSUME NEW s \in Sids, NEW ok \in BOOLEAN, AuthResult(c, s, ok) PROVE Core'
  BY <1>1, <1>2, <1>3 DEF AuthResult
<1>4. ASSUME NEW a \in Agents, CancelRequest(c, a) PROVE Core'
  BY <1>1, <1>2, <1>4 DEF CancelRequest, TypeOK
<1>5. ASSUME NEW s \in Sids, SessionEnd(c, s) PROVE Core'
  BY <1>1, <1>2, <1>5 DEF SessionEnd
<1>6. ASSUME NEW s \in Sids, Input(c, s) PROVE Core'
  BY <1>1, <1>2, <1>6 DEF Input
<1>7. ASSUME NEW s \in Sids, NEW type \in Relayed, Relay(c, s, type) \/ RelayAudited(c, s, type)
      PROVE  Core'
  BY <1>1, <1>7 DEF Relay, RelayAudited, Routable
<1>8. ASSUME LookUp(c) PROVE Core'
  <2>1. PICK s \in Sids : s = task[c].sid
    BY <1>8, LoopShape DEF LookUp, Labels, Settlement, InSession
  <2>2. task[c].kind \in Relayed
    BY <1>8 DEF LookUp, Core, TaskShape
  <2>3. CASE Routable(s, bound[c])
    BY <1>1, <1>8, <2>1, <2>2, <2>3 DEF LookUp, Routable
  <2>4. CASE ~Routable(s, bound[c])
    <3>1. task[c].at = "relay" /\ task' = [task EXCEPT ![c] = Idle]
          /\ UNCHANGED <<bound, live, meta, rows, log, late>>
      BY <1>8, <2>1, <2>4 DEF LookUp
    <3> QED BY <2>1, <3>1, IdleFacts, LookStep
  <2> QED BY <2>3, <2>4
<1>9. ASSUME NEW ok \in BOOLEAN, Connected(c, ok) PROVE Core'
  <2>1. PICK s \in Sids : s = task[c].sid
    BY <1>9, LoopShape DEF Connected, Labels, Settlement, InSession
  <2>2. task[c].at = "connect" /\ task' = [task EXCEPT ![c] = Idle]
        /\ UNCHANGED <<bound, live, meta, rows, late>>
    BY <1>9 DEF Connected
  <2>3. /\ \A q \in Sids : q # s => log'[q] = log[q]
        /\ \A k \in Kinds : k # "connect" => log'[s][k] = log[s][k]
    <3>1. "connect" \in Kinds
      BY DEF Kinds
    <3>2. CASE ok
      BY <1>9, <2>1, <3>1, <3>2, LoggedType DEF Connected
    <3>3. CASE ~ok
      BY <1>9, <3>3 DEF Connected
    <3> QED BY <3>2, <3>3
  <2> QED BY <2>1, <2>2, <2>3, IdleFacts, LookStep
<1> QED BY <1>3, <1>4, <1>5, <1>6, <1>7, <1>8, <1>9

\* The steps that open a session: building it, and entering it in the table.
LEMMA RequestAction ==
    ASSUME TypeOK, Core, NEW c \in Conns, NEW r \in RequestsOf(bound[c]), NEW s \in Sids,
           Request(c, r, s)
    PROVE  Core'
<1> DEFINE t == At("insert", s, "none")
<1>1. t \in Task /\ t.at = "insert" /\ t.left = {} /\ t.quit = FALSE /\ t.sid = s /\ t # Closed
  BY AtType, IdleFacts DEF Labels, AnySid, Events, At
<1>2. /\ task[c] = Idle /\ task' = [task EXCEPT ![c] = t] /\ Fresh(s)
      /\ task'[c] = t /\ \A d \in Conns : d # c => task'[d] = task[d]
      /\ UNCHANGED <<bound, live, rows, log, late>>
  BY DEF Request, TypeOK, hubVars, historyVars
<1> HIDE DEF t
<1>3. bound[c] \in Ids /\ r.to \in Agents
  <2>1. bound[c] \in Ids
    BY <1>2, IdleFacts DEF Core, TaskShape
  <2> QED BY <2>1 DEF RequestsOf, RequestsB
<1>4. /\ meta'[s].from = bound[c] /\ meta'[s].to = r.to
      /\ \A q \in Sids \ {s} : meta'[q] = meta[q]
  BY <1>3 DEF Request, TypeOK
<1>5. /\ \A d \in Conns : /\ ~Inserting(d, s) /\ ~Settling(d, s) /\ ~Found(d, s)
                          /\ ~Sending(d, s)
      /\ Unheard(s)
  BY <1>2 DEF Core, Held, HeldBy
<1>6. Unheard(s)' /\ Once(s)'
  BY <1>2, <1>5 DEF Unheard, Ends, Once, Core, SettledOnce, OneStraggler
<1>7. ~Fresh(s)'
  <2>1. meta'[s] # Unborn
    BY <1>3, <1>4, HubAssumption DEF Unborn
  <2> QED BY <2>1 DEF Fresh, Unborn
<1>8. \A d \in Conns : /\ d # c => ~Inserting(d, s)'
                       /\ ~Settling(d, s)' /\ ~Found(d, s)' /\ ~Recording(d, s)'
                       /\ ~Sending(d, s)'
  <2>1. ~Settling(c, s)' /\ ~Found(c, s)' /\ ~Recording(c, s)' /\ ~Sending(c, s)'
    BY <1>1, <1>2 DEF Settling, Found, Recording, Sending, Settlement
  <2>2. ASSUME NEW d \in Conns, d # c
        PROVE  /\ ~Inserting(d, s)' /\ ~Settling(d, s)' /\ ~Found(d, s)' /\ ~Recording(d, s)'
               /\ ~Sending(d, s)'
    <3>1. Recording(d, s) => Found(d, s)
      BY DEF Recording, Found
    <3> QED BY <1>2, <1>5, <2>2, <3>1, SameTask
  <2> QED BY <2>1, <2>2
<1>9. Held(s)'
  <2>1. \A d \in Conns : HeldBy(d, s)'
    BY <1>6, <1>7, <1>8 DEF HeldBy
  <2>2. \A d, e \in Conns : Apart(d, e, s)'
    BY <1>8 DEF Apart
  <2>3. meta'[s].from \in Ids /\ meta'[s].to \in Agents
    BY <1>3, <1>4
  <2> QED BY <1>6, <1>7, <2>1, <2>2, <2>3 DEF Held, Unheard
<1>10. TaskShape(c)'
  BY <1>1, <1>2, <1>3, <1>4 DEF TaskShape, InSession, Settlement
<1>11. s \notin live' /\ live' \subseteq Sids
  BY <1>6 DEF Unheard, TypeOK, Request
<1> QED BY <1>1, <1>2, <1>4, <1>5, <1>6, <1>9, <1>10, <1>11, IdleFacts, SessionStep

LEMMA InsertedAction ==
    ASSUME TypeOK, Core, NEW c \in Conns, NEW ok \in BOOLEAN, Inserted(c, ok)
    PROVE  Core'
<1>1. PICK s \in Sids : s = task[c].sid
  BY LoopShape DEF Inserted, Labels, Settlement, InSession
<1>2. /\ task[c].at = "insert" /\ bound[c] \in Ids /\ task[c] # Closed
      /\ task[c].left = {} /\ task[c].quit = FALSE
  BY LoopShape DEF Inserted, Labels, Settlement
<1>3. meta[s].from = bound[c] /\ Inserting(c, s)
  BY <1>1, <1>2 DEF Core, TaskShape, Inserting
<1>4. PICK t \in Task :
      /\ t = Idle \/ (t.at = "connect" /\ t.sid = s /\ t.left = {} /\ t.quit = FALSE)
      /\ task' = [task EXCEPT ![c] = t]
  <2> DEFINE u == At("connect", s, "connect")
  <2>1. u \in Task /\ u.at = "connect" /\ u.left = {} /\ u.quit = FALSE /\ u.sid = s
    BY AtType DEF At, Labels, AnySid, Events, Kinds
  <2> HIDE DEF u
  <2>2. task' = [task EXCEPT ![c] = u] \/ task' = [task EXCEPT ![c] = Idle]
    BY <1>1 DEF Inserted, u
  <2> QED BY <2>1, <2>2, IdleFacts
<1>5. /\ t.at \in {"idle", "connect"} /\ t.left = {} /\ t.quit = FALSE /\ t # Closed
      /\ t = Idle \/ t.sid = s
  BY <1>4, IdleFacts
<1>6. /\ live' = live \cup {s} /\ UNCHANGED <<bound, meta, log, late>>
      /\ rows'[s] \in {"active", rows[s]} /\ \A q \in Sids \ {s} : rows'[q] = rows[q]
  BY <1>1 DEF Inserted, hubVars, historyVars, TypeOK
<1>7. task'[c] = t /\ \A d \in Conns : d # c => task'[d] = task[d]
  BY <1>4 DEF TypeOK
<1>8. /\ Unheard(s) /\ ~Fresh(s)
      /\ \A d \in Conns : /\ d # c => ~Inserting(d, s)
                          /\ ~Settling(d, s) /\ ~Found(d, s) /\ ~Sending(d, s)
  BY <1>3 DEF Core, Held, HeldBy, Apart
<1>9. \A d \in Conns : /\ ~Inserting(d, s)' /\ ~Settling(d, s)' /\ ~Found(d, s)'
                       /\ ~Recording(d, s)' /\ ~Sending(d, s)'
  <2>1. /\ ~Inserting(c, s)' /\ ~Settling(c, s)' /\ ~Found(c, s)' /\ ~Recording(c, s)'
        /\ ~Sending(c, s)'
    BY <1>5, <1>7 DEF Inserting, Settling, Found, Recording, Sending, Settlement
  <2>2. ASSUME NEW d \in Conns, d # c
        PROVE  /\ ~Inserting(d, s)' /\ ~Settling(d, s)' /\ ~Found(d, s)' /\ ~Recording(d, s)'
               /\ ~Sending(d, s)'
    <3>1. Recording(d, s) => Found(d, s)
      BY DEF Recording, Found
    <3> QED BY <1>7, <1>8, <2>2, <3>1, SameTask
  <2> QED BY <2>1, <2>2
<1>10. Held(s)'
  <2>1. \A d \in Conns : HeldBy(d, s)'
    BY <1>9 DEF HeldBy
  <2>2. \A d, e \in Conns : Apart(d, e, s)'
    BY <1>9 DEF Apart
  <2>3. meta[s].from \in Ids /\ meta[s].to \in Agents
    BY <1>8 DEF Core, Held
  <2> QED BY <1>6, <1>8, <2>1, <2>2, <2>3 DEF Held, Unheard, Fresh
<1>11. TaskShape(c)'
  BY <1>1, <1>2, <1>4, <1>5, <1>6, <1>7, IdleFacts DEF TaskShape, InSession, Settlement
<1>12. Once(s)' /\ Unended(s)'
  BY <1>6, <1>8 DEF Once, Unended, Unheard, Ends, Core, SettledOnce, OneStraggler
<1>13. live' \subseteq Sids /\ \A q \in Sids \ {s} : q \in live' <=> q \in live
  BY <1>6 DEF TypeOK
<1> QED BY <1>1, <1>2, <1>3, <1>4, <1>5, <1>6, <1>10, <1>11, <1>12, <1>13, SessionStep

\* A step that acts on a session it looked up: at most it takes it out of the
\* table, and only the task that does settles it.
LEMMA DropStep ==
    ASSUME TypeOK, Core, NEW c \in Conns, NEW s \in Sids, NEW t \in Task,
           task' = [task EXCEPT ![c] = t], task[c].sid = s,
           task[c].at \in {"answer", "withdraw", "hangup"},
           t = Idle \/ (t.at \in {"audit", "input"} /\ t.sid = s),
           t.left = {}, t.quit = FALSE, live' \in {live, live \ {s}},
           t.at = "audit" => /\ task[c].at \in {"answer", "withdraw"}
                             /\ t.kind \in {"connect", "reject", "withdrawn"}
                             /\ t.kind # "connect" => live' = live \ {s},
           t.at = "input" => s \in live /\ live' = live \ {s},
           UNCHANGED <<bound, meta, rows, log, late>>
    PROVE  Core'
<1>1. task'[c] = t /\ \A d \in Conns : d # c => task'[d] = task[d]
  BY DEF TypeOK
<1>2. task[c].left = {} /\ task[c].quit = FALSE /\ bound[c] \in Ids
  BY LoopShape DEF Labels, Settlement
<1>3. t # Closed /\ t.at \notin {"unbound", "closed", "insert"}
  BY IdleFacts
<1>4. TaskShape(c)'
  BY <1>1, <1>2, <1>3, IdleFacts DEF TaskShape, InSession, Settlement
<1>5. Held(s) /\ Once(s)
  BY DEF Core, SettledOnce, OneStraggler, Once
<1>6. (Unheard(s) => Unheard(s)') /\ (Fresh(s)' <=> Fresh(s))
  BY DEF Unheard, Ends, Fresh
<1>7. /\ ~Inserting(c, s)' /\ ~Sending(c, s)'
      /\ Settling(c, s)' => s \in live /\ s \notin live'
      /\ Found(c, s)' => Found(c, s)
      /\ Recording(c, s)' => s \notin live'
  BY <1>1, <1>2, <1>3, IdleFacts DEF Inserting, Settling, Found, Recording, Sending, Settlement
<1>8. s \in live => /\ ~Fresh(s) /\ log[s]["input"] = 0 /\ log[s]["disconnect"] = 0
                    /\ \A d \in Conns : ~Inserting(d, s) /\ ~Settling(d, s)
  <2>1. ASSUME s \in live PROVE log[s]["disconnect"] = 0
    <3>1. {"reject", "withdrawn", "disconnect"} \subseteq Kinds
      BY DEF Kinds
    <3>2. log[s]["reject"] \in Nat /\ log[s]["withdrawn"] \in Nat /\ log[s]["disconnect"] \in Nat
      BY <3>1 DEF TypeOK
    <3> QED BY <2>1, <3>2 DEF Core, LiveUnsettled, Ends
  <2> QED BY <1>5, <2>1 DEF Held, HeldBy, Unheard, Core, LiveUnsettled
<1>9. Held(s)'
  <2>1. ASSUME NEW d \in Conns PROVE HeldBy(d, s)'
    <3>1. HeldBy(d, s)
      BY <1>5 DEF Held
    <3>2. CASE d = c
      BY <1>6, <1>7, <1>8, <3>1, <3>2 DEF HeldBy
    <3>3. CASE d # c
      BY <1>1, <1>6, <3>1, <3>3, SameTask DEF HeldBy
    <3> QED BY <3>2, <3>3
  <2>2. ASSUME NEW d \in Conns, NEW e \in Conns PROVE Apart(d, e, s)'
    <3>1. \A x \in Conns : x # c => /\ Inserting(x, s)' <=> Inserting(x, s)
                                    /\ Settling(x, s)' <=> Settling(x, s)
                                    /\ Found(x, s)' <=> Found(x, s)
                                    /\ Sending(x, s)' <=> Sending(x, s)
      BY <1>1, SameTask
    <3>2. Apart(d, e, s)
      BY <1>5 DEF Held
    <3> QED BY <1>7, <1>8, <3>1, <3>2 DEF Apart
  <2> QED BY <1>5, <1>6, <2>1, <2>2 DEF Held
<1>10. Once(s)' /\ (s \in live' => Unended(s)' /\ s \in live)
  BY <1>5 DEF Once, Unended, Core, LiveUnsettled, Ends
<1>11. live' \subseteq Sids /\ \A q \in Sids \ {s} : q \in live' <=> q \in live
  BY DEF TypeOK
<1>12. t \in {Idle, Closed} \/ t.sid = s
  OBVIOUS
<1> QED BY <1>1, <1>2, <1>3, <1>4, <1>9, <1>10, <1>11, <1>12, SessionStep

LEMMA DropActions ==
    ASSUME TypeOK, Core, NEW c \in Conns
    PROVE  Answered(c) \/ Withdrawn(c) \/ HangUp(c) => Core'
<1> USE DEF hubVars, historyVars
<1>1. ASSUME task[c].at \in {"answer", "withdraw", "hangup"} PROVE task[c].sid \in Sids
  BY <1>1, LoopShape DEF Labels, Settlement, InSession
<1>2. ASSUME NEW s \in Sids, NEW label \in {"audit", "input"}, NEW k \in Kinds
      PROVE  At(label, s, k) \in Task
  BY AtType DEF Labels, AnySid, Events
<1>3. {"connect", "reject", "withdrawn", "disconnect"} \subseteq Kinds
  BY DEF Kinds
<1>4. ASSUME Answered(c) PROVE Core'
  <2>1. PICK s \in Sids : s = task[c].sid
    BY <1>1, <1>4 DEF Answered
  <2>2. PICK k \in {"connect", "reject"} : k = task[c].kind
    BY <1>4 DEF Answered, Core, TaskShape
  <2>3. PICK t \in Task : /\ t = At("audit", s, k) /\ t.at = "audit" /\ t.sid = s
                          /\ t.kind = k /\ t.left = {} /\ t.quit = FALSE
    <3>1. At("audit", s, k) \in Task
      BY <1>2, <1>3
    <3> QED BY <3>1 DEF At
  <2>4. /\ task[c].at = "answer" /\ task' = [task EXCEPT ![c] = t]
        /\ live' = IF k = "reject" THEN live \ {s} ELSE live
        /\ UNCHANGED <<bound, meta, rows, log, late>>
    BY <1>4, <2>1, <2>2, <2>3 DEF Answered
  <2> QED BY <2>1, <2>3, <2>4, DropStep
<1>5. ASSUME Withdrawn(c) PROVE Core'
  <2>1. PICK s \in Sids : s = task[c].sid
    BY <1>1, <1>5 DEF Withdrawn
  <2>2. PICK t \in Task : /\ t = At("audit", s, "withdrawn") /\ t.at = "audit" /\ t.sid = s
                          /\ t.kind = "withdrawn" /\ t.left = {} /\ t.quit = FALSE
    <3>1. At("audit", s, "withdrawn") \in Task
      BY <1>2, <1>3
    <3> QED BY <3>1 DEF At
  <2>3. /\ task[c].at = "withdraw" /\ task' = [task EXCEPT ![c] = t]
        /\ live' = live \ {s} /\ UNCHANGED <<bound, meta, rows, log, late>>
    BY <1>5, <2>1, <2>2 DEF Withdrawn
  <2> QED BY <2>1, <2>2, <2>3, DropStep
<1>6. ASSUME HangUp(c) PROVE Core'
  <2>1. PICK s \in Sids : s = task[c].sid
    BY <1>1, <1>6 DEF HangUp
  <2>2. /\ task[c].at = "hangup" /\ live' = live \ {s}
        /\ UNCHANGED <<bound, meta, rows, log, late>>
    BY <1>6, <2>1 DEF HangUp
  <2>3. CASE s \in live
    <3>1. PICK t \in Task : /\ t = At("input", s, "disconnect") /\ t.at = "input" /\ t.sid = s
                            /\ t.kind = "disconnect" /\ t.left = {} /\ t.quit = FALSE
      <4>1. At("input", s, "disconnect") \in Task
        BY <1>2, <1>3
      <4> QED BY <4>1 DEF At
    <3>2. task' = [task EXCEPT ![c] = t]
      BY <1>6, <2>1, <2>3, <3>1 DEF HangUp
    <3> QED BY <2>1, <2>2, <2>3, <3>1, <3>2, DropStep
  <2>4. CASE s \notin live
    <3>1. task' = [task EXCEPT ![c] = Idle]
      BY <1>6, <2>1, <2>4 DEF HangUp
    <3> QED BY <2>1, <2>2, <3>1, IdleFacts, DropStep
  <2> QED BY <2>3, <2>4
<1> QED BY <1>4, <1>5, <1>6

\* The message that was being routed is sent; the session may be gone by then.
LEMMA SendAction ==
    ASSUME TypeOK, Core, NEW c \in Conns, Send(c)
    PROVE  Core'
<1>1. PICK s \in Sids : s = task[c].sid
  BY LoopShape DEF Send, Labels, Settlement, InSession
<1>2. /\ task[c].at = "send" /\ task' = [task EXCEPT ![c] = Idle]
      /\ task'[c] = Idle /\ \A d \in Conns : d # c => task'[d] = task[d]
      /\ UNCHANGED <<bound, live, meta, rows, log>>
  BY DEF Send, hubVars, TypeOK
<1>3. task[c].left = {} /\ task[c].quit = FALSE /\ bound[c] \in Ids
  BY <1>2, LoopShape DEF Labels, Settlement
<1>4. Sending(c, s)
  BY <1>1, <1>2 DEF Sending
<1>5. Held(s) /\ Once(s)
  BY DEF Core, SettledOnce, OneStraggler, Once
<1>6. ~Fresh(s) /\ late[c][s] = 0 /\ \A d \in Conns : ~Inserting(d, s)
  BY <1>4, <1>5 DEF Held, HeldBy, Apart
<1>7. /\ \A d \in Conns, q \in Sids : d # c \/ q # s => late'[d][q] = late[d][q]
      /\ late'[c][s] \in {0, 1}
      /\ s \in live => late'[c][s] = 0
  BY <1>1, <1>6 DEF Send, TypeOK
<1>8. \A q \in Sids : /\ ~Inserting(c, q)' /\ ~Settling(c, q)' /\ ~Found(c, q)'
                      /\ ~Recording(c, q)' /\ ~Sending(c, q)'
  BY <1>2, IdleFacts DEF Inserting, Settling, Found, Recording, Sending, Settlement
<1>9. Held(s)'
  <2>1. ASSUME NEW d \in Conns PROVE HeldBy(d, s)'
    <3>1. HeldBy(d, s)
      BY <1>5 DEF Held
    <3>2. CASE d = c
      BY <1>8, <3>2 DEF HeldBy
    <3>3. CASE d # c
      BY <1>2, <1>6, <1>7, <3>1, <3>3, SameTask DEF HeldBy, Fresh
    <3> QED BY <3>2, <3>3
  <2>2. ASSUME NEW d \in Conns, NEW e \in Conns PROVE Apart(d, e, s)'
    <3>1. Apart(d, e, s)
      BY <1>5 DEF Held
    <3> QED BY <1>2, <1>8, <3>1, SameTask DEF Apart
  <2> QED BY <1>2, <1>5, <1>6, <1>7, <2>1, <2>2 DEF Held, Fresh
<1>10. TaskShape(c)'
  BY <1>2, <1>3, IdleFacts DEF TaskShape, InSession, Settlement
<1>11. Once(s)' /\ (s \in live' => Unended(s)')
  <2>1. \A d \in Conns : late'[d][s] <= 1
    BY <1>5, <1>7 DEF Once
  <2> QED BY <1>2, <1>5, <2>1 DEF Once, Unended, Core, LiveUnsettled, Ends
<1>12. /\ \A q \in Sids \ {s} :
            /\ q \in live' <=> q \in live
            /\ meta'[q] = meta[q] /\ rows'[q] = rows[q] /\ log'[q] = log[q]
            /\ \A d \in Conns : late'[d][q] = late[d][q]
       /\ live' \subseteq Sids /\ meta'[s] = meta[s] /\ bound' = bound
       /\ s \in live' => s \in live
  BY <1>2, <1>7 DEF TypeOK
<1>13. /\ Idle.left = task[c].left /\ task[c].sid = s
       /\ Idle # Closed /\ Idle.quit = FALSE /\ Idle \in Task
  BY <1>1, <1>3, IdleFacts
<1> QED BY <1>2, <1>9, <1>10, <1>11, <1>12, <1>13, SessionStep

\* The last audit write about an answer or a withdrawal.
LEMMA AuditedAction ==
    ASSUME TypeOK, Core, NEW c \in Conns, NEW ok \in BOOLEAN, Audited(c, ok)
    PROVE  Core'
<1>1. PICK s \in Sids : s = task[c].sid
  BY LoopShape DEF Audited, Labels, Settlement, InSession
<1>2. /\ task[c].at = "audit" /\ task' = [task EXCEPT ![c] = Idle]
      /\ task'[c] = Idle /\ \A d \in Conns : d # c => task'[d] = task[d]
      /\ UNCHANGED <<bound, live, meta, rows, late>>
  BY DEF Audited, hubVars, historyVars, TypeOK
<1>3. /\ task[c].left = {} /\ task[c].quit = FALSE /\ bound[c] \in Ids
      /\ task[c].kind \in {"connect", "reject", "withdrawn"}
  BY <1>2, LoopShape DEF Labels, Settlement, Core, TaskShape
<1>4. Found(c, s) /\ (task[c].kind # "connect" => Recording(c, s))
  BY <1>1, <1>2 DEF Found, Recording
<1>5. Held(s) /\ Once(s)
  BY DEF Core, SettledOnce, OneStraggler, Once
<1>6. /\ ~Fresh(s) /\ \A d \in Conns : ~Inserting(d, s)
      /\ task[c].kind # "connect" => s \notin live
  BY <1>4, <1>5 DEF Held, HeldBy, Apart
<1>7. /\ \A q \in Sids \ {s} : log'[q] = log[q]
      /\ \A k \in Kinds : k # task[c].kind => log'[s][k] = log[s][k]
  <2>1. task[c].kind \in Kinds
    BY <1>3 DEF Kinds
  <2>2. CASE ok
    BY <1>1, <2>1, <2>2, LoggedType DEF Audited
  <2>3. CASE ~ok
    BY <2>3 DEF Audited
  <2> QED BY <2>2, <2>3
<1>8. /\ log'[s]["input"] = log[s]["input"] /\ log'[s]["disconnect"] = log[s]["disconnect"]
      /\ s \in live => Ends(s)' = Ends(s)
  BY <1>3, <1>6, <1>7 DEF Kinds, Ends
<1>9. Held(s)'
  <2>1. /\ ~Inserting(c, s)' /\ ~Settling(c, s)' /\ ~Found(c, s)' /\ ~Recording(c, s)'
        /\ ~Sending(c, s)'
    BY <1>2, IdleFacts DEF Inserting, Settling, Found, Recording, Sending, Settlement
  <2>2. ASSUME NEW d \in Conns PROVE HeldBy(d, s)'
    <3>1. HeldBy(d, s)
      BY <1>5 DEF Held
    <3>2. CASE d = c
      BY <2>1, <3>2 DEF HeldBy
    <3>3. CASE d # c
      BY <1>2, <1>6, <1>8, <3>1, <3>3, SameTask DEF HeldBy, Fresh
    <3> QED BY <3>2, <3>3
  <2>3. ASSUME NEW d \in Conns, NEW e \in Conns PROVE Apart(d, e, s)'
    <3>1. Apart(d, e, s)
      BY <1>5 DEF Held
    <3> QED BY <1>2, <2>1, <3>1, SameTask DEF Apart
  <2> QED BY <1>2, <1>5, <1>6, <2>2, <2>3 DEF Held, Fresh
<1>10. TaskShape(c)'
  BY <1>2, <1>3, IdleFacts DEF TaskShape, InSession, Settlement
<1>11. Once(s)' /\ (s \in live' => Unended(s)')
  BY <1>2, <1>5, <1>8 DEF Once, Unended, Core, LiveUnsettled
<1> QED BY <1>1, <1>2, <1>3, <1>7, <1>9, <1>10, <1>11, IdleFacts, SessionStep DEF TypeOK

\* What a task looks like while it settles a session.
LEMMA SettlingShape ==
    ASSUME TypeOK, Core, NEW c \in Conns, task[c].at \in Settlement
    PROVE  /\ task[c] \in Task /\ task[c].sid \in Sids /\ bound[c] \in Ids
           /\ task[c].sid \notin task[c].left /\ task[c].left \subseteq Sids
           /\ task[c].left # {} => task[c].quit = TRUE
           /\ task[c].quit \in BOOLEAN /\ task[c].left \in SUBSET Sids
<1>1. TaskShape(c) /\ task[c] \in Task /\ task[c] # Closed /\ task[c].at # "unbound"
  BY IdleFacts DEF Core, TypeOK, Settlement
<1> QED BY <1>1 DEF TaskShape, Task, InSession

\* The task that settles a session has it for itself, and writes its summary and
\* the status of its row.
LEMMA SettleWrite ==
    ASSUME TypeOK, Core, NEW c \in Conns, NEW s \in Sids, NEW t \in Task,
           task[c].at \in {"input", "row"}, task[c].sid = s,
           task' = [task EXCEPT ![c] = t], t.at \in {"row", "bye"}, t.sid = s,
           t.left = task[c].left, t.quit = task[c].quit,
           UNCHANGED <<bound, live, meta, late>>,
           \A q \in Sids \ {s} : log'[q] = log[q] /\ rows'[q] = rows[q],
           log'[s]["disconnect"] = log[s]["disconnect"],
           log'[s]["input"] \in {log[s]["input"], log[s]["input"] + 1},
           task[c].at = "row" => log'[s]["input"] = log[s]["input"]
    PROVE  Core'
<1>1. task'[c] = t /\ \A d \in Conns : d # c => task'[d] = task[d]
  BY DEF TypeOK
<1>2. /\ bound[c] \in Ids /\ s \notin t.left /\ t.left \subseteq Sids
      /\ t.left # {} => t.quit = TRUE
      /\ t.at \in Settlement /\ t # Closed
  BY SettlingShape, IdleFacts DEF Settlement
<1>3. Settling(c, s) /\ (task[c].at = "input" => ~Summarised(c, s))
  BY DEF Settling, Summarised, Settlement
<1>4. Held(s) /\ Once(s)
  BY DEF Core, SettledOnce, OneStraggler, Once
<1>5. /\ s \notin live /\ ~Fresh(s) /\ log[s]["disconnect"] = 0
      /\ task[c].at = "input" => log[s]["input"] = 0
      /\ \A d \in Conns : ~Inserting(d, s) /\ (d # c => ~Settling(d, s))
  BY <1>3, <1>4 DEF Held, HeldBy, Apart
<1>6. /\ ~Inserting(c, s)' /\ ~Found(c, s)' /\ ~Recording(c, s)' /\ ~Sending(c, s)'
      /\ Summarised(c, s)'
  BY <1>1 DEF Inserting, Found, Recording, Sending, Summarised
<1>7. Held(s)'
  <2>1. ASSUME NEW d \in Conns PROVE HeldBy(d, s)'
    <3>1. HeldBy(d, s)
      BY <1>4 DEF Held
    <3>2. CASE d = c
      BY <1>5, <1>6, <3>2 DEF HeldBy, Fresh
    <3>3. CASE d # c
      BY <1>1, <1>5, <3>1, <3>3, SameTask DEF HeldBy, Fresh
    <3> QED BY <3>2, <3>3
  <2>2. ASSUME NEW d \in Conns, NEW e \in Conns PROVE Apart(d, e, s)'
    <3>1. Apart(d, e, s)
      BY <1>4 DEF Held
    <3> QED BY <1>1, <1>5, <1>6, <3>1, SameTask DEF Apart
  <2> QED BY <1>4, <1>5, <2>1, <2>2 DEF Held, Fresh
<1>8. TaskShape(c)'
  BY <1>1, <1>2 DEF TaskShape, Settlement, InSession
<1>9. Once(s)'
  <2>1. log'[s]["input"] <= 1
    BY <1>4, <1>5 DEF Once
  <2> QED BY <1>4, <2>1 DEF Once
<1>10. live' \subseteq Sids /\ s \notin live'
  BY <1>5 DEF TypeOK
<1> QED BY <1>1, <1>2, <1>7, <1>8, <1>9, <1>10, SessionStep

LEMMA WriteActions ==
    ASSUME TypeOK, Core, NEW c \in Conns, NEW ok \in BOOLEAN
    PROVE  InputSummarised(c, ok) \/ RowSettled(c, ok) => Core'
<1> USE DEF hubVars, historyVars
<1>1. task[c] \in Task
  BY DEF TypeOK
<1>2. ASSUME NEW label \in {"row", "bye"}, task' = [task EXCEPT ![c].at = label]
      PROVE  \E t \in Task : /\ task' = [task EXCEPT ![c] = t] /\ t.at = label
                             /\ t.sid = task[c].sid /\ t.left = task[c].left
                             /\ t.quit = task[c].quit
  <2> DEFINE u == [task[c] EXCEPT !.at = label]
  <2>1. /\ u \in Task /\ u.at = label /\ u.sid = task[c].sid /\ u.left = task[c].left
        /\ u.quit = task[c].quit
    BY <1>1 DEF Task, Labels
  <2>2. task' = [task EXCEPT ![c] = u]
    BY <1>2 DEF TypeOK
  <2> HIDE DEF u
  <2> QED BY <2>1, <2>2
<1>3. ASSUME InputSummarised(c, ok) PROVE Core'
  <2>1. PICK s \in Sids : s = task[c].sid
    BY <1>3, SettlingShape DEF InputSummarised, Settlement
  <2>2. PICK t \in Task : /\ task' = [task EXCEPT ![c] = t] /\ t.at = "row"
                          /\ t.sid = task[c].sid /\ t.left = task[c].left
                          /\ t.quit = task[c].quit
    BY <1>2, <1>3 DEF InputSummarised
  <2>3. /\ \A q \in Sids \ {s} : log'[q] = log[q]
        /\ log'[s]["disconnect"] = log[s]["disconnect"]
        /\ log'[s]["input"] \in {log[s]["input"], log[s]["input"] + 1}
    <3>1. "input" \in Kinds /\ "disconnect" \in Kinds
      BY DEF Kinds
    <3>2. CASE ok
      <4>1. log' = Logged(s, "input")
        BY <1>3, <2>1, <3>2 DEF InputSummarised
      <4> QED BY <3>1, <4>1, LoggedType
    <3>3. CASE ~ok
      BY <1>3, <3>3 DEF InputSummarised
    <3> QED BY <3>2, <3>3
  <2>4. task[c].at = "input" /\ UNCHANGED <<bound, live, meta, rows, late>>
    BY <1>3 DEF InputSummarised
  <2> QED BY <2>1, <2>2, <2>3, <2>4, SettleWrite
<1>4. ASSUME RowSettled(c, ok) PROVE Core'
  <2>1. PICK s \in Sids : s = task[c].sid
    BY <1>4, SettlingShape DEF RowSettled, Settlement
  <2>2. PICK t \in Task : /\ task' = [task EXCEPT ![c] = t] /\ t.at = "bye"
                          /\ t.sid = task[c].sid /\ t.left = task[c].left
                          /\ t.quit = task[c].quit
    BY <1>2, <1>4 DEF RowSettled
  <2>3. /\ task[c].at = "row" /\ UNCHANGED <<bound, live, meta, log, late>>
        /\ \A q \in Sids \ {s} : rows'[q] = rows[q]
    BY <1>4, <2>1 DEF RowSettled, TypeOK
  <2> QED BY <2>1, <2>2, <2>3, SettleWrite
<1> QED BY <1>3, <1>4

----------------------------------------------------------------------------
(* The clean-up of a connection *)

\* The sessions a clean-up still has to settle.
InHand(t) == t.left \cup {t.sid}

\* A step of c that hands its task the sessions of InHand(t), taken from the table
\* or already held by c: a connection being closed moving to its next session.
LEMMA QuitStep ==
    ASSUME TypeOK, Core, NEW c \in Conns, NEW t \in Task,
           task' = [task EXCEPT ![c] = t], UNCHANGED <<bound, meta, rows, late>>,
           task[c].at \in {"unbound", "idle", "bye"},
           t.at = "input", t.quit = TRUE, t.sid \notin t.left, InHand(t) \subseteq Sids,
           bound[c] \in Ids, live' = live \ InHand(t),
           \A q \in InHand(t) : q \in live \/ q \in task[c].left,
           \A q \in Sids : \/ log'[q] = log[q]
                           \/ /\ Settling(c, q) /\ q \notin InHand(t)
                              /\ log'[q]["input"] = log[q]["input"]
                              /\ log'[q]["disconnect"] <= 1,
           \A q \in live' : bound[c] = meta[q].from => task[c].quit = TRUE
    PROVE  Core'
<1> DEFINE A == InHand(t)
<1>0. A = t.left \cup {t.sid} /\ A \subseteq Sids
  BY DEF InHand
<1>1. task'[c] = t /\ \A d \in Conns : d # c => task'[d] = task[d]
  BY DEF TypeOK
<1>2. \A d \in Conns : TaskShape(d)'
  <2>1. TaskShape(c)'
    BY <1>0, <1>1, IdleFacts DEF TaskShape, Settlement, InSession
  <2>2. ASSUME NEW d \in Conns, d # c PROVE TaskShape(d)'
    BY <1>1, <2>2 DEF Core, TaskShape
  <2> QED BY <2>1, <2>2
<1>3. \A q \in Sids :
        /\ ~Inserting(c, q)' /\ ~Found(c, q)' /\ ~Recording(c, q)' /\ ~Sending(c, q)'
        /\ ~Summarised(c, q)' /\ (Settling(c, q)' <=> q \in A)
        /\ ~Inserting(c, q)
  BY <1>0, <1>1
     DEF Inserting, Settling, Summarised, Found, Recording, Sending, Settlement
<1>4. ASSUME NEW q \in Sids PROVE Held(q)' /\ Once(q)'
  <2>1. Held(q) /\ Once(q)
    BY DEF Core, SettledOnce, OneStraggler, Once
  <2>2. q \in task[c].left => Settling(c, q) /\ ~Summarised(c, q)
    <3>1. ASSUME q \in task[c].left PROVE task[c].sid # q
      BY <3>1 DEF Core, TaskShape
    <3> QED BY <3>1 DEF Settling, Summarised
  <2>3. q \in A => /\ ~Fresh(q) /\ log[q]["disconnect"] = 0 /\ log[q]["input"] = 0
                   /\ \A d \in Conns : ~Inserting(d, q) /\ (d # c => ~Settling(d, q))
    <3>1. CASE q \in live
      <4>1. log[q]["reject"] \in Nat /\ log[q]["withdrawn"] \in Nat /\ log[q]["disconnect"] \in Nat
        <5>1. {"reject", "withdrawn", "disconnect"} \subseteq Kinds
          BY DEF Kinds
        <5> QED BY <5>1 DEF TypeOK
      <4>2. log[q]["disconnect"] = 0 /\ log[q]["input"] = 0
        BY <3>1, <4>1 DEF Core, LiveUnsettled, Ends
      <4> QED BY <2>1, <3>1, <4>2 DEF Held, HeldBy, Unheard
    <3>2. CASE q \in task[c].left
      BY <2>1, <2>2, <3>2 DEF Held, HeldBy, Apart
    <3> QED BY <3>1, <3>2
  <2>4. Fresh(q)' <=> Fresh(q)
    BY DEF Fresh
  <2>5. Unheard(q) /\ log'[q] = log[q] => Unheard(q)'
    BY DEF Unheard, Ends
  <2>6. Settling(c, q) => /\ ~Fresh(q)
                          /\ \A d \in Conns : ~Inserting(d, q) /\ (d # c => ~Settling(d, q))
    BY <2>1 DEF Held, HeldBy, Apart
  <2>7. ASSUME NEW d \in Conns PROVE HeldBy(d, q)'
    <3>1. HeldBy(d, q)
      BY <2>1 DEF Held
    <3>2. CASE d = c
      <4>1. q \in A => log'[q] = log[q] /\ q \notin live'
        OBVIOUS
      <4> QED BY <1>3, <2>3, <2>4, <3>2, <4>1 DEF HeldBy
    <3>3. CASE d # c
      <4>1. /\ Inserting(d, q)' <=> Inserting(d, q)
            /\ Settling(d, q)' <=> Settling(d, q)
            /\ Summarised(d, q)' <=> Summarised(d, q)
            /\ Found(d, q)' <=> Found(d, q)
            /\ Recording(d, q)' <=> Recording(d, q)
            /\ Sending(d, q)' <=> Sending(d, q)
        BY <1>1, <3>3, SameTask
      <4>2. Settling(d, q) => log'[q] = log[q]
        BY <2>6, <3>3
      <4>3. Inserting(d, q) => log'[q] = log[q]
        BY <2>6
      <4>4. q \in live' => q \in live
        OBVIOUS
      <4> QED BY <2>4, <2>5, <3>1, <4>1, <4>2, <4>3, <4>4 DEF HeldBy
    <3> QED BY <3>2, <3>3
  <2>8. ASSUME NEW d \in Conns, NEW e \in Conns PROVE Apart(d, e, q)'
    <3>1. Apart(d, e, q)
      BY <2>1 DEF Held
    <3>2. \A x \in Conns : x # c => /\ Inserting(x, q)' <=> Inserting(x, q)
                                    /\ Settling(x, q)' <=> Settling(x, q)
                                    /\ Found(x, q)' <=> Found(x, q)
                                    /\ Sending(x, q)' <=> Sending(x, q)
      BY <1>1, SameTask
    <3> QED BY <1>3, <2>3, <3>1, <3>2 DEF Apart
  <2>9. Fresh(q) => log'[q] = log[q]
    BY <2>6
  <2>10. Held(q)'
    BY <2>1, <2>4, <2>5, <2>7, <2>8, <2>9 DEF Held
  <2>11. Once(q)'
    BY <2>1 DEF Once
  <2> QED BY <2>10, <2>11
<1>5. ASSUME NEW q \in live' PROVE Unended(q)'
  <2>1. q \in live /\ q \in Sids
    BY <1>5 DEF TypeOK
  <2>2. log'[q] = log[q]
    BY <2>1 DEF Core, Held, HeldBy
  <2> QED BY <2>1, <2>2 DEF Core, LiveUnsettled, Unended, Ends
<1>6. InitiatorPresent'
  <2>1. ASSUME NEW q \in live'
        PROVE  \E d \in Conns : bound'[d] = meta'[q].from /\ task'[d] # Closed /\ ~task'[d].quit
    <3>1. PICK d \in Conns : bound[d] = meta[q].from /\ task[d] # Closed /\ ~task[d].quit
      BY <2>1 DEF Core, InitiatorPresent
    <3> QED BY <1>1, <2>1, <3>1
  <2> QED BY <2>1 DEF InitiatorPresent
<1>7. live' \subseteq Sids
  BY DEF TypeOK
<1> QED BY <1>2, <1>4, <1>5, <1>6, <1>7, CoreFromParts

\* The record SettleNext gives the task: n is settled, the rest of A is left.
HandOver(n, A) ==
    [At("input", n, "disconnect") EXCEPT !.left = A \ {n}, !.quit = TRUE]

LEMMA HandOverTask ==
    ASSUME NEW n \in Sids, NEW A \in SUBSET Sids, n \in A
    PROVE  /\ HandOver(n, A) \in Task /\ HandOver(n, A).at = "input"
           /\ HandOver(n, A).quit = TRUE /\ HandOver(n, A).sid \notin HandOver(n, A).left
           /\ InHand(HandOver(n, A)) = A
BY DEF HandOver, Task, At, Labels, AnySid, Events, Kinds, InHand

\* The last write about a session, and what follows it: the loop again, the next
\* session of a closing connection, or the end of the task.
LEMMA SettledAction ==
    ASSUME TypeOK, Core, NEW c \in Conns, NEW ok \in BOOLEAN, Settled(c, ok)
    PROVE  Core'
<1>1. task[c].at = "bye" /\ UNCHANGED <<bound, live, meta, rows, late>>
  BY DEF Settled, historyVars
<1>2. /\ task[c] \in Task /\ task[c].sid \in Sids /\ bound[c] \in Ids
      /\ task[c].sid \notin task[c].left /\ task[c].left \in SUBSET Sids
      /\ task[c].left # {} => task[c].quit = TRUE
      /\ task[c].quit \in BOOLEAN
  BY <1>1, SettlingShape DEF Settlement
<1>3. PICK s \in Sids : s = task[c].sid
  BY <1>2
<1>4. Settling(c, s) /\ s \notin task[c].left
  BY <1>1, <1>2, <1>3 DEF Settling, Settlement
<1>5. Held(s) /\ Once(s)
  BY DEF Core, SettledOnce, OneStraggler, Once
<1>6. /\ s \notin live /\ ~Fresh(s) /\ log[s]["disconnect"] = 0
      /\ \A d \in Conns : ~Inserting(d, s) /\ (d # c => ~Settling(d, s))
  BY <1>4, <1>5 DEF Held, HeldBy, Apart
<1>7. /\ \A q \in Sids \ {s} : log'[q] = log[q]
      /\ log'[s]["input"] = log[s]["input"] /\ log'[s]["disconnect"] <= 1
  <2>1. "input" \in Kinds /\ "disconnect" \in Kinds
    BY DEF Kinds
  <2>2. CASE ok
    <3>1. log' = Logged(s, "disconnect")
      BY <1>3, <2>2 DEF Settled
    <3> QED BY <1>6, <2>1, <3>1, LoggedType
  <2>3. CASE ~ok
    BY <1>6, <2>3 DEF Settled
  <2> QED BY <2>2, <2>3
<1>8. ASSUME NEW t \in {Idle, Closed}, task' = [task EXCEPT ![c] = t], task[c].left = {},
             t = Idle \/ task[c].quit = TRUE
      PROVE  Core'
  <2>1. t \in Task /\ t.at \in {"idle", "closed"} /\ t.left = {} /\ t.quit = FALSE
    BY IdleFacts
  <2>2. task'[c] = t /\ \A d \in Conns : d # c => task'[d] = task[d]
    BY <1>8, <2>1 DEF TypeOK
  <2>3. /\ ~Inserting(c, s)' /\ ~Settling(c, s)' /\ ~Found(c, s)' /\ ~Recording(c, s)'
        /\ ~Sending(c, s)'
    BY <2>1, <2>2 DEF Inserting, Settling, Found, Recording, Sending, Settlement
  <2>4. Held(s)'
    <3>1. ASSUME NEW d \in Conns PROVE HeldBy(d, s)'
      <4>1. HeldBy(d, s)
        BY <1>5 DEF Held
      <4>2. CASE d = c
        BY <2>3, <4>2 DEF HeldBy
      <4>3. CASE d # c
        BY <1>1, <1>6, <2>2, <4>1, <4>3, SameTask DEF HeldBy, Fresh
      <4> QED BY <4>2, <4>3
    <3>2. ASSUME NEW d \in Conns, NEW e \in Conns PROVE Apart(d, e, s)'
      <4>1. Apart(d, e, s)
        BY <1>5 DEF Held
      <4> QED BY <1>6, <2>2, <2>3, <4>1, SameTask DEF Apart
    <3> QED BY <1>1, <1>5, <1>6, <3>1, <3>2 DEF Held, Fresh
  <2>5. TaskShape(c)'
    BY <1>1, <1>2, <1>8, <2>1, <2>2, IdleFacts DEF TaskShape, Settlement, InSession
  <2>6. Once(s)' /\ s \notin live' /\ live' \subseteq Sids
    BY <1>1, <1>5, <1>6, <1>7 DEF Once, TypeOK
  <2>7. task[c].quit = FALSE => t # Closed /\ t.quit = FALSE
    BY <1>8, <2>1, IdleFacts
  <2>8. bound' = bound /\ t.left = task[c].left
        /\ \A q \in Sids \ {s} :
             /\ q \in live' <=> q \in live
             /\ meta'[q] = meta[q] /\ rows'[q] = rows[q] /\ log'[q] = log[q]
             /\ \A d \in Conns : late'[d][q] = late[d][q]
    BY <1>1, <1>7, <1>8, <2>1
  <2>9. meta' = meta
    BY <1>1
  <2> QED BY <1>3, <1>8, <2>1, <2>4, <2>5, <2>6, <2>7, <2>8, <2>9, SessionStep
<1>9. CASE task[c].quit = FALSE /\ task' = [task EXCEPT ![c] = Idle]
  BY <1>2, <1>8, <1>9
<1>10. CASE task[c].quit = TRUE /\ task[c].left = {} /\ task' = [task EXCEPT ![c] = Closed]
  BY <1>8, <1>10
<1>11. ASSUME NEW n \in task[c].left, SettleNext(c, bound[c], n, task[c].left \ {n})
       PROVE  Core'
  <2>1. PICK A \in SUBSET Sids : A = task[c].left
    BY <1>2
  <2>2. n \in A /\ n \in Sids /\ SettleNext(c, bound[c], n, A \ {n})
    BY <1>11, <2>1
  <2>3. PICK t \in Task : /\ task' = [task EXCEPT ![c] = t] /\ t.at = "input" /\ t.quit = TRUE
                          /\ t.sid \notin t.left /\ InHand(t) = A
    <3>1. task' = [task EXCEPT ![c] = HandOver(n, A)]
      BY <2>2 DEF SettleNext, HandOver
    <3> QED BY <2>2, <3>1, HandOverTask
  <2>4. task[c].quit = TRUE /\ s \notin A
    BY <1>2, <1>4, <2>1, <2>2
  <2>5. live' = live \ A
    <3>1. \A q \in A : q \notin live
      BY <2>1 DEF Core, Held, HeldBy, Settling
    <3> QED BY <1>1, <3>1
  <2>6. \A q \in Sids : \/ log'[q] = log[q]
                        \/ /\ Settling(c, q) /\ q \notin A
                           /\ log'[q]["input"] = log[q]["input"]
                           /\ log'[q]["disconnect"] <= 1
    BY <1>4, <1>7, <2>4
  <2> QED BY <1>1, <1>2, <2>1, <2>3, <2>4, <2>5, <2>6, QuitStep
<1> QED BY <1>2, <1>9, <1>10, <1>11 DEF Settled

\* Leaving the loop takes every session of the id out of the table at once.
LEMMA CloseAction ==
    ASSUME TypeOK, Core, NEW c \in Conns, Close(c)
    PROVE  Core'
<1> DEFINE mine == {s \in live : bound[c] \in PartyOf(s)}
<1>1. /\ task[c] \in {Unbound, Idle} /\ live' = live \ mine
      /\ UNCHANGED <<bound, meta, rows, log, late>>
  BY DEF Close, historyVars
<1>2. task[c].at \in {"unbound", "idle"} /\ task[c].left = {} /\ task[c].quit = FALSE
  BY <1>1, IdleFacts
<1>3. \A q \in live : meta[q].from \in Ids /\ meta[q].to \in Ids /\ q \in Sids
  BY DEF Core, Held, Unheard, TypeOK, Ids
<1>4. ASSUME mine = {}, task' = [task EXCEPT ![c] = Closed] PROVE Core'
  <2>1. /\ task'[c] = Closed /\ \A d \in Conns : d # c => task'[d] = task[d]
        /\ live' = live
    BY <1>1, <1>4, IdleFacts DEF TypeOK
  <2>2. \A d \in Conns : TaskShape(d)'
    <3>1. TaskShape(c)'
      BY <2>1, IdleFacts DEF TaskShape, Settlement, InSession
    <3>2. ASSUME NEW d \in Conns, d # c PROVE TaskShape(d)'
      BY <1>1, <2>1, <3>2 DEF Core, TaskShape
    <3> QED BY <3>1, <3>2
  <2>3. ASSUME NEW q \in Sids PROVE Held(q)' /\ Once(q)'
    <3>1. /\ ~Inserting(c, q)' /\ ~Settling(c, q)' /\ ~Summarised(c, q)'
          /\ ~Found(c, q)' /\ ~Recording(c, q)' /\ ~Sending(c, q)'
      BY <2>1, IdleFacts
         DEF Inserting, Settling, Summarised, Found, Recording, Sending, Settlement
    <3>2. /\ ~Inserting(c, q) /\ ~Settling(c, q) /\ ~Summarised(c, q)
          /\ ~Found(c, q) /\ ~Recording(c, q) /\ ~Sending(c, q)
      BY <1>2, RestHoldsNothing
    <3> QED BY <1>1, <2>1, <3>1, <3>2, OthersHeld
  <2>4. \A q \in live' : Unended(q)'
    BY <1>1, <2>1 DEF Core, LiveUnsettled, Unended, Ends
  <2>5. InitiatorPresent'
    <3>1. ASSUME NEW q \in live
          PROVE  \E d \in Conns : bound'[d] = meta'[q].from /\ task'[d] # Closed /\ ~task'[d].quit
      <4>1. PICK d \in Conns : bound[d] = meta[q].from /\ task[d] # Closed /\ ~task[d].quit
        BY <3>1 DEF Core, InitiatorPresent
      <4>2. d # c
        BY <1>4, <3>1, <4>1 DEF PartyOf
      <4> QED BY <1>1, <2>1, <4>1, <4>2
    <3> QED BY <2>1, <3>1 DEF InitiatorPresent
  <2>6. live' \subseteq Sids
    BY <2>1 DEF TypeOK
  <2> QED BY <2>2, <2>3, <2>4, <2>5, <2>6, CoreFromParts
<1>5. ASSUME NEW n \in mine, SettleNext(c, bound[c], n, mine \ {n}) PROVE Core'
  <2>1. PICK A \in SUBSET Sids : A = mine
    BY <1>3
  <2>2. n \in A /\ n \in Sids /\ SettleNext(c, bound[c], n, A \ {n})
    BY <1>5, <2>1
  <2>3. PICK t \in Task : /\ task' = [task EXCEPT ![c] = t] /\ t.at = "input" /\ t.quit = TRUE
                          /\ t.sid \notin t.left /\ InHand(t) = A
    <3>1. task' = [task EXCEPT ![c] = HandOver(n, A)]
      BY <2>2 DEF SettleNext, HandOver
    <3> QED BY <2>2, <3>1, HandOverTask
  <2>4. bound[c] \in Ids
    BY <1>3 DEF PartyOf
  <2>5. live' = live \ A /\ \A q \in A : q \in live
    BY <1>1, <2>1
  <2>6. \A q \in live' : bound[c] # meta[q].from
    BY <1>1 DEF PartyOf
  <2>7. \A q \in Sids : log'[q] = log[q]
    BY <1>1
  <2> QED BY <1>1, <1>2, <2>3, <2>4, <2>5, <2>6, <2>7, QuitStep
<1> QED BY <1>1, <1>4, <1>5 DEF Close

\* A crash empties the table and every task; what is written stays.
LEMMA CrashAction ==
    ASSUME TypeOK, Core, Crash
    PROVE  Core'
<1>1. /\ \A c \in Conns : task'[c] = IF task[c] = Unbound THEN Unbound ELSE Closed
      /\ live' = {} /\ UNCHANGED <<bound, meta, rows, log, late>>
  BY DEF Crash, historyVars
<1>2. \A c \in Conns : TaskShape(c)'
  BY <1>1, IdleFacts DEF Core, TaskShape, Settlement, InSession
<1>3. \A c \in Conns, s \in Sids :
         /\ ~Inserting(c, s)' /\ ~Settling(c, s)' /\ ~Found(c, s)' /\ ~Recording(c, s)'
         /\ ~Sending(c, s)'
  BY <1>1, IdleFacts DEF Inserting, Settling, Found, Recording, Sending, Settlement
<1>4. ASSUME NEW s \in Sids PROVE Held(s)' /\ Once(s)'
  <2>1. Held(s) /\ Once(s)
    BY DEF Core, SettledOnce, OneStraggler, Once
  <2>2. (Fresh(s)' <=> Fresh(s)) /\ (Unheard(s) => Unheard(s)')
    BY <1>1 DEF Fresh, Unheard, Ends
  <2>3. (\A c \in Conns : HeldBy(c, s)') /\ (\A c, d \in Conns : Apart(c, d, s)')
    BY <1>3 DEF HeldBy, Apart
  <2> QED BY <1>1, <2>1, <2>2, <2>3 DEF Held, Once
<1>5. InitiatorPresent' /\ live' \subseteq Sids /\ \A q \in live' : Unended(q)'
  BY <1>1 DEF InitiatorPresent
<1> QED BY <1>2, <1>4, <1>5, CoreFromParts

----------------------------------------------------------------------------
(* The theorems *)

\* The hub starts with no connection, no session and nothing recorded.
LEMMA InitInvariant == Init => IInv
<1> SUFFICES ASSUME Init PROVE IInv
  OBVIOUS
<1>1. \A c \in Conns : task[c] = Unbound /\ bound[c] = NoId
  BY DEF Init
<1>2. \A c \in Conns : TaskShape(c)
  BY <1>1, IdleFacts DEF TaskShape, Settlement, InSession
<1>3. \A c \in Conns, s \in Sids : /\ ~Inserting(c, s) /\ ~Settling(c, s) /\ ~Found(c, s)
                                   /\ ~Recording(c, s) /\ ~Sending(c, s)
  BY <1>1, IdleFacts DEF Inserting, Settling, Found, Recording, Sending, Settlement
<1>4. \A s \in Sids : \A k \in Kinds : log[s][k] = 0
  BY DEF Init
<1>5. \A s \in Sids : Fresh(s) /\ Unheard(s) /\ rows[s] = "absent" /\ Once(s)
  BY <1>4 DEF Init, Fresh, Unheard, Ends, Kinds, Once
<1>6. \A s \in Sids : Held(s)
  BY <1>3, <1>5 DEF Held, HeldBy, Apart, Unheard
<1>7. SettledOnce /\ OneStraggler /\ LiveUnsettled /\ InitiatorPresent
  BY <1>5 DEF Init, SettledOnce, OneStraggler, Once, LiveUnsettled, InitiatorPresent
<1> QED BY <1>2, <1>6, <1>7, InitType DEF IInv

LEMMA StutterStep == IInv /\ UNCHANGED vars => IInv'
<1> SUFFICES ASSUME IInv, UNCHANGED vars PROVE IInv'
  OBVIOUS
<1>1. TypeOK'
  BY DEF IInv, TypeOK, vars
<1> QED BY <1>1 DEF IInv, vars, TaskShape, Held, HeldBy, Apart, Unheard, SettledOnce,
      LiveUnsettled, InitiatorPresent, OneStraggler, Ends, Fresh, Inserting, Settling,
      Summarised, Found, Recording, Sending

LEMMA InvariantStep == IInv /\ Next => IInv'
<1> SUFFICES ASSUME IInv, Next PROVE TypeOK' /\ Core'
  BY DEF IInv, Core
<1>1. TypeOK /\ Core /\ Shapes
  BY DEF IInv, Core, Shapes
<1>2. CASE Crash
  BY <1>1, <1>2, CrashType, CrashAction
<1>3. ASSUME NEW c \in Conns, NEW i \in Ids, Bind(c, i) PROVE TypeOK' /\ Core'
  BY <1>1, <1>3, BindType, QuietActions
<1>4. ASSUME NEW c \in Conns, Receive(c) PROVE TypeOK' /\ Core'
  <2>1. CASE Register(c)
    BY <1>1, <2>1, RegisterType, QuietActions
  <2>2. ASSUME NEW r \in RequestsOf(bound[c]), Refuse(c, r) PROVE TypeOK' /\ Core'
    BY <1>1, <2>2, OpeningType, QuietActions
  <2>3. ASSUME NEW r \in RequestsOf(bound[c]), NEW s \in Sids, Request(c, r, s)
        PROVE  TypeOK' /\ Core'
    <3>1. task[c] = Idle
      BY <2>3 DEF Request
    <3> QED BY <1>1, <2>3, <3>1, OpeningType, RequestAction
  <2>4. ASSUME NEW a \in Agents, CancelRequest(c, a) PROVE TypeOK' /\ Core'
    BY <1>1, <2>4, FindingType, LookActions
  <2>5. ASSUME NEW s \in Sids, NEW ok \in BOOLEAN, AuthResult(c, s, ok) PROVE TypeOK' /\ Core'
    BY <1>1, <2>5, FindingType, LookActions
  <2>6. ASSUME NEW s \in Sids, SessionEnd(c, s) PROVE TypeOK' /\ Core'
    BY <1>1, <2>6, FindingType, LookActions
  <2>7. ASSUME NEW s \in Sids, Input(c, s) PROVE TypeOK' /\ Core'
    BY <1>1, <2>7, TrafficType, LookActions
  <2>8. ASSUME NEW s \in Sids, NEW type \in Traffic,
               Relay(c, s, type) \/ RelayAudited(c, s, type)
        PROVE  TypeOK' /\ Core'
    <3>1. type \in Relayed
      BY HubAssumption
    <3> QED BY <1>1, <2>8, <3>1, TrafficType, LookActions
  <2> QED BY <1>4, <2>1, <2>2, <2>3, <2>4, <2>5, <2>6, <2>7, <2>8 DEF Receive
<1>5. ASSUME NEW c \in Conns, Resume(c) PROVE TypeOK' /\ Core'
  <2>1. DbOutcomes \subseteq BOOLEAN
    BY HubAssumption
  <2>2. CASE Refused(c)
    BY <1>1, <2>2, OpeningType, QuietActions
  <2>3. CASE Answered(c) \/ Withdrawn(c) \/ HangUp(c)
    BY <1>1, <2>3, AnsweringType, DropActions
  <2>4. CASE LookUp(c)
    BY <1>1, <2>4, TrafficType, LookActions
  <2>5. CASE Send(c)
    BY <1>1, <2>5, TrafficType, SendAction
  <2>6. ASSUME NEW ok \in BOOLEAN, Inserted(c, ok) PROVE TypeOK' /\ Core'
    BY <1>1, <2>6, OpeningType, InsertedAction
  <2>7. ASSUME NEW ok \in BOOLEAN, Connected(c, ok) PROVE TypeOK' /\ Core'
    BY <1>1, <2>7, OpeningType, LookActions
  <2>8. ASSUME NEW ok \in BOOLEAN, Audited(c, ok) PROVE TypeOK' /\ Core'
    BY <1>1, <2>8, SettlingType, AuditedAction
  <2>9. ASSUME NEW ok \in BOOLEAN, InputSummarised(c, ok) \/ RowSettled(c, ok)
        PROVE  TypeOK' /\ Core'
    BY <1>1, <2>9, SettlingType, WriteActions
  <2>10. ASSUME NEW ok \in BOOLEAN, Settled(c, ok) PROVE TypeOK' /\ Core'
    BY <1>1, <2>10, SettlingType, SettledAction
  <2> QED BY <1>5, <2>1, <2>2, <2>3, <2>4, <2>5, <2>6, <2>7, <2>8, <2>9, <2>10 DEF Resume
<1>6. ASSUME NEW c \in Conns, Close(c) PROVE TypeOK' /\ Core'
  BY <1>1, <1>6, CloseType, CloseAction
<1> QED BY <1>2, <1>3, <1>4, <1>5, <1>6 DEF Next

\* The invariant is inductive, for any number of endpoints, connections and
\* sessions and with lost writes and restarts: a session id is entered by one
\* task, is in the table, or has left it for good in the hands of one task.
THEOREM Invariance == Spec => []IInv
<1>1. IInv /\ [Next]_vars => IInv'
  BY InvariantStep, StutterStep
<1> QED BY InitInvariant, <1>1, PTL DEF Spec

\* Every variable of the hub keeps its type.
THEOREM TypeCorrect == Spec => []TypeOK
<1>1. IInv => TypeOK
  BY DEF IInv
<1> QED BY Invariance, <1>1, PTL

\* However hang-ups and clean-ups race, a session is settled at most once
\* (SessionStore::end_session and remove_sessions_of remove before anything is
\* written).
THEOREM SettledAtMostOnce == Spec => []SettledOnce
<1>1. IInv => SettledOnce
  BY DEF IInv
<1> QED BY Invariance, <1>1, PTL

\* No end is recorded for a session that is still in the table
\* (handle_session_end, handle_auth_result, handle_cancel_request and
\* end_client_sessions take it out first).
THEOREM LiveSessionsUnsettled == Spec => []LiveUnsettled
<1>1. IInv => LiveUnsettled
  BY DEF IInv
<1> QED BY Invariance, <1>1, PTL

\* A session in the table always has a connection of its initiator that is not
\* being cleaned up (handle_socket handles one message at a time, then cleans up).
THEOREM InitiatorStaysPresent == Spec => []InitiatorPresent
<1>1. IInv => InitiatorPresent
  BY DEF IInv
<1> QED BY Invariance, <1>1, PTL

\* Once a session has left the table, each connection routes at most the one
\* message it had already looked the peer up for (route_to_peer).
THEOREM AtMostOneStraggler == Spec => []OneStraggler
<1>1. IInv => OneStraggler
  BY DEF IInv
<1> QED BY Invariance, <1>1, PTL
=============================================================================
