---------------------------- MODULE DeliveryProofs ----------------------------
(*****************************************************************************)
(* Proofs about what the callers of a durable request are sent (Delivery).   *)
(* Batches are read from the store at one time and reach a client at         *)
(* another, after other batches, other answers and other ends of the         *)
(* request. DeliveryInv ties what is still in the channel to what its reader *)
(* saw and to what its receiver has: a client has at most one answer on its  *)
(* way and no subscription until it has had it, a subscription's cursor is   *)
(* the client's own, and whoever promised to read again once registered has  *)
(* not seen the terminal event yet.                                          *)
(*****************************************************************************)
EXTENDS Delivery, TLAPS

\* The states of the durable request.
Phases == {"none", "queued", "running", "cancelling", "terminal"}

\* Events of an interval, with or without the result.
Batches == [from : Nat, to : Nat, result : BOOLEAN]

\* What the channel into the serve loop carries.
Messages ==
    [kind : {"persisted"}, batch : Batches]
    \cup [kind : {"routed"}, to : Clients, batch : Batches, subscribe : BOOLEAN]

\* Where a handler can be.
TaskPcs == {"idle", "read", "seen", "sent", "registered", "tell", "done"}

\* What a handler was asked for.
Asked == {"run", "status", "wait", "replay", "result", "cancel", NoOne}

\* A handler.
TaskRecord == [pc : TaskPcs, kind : Asked, after : Nat, to : Nat]

\* How far a client's exchange can be.
ClientStates ==
    {"idle", "open", "refused", "gap", "repeated", "result", "gone", "broken", "forgotten"}

\* A client.
ClientRecord == [state : ClientStates, last : Nat]

\* What the serve loop keeps of an observer.
Subscriptions == [client : Clients, last : Nat, before : SUBSET Clients]

\* The message is the answer to a client.
Routes(m, c) == m.kind = "routed" /\ m.to = c

\* The messages in the channel.
Queued == {outbound[i] : i \in 1..Len(outbound)}

\* No answer to the client is on its way.
Unanswered(c) == \A m \in Queued : ~Routes(m, c)

\* The last event a handler has read for its client.
Cursor(t) == IF t.pc = "seen" THEN t.to ELSE t.after

\* What a handler rests on while it is suspended: the client has what the handler
\* asked from, a handler that is to subscribe had not read the terminal event, and
\* until it answers nobody else sends to its client.
TaskFits(c) ==
    /\ task[c].pc = "idle" =>
         task[c].kind = NoOne /\ client[c].state = "idle" /\ client[c].last = 0
    /\ task[c].pc = "read" => task[c].after <= events
    /\ task[c].pc \in {"read", "seen"} /\ Connected(c) => client[c].last = task[c].after
    /\ task[c].pc = "seen" => task[c].after <= task[c].to
    /\ task[c].pc \in {"seen", "sent", "registered"} =>
         /\ task[c].kind \in Observing
         /\ Cursor(task[c]) <= events
         /\ Terminal => Cursor(task[c]) < events
    /\ task[c].pc \in {"idle", "read", "seen"} =>
         Unanswered(c) /\ \A s \in subs : s.client # c

\* What ResultAfterEvents says of one client.
ClientFits(c) ==
    /\ client[c].state # "repeated"
    /\ client[c].state = "result" /\ task[c].kind \in Observing
          => Terminal /\ client[c].last >= events

\* What a message that is read and not yet delivered rests on: an answer starts
\* where its client stands, and a result goes with every event up to the terminal
\* one.
MessageFits(m) ==
    /\ m.batch.from <= m.batch.to
    /\ m.kind = "persisted" /\ m.batch.result =>
         Terminal /\ m.batch.from < events /\ m.batch.to = events
    /\ m.kind = "routed" =>
         /\ Connected(m.to) => Empty(m.batch) \/ m.batch.from = client[m.to].last
         /\ m.subscribe => task[m.to].pc = "sent" /\ ~m.batch.result
         /\ task[m.to].kind \in Observing =>
              /\ Connected(m.to) => m.batch.from = client[m.to].last
              /\ m.batch.result => Terminal /\ m.batch.to = events

\* A subscription starts where its client stands, once the answer is delivered.
SubFits(s) ==
    /\ Unanswered(s.client)
    /\ Connected(s.client) => s.last = client[s.client].last

\* The inductive invariant of delivery.
DeliveryInv ==
    /\ phase \in Phases /\ events \in Nat
    /\ phase # "none" => events > 0
    /\ outbound \in Seq(Messages)
    /\ subs \subseteq Subscriptions
    /\ task \in [Clients -> TaskRecord]
    /\ client \in [Clients -> ClientRecord]
    /\ \A c \in Clients : TaskFits(c) /\ ClientFits(c)
    /\ \A m \in Queued : MessageFits(m)
    /\ \A i, j \in 1..Len(outbound) : \A c \in Clients :
         Routes(outbound[i], c) /\ Routes(outbound[j], c) => i = j
    /\ \A s \in subs : SubFits(s)

\* Where a handler is before its answer.
Fresh == {"idle", "read", "seen"}

\* What every step respects: the durable request only adds events, and none after
\* the terminal one.
Advances ==
    /\ phase' \in Phases /\ events' \in Nat
    /\ \/ phase' = phase /\ events' = events
       \/ phase # "terminal" /\ phase' # "none" /\ events' = events + 1

\* A client still connected has received nothing.
StaysConnected(c) == Connected(c)' => Connected(c) /\ client'[c].last = client[c].last

\* Sending appends to the channel.
LEMMA SendIndices ==
    ASSUME outbound \in Seq(Messages), NEW m \in Messages, Send(m)
    PROVE  /\ outbound' \in Seq(Messages)
           /\ Len(outbound') = Len(outbound) + 1
           /\ \A i \in 1..Len(outbound) : outbound'[i] = outbound[i]
           /\ outbound'[Len(outbound')] = m
BY DEF Send

\* Delivering takes the oldest message off the channel.
LEMMA TakeIndices ==
    ASSUME outbound \in Seq(Messages), outbound # <<>>, outbound' = Tail(outbound)
    PROVE  /\ outbound' \in Seq(Messages)
           /\ Len(outbound') = Len(outbound) - 1
           /\ \A i \in 1..Len(outbound') : i + 1 \in 1..Len(outbound) /\ outbound'[i] = outbound[i + 1]
           /\ Head(outbound) = outbound[1] /\ 1 \in 1..Len(outbound)
           /\ Head(outbound) \in Messages
BY DEF Messages

\* What a suspended handler rests on survives the steps of others, the end of the
\* request among them.
LEMMA TaskStays ==
    ASSUME DeliveryInv, Advances, NEW c \in Clients, task'[c] = task[c], StaysConnected(c),
           task[c].pc = "idle" => client'[c] = client[c],
           task[c].pc \in Fresh => Unanswered(c)' /\ \A s \in subs' : s.client # c
    PROVE  TaskFits(c)'
<1> DEFINE t == task[c]
<1>1. t \in TaskRecord /\ TaskFits(c) /\ events \in Nat /\ phase \in Phases BY DEF DeliveryInv
<1>2. t.after \in Nat /\ t.to \in Nat /\ Cursor(t) \in Nat BY <1>1 DEF TaskRecord, Cursor
<1>3. Cursor(task[c])' = Cursor(t) BY DEF Cursor
<1>4. events <= events' /\ (Terminal' => (Terminal /\ events' = events) \/ events < events')
  BY <1>1 DEF Advances, Terminal
<1> HIDE DEF t
<1>5. t = task[c] /\ t = task'[c] BY DEF t
<1>6. t.pc \in {"seen", "sent", "registered"} =>
         Cursor(t) <= events' /\ (Terminal' => Cursor(t) < events')
  BY <1>1, <1>2, <1>4, <1>5 DEF TaskFits, Advances
<1>7. t.pc = "read" => t.after <= events' BY <1>1, <1>2, <1>4, <1>5 DEF TaskFits, Advances
<1>8. QED BY <1>1, <1>3, <1>5, <1>6, <1>7 DEF TaskFits, StaysConnected, Fresh

\* So does what a message in the channel rests on: a result is read with the
\* terminal event, and nothing is recorded after it.
LEMMA MessageStays ==
    ASSUME DeliveryInv, Advances, NEW m \in Messages, MessageFits(m),
           m.kind = "routed" =>
             /\ StaysConnected(m.to)
             /\ task[m.to].pc = "sent" /\ m.subscribe => task'[m.to].pc = "sent"
             /\ task'[m.to].kind \in Observing => task[m.to].kind \in Observing
    PROVE  MessageFits(m)'
<1>1. Terminal => Terminal' /\ events' = events BY DEF Advances, Terminal
<1>2. m.kind = "persisted" /\ m.batch.result =>
         Terminal' /\ m.batch.from < events' /\ m.batch.to = events'
  BY <1>1 DEF MessageFits
<1>3. ASSUME m.kind = "routed"
      PROVE  /\ Connected(m.to)' => Empty(m.batch) \/ m.batch.from = client'[m.to].last
             /\ m.subscribe => task'[m.to].pc = "sent" /\ ~m.batch.result
             /\ task'[m.to].kind \in Observing =>
                  /\ Connected(m.to)' => m.batch.from = client'[m.to].last
                  /\ m.batch.result => Terminal' /\ m.batch.to = events'
  BY <1>1, <1>3 DEF MessageFits, StaysConnected
<1>4. QED BY <1>2, <1>3 DEF MessageFits, Empty

\* So does what a client has received.
LEMMA ClientStays ==
    ASSUME DeliveryInv, Advances, NEW c \in Clients, client'[c] = client[c],
           task'[c].kind \in Observing => task[c].kind \in Observing
    PROVE  ClientFits(c)'
<1>1. Terminal => Terminal' /\ events' = events BY DEF Advances, Terminal
<1>2. QED BY <1>1 DEF ClientFits, DeliveryInv

\* A message that fits keeps the channel in order, an answer only when its client
\* has none on the way.
LEMMA ChannelGrows ==
    ASSUME DeliveryInv, NEW c,
           \/ outbound' = outbound
           \/ \E m \in Messages :
                /\ Send(m) /\ MessageFits(m)'
                /\ m.kind = "routed" => m.to = c /\ Unanswered(c),
           \A m \in Queued : MessageFits(m)'
    PROVE  /\ outbound' \in Seq(Messages)
           /\ \A m \in Queued' : MessageFits(m)'
           /\ \A i, j \in 1..Len(outbound') : \A d \in Clients :
                Routes(outbound'[i], d) /\ Routes(outbound'[j], d) => i = j
           /\ \A d \in Clients : d # c /\ Unanswered(d) => Unanswered(d)'
<1>1. /\ outbound \in Seq(Messages) /\ Len(outbound) \in Nat
      /\ \A i, j \in 1..Len(outbound) : \A d \in Clients :
           Routes(outbound[i], d) /\ Routes(outbound[j], d) => i = j
  BY DEF DeliveryInv
<1>2. CASE outbound' = outbound
  <2>1. Queued' = Queued BY <1>2 DEF Queued
  <2>2. QED BY <1>1, <1>2, <2>1 DEF Unanswered, Routes
<1>3. ASSUME NEW m \in Messages, Send(m), MessageFits(m)',
             m.kind = "routed" => m.to = c /\ Unanswered(c)
      PROVE  /\ outbound' \in Seq(Messages)
             /\ \A o \in Queued' : MessageFits(o)'
             /\ \A i, j \in 1..Len(outbound') : \A d \in Clients :
                  Routes(outbound'[i], d) /\ Routes(outbound'[j], d) => i = j
             /\ \A d \in Clients : d # c /\ Unanswered(d) => Unanswered(d)'
  <2>1. /\ outbound' \in Seq(Messages)
        /\ Len(outbound') = Len(outbound) + 1
        /\ \A i \in 1..Len(outbound) : outbound'[i] = outbound[i]
        /\ outbound'[Len(outbound')] = m
    BY <1>1, <1>3, SendIndices
  <2>2. Queued' = Queued \cup {m} BY <1>1, <2>1 DEF Queued
  <2>3. \A i \in 1..Len(outbound') : \A d \in Clients : Routes(outbound'[i], d) =>
           \/ i \in 1..Len(outbound) /\ Routes(outbound[i], d)
           \/ i = Len(outbound') /\ d = c /\ Unanswered(c)
    BY <1>1, <1>3, <2>1 DEF Routes
  <2>4. Unanswered(c) => \A i \in 1..Len(outbound) : ~Routes(outbound[i], c)
    BY DEF Unanswered, Queued
  <2>5. \A i, j \in 1..Len(outbound') : \A d \in Clients :
           Routes(outbound'[i], d) /\ Routes(outbound'[j], d) => i = j
    BY <1>1, <2>3, <2>4
  <2>6. \A d \in Clients : d # c /\ Unanswered(d) => Unanswered(d)'
    BY <1>3, <2>2 DEF Unanswered, Routes
  <2>7. QED BY <1>3, <2>1, <2>2, <2>5, <2>6
<1>4. QED BY <1>2, <1>3

\* The rest of the request's world when one caller's handler takes a step.
LEMMA CallerMoves ==
    ASSUME DeliveryInv, Advances, NEW c, subs' = subs,
           phase' # "none" => events' > 0,
           task' \in [Clients -> TaskRecord], client' \in [Clients -> ClientRecord],
           \A d \in Clients : d # c => task'[d] = task[d] /\ client'[d] = client[d],
           c \in Clients => TaskFits(c)' /\ ClientFits(c)',
           c \in Clients /\ task[c].pc \notin Fresh =>
             /\ StaysConnected(c)
             /\ task'[c].kind \in Observing => task[c].kind \in Observing
             /\ task[c].pc = "sent" => task'[c].pc = "sent",
           \/ outbound' = outbound
           \/ \E m \in Messages :
                /\ Send(m) /\ MessageFits(m)'
                /\ m.kind = "routed" => m.to = c /\ c \in Clients /\ task[c].pc \in Fresh
    PROVE  DeliveryInv'
<1>1. /\ outbound \in Seq(Messages) /\ subs \subseteq Subscriptions
      /\ c \in Clients /\ task[c].pc \in Fresh => Unanswered(c) /\ \A s \in subs : s.client # c
      /\ \A m \in Queued : MessageFits(m)
      /\ \A s \in subs : SubFits(s)
      /\ \A d \in Clients : TaskFits(d)
  BY Zenon DEF DeliveryInv, TaskFits, Fresh
<1>2. Queued \subseteq Messages BY <1>1 DEF Queued
<1>3. ASSUME NEW m \in Queued PROVE MessageFits(m)'
  <2>1. m \in Messages /\ MessageFits(m) BY <1>1, <1>2
  <2>2. m.kind = "routed" => m.to \in Clients BY <2>1 DEF Messages
  <2>3. m.kind = "routed" /\ m.to = c => c \in Clients /\ task[c].pc \notin Fresh
    BY <1>1, <2>2 DEF Unanswered, Routes
  <2>4. m.kind = "routed" =>
             /\ StaysConnected(m.to)
             /\ task[m.to].pc = "sent" /\ m.subscribe => task'[m.to].pc = "sent"
             /\ task'[m.to].kind \in Observing => task[m.to].kind \in Observing
    BY <2>2, <2>3 DEF StaysConnected, Connected
  <2>5. QED BY <2>1, <2>4, MessageStays
<1>4. /\ outbound' \in Seq(Messages)
      /\ \A m \in Queued' : MessageFits(m)'
      /\ \A i, j \in 1..Len(outbound') : \A d \in Clients :
           Routes(outbound'[i], d) /\ Routes(outbound'[j], d) => i = j
      /\ \A d \in Clients : d # c /\ Unanswered(d) => Unanswered(d)'
  <2>1. \/ outbound' = outbound
        \/ \E m \in Messages :
             /\ Send(m) /\ MessageFits(m)'
             /\ m.kind = "routed" => m.to = c /\ Unanswered(c)
    BY <1>1, Zenon
  <2>2. QED BY <1>3, <2>1, ChannelGrows, Zenon
<1>5. ASSUME NEW d \in Clients, d # c PROVE TaskFits(d)' /\ ClientFits(d)'
  <2>1. task[d].pc \in Fresh => Unanswered(d)' /\ \A s \in subs' : s.client # d
    BY <1>1, <1>4, <1>5, Zenon DEF TaskFits, Fresh
  <2>2. StaysConnected(d) BY <1>5, Zenon DEF StaysConnected, Connected
  <2>3. TaskFits(d)' BY <1>5, <2>1, <2>2, TaskStays, Zenon
  <2>4. ClientFits(d)' BY <1>5, ClientStays
  <2>5. QED BY <2>3, <2>4
<1>6. ASSUME NEW s \in subs PROVE SubFits(s)'
  <2>1. s \in Subscriptions /\ SubFits(s) BY <1>1
  <2>2. s.client \in Clients BY <2>1 DEF Subscriptions
  <2>3. s.client = c => c \in Clients /\ task[c].pc \notin Fresh BY <1>1, <2>2
  <2>4. StaysConnected(s.client) BY <2>2, <2>3 DEF StaysConnected, Connected
  <2>5. Unanswered(s.client)'
    <3>1. CASE s.client # c BY <1>4, <2>1, <2>2, <3>1 DEF SubFits
    <3>2. CASE s.client = c
      <4>1. Queued' = Queued \/ \E m \in Messages : m.kind # "routed" /\ Queued' = Queued \cup {m}
        <5>1. CASE outbound' = outbound BY <5>1 DEF Queued
        <5>2. ASSUME NEW m \in Messages, Send(m), m.kind # "routed"
              PROVE  Queued' = Queued \cup {m}
          <6>1. /\ Len(outbound') = Len(outbound) + 1 /\ Len(outbound) \in Nat
                /\ \A i \in 1..Len(outbound) : outbound'[i] = outbound[i]
                /\ outbound'[Len(outbound')] = m
            BY <1>1, <5>2, SendIndices
          <6>2. QED BY <6>1 DEF Queued
        <5>3. QED BY <2>3, <3>2, <5>1, <5>2
      <4>2. Unanswered(c) BY <2>1, <3>2 DEF SubFits
      <4>3. QED BY <3>2, <4>1, <4>2 DEF Unanswered, Routes
    <3>3. QED BY <3>1, <3>2
  <2>6. QED BY <2>1, <2>4, <2>5, Zenon DEF SubFits, StaysConnected
<1>7. subs' \subseteq Subscriptions /\ \A s \in subs' : SubFits(s)' BY <1>1, <1>6
<1>8. \A d \in Clients : TaskFits(d)' /\ ClientFits(d)' BY <1>5
<1>9. phase' \in Phases /\ events' \in Nat BY DEF Advances
<1>10. QED BY <1>4, <1>7, <1>8, <1>9 DEF DeliveryInv

\* A step of the store or of a publisher keeps the invariant, whoever is suspended.
LEMMA StoreKeepsDelivery ==
    ASSUME DeliveryInv, Advances, UNCHANGED <<subs, task, client>>,
           phase' # "none" => events' > 0,
           outbound' = outbound \/ \E m \in Messages : Send(m) /\ MessageFits(m)' /\ m.kind # "routed"
    PROVE  DeliveryInv'
<1>1. PICK c : c \notin Clients
  <2>1. QED BY NoSetContainsEverything
<1>2. task' \in [Clients -> TaskRecord] /\ client' \in [Clients -> ClientRecord] BY DEF DeliveryInv
<1>3. QED BY <1>1, <1>2, CallerMoves

\* Claiming, saving a transition, finishing and expiring keep the invariant.
LEMMA StoreStepsKeepDelivery ==
    ASSUME DeliveryInv, Start \/ Progress \/ Finish \/ Expire
    PROVE  DeliveryInv'
<1>1. Advances /\ events' > 0
  BY DEF DeliveryInv, Start, Progress, Finish, Expire, Record, Advances, Phases
<1>2. UNCHANGED <<outbound, subs, task, client>> BY DEF Start, Progress, Finish, Expire
<1>3. QED BY <1>1, <1>2, StoreKeepsDelivery

\* A replay from a cursor short of the terminal event fits: if it carries the
\* result it carries the terminal event.
LEMMA PersistedFits ==
    ASSUME DeliveryInv, UNCHANGED <<phase, events>>, NEW after \in Nat, after <= events,
           Terminal => after < events
    PROVE  \E m \in Messages : m = Persisted(after) /\ MessageFits(m)' /\ m.kind = "persisted"
<1>1. events \in Nat BY DEF DeliveryInv
<1>2. PICK b : b = [from |-> after, to |-> events, result |-> Terminal] BY Zenon
<1>3. PICK m : m = [kind |-> "persisted", batch |-> b] BY Zenon
<1>4. b \in Batches BY <1>1, <1>2 DEF Batches, Terminal
<1>5. m \in Messages BY <1>3, <1>4 DEF Messages
<1>6. m = Persisted(after) BY <1>1, <1>2, <1>3 DEF Persisted, Replay
<1>7. MessageFits(m)' BY <1>1, <1>2, <1>3, Zenon DEF MessageFits, Terminal
<1>8. QED BY <1>3, <1>5, <1>6, <1>7

\* The replay a worker or a recovery owes keeps the invariant.
LEMMA PublishKeepsDelivery == ASSUME DeliveryInv, Publish PROVE DeliveryInv'
<1>1. UNCHANGED <<phase, events, subs, task, client>> /\ Send(Persisted(0)) BY DEF Publish
<1>2. events \in Nat /\ (Terminal => 0 < events) /\ Advances /\ (phase' # "none" => events' > 0)
  BY <1>1 DEF DeliveryInv, Terminal, Advances
<1>3. \E m \in Messages : m = Persisted(0) /\ MessageFits(m)' /\ m.kind = "persisted"
  BY <1>1, <1>2, PersistedFits
<1>4. QED BY <1>1, <1>2, <1>3, StoreKeepsDelivery

\* A handler that has answered and returns.
LEMMA TaskReturns ==
    ASSUME DeliveryInv, NEW c \in Clients, task[c].pc # "idle",
           task' = [task EXCEPT ![c] = Returned(task[c].kind)], client' = client
    PROVE  /\ task' \in [Clients -> TaskRecord] /\ client' \in [Clients -> ClientRecord]
           /\ \A d \in Clients : d # c => task'[d] = task[d] /\ client'[d] = client[d]
           /\ task'[c].pc = "done" /\ TaskFits(c)' /\ StaysConnected(c)
           /\ task'[c].kind \in Observing <=> task[c].kind \in Observing
<1>1. task \in [Clients -> TaskRecord] /\ client \in [Clients -> ClientRecord] BY DEF DeliveryInv
<1>2. PICK r : r = Returned(task[c].kind) OBVIOUS
<1>3. r.pc = "done" /\ r.kind = (IF task[c].kind \in Observing THEN task[c].kind ELSE NoOne)
      /\ r.after = 0 /\ r.to = 0 /\ r = [pc |-> r.pc, kind |-> r.kind, after |-> r.after, to |-> r.to]
  BY <1>2 DEF Returned
<1>4. r.kind \in Asked BY <1>3 DEF Asked, Observing
<1>5. r \in TaskRecord BY <1>3, <1>4 DEF TaskRecord, TaskPcs
<1>6. task'[c] = r /\ task' \in [Clients -> TaskRecord] BY <1>1, <1>2, <1>5
<1>7. TaskFits(c)' BY <1>3, <1>6 DEF TaskFits
<1>8. r.kind \in Observing <=> task[c].kind \in Observing BY <1>3, DeliveryAssumption
<1>9. QED BY <1>1, <1>2, <1>3, <1>6, <1>7, <1>8 DEF StaysConnected, Connected

\* The replay after a cancellation and the second read of an observing handler keep
\* the invariant.
LEMMA CatchUpKeeps ==
    ASSUME DeliveryInv, NEW c \in Clients, CancelTells(c) \/ CatchUp(c)
    PROVE  DeliveryInv'
<1>1. UNCHANGED <<phase, events, subs, client>> /\ task[c].pc \in {"tell", "registered"}
      /\ task' = [task EXCEPT ![c] = Returned(task[c].kind)]
  BY DEF CancelTells, CatchUp
<1>2. PICK after : Send(Persisted(after)) /\ after \in {0, task[c].after}
                   /\ (task[c].pc = "tell" => after = 0)
  BY <1>1 DEF CancelTells, CatchUp
<1>3. events \in Nat /\ (Terminal => 0 < events) /\ Advances /\ (phase' # "none" => events' > 0)
      /\ task[c] \in TaskRecord /\ TaskFits(c)
  BY <1>1 DEF DeliveryInv, Terminal, Advances
<1>4. after \in Nat /\ after <= events /\ (Terminal => after < events)
  BY <1>1, <1>2, <1>3 DEF TaskFits, TaskRecord, Cursor
<1>5. \E m \in Messages : m = Persisted(after) /\ MessageFits(m)' /\ m.kind = "persisted"
  BY <1>1, <1>4, PersistedFits
<1>6. /\ task' \in [Clients -> TaskRecord] /\ client' \in [Clients -> ClientRecord]
      /\ \A d \in Clients : d # c => task'[d] = task[d] /\ client'[d] = client[d]
      /\ TaskFits(c)' /\ StaysConnected(c)
      /\ task'[c].kind \in Observing <=> task[c].kind \in Observing
  BY <1>1, TaskReturns, Zenon
<1>7. ClientFits(c)' BY <1>1, <1>3, <1>6, ClientStays
<1>8. QED BY <1>1, <1>2, <1>3, <1>5, <1>6, <1>7, CallerMoves

\* A handler answers its caller: the one message that is ever routed to it.
LEMMA AnswerKeeps ==
    ASSUME DeliveryInv, Advances, phase' # "none" => events' > 0, NEW c \in Clients,
           task[c].pc \in {"read", "seen"}, UNCHANGED <<subs, client>>,
           NEW b \in Batches, NEW w \in BOOLEAN, Send(Routed(c, b, w)), b.from <= b.to,
           NEW r \in TaskRecord, task' = [task EXCEPT ![c] = r], r.pc \in {"done", "tell", "sent"},
           r.kind \in Observing => task[c].kind \in Observing,
           Empty(b) \/ b.from = task[c].after,
           w => r.pc = "sent" /\ ~b.result,
           r.kind \in Observing => b.from = task[c].after /\ (b.result => Terminal' /\ b.to = events'),
           r.pc = "sent" => r.kind \in Observing /\ r.after <= events' /\ (Terminal' => r.after < events')
    PROVE  DeliveryInv'
<1>1. task \in [Clients -> TaskRecord] /\ client \in [Clients -> ClientRecord] /\ TaskFits(c)
  BY DEF DeliveryInv
<1>2. task' \in [Clients -> TaskRecord] /\ task'[c] = r /\ client' \in [Clients -> ClientRecord]
      /\ \A d \in Clients : d # c => task'[d] = task[d] /\ client'[d] = client[d]
  BY <1>1
<1>3. TaskFits(c)' BY <1>2 DEF TaskFits, Cursor
<1>4. ClientFits(c)' BY <1>2, ClientStays
<1>5. PICK m : m = Routed(c, b, w) OBVIOUS
<1>6. m.kind = "routed" /\ m.to = c /\ m.batch = b /\ m.subscribe = w BY <1>5 DEF Routed
<1>7. m \in Messages BY <1>5, Zenon DEF Routed, Messages
<1>8. Connected(c)' => client'[c].last = task[c].after
  BY <1>1, Zenon DEF TaskFits, Connected
<1>9. MessageFits(m)' BY <1>2, <1>6, <1>8, Zenon DEF MessageFits, Empty
<1>10. task[c].pc \in Fresh BY DEF Fresh
<1>11. Send(m) BY <1>5
<1>12. QED BY <1>2, <1>3, <1>4, <1>6, <1>7, <1>9, <1>10, <1>11, CallerMoves

\* The first read of an observing handler keeps the invariant.
LEMMA ObserveKeeps == ASSUME DeliveryInv, NEW c \in Clients, Observe(c) PROVE DeliveryInv'
<1>1. UNCHANGED <<phase, events, subs, client>> /\ task[c].pc = "read" /\ task[c].kind \in Observing
  BY DEF Observe
<1>2. events \in Nat /\ Advances /\ (phase' # "none" => events' > 0) /\ Terminal' = Terminal
      /\ task \in [Clients -> TaskRecord] /\ client \in [Clients -> ClientRecord]
      /\ TaskFits(c) /\ ClientFits(c)
  BY <1>1 DEF DeliveryInv, Terminal, Advances
<1>3. task[c].after \in Nat /\ task[c].after <= events BY <1>1, <1>2 DEF TaskFits, TaskRecord
<1>4. CASE Terminal
  <2>1. Send(Routed(c, Replay(task[c].after), FALSE))
        /\ task' = [task EXCEPT ![c] = Returned(task[c].kind)]
    BY <1>4, Zenon DEF Observe
  <2>2. PICK b : b = Replay(task[c].after) OBVIOUS
  <2>3. b = [from |-> task[c].after, to |-> events, result |-> Terminal]
    BY <1>2, <1>3, <2>2 DEF Replay
  <2>4. b \in Batches /\ b.from = task[c].after /\ b.to = events
    BY <1>2, <1>3, <2>3, Zenon DEF Batches, Terminal
  <2>5. PICK r : r = Returned(task[c].kind) OBVIOUS
  <2>6. r = [pc |-> "done", kind |-> task[c].kind, after |-> 0, to |-> 0]
    BY <1>1, <2>5 DEF Returned
  <2>7. r \in TaskRecord BY <1>2, <2>6 DEF TaskRecord, TaskPcs
  <2>8. r.pc = "done" /\ r.kind = task[c].kind BY <2>6
  <2>9. Send(Routed(c, b, FALSE)) /\ task' = [task EXCEPT ![c] = r] BY <2>1, <2>2, <2>5, Zenon
  <2>10. QED BY <1>1, <1>2, <1>3, <1>4, <2>4, <2>7, <2>8, <2>9, AnswerKeeps, Zenon
<1>5. CASE ~Terminal
  <2>1. task' = [task EXCEPT ![c].pc = "seen", ![c].to = Replay(task[c].after).to]
        /\ outbound' = outbound
    BY <1>5 DEF Observe
  <2>2. Replay(task[c].after).to = events BY <1>2, <1>3 DEF Replay
  <2>3. PICK r : r = [task[c] EXCEPT !.pc = "seen", !.to = events] OBVIOUS
  <2>4. task' = [task EXCEPT ![c] = r] BY <1>2, <2>1, <2>2, <2>3, Zenon
  <2>5. r.pc = "seen" /\ r.kind = task[c].kind /\ r.after = task[c].after /\ r.to = events
    BY <1>2, <2>3 DEF TaskRecord
  <2>6. r \in TaskRecord BY <1>2, <2>3, Zenon DEF TaskRecord, TaskPcs
  <2>7. task' \in [Clients -> TaskRecord] /\ task'[c] = r
        /\ \A d \in Clients : d # c => task'[d] = task[d] /\ client'[d] = client[d]
    BY <1>1, <1>2, <2>4, <2>6
  <2>8. Unanswered(c)' /\ \A s \in subs' : s.client # c
    BY <1>1, <1>2, <2>1 DEF TaskFits, Unanswered, Queued
  <2>9. Connected(c)' => client'[c].last = r.after
    BY <1>1, <1>2, <2>5, Zenon DEF TaskFits, Connected
  <2>10. TaskFits(c)'
    BY <1>1, <1>2, <1>3, <1>5, <2>5, <2>7, <2>8, <2>9 DEF TaskFits, Cursor
  <2>11. ClientFits(c)' BY <1>1, <1>2, <2>5, <2>7, ClientStays
  <2>12. task[c].pc \in Fresh BY <1>1, Zenon DEF Fresh
  <2>13. QED BY <1>1, <1>2, <2>1, <2>7, <2>10, <2>11, <2>12, CallerMoves
<1>6. QED BY <1>4, <1>5

\* Answering what was read before the await keeps the invariant, also when the
\* request has ended since.
LEMMA SubscribeKeeps == ASSUME DeliveryInv, NEW c \in Clients, Subscribe(c) PROVE DeliveryInv'
<1>1. UNCHANGED <<phase, events, subs, client>> /\ task[c].pc = "seen"
      /\ Send(Routed(c, [from |-> task[c].after, to |-> task[c].to, result |-> FALSE], TRUE))
      /\ task' = [task EXCEPT ![c].pc = "sent", ![c].after = task[c].to, ![c].to = 0]
  BY Zenon DEF Subscribe
<1>2. events \in Nat /\ Advances /\ (phase' # "none" => events' > 0) /\ Terminal' = Terminal
      /\ task \in [Clients -> TaskRecord] /\ TaskFits(c)
  BY <1>1 DEF DeliveryInv, Terminal, Advances
<1>3. task[c].after \in Nat /\ task[c].to \in Nat /\ task[c].after <= task[c].to
      /\ task[c].to <= events /\ (Terminal => task[c].to < events) /\ task[c].kind \in Observing
  BY <1>1, <1>2 DEF TaskFits, TaskRecord, Cursor
<1>4. PICK b : b = [from |-> task[c].after, to |-> task[c].to, result |-> FALSE] BY Zenon
<1>5. b \in Batches BY <1>3, <1>4, Zenon DEF Batches
<1>6. PICK r : r = [task[c] EXCEPT !.pc = "sent", !.after = task[c].to, !.to = 0] OBVIOUS
<1>7. task' = [task EXCEPT ![c] = r] BY <1>1, <1>2, <1>6, Zenon
<1>8. r.pc = "sent" /\ r.kind = task[c].kind /\ r.after = task[c].to BY <1>2, <1>6 DEF TaskRecord
<1>9. r \in TaskRecord BY <1>2, <1>3, <1>6, Zenon DEF TaskRecord, TaskPcs
<1>10. Send(Routed(c, b, TRUE)) BY <1>1, <1>4, Zenon
<1>11. b.from = task[c].after /\ b.to = task[c].to /\ ~b.result BY <1>4
<1>12. r.after <= events' /\ (Terminal' => r.after < events') BY <1>1, <1>3, <1>8 DEF Terminal
<1>13. r.pc \in {"done", "tell", "sent"} /\ task[c].pc \in {"read", "seen"} BY <1>1, <1>8
<1>14. b.from <= b.to BY <1>3, <1>11, Zenon
<1>15. UNCHANGED <<subs, client>> /\ Advances /\ (phase' # "none" => events' > 0) BY <1>1, <1>2
<1>16. PICK w \in BOOLEAN : w = TRUE BY Zenon
<1>17. Send(Routed(c, b, w)) BY <1>10, <1>16, Zenon
<1>18. /\ w => r.pc = "sent" /\ ~b.result
       /\ r.kind \in Observing /\ task[c].kind \in Observing /\ b.from = task[c].after
       /\ b.result => Terminal' /\ b.to = events'
  BY <1>3, <1>8, <1>11, Zenon
<1>19. QED BY <1>5, <1>7, <1>9, <1>12, <1>13, <1>14, <1>15, <1>17, <1>18, AnswerKeeps, Zenon

\* handle_replay and handle_get_result keep the invariant.
LEMMA AnsweredOnceKeeps ==
    ASSUME DeliveryInv, NEW c \in Clients, ReplayOnce(c) \/ GetResult(c)
    PROVE  DeliveryInv'
<1>1. UNCHANGED <<phase, events, subs, client>> /\ task[c].pc = "read" /\ task[c].kind \notin Observing
      /\ task' = [task EXCEPT ![c] = Returned(task[c].kind)]
  BY Zenon DEF ReplayOnce, GetResult, Observing
<1>2. events \in Nat /\ Advances /\ (phase' # "none" => events' > 0)
      /\ task \in [Clients -> TaskRecord] /\ TaskFits(c)
  BY <1>1 DEF DeliveryInv, Terminal, Advances
<1>3. task[c].after \in Nat /\ task[c].after <= events BY <1>1, <1>2, Zenon DEF TaskFits, TaskRecord
<1>4. PICK b \in Batches : Send(Routed(c, b, FALSE)) /\ b.from <= b.to
                           /\ (Empty(b) \/ b.from = task[c].after)
  <2>1. CASE ReplayOnce(c)
    <3> DEFINE p == Replay(task[c].after)
    <3>1. PICK b : b = [p EXCEPT !.result = TRUE] BY Zenon
    <3>2. b \in Batches /\ b.from = task[c].after /\ b.to = events
      <4>1. p = [from |-> task[c].after, to |-> events, result |-> Terminal]
        BY <1>2, <1>3 DEF Replay
      <4>2. p \in Batches /\ p.from = task[c].after /\ p.to = events
        BY <1>2, <1>3, <4>1 DEF Batches, Terminal
      <4> HIDE DEF p
      <4>3. QED BY <3>1, <4>2, Zenon DEF Batches
    <3>3. Send(Routed(c, b, FALSE)) BY <2>1, <3>1, Zenon DEF ReplayOnce
    <3>4. QED BY <1>3, <3>2, <3>3, Zenon
  <2>2. CASE GetResult(c)
    <3>1. PICK b : b = [from |-> events, to |-> events, result |-> TRUE] BY Zenon
    <3>2. b \in Batches /\ b.from = events /\ b.to = events BY <1>2, <3>1 DEF Batches
    <3>3. Send(Routed(c, b, FALSE)) BY <2>2, <3>1, Zenon DEF GetResult
    <3>4. Empty(b) /\ b.from <= b.to BY <1>2, <3>2 DEF Empty
    <3>5. QED BY <3>2, <3>3, <3>4, Zenon
  <2>3. QED BY <2>1, <2>2, Zenon
<1>5. PICK r : r = Returned(task[c].kind) OBVIOUS
<1>6. r = [pc |-> "done", kind |-> NoOne, after |-> 0, to |-> 0] BY <1>1, <1>5 DEF Returned
<1>7. r \in TaskRecord BY <1>6 DEF TaskRecord, TaskPcs, Asked
<1>8. QED BY <1>1, <1>2, <1>4, <1>5, <1>6, <1>7, DeliveryAssumption, AnswerKeeps, Zenon

\* target_cancel keeps the invariant.
LEMMA CancelKeeps == ASSUME DeliveryInv, NEW c \in Clients, Cancel(c) PROVE DeliveryInv'
<1>1. UNCHANGED <<subs, client>> /\ task[c].pc = "read" /\ task[c].kind \notin Observing
      /\ Send(Routed(c, [from |-> 0, to |-> 0, result |-> TRUE], FALSE))
      /\ task' = [task EXCEPT ![c].pc = "tell"]
  BY Zenon DEF Cancel, Observing
<1>2. Advances /\ (phase' # "none" => events' > 0) /\ task \in [Clients -> TaskRecord]
  BY DEF DeliveryInv, Cancel, Record, Advances, Phases
<1>3. PICK b : b = [from |-> 0, to |-> 0, result |-> TRUE] BY Zenon
<1>4. b \in Batches BY <1>3 DEF Batches
<1>5. PICK r : r = [task[c] EXCEPT !.pc = "tell"] BY Zenon
<1>6. r.pc = "tell" /\ r.kind = task[c].kind BY <1>2, <1>5 DEF TaskRecord
<1>7. r \in TaskRecord BY <1>2, <1>5 DEF TaskRecord, TaskPcs
<1>8. task' = [task EXCEPT ![c] = r] BY <1>1, <1>5
<1>9. b.from <= b.to /\ Empty(b) BY <1>3 DEF Empty
<1>10. QED BY <1>1, <1>2, <1>3, <1>4, <1>6, <1>7, <1>8, <1>9, AnswerKeeps, Zenon

\* A caller's request reaches its handler.
LEMMA ArrivalKeeps ==
    ASSUME DeliveryInv, Advances, phase' # "none" => events' > 0, NEW c \in Clients,
           task[c].pc = "idle", UNCHANGED <<outbound, subs>>,
           NEW r \in TaskRecord, task' = [task EXCEPT ![c] = r], r.pc \in {"read", "done"},
           NEW k \in ClientRecord, client' = [client EXCEPT ![c] = k], k.state \in {"open", "refused"},
           r.pc = "read" => r.after <= events' /\ k.last = r.after
    PROVE  DeliveryInv'
<1>1. task \in [Clients -> TaskRecord] /\ client \in [Clients -> ClientRecord] /\ TaskFits(c)
  BY DEF DeliveryInv
<1>2. task' \in [Clients -> TaskRecord] /\ task'[c] = r
      /\ client' \in [Clients -> ClientRecord] /\ client'[c] = k
      /\ \A d \in Clients : d # c => task'[d] = task[d] /\ client'[d] = client[d]
  BY <1>1
<1>3. Unanswered(c)' /\ \A s \in subs' : s.client # c
  BY <1>1, Zenon DEF TaskFits, Unanswered, Queued
<1>4. TaskFits(c)' BY <1>2, <1>3, Zenon DEF TaskFits
<1>5. ClientFits(c)' BY <1>2 DEF ClientFits
<1>6. task[c].pc \in Fresh BY DEF Fresh
<1>7. QED BY <1>2, <1>4, <1>5, <1>6, CallerMoves, Zenon

\* An accepted request keeps the invariant.
LEMMA AcceptKeeps == ASSUME DeliveryInv, NEW c \in Clients, Accept(c) PROVE DeliveryInv'
<1>1. task[c].pc = "idle" /\ UNCHANGED <<outbound, subs>> /\ client' = [client EXCEPT ![c].state = "open"]
  BY DEF Accept
<1>2. PICK k \in {"run", "status"} :
        task' = [task EXCEPT ![c] = [pc |-> "read", kind |-> k, after |-> 0, to |-> 0]]
  BY Zenon DEF Accept
<1>3. events \in Nat /\ phase \in Phases /\ (phase # "none" => events > 0)
      /\ client \in [Clients -> ClientRecord] /\ TaskFits(c)
  BY DEF DeliveryInv
<1>4. Advances /\ events' > 0 /\ events' \in Nat
  BY <1>3 DEF Accept, Record, Advances, Phases
<1>5. PICK r : r = [pc |-> "read", kind |-> k, after |-> 0, to |-> 0] BY Zenon
<1>6. r \in TaskRecord /\ r.pc = "read" /\ r.after = 0 BY <1>5 DEF TaskRecord, TaskPcs, Asked
<1>7. PICK x : x = [client[c] EXCEPT !.state = "open"] BY Zenon
<1>8. x \in ClientRecord /\ x.state = "open" /\ x.last = 0
  BY <1>1, <1>3, <1>7 DEF ClientRecord, ClientStates, TaskFits
<1>9. client' = [client EXCEPT ![c] = x] /\ task' = [task EXCEPT ![c] = r]
  BY <1>1, <1>2, <1>3, <1>5, <1>7
<1>10. r.after <= events' /\ x.last = r.after BY <1>4, <1>6, <1>8
<1>11. r.pc \in {"read", "done"} /\ x.state \in {"open", "refused"} BY <1>6, <1>8
<1>12. phase' # "none" => events' > 0 BY <1>4
<1>13. QED BY <1>1, <1>4, <1>6, <1>8, <1>9, <1>10, <1>11, <1>12, ArrivalKeeps, ZenonT(40)

\* A request that names a target keeps the invariant.
LEMMA TargetKeeps == ASSUME DeliveryInv, NEW c \in Clients, Target(c) PROVE DeliveryInv'
<1>1. task[c].pc = "idle" /\ UNCHANGED <<phase, events, outbound, subs>> BY Zenon DEF Target
<1>2. events \in Nat /\ Advances /\ (phase' # "none" => events' > 0)
  BY <1>1 DEF DeliveryInv, Advances
<1>3. PICK k : k \in {"wait", "replay", "result", "cancel"} /\
        \E after \in IF k \in {"wait", "replay"} THEN 0..events ELSE {0} :
        /\ task' = [task EXCEPT ![c] = IF phase = "none" THEN Returned(k)
                                       ELSE [pc |-> "read", kind |-> k, after |-> after, to |-> 0]]
        /\ client' = [client EXCEPT ![c] = IF phase = "none" THEN Lost("refused")
                                           ELSE [state |-> "open", last |-> after]]
  BY Zenon DEF Target
<1>3a. PICK after \in IF k \in {"wait", "replay"} THEN 0..events ELSE {0} :
        /\ task' = [task EXCEPT ![c] = IF phase = "none" THEN Returned(k)
                                       ELSE [pc |-> "read", kind |-> k, after |-> after, to |-> 0]]
        /\ client' = [client EXCEPT ![c] = IF phase = "none" THEN Lost("refused")
                                           ELSE [state |-> "open", last |-> after]]
  BY <1>3, Zenon
<1>4. k \in Asked /\ NoOne \in Asked /\ 0 \in Nat /\ after \in Nat /\ after <= events
  BY <1>2, <1>3, <1>3a DEF Asked
<1>5. CASE phase = "none"
  <2>1. PICK r : r = Returned(k) OBVIOUS
  <2>2. r \in TaskRecord /\ r.pc = "done" BY <1>4, <2>1 DEF Returned, TaskRecord, TaskPcs
  <2>3. PICK x : x = Lost("refused") OBVIOUS
  <2>4. x \in ClientRecord /\ x.state = "refused" BY <2>3 DEF Lost, ClientRecord, ClientStates
  <2>5. task' = [task EXCEPT ![c] = r] /\ client' = [client EXCEPT ![c] = x]
    BY <1>3a, <1>5, <2>1, <2>3, Zenon
  <2>6. QED BY <1>1, <1>2, <2>2, <2>4, <2>5, ArrivalKeeps, Zenon
<1>6. CASE phase # "none"
  <2>1. PICK r : r = [pc |-> "read", kind |-> k, after |-> after, to |-> 0] BY Zenon
  <2>2. r \in TaskRecord /\ r.pc = "read" /\ r.after = after BY <1>4, <2>1 DEF TaskRecord, TaskPcs
  <2>3. PICK x : x = [state |-> "open", last |-> after] BY Zenon
  <2>4. x \in ClientRecord /\ x.state = "open" /\ x.last = after
    BY <1>4, <2>3 DEF ClientRecord, ClientStates
  <2>5. task' = [task EXCEPT ![c] = r] /\ client' = [client EXCEPT ![c] = x]
    BY <1>3a, <1>6, <2>1, <2>3, Zenon
  <2>6. r.after <= events' /\ x.last = r.after BY <1>1, <1>4, <2>2, <2>4
  <2>7. QED BY <1>1, <1>2, <2>2, <2>4, <2>5, <2>6, ArrivalKeeps, Zenon
<1>7. QED BY <1>5, <1>6

\* A client that gives up keeps the invariant.
LEMMA GiveUpKeeps == ASSUME DeliveryInv, NEW c \in Clients, GiveUp(c) PROVE DeliveryInv'
<1>1. UNCHANGED <<phase, events, outbound, subs, task>> /\ Connected(c)
      /\ client' = [client EXCEPT ![c] = Lost("gone")]
  BY DEF GiveUp
<1>2. events \in Nat /\ Advances /\ (phase' # "none" => events' > 0)
      /\ task \in [Clients -> TaskRecord] /\ client \in [Clients -> ClientRecord] /\ TaskFits(c)
  BY <1>1 DEF DeliveryInv, Advances
<1>3. PICK x : x = Lost("gone") OBVIOUS
<1>4. x \in ClientRecord /\ x.state = "gone" BY <1>3 DEF Lost, ClientRecord, ClientStates
<1>5. client' \in [Clients -> ClientRecord] /\ client'[c] = x /\ task' = task
      /\ \A d \in Clients : d # c => client'[d] = client[d]
  BY <1>1, <1>2, <1>3, <1>4
<1>6. StaysConnected(c) BY <1>4, <1>5 DEF StaysConnected, Connected
<1>7. task[c].pc # "idle" BY <1>1, <1>2, Zenon DEF TaskFits, Connected
<1>8. task[c].pc \in Fresh => Unanswered(c)' /\ \A s \in subs' : s.client # c
  BY <1>1, <1>2, Zenon DEF TaskFits, Unanswered, Queued, Fresh
<1>9. TaskFits(c)' BY <1>2, <1>5, <1>6, <1>7, <1>8, TaskStays
<1>10. ClientFits(c)' BY <1>4, <1>5, Zenon DEF ClientFits
<1>11. QED BY <1>1, <1>2, <1>5, <1>6, <1>9, <1>10, CallerMoves, Zenon

\* What a client makes of a batch: one that starts at or after its cursor is never
\* a repetition.
LEMMA ReceiveFits ==
    ASSUME NEW r \in ClientRecord, NEW b \in Batches, NEW x, x = Receive(r, b),
           r.state = "open" => Empty(b) \/ r.last <= b.from
    PROVE  /\ x \in ClientRecord
           /\ x.state = "repeated" => r.state = "repeated"
           /\ x.state \in {"open", "result"} =>
                \/ x = r /\ r.state = "result"
                \/ /\ r.state = "open" /\ x.last = (IF Empty(b) THEN r.last ELSE b.to)
                   /\ x.state = "result" <=> b.result
<1>1. r.last \in Nat /\ r.state \in ClientStates /\ b.from \in Nat /\ b.to \in Nat /\ b.result \in BOOLEAN
  BY DEF ClientRecord, Batches
<1>2. CASE r.state # "open"
  <2>1. x = r BY <1>2 DEF Receive
  <2>2. QED BY <1>2, <2>1
<1>3. CASE r.state = "open" /\ ~Empty(b) /\ b.from # r.last
  <2>1. b.from > r.last BY <1>1, <1>3
  <2>2. x = [state |-> "gap", last |-> 0] BY <1>3, <2>1 DEF Receive, Lost
  <2>3. QED BY <2>2 DEF ClientRecord, ClientStates
<1>4. CASE r.state = "open" /\ ~(~Empty(b) /\ b.from # r.last)
  <2>1. x = [r EXCEPT !.last = IF Empty(b) THEN @ ELSE b.to,
                      !.state = IF b.result THEN "result" ELSE "open"]
    BY <1>4 DEF Receive
  <2>2. x.last = (IF Empty(b) THEN r.last ELSE b.to) BY <2>1 DEF ClientRecord
  <2>3. x.state = (IF b.result THEN "result" ELSE "open") BY <2>1 DEF ClientRecord
  <2>4. (IF b.result THEN "result" ELSE "open") \in ClientStates BY DEF ClientStates
  <2>5. (IF Empty(b) THEN r.last ELSE b.to) \in Nat BY <1>1
  <2>6. x \in ClientRecord BY <2>1, <2>4, <2>5, Zenon DEF ClientRecord
  <2>7. QED BY <1>4, <2>2, <2>3, <2>6
<1>5. QED BY <1>2, <1>3, <1>4, Zenon

\* messages_for_observer: a share starts at or after the observer's cursor and
\* reaches as far as the batch.
LEMMA ShareFits ==
    ASSUME NEW b \in Batches, b.from <= b.to, NEW last \in Nat, NEW x, x = MessagesForObserver(b, last)
    PROVE  /\ x \in Batches /\ x.result = b.result /\ last <= x.from
           /\ Empty(x) => x.to = last
           /\ b.from < b.to => b.to <= x.to
<1>1. b.from \in Nat /\ b.to \in Nat BY DEF Batches
<1>2. CASE Empty(b) \/ b.to <= last
  <2>1. x = [b EXCEPT !.from = last, !.to = last] BY <1>2 DEF MessagesForObserver
  <2>2. x \in Batches /\ x.from = last /\ x.to = last /\ x.result = b.result BY <2>1, Zenon DEF Batches
  <2>3. QED BY <1>1, <1>2, <2>2 DEF Empty
<1>3. CASE ~(Empty(b) \/ b.to <= last)
  <2> DEFINE from == IF b.from > last THEN b.from ELSE last
  <2>1. x = [b EXCEPT !.from = from] BY <1>3 DEF MessagesForObserver
  <2>2. from \in Nat /\ last <= from /\ from < b.to BY <1>1, <1>3 DEF Empty
  <2> HIDE DEF from
  <2>3. x \in Batches /\ x.from = from /\ x.to = b.to /\ x.result = b.result BY <2>1, <2>2 DEF Batches
  <2>4. QED BY <1>1, <2>2, <2>3 DEF Empty
<1>4. QED BY <1>2, <1>3

\* The loop takes the first message off its channel.
LEMMA LoopMoves ==
    ASSUME DeliveryInv, UNCHANGED <<phase, events>>, outbound # <<>>, outbound' = Tail(outbound),
           NEW h, h = Head(outbound), subs' \subseteq Subscriptions,
           task' \in [Clients -> TaskRecord], client' \in [Clients -> ClientRecord],
           \A c \in Clients : ~Routes(h, c) => task'[c] = task[c],
           \A c \in Clients : ~Routes(h, c) /\ (\A s \in subs : s.client # c) => client'[c] = client[c],
           \A c \in Clients : Routes(h, c) =>
             task'[c] = task[c] \/ (task'[c].pc \notin Fresh /\ (Unanswered(c)' => TaskFits(c)')),
           \A c \in Clients : Connected(c)' => Connected(c),
           \A c \in Clients : Routes(h, c) \/ (\E s \in subs : s.client = c) => ClientFits(c)',
           \A s \in subs' :
             /\ Routes(h, s.client) \/ \E t \in subs : t.client = s.client
             /\ Routes(h, s.client) => task'[s.client].pc \notin Fresh
             /\ Connected(s.client)' => s.last = client'[s.client].last
    PROVE  DeliveryInv'
<1>1. /\ outbound \in Seq(Messages) /\ subs \subseteq Subscriptions
      /\ \A m \in Queued : MessageFits(m)
      /\ \A s \in subs : SubFits(s)
      /\ \A c \in Clients : TaskFits(c) /\ ClientFits(c)
      /\ \A i, j \in 1..Len(outbound) : \A d \in Clients :
           Routes(outbound[i], d) /\ Routes(outbound[j], d) => i = j
      /\ Advances /\ (phase' # "none" => events' > 0)
  BY Zenon DEF DeliveryInv, Advances
<1>2. /\ outbound' \in Seq(Messages) /\ Len(outbound) \in Nat
      /\ Len(outbound') = Len(outbound) - 1
      /\ \A i \in 1..Len(outbound') : i + 1 \in 1..Len(outbound) /\ outbound'[i] = outbound[i + 1]
      /\ h = outbound[1] /\ 1 \in 1..Len(outbound)
  BY <1>1, TakeIndices
<1>3. Queued' \subseteq Queued /\ h \in Queued /\ Queued' \subseteq Messages BY <1>1, <1>2 DEF Queued
<1>4. \A c \in Clients : Unanswered(c) => Unanswered(c)' /\ ~Routes(h, c) BY <1>3, Zenon DEF Unanswered
<1>5. ASSUME NEW c \in Clients, Routes(h, c) PROVE Unanswered(c)'
  <2>1. \A i \in 1..Len(outbound') : ~Routes(outbound'[i], c) BY <1>1, <1>2, <1>5
  <2>2. QED BY <2>1, Zenon DEF Unanswered, Queued
<1>6. \A s \in subs : s.client \in Clients /\ Unanswered(s.client) BY <1>1, Zenon DEF SubFits, Subscriptions
<1>7. ASSUME NEW m \in Queued' PROVE MessageFits(m)'
  <2>1. m \in Messages /\ m \in Queued /\ MessageFits(m) BY <1>1, <1>3, Zenon
  <2>2. ASSUME m.kind = "routed"
        PROVE  m.to \in Clients /\ task'[m.to] = task[m.to] /\ client'[m.to] = client[m.to]
    <3>1. m.to \in Clients /\ Routes(m, m.to) BY <2>1, <2>2, Zenon DEF Messages, Routes
    <3>2. ~Unanswered(m.to) /\ ~Unanswered(m.to)' BY <1>7, <2>1, <3>1, Zenon DEF Unanswered
    <3>3. ~Routes(h, m.to) /\ \A s \in subs : s.client # m.to BY <1>5, <1>6, <3>1, <3>2, Zenon
    <3>4. QED BY <3>1, <3>3, Zenon
  <2>3. m.kind = "routed" =>
             /\ StaysConnected(m.to)
             /\ task[m.to].pc = "sent" /\ m.subscribe => task'[m.to].pc = "sent"
             /\ task'[m.to].kind \in Observing => task[m.to].kind \in Observing
    BY <2>2, Zenon DEF StaysConnected, Connected
  <2>4. QED BY <1>1, <2>1, <2>3, MessageStays, Zenon
<1>8. ASSUME NEW c \in Clients PROVE TaskFits(c)'
  <2>1. CASE task'[c] = task[c]
    <3>1. ASSUME task[c].pc \in Fresh
          PROVE  Unanswered(c)' /\ client'[c] = client[c] /\ \A s \in subs' : s.client # c
      <4>1. Unanswered(c) /\ \A s \in subs : s.client # c BY <1>1, <3>1, Zenon DEF TaskFits, Fresh
      <4>2. Unanswered(c)' /\ ~Routes(h, c) BY <1>4, <4>1, Zenon
      <4>3. QED BY <4>1, <4>2, Zenon
    <3>2. CASE task[c].pc \in Fresh
      <4>1. StaysConnected(c) BY <3>1, <3>2, Zenon DEF StaysConnected, Connected
      <4>2. QED BY <1>1, <2>1, <3>1, <3>2, <4>1, TaskStays, Zenon
    <3>3. CASE task[c].pc \notin Fresh
      BY <1>1, <2>1, <3>3, Zenon DEF TaskFits, Fresh, Cursor, Terminal
    <3>4. QED BY <3>2, <3>3, Zenon
  <2>2. CASE task'[c] # task[c] BY <1>5, <2>2, Zenon
  <2>3. QED BY <2>1, <2>2, Zenon
<1>9. ASSUME NEW c \in Clients PROVE ClientFits(c)'
  <2>1. CASE Routes(h, c) \/ \E s \in subs : s.client = c BY <2>1, Zenon
  <2>2. CASE ~Routes(h, c) /\ \A s \in subs : s.client # c
    <3>1. client'[c] = client[c] /\ task'[c] = task[c] BY <2>2, Zenon
    <3>2. QED BY <1>1, <3>1, ClientStays, Zenon
  <2>3. QED BY <2>1, <2>2, Zenon
<1>10. ASSUME NEW s \in subs' PROVE SubFits(s)'
  <2>1. s.client \in Clients BY Zenon DEF Subscriptions
  <2>2. Unanswered(s.client)' BY <1>4, <1>5, <1>6, <2>1, Zenon
  <2>3. QED BY <2>2, Zenon DEF SubFits
<1>11. \A i, j \in 1..Len(outbound') : \A d \in Clients :
           Routes(outbound'[i], d) /\ Routes(outbound'[j], d) => i = j
  <2> SUFFICES ASSUME NEW i \in 1..Len(outbound'), NEW j \in 1..Len(outbound'), NEW d \in Clients,
                      Routes(outbound'[i], d), Routes(outbound'[j], d)
               PROVE  i = j
    BY Zenon
  <2>1. i + 1 \in 1..Len(outbound) /\ j + 1 \in 1..Len(outbound)
        /\ Routes(outbound[i + 1], d) /\ Routes(outbound[j + 1], d)
    BY <1>2, Zenon
  <2>2. i + 1 = j + 1 BY <1>1, <2>1, Zenon
  <2>3. QED BY <1>2, <2>2
<1>12. phase' \in Phases /\ events' \in Nat BY Zenon DEF DeliveryInv
<1>13. QED BY <1>1, <1>2, <1>7, <1>8, <1>9, <1>10, <1>11, <1>12, Zenon DEF DeliveryInv

\* The head of the channel, when it is an answer.
LEMMA HeadIsAnswer ==
    ASSUME DeliveryInv, outbound # <<>>, NEW h, h = Head(outbound), h.kind = "routed"
    PROVE  /\ h \in Messages /\ h.to \in Clients /\ h.batch \in Batches /\ h.subscribe \in BOOLEAN
           /\ MessageFits(h)
           /\ \A c : Routes(h, c) <=> c = h.to
           /\ \A s \in subs : s.client # h.to /\ s.client \in Clients
           /\ task[h.to] \in TaskRecord /\ client[h.to] \in ClientRecord
           /\ TaskFits(h.to) /\ ClientFits(h.to)
           /\ task[h.to].pc \notin Fresh
<1>1. outbound \in Seq(Messages) BY DEF DeliveryInv
<1>2. h = outbound[1] /\ 1 \in 1..Len(outbound) /\ h \in Messages BY <1>1
<1>3. h \in Queued /\ h.to \in Clients /\ h.batch \in Batches /\ h.subscribe \in BOOLEAN
  BY <1>2 DEF Queued, Messages
<1>4. Routes(h, h.to) /\ ~Unanswered(h.to) BY <1>3 DEF Routes, Unanswered
<1>5. \A s \in subs : s.client # h.to /\ s.client \in Clients
  BY <1>4, Zenon DEF DeliveryInv, SubFits, Subscriptions
<1>6. /\ task[h.to] \in TaskRecord /\ client[h.to] \in ClientRecord
      /\ TaskFits(h.to) /\ ClientFits(h.to) /\ MessageFits(h)
  BY <1>3, Zenon DEF DeliveryInv
<1>7. task[h.to].pc \notin Fresh BY <1>4, <1>6, Zenon DEF TaskFits, Fresh
<1>8. QED BY <1>2, <1>3, <1>5, <1>6, <1>7, Zenon DEF Routes

\* The handler of a subscribing answer, told of its registration or dropped.
LEMMA RegisteredFits ==
    ASSUME DeliveryInv, UNCHANGED <<phase, events>>, NEW c \in Clients, task[c].pc = "sent",
           NEW r, r = [task[c] EXCEPT !.pc = "registered"] \/ r = Returned(task[c].kind),
           task' = [task EXCEPT ![c] = r]
    PROVE  /\ task' \in [Clients -> TaskRecord] /\ task'[c].pc \notin Fresh /\ TaskFits(c)'
           /\ task'[c].kind = task[c].kind
           /\ \A d \in Clients : d # c => task'[d] = task[d]
<1>1. task \in [Clients -> TaskRecord] /\ task[c] \in TaskRecord /\ TaskFits(c) BY DEF DeliveryInv
<1>2. task[c].kind \in Observing /\ task[c].after <= events /\ (Terminal => task[c].after < events)
  BY <1>1 DEF TaskFits, Cursor
<1>3. CASE r = [task[c] EXCEPT !.pc = "registered"]
  <2>1. r \in TaskRecord BY <1>1, <1>3 DEF TaskRecord, TaskPcs
  <2>2. r.pc = "registered" /\ r.kind = task[c].kind /\ r.after = task[c].after
    BY <1>1, <1>3 DEF TaskRecord
  <2>3. task' \in [Clients -> TaskRecord] /\ task'[c] = r BY <1>1, <2>1
  <2>4. QED BY <1>1, <1>2, <2>2, <2>3 DEF TaskFits, Cursor, Terminal, Fresh
<1>4. CASE r = Returned(task[c].kind)
  <2>1. r = [pc |-> "done", kind |-> task[c].kind, after |-> 0, to |-> 0]
    BY <1>2, <1>4 DEF Returned
  <2>2. r \in TaskRecord BY <1>1, <2>1 DEF TaskRecord, TaskPcs
  <2>3. task' \in [Clients -> TaskRecord] /\ task'[c] = r BY <1>1, <2>2
  <2>4. r.pc = "done" /\ r.kind = task[c].kind BY <2>1
  <2>5. QED BY <1>1, <2>3, <2>4 DEF TaskFits, Fresh
<1>5. QED BY <1>3, <1>4

\* Delivering an answer keeps the invariant.
LEMMA DeliverRoutedKeeps == ASSUME DeliveryInv, DeliverRouted PROVE DeliveryInv'
<1>1. PICK h : h = Head(outbound) OBVIOUS
<1>2. UNCHANGED <<phase, events>> /\ outbound # <<>> /\ outbound' = Tail(outbound) /\ h.kind = "routed"
  BY <1>1 DEF DeliverRouted
<1>3. /\ client' = [client EXCEPT ![h.to] = Receive(client[h.to], h.batch)]
      /\ subs' = IF h.subscribe /\ Sends(h.to, h.batch)
                 THEN subs \cup {[client |-> h.to, last |-> h.batch.to,
                                  before |-> {s.client : s \in subs}]}
                 ELSE subs
      /\ task' = IF h.subscribe THEN [task EXCEPT ![h.to].pc = "registered"] ELSE task
  BY <1>1 DEF DeliverRouted
<1>4. PICK c : c = h.to OBVIOUS
<1>5. PICK b : b = h.batch OBVIOUS
<1>6. /\ h \in Messages /\ c \in Clients /\ b \in Batches /\ h.subscribe \in BOOLEAN
      /\ MessageFits(h)
      /\ \A d : Routes(h, d) <=> d = c
      /\ \A s \in subs : s.client # c /\ s.client \in Clients
      /\ task[c] \in TaskRecord /\ client[c] \in ClientRecord
      /\ TaskFits(c) /\ ClientFits(c) /\ task[c].pc \notin Fresh
  BY <1>1, <1>2, <1>4, <1>5, HeadIsAnswer, Zenon
<1>7. task \in [Clients -> TaskRecord] /\ client \in [Clients -> ClientRecord]
      /\ subs \subseteq Subscriptions /\ events \in Nat /\ b.from \in Nat /\ b.to \in Nat
      /\ client[c].last \in Nat
  BY <1>6, Zenon DEF DeliveryInv, Batches, ClientRecord
<1>8. /\ client[c].state = "open" => Empty(b) \/ b.from = client[c].last
      /\ h.subscribe => task[c].pc = "sent" /\ ~b.result /\ task[c].kind \in Observing
      /\ task[c].kind \in Observing =>
           /\ client[c].state = "open" => b.from = client[c].last
           /\ b.result => Terminal /\ b.to = events
  BY <1>2, <1>4, <1>5, <1>6, Zenon DEF MessageFits, TaskFits, Connected
<1>9. PICK x : x = Receive(client[c], b) OBVIOUS
<1>10. client[c].state = "open" => Empty(b) \/ client[c].last <= b.from BY <1>7, <1>8
<1>11. /\ x \in ClientRecord
       /\ x.state = "repeated" => client[c].state = "repeated"
       /\ x.state \in {"open", "result"} =>
            \/ x = client[c] /\ client[c].state = "result"
            \/ /\ client[c].state = "open" /\ x.last = (IF Empty(b) THEN client[c].last ELSE b.to)
               /\ x.state = "result" <=> b.result
  BY <1>6, <1>9, <1>10, ReceiveFits, Zenon
<1>12. client' \in [Clients -> ClientRecord] /\ client'[c] = x
       /\ \A d \in Clients : d # c => client'[d] = client[d]
  <2>1. client' = [client EXCEPT ![c] = x] BY <1>3, <1>4, <1>5, <1>9
  <2>2. QED BY <1>6, <1>7, <1>11, <2>1, Zenon
<1>13. /\ task' \in [Clients -> TaskRecord]
       /\ \A d \in Clients : d # c => task'[d] = task[d]
       /\ task'[c].pc \notin Fresh /\ task'[c].kind = task[c].kind
       /\ task'[c] = task[c] \/ TaskFits(c)'
  <2>1. CASE h.subscribe
    <3>1. PICK r : r = [task[c] EXCEPT !.pc = "registered"] BY Zenon
    <3>2. task' = [task EXCEPT ![c] = r] BY <1>3, <1>4, <1>7, <2>1, <3>1
    <3>3. QED BY <1>2, <1>6, <1>8, <2>1, <3>1, <3>2, RegisteredFits, Zenon
  <2>2. CASE ~h.subscribe BY <1>3, <1>6, <1>7, <2>2
  <2>3. QED BY <2>1, <2>2, Zenon
<1>14. Connected(c)' => Connected(c) /\ x.last = (IF Empty(b) THEN client[c].last ELSE b.to)
  BY <1>11, <1>12, Zenon DEF Connected
<1>15. ClientFits(c)'
  <2>1. x.state # "repeated" BY <1>6, <1>11, Zenon DEF ClientFits
  <2>2. ASSUME x.state = "result", task[c].kind \in Observing PROVE Terminal /\ x.last >= events
    <3>1. CASE x = client[c] /\ client[c].state = "result" BY <1>6, <2>2, <3>1, Zenon DEF ClientFits
    <3>2. CASE /\ client[c].state = "open" /\ x.last = (IF Empty(b) THEN client[c].last ELSE b.to)
               /\ b.result
      BY <1>7, <1>8, <2>2, <3>2 DEF Empty
    <3>3. QED BY <1>11, <2>2, <3>1, <3>2, Zenon
  <2>3. QED BY <1>2, <1>12, <1>13, <2>1, <2>2, Zenon DEF ClientFits, Terminal
<1>16. subs' = subs \/ h.subscribe BY <1>3
<1>17. ASSUME NEW s \in subs', s \notin subs
       PROVE  /\ s \in Subscriptions /\ s.client = c
              /\ Connected(c)' => s.last = client'[c].last
  <2>1. h.subscribe /\ s = [client |-> c, last |-> b.to, before |-> {t.client : t \in subs}]
    BY <1>3, <1>4, <1>5, <1>17
  <2>2. {t.client : t \in subs} \in SUBSET Clients BY <1>6, Zenon
  <2>3. s \in Subscriptions /\ s.client = c /\ s.last = b.to
    BY <1>6, <1>7, <2>1, <2>2, Zenon DEF Subscriptions
  <2>4. Connected(c)' => b.to = client'[c].last
    BY <1>7, <1>8, <1>12, <1>14, <2>1, Zenon DEF Empty, Connected
  <2>5. QED BY <2>3, <2>4
<1>18. ASSUME NEW s \in subs'
       PROVE  /\ Routes(h, s.client) \/ \E t \in subs : t.client = s.client
              /\ Routes(h, s.client) => task'[s.client].pc \notin Fresh
              /\ Connected(s.client)' => s.last = client'[s.client].last
              /\ s \in Subscriptions
  <2>1. CASE s \in subs
    <3>1. SubFits(s) /\ s.client # c /\ s.client \in Clients BY <1>6, <2>1, Zenon DEF DeliveryInv
    <3>2. client'[s.client] = client[s.client] BY <1>12, <3>1, Zenon
    <3>3. QED BY <1>6, <1>7, <2>1, <3>1, <3>2, Zenon DEF SubFits, Connected
  <2>2. CASE s \notin subs BY <1>6, <1>13, <1>17, <2>2, Zenon
  <2>3. QED BY <2>1, <2>2, Zenon
<1>19. subs' \subseteq Subscriptions BY <1>18, Zenon
<1>20. \A d \in Clients : Connected(d)' => Connected(d) BY <1>12, <1>14, Zenon DEF Connected
<1>21. \A d \in Clients : Routes(h, d) \/ (\E s \in subs : s.client = d) => ClientFits(d)'
  <2>1. ASSUME NEW d \in Clients, d # c PROVE ClientFits(d)'
    <3>1. client'[d] = client[d] /\ task'[d] = task[d] /\ Advances
      BY <1>2, <1>12, <1>13, <2>1, Zenon DEF Advances, DeliveryInv
    <3>2. QED BY <3>1, ClientStays, Zenon
  <2>2. QED BY <1>15, <2>1
<1>22. QED
  BY <1>1, <1>2, <1>6, <1>12, <1>13, <1>18, <1>19, <1>20, <1>21, LoopMoves, ZenonT(40)

\* Failing to deliver an answer keeps the invariant.
LEMMA DeliverRoutedFailsKeeps == ASSUME DeliveryInv, DeliverRoutedFails PROVE DeliveryInv'
<1>1. PICK h : h = Head(outbound) OBVIOUS
<1>2. UNCHANGED <<phase, events, subs>> /\ outbound # <<>> /\ outbound' = Tail(outbound)
      /\ h.kind = "routed"
  BY <1>1 DEF DeliverRoutedFails
<1>3. PICK c : c = h.to OBVIOUS
<1>4. /\ client' = [client EXCEPT ![c] = Lost("broken")]
      /\ \E next \in {[task[c] EXCEPT !.pc = "registered"], Returned(task[c].kind)} :
           task' = IF h.subscribe THEN [task EXCEPT ![c] = next] ELSE task
  BY <1>1, <1>3, Zenon DEF DeliverRoutedFails
<1>5. /\ c \in Clients /\ h.subscribe \in BOOLEAN /\ MessageFits(h)
      /\ \A d : Routes(h, d) <=> d = c
      /\ \A s \in subs : s.client # c /\ s.client \in Clients
      /\ task[c].pc \notin Fresh
  BY <1>1, <1>2, <1>3, HeadIsAnswer, Zenon
<1>6. task \in [Clients -> TaskRecord] /\ client \in [Clients -> ClientRecord]
      /\ subs \subseteq Subscriptions /\ Advances
  BY <1>2, Zenon DEF DeliveryInv, Advances
<1>7. h.subscribe => task[c].pc = "sent" BY <1>2, <1>3, <1>5, Zenon DEF MessageFits
<1>8. PICK x : x = Lost("broken") OBVIOUS
<1>9. x \in ClientRecord /\ x.state = "broken" BY <1>8 DEF Lost, ClientRecord, ClientStates
<1>10. client' \in [Clients -> ClientRecord] /\ client'[c] = x
       /\ \A d \in Clients : d # c => client'[d] = client[d]
  BY <1>4, <1>5, <1>6, <1>8, <1>9
<1>11. /\ task' \in [Clients -> TaskRecord]
       /\ \A d \in Clients : d # c => task'[d] = task[d]
       /\ task'[c].pc \notin Fresh
       /\ task'[c] = task[c] \/ TaskFits(c)'
  <2>1. CASE h.subscribe
    <3>1. PICK r : /\ r = [task[c] EXCEPT !.pc = "registered"] \/ r = Returned(task[c].kind)
                   /\ task' = [task EXCEPT ![c] = r]
      BY <1>4, <2>1, Zenon
    <3>2. QED BY <1>2, <1>5, <1>7, <2>1, <3>1, RegisteredFits, Zenon
  <2>2. CASE ~h.subscribe BY <1>4, <1>5, <1>6, <2>2
  <2>3. QED BY <2>1, <2>2, Zenon
<1>12. ClientFits(c)' BY <1>9, <1>10 DEF ClientFits
<1>13. \A d \in Clients : Connected(d)' => Connected(d) BY <1>9, <1>10 DEF Connected
<1>14. \A d \in Clients : Routes(h, d) \/ (\E s \in subs : s.client = d) => ClientFits(d)'
  <2>1. ASSUME NEW d \in Clients, d # c PROVE ClientFits(d)'
    <3>1. client'[d] = client[d] /\ task'[d] = task[d] BY <1>10, <1>11, <2>1, Zenon
    <3>2. QED BY <1>6, <3>1, ClientStays, Zenon
  <2>2. QED BY <1>12, <2>1
<1>15. ASSUME NEW s \in subs'
       PROVE  /\ Routes(h, s.client) \/ \E t \in subs : t.client = s.client
              /\ Routes(h, s.client) => task'[s.client].pc \notin Fresh
              /\ Connected(s.client)' => s.last = client'[s.client].last
  <2>1. SubFits(s) /\ s.client # c /\ s.client \in Clients /\ s \in subs
    BY <1>2, <1>5, Zenon DEF DeliveryInv
  <2>2. client'[s.client] = client[s.client] BY <1>10, <2>1, Zenon
  <2>3. QED BY <1>5, <2>1, <2>2, Zenon DEF SubFits, Connected
<1>16. subs' \subseteq Subscriptions BY <1>2, <1>6
<1>17. QED
  BY <1>1, <1>2, <1>5, <1>10, <1>11, <1>13, <1>14, <1>15, <1>16, LoopMoves, ZenonT(40)

\* A batch for the observers, at the head of the channel.
LEMMA HeadIsBatch ==
    ASSUME DeliveryInv, outbound # <<>>, NEW h, h = Head(outbound), h.kind = "persisted"
    PROVE  /\ h.batch \in Batches /\ h.batch.from <= h.batch.to
           /\ h.batch.result => Terminal /\ h.batch.from < events /\ h.batch.to = events
           /\ \A c : ~Routes(h, c)
<1>1. outbound \in Seq(Messages) BY DEF DeliveryInv
<1>2. h = outbound[1] /\ 1 \in 1..Len(outbound) /\ h \in Messages BY <1>1
<1>3. h \in Queued /\ h.batch \in Batches BY <1>2, Zenon DEF Queued, Messages
<1>4. MessageFits(h) BY <1>3 DEF DeliveryInv
<1>5. QED BY <1>3, <1>4, Zenon DEF MessageFits, Routes

\* What an observer that gets its share of a batch has then.
LEMMA ShareReceived ==
    ASSUME DeliveryInv, NEW b \in Batches, b.from <= b.to,
           b.result => Terminal /\ b.from < events /\ b.to = events,
           NEW s \in subs, NEW x, x = Receive(client[s.client], Share(b, s))
    PROVE  /\ x \in ClientRecord /\ x.state # "repeated"
           /\ x.state = "result" /\ task[s.client].kind \in Observing => Terminal /\ x.last >= events
           /\ x.state = "open" => Connected(s.client) /\ x.last = Share(b, s).to
           /\ Share(b, s).to \in Nat
<1>1. s \in Subscriptions /\ SubFits(s) BY Zenon DEF DeliveryInv
<1>2. s.client \in Clients /\ s.last \in Nat BY <1>1 DEF Subscriptions
<1>3. PICK r : r = client[s.client] BY Zenon
<1>4. r \in ClientRecord /\ ClientFits(s.client) /\ events \in Nat BY <1>2, <1>3, Zenon DEF DeliveryInv
<1>5. r.state = "open" => s.last = r.last BY <1>1, <1>3, Zenon DEF SubFits, Connected
<1>6. PICK y : y = MessagesForObserver(b, s.last) BY Zenon
<1>7. /\ y \in Batches /\ y.result = b.result /\ s.last <= y.from
      /\ Empty(y) => y.to = s.last
      /\ b.from < b.to => b.to <= y.to
  BY <1>2, <1>6, ShareFits, Zenon
<1>8. x = Receive(r, y) /\ y = Share(b, s) BY <1>3, <1>6, Zenon DEF Share
<1>9. y.to \in Nat /\ b.to \in Nat /\ b.from \in Nat BY <1>7, Zenon DEF Batches
<1>10. r.state = "open" => Empty(y) \/ r.last <= y.from BY <1>5, <1>7, Zenon
<1>11. /\ x \in ClientRecord
       /\ x.state = "repeated" => r.state = "repeated"
       /\ x.state \in {"open", "result"} =>
            \/ x = r /\ r.state = "result"
            \/ /\ r.state = "open" /\ x.last = (IF Empty(y) THEN r.last ELSE y.to)
               /\ x.state = "result" <=> y.result
  BY <1>4, <1>7, <1>8, <1>10, ReceiveFits
<1>12. r.state = "open" /\ x.last = (IF Empty(y) THEN r.last ELSE y.to) => x.last = y.to
  BY <1>5, <1>7, Zenon
<1>13. ASSUME x.state = "result", task[s.client].kind \in Observing PROVE Terminal /\ x.last >= events
  <2>1. CASE x = r /\ r.state = "result" BY <1>3, <1>4, <1>13, <2>1, Zenon DEF ClientFits
  <2>2. CASE r.state = "open" /\ x.last = y.to /\ b.result
    BY <1>4, <1>7, <1>9, <2>2, Zenon
  <2>3. QED BY <1>7, <1>11, <1>12, <1>13, <2>1, <2>2, Zenon
<1>14. x.state # "repeated" BY <1>3, <1>4, <1>11, Zenon DEF ClientFits
<1>15. x.state = "open" => Connected(s.client) /\ x.last = y.to
  BY <1>3, <1>11, <1>12, Zenon DEF Connected
<1>16. QED BY <1>8, <1>9, <1>11, <1>13, <1>14, <1>15, Zenon

\* What a client has after a broadcast: its share if it observes, what it had if
\* not.
LEMMA ReceivedIs ==
    ASSUME NEW b, NEW O, NEW c \in Clients
    PROVE  \/ \E s \in O : s.client = c /\ Received(b, O)[c] = Receive(client[c], Share(b, s))
           \/ (\A s \in O : s.client # c) /\ Received(b, O)[c] = client[c]
<1>1. CASE \E s \in O : s.client = c
  <2>1. PICK s : s = CHOOSE t \in O : t.client = c OBVIOUS
  <2>2. s \in O /\ s.client = c BY <1>1, <2>1
  <2>3. Received(b, O)[c] = Receive(client[c], Share(b, s)) BY <1>1, <2>1, Zenon DEF Received
  <2>4. QED BY <2>2, <2>3, Zenon
<1>2. CASE ~\E s \in O : s.client = c BY <1>2, Zenon DEF Received
<1>3. QED BY <1>1, <1>2, Zenon

\* The clients after a batch went to some of the observers.
LEMMA ReceivedFits ==
    ASSUME DeliveryInv, NEW b \in Batches, b.from <= b.to,
           b.result => Terminal /\ b.from < events /\ b.to = events,
           NEW O \in SUBSET subs, NEW c \in Clients, NEW x, x = Received(b, O)[c]
    PROVE  /\ x \in ClientRecord /\ x.state # "repeated"
           /\ x.state = "result" /\ task[c].kind \in Observing => Terminal /\ x.last >= events
           /\ x.state = "open" => Connected(c)
           /\ (\A s \in O : s.client # c) => x = client[c]
           /\ x.state = "open" => \A s \in O : s.client = c => x.last = Share(b, s).to
<1>1. client[c] \in ClientRecord /\ ClientFits(c) BY Zenon DEF DeliveryInv
<1>2. CASE (\A s \in O : s.client # c) /\ x = client[c]
  BY <1>1, <1>2, Zenon DEF ClientFits, Connected
<1>3. ASSUME NEW s \in O, s.client = c, x = Receive(client[c], Share(b, s))
      PROVE  /\ x \in ClientRecord /\ x.state # "repeated"
             /\ x.state = "result" /\ task[c].kind \in Observing => Terminal /\ x.last >= events
             /\ x.state = "open" => Connected(c)
             /\ x.state = "open" => \A t \in O : t.client = c => x.last = Share(b, t).to
  <2>1. /\ x \in ClientRecord /\ x.state # "repeated"
        /\ x.state = "result" /\ task[c].kind \in Observing => Terminal /\ x.last >= events
        /\ x.state = "open" => Connected(c) /\ x.last = Share(b, s).to
    BY <1>3, ShareReceived, Zenon
  <2>2. ASSUME x.state = "open", NEW t \in O, t.client = c PROVE x.last = Share(b, t).to
    <3>1. SubFits(t) /\ SubFits(s) BY Zenon DEF DeliveryInv
    <3>2. t.last = s.last BY <1>3, <2>1, <2>2, <3>1, Zenon DEF SubFits
    <3>3. QED BY <2>1, <2>2, <3>2, Zenon DEF Share
  <2>3. QED BY <2>1, <2>2, Zenon
<1>4. \/ \E s \in O : s.client = c /\ x = Receive(client[c], Share(b, s))
      \/ (\A s \in O : s.client # c) /\ x = client[c]
  BY ReceivedIs
<1>5. QED BY <1>2, <1>3, <1>4, Zenon

\* A broadcast keeps the invariant.
LEMMA DeliverPersistedKeeps == ASSUME DeliveryInv, DeliverPersisted PROVE DeliveryInv'
<1>1. PICK h : h = Head(outbound) OBVIOUS
<1>2. PICK b : b = h.batch OBVIOUS
<1>3. UNCHANGED <<phase, events, task>> /\ outbound # <<>> /\ outbound' = Tail(outbound)
      /\ h.kind = "persisted" /\ client' = Received(b, subs)
      /\ subs' = {[s EXCEPT !.last = Share(b, s).to] :
                    s \in {t \in subs : Sends(t.client, Share(b, t)) /\ ~b.result}}
  BY <1>1, <1>2 DEF DeliverPersisted
<1>4. /\ b \in Batches /\ b.from <= b.to
      /\ b.result => Terminal /\ b.from < events /\ b.to = events
      /\ \A c : ~Routes(h, c)
  BY <1>1, <1>2, <1>3, HeadIsBatch, Zenon
<1>5. task \in [Clients -> TaskRecord] /\ subs \subseteq Subscriptions BY Zenon DEF DeliveryInv
<1>6. ASSUME NEW c \in Clients
      PROVE  /\ client'[c] \in ClientRecord /\ client'[c].state # "repeated"
             /\ client'[c].state = "result" /\ task[c].kind \in Observing
                  => Terminal /\ client'[c].last >= events
             /\ client'[c].state = "open" => Connected(c)
             /\ (\A s \in subs : s.client # c) => client'[c] = client[c]
             /\ client'[c].state = "open" => \A s \in subs : s.client = c => client'[c].last = Share(b, s).to
  <2>1. PICK x : x = Received(b, subs)[c] OBVIOUS
  <2>2. x = client'[c] BY <1>3, <2>1
  <2>3. subs \in SUBSET subs OBVIOUS
  <2>4. /\ x \in ClientRecord /\ x.state # "repeated"
        /\ x.state = "result" /\ task[c].kind \in Observing => Terminal /\ x.last >= events
        /\ x.state = "open" => Connected(c)
        /\ (\A s \in subs : s.client # c) => x = client[c]
        /\ x.state = "open" => \A s \in subs : s.client = c => x.last = Share(b, s).to
    BY <1>4, <2>1, <2>3, ReceivedFits
  <2>5. QED BY <2>2, <2>4, Zenon
<1>7. client' \in [Clients -> ClientRecord]
  <2>1. client' = [c \in Clients |-> client'[c]] BY <1>3 DEF Received
  <2>2. QED BY <1>6, <2>1, Zenon
<1>8. \A c \in Clients : ClientFits(c)' BY <1>3, <1>6 DEF ClientFits, Terminal
<1>9. \A c \in Clients : Connected(c)' => Connected(c) BY <1>6, Zenon DEF Connected
<1>10. ASSUME NEW s \in subs'
       PROVE  /\ s \in Subscriptions /\ \E t \in subs : t.client = s.client
              /\ Connected(s.client)' => s.last = client'[s.client].last
  <2>1. PICK t \in subs : s = [t EXCEPT !.last = Share(b, t).to] BY <1>3
  <2>2. t \in Subscriptions /\ t.client \in Clients BY <1>5 DEF Subscriptions
  <2>3. PICK y : y = Receive(client[t.client], Share(b, t)) OBVIOUS
  <2>4. Share(b, t).to \in Nat BY <1>4, <2>3, ShareReceived, Zenon
  <2>5. s \in Subscriptions /\ s.client = t.client /\ s.last = Share(b, t).to
    BY <2>1, <2>2, <2>4 DEF Subscriptions
  <2>6. QED BY <1>6, <2>2, <2>5, Zenon DEF Connected
<1>11. subs' \subseteq Subscriptions BY <1>10, Zenon
<1>12. \A c \in Clients : (\A s \in subs : s.client # c) => client'[c] = client[c] BY <1>6, Zenon
<1>13. task' \in [Clients -> TaskRecord] /\ \A c \in Clients : task'[c] = task[c] BY <1>3, <1>5
<1>14. QED
  BY <1>1, <1>3, <1>4, <1>7, <1>8, <1>9, <1>10, <1>11, <1>12, <1>13, LoopMoves

\* A broadcast that breaks off at one observer keeps the invariant.
LEMMA DeliverPersistedFailsKeeps == ASSUME DeliveryInv, DeliverPersistedFails PROVE DeliveryInv'
<1>1. PICK h : h = Head(outbound) OBVIOUS
<1>2. PICK b : b = h.batch OBVIOUS
<1>3. UNCHANGED <<phase, events, task>> /\ outbound # <<>> /\ outbound' = Tail(outbound)
      /\ h.kind = "persisted" /\ subs' = {}
  BY <1>1, Zenon DEF DeliverPersistedFails
<1>4. PICK f \in subs :
        client' = [c \in Clients |->
          IF c = f.client THEN Lost("broken")
          ELSE IF Received(b, {s \in subs : s.client \in f.before})[c].state = "open"
                  /\ \E s \in subs : s.client = c
          THEN Lost("forgotten")
          ELSE Received(b, {s \in subs : s.client \in f.before})[c]]
  BY <1>1, <1>2, Zenon DEF DeliverPersistedFails
<1>5. /\ b \in Batches /\ b.from <= b.to
      /\ b.result => Terminal /\ b.from < events /\ b.to = events
      /\ \A c : ~Routes(h, c)
  BY <1>1, <1>2, <1>3, HeadIsBatch, Zenon
<1>6. task \in [Clients -> TaskRecord] /\ subs \subseteq Subscriptions BY Zenon DEF DeliveryInv
<1>7. PICK O \in SUBSET subs : O = {s \in subs : s.client \in f.before} BY Zenon
<1>8. ASSUME NEW c \in Clients
      PROVE  /\ client'[c] \in ClientRecord /\ client'[c].state # "repeated"
             /\ client'[c].state = "result" /\ task[c].kind \in Observing
                  => Terminal /\ client'[c].last >= events
             /\ client'[c].state = "open" => Connected(c)
             /\ (\A s \in subs : s.client # c) => client'[c] = client[c]
  <2>1. PICK x : x = Received(b, O)[c] OBVIOUS
  <2>2. /\ x \in ClientRecord /\ x.state # "repeated"
        /\ x.state = "result" /\ task[c].kind \in Observing => Terminal /\ x.last >= events
        /\ x.state = "open" => Connected(c)
        /\ (\A s \in O : s.client # c) => x = client[c]
    BY <1>5, <2>1, ReceivedFits
  <2>3. CASE client'[c] = x /\ c # f.client BY <1>7, <2>2, <2>3, Zenon
  <2>4. ASSUME NEW w \in {"broken", "forgotten"}, client'[c] = Lost(w), \E s \in subs : s.client = c
        PROVE  client'[c] \in ClientRecord /\ client'[c].state \in {"broken", "forgotten"}
    <3>1. client'[c] = [state |-> w, last |-> 0] BY <2>4, Zenon DEF Lost
    <3>2. w \in ClientStates BY DEF ClientStates
    <3>3. QED BY <3>1, <3>2 DEF ClientRecord
  <2>5. \/ client'[c] = x /\ c # f.client
        \/ \E w \in {"broken", "forgotten"} : client'[c] = Lost(w) /\ \E s \in subs : s.client = c
    BY <1>4, <1>7, <2>1, Zenon
  <2>6. QED BY <2>3, <2>4, <2>5, Zenon
<1>9. client' \in [Clients -> ClientRecord]
  <2>1. client' = [c \in Clients |-> client'[c]] BY <1>4, Zenon
  <2>2. QED BY <1>8, <2>1, Zenon
<1>10. \A c \in Clients : ClientFits(c)' BY <1>3, <1>8, Zenon DEF ClientFits, Terminal
<1>11. \A c \in Clients : Connected(c)' => Connected(c) BY <1>8, Zenon DEF Connected
<1>12. \A c \in Clients : (\A s \in subs : s.client # c) => client'[c] = client[c] BY <1>8, Zenon
<1>13. task' \in [Clients -> TaskRecord] /\ \A c \in Clients : task'[c] = task[c] BY <1>3, <1>6
<1>14. subs' \subseteq Subscriptions /\ \A s \in subs' : FALSE BY <1>3
<1>15. QED
  BY <1>1, <1>3, <1>5, <1>9, <1>10, <1>11, <1>12, <1>13, <1>14, LoopMoves, Zenon

\* Initially there is nobody and nothing.
LEMMA DeliveryInitInv == DeliveryInit => DeliveryInv
<1> SUFFICES ASSUME DeliveryInit PROVE DeliveryInv OBVIOUS
<1>1. phase = "none" /\ events = 0 /\ outbound = <<>> /\ subs = {} BY DEF DeliveryInit
<1>2. PICK r : r = [Returned(NoOne) EXCEPT !.pc = "idle"] BY Zenon
<1>3. r = [pc |-> "idle", kind |-> NoOne, after |-> 0, to |-> 0] BY <1>2, DeliveryAssumption DEF Returned
<1>4. r \in TaskRecord BY <1>3, Zenon DEF TaskRecord, TaskPcs, Asked
<1>5. PICK x : x = [state |-> "idle", last |-> 0] BY Zenon
<1>6. x \in ClientRecord BY <1>5 DEF ClientRecord, ClientStates
<1>7. task = [c \in Clients |-> r] /\ client = [c \in Clients |-> x] BY <1>2, <1>5 DEF DeliveryInit
<1>8. outbound \in Seq(Messages) /\ Len(outbound) = 0 /\ Queued = {} BY <1>1 DEF Queued
<1>9. \A c \in Clients : TaskFits(c) /\ ClientFits(c)
  BY <1>1, <1>3, <1>5, <1>7, <1>8, Zenon DEF TaskFits, ClientFits, Unanswered
<1>10. phase \in Phases BY <1>1 DEF Phases
<1>11. QED BY <1>1, <1>4, <1>6, <1>7, <1>8, <1>9, <1>10 DEF DeliveryInv

\* Every behaviour of delivery keeps the inductive invariant.
THEOREM DeliveryInvariant == DeliverySpec => []DeliveryInv
<1>1. DeliveryInit => DeliveryInv BY DeliveryInitInv
<1>2. DeliveryInv /\ [DeliveryNext]_deliveryVars => DeliveryInv'
  <2> SUFFICES ASSUME DeliveryInv, [DeliveryNext]_deliveryVars PROVE DeliveryInv' OBVIOUS
  <2>1. CASE Start \/ Progress \/ Finish \/ Expire BY <2>1, StoreStepsKeepDelivery
  <2>2. CASE Publish BY <2>2, PublishKeepsDelivery
  <2>3. ASSUME NEW c \in Clients, Accept(c) \/ Target(c) \/ GiveUp(c) PROVE DeliveryInv'
    BY <2>3, AcceptKeeps, TargetKeeps, GiveUpKeeps
  <2>4. ASSUME NEW c \in Clients, Handler(c) PROVE DeliveryInv'
    BY <2>4, ObserveKeeps, SubscribeKeeps, AnsweredOnceKeeps, CancelKeeps, CatchUpKeeps, Zenon DEF Handler
  <2>5. CASE DeliverOutbound
    BY <2>5, DeliverRoutedKeeps, DeliverRoutedFailsKeeps, DeliverPersistedKeeps,
       DeliverPersistedFailsKeeps DEF DeliverOutbound
  <2>6. CASE UNCHANGED deliveryVars
    <3>1. UNCHANGED <<phase, events, outbound, subs, task, client>> BY <2>6 DEF deliveryVars
    <3>2. Advances /\ (phase' # "none" => events' > 0) BY <3>1, Zenon DEF DeliveryInv, Advances
    <3>3. QED BY <3>1, <3>2, StoreKeepsDelivery
  <2>7. QED BY <2>1, <2>2, <2>3, <2>4, <2>5, <2>6 DEF DeliveryNext
<1>3. QED BY <1>1, <1>2, PTL DEF DeliverySpec

\* For any number of clients, events and transport faults: no client is sent an
\* event twice, and an observer that has a result has every event up to the
\* terminal one (messages_for_observer, deliver_outbound).
THEOREM ResultsFollowEvents == DeliverySpec => []ResultAfterEvents
<1>1. DeliveryInv => ResultAfterEvents BY Zenon DEF DeliveryInv, ClientFits, ResultAfterEvents
<1>2. QED BY <1>1, DeliveryInvariant, PTL
=============================================================================
