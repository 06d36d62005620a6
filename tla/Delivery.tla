------------------------------ MODULE Delivery ------------------------------
(***************************************************************************)
(* How the callers of one durable request learn of its events and result:  *)
(* the handlers of crates/pam_daemon/src/lifecycle.rs that read the store  *)
(* and then subscribe (flow.run, durable status, wait), the ones that read *)
(* once (replay, result), cancel, the scheduler and the worker that        *)
(* publish, the single loop that delivers (deliver_outbound), and the      *)
(* client that receives (crates/pam_client/src/status.rs).                 *)
(*                                                                         *)
(* An event is its sequence number: a batch of messages is the interval    *)
(* (from, to] with or without the result.  The handlers, the worker and    *)
(* the scheduler reach the loop through one channel, in the order they     *)
(* send; what they send they have read from the store earlier.             *)
(***************************************************************************)
EXTENDS Naturals, Sequences, FiniteSets

CONSTANTS Clients,     \* one request and one connection each
          Kinds,       \* what each client may ask for
          MaxEvents,   \* bound on the events of the observed request
          MaxFaults,   \* bound on transport faults
          NoOne

VARIABLES phase,       \* the durable request: "none", "queued", "running",
                       \* "cancelling", "terminal"
          events,      \* its events are 1..events
          owed,        \* batches somebody still has to read and send, by
                       \* who owes them: the worker's and the recovery's
          outbound,    \* the channel into the serve loop
          subs,        \* the loop's subscriptions, each with the cursor of its
                       \* observer and the clients registered before it
          task,        \* the handler of every client
          client,      \* what every client has received
          faults

deliveryVars == <<phase, events, owed, outbound, subs, task, client, faults>>

Terminal == phase = "terminal"

Observing == {"run", "status", "wait"}

\* NoOne stands for every kind of request that does not observe.
ASSUME DeliveryAssumption == NoOne \notin Observing

\* A handler task that has returned.
Returned(k) ==
    [pc |-> "done", kind |-> IF k \in Observing THEN k ELSE NoOne, after |-> 0, to |-> 0]

\* A client whose exchange ended without a result.
Lost(state) == [state |-> state, last |-> 0]

DeliveryInit ==
    /\ phase = "none" /\ events = 0 /\ owed = 0
    /\ outbound = <<>> /\ subs = {}
    /\ task = [c \in Clients |-> [Returned(NoOne) EXCEPT !.pc = "idle"]]
    /\ client = [c \in Clients |-> [state |-> "idle", last |-> 0]]
    /\ faults = 0

----------------------------------------------------------------------------
(* The durable request, as the store records it.                           *)

Record(next) ==
    /\ events < MaxEvents
    /\ events' = events + 1
    /\ phase' = next

\* Claiming the request records its start; nothing is published.
Start ==
    /\ phase = "queued"
    /\ Record("running")
    /\ UNCHANGED <<owed, outbound, subs, task, client, faults>>

\* A flow transition saved by the worker: durable, and not published either.
Progress ==
    /\ phase = "running"
    /\ events < MaxEvents - 1
    /\ Record("running")
    /\ UNCHANGED <<owed, outbound, subs, task, client, faults>>

\* process_leased finished the request in the store and now owes the loop a
\* replay of everything.
Finish ==
    /\ phase \in {"running", "cancelling"}
    /\ Record("terminal")
    /\ owed' = owed + 1
    /\ UNCHANGED <<outbound, subs, task, client, faults>>

\* recover_expired_requests requeued it; the scheduler pass owes a replay.
Expire ==
    /\ phase = "running"
    /\ events < MaxEvents - 2
    /\ Record("queued")
    /\ owed' = owed + 1
    /\ UNCHANGED <<outbound, subs, task, client, faults>>

----------------------------------------------------------------------------
(* Messages.                                                               *)

\* replay and replay_messages: the events after a cursor, and the result
\* when the request is terminal.
Replay(after) ==
    [from |-> after, to |-> IF after > events THEN after ELSE events,
     result |-> Terminal]

Persisted(after) == [kind |-> "persisted", batch |-> Replay(after)]

Routed(c, batch, subscribe) ==
    [kind |-> "routed", to |-> c, batch |-> batch, subscribe |-> subscribe]

Send(message) == outbound' = Append(outbound, message)

Publish ==
    /\ owed > 0
    /\ owed' = owed - 1
    /\ Send(Persisted(0))
    /\ UNCHANGED <<phase, events, subs, task, client, faults>>

----------------------------------------------------------------------------
(* The handlers.                                                           *)

\* flow.run and a durable status accept the request, or find the one their
\* idempotency key already names.
Accept(c) ==
    /\ task[c].pc = "idle"
    /\ \E k \in Kinds[c] \cap {"run", "status"} :
         task' = [task EXCEPT ![c] = [pc |-> "read", kind |-> k, after |-> 0, to |-> 0]]
    /\ client' = [client EXCEPT ![c].state = "open"]
    /\ IF phase = "none" THEN Record("queued") ELSE UNCHANGED <<phase, events>>
    /\ UNCHANGED <<owed, outbound, subs, faults>>

\* The others name a target, and as cursor an event they have seen.
Target(c) ==
    /\ task[c].pc = "idle"
    /\ \E k \in Kinds[c] \cap {"wait", "replay", "result", "cancel"} :
       \E after \in IF k \in {"wait", "replay"} THEN 0..events ELSE {0} :
         /\ task' = [task EXCEPT ![c] =
                       IF phase = "none" THEN Returned(k)
                       ELSE [pc |-> "read", kind |-> k, after |-> after, to |-> 0]]
         /\ client' = [client EXCEPT
                         ![c] = IF phase = "none" THEN Lost("refused")
                                ELSE [state |-> "open", last |-> after]]
    /\ UNCHANGED <<phase, events, owed, outbound, subs, faults>>

\* The first read of an observing handler: a terminal request is answered
\* from the store, any other so far, with a subscription from there.
Observe(c) ==
    /\ task[c].pc = "read"
    /\ task[c].kind \in Observing
    /\ IF Terminal
       THEN /\ Send(Routed(c, Replay(task[c].after), FALSE))
            /\ task' = [task EXCEPT ![c] = Returned(@.kind)]
       ELSE /\ task' = [task EXCEPT ![c].pc = "seen", ![c].to = Replay(task[c].after).to]
            /\ UNCHANGED outbound
    /\ UNCHANGED <<phase, events, owed, subs, client, faults>>

\* What was read is sent after an await: the request may have ended, and its
\* result been published to the observers of that moment.
Subscribe(c) ==
    /\ task[c].pc = "seen"
    /\ Send(Routed(c, [from |-> task[c].after, to |-> task[c].to, result |-> FALSE], TRUE))
    /\ task' = [task EXCEPT ![c].pc = "sent", ![c].after = task[c].to, ![c].to = 0]
    /\ UNCHANGED <<phase, events, owed, subs, client, faults>>

\* handle_replay: the events after the cursor, then a Replay result or, under
\* the target's own identity, the stored one.
ReplayOnce(c) ==
    /\ task[c].pc = "read"
    /\ task[c].kind = "replay"
    /\ Send(Routed(c, [Replay(task[c].after) EXCEPT !.result = TRUE], FALSE))
    /\ task' = [task EXCEPT ![c] = Returned(@.kind)]
    /\ UNCHANGED <<phase, events, owed, subs, client, faults>>

\* handle_get_result: no events, the stored result or a Pending failure.
GetResult(c) ==
    /\ task[c].pc = "read"
    /\ task[c].kind = "result"
    /\ Send(Routed(c, [from |-> events, to |-> events, result |-> TRUE], FALSE))
    /\ task' = [task EXCEPT ![c] = Returned(@.kind)]
    /\ UNCHANGED <<phase, events, owed, subs, client, faults>>

\* target_cancel: a queued request ends at once, a running one is asked to,
\* and any other is left alone; then the answer to the canceller.
Cancel(c) ==
    /\ task[c].pc = "read"
    /\ task[c].kind = "cancel"
    /\ \/ phase = "queued" /\ Record("terminal")
       \/ phase = "running" /\ events < MaxEvents - 1 /\ Record("cancelling")
       \/ phase \in {"cancelling", "terminal"} /\ UNCHANGED <<phase, events>>
    /\ Send(Routed(c, [from |-> 0, to |-> 0, result |-> TRUE], FALSE))
    /\ task' = [task EXCEPT ![c].pc = "tell"]
    /\ UNCHANGED <<owed, subs, client, faults>>

\* Then the replay of the target for whoever observes it.
CancelTells(c) ==
    /\ task[c].pc = "tell"
    /\ Send(Persisted(0))
    /\ task' = [task EXCEPT ![c] = Returned(@.kind)]
    /\ UNCHANGED <<phase, events, owed, subs, client, faults>>

\* A handler that trusts the read it made before registering.
CatchUpNever(c) ==
    /\ task[c].pc = "registered"
    /\ task' = [task EXCEPT ![c] = Returned(@.kind)]
    /\ UNCHANGED <<phase, events, owed, outbound, subs, client, faults>>

\* Once the loop has registered the subscription the handler reads again,
\* from its own cursor (a durable status from the start), and sends what it
\* finds to every observer of the request.
CatchUp(c) ==
    /\ task[c].pc = "registered"
    /\ Send(Persisted(IF task[c].kind = "status" THEN 0 ELSE task[c].after))
    /\ task' = [task EXCEPT ![c] = Returned(@.kind)]
    /\ UNCHANGED <<phase, events, owed, subs, client, faults>>

----------------------------------------------------------------------------
(* The serve loop.                                                         *)

\* A share that is the whole batch.
MessagesUnfiltered(batch, last) == batch

Empty(batch) == batch.to = batch.from

\* messages_for_observer: events past the observer's cursor, results always.
\* The cursor moves with the events, so a share without any leaves it.
MessagesForObserver(batch, last) ==
    IF Empty(batch) \/ batch.to <= last THEN [batch EXCEPT !.from = last, !.to = last]
    ELSE [batch EXCEPT !.from = IF batch.from > last THEN batch.from ELSE last]

\* The client takes events in order and stops at a sequence it did not
\* expect, a later one or one it had; the result ends its exchange.
Receive(r, batch) ==
    IF r.state # "open" THEN r
    ELSE IF ~Empty(batch) /\ batch.from # r.last
    THEN Lost(IF batch.from > r.last THEN "gap" ELSE "repeated")
    ELSE [r EXCEPT !.last = IF Empty(batch) THEN @ ELSE batch.to,
                   !.state = IF batch.result THEN "result" ELSE "open"]

\* A client whose exchange is over has closed its connection.
Connected(c) == client[c].state = "open"

\* send_messages with nothing to send succeeds whoever is at the other end.
Sends(c, batch) == Connected(c) \/ (Empty(batch) /\ ~batch.result)

Fault ==
    /\ faults < MaxFaults
    /\ faults' = faults + 1

\* A client gives up at its own deadline, or dies.
GiveUp(c) ==
    /\ Connected(c)
    /\ Fault
    /\ client' = [client EXCEPT ![c] = Lost("gone")]
    /\ UNCHANGED <<phase, events, owed, outbound, subs, task>>

\* The answer to one client, and its subscription if the answer went out.
DeliverRouted ==
    /\ outbound # <<>> /\ Head(outbound).kind = "routed"
    /\ LET m == Head(outbound)
       IN  /\ client' = [client EXCEPT ![m.to] = Receive(@, m.batch)]
           /\ subs' = IF m.subscribe /\ Sends(m.to, m.batch)
                      THEN subs \cup {[client |-> m.to, last |-> m.batch.to,
                                       before |-> {s.client : s \in subs}]}
                      ELSE subs
           /\ task' = IF m.subscribe THEN [task EXCEPT ![m.to].pc = "registered"] ELSE task
    /\ outbound' = Tail(outbound)
    /\ UNCHANGED <<phase, events, owed, faults>>

\* The send fails other than by a closed connection, or its message does not
\* fit a frame and a failure goes out in its place: no subscription.  After
\* an error the handler's registration signal is dropped with the message.
DeliverRoutedFails ==
    /\ outbound # <<>> /\ Head(outbound).kind = "routed"
    /\ LET m == Head(outbound)
       IN  /\ Connected(m.to) /\ (~Empty(m.batch) \/ m.batch.result)
           /\ Fault
           /\ client' = [client EXCEPT ![m.to] = Lost("broken")]
           /\ \E next \in {[task[m.to] EXCEPT !.pc = "registered"],
                           Returned(task[m.to].kind)} :
                task' = IF m.subscribe THEN [task EXCEPT ![m.to] = next] ELSE task
    /\ outbound' = Tail(outbound)
    /\ UNCHANGED <<phase, events, owed, subs>>

Share(batch, s) == MessagesForObserver(batch, s.last)

\* What the given observers of a batch have received of it.
Received(batch, observers) ==
    [c \in Clients |->
        IF \E s \in observers : s.client = c
        THEN LET s == CHOOSE s \in observers : s.client = c
             IN  Receive(client[c], Share(batch, s))
        ELSE client[c]]

\* Every observer gets its share; it is retained with its cursor moved on
\* while the sends to it succeed and the batch is not terminal.
DeliverPersisted ==
    /\ outbound # <<>> /\ Head(outbound).kind = "persisted"
    /\ LET batch == Head(outbound).batch
           kept == {s \in subs : Sends(s.client, Share(batch, s)) /\ ~batch.result}
       IN  /\ client' = Received(batch, subs)
           /\ subs' = {[s EXCEPT !.last = Share(batch, s).to] : s \in kept}
    /\ outbound' = Tail(outbound)
    /\ UNCHANGED <<phase, events, owed, task, faults>>

\* A transport error other than a closed connection leaves deliver_outbound
\* with every observer already drained: the send to one failed, the earlier
\* observers got this batch, and all of them are forgotten with their
\* connections open.
DeliverPersistedFails ==
    /\ outbound # <<>> /\ Head(outbound).kind = "persisted"
    /\ Fault
    /\ LET batch == Head(outbound).batch
       IN  \E f \in subs :
             /\ Connected(f.client)
             /\ ~Empty(Share(batch, f)) \/ batch.result
             /\ LET got == Received(batch, {s \in subs : s.client \in f.before})
                IN  client' = [c \in Clients |->
                      IF c = f.client THEN Lost("broken")
                      ELSE IF got[c].state = "open" /\ \E s \in subs : s.client = c
                      THEN Lost("forgotten")
                      ELSE got[c]]
    /\ subs' = {}
    /\ outbound' = Tail(outbound)
    /\ UNCHANGED <<phase, events, owed, task>>

----------------------------------------------------------------------------
Handler(c) ==
    \/ Observe(c)
    \/ Subscribe(c)
    \/ ReplayOnce(c)
    \/ GetResult(c)
    \/ Cancel(c)
    \/ CancelTells(c)
    \/ CatchUp(c)

DeliverOutbound ==
    \/ DeliverRouted
    \/ DeliverRoutedFails
    \/ DeliverPersisted
    \/ DeliverPersistedFails

DeliveryNext ==
    \/ Start \/ Progress \/ Finish \/ Expire \/ Publish
    \/ \E c \in Clients : Accept(c) \/ Target(c) \/ Handler(c) \/ GiveUp(c)
    \/ DeliverOutbound

\* Spawned handler tasks, the serve loop and the leased worker are polled
\* until they end, and the scheduler claims what is queued.  Callers, faults
\* and lease expiry owe nobody a step.
DeliveryFairness ==
    /\ WF_deliveryVars(Start)
    /\ WF_deliveryVars(Finish)
    /\ WF_deliveryVars(Publish)
    /\ WF_deliveryVars(DeliverOutbound)
    /\ \A c \in Clients : WF_deliveryVars(Handler(c))

DeliverySpec == DeliveryInit /\ [][DeliveryNext]_deliveryVars /\ DeliveryFairness

----------------------------------------------------------------------------

\* Batches are replays from several cursors, read at different times and
\* broadcast to every observer.  Still no client is sent an event twice or
\* out of order, and whoever observed the request and got a result has every
\* event up to the terminal one (messages_for_observer, and one transaction
\* for the terminal event and the result).
ResultAfterEvents ==
    \A c \in Clients :
        /\ client[c].state # "repeated"
        /\ client[c].state = "result" /\ task[c].kind \in Observing
              => Terminal /\ client[c].last >= events

=============================================================================
