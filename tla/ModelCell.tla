----------------------------- MODULE ModelCell -----------------------------
(***************************************************************************)
(* The daemon's single model slot (crates/pam_daemon/src/model_cell.rs),   *)
(* the single-flight service in front of a mapped runtime                  *)
(* (model_service.rs) and the request handlers of lifecycle.rs that read   *)
(* or change them: model.load, model.unload, model.infer,                  *)
(* model.unregister, model.delete-weights, model.register, model.status,   *)
(* model.verify, model.sweep and the registry tier of a reset.             *)
(*                                                                         *)
(* A handler is one spawned task, so it can be overtaken at every await:   *)
(* its record holds the point it has reached and what it read before.      *)
(* A mapped runtime is a generation: two loads of one model are two        *)
(* generations, each with its worker task, its queue of one command and    *)
(* its cancellation tokens.                                                *)
(***************************************************************************)
EXTENDS Naturals, Sequences, FiniteSets

CONSTANTS Handlers,     \* request handlers, one request each
          Asks,         \* the operations each handler's request may name
          Models,       \* model keys
          Downloaded,   \* keys whose registration has https provenance
          MaxResets,    \* bound on registry resets
          None

VARIABLES registry,     \* keys with a row in the models table
          weights,      \* keys whose artifact is still a regular file
          loaded,       \* CellState.loaded: a generation, 0 when empty
          failure,      \* CellState.load_failure is set
          transition,   \* CellState.transition
          guard,        \* the handler holding the TransitionGuard
          service,      \* every generation ever mapped, with its worker
          handler,      \* the state of every handler
          resets        \* registry resets performed

cellVars == <<registry, weights, loaded, failure, transition, guard, service,
              handler, resets>>

Gens == 1..Len(service)

Shutdown == "shutdown"

ASSUME CellAssumption == None \notin Models \cup Handlers /\ Shutdown \notin Handlers

\* A worker task just spawned by ModelService::start_generator.
StartGenerator(m) ==
    [model |-> m, queue |-> <<>>, worker |-> "idle", current |-> None,
     active |-> None, stop |-> FALSE]

Idle == [op |-> None, model |-> None, pc |-> "idle", gen |-> 0,
         cancelled |-> FALSE, reply |-> None, answer |-> None]

\* load_model at startup: no key, a key that maps, or one that degrades.
LoadModelAtStart ==
    /\ transition = "none"
    /\ guard = None
    /\ \/ \E m \in registry :
             loaded = 1 /\ service = <<StartGenerator(m)>> /\ failure = FALSE
       \/ loaded = 0 /\ service = <<>> /\ failure \in BOOLEAN

CellInit ==
    /\ registry \in SUBSET Models
    /\ weights = Models
    /\ LoadModelAtStart
    /\ handler = [h \in Handlers |-> Idle]
    /\ resets = 0

LoadedKey == IF loaded = 0 THEN None ELSE service[loaded].model

----------------------------------------------------------------------------
(* How a handler ends and moves.                                           *)

Goto(h, pc) == handler' = [handler EXCEPT ![h].pc = pc]

\* The handler returns: what is left is whether its caller was answered, and
\* the state of the token its inference was admitted with.
End(h, answer) ==
    handler' = [handler EXCEPT ![h] =
                  [Idle EXCEPT !.pc = "done", !.answer = answer,
                               !.cancelled = handler[h].cancelled]]

Enter(h, op, m, pc) ==
    handler' = [handler EXCEPT ![h] =
                  [Idle EXCEPT !.op = op, !.model = m, !.pc = pc,
                               !.gen = loaded]]

\* What a change still owes: its audit row, then its answer.
Owe(h) == Goto(h, "audit")

\* The guard is dropped where the handler returns.
Release(h) == guard' = IF guard = h THEN None ELSE guard

\* append_change_audit and append_model_audit: when the audit row cannot be
\* written the handler returns the error and the caller is never answered.
AppendAudit(h) ==
    /\ handler[h].pc = "audit"
    /\ End(h, "answered") \/ End(h, "unanswered")
    /\ Release(h)
    /\ UNCHANGED <<registry, weights, loaded, failure, transition, service, resets>>

----------------------------------------------------------------------------
(* model.load and model.unload.                                            *)

BeginTransition(h) == guard = None /\ guard' = h

\* handle_model_load up to the registry read: the guard, then "already
\* serving exactly this model".
LoadBegin(h, m) ==
    /\ handler[h].pc = "idle"
    /\ \/ guard # None /\ End(h, "refused") /\ UNCHANGED guard
       \/ /\ guard = None /\ LoadedKey = m
          /\ End(h, "answered") /\ UNCHANGED guard
       \/ /\ LoadedKey # m
          /\ BeginTransition(h)
          /\ Enter(h, "load", m, "lookup")
    /\ UNCHANGED <<registry, weights, loaded, failure, transition, service,
                   resets>>

\* CellState after begin_unload took the loaded model out, or after
\* begin_load when there was nothing to take.
BeginUnload(h) ==
    /\ loaded' = 0
    /\ transition' = "unloading"
    /\ handler' = [handler EXCEPT ![h].pc = "signal", ![h].gen = loaded]

BeginLoad(h) ==
    /\ failure' = FALSE
    /\ transition' = "loading"
    /\ Goto(h, "map")

\* registered_record, then retire_loaded_model as far as its first await.
LoadLookup(h) ==
    /\ handler[h].pc = "lookup" /\ handler[h].op = "load"
    /\ \/ /\ handler[h].model \notin registry
          /\ End(h, "refused")
          /\ Release(h)
          /\ UNCHANGED <<loaded, failure, transition>>
       \/ /\ handler[h].model \in registry
          /\ loaded # 0
          /\ BeginUnload(h)
          /\ UNCHANGED <<guard, failure>>
       \/ /\ handler[h].model \in registry
          /\ loaded = 0
          /\ BeginLoad(h)
          /\ UNCHANGED <<guard, loaded>>
    /\ UNCHANGED <<registry, weights, service, resets>>

\* handle_model_unload as far as the drain.
UnloadBegin(h) ==
    /\ handler[h].pc = "idle"
    /\ \/ guard # None /\ End(h, "refused")
          /\ UNCHANGED <<guard, loaded, transition>>
       \/ /\ guard = None /\ loaded = 0
          /\ End(h, "refused")
          /\ UNCHANGED <<guard, loaded, transition>>
       \/ /\ loaded # 0
          /\ BeginTransition(h)
          /\ loaded' = 0
          /\ transition' = "unloading"
          /\ Enter(h, "unload", LoadedKey, "signal")
    /\ UNCHANGED <<registry, weights, failure, service, resets>>

\* ModelWorker::cancel_active: the shutdown token first, then whatever
\* inference is registered as active at that moment.
DrainSignal(h) ==
    /\ handler[h].pc = "signal"
    /\ service' = [service EXCEPT ![handler[h].gen].stop = TRUE]
    /\ Goto(h, "cancel")
    /\ UNCHANGED <<registry, weights, loaded, failure, transition, guard, resets>>

DrainCancel(h) ==
    /\ handler[h].pc = "cancel"
    /\ LET running == service[handler[h].gen].active
       IN  handler' = [i \in Handlers |->
             IF i = h THEN [handler[h] EXCEPT !.pc = "send"]
             ELSE IF i = running THEN [handler[i] EXCEPT !.cancelled = TRUE]
             ELSE handler[i]]
    /\ UNCHANGED <<registry, weights, loaded, failure, transition, guard,
                   service, resets>>

QueueCapacity == 1

\* ModelWorker::shutdown sends the Shutdown command: it waits for room in
\* the queue, and a worker that is already gone is not an error.
DrainSend(h) ==
    /\ handler[h].pc = "send"
    /\ LET g == handler[h].gen
       IN  \/ /\ service[g].worker # "ended"
              /\ Len(service[g].queue) < QueueCapacity
              /\ service' = [service EXCEPT ![g].queue = Append(@, Shutdown)]
           \/ service[g].worker = "ended" /\ UNCHANGED service
    /\ Goto(h, "join")
    /\ UNCHANGED <<registry, weights, loaded, failure, transition, guard, resets>>

\* A swap that does not wait for the outgoing worker.
DrainJoinEager(h) ==
    /\ handler[h].pc = "join"
    /\ \/ handler[h].op = "load" /\ BeginLoad(h)
       \/ /\ handler[h].op = "unload"
          /\ transition' = "none"
          /\ failure' = FALSE
          /\ Owe(h)
    /\ UNCHANGED <<registry, weights, loaded, guard, service, resets>>

\* The worker task joined: its runtime is dropped.  An unload settles the
\* surface here; a load goes on to map the incoming model.
DrainJoin(h) ==
    /\ handler[h].pc = "join"
    /\ service[handler[h].gen].worker = "ended"
    /\ \/ /\ handler[h].op = "load"
          /\ BeginLoad(h)
       \/ /\ handler[h].op = "unload"
          /\ transition' = "none"
          /\ failure' = FALSE
          /\ Owe(h)
    /\ UNCHANGED <<registry, weights, loaded, guard, service, resets>>

\* A failed load that forgets fail_load.
LoadMapForgets(h) ==
    /\ handler[h].pc = "map"
    /\ \/ /\ handler[h].model \in weights
          /\ service' = Append(service, StartGenerator(handler[h].model))
          /\ handler' = [handler EXCEPT ![h].pc = "seat",
                                        ![h].gen = Len(service) + 1]
          /\ UNCHANGED <<loaded, failure, transition, guard>>
       \/ /\ End(h, "refused")
          /\ Release(h)
          /\ UNCHANGED <<loaded, failure, transition, service>>
    /\ UNCHANGED <<registry, weights, resets>>

\* map_registered_model: the artifact is revalidated and the host admits
\* it, or the load fails and the daemon serves without a model.
LoadMap(h) ==
    /\ handler[h].pc = "map"
    /\ \/ /\ handler[h].model \in weights
          /\ service' = Append(service, StartGenerator(handler[h].model))
          /\ handler' = [handler EXCEPT ![h].pc = "seat",
                                        ![h].gen = Len(service) + 1]
          /\ UNCHANGED <<loaded, failure, transition, guard>>
       \/ /\ loaded' = 0
          /\ failure' = TRUE
          /\ transition' = "none"
          /\ End(h, "refused")
          /\ Release(h)
          /\ UNCHANGED service
    /\ UNCHANGED <<registry, weights, resets>>

\* finish_load.
LoadSeat(h) ==
    /\ handler[h].pc = "seat"
    /\ loaded' = handler[h].gen
    /\ failure' = FALSE
    /\ transition' = "none"
    /\ Owe(h)
    /\ UNCHANGED <<registry, weights, guard, service, resets>>

----------------------------------------------------------------------------
(* model.infer and the worker task behind a service handle.                *)

\* handle_model_infer on the surface copied at dispatch: a request for any
\* other model, or one whose deadline or messages are refused.
InferBegin(h, m) ==
    /\ handler[h].pc = "idle"
    /\ \/ LoadedKey # m /\ End(h, "refused")
       \/ LoadedKey = m /\ End(h, "refused")
       \/ LoadedKey = m /\ Enter(h, "infer", m, "admit")
    /\ UNCHANGED <<registry, weights, loaded, failure, transition, guard,
                   service, resets>>

\* ModelService::infer: try_send on the queue of the snapshot's service.
Infer(h) ==
    /\ handler[h].pc = "admit"
    /\ LET g == handler[h].gen
       IN  \/ /\ service[g].worker = "ended"
              /\ Owe(h) /\ UNCHANGED service
           \/ /\ service[g].worker # "ended"
              /\ Len(service[g].queue) >= QueueCapacity
              /\ Owe(h) /\ UNCHANGED service
           \/ /\ service[g].worker # "ended"
              /\ Len(service[g].queue) < QueueCapacity
              /\ service' = [service EXCEPT ![g].queue = Append(@, h)]
              /\ Goto(h, "await")
    /\ UNCHANGED <<registry, weights, loaded, failure, transition, guard, resets>>

\* The select in infer: the reply is there or the deadline, which may always
\* be the one that fires; either way CancelOnDrop cancels the token.
InferEnds(h) ==
    /\ handler[h].pc = "await"
    /\ handler' = [handler EXCEPT ![h].pc = "audit", ![h].reply = None,
                                  ![h].cancelled = TRUE]
    /\ UNCHANGED <<registry, weights, loaded, failure, transition, guard,
                   service, resets>>

\* Replies to the waiting handlers of hs; a handler past its deadline has
\* dropped its receiver.
Reply(hs, r) ==
    handler' = [i \in Handlers |->
                  IF i \in hs /\ handler[i].pc = "await"
                  THEN [handler[i] EXCEPT !.reply = r] ELSE handler[i]]

Queued(g) == {service[g].queue[i] : i \in 1..Len(service[g].queue)} \ {Shutdown}

\* run_worker taking a command: after the shutdown token everything queued
\* is rejected and the task ends; a Shutdown command ends it too, and what
\* is behind it loses its reply channel.
WorkerTakes(g) ==
    /\ service[g].worker = "idle"
    /\ service[g].queue # <<>>
    /\ LET command == Head(service[g].queue)
       IN  \/ /\ service[g].stop \/ command = Shutdown
              /\ Reply(Queued(g), IF service[g].stop THEN "cancelled" ELSE "unavailable")
              /\ service' = [service EXCEPT ![g].queue = <<>>, ![g].worker = "ended"]
           \/ /\ ~service[g].stop
              /\ command # Shutdown
              /\ service' = [service EXCEPT ![g].queue = Tail(@), ![g].worker = "taken",
                                            ![g].current = command]
              /\ UNCHANGED handler
    /\ UNCHANGED <<registry, weights, loaded, failure, transition, guard, resets>>

\* The worker registers the inference's token as the active one and starts
\* generating.
WorkerActivates(g) ==
    /\ service[g].worker = "taken"
    /\ service' = [service EXCEPT ![g].worker = "running",
                                  ![g].active = service[g].current]
    /\ UNCHANGED <<registry, weights, loaded, failure, transition, guard,
                   handler, resets>>

\* Generation ends: complete or failed, or cancelled when its token is.
WorkerFinishes(g) ==
    /\ service[g].worker = "running"
    /\ LET h == service[g].current
       IN  \E r \in {"generated", "failed"}
                     \cup (IF handler[h].cancelled THEN {"cancelled"} ELSE {}) :
             Reply({h}, r)
    /\ service' = [service EXCEPT ![g].worker = "idle", ![g].active = None,
                                  ![g].current = None]
    /\ UNCHANGED <<registry, weights, loaded, failure, transition, guard, resets>>

----------------------------------------------------------------------------
(* The registry: register, unregister, delete weights, verify, sweep.      *)

Register(h, m) ==
    /\ handler[h].pc = "idle"
    /\ registry' = registry \cup {m}
    /\ Owe(h)
    /\ UNCHANGED <<weights, loaded, failure, transition, guard, service, resets>>

\* model_unregister_loaded_refusal and model_delete_weights_loaded_refusal
\* look at the key the dispatcher read from the cell.
LoadedRefusal(m) == LoadedKey = m

UnregisterBegin(h, m) ==
    /\ handler[h].pc = "idle"
    /\ \/ LoadedRefusal(m) /\ End(h, "refused")
       \/ ~LoadedRefusal(m) /\ Enter(h, "unregister", m, "row")
    /\ UNCHANGED <<registry, weights, loaded, failure, transition, guard,
                   service, resets>>

DeleteWeightsBegin(h, m) ==
    /\ handler[h].pc = "idle"
    /\ \/ LoadedRefusal(m) /\ End(h, "refused")
       \/ ~LoadedRefusal(m) /\ Enter(h, "delete", m, "record")
    /\ UNCHANGED <<registry, weights, loaded, failure, transition, guard,
                   service, resets>>

\* registered_record for a deletion, and weights_deletion_allowed.
WeightsDeletionAllowed(m) == m \in Downloaded

DeleteRecord(h) ==
    /\ handler[h].pc = "record"
    /\ LET m == handler[h].model
       IN  \/ m \notin registry /\ End(h, "refused")
           \/ m \in registry /\ ~WeightsDeletionAllowed(m) /\ End(h, "refused")
           \/ m \in registry /\ WeightsDeletionAllowed(m) /\ Goto(h, "remove")
    /\ UNCHANGED <<registry, weights, loaded, failure, transition, guard,
                   service, resets>>

\* delete_registered_weights removes the bytes before the row goes.
DeleteRegisteredWeights(h) ==
    /\ handler[h].pc = "remove"
    /\ \/ /\ handler[h].model \in weights
          /\ weights' = weights \ {handler[h].model}
          /\ Goto(h, "row")
       \/ /\ handler[h].model \notin weights
          /\ End(h, "refused")
          /\ UNCHANGED weights
    /\ UNCHANGED <<registry, loaded, failure, transition, guard, service, resets>>

\* Store::delete_model.
DeleteModel(h) ==
    /\ handler[h].pc = "row"
    /\ \/ /\ handler[h].model \in registry
          /\ registry' = registry \ {handler[h].model}
          /\ Owe(h)
       \/ /\ handler[h].model \notin registry
          /\ End(h, "refused")
          /\ UNCHANGED registry
    /\ UNCHANGED <<weights, loaded, failure, transition, guard, service, resets>>

\* sweep_models_directory in both directions, and the truth of a
\* verification pass over the catalog.
Dangling == registry \ weights
Orphans == (weights \cap Downloaded) \ registry

ModelVerifyTruth ==
    IF registry = {} THEN "observed"
    ELSE IF registry \subseteq weights THEN "verified" ELSE "unresolved"

ModelStatus(h) ==
    /\ handler[h].pc = "idle"
    /\ End(h, "answered")
    /\ UNCHANGED <<registry, weights, loaded, failure, transition, guard,
                   service, resets>>

ModelVerify(h) ==
    /\ handler[h].pc = "idle"
    /\ handler' = [handler EXCEPT ![h].pc = "audit", ![h].reply = ModelVerifyTruth]
    /\ UNCHANGED <<registry, weights, loaded, failure, transition, guard,
                   service, resets>>

ModelSweep(h) ==
    /\ handler[h].pc = "idle"
    /\ End(h, IF Dangling = {} /\ Orphans = {} THEN "answered" ELSE "differs")
    /\ UNCHANGED <<registry, weights, loaded, failure, transition, guard,
                   service, resets>>

\* The registry tier of a reset forgets every row, loaded or not.
ResetRegistry(h) ==
    /\ handler[h].pc = "idle"
    /\ resets < MaxResets
    /\ resets' = resets + 1
    /\ registry' = {}
    /\ Owe(h)
    /\ UNCHANGED <<weights, loaded, failure, transition, guard, service>>

----------------------------------------------------------------------------
HandlerStep(h) ==
    \/ LoadLookup(h) \/ DrainSignal(h) \/ DrainCancel(h) \/ DrainSend(h)
    \/ DrainJoin(h) \/ LoadMap(h) \/ LoadSeat(h) \/ AppendAudit(h)
    \/ Infer(h) \/ InferEnds(h)
    \/ DeleteRecord(h) \/ DeleteRegisteredWeights(h) \/ DeleteModel(h)

Dispatch(h) ==
    \/ \E m \in Models : \/ "load" \in Asks[h] /\ LoadBegin(h, m)
                         \/ "infer" \in Asks[h] /\ InferBegin(h, m)
                         \/ "register" \in Asks[h] /\ Register(h, m)
                         \/ "unregister" \in Asks[h] /\ UnregisterBegin(h, m)
                         \/ "delete" \in Asks[h] /\ DeleteWeightsBegin(h, m)
    \/ "unload" \in Asks[h] /\ UnloadBegin(h)
    \/ "read" \in Asks[h] /\ (ModelStatus(h) \/ ModelVerify(h) \/ ModelSweep(h))
    \/ "reset" \in Asks[h] /\ ResetRegistry(h)

WorkerStep(g) == WorkerTakes(g) \/ WorkerActivates(g) \/ WorkerFinishes(g)

CellNext ==
    \/ \E h \in Handlers : Dispatch(h) \/ HandlerStep(h)
    \/ \E g \in Gens : WorkerStep(g)

\* Tokio polls every ready task: a handler that can go on does, and so does
\* a worker.  Nobody is obliged to send a request.
CellFairness ==
    /\ \A h \in Handlers : WF_cellVars(HandlerStep(h))
    /\ \A g \in 1..Cardinality(Handlers) + 1 :
          WF_cellVars(g \in Gens /\ WorkerStep(g))

CellSpec == CellInit /\ [][CellNext]_cellVars /\ CellFairness

----------------------------------------------------------------------------

\* "The host therefore never carries two mapped artifacts at once": however
\* loads, unloads and inferences interleave, at most one runtime is mapped,
\* because a swap joins the outgoing worker before it maps the next model.
OneModelMapped ==
    \A g, k \in Gens : service[g].worker # "ended" /\ service[k].worker # "ended" => g = k

\* The surface tells the truth about a change in flight: a transition is
\* reported only while some handler holds the guard and is on its way, the
\* service a reader would copy out of the cell is never one that is being
\* retired, and a slot that reports a model reports no load failure.
SurfaceHonest ==
    /\ transition # "none" =>
         /\ guard # None
         /\ handler[guard].pc \in {"signal", "cancel", "send", "join", "map", "seat"}
    /\ loaded # 0 => ~service[loaded].stop /\ service[loaded].worker # "ended"
    /\ loaded # 0 => ~failure

\* One model at a time, and the truth about it: swaps, unloads, failed loads
\* and resets never map two runtimes nor leave the surface stale
\* (begin_transition, retire_loaded_model, handle_model_load).
CellServesOneModel == OneModelMapped /\ SurfaceHonest
============================================================================
