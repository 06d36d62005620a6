------------------------------ MODULE MCDaemon ------------------------------
(***************************************************************************)
(* The daemon's concurrent parts on small instances.  The parts share no   *)
(* state at this level of detail, so each behaviour picks one of them and  *)
(* leaves the others at rest; the state space is the sum of the four.      *)
(***************************************************************************)
EXTENDS ModelCell, Delivery, FlowWorker, Launch, TLC

CONSTANTS h1, h2, h3, m1, m2, c1, c2

VARIABLE part

MCAsks == (h1 :> {"load", "unload"})
       @@ (h2 :> {"load", "unregister", "delete", "register", "reset"})
       @@ (h3 :> {"infer", "unload", "delete", "read"})
MCKinds == (c1 :> {"run"}) @@ (c2 :> {"wait", "status", "cancel", "result", "replay"})
MCPlan == <<"git", "connector">>

daemonVars == <<cellVars, deliveryVars, flowVars, launchVars, part>>

DaemonInit ==
    /\ CellInit /\ DeliveryInit /\ FlowInit /\ LaunchInit
    /\ part \in {"model", "delivery", "flow", "launch"}
    /\ part # "model" => registry = {} /\ ~failure

DaemonNext ==
    /\ UNCHANGED part
    /\ \/ part = "model" /\ CellNext /\ UNCHANGED <<deliveryVars, flowVars, launchVars>>
       \/ part = "delivery" /\ DeliveryNext /\ UNCHANGED <<cellVars, flowVars, launchVars>>
       \/ part = "flow" /\ FlowNext /\ UNCHANGED <<cellVars, deliveryVars, launchVars>>
       \/ part = "launch" /\ LaunchNext /\ UNCHANGED <<cellVars, deliveryVars, flowVars>>

DaemonSpec ==
    /\ DaemonInit /\ [][DaemonNext]_daemonVars
    /\ \A h \in Handlers : WF_cellVars(part = "model" /\ HandlerStep(h))
    /\ \A g \in 1..Cardinality(Handlers) + 1 :
          WF_cellVars(part = "model" /\ g \in Gens /\ WorkerStep(g))
    /\ WF_deliveryVars(part = "delivery" /\ Start)
    /\ WF_deliveryVars(part = "delivery" /\ Finish)
    /\ WF_deliveryVars(part = "delivery" /\ Publish)
    /\ WF_deliveryVars(part = "delivery" /\ DeliverOutbound)
    /\ \A c \in Clients : WF_deliveryVars(part = "delivery" /\ Handler(c))
    /\ WF_flowVars(part = "flow" /\ ClaimFlow)
    /\ WF_flowVars(part = "flow" /\ RecoverFlow)
    /\ \A w \in Jobs : WF_flowVars(part = "flow" /\ JobStep(w))

Waits(w) ==
    CASE w \in Handlers -> handler[w].pc \notin {"idle", "done"}
      [] w \in Clients -> client[w].state = "open"
      [] OTHER -> part = "flow" /\ flow.state \notin Settled

\* Nothing a client waits for is left hanging: every model request is
\* answered, every observer of a run gets its result or learns that its
\* connection is gone, and every accepted flow run reaches a terminal state,
\* whatever is cancelled, swapped, expired or restarted on the way.  A handler
\* and a client make one request each, so it is enough that in the end nobody
\* waits any more.
EveryRequestEnds == <>[](\A w \in Handlers \cup Clients \cup {"run"} : ~Waits(w))
=============================================================================
