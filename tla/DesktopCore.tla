----------------------------- MODULE DesktopCore -----------------------------
(***************************************************************************)
(* The control center's core (crates/pam_gui/src/desktop.rs): every        *)
(* command names the project, the generation and the operation it is meant *)
(* for, the core checks that fence before and after the awaits of the      *)
(* command, and the handles it hands out (approvals, evidence, flow        *)
(* documents) last for one generation.                                     *)
(*                                                                         *)
(* Commands come from a front end that shows one snapshot, may have        *)
(* several commands under way and may send one of them twice.  What a      *)
(* command asks of the daemon is left out, except that time passes.        *)
(***************************************************************************)
EXTENDS Naturals, Sequences, FiniteSets

CONSTANTS Calls,           \* command invocations that can be under way
          CallKinds,       \* which commands each of them can be
          Projects,        \* projects that can be discovered
          Operations,      \* operation identifiers of the front end
          MaxOperations,   \* MAX_OPERATIONS
          MaxGenerations,  \* bound on the snapshots taken
          MaxLog,          \* bound on the commands accepted and remembered here
          Nobody

ASSUME CoreAssumption == MaxOperations \in Nat

VARIABLES active,    \* the active project and its generation
          last,      \* the newest generation handed out
          used,      \* used_operations and daemon_operations
          held,      \* the approval and evidence handles: kind, project, generation
          workspace, \* the open flow workspace: "none", "open", "document"
          gate,      \* who holds the command gate
          call,
          log        \* every operation accepted, oldest first

coreVars == <<active, last, used, held, workspace, gate, call, log>>

NoFence == [project |-> Nobody, gen |-> 0, op |-> 0]
IdleCall == [pc |-> "idle", kind |-> "none", fence |-> NoFence, scope |-> NoFence, answer |-> "none"]
NoProject == [project |-> Nobody, gen |-> 0]

\* "workspace" stands for the commands on the flow workspace; which of them it
\* is shows when it ends.
\* Commands that hold no gate: model_infer and daemon_startup_progress.
Ungated == {"infer"}

CoreInit ==
    /\ active = NoProject /\ last = 0
    /\ used = [project |-> <<>>, daemon |-> <<>>] /\ log = used
    /\ held = {} /\ workspace = "none" /\ gate = Nobody
    /\ call = [c \in Calls |-> IdleCall]

----------------------------------------------------------------------------
(* Activation.                                                             *)

\* The front end asks, with the fence of the snapshot it shows or with the
\* constant authority of the daemon scope.  By the time the command begins
\* that snapshot may be an old one.
Ask(c) ==
    /\ call[c].pc = "idle"
    /\ \E kind \in CallKinds[c], p \in Projects \cup {Nobody}, op \in Operations :
         /\ kind = "activate" => p # Nobody /\ op = 1
         /\ kind # "activate" => p \in {Nobody, active.project}
         /\ kind \in {"refresh", "approval", "evidence"} => p # Nobody
         /\ kind = "settings" => p = Nobody
         /\ call' = [call EXCEPT ![c] =
              [pc |-> "asked", kind |-> kind, scope |-> NoFence, answer |-> "none",
               fence |-> [project |-> p, gen |-> IF p = Nobody THEN 0 ELSE active.gen, op |-> op]]]
    /\ UNCHANGED <<active, last, used, held, workspace, gate, log>>

\* The command answers: "ok", or "refused" for the error that its early
\* return names (stale, conflict, not found, unavailable).
Ends(c, answer) == call' = [call EXCEPT ![c] = [IdleCall EXCEPT !.answer = answer]]

\* The new generation: what was handed out before it is forgotten, and the
\* snapshot hands out what it shows.
NewGenerationKeepsHandles(p) ==
    /\ last < MaxGenerations
    /\ last' = last + 1
    /\ active' = [project |-> p, gen |-> last + 1]
    /\ used' = [used EXCEPT !.project = <<>>] /\ log' = [log EXCEPT !.project = <<>>]
    /\ workspace' = "none"
    /\ \E shown \in SUBSET {"approval", "evidence"} :
         held' = held \cup {[kind |-> k, project |-> p, gen |-> last + 1] : k \in shown}

NewGeneration(p) ==
    /\ last < MaxGenerations
    /\ last' = last + 1
    /\ active' = [project |-> p, gen |-> last + 1]
    /\ used' = [used EXCEPT !.project = <<>>] /\ log' = [log EXCEPT !.project = <<>>]
    /\ workspace' = "none"
    /\ \E shown \in SUBSET {"approval", "evidence"} :
         held' = {[kind |-> k, project |-> p, gen |-> last + 1] : k \in shown}

\* activate and bootstrap: under the gate, an entry of the catalog, which
\* discovery may have replaced since, is discovered again, its surfaces
\* loaded and made the active project.
BeginActivate(c) ==
    /\ call[c].pc = "asked" /\ call[c].kind = "activate" /\ gate = Nobody
    /\ \/ call' = [call EXCEPT ![c].pc = "work"] /\ gate' = c
       \/ Ends(c, "refused") /\ UNCHANGED gate
    /\ UNCHANGED <<active, last, used, held, workspace, log>>

FinishActivate(c) ==
    /\ call[c].pc = "work" /\ call[c].kind = "activate"
    /\ \/ NewGeneration(call[c].fence.project) /\ Ends(c, "ok")
       \/ Ends(c, "refused") /\ UNCHANGED <<active, last, used, held, workspace, log>>
    /\ gate' = Nobody

----------------------------------------------------------------------------
(* The fence.                                                              *)

\* A full window that forgets one operation too many.
RememberTooFew(ops, op) ==
    LET kept == Append(ops, op)
    IN  IF Len(kept) >= MaxOperations THEN Tail(kept) ELSE kept

Remember(ops, op) ==
    LET kept == Append(ops, op)
    IN  IF Len(kept) > MaxOperations THEN Tail(kept) ELSE kept

FenceIsActive(fence) == fence.project = active.project /\ fence.gen = active.gen

Scope(fence) == IF fence.project = Nobody THEN "daemon" ELSE "project"

\* The window holds the operation.
Holds(ops, op) == \E i \in 1..Len(ops) : ops[i] = op

\* begin, begin_daemon and begin_scoped, once the gate is held: the fence is
\* the active project's or the daemon's, and its operation is new there.
Begin(c) ==
    LET fence == call[c].fence
        scope == Scope(fence)
        mine == IF call[c].kind \in Ungated THEN gate ELSE c
        fits == /\ scope = "project" => FenceIsActive(fence)
                /\ ~Holds(used[scope], fence.op)
    IN  /\ call[c].pc = "asked" /\ call[c].kind # "activate"
        /\ call[c].kind \in Ungated \/ gate = Nobody
        /\ \/ /\ fits /\ Len(log.project) + Len(log.daemon) < MaxLog
              /\ used' = [used EXCEPT ![scope] = Remember(@, fence.op)]
              /\ log' = [log EXCEPT ![scope] = Append(@, fence.op)]
              /\ call' = [call EXCEPT ![c].pc = "work",
                            ![c].scope = IF scope = "daemon" THEN NoFence ELSE fence]
              /\ gate' = mine
           \/ /\ ~fits /\ Ends(c, "refused")
              /\ UNCHANGED <<gate, used, log>>
        /\ UNCHANGED <<active, last, held, workspace>>

\* The second look at the fence left out.
ScopeMatchesUnchecked(c) == call[c].pc = "work"

\* ensure_scope_matches: the daemon's authority never goes stale.
ScopeMatches(c) == call[c].scope = NoFence \/ FenceIsActive(call[c].scope)

Lets(c) == gate' = IF gate = c THEN Nobody ELSE gate

Working(c, kind) == call[c].pc = "work" /\ call[c].kind = kind

\* refresh, register_gui_caller, start_daemon and stop_daemon: the surfaces
\* are loaded and finish_snapshot makes them a new generation, unless the
\* daemon was started or stopped in its own scope.
FinishSnapshot(c) ==
    /\ Working(c, "refresh") \/ Working(c, "daemon")
    /\ \/ /\ call[c].scope # NoFence /\ ScopeMatches(c)
          /\ NewGeneration(active.project) /\ Ends(c, "ok")
       \/ /\ Working(c, "daemon")
          /\ \E works \in BOOLEAN :
               Ends(c, IF works /\ call[c].scope = NoFence THEN "ok" ELSE "refused")
          /\ UNCHANGED <<active, last, used, held, workspace, log>>
    /\ Lets(c)

\* decide_approval: the handle must still be one of the active project's; the
\* decision that succeeds ends in a new snapshot, one that fails keeps it.
FinishApproval(c) ==
    /\ Working(c, "approval")
    /\ \/ /\ \E h \in held : h.kind = "approval" /\ h.project = call[c].scope.project
          /\ ScopeMatches(c) /\ NewGeneration(active.project) /\ Ends(c, "ok")
       \/ /\ Ends(c, "refused")
          /\ UNCHANGED <<active, last, used, held, workspace, log>>
    /\ Lets(c)

\* load_evidence.
FinishEvidence(c) ==
    /\ Working(c, "evidence")
    /\ Ends(c, IF ScopeMatches(c) /\ \E h \in held : h.kind = "evidence" THEN "ok" ELSE "refused")
    /\ Lets(c)
    /\ UNCHANGED <<active, last, used, held, workspace, log>>

\* flow_run_progress registers the evidence its facts name.
FinishProgress(c) ==
    /\ Working(c, "progress")
    /\ held' = IF ~ScopeMatches(c) \/ active = NoProject THEN held
               ELSE held \cup {[kind |-> "evidence", project |-> active.project,
                                gen |-> active.gen]}
    /\ Ends(c, IF ScopeMatches(c) THEN "ok" ELSE "refused")
    /\ Lets(c)
    /\ UNCHANGED <<active, last, used, workspace, log>>

\* flow_workspace opens the global library afresh; open_flow, validate_flow
\* and save_flow need it, and flow_run an active project too.
FinishWorkspace(c) ==
    /\ Working(c, "workspace")
    /\ \/ /\ ScopeMatches(c)
          /\ workspace' = "open" /\ Ends(c, "ok")
       \/ UNCHANGED workspace /\ Ends(c, "refused")
    /\ Lets(c)
    /\ UNCHANGED <<active, last, used, held, log>>

FinishDocument(c) ==
    /\ Working(c, "workspace")
    /\ \E opens \in BOOLEAN :
         LET known == ScopeMatches(c) /\ (workspace = "document" \/ (workspace = "open" /\ opens))
         IN  /\ workspace' = IF known THEN "document" ELSE workspace
             /\ Ends(c, IF known THEN "ok" ELSE "refused")
    /\ Lets(c)
    /\ UNCHANGED <<active, last, used, held, log>>

FinishFlowRun(c) ==
    /\ Working(c, "workspace")
    /\ Ends(c, IF ScopeMatches(c) /\ active # NoProject /\ workspace # "none"
               THEN "ok" ELSE "refused")
    /\ Lets(c)
    /\ UNCHANGED <<active, last, used, held, workspace, log>>

\* What the scoped commands below have in common: whatever they asked the
\* daemon, the file system or a manager to do is done or fails, and the
\* answer is shown when the fence still matches.
Shows(c) ==
    /\ \E works \in BOOLEAN : Ends(c, IF works /\ ScopeMatches(c) THEN "ok" ELSE "refused")
    /\ Lets(c)
    /\ UNCHANGED <<active, last, used, held, workspace, log>>

\* daemon_activity, daemon_logs, daemon_stats and caller_registry.
ReadDaemon(c) == Working(c, "read") /\ Shows(c)

\* flow_graph and flow_compose, which change no document.
ComposeFlow(c) == Working(c, "read") /\ Shows(c)

\* flow_run_history.
ReadHistory(c) == Working(c, "read") /\ Shows(c)

\* model_infer, which holds no gate.
InferModel(c) == Working(c, "infer") /\ Shows(c)

\* model_load to model_delete_weights.
ChangeModel(c) == Working(c, "model") /\ Shows(c)

\* The guided import: preview, start, status, and its registration.
ImportModel(c) == Working(c, "model") /\ Shows(c)

\* model_download and its status and cancellation; the manager and what it
\* does belong to no generation.
UseDownloads(c) == Working(c, "download") /\ Shows(c)

\* connector_registry, connector_configure and connector_test.
UseConnector(c) == Working(c, "connector") /\ Shows(c)

\* manage_skill_library: an action of a project is refused to the daemon's
\* scope, after its operation was spent.
ManageSkills(c) ==
    /\ Working(c, "skills")
    /\ \/ Shows(c)
       \/ /\ call[c].scope = NoFence
          /\ Ends(c, "refused") /\ Lets(c)
          /\ UNCHANGED <<active, last, used, held, workspace, log>>

\* Settings, the default model, resets and logs: for the daemon's scope only,
\* and with nothing to check at the end.
ChangeSettings(c) ==
    /\ Working(c, "settings")
    /\ \E answer \in {"ok", "refused"} : Ends(c, answer)
    /\ Lets(c)
    /\ UNCHANGED <<active, last, used, held, workspace, log>>

\* daemon_access, daemon_access_config and set_daemon_access.
DaemonAccess(c) == ChangeSettings(c)

CoreNext ==
    \E c \in Calls :
         \/ Ask(c) \/ Begin(c) \/ BeginActivate(c) \/ FinishActivate(c)
         \/ FinishSnapshot(c) \/ FinishApproval(c) \/ FinishEvidence(c) \/ FinishProgress(c)
         \/ FinishWorkspace(c) \/ FinishDocument(c) \/ FinishFlowRun(c)
         \/ ReadDaemon(c) \/ ComposeFlow(c) \/ ReadHistory(c) \/ InferModel(c)
         \/ ChangeModel(c) \/ ImportModel(c) \/ UseDownloads(c)
         \/ UseConnector(c) \/ ManageSkills(c) \/ ChangeSettings(c) \/ DaemonAccess(c)

CoreSpec == CoreInit /\ [][CoreNext]_coreVars

----------------------------------------------------------------------------
\* A handle the core would act on was shown by a snapshot, or under the
\* fence, of the generation that is active now: switching projects, or
\* refreshing, invalidates every handle of before, whatever was in flight.
HandlesAreCurrent ==
    \A h \in held : h.project = active.project /\ h.gen = active.gen

\* A command that is sent twice runs once: within a generation, and in the
\* daemon's scope, an operation is accepted again only after MaxOperations
\* others were.
OperationWindow ==
    \A ops \in {log.project, log.daemon} :
        \A i, j \in DOMAIN ops : i < j /\ ops[i] = ops[j] => j - i > MaxOperations

\* What a command found under a project is shown only if the generation it
\* was asked in is still the active one when it ends, also for the commands
\* that run beside an activation because they hold no gate.
ShowsOnlyItsGeneration ==
    [][\A c \in Calls :
         call[c].pc = "work" /\ call'[c].answer = "ok" /\ call[c].kind # "activate"
         => call[c].scope = NoFence \/ FenceIsActive(call[c].scope)]_coreVars

\* The control center acts once, on current handles, and shows only what
\* belongs to the active generation, whatever activations, refreshes and
\* commands are in flight together (begin_scoped, activate, ensure_scope_matches).
CoreIsCurrent == [](HandlesAreCurrent /\ OperationWindow) /\ ShowsOnlyItsGeneration
=============================================================================
