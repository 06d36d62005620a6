----------------------------- MODULE Evaluator -----------------------------
(***************************************************************************)
(* One run of the skills evaluator (crates/pam_skills/src/evaluator.rs,    *)
(* run_evaluator_contained): the thread that starts the child, its three   *)
(* I/O workers, the deadline, and the child with the processes it starts.  *)
(* The child leads a process group; a descendant may leave the group and   *)
(* keep the pipes.                                                         *)
(***************************************************************************)
EXTENDS Integers, Sequences

VARIABLES step,         \* where the calling thread is
          outcome,      \* what it will return
          late,         \* the deadline has passed
          leader,       \* the child: "none", "running", "success", "failure", "killed"
          kin,          \* its descendants: one in the "group", one "stray" that left it
          wrote,        \* standard output: 0 nothing, 1 an answer, 2 more than is retained
          worker,       \* the I/O workers
          armed,        \* CommandGroup::armed
          workspace     \* the temporary directory exists

evaluatorVars == <<step, outcome, late, leader, kin, wrote, worker, armed, workspace>>

Streams == {"stdin", "stdout", "stderr"}

EvaluatorInit ==
    /\ step = "start" /\ outcome = "none" /\ late = FALSE
    /\ leader = "none" /\ kin = {} /\ wrote = 0
    /\ worker = [w \in Streams |-> "none"]
    /\ armed = FALSE /\ workspace = FALSE

\* Somebody has the other end of the pipes.
Held == leader = "running" \/ kin # {}

-----------------------------------------------------------------------------
\* The child, its descendants, the workers and the clock.

Fork(which) ==
    /\ leader = "running" /\ which \notin kin
    /\ kin' = kin \cup {which}
    /\ UNCHANGED <<step, outcome, late, leader, wrote, worker, armed, workspace>>

DescendantEnds(which) ==
    /\ which \in kin
    /\ kin' = kin \ {which}
    /\ UNCHANGED <<step, outcome, late, leader, wrote, worker, armed, workspace>>

LeaderExits(status) ==
    /\ leader = "running"
    /\ leader' = status
    /\ UNCHANGED <<step, outcome, late, kin, wrote, worker, armed, workspace>>

WriteOutput ==
    /\ Held /\ wrote < 2 /\ worker["stdout"] \in {"none", "busy"}
    /\ wrote' = wrote + 1
    /\ UNCHANGED <<step, outcome, late, leader, kin, worker, armed, workspace>>

\* The prompt is written while somebody reads it; a pipe nobody reads is
\* broken.
StdinEnds(result) ==
    /\ worker["stdin"] = "busy"
    /\ result = "done" => Held
    /\ result = "broken" => ~Held
    /\ worker' = [worker EXCEPT !["stdin"] = result]
    /\ UNCHANGED <<step, outcome, late, leader, kin, wrote, armed, workspace>>

\* read_bounded: to the end of the stream, which comes when nobody holds it.
ReadBounded(w, result) ==
    /\ worker[w] = "busy"
    /\ result = "done" => ~Held
    /\ worker' = [worker EXCEPT ![w] = result]
    /\ UNCHANGED <<step, outcome, late, leader, kin, wrote, armed, workspace>>

DeadlinePasses ==
    /\ workspace /\ ~late
    /\ late' = TRUE
    /\ UNCHANGED <<step, outcome, leader, kin, wrote, worker, armed, workspace>>

-----------------------------------------------------------------------------
\* The calling thread.

Goto(place) == step' = place /\ UNCHANGED outcome

GiveUp(place, error) == step' = place /\ outcome' = error

\* TemporaryWorkspace::create, after the limit on the prompt.
CreateWorkspace ==
    /\ step = "start"
    /\ \/ GiveUp("return", "prompt too large or no workspace") /\ UNCHANGED workspace
       \/ Goto("spawn") /\ workspace' = TRUE
    /\ UNCHANGED <<late, leader, kin, wrote, worker, armed>>

Spawn ==
    /\ step = "spawn"
    /\ \/ GiveUp("return", "spawn") /\ UNCHANGED <<leader, armed>>
       \/ Goto("stdin") /\ leader' = "running" /\ armed' = TRUE
    /\ UNCHANGED <<late, kin, wrote, worker, workspace>>

\* The workers, one after the other; without one of them the run is off.
StartWorker(w) ==
    LET following == CASE w = "stdin" -> "stdout" [] w = "stdout" -> "stderr" [] OTHER -> "wait"
    IN  /\ step = w
        /\ \/ GiveUp("reap", "worker spawn") /\ UNCHANGED worker
           \/ Goto(following) /\ worker' = [worker EXCEPT ![w] = "busy"]
        /\ UNCHANGED <<late, leader, kin, wrote, armed, workspace>>

\* wait_until: the exit first, the deadline second.
WaitUntil ==
    /\ step = "wait"
    /\ \/ leader # "running" /\ Goto("terminate")
       \/ leader = "running" /\ late /\ GiveUp("reap", "deadline")
       \/ GiveUp("reap", "wait")
    /\ UNCHANGED <<late, leader, kin, wrote, worker, armed, workspace>>

\* CommandGroup::terminate: the group, and the child by itself.  killpg may be
\* refused while the group has a member; the guard then stays armed.
Terminate(refused) ==
    /\ leader' = IF leader = "running" THEN "killed" ELSE leader
    /\ kin' = IF refused THEN kin ELSE kin \ {"group"}
    /\ armed' = refused

MayRefuse(refused) == refused => leader = "running" \/ "group" \in kin

\* terminate_and_reap.
TerminateAndReap(refused) ==
    /\ step = "reap" /\ MayRefuse(refused)
    /\ Terminate(refused)
    /\ Goto("drain")
    /\ UNCHANGED <<late, wrote, worker, workspace>>

\* join_after_termination: each worker that was started, until it is done or
\* the deadline passes.
JoinAfterTermination ==
    /\ step = "drain"
    /\ late \/ \A w \in Streams : worker[w] # "busy"
    /\ Goto("return")
    /\ UNCHANGED <<late, leader, kin, wrote, worker, armed, workspace>>

\* The child has exited; what it left behind in its group is killed before
\* the workers are joined.
TerminateGroup(refused) ==
    /\ step = "terminate" /\ MayRefuse(refused)
    /\ Terminate(refused)
    /\ Goto("join")
    /\ UNCHANGED <<late, wrote, worker, workspace>>

\* As a bug would have it: joined however long it takes.
JoinedBlocking == \A w \in Streams : worker[w] # "busy"

\* join_worker_until for the three of them.
Joined == late \/ \A w \in Streams : worker[w] # "busy"

\* What the run comes to, in the order it is decided.
Verdict ==
    CASE \E w \in Streams : worker[w] = "busy" -> "deadline"
      [] leader # "success" -> "exit"
      [] worker["stdin"] = "bad" -> "stdin"
      [] worker["stdout"] = "bad" -> "stdout"
      [] worker["stderr"] = "bad" -> "stderr"
      [] wrote = 2 -> "too large"
      [] OTHER -> "answer"

JoinWorkers ==
    /\ step = "join" /\ Joined
    /\ GiveUp("return", Verdict)
    /\ UNCHANGED <<late, leader, kin, wrote, worker, armed, workspace>>

\* The guards are dropped: the group is killed once more if it is armed, and
\* the directory is removed.
Return(refused) ==
    /\ step = "return" /\ MayRefuse(refused) /\ (refused => armed)
    /\ kin' = IF armed /\ ~refused THEN kin \ {"group"} ELSE kin
    /\ workspace' = FALSE
    /\ Goto("returned")
    /\ UNCHANGED <<late, leader, wrote, worker, armed>>

Call ==
    \/ CreateWorkspace \/ Spawn \/ WaitUntil \/ JoinAfterTermination \/ JoinWorkers
    \/ \E w \in Streams : StartWorker(w)
    \/ \E refused \in BOOLEAN : TerminateAndReap(refused) \/ TerminateGroup(refused) \/ Return(refused)

EvaluatorNext ==
    \/ Call
    \/ WriteOutput \/ DeadlinePasses
    \/ \E which \in {"group", "stray"} : Fork(which) \/ DescendantEnds(which)
    \/ \E status \in {"success", "failure"} : LeaderExits(status)
    \/ \E result \in {"done", "broken", "bad"} : StdinEnds(result)
    \/ \E w \in {"stdout", "stderr"}, result \in {"done", "bad"} : ReadBounded(w, result)

-----------------------------------------------------------------------------
\* The run is contained: when run_evaluator_contained returns, the child is
\* dead, its directory is gone, and its group is gone unless killpg was
\* refused, in terminate and again when the guard was dropped; an answer is
\* one that a successful child wrote to the end.  And no process holds the
\* thread past the deadline, one that left the group and kept the pipes
\* included.
EvaluatorIsContained ==
    /\ step = "returned" => /\ leader # "running" /\ ~workspace
                            /\ "group" \in kin => armed
    /\ outcome = "answer" => leader = "success" /\ worker["stdout"] = "done" /\ wrote < 2
    /\ late /\ step # "returned" => ENABLED Call
=============================================================================
