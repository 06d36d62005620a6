------------------------------- MODULE Launch -------------------------------
(***************************************************************************)
(* Starting and stopping the daemon from the control center: the commands  *)
(* start_daemon and stop_daemon of DesktopCore (crates/pam_gui), the       *)
(* launch grant and the ownership lock they share with the processes they  *)
(* spawn (crates/pam_platform/src/endpoint.rs), and run and serve_until of *)
(* the daemon up to and from its serving loop.                             *)
(*                                                                         *)
(* The command gate lets one of the two commands run at a time.  Other     *)
(* requests of the control center (an inference, which takes no gate) meet *)
(* a timeout and probe the ownership lock at any moment.                   *)
(***************************************************************************)
EXTENDS Naturals, FiniteSets

CONSTANTS MaxSpawns,    \* bound on the start commands
          MaxWedges,    \* bound on the daemons that stop answering
          Probing       \* whether other requests probe the lock

ASSUME LaunchAssumption == MaxSpawns \in Nat

VARIABLES proc,     \* the spawned daemons, in the order of their start
          grant,    \* the launch-grant file: the process it names, or 0
          lock,     \* who holds daemon.lock: a process, the probe or 0
          socket,   \* who bound daemon.sock: a process, or 0 for no file
          gui,      \* the command under the gate and the tracked child
          wedges

launchVars == <<proc, grant, lock, socket, gui, wedges>>

Procs == 1..MaxSpawns
TheProbe == MaxSpawns + 1
NextProc == CHOOSE p \in 1..MaxSpawns + 1 :
    (p > MaxSpawns \/ proc[p] = "none") /\ \A q \in 1..p - 1 : proc[q] # "none"
Gone == {"none", "exited"}
Alive(p) == p \in Procs /\ proc[p] \notin Gone

LaunchInit ==
    /\ proc = [p \in Procs |-> "none"]
    /\ grant = 0 /\ lock = 0 /\ socket = 0 /\ wedges = 0
    /\ gui = [pc |-> "idle", child |-> 0, tracked |-> 0, asked |-> "none", answer |-> "none"]

\* What a process leaves when it ends: the file lock goes with it, and the
\* socket file only when it closed its server.
Exits(p, closes) ==
    /\ proc' = [proc EXCEPT ![p] = "exited"]
    /\ lock' = IF lock = p THEN 0 ELSE lock
    /\ socket' = IF closes /\ socket = p THEN 0 ELSE socket

----------------------------------------------------------------------------
(* The daemon.                                                             *)

\* run: the grant is read, compared and deleted; without it there is no
\* start.
ConsumeLaunchGrant(p) ==
    /\ proc[p] = "spawned"
    /\ IF grant = p
       THEN proc' = [proc EXCEPT ![p] = "granted"] /\ grant' = 0 /\ UNCHANGED <<lock, socket>>
       ELSE Exits(p, FALSE) /\ UNCHANGED grant
    /\ UNCHANGED <<gui, wedges>>

\* The endpoint prepared before the lock is tried.
AcquireOwnershipLate(p) ==
    /\ proc[p] = "granted"
    /\ socket' = 0
    /\ IF lock = 0
       THEN lock' = p /\ proc' = [proc EXCEPT ![p] = "loading"]
       ELSE proc' = [proc EXCEPT ![p] = "exited"] /\ UNCHANGED lock
    /\ UNCHANGED <<grant, gui, wedges>>

\* Ownership::acquire, and then prepare_endpoint of a start with --recover:
\* a socket file found there is stale, its daemon being gone.
AcquireOwnership(p) ==
    /\ proc[p] = "granted"
    /\ IF lock = 0
       THEN lock' = p /\ socket' = 0 /\ proc' = [proc EXCEPT ![p] = "loading"]
       ELSE Exits(p, FALSE)
    /\ UNCHANGED <<grant, gui, wedges>>

\* The store is opened, the leases recovered and the model loaded, and only
\* then is the endpoint bound; any of these can fail and end the process.
BindEndpoint(p) ==
    /\ proc[p] = "loading"
    /\ \/ /\ proc' = [proc EXCEPT ![p] = "serving"]
          /\ socket' = p
          /\ UNCHANGED lock
       \/ Exits(p, FALSE)
    /\ UNCHANGED <<grant, gui, wedges>>

\* The serving loop ends: handlers, scheduler and model are shut down, the
\* server is closed and the ownership dropped last.
ServeEnds(p) ==
    /\ proc[p] = "stopping"
    /\ Exits(p, TRUE)
    /\ UNCHANGED <<grant, gui, wedges>>

\* A daemon that stops answering, and holds on to all it has.
Wedges(p) ==
    /\ proc[p] \in {"serving", "stopping"} /\ wedges < MaxWedges
    /\ proc' = [proc EXCEPT ![p] = "wedged"]
    /\ wedges' = wedges + 1
    /\ UNCHANGED <<grant, lock, socket, gui>>

----------------------------------------------------------------------------
(* The lock probe of a request that timed out.                             *)

\* probe_daemon_runtime takes a free lock to see that it is free ...
ProbeDaemonRuntime ==
    /\ Probing /\ lock = 0
    /\ lock' = TheProbe
    /\ UNCHANGED <<proc, grant, socket, gui, wedges>>

\* ... and lets it go with the file.
ProbeReleases ==
    /\ lock = TheProbe
    /\ lock' = 0
    /\ UNCHANGED <<proc, grant, socket, gui, wedges>>

----------------------------------------------------------------------------
(* start_daemon.                                                           *)

\* A process is killed: nothing is closed.
Killed(p) == /\ proc' = [proc EXCEPT ![p] = "exited"]
             /\ lock' = IF lock = p THEN 0 ELSE lock
             /\ UNCHANGED socket

\* issue_launch_grant and daemon_start_command.
StartDaemon ==
    /\ gui.pc = "idle" /\ NextProc \in Procs
    /\ grant' = NextProc
    /\ proc' = [proc EXCEPT ![NextProc] = "spawned"]
    /\ gui' = [gui EXCEPT !.pc = "poll", !.child = NextProc, !.asked = "start", !.answer = "none"]
    /\ UNCHANGED <<lock, socket, wedges>>

\* An authenticated status request of the control center.
ProbeHealth == IF \E p \in Procs : proc[p] = "serving" THEN "healthy"
               ELSE IF lock \in Procs THEN "degraded" ELSE "offline"

\* poll_daemon_startup: the child's exit is looked at, then the health of
\* whichever daemon answers.
PollExit ==
    /\ gui.pc = "poll"
    /\ gui' = IF Alive(gui.child) THEN [gui EXCEPT !.pc = "health"]
              ELSE [gui EXCEPT !.pc = "idle", !.child = 0, !.answer = "exited"]
    /\ UNCHANGED <<proc, grant, lock, socket, wedges>>

\* A start that gives up on a daemon still loading, and forgets it.
PollHealthForgets ==
    /\ gui.pc = "health"
    /\ \/ /\ ProbeHealth = "healthy"
          /\ \E model \in BOOLEAN :
               gui' = [gui EXCEPT !.pc = "track", !.answer = IF model THEN "serving" ELSE "model missing"]
       \/ /\ ProbeHealth # "healthy"
          /\ gui' = [gui EXCEPT !.pc = "poll"]
       \/ /\ ProbeHealth # "healthy" /\ Alive(gui.child)
          /\ gui' = [gui EXCEPT !.pc = "idle", !.child = 0, !.answer = "still starting"]
    /\ UNCHANGED <<proc, grant, lock, socket, wedges>>

\* Healthy ends the wait, with or without the model; the budget ends it too
\* when the child still runs; anything else polls again.
PollHealth ==
    /\ gui.pc = "health"
    /\ \/ /\ ProbeHealth = "healthy"
          /\ \E model \in BOOLEAN :
               gui' = [gui EXCEPT !.pc = "track", !.answer = IF model THEN "serving" ELSE "model missing"]
       \/ /\ ProbeHealth # "healthy"
          /\ gui' = [gui EXCEPT !.pc = "poll"]
       \/ /\ ProbeHealth # "healthy" /\ Alive(gui.child)
          /\ gui' = [gui EXCEPT !.pc = "track", !.answer = "still starting"]
    /\ UNCHANGED <<proc, grant, lock, socket, wedges>>

\* replace_daemon_child: the handle it replaces is collected, and a process
\* still running behind it is killed.
TrackDaemonChild ==
    /\ gui.pc = "track"
    /\ IF Alive(gui.tracked) THEN Killed(gui.tracked) ELSE UNCHANGED <<proc, lock, socket>>
    /\ gui' = [gui EXCEPT !.pc = "idle", !.child = 0, !.tracked = gui.child]
    /\ UNCHANGED <<grant, wedges>>

----------------------------------------------------------------------------
(* stop_daemon.                                                            *)

\* request_daemon_stop_authenticated: a serving daemon acknowledges and
\* leaves its loop; one that is loading, wedged or gone gives an error.
RequestDaemonStop ==
    /\ gui.pc = "idle"
    /\ IF \E p \in Procs : proc[p] = "serving"
       THEN /\ proc' = [p \in Procs |-> IF proc[p] = "serving" THEN "stopping" ELSE proc[p]]
            /\ gui' = [gui EXCEPT !.pc = "await", !.asked = "stop", !.answer = "none"]
       ELSE /\ gui' = [gui EXCEPT !.pc = "reap", !.asked = "stop", !.answer = "failed"]
            /\ UNCHANGED proc
    /\ UNCHANGED <<grant, lock, socket, wedges>>

\* Health is polled until the daemon is unavailable, twenty times.
AwaitOffline ==
    /\ gui.pc = "await"
    /\ \/ /\ ProbeHealth = "offline"
          /\ gui' = [gui EXCEPT !.pc = "reap", !.answer = "stopped"]
       \/ gui' = [gui EXCEPT !.pc = "reap", !.answer = "failed"]
    /\ UNCHANGED <<proc, grant, lock, socket, wedges>>

\* reap_daemon_child: the tracked child has its grace, and is killed after
\* it; stop_outcome then calls the stop a success whenever there was one.
ReapDaemonChild ==
    /\ gui.pc = "reap"
    /\ IF Alive(gui.tracked) THEN Killed(gui.tracked) ELSE UNCHANGED <<proc, lock, socket>>
    /\ gui' = [gui EXCEPT !.pc = "idle", !.tracked = 0,
                          !.answer = IF gui.tracked # 0 THEN "stopped" ELSE @]
    /\ UNCHANGED <<grant, wedges>>

LaunchNext ==
    \/ \E p \in Procs : ConsumeLaunchGrant(p) \/ AcquireOwnership(p) \/ BindEndpoint(p)
                        \/ ServeEnds(p) \/ Wedges(p)
    \/ ProbeDaemonRuntime \/ ProbeReleases
    \/ StartDaemon \/ PollExit \/ PollHealth \/ TrackDaemonChild
    \/ RequestDaemonStop \/ AwaitOffline \/ ReapDaemonChild

LaunchSpec == LaunchInit /\ [][LaunchNext]_launchVars

----------------------------------------------------------------------------

\* A daemon that serves can be reached: no other start, however it was
\* interleaved with this one, has removed the socket it bound.
ServingReachable ==
    \A p \in Procs : proc[p] = "serving" => socket = p /\ lock = p

\* "Every daemon this process spawned and left running is tracked": between
\* commands, a process still running is the tracked child, or is on its way
\* out.
LeftRunningIsTracked ==
    gui.pc = "idle" => \A p \in Procs : Alive(p) => p = gui.tracked

\* Starts are exclusive and none is forgotten: one daemon serves, it can be
\* reached, and the control center tracks what it left running
\* (Ownership::acquire, start_daemon).
StartsAreExclusive == ServingReachable /\ LeftRunningIsTracked
=============================================================================
