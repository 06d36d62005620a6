---------------------------- MODULE DaemonProofs ----------------------------
(*****************************************************************************)
(* Proofs about the daemon's process and its model slot. LaunchInv ties      *)
(* every daemon process to the owner lock, the socket and the child that the *)
(* desktop application tracks (Launch). CellInv ties the mapped runtimes to  *)
(* the model cell, the transition guard and the one handler that may be      *)
(* between them (ModelCell): only the holder of the guard swaps, and what it *)
(* has taken out of the cell it joins before it maps again.                  *)
(*****************************************************************************)
EXTENDS ModelCell, Launch, TLAPS

-----------------------------------------------------------------------------
(* The launch *)

\* The command under the gate.
Gui == [pc : {"idle", "poll", "health", "track", "await", "reap"}, child : 0 .. MaxSpawns,
        tracked : 0 .. MaxSpawns, asked : {"none", "start", "stop"},
        answer : {"none", "exited", "serving", "model missing", "still starting", "failed", "stopped"}]

\* Whoever has passed Ownership::acquire and is not gone holds the lock.
OwnersHoldTheLock ==
    \A p \in Procs : proc[p] \in {"loading", "serving", "stopping", "wedged"} => lock = p

\* Every process that runs is the tracked child or the one being started.
RunningIsKnown == \A p \in Procs : Alive(p) => p \in {gui.tracked, gui.child}

\* The inductive invariant of the launch.
LaunchInv ==
    /\ proc \in [Procs -> {"none", "spawned", "granted", "loading", "serving", "stopping", "wedged",
                           "exited"}]
    /\ gui \in Gui
    /\ OwnersHoldTheLock
    /\ \A p \in Procs : proc[p] = "serving" => socket = p
    /\ RunningIsKnown
    /\ gui.pc \in {"idle", "await", "reap"} => gui.child = 0

-----------------------------------------------------------------------------
(* The model cell *)

\* A handler that drains, maps or seats a model.
Draining == {"signal", "cancel", "send", "join"}

\* The steps of a load or an unload that hold the transition guard.
Swapping == Draining \cup {"map", "seat"}

\* Where a handler can be.
Pcs == {"idle", "lookup", "admit", "await", "record", "remove", "row", "audit", "done"} \cup Swapping

\* What a handler was asked to do.
Ops == {None, "load", "unload", "infer", "unregister", "delete"}

\* What a generation can be answered.
Replies == {None, "generated", "failed", "cancelled", "unavailable", "observed", "verified", "unresolved"}

\* How a handler's request ends.
Answers == {None, "answered", "unanswered", "refused", "differs"}

\* A handler task.
HandlerRecord ==
    [op : Ops, model : Models \cup {None}, pc : Pcs, gen : Nat, cancelled : BOOLEAN, reply : Replies,
     answer : Answers]

\* A generator service: its queue and its worker.
Generation ==
    [model : Models, queue : Seq(Handlers \cup {Shutdown}), worker : {"idle", "taken", "running", "ended"},
     current : Handlers \cup {None, Shutdown}, active : Handlers \cup {None, Shutdown}, stop : BOOLEAN]

\* A generation nobody has begun to retire.
Untouched(g) ==
    /\ g \in Gens /\ ~service[g].stop /\ service[g].worker # "ended"
    /\ \A i \in 1 .. Len(service[g].queue) : service[g].queue[i] # Shutdown

\* What a handler rests on: while it changes the model it alone holds the guard and the
\* slot is empty.
HandlerFits(h, x) ==
    /\ x.pc \in {"lookup"} \cup Swapping => guard = h
    /\ x.pc \in Swapping => loaded = 0
    /\ x.pc \in Draining \cup {"admit"} => x.gen \in Gens
    /\ x.pc = "seat" => Untouched(x.gen)

\* A mapped runtime is the loaded one, or the one a handler drains or is about to seat.
MappedIsKnown ==
    \A g \in Gens : service[g].worker # "ended" =>
        \/ g = loaded
        \/ \E h \in Handlers : handler[h].pc \in Draining \cup {"seat"} /\ handler[h].gen = g

\* The inductive invariant of the model cell.
CellInv ==
    /\ registry \subseteq Models /\ weights \subseteq Models /\ loaded \in Nat /\ guard \in Handlers \cup {None}
    /\ failure \in BOOLEAN
    /\ service \in Seq(Generation) /\ handler \in [Handlers -> HandlerRecord]
    /\ \A h \in Handlers : HandlerFits(h, handler[h])
    /\ MappedIsKnown
    /\ loaded # 0 => Untouched(loaded) /\ ~failure
    /\ transition # "none" => guard \in Handlers /\ handler[guard].pc \in Swapping

-----------------------------------------------------------------------------
(* The launch keeps LaunchInv *)

\* Nothing runs initially.
LEMMA LaunchInitInv == LaunchInit => LaunchInv
<1> SUFFICES ASSUME LaunchInit PROVE LaunchInv OBVIOUS
<1> USE LaunchAssumption
<1>1. gui \in Gui BY DEF LaunchInit, Gui
<1>2. QED BY <1>1 DEF LaunchInit, LaunchInv, OwnersHoldTheLock, RunningIsKnown, Alive, Gone, Procs

\* A daemon that exits gives up its lock and its socket.
LEMMA ExitKeepsLaunch ==
    ASSUME LaunchInv, NEW p \in Procs, NEW closes, Exits(p, closes), gui' = gui
    PROVE  LaunchInv'
<1>1. proc' \in [Procs -> {"none", "spawned", "granted", "loading", "serving", "stopping", "wedged",
                           "exited"}]
  BY DEF LaunchInv, Exits
<1>2. \A q \in Procs : q # p => proc'[q] = proc[q]
  BY DEF LaunchInv, Exits
<1>3. proc'[p] = "exited"
  BY DEF LaunchInv, Exits
<1>4. OwnersHoldTheLock'
  BY <1>2, <1>3 DEF LaunchInv, Exits, OwnersHoldTheLock, Procs
<1>5. \A q \in Procs : proc'[q] = "serving" => socket' = q
  BY <1>2, <1>3 DEF LaunchInv, Exits
<1>6. RunningIsKnown'
  BY <1>2, <1>3 DEF LaunchInv, RunningIsKnown, Alive, Gone
<1>7. QED BY <1>1, <1>4, <1>5, <1>6 DEF LaunchInv

\* So does one that is killed.
LEMMA KillKeepsOwners ==
    ASSUME LaunchInv, NEW p \in Procs, Killed(p)
    PROVE  /\ proc' \in [Procs -> {"none", "spawned", "granted", "loading", "serving", "stopping",
                                   "wedged", "exited"}]
           /\ OwnersHoldTheLock'
           /\ \A q \in Procs : proc'[q] = "serving" => socket' = q
           /\ \A q \in Procs : Alive(q)' => q # p /\ Alive(q)
<1>1. \A q \in Procs : q # p => proc'[q] = proc[q]
  BY DEF LaunchInv, Killed
<1>2. proc'[p] = "exited"
  BY DEF LaunchInv, Killed
<1>3. OwnersHoldTheLock'
  BY <1>1, <1>2 DEF LaunchInv, Killed, OwnersHoldTheLock, Procs
<1>4. \A q \in Procs : proc'[q] = "serving" => socket' = q
  BY <1>1, <1>2 DEF LaunchInv, Killed
<1>5. \A q \in Procs : Alive(q)' => q # p /\ Alive(q)
  BY <1>1, <1>2 DEF Alive, Gone
<1>6. QED BY <1>3, <1>4, <1>5 DEF LaunchInv, Killed

\* A daemon's own steps: the grant, the owner lock, the endpoint, the end and a
\* wedge.
LEMMA DaemonSteps ==
    ASSUME LaunchInv, NEW p \in Procs,
           ConsumeLaunchGrant(p) \/ AcquireOwnership(p) \/ BindEndpoint(p) \/ ServeEnds(p) \/ Wedges(p)
    PROVE  LaunchInv'
<1> DEFINE States == {"none", "spawned", "granted", "loading", "serving", "stopping", "wedged", "exited"}
<1>1. ASSUME NEW s \in States \ Gone, proc' = [proc EXCEPT ![p] = s], gui' = gui, proc[p] \notin Gone,
             lock' = lock \/ lock = 0,
             s \in {"loading", "serving", "stopping", "wedged"} => lock' = p,
             s = "serving" => socket' = p,
             \A q \in Procs : q # p /\ proc[q] = "serving" => socket' = q
      PROVE  LaunchInv'
  <2>1. proc' \in [Procs -> States] BY <1>1 DEF LaunchInv
  <2>2. \A q \in Procs : q # p => proc'[q] = proc[q] BY <1>1 DEF LaunchInv
  <2>3. proc'[p] = s BY <1>1 DEF LaunchInv
  <2>4. OwnersHoldTheLock'
    BY <1>1, <2>2, <2>3 DEF LaunchInv, OwnersHoldTheLock, Procs
  <2>5. \A q \in Procs : proc'[q] = "serving" => socket' = q
    BY <1>1, <2>2, <2>3 DEF LaunchInv
  <2>6. RunningIsKnown'
    BY <1>1, <2>2 DEF LaunchInv, RunningIsKnown, Alive
  <2>7. QED BY <1>1, <2>1, <2>4, <2>5, <2>6 DEF LaunchInv
<1>2. CASE ConsumeLaunchGrant(p)
  <2>1. CASE grant = p
    <3>1. proc' = [proc EXCEPT ![p] = "granted"] /\ gui' = gui /\ lock' = lock /\ socket' = socket
          /\ proc[p] = "spawned"
      BY <1>2, <2>1 DEF ConsumeLaunchGrant
    <3>2. \A q \in Procs : proc[q] = "serving" => socket = q
      BY DEF LaunchInv
    <3>3. QED BY <1>1, <3>1, <3>2, Zenon DEF Gone
  <2>2. CASE grant # p
    BY <1>2, <2>2, ExitKeepsLaunch, Zenon DEF ConsumeLaunchGrant
  <2>3. QED BY <2>1, <2>2
<1>3. CASE AcquireOwnership(p)
  <2>1. CASE lock = 0
    <3>1. proc' = [proc EXCEPT ![p] = "loading"] /\ gui' = gui /\ lock' = p /\ proc[p] = "granted"
      BY <1>3, <2>1 DEF AcquireOwnership
    <3>2. \A q \in Procs : proc[q] # "serving"
      BY <2>1 DEF LaunchInv, OwnersHoldTheLock, Procs
    <3>3. QED BY <1>1, <2>1, <3>1, <3>2, Zenon DEF Gone
  <2>2. CASE lock # 0
    BY <1>3, <2>2, ExitKeepsLaunch, Zenon DEF AcquireOwnership
  <2>3. QED BY <2>1, <2>2
<1>4. CASE BindEndpoint(p)
  <2>1. CASE proc' = [proc EXCEPT ![p] = "serving"] /\ socket' = p /\ lock' = lock
    <3>1. gui' = gui /\ proc[p] = "loading"
      BY <1>4, Zenon DEF BindEndpoint
    <3>2. lock = p /\ \A q \in Procs : proc[q] = "serving" => q = p
      BY <3>1, Zenon DEF LaunchInv, OwnersHoldTheLock
    <3>3. QED BY <1>1, <2>1, <3>1, <3>2, Zenon DEF Gone
  <2>2. CASE Exits(p, FALSE)
    BY <1>4, <2>2, ExitKeepsLaunch, Zenon DEF BindEndpoint
  <2>3. QED BY <1>4, <2>1, <2>2, Zenon DEF BindEndpoint
<1>5. CASE ServeEnds(p)
  BY <1>5, ExitKeepsLaunch, Zenon DEF ServeEnds
<1>6. CASE Wedges(p)
  <2>1. proc' = [proc EXCEPT ![p] = "wedged"] /\ gui' = gui /\ lock' = lock /\ socket' = socket
        /\ proc[p] \in {"serving", "stopping"}
    BY <1>6 DEF Wedges
  <2>2. lock = p /\ \A q \in Procs : proc[q] = "serving" => socket = q
    BY <2>1 DEF LaunchInv, OwnersHoldTheLock
  <2>3. QED BY <1>1, <2>1, <2>2, Zenon DEF Gone
<1>7. QED BY <1>2, <1>3, <1>4, <1>5, <1>6

\* Probing the runtime takes and releases the lock without serving.
LEMMA ProbeSteps ==
    ASSUME LaunchInv, ProbeDaemonRuntime \/ ProbeReleases
    PROVE  LaunchInv'
<1> USE LaunchAssumption
<1>1. \A p \in Procs : lock # p
  BY DEF ProbeDaemonRuntime, ProbeReleases, Procs, TheProbe
<1>2. proc' = proc /\ socket' = socket /\ gui' = gui
  BY DEF ProbeDaemonRuntime, ProbeReleases
<1>3. OwnersHoldTheLock'
  BY <1>1, <1>2 DEF LaunchInv, OwnersHoldTheLock
<1>4. RunningIsKnown'
  BY <1>2, Zenon DEF LaunchInv, RunningIsKnown, Alive
<1>5. QED BY <1>2, <1>3, <1>4 DEF LaunchInv

\* A start that is under way.
LEMMA GuiStarts ==
    ASSUME NEW x \in Gui, NEW p \in 0 .. MaxSpawns
    PROVE  [x EXCEPT !.pc = "poll", !.child = p, !.asked = "start", !.answer = "none"] \in Gui
<1>1. "poll" \in {"idle", "poll", "health", "track", "await", "reap"}
  OBVIOUS
<1>2. "none" \in {"none", "exited", "serving", "model missing", "still starting", "failed", "stopped"}
  OBVIOUS
<1>3. "start" \in {"none", "start", "stop"}
  OBVIOUS
<1>4. QED BY <1>1, <1>2, <1>3, Zenon DEF Gui

\* No process is the number zero.
LEMMA NoSpawn == 0 \in 0 .. MaxSpawns
BY LaunchAssumption

\* A start or a stop that is answered.
LEMMA GuiSettles ==
    ASSUME NEW x \in Gui, NEW t \in 0 .. MaxSpawns,
           NEW a \in {"none", "exited", "serving", "model missing", "still starting", "failed", "stopped"}
    PROVE  [x EXCEPT !.pc = "idle", !.child = 0, !.tracked = t, !.answer = a] \in Gui
<1>1. "idle" \in {"idle", "poll", "health", "track", "await", "reap"}
  BY Zenon
<1>2. QED BY <1>1, NoSpawn, Zenon DEF Gui

\* start_daemon spawns only when it tracks no live daemon.
LEMMA StartKeepsLaunch == LaunchInv /\ StartDaemon => LaunchInv'
<1> SUFFICES ASSUME LaunchInv, StartDaemon PROVE LaunchInv' OBVIOUS
<1> USE LaunchAssumption
<1>1. PICK p \in Procs : /\ proc' = [proc EXCEPT ![p] = "spawned"]
                         /\ gui' = [gui EXCEPT !.pc = "poll", !.child = p, !.asked = "start", !.answer = "none"]
                         /\ lock' = lock /\ socket' = socket /\ gui.pc = "idle"
  BY Zenon DEF StartDaemon
<1>2. proc' \in [Procs -> {"none", "spawned", "granted", "loading", "serving", "stopping", "wedged",
                           "exited"}]
  BY <1>1 DEF LaunchInv
<1>3. \A q \in Procs : q # p => proc'[q] = proc[q]
  BY <1>1 DEF LaunchInv
<1>4. proc'[p] = "spawned"
  BY <1>1 DEF LaunchInv
<1>5. gui' \in Gui /\ gui'.pc = "poll" /\ gui'.child = p /\ gui'.tracked = gui.tracked
  <2>1. gui \in Gui /\ p \in 0 .. MaxSpawns
    BY DEF LaunchInv, Procs
  <2>2. gui' \in Gui
    BY <1>1, <2>1, GuiStarts, Zenon
  <2>3. QED BY <1>1, <2>1, <2>2, ZenonT(40) DEF Gui
<1>6. OwnersHoldTheLock' /\ \A q \in Procs : proc'[q] = "serving" => socket' = q
  BY <1>1, <1>3, <1>4 DEF LaunchInv, OwnersHoldTheLock
<1>7. gui.child = 0
  BY <1>1 DEF LaunchInv
<1>8. RunningIsKnown'
  BY <1>3, <1>5, <1>7 DEF LaunchInv, RunningIsKnown, Alive, Procs
<1>9. QED BY <1>2, <1>5, <1>6, <1>8 DEF LaunchInv

\* Polling a child for its exit or its health keeps the invariant.
LEMMA PollKeepsLaunch ==
    ASSUME LaunchInv, PollExit \/ PollHealth \/ AwaitOffline
    PROVE  LaunchInv'
<1> USE LaunchAssumption
<1>1. proc' = proc /\ socket' = socket /\ lock' = lock
  BY Zenon DEF PollExit, PollHealth, AwaitOffline
<1>2. gui \in Gui
  BY DEF LaunchInv
<1>3. /\ gui' \in Gui /\ gui'.tracked = gui.tracked
      /\ gui'.pc \in {"idle", "await", "reap"} => gui'.child = 0
      /\ gui'.child = gui.child \/ ~Alive(gui.child)
  <2>1. CASE PollExit
    <3>1. CASE Alive(gui.child)
      <4>1. gui' = [gui EXCEPT !.pc = "health"]
        BY <2>1, <3>1 DEF PollExit
      <4>2. QED BY <1>2, <4>1, Zenon DEF Gui
    <3>2. CASE ~Alive(gui.child)
      <4>1. gui' = [gui EXCEPT !.pc = "idle", !.child = 0, !.answer = "exited"]
        BY <2>1, <3>2 DEF PollExit
      <4>2. gui' \in Gui /\ gui'.tracked = gui.tracked /\ gui'.child = 0
        <5>1. gui' = [gui EXCEPT !.pc = "idle", !.child = 0, !.tracked = gui.tracked,
                                 !.answer = "exited"]
          BY <1>2, <4>1, Zenon DEF Gui
        <5>2. gui.tracked \in 0 .. MaxSpawns
          BY <1>2, Zenon DEF Gui
        <5>3. gui' \in Gui
          BY <1>2, <5>1, <5>2, GuiSettles, Zenon
        <5>4. QED BY <1>2, <5>1, <5>3, ZenonT(40) DEF Gui
      <4>3. QED BY <3>2, <4>2
    <3>3. QED BY <3>1, <3>2, Zenon
  <2>2. CASE PollHealth
    <3>1. PICK pc \in {"track", "poll"}, a \in {"serving", "model missing", "still starting", gui.answer} :
            gui' = [gui EXCEPT !.pc = pc, !.answer = a]
      <4>1. CASE \E model \in BOOLEAN :
               gui' = [gui EXCEPT !.pc = "track", !.answer = IF model THEN "serving" ELSE "model missing"]
        BY <4>1, Zenon
      <4>2. CASE gui' = [gui EXCEPT !.pc = "poll"]
        <5>1. gui' = [gui EXCEPT !.pc = "poll", !.answer = gui.answer]
          BY <4>2, <1>2, Zenon DEF Gui
        <5>2. QED BY <5>1
      <4>3. CASE gui' = [gui EXCEPT !.pc = "track", !.answer = "still starting"]
        BY <4>3
      <4>4. QED BY <2>2, <4>1, <4>2, <4>3, Zenon DEF PollHealth
    <3>2. gui.answer \in {"none", "exited", "serving", "model missing", "still starting", "failed",
                          "stopped"}
      BY <1>2, Zenon DEF Gui
    <3>3. QED BY <1>2, <3>1, <3>2, Zenon DEF Gui
  <2>3. CASE AwaitOffline
    <3>1. PICK a \in {"stopped", "failed"} : gui' = [gui EXCEPT !.pc = "reap", !.answer = a]
      BY <2>3 DEF AwaitOffline
    <3>2. gui.child = 0
      BY <2>3 DEF AwaitOffline, LaunchInv
    <3>3. QED BY <1>2, <3>1, <3>2, Zenon DEF Gui
  <2>4. QED BY <2>1, <2>2, <2>3, Zenon
<1>4. OwnersHoldTheLock'
  BY <1>1 DEF LaunchInv, OwnersHoldTheLock
<1>5. RunningIsKnown'
  BY <1>1, <1>3, Zenon DEF LaunchInv, RunningIsKnown, Alive
<1>6. QED BY <1>1, <1>3, <1>4, <1>5, Zenon DEF LaunchInv

\* A daemon that serves is tracked, one that does not is reaped.
LEMMA TrackedSteps ==
    ASSUME LaunchInv, TrackDaemonChild \/ ReapDaemonChild
    PROVE  LaunchInv'
<1> USE LaunchAssumption
<1> gui \in Gui
  BY Zenon DEF LaunchInv
<1>1. /\ proc' \in [Procs -> {"none", "spawned", "granted", "loading", "serving", "stopping",
                              "wedged", "exited"}]
      /\ OwnersHoldTheLock'
      /\ \A q \in Procs : proc'[q] = "serving" => socket' = q
      /\ \A q \in Procs : Alive(q)' => q # gui.tracked /\ Alive(q)
  <2>1. CASE Alive(gui.tracked)
    <3>1. gui.tracked \in Procs /\ Killed(gui.tracked)
      BY <2>1 DEF Alive, TrackDaemonChild, ReapDaemonChild
    <3>2. QED BY <3>1, KillKeepsOwners, Zenon
  <2>2. CASE ~Alive(gui.tracked)
    <3>1. proc' = proc /\ lock' = lock /\ socket' = socket
      BY <2>2 DEF TrackDaemonChild, ReapDaemonChild
    <3>2. \A q \in Procs : Alive(q)' => q # gui.tracked /\ Alive(q)
      BY <2>2, <3>1, Zenon DEF Alive
    <3>3. QED BY <3>1, <3>2, Zenon DEF LaunchInv, OwnersHoldTheLock
  <2>3. QED BY <2>1, <2>2, Zenon
<1>2. gui' \in Gui /\ gui'.child = 0 /\ (gui'.tracked = gui.child \/ gui.child = 0)
  <2>1. CASE TrackDaemonChild
    <3>1. gui' = [gui EXCEPT !.pc = "idle", !.child = 0, !.tracked = gui.child]
      BY <2>1 DEF TrackDaemonChild
    <3>2. gui' = [gui EXCEPT !.pc = "idle", !.child = 0, !.tracked = gui.child, !.answer = gui.answer]
      BY <3>1, Zenon DEF Gui
    <3>3. gui.child \in 0 .. MaxSpawns /\ gui.answer \in {"none", "exited", "serving", "model missing",
                                                          "still starting", "failed", "stopped"}
      BY Zenon DEF Gui
    <3>4. gui' \in Gui
      BY <3>2, <3>3, GuiSettles, Zenon
    <3>5. QED BY <3>2, <3>4, ZenonT(40) DEF Gui
  <2>2. CASE ReapDaemonChild
    <3>1. PICK a \in {"stopped", gui.answer} : gui' = [gui EXCEPT !.pc = "idle", !.tracked = 0, !.answer = a]
      BY <2>2, Zenon DEF ReapDaemonChild, Gui
    <3>2. gui.child = 0
      BY <2>2 DEF ReapDaemonChild, LaunchInv
    <3>3. gui.answer \in {"none", "exited", "serving", "model missing", "still starting", "failed",
                          "stopped"}
      BY Zenon DEF Gui
    <3>4. QED BY <3>1, <3>2, <3>3, Zenon DEF Gui
  <2>3. QED BY <2>1, <2>2, Zenon
<1>3. RunningIsKnown'
  <2>1. SUFFICES ASSUME NEW q \in Procs, Alive(q)' PROVE q \in {gui'.tracked, gui'.child}
    BY DEF RunningIsKnown
  <2>2. q = gui.child
    BY <2>1, <1>1, Zenon DEF LaunchInv, RunningIsKnown
  <2>3. QED BY <1>2, <2>2, Zenon DEF Procs
<1>4. QED BY <1>1, <1>2, <1>3, Zenon DEF LaunchInv

\* Asking the daemon to stop keeps the invariant.
LEMMA StopKeepsLaunch == LaunchInv /\ RequestDaemonStop => LaunchInv'
<1> SUFFICES ASSUME LaunchInv, RequestDaemonStop PROVE LaunchInv' OBVIOUS
<1> USE LaunchAssumption
<1>1. /\ lock' = lock /\ socket' = socket
      /\ proc' = proc \/ proc' = [p \in Procs |-> IF proc[p] = "serving" THEN "stopping" ELSE proc[p]]
  BY DEF RequestDaemonStop
<1>2. /\ proc' \in [Procs -> {"none", "spawned", "granted", "loading", "serving", "stopping",
                              "wedged", "exited"}]
      /\ \A p \in Procs : proc'[p] = proc[p] \/ (proc[p] = "serving" /\ proc'[p] = "stopping")
  BY <1>1, Zenon DEF LaunchInv
<1>3. gui' \in Gui /\ gui'.child = 0 /\ gui'.tracked = gui.tracked /\ gui.child = 0
  <2>1. PICK pc \in {"await", "reap"}, a \in {"none", "failed"} :
          gui' = [gui EXCEPT !.pc = pc, !.asked = "stop", !.answer = a]
    BY DEF RequestDaemonStop
  <2>2. gui.pc = "idle"
    BY DEF RequestDaemonStop
  <2>3. QED BY <2>1, <2>2, Zenon DEF LaunchInv, Gui
<1>4. OwnersHoldTheLock' /\ \A q \in Procs : proc'[q] = "serving" => socket' = q
  BY <1>1, <1>2 DEF LaunchInv, OwnersHoldTheLock
<1>5. RunningIsKnown'
  BY <1>2, <1>3, Zenon DEF LaunchInv, RunningIsKnown, Alive, Gone
<1>6. QED BY <1>2, <1>3, <1>4, <1>5, Zenon DEF LaunchInv

\* Every behaviour of the launch keeps the inductive invariant.
THEOREM LaunchInvariant == LaunchSpec => []LaunchInv
<1>1. LaunchInv /\ [LaunchNext]_launchVars => LaunchInv'
  <2> SUFFICES ASSUME LaunchInv, [LaunchNext]_launchVars PROVE LaunchInv' OBVIOUS
  <2>1. CASE UNCHANGED launchVars
    BY <2>1, Zenon DEF launchVars, LaunchInv, OwnersHoldTheLock, RunningIsKnown, Alive
  <2>2. ASSUME NEW p \in Procs,
               ConsumeLaunchGrant(p) \/ AcquireOwnership(p) \/ BindEndpoint(p) \/ ServeEnds(p) \/ Wedges(p)
        PROVE  LaunchInv'
    BY <2>2, DaemonSteps, Zenon
  <2>3. CASE ProbeDaemonRuntime \/ ProbeReleases
    BY <2>3, ProbeSteps
  <2>4. CASE StartDaemon
    BY <2>4, StartKeepsLaunch
  <2>5. CASE PollExit \/ PollHealth \/ AwaitOffline
    BY <2>5, PollKeepsLaunch
  <2>6. CASE TrackDaemonChild \/ ReapDaemonChild
    BY <2>6, TrackedSteps
  <2>7. CASE RequestDaemonStop
    BY <2>7, StopKeepsLaunch
  <2>8. QED BY <2>1, <2>2, <2>3, <2>4, <2>5, <2>6, <2>7, Zenon DEF LaunchNext
<1>2. QED BY LaunchInitInv, <1>1, PTL DEF LaunchSpec

\* However starts, stops, probes, exits and kills interleave, and for any number of
\* spawns: one daemon serves, it can be reached, and the control center tracks what
\* it left running (Ownership::acquire, start_daemon).
THEOREM StartsExclusive == LaunchSpec => []StartsAreExclusive
<1>1. LaunchInv => StartsAreExclusive
  BY LaunchAssumption
  DEF LaunchInv, StartsAreExclusive, ServingReachable, LeftRunningIsTracked, OwnersHoldTheLock,
      RunningIsKnown, Procs
<1>2. QED BY LaunchInvariant, <1>1, PTL

-----------------------------------------------------------------------------
(* The model cell keeps CellInv *)

\* No generation is added and none that ended runs again.
NothingMapped ==
    /\ service' \in Seq(Generation) /\ Len(service') = Len(service)
    /\ \A g \in Gens : service'[g].worker # "ended" => service[g].worker # "ended"

\* Two states of a handler at the same place with the same generation.
SamePlace(x, y) == x.pc = y.pc /\ x.gen = y.gen

\* A queue with one more element.
LEMMA AppendFacts ==
    ASSUME NEW S, NEW s \in Seq(S), NEW e \in S
    PROVE  /\ Append(s, e) \in Seq(S)
           /\ Len(Append(s, e)) = Len(s) + 1
           /\ \A i \in 1 .. Len(s) : Append(s, e)[i] = s[i]
           /\ Append(s, e)[Len(s) + 1] = e
OBVIOUS

\* A queue without its oldest element.
LEMMA TakeFacts ==
    ASSUME NEW S, NEW s \in Seq(S), s # <<>>
    PROVE  /\ Head(s) \in S /\ Len(s) > 0 /\ Head(s) = s[1]
           /\ Tail(s) \in Seq(S)
           /\ Len(Tail(s)) = Len(s) - 1
           /\ \A i \in 1 .. Len(Tail(s)) : Tail(s)[i] = s[i + 1]
OBVIOUS

\* A sequence with one element replaced.
LEMMA ExceptFacts ==
    ASSUME NEW S, NEW s \in Seq(S), NEW i \in 1 .. Len(s), NEW e \in S
    PROVE  /\ [s EXCEPT ![i] = e] \in Seq(S)
           /\ Len([s EXCEPT ![i] = e]) = Len(s)
           /\ \A j \in 1 .. Len(s) : [s EXCEPT ![i] = e][j] = IF j = i THEN e ELSE s[j]
OBVIOUS

\* A step that maps nothing, leaves the cell alone and moves no handler into or
\* through a swap keeps the invariant.
LEMMA QuietStep ==
    ASSUME CellInv, NothingMapped, \A g \in Gens : Untouched(g) => Untouched(g)',
           handler' \in [Handlers -> HandlerRecord],
           \A i \in Handlers :
               \/ SamePlace(handler[i], handler'[i])
               \/ /\ handler[i].pc \notin Swapping
                  /\ handler'[i].pc \notin {"lookup"} \cup Swapping
                  /\ handler'[i].pc = "admit" => handler'[i].gen \in Gens,
           \/ guard' = guard
           \/ guard \in Handlers /\ guard' = None /\ handler[guard].pc \notin Swapping
                                 /\ handler'[guard].pc \notin {"lookup"} \cup Swapping,
           loaded' = loaded, failure' = failure, transition' = transition,
           registry' \subseteq Models, weights' \subseteq Models
    PROVE  CellInv'
<1>1. Gens' = Gens
  BY Zenon DEF NothingMapped, Gens
<1>2. \A i \in Handlers : HandlerFits(i, handler[i])
  BY Zenon DEF CellInv
<1>3. \A i \in Handlers : HandlerFits(i, handler[i])'
  <2> TAKE i \in Handlers
  <2> HandlerFits(i, handler[i])
    BY <1>2, Zenon
  <2>1. CASE SamePlace(handler[i], handler'[i])
    <3>1. handler[i].pc \in {"lookup"} \cup Swapping => guard' = guard
      BY <2>1, Zenon DEF SamePlace, HandlerFits
    <3>2. handler[i].pc = "seat" => Untouched(handler[i].gen)'
      <4>1. PICK g : g = handler[i].gen
        BY Zenon
      <4>2. handler[i].pc = "seat" => Untouched(g) /\ g \in Gens
        BY <4>1, Zenon DEF HandlerFits, Untouched
      <4>3. handler[i].pc = "seat" => Untouched(g)'
        BY <4>2, Zenon
      <4>4. handler'[i].gen = g
        BY <2>1, <4>1, Zenon DEF SamePlace
      <4>5. QED BY <4>3, <4>4, Zenon DEF Untouched
    <3>3. QED BY <1>1, <2>1, <3>1, <3>2, Zenon DEF SamePlace, HandlerFits, Draining, Swapping
  <2>2. CASE /\ handler[i].pc \notin Swapping
             /\ handler'[i].pc \notin {"lookup"} \cup Swapping
             /\ handler'[i].pc = "admit" => handler'[i].gen \in Gens
    BY <1>1, <2>2, Zenon DEF HandlerFits, Draining, Swapping
  <2>3. QED BY <2>1, <2>2, Zenon
<1>4. MappedIsKnown'
  <2>1. SUFFICES ASSUME NEW g \in Gens, service'[g].worker # "ended"
                 PROVE  \/ g = loaded
                        \/ \E i \in Handlers : handler'[i].pc \in Draining \cup {"seat"} /\ handler'[i].gen = g
    BY <1>1, Zenon DEF MappedIsKnown
  <2>2. service[g].worker # "ended"
    BY <2>1, Zenon DEF NothingMapped
  <2>3. CASE g = loaded
    BY <2>3, Zenon
  <2>4. ASSUME NEW i \in Handlers, handler[i].pc \in Draining \cup {"seat"}, handler[i].gen = g
        PROVE  handler'[i].pc \in Draining \cup {"seat"} /\ handler'[i].gen = g
    BY <2>4, Zenon DEF SamePlace, Swapping, Draining
  <2>5. QED BY <2>2, <2>3, <2>4, Zenon DEF CellInv, MappedIsKnown
<1>5. loaded' # 0 => Untouched(loaded)' /\ ~failure'
  BY Zenon DEF CellInv, Untouched
<1>6. transition' # "none" => guard' \in Handlers /\ handler'[guard'].pc \in Swapping
  BY Zenon DEF CellInv, SamePlace
<1>7. guard' \in Handlers \cup {None} /\ service' \in Seq(Generation)
  BY Zenon DEF CellInv, NothingMapped
<1>8. QED BY <1>3, <1>4, <1>5, <1>6, <1>7, Zenon DEF CellInv

\* A step that leaves the services alone maps nothing.
LEMMA ServiceUnchanged ==
    ASSUME CellInv, service' = service
    PROVE  NothingMapped /\ Gens' = Gens /\ \A g \in Gens : Untouched(g) <=> Untouched(g)'
BY Zenon DEF CellInv, NothingMapped, Gens, Untouched

\* A step of one handler outside of a swap keeps the invariant.
LEMMA HandlerMoves ==
    ASSUME CellInv, NEW h \in Handlers, NEW x \in HandlerRecord, handler' = [handler EXCEPT ![h] = x],
           handler[h].pc \notin Swapping, x.pc \notin {"lookup"} \cup Swapping,
           x.pc = "admit" => x.gen \in Gens,
           guard' = guard \/ (guard = h /\ guard' = None),
           service' = service, loaded' = loaded, failure' = failure, transition' = transition,
           registry' \subseteq Models, weights' \subseteq Models
    PROVE  CellInv'
<1>1. NothingMapped /\ \A g \in Gens : Untouched(g) => Untouched(g)'
  BY ServiceUnchanged, Zenon
<1>2. handler' \in [Handlers -> HandlerRecord] /\ handler'[h] = x
      /\ \A i \in Handlers : i # h => handler'[i] = handler[i]
  BY Zenon DEF CellInv
<1>3. \A i \in Handlers :
         \/ SamePlace(handler[i], handler'[i])
         \/ /\ handler[i].pc \notin Swapping
            /\ handler'[i].pc \notin {"lookup"} \cup Swapping
            /\ handler'[i].pc = "admit" => handler'[i].gen \in Gens
  BY <1>2, Zenon DEF SamePlace
<1>4. \/ guard' = guard
      \/ guard \in Handlers /\ guard' = None /\ handler[guard].pc \notin Swapping
                            /\ handler'[guard].pc \notin {"lookup"} \cup Swapping
  BY <1>2, Zenon
<1>5. handler' \in [Handlers -> HandlerRecord]
  BY <1>2, Zenon
<1>6. QED BY <1>1, <1>3, <1>4, <1>5, QuietStep, Zenon

\* A handler that is answered.
LEMMA EndFits ==
    ASSUME NEW h \in Handlers, NEW answer \in Answers, handler \in [Handlers -> HandlerRecord]
    PROVE  /\ [Idle EXCEPT !.pc = "done", !.answer = answer, !.cancelled = handler[h].cancelled] \in HandlerRecord
           /\ [Idle EXCEPT !.pc = "done", !.answer = answer, !.cancelled = handler[h].cancelled].pc = "done"
<1>1. handler[h].cancelled \in BOOLEAN
  BY Zenon DEF HandlerRecord
<1>2. "done" \in Pcs /\ None \in Ops /\ None \in Replies
  BY DEF Pcs, Ops, Replies
<1>3. QED BY <1>1, <1>2, Zenon DEF Idle, HandlerRecord

\* Answering a request outside of a swap keeps the invariant.
LEMMA EndMoves ==
    ASSUME CellInv, NEW h \in Handlers, NEW answer \in Answers, End(h, answer),
           handler[h].pc \notin Swapping, guard' = guard \/ (guard = h /\ guard' = None),
           service' = service, loaded' = loaded, failure' = failure, transition' = transition,
           registry' \subseteq Models, weights' \subseteq Models
    PROVE  CellInv'
<1>1. PICK x : x = [Idle EXCEPT !.pc = "done", !.answer = answer, !.cancelled = handler[h].cancelled]
  OBVIOUS
<1>2. x \in HandlerRecord /\ x.pc = "done"
  BY <1>1, EndFits, Zenon DEF CellInv
<1>3. handler' = [handler EXCEPT ![h] = x]
  BY <1>1 DEF End
<1>4. x.pc \notin {"lookup"} \cup Swapping /\ x.pc # "admit"
  BY <1>2, Zenon DEF Swapping, Draining
<1>5. QED BY <1>2, <1>3, <1>4, HandlerMoves, Zenon

\* A handler that goes on.
LEMMA GotoFits ==
    ASSUME CellInv, NEW h \in Handlers, NEW pc \in Pcs, Goto(h, pc)
    PROVE  \E x \in HandlerRecord : /\ handler' = [handler EXCEPT ![h] = x]
                                    /\ x = [handler[h] EXCEPT !.pc = pc]
                                    /\ x.pc = pc /\ x.gen = handler[h].gen
<1>1. PICK x : x = [handler[h] EXCEPT !.pc = pc]
  BY Zenon
<1>2. handler[h] \in HandlerRecord
  BY Zenon DEF CellInv
<1>3. x \in HandlerRecord /\ x.pc = pc /\ x.gen = handler[h].gen
  BY <1>1, <1>2 DEF HandlerRecord
<1>4. handler' = [handler EXCEPT ![h] = x]
  BY <1>1 DEF Goto, CellInv
<1>5. QED BY <1>1, <1>3, <1>4, Zenon

\* Going on outside of a swap keeps the invariant.
LEMMA GotoMoves ==
    ASSUME CellInv, NEW h \in Handlers, NEW pc \in {"audit", "row", "remove", "await"}, Goto(h, pc),
           handler[h].pc \notin Swapping,
           service' = service, loaded' = loaded, failure' = failure, transition' = transition,
           guard' = guard, registry' \subseteq Models, weights' \subseteq Models
    PROVE  CellInv'
<1>1. pc \in Pcs /\ pc \notin {"lookup", "admit"} \cup Swapping
  BY Zenon DEF Pcs, Swapping, Draining
<1>2. PICK x \in HandlerRecord : handler' = [handler EXCEPT ![h] = x] /\ x.pc = pc
  BY <1>1, GotoFits
<1>3. QED BY <1>1, <1>2, HandlerMoves, Zenon

\* A request that is dispatched remembers the service the cell held.
LEMMA EnterFits ==
    ASSUME CellInv, NEW h \in Handlers, NEW op \in Ops, NEW m \in Models \cup {None}, NEW pc \in Pcs,
           Enter(h, op, m, pc)
    PROVE  \E x \in HandlerRecord : /\ handler' = [handler EXCEPT ![h] = x]
                                    /\ x.pc = pc /\ x.gen = loaded
<1>1. PICK x : x = [Idle EXCEPT !.op = op, !.model = m, !.pc = pc, !.gen = loaded]
  OBVIOUS
<1>2. loaded \in Nat
  BY Zenon DEF CellInv
<1>3. None \in Replies /\ None \in Answers
  BY Zenon DEF Replies, Answers
<1>4. x \in HandlerRecord /\ x.pc = pc /\ x.gen = loaded
  BY <1>1, <1>2, <1>3, Zenon DEF Idle, HandlerRecord
<1>5. handler' = [handler EXCEPT ![h] = x]
  BY <1>1 DEF Enter
<1>6. QED BY <1>4, <1>5, Zenon

\* Dispatching a request that does not swap keeps the invariant.
LEMMA EnterMoves ==
    ASSUME CellInv, NEW h \in Handlers, NEW op \in Ops, NEW m \in Models, NEW pc \in {"admit", "row", "record"},
           Enter(h, op, m, pc), handler[h].pc = "idle", pc = "admit" => loaded \in Gens,
           UNCHANGED <<registry, weights, loaded, failure, transition, guard, service>>
    PROVE  CellInv'
<1>1. pc \in Pcs /\ pc \notin {"lookup"} \cup Swapping /\ handler[h].pc \notin Swapping
  BY Zenon DEF Pcs, Swapping, Draining
<1>2. PICK x \in HandlerRecord : handler' = [handler EXCEPT ![h] = x] /\ x.pc = pc /\ x.gen = loaded
  BY <1>1, EnterFits
<1>3. registry' \subseteq Models /\ weights' \subseteq Models
  BY Zenon DEF CellInv
<1>4. QED BY <1>1, <1>2, <1>3, HandlerMoves, Zenon

\* Dispatching an inference, a registration, an unregistration or a deletion of
\* weights keeps the invariant.
LEMMA QuietDispatch ==
    ASSUME CellInv, NEW h \in Handlers, NEW m \in Models,
           InferBegin(h, m) \/ Register(h, m) \/ UnregisterBegin(h, m) \/ DeleteWeightsBegin(h, m)
    PROVE  CellInv'
<1>1. registry \subseteq Models /\ weights \subseteq Models
  BY Zenon DEF CellInv
<1>2. "refused" \in Answers
  BY Zenon DEF Answers
<1>3. "infer" \in Ops /\ "unregister" \in Ops /\ "delete" \in Ops
  BY Zenon DEF Ops
<1>4. handler[h].pc = "idle" /\ "idle" \notin Swapping
  BY Zenon DEF InferBegin, Register, UnregisterBegin, DeleteWeightsBegin, Swapping, Draining
<1>5. CASE InferBegin(h, m)
  <2>1. CASE End(h, "refused")
    BY <1>1, <1>2, <1>4, <1>5, <2>1, EndMoves, Zenon DEF InferBegin
  <2>2. CASE LoadedKey = m /\ Enter(h, "infer", m, "admit")
    <3>1. loaded \in Gens
      BY <2>2, CellAssumption, Zenon DEF LoadedKey, CellInv, Untouched
    <3>2. QED BY <1>3, <1>4, <1>5, <2>2, <3>1, EnterMoves, Zenon DEF InferBegin
  <2>3. QED BY <1>5, <2>1, <2>2, Zenon DEF InferBegin
<1>6. CASE Register(h, m)
  BY <1>1, <1>4, <1>6, GotoMoves, Zenon DEF Register, Owe
<1>7. CASE UnregisterBegin(h, m)
  <2>1. CASE End(h, "refused")
    BY <1>1, <1>2, <1>4, <1>7, <2>1, EndMoves, Zenon DEF UnregisterBegin
  <2>2. CASE Enter(h, "unregister", m, "row")
    BY <1>3, <1>4, <1>7, <2>2, EnterMoves, Zenon DEF UnregisterBegin
  <2>3. QED BY <1>7, <2>1, <2>2, Zenon DEF UnregisterBegin
<1>8. CASE DeleteWeightsBegin(h, m)
  <2>1. CASE End(h, "refused")
    BY <1>1, <1>2, <1>4, <1>8, <2>1, EndMoves, Zenon DEF DeleteWeightsBegin
  <2>2. CASE Enter(h, "delete", m, "record")
    BY <1>3, <1>4, <1>8, <2>2, EnterMoves, Zenon DEF DeleteWeightsBegin
  <2>3. QED BY <1>8, <2>1, <2>2, Zenon DEF DeleteWeightsBegin
<1>9. QED BY <1>5, <1>6, <1>7, <1>8, Zenon

\* Status, verification, the sweep and the reset of the registry keep the
\* invariant.
LEMMA QuietRequest ==
    ASSUME CellInv, NEW h \in Handlers, ModelStatus(h) \/ ModelVerify(h) \/ ModelSweep(h) \/ ResetRegistry(h)
    PROVE  CellInv'
<1>1. registry \subseteq Models /\ weights \subseteq Models
  BY Zenon DEF CellInv
<1>2. "answered" \in Answers /\ "differs" \in Answers
  BY Zenon DEF Answers
<1>3. handler[h].pc = "idle" /\ "idle" \notin Swapping
  BY Zenon DEF ModelStatus, ModelVerify, ModelSweep, ResetRegistry, Swapping, Draining
<1>4. CASE ModelStatus(h)
  BY <1>1, <1>2, <1>3, <1>4, EndMoves, Zenon DEF ModelStatus
<1>5. CASE ModelVerify(h)
  <2>1. PICK r : r = ModelVerifyTruth
    BY Zenon
  <2>2. r \in Replies
    BY <2>1, Zenon DEF ModelVerifyTruth, Replies
  <2>3. PICK x : x = [handler[h] EXCEPT !.pc = "audit", !.reply = r]
    OBVIOUS
  <2>4. handler[h] \in HandlerRecord /\ "audit" \in Pcs
    BY Zenon DEF CellInv, Pcs
  <2>5. x \in HandlerRecord /\ x.pc = "audit"
    BY <2>2, <2>3, <2>4, Zenon DEF HandlerRecord
  <2>6. handler' = [handler EXCEPT ![h] = x]
    BY <1>5, <2>1, <2>3, Zenon DEF ModelVerify, CellInv
  <2>7. x.pc \notin {"lookup"} \cup Swapping /\ x.pc # "admit"
    BY <2>5, Zenon DEF Swapping, Draining
  <2>8. QED BY <1>1, <1>3, <1>5, <2>5, <2>6, <2>7, HandlerMoves, ZenonT(40) DEF ModelVerify
<1>6. CASE ModelSweep(h)
  <2>1. PICK a \in Answers : End(h, a)
    BY <1>2, <1>6, Zenon DEF ModelSweep
  <2>2. QED BY <1>1, <1>3, <1>6, <2>1, EndMoves, Zenon DEF ModelSweep
<1>7. CASE ResetRegistry(h)
  BY <1>1, <1>3, <1>7, GotoMoves, Zenon DEF ResetRegistry, Owe
<1>8. QED BY <1>4, <1>5, <1>6, <1>7, Zenon

\* The audit, the end of an inference and the steps that delete a model keep the
\* invariant.
LEMMA QuietHandler ==
    ASSUME CellInv, NEW h \in Handlers,
           \/ AppendAudit(h) \/ InferEnds(h) \/ DeleteRecord(h) \/ DeleteRegisteredWeights(h) \/ DeleteModel(h)
    PROVE  CellInv'
<1>1. registry \subseteq Models /\ weights \subseteq Models
  BY Zenon DEF CellInv
<1>2. "answered" \in Answers /\ "unanswered" \in Answers /\ "refused" \in Answers
  BY Zenon DEF Answers
<1>3. handler[h].pc \notin Swapping
  BY Zenon DEF AppendAudit, InferEnds, DeleteRecord, DeleteRegisteredWeights, DeleteModel, Swapping, Draining
<1>4. CASE AppendAudit(h)
  <2>1. PICK a \in Answers : End(h, a)
    BY <1>2, <1>4, Zenon DEF AppendAudit
  <2>2. guard' = guard \/ (guard = h /\ guard' = None)
    BY <1>4, Zenon DEF AppendAudit, Release
  <2>3. QED BY <1>1, <1>3, <1>4, <2>1, <2>2, EndMoves, Zenon DEF AppendAudit
<1>5. CASE InferEnds(h)
  <2>1. PICK x : x = [handler[h] EXCEPT !.pc = "audit", !.reply = None, !.cancelled = TRUE]
    BY Zenon
  <2>2. handler[h] \in HandlerRecord /\ "audit" \in Pcs /\ None \in Replies
    BY Zenon DEF CellInv, Pcs, Replies
  <2>3. x \in HandlerRecord /\ x.pc = "audit"
    BY <2>1, <2>2, Zenon DEF HandlerRecord
  <2>4. handler' = [handler EXCEPT ![h] = x]
    BY <1>5, <2>1, Zenon DEF InferEnds, CellInv
  <2>5. x.pc \notin {"lookup"} \cup Swapping /\ x.pc # "admit"
    BY <2>3, Zenon DEF Swapping, Draining
  <2>6. QED BY <1>1, <1>3, <1>5, <2>3, <2>4, <2>5, HandlerMoves, Zenon DEF InferEnds
<1>6. CASE DeleteRecord(h)
  <2>1. CASE End(h, "refused")
    BY <1>1, <1>2, <1>3, <1>6, <2>1, EndMoves, Zenon DEF DeleteRecord
  <2>2. CASE Goto(h, "remove")
    BY <1>1, <1>3, <1>6, <2>2, GotoMoves, Zenon DEF DeleteRecord
  <2>3. QED BY <1>6, <2>1, <2>2, Zenon DEF DeleteRecord
<1>7. CASE DeleteRegisteredWeights(h)
  <2>1. CASE End(h, "refused") /\ weights' = weights
    BY <1>1, <1>2, <1>3, <1>7, <2>1, EndMoves, Zenon DEF DeleteRegisteredWeights
  <2>2. CASE Goto(h, "row") /\ weights' = weights \ {handler[h].model}
    BY <1>1, <1>3, <1>7, <2>2, GotoMoves, Zenon DEF DeleteRegisteredWeights
  <2>3. QED BY <1>7, <2>1, <2>2, Zenon DEF DeleteRegisteredWeights
<1>8. CASE DeleteModel(h)
  <2>1. CASE End(h, "refused") /\ registry' = registry
    BY <1>1, <1>2, <1>3, <1>8, <2>1, EndMoves, Zenon DEF DeleteModel
  <2>2. CASE Goto(h, "audit") /\ registry' = registry \ {handler[h].model}
    BY <1>1, <1>3, <1>8, <2>2, GotoMoves, Zenon DEF DeleteModel
  <2>3. QED BY <1>8, <2>1, <2>2, Zenon DEF DeleteModel, Owe
<1>9. QED BY <1>4, <1>5, <1>6, <1>7, <1>8, Zenon

\* While one handler holds the guard nobody else swaps, so that whatever is mapped
\* is in the cell or in its hands.
LEMMA OthersAway ==
    ASSUME CellInv, NEW h \in Handlers, guard = h \/ guard = None
    PROVE  /\ \A i \in Handlers \ {h} : handler[i].pc \notin {"lookup"} \cup Swapping
           /\ \A g \in Gens : service[g].worker # "ended" =>
                 g = loaded \/ (handler[h].pc \in Draining \cup {"seat"} /\ handler[h].gen = g)
<1>1. \A i \in Handlers \ {h} : handler[i].pc \notin {"lookup"} \cup Swapping
  BY CellAssumption, Zenon DEF CellInv, HandlerFits
<1>2. ASSUME NEW g \in Gens, service[g].worker # "ended", g # loaded
      PROVE  handler[h].pc \in Draining \cup {"seat"} /\ handler[h].gen = g
  <2>1. PICK i \in Handlers : handler[i].pc \in Draining \cup {"seat"} /\ handler[i].gen = g
    BY <1>2, Zenon DEF CellInv, MappedIsKnown
  <2>2. i = h
    BY <1>1, <2>1, Zenon DEF Swapping
  <2>3. QED BY <2>1, <2>2, Zenon
<1>3. QED BY <1>1, <1>2, Zenon

\* A step of the handler that swaps keeps the invariant when what it leaves behind
\* fits.
LEMMA SwapStep ==
    ASSUME CellInv, NEW h \in Handlers, handler' \in [Handlers -> HandlerRecord],
           \A i \in Handlers \ {h} : SamePlace(handler[i], handler'[i]),
           guard = h \/ guard = None, guard' = h, HandlerFits(h, handler[h])',
           service' \in Seq(Generation), Gens \subseteq Gens', MappedIsKnown',
           loaded' \in Nat, failure' \in BOOLEAN, loaded' # 0 => Untouched(loaded)' /\ ~failure',
           transition' # "none" => handler'[h].pc \in Swapping,
           registry' \subseteq Models, weights' \subseteq Models
    PROVE  CellInv'
<1>1. \A i \in Handlers : HandlerFits(i, handler[i])'
  <2> TAKE i \in Handlers
  <2>1. CASE i = h
    BY <2>1, Zenon
  <2>2. CASE i # h
    <3>1. handler[i].pc \notin {"lookup"} \cup Swapping /\ HandlerFits(i, handler[i])
      BY <2>2, OthersAway, Zenon DEF CellInv
    <3>2. SamePlace(handler[i], handler'[i])
      BY <2>2, Zenon
    <3>3. QED BY <3>1, <3>2, Zenon DEF SamePlace, HandlerFits, Swapping
  <2>3. QED BY <2>1, <2>2, Zenon
<1>2. QED BY <1>1, Zenon DEF CellInv

\* A swap that ends keeps the invariant.
LEMMA SwapEnds ==
    ASSUME CellInv, NEW h \in Handlers, NEW x \in HandlerRecord, handler' = [handler EXCEPT ![h] = x],
           handler[h].pc \in Swapping, x.pc \notin {"lookup", "admit"} \cup Swapping,
           guard' \in {h, None}, transition' = "none", service' = service,
           loaded' \in Nat, failure' \in BOOLEAN, loaded' # 0 => Untouched(loaded') /\ ~failure',
           \A g \in Gens : service[g].worker # "ended" => g = loaded',
           registry' \subseteq Models, weights' \subseteq Models
    PROVE  CellInv'
<1>1. handler' \in [Handlers -> HandlerRecord] /\ handler'[h] = x
      /\ \A i \in Handlers : i # h => handler'[i] = handler[i]
  BY Zenon DEF CellInv
<1>2. guard = h
  BY Zenon DEF CellInv, HandlerFits
<1>3. Gens' = Gens
  BY Zenon DEF Gens
<1>4. \A i \in Handlers : HandlerFits(i, handler[i])'
  <2> TAKE i \in Handlers
  <2>1. CASE i = h
    BY <1>1, <2>1, Zenon DEF HandlerFits, Swapping, Draining
  <2>2. CASE i # h
    <3>1. handler[i].pc \notin {"lookup"} \cup Swapping /\ HandlerFits(i, handler[i])
      BY <1>2, <2>2, OthersAway, Zenon DEF CellInv
    <3>2. QED BY <1>1, <1>3, <2>2, <3>1, Zenon DEF HandlerFits, Swapping
  <2>3. QED BY <2>1, <2>2, Zenon
<1>5. MappedIsKnown'
  BY <1>3, Zenon DEF MappedIsKnown
<1>6. loaded' # 0 => Untouched(loaded)' /\ ~failure'
  BY <1>3, Zenon DEF Untouched
<1>7. QED BY <1>1, <1>4, <1>5, <1>6, Zenon DEF CellInv

\* Beginning a load takes the guard.
LEMMA LoadBeginKeeps ==
    ASSUME CellInv, NEW h \in Handlers, NEW m \in Models, LoadBegin(h, m)
    PROVE  CellInv'
<1>1. registry' \subseteq Models /\ weights' \subseteq Models
  BY Zenon DEF CellInv, LoadBegin
<1>2. "answered" \in Answers /\ "refused" \in Answers /\ "load" \in Ops /\ "lookup" \in Pcs
  BY Zenon DEF Answers, Ops, Pcs
<1>3. handler[h].pc = "idle" /\ handler[h].pc \notin Swapping /\ handler[h].pc \notin Draining \cup {"seat"}
  BY Zenon DEF LoadBegin, Swapping, Draining
<1>4. UNCHANGED <<loaded, failure, transition, service>>
  BY Zenon DEF LoadBegin
<1>5. ASSUME NEW a \in {"answered", "refused"}, End(h, a), guard' = guard
      PROVE  CellInv'
  BY <1>1, <1>2, <1>3, <1>4, <1>5, EndMoves, Zenon
<1>6. CASE guard = None /\ guard' = h /\ Enter(h, "load", m, "lookup")
  <2>1. PICK x \in HandlerRecord : handler' = [handler EXCEPT ![h] = x] /\ x.pc = "lookup"
    BY <1>2, <1>6, EnterFits, Zenon
  <2>2. handler' \in [Handlers -> HandlerRecord] /\ handler'[h] = x
        /\ \A i \in Handlers : i # h => handler'[i] = handler[i]
    BY <2>1, Zenon DEF CellInv
  <2>3. Gens' = Gens /\ service' \in Seq(Generation) /\ loaded' \in Nat /\ failure' \in BOOLEAN
    BY <1>4, Zenon DEF Gens, CellInv
  <2>4. HandlerFits(h, handler[h])'
    BY <1>6, <2>1, <2>2, Zenon DEF HandlerFits, Swapping, Draining
  <2>5. MappedIsKnown'
    BY <1>3, <1>4, <1>6, <2>3, OthersAway, Zenon DEF MappedIsKnown
  <2>6. loaded' # 0 => Untouched(loaded)' /\ ~failure'
    BY <1>4, <2>3, Zenon DEF CellInv, Untouched
  <2>7. transition' = "none"
    BY <1>4, <1>6, CellAssumption, Zenon DEF CellInv
  <2>8. \A i \in Handlers \ {h} : SamePlace(handler[i], handler'[i])
    BY <2>2, Zenon DEF SamePlace
  <2>9. handler' \in [Handlers -> HandlerRecord]
    BY <2>2, Zenon
  <2>10. QED BY <1>1, <1>6, <2>3, <2>4, <2>5, <2>6, <2>7, <2>8, <2>9, SwapStep, Zenon
<1>7. QED BY <1>5, <1>6, Zenon DEF LoadBegin, BeginTransition

\* Taking the loaded model out of the cell keeps the invariant.
LEMMA UnloadStarts ==
    ASSUME CellInv, NEW h \in Handlers, NEW x \in HandlerRecord, handler' = [handler EXCEPT ![h] = x],
           handler[h].pc \in {"idle", "lookup"}, x.pc = "signal", x.gen = loaded, loaded # 0,
           guard = h \/ guard = None, guard' = h, loaded' = 0, failure' = failure, service' = service,
           registry' \subseteq Models, weights' \subseteq Models
    PROVE  CellInv'
<1>1. handler' \in [Handlers -> HandlerRecord] /\ handler'[h] = x
      /\ \A i \in Handlers : i # h => handler'[i] = handler[i]
  BY Zenon DEF CellInv
<1>2. Gens' = Gens /\ service' \in Seq(Generation) /\ failure' \in BOOLEAN
  BY Zenon DEF Gens, CellInv
<1>3. loaded \in Gens
  BY Zenon DEF CellInv, Untouched
<1>4. HandlerFits(h, handler[h])'
  BY <1>1, <1>2, <1>3, Zenon DEF HandlerFits, Swapping, Draining
<1>5. handler[h].pc \notin Draining \cup {"seat"}
  BY Zenon DEF Draining
<1>6. MappedIsKnown'
  <2>1. SUFFICES ASSUME NEW g \in Gens, service[g].worker # "ended"
                 PROVE  \E i \in Handlers : handler'[i].pc \in Draining \cup {"seat"} /\ handler'[i].gen = g
    BY <1>2, Zenon DEF MappedIsKnown
  <2>2. g = loaded
    BY <1>5, <2>1, OthersAway, Zenon
  <2>3. handler'[h].pc \in Draining \cup {"seat"} /\ handler'[h].gen = g
    BY <1>1, <2>2, Zenon DEF Draining
  <2>4. QED BY <2>3, Zenon
<1>7. transition' # "none" => handler'[h].pc \in Swapping
  BY <1>1, Zenon DEF Swapping, Draining
<1>8. \A i \in Handlers \ {h} : SamePlace(handler[i], handler'[i])
  BY <1>1, Zenon DEF SamePlace
<1>9. handler' \in [Handlers -> HandlerRecord] /\ loaded' \in Nat
  BY <1>1, Zenon
<1>10. QED BY <1>2, <1>4, <1>6, <1>7, <1>8, <1>9, SwapStep, Zenon

\* With nothing mapped any more the next model may be mapped.
LEMMA MapStarts ==
    ASSUME CellInv, NEW h \in Handlers, BeginLoad(h), guard = h, loaded = 0,
           \A g \in Gens : service[g].worker = "ended",
           UNCHANGED <<registry, weights, loaded, guard, service>>
    PROVE  CellInv'
<1>1. "map" \in Pcs
  BY Zenon DEF Pcs, Swapping
<1>2. PICK x \in HandlerRecord : handler' = [handler EXCEPT ![h] = x] /\ x.pc = "map"
  BY <1>1, GotoFits DEF BeginLoad
<1>3. handler' \in [Handlers -> HandlerRecord] /\ handler'[h] = x
      /\ \A i \in Handlers : i # h => handler'[i] = handler[i]
  BY <1>2, Zenon DEF CellInv
<1>4. Gens' = Gens /\ service' \in Seq(Generation) /\ failure' \in BOOLEAN
  BY Zenon DEF Gens, CellInv, BeginLoad
<1>5. HandlerFits(h, handler[h])'
  BY <1>2, <1>3, Zenon DEF HandlerFits, Swapping, Draining
<1>6. MappedIsKnown'
  BY <1>4, Zenon DEF MappedIsKnown
<1>7. handler'[h].pc \in Swapping
  BY <1>2, <1>3, Zenon DEF Swapping
<1>8. \A i \in Handlers \ {h} : SamePlace(handler[i], handler'[i])
  BY <1>3, Zenon DEF SamePlace
<1>9. /\ handler' \in [Handlers -> HandlerRecord] /\ loaded' \in Nat /\ loaded' = 0 /\ guard' = h
      /\ registry' \subseteq Models /\ weights' \subseteq Models
  BY <1>3, Zenon DEF CellInv
<1>10. QED BY <1>4, <1>5, <1>6, <1>7, <1>8, <1>9, SwapStep, Zenon

\* Looking up what to load keeps the invariant.
LEMMA LoadLookupKeeps ==
    ASSUME CellInv, NEW h \in Handlers, LoadLookup(h)
    PROVE  CellInv'
<1>1. /\ registry' \subseteq Models /\ weights' \subseteq Models /\ service' = service
      /\ handler[h].pc = "lookup" /\ handler[h].pc \notin Swapping /\ handler[h].pc \notin Draining \cup {"seat"}
  BY Zenon DEF CellInv, LoadLookup, Swapping, Draining
<1>2. guard = h
  BY <1>1, Zenon DEF CellInv, HandlerFits
<1>3. CASE End(h, "refused") /\ Release(h) /\ UNCHANGED <<loaded, failure, transition>>
  <2>1. "refused" \in Answers
    BY Zenon DEF Answers
  <2>2. QED BY <1>1, <1>2, <1>3, <2>1, EndMoves, Zenon DEF Release
<1>4. CASE loaded # 0 /\ BeginUnload(h) /\ UNCHANGED <<guard, failure>>
  <2>1. PICK x : x = [handler[h] EXCEPT !.pc = "signal", !.gen = loaded]
    OBVIOUS
  <2>2. handler[h] \in HandlerRecord /\ "signal" \in Pcs /\ loaded \in Nat
    BY Zenon DEF CellInv, Pcs, Swapping, Draining
  <2>3. x \in HandlerRecord /\ x.pc = "signal" /\ x.gen = loaded
    BY <2>1, <2>2, Zenon DEF HandlerRecord
  <2>4. handler' = [handler EXCEPT ![h] = x] /\ loaded' = 0
    BY <1>4, <2>1, Zenon DEF BeginUnload, CellInv
  <2>5. QED BY <1>1, <1>2, <1>4, <2>3, <2>4, UnloadStarts, Zenon
<1>5. CASE loaded = 0 /\ BeginLoad(h) /\ UNCHANGED <<guard, loaded>>
  <2>1. \A g \in Gens : service[g].worker = "ended"
    BY <1>1, <1>2, <1>5, OthersAway DEF Gens
  <2>2. UNCHANGED <<registry, weights>>
    BY Zenon DEF LoadLookup
  <2>3. QED BY <1>1, <1>2, <1>5, <2>1, <2>2, MapStarts, Zenon
<1>6. QED BY <1>3, <1>4, <1>5, Zenon DEF LoadLookup

\* Beginning an unload keeps the invariant.
LEMMA UnloadBeginKeeps ==
    ASSUME CellInv, NEW h \in Handlers, UnloadBegin(h)
    PROVE  CellInv'
<1>1. /\ registry' \subseteq Models /\ weights' \subseteq Models /\ service' = service
      /\ failure' = failure /\ handler[h].pc = "idle" /\ handler[h].pc \notin Swapping
  BY Zenon DEF CellInv, UnloadBegin, Swapping, Draining
<1>2. CASE End(h, "refused") /\ UNCHANGED <<guard, loaded, transition>>
  <2>1. "refused" \in Answers
    BY DEF Answers
  <2>2. QED BY <1>1, <1>2, <2>1, EndMoves, Zenon
<1>3. CASE loaded # 0 /\ BeginTransition(h) /\ loaded' = 0 /\ Enter(h, "unload", LoadedKey, "signal")
  <2>1. PICK m : m = LoadedKey
    BY Zenon
  <2>2. m \in Models
    <3>1. loaded \in 1 .. Len(service)
      BY <1>3, Zenon DEF CellInv, Untouched, Gens
    <3>2. service[loaded] \in Generation
      BY <3>1 DEF CellInv
    <3>3. QED BY <1>3, <2>1, <3>2, Zenon DEF LoadedKey, Generation
  <2>3. "unload" \in Ops /\ "signal" \in Pcs /\ m \in Models \cup {None}
    BY <2>2, Zenon DEF Ops, Pcs, Swapping, Draining
  <2>4. PICK x \in HandlerRecord : handler' = [handler EXCEPT ![h] = x] /\ x.pc = "signal" /\ x.gen = loaded
    BY <1>3, <2>1, <2>3, EnterFits
  <2>5. guard = None /\ guard' = h
    BY <1>3, Zenon DEF BeginTransition
  <2>6. QED BY <1>1, <1>3, <2>4, <2>5, UnloadStarts, Zenon
<1>4. QED BY <1>2, <1>3, Zenon DEF UnloadBegin

\* A step within a drain keeps the invariant.
LEMMA DrainSteps ==
    ASSUME CellInv, NEW h \in Handlers, NothingMapped, handler' \in [Handlers -> HandlerRecord],
           \A i \in Handlers \ {h} : SamePlace(handler[i], handler'[i]),
           handler[h].pc \in Draining, handler'[h].pc \in Draining, handler'[h].gen = handler[h].gen,
           UNCHANGED <<registry, weights, loaded, failure, transition, guard>>
    PROVE  CellInv'
<1>1. guard = h /\ loaded = 0 /\ handler[h].gen \in Gens
  BY Zenon DEF CellInv, HandlerFits, Swapping
<1>2. Gens' = Gens /\ service' \in Seq(Generation)
  BY Zenon DEF Gens, NothingMapped
<1>3. HandlerFits(h, handler[h])'
  BY <1>1, <1>2, Zenon DEF HandlerFits, Swapping, Draining
<1>4. MappedIsKnown'
  <2>1. SUFFICES ASSUME NEW g \in Gens, service'[g].worker # "ended"
                 PROVE  \E i \in Handlers : handler'[i].pc \in Draining \cup {"seat"} /\ handler'[i].gen = g
    BY <1>2, Zenon DEF MappedIsKnown
  <2>2. service[g].worker # "ended"
    BY <2>1, Zenon DEF NothingMapped
  <2>3. handler[h].gen = g
    BY <1>1, <2>2, OthersAway DEF Gens
  <2>4. QED BY <2>3, Zenon
<1>5. /\ loaded' \in Nat /\ loaded' = 0 /\ failure' \in BOOLEAN /\ guard' = h
      /\ registry' \subseteq Models /\ weights' \subseteq Models /\ handler'[h].pc \in Swapping
  BY <1>1, Zenon DEF CellInv, Swapping
<1>6. QED BY <1>1, <1>2, <1>3, <1>4, <1>5, SwapStep, Zenon

\* A service that changes and maps nothing.
LEMMA GenerationChanges ==
    ASSUME CellInv, NEW g \in Gens, NEW s \in Generation, service' = [service EXCEPT ![g] = s],
           s.worker # "ended" => service[g].worker # "ended"
    PROVE  /\ NothingMapped /\ Gens' = Gens /\ service'[g] = s
           /\ \A j \in Gens : j # g => service'[j] = service[j]
<1>1. service \in Seq(Generation) /\ g \in 1 .. Len(service)
  BY Zenon DEF CellInv, Gens
<1>2. /\ service' \in Seq(Generation) /\ Len(service') = Len(service)
      /\ \A j \in 1 .. Len(service) : service'[j] = IF j = g THEN s ELSE service[j]
  BY <1>1, ExceptFacts
<1>3. QED BY <1>1, <1>2, Zenon DEF NothingMapped, Gens

\* Going on within a drain keeps the invariant.
LEMMA MoveInDrain ==
    ASSUME CellInv, NEW h \in Handlers, NEW pc \in Draining, Goto(h, pc), handler[h].pc \in Draining,
           NothingMapped, UNCHANGED <<registry, weights, loaded, failure, transition, guard>>
    PROVE  CellInv'
<1>1. pc \in Pcs
  BY Zenon DEF Pcs, Swapping
<1>2. PICK x \in HandlerRecord : handler' = [handler EXCEPT ![h] = x] /\ x.pc = pc /\ x.gen = handler[h].gen
  BY <1>1, GotoFits
<1>3. handler' \in [Handlers -> HandlerRecord] /\ handler'[h] = x
      /\ \A i \in Handlers : i # h => handler'[i] = handler[i]
  BY <1>2, Zenon DEF CellInv
<1>4. \A i \in Handlers \ {h} : SamePlace(handler[i], handler'[i])
  BY <1>3, Zenon DEF SamePlace
<1>5. handler' \in [Handlers -> HandlerRecord] /\ handler'[h].pc \in Draining /\ handler'[h].gen = handler[h].gen
  BY <1>2, <1>3, Zenon
<1>6. QED BY <1>4, <1>5, DrainSteps, Zenon

\* Signalling, cancelling and sending the shutdown keep the invariant.
LEMMA DrainsKeep ==
    ASSUME CellInv, NEW h \in Handlers, DrainSignal(h) \/ DrainCancel(h) \/ DrainSend(h)
    PROVE  CellInv'
<1>1. handler[h].pc \in Draining
  BY Zenon DEF DrainSignal, DrainCancel, DrainSend, Draining
<1>2. PICK g \in Gens : g = handler[h].gen
  BY <1>1, Zenon DEF CellInv, HandlerFits
<1>3. service[g] \in Generation /\ service \in Seq(Generation)
  BY DEF CellInv, Gens
<1>4. CASE DrainSignal(h)
  <2>1. PICK s : s = [service[g] EXCEPT !.stop = TRUE]
    BY Zenon
  <2>2. s \in Generation /\ s.worker = service[g].worker
    BY <1>3, <2>1, Zenon DEF Generation
  <2>3. service' = [service EXCEPT ![g] = s]
    BY <1>2, <1>4, <2>1, Zenon DEF DrainSignal
  <2>4. NothingMapped
    BY <2>2, <2>3, GenerationChanges, Zenon
  <2>5. Goto(h, "cancel") /\ "cancel" \in Draining
    BY <1>4, Zenon DEF DrainSignal, Draining
  <2>6. QED BY <1>1, <1>4, <2>4, <2>5, MoveInDrain, Zenon DEF DrainSignal
<1>5. CASE DrainCancel(h)
  <2>1. PICK running : handler' = [i \in Handlers |->
             IF i = h THEN [handler[h] EXCEPT !.pc = "send"]
             ELSE IF i = running THEN [handler[i] EXCEPT !.cancelled = TRUE]
             ELSE handler[i]]
    BY <1>5, Zenon DEF DrainCancel
  <2>2. "send" \in Pcs /\ "send" \in Draining
    BY Zenon DEF Pcs, Swapping, Draining
  <2>3. ASSUME NEW i \in Handlers
        PROVE  /\ handler'[i] \in HandlerRecord /\ handler'[i].gen = handler[i].gen
               /\ handler'[i].pc = IF i = h THEN "send" ELSE handler[i].pc
    <3>1. handler[i] \in HandlerRecord
      BY Zenon DEF CellInv
    <3>2. CASE i = h
      BY <2>1, <2>2, <3>1, <3>2, Zenon DEF HandlerRecord
    <3>3. CASE i # h
      BY <2>1, <3>1, <3>3, Zenon DEF HandlerRecord
    <3>4. QED BY <3>2, <3>3, Zenon
  <2>4. handler' \in [Handlers -> HandlerRecord]
    BY <2>1, <2>3, Zenon
  <2>5. \A i \in Handlers \ {h} : SamePlace(handler[i], handler'[i])
    BY <2>3, Zenon DEF SamePlace
  <2>6. NothingMapped
    BY <1>5, ServiceUnchanged, Zenon DEF DrainCancel
  <2>7. handler'[h].pc \in Draining /\ handler'[h].gen = handler[h].gen
    BY <2>2, <2>3, Zenon
  <2>8. QED BY <1>1, <1>5, <2>4, <2>5, <2>6, <2>7, DrainSteps, Zenon DEF DrainCancel
<1>6. CASE DrainSend(h)
  <2>1. NothingMapped
    <3>1. CASE service' = service
      BY <3>1, ServiceUnchanged, Zenon
    <3>2. CASE service' = [service EXCEPT ![g].queue = Append(@, Shutdown)]
      <4>1. PICK q : q = Append(service[g].queue, Shutdown)
        BY Zenon
      <4>2. service[g].queue \in Seq(Handlers \cup {Shutdown})
        BY <1>3, Zenon DEF Generation
      <4>3. q \in Seq(Handlers \cup {Shutdown})
        BY <4>1, <4>2
      <4>4. PICK s : s = [service[g] EXCEPT !.queue = q]
        BY Zenon
      <4>5. s \in Generation /\ s.worker = service[g].worker
        BY <1>3, <4>3, <4>4, Zenon DEF Generation
      <4>6. service' = [service EXCEPT ![g] = s]
        BY <3>2, <4>1, <4>4, Zenon
      <4>7. QED BY <4>5, <4>6, GenerationChanges, Zenon
    <3>3. QED BY <1>2, <1>6, <3>1, <3>2, Zenon DEF DrainSend
  <2>2. Goto(h, "join") /\ "join" \in Draining
    BY <1>6, Zenon DEF DrainSend, Draining
  <2>3. QED BY <1>1, <1>6, <2>1, <2>2, MoveInDrain, Zenon DEF DrainSend
<1>7. QED BY <1>4, <1>5, <1>6, Zenon

\* The drain ends only when the worker has: the runtime is unmapped.
LEMMA DrainJoinKeeps ==
    ASSUME CellInv, NEW h \in Handlers, DrainJoin(h)
    PROVE  CellInv'
<1>1. handler[h].pc = "join" /\ service[handler[h].gen].worker = "ended"
  BY Zenon DEF DrainJoin
<1>2. guard = h /\ loaded = 0
  BY <1>1, Zenon DEF CellInv, HandlerFits, Swapping, Draining
<1>3. \A g \in Gens : service[g].worker = "ended"
  BY <1>1, <1>2, OthersAway DEF Gens
<1>4. UNCHANGED <<registry, weights, loaded, guard, service>>
  BY Zenon DEF DrainJoin
<1>5. CASE BeginLoad(h)
  BY <1>2, <1>3, <1>4, <1>5, MapStarts, Zenon
<1>6. CASE transition' = "none" /\ failure' = FALSE /\ Owe(h)
  <2>1. "audit" \in Pcs /\ "audit" \notin {"lookup", "admit"} \cup Swapping /\ handler[h].pc \in Swapping
    BY <1>1, Zenon DEF Pcs, Swapping, Draining
  <2>2. PICK x \in HandlerRecord : handler' = [handler EXCEPT ![h] = x] /\ x.pc = "audit"
    BY <1>6, <2>1, GotoFits DEF Owe
  <2>3. /\ guard' \in {h, None} /\ loaded' \in Nat /\ loaded' = 0 /\ failure' \in BOOLEAN
        /\ registry' \subseteq Models /\ weights' \subseteq Models
    BY <1>2, <1>4, <1>6, Zenon DEF CellInv
  <2>4. QED BY <1>3, <1>4, <1>6, <2>1, <2>2, <2>3, SwapEnds, Zenon
<1>7. QED BY <1>5, <1>6, Zenon DEF DrainJoin

\* Putting the mapped model into the cell keeps the invariant.
LEMMA LoadSeatKeeps ==
    ASSUME CellInv, NEW h \in Handlers, LoadSeat(h)
    PROVE  CellInv'
<1>1. handler[h].pc = "seat" /\ handler[h].pc \in Swapping
  BY Zenon DEF LoadSeat, Swapping
<1>2. guard = h /\ loaded = 0 /\ Untouched(handler[h].gen)
  BY <1>1, Zenon DEF CellInv, HandlerFits
<1>3. \A g \in Gens : service[g].worker # "ended" => g = handler[h].gen
  BY <1>1, <1>2, OthersAway DEF Gens
<1>4. "audit" \in Pcs /\ "audit" \notin {"lookup", "admit"} \cup Swapping
  BY Zenon DEF Pcs, Swapping, Draining
<1>5. PICK x \in HandlerRecord : handler' = [handler EXCEPT ![h] = x] /\ x.pc = "audit"
  BY <1>4, GotoFits DEF Owe, LoadSeat
<1>6. /\ guard' \in {h, None} /\ loaded' = handler[h].gen /\ failure' = FALSE /\ transition' = "none"
      /\ registry' \subseteq Models /\ weights' \subseteq Models /\ service' = service
  BY <1>2, Zenon DEF LoadSeat, CellInv
<1>7. loaded' \in Nat
  BY <1>6, Zenon DEF CellInv, HandlerRecord
<1>8. failure' \in BOOLEAN /\ (loaded' # 0 => Untouched(loaded') /\ ~failure')
      /\ \A g \in Gens : service[g].worker # "ended" => g = loaded'
  BY <1>2, <1>3, <1>6, Zenon
<1>9. QED BY <1>1, <1>4, <1>5, <1>6, <1>7, <1>8, SwapEnds, Zenon

\* Mapping the next model, or failing to, keeps the invariant.
LEMMA LoadMapKeeps ==
    ASSUME CellInv, NEW h \in Handlers, LoadMap(h)
    PROVE  CellInv'
<1>1. /\ handler[h].pc = "map" /\ handler[h].pc \in Swapping /\ handler[h].pc \notin Draining \cup {"seat"}
      /\ registry' \subseteq Models /\ weights' \subseteq Models
  BY Zenon DEF LoadMap, Swapping, Draining, CellInv
<1>2. guard = h /\ loaded = 0
  BY <1>1, Zenon DEF CellInv, HandlerFits
<1>3. \A g \in Gens : service[g].worker = "ended"
  BY <1>1, <1>2, OthersAway DEF Gens
<1>4. CASE /\ loaded' = 0 /\ failure' = TRUE /\ transition' = "none"
           /\ End(h, "refused") /\ Release(h) /\ UNCHANGED service
  <2>1. PICK x : x = [Idle EXCEPT !.pc = "done", !.answer = "refused", !.cancelled = handler[h].cancelled]
    OBVIOUS
  <2>2. "refused" \in Answers
    BY DEF Answers
  <2>3. x \in HandlerRecord /\ x.pc = "done"
    BY <2>1, <2>2, EndFits, Zenon DEF CellInv
  <2>4. handler' = [handler EXCEPT ![h] = x] /\ guard' \in {h, None}
    BY <1>2, <1>4, <2>1, Zenon DEF End, Release
  <2>5. x.pc \notin {"lookup", "admit"} \cup Swapping
    BY <2>3, Zenon DEF Swapping, Draining
  <2>6. loaded' \in Nat /\ failure' \in BOOLEAN
    BY <1>4, Zenon
  <2>7. QED BY <1>1, <1>3, <1>4, <2>3, <2>4, <2>5, <2>6, SwapEnds, Zenon
<1>5. CASE /\ handler[h].model \in weights
           /\ service' = Append(service, StartGenerator(handler[h].model))
           /\ handler' = [handler EXCEPT ![h].pc = "seat", ![h].gen = Len(service) + 1]
           /\ UNCHANGED <<loaded, failure, transition, guard>>
  <2>1. PICK n : n = Len(service) + 1
    BY Zenon
  <2>2. service \in Seq(Generation) /\ n \in Nat /\ Len(service) \in Nat
    BY <2>1 DEF CellInv
  <2>3. PICK s : s = StartGenerator(handler[h].model)
    BY Zenon
  <2>4. /\ s \in Generation /\ s.worker = "idle" /\ ~s.stop /\ Len(s.queue) = 0
    <3>1. handler[h].model \in Models
      BY <1>5, Zenon DEF CellInv
    <3>2. PICK q : q = <<>>
      BY Zenon
    <3>3. q \in Seq(Handlers \cup {Shutdown}) /\ Len(q) = 0
      BY <3>2
    <3>4. s = [model |-> handler[h].model, queue |-> q, worker |-> "idle", current |-> None,
               active |-> None, stop |-> FALSE]
      BY <2>3, <3>2, Zenon DEF StartGenerator
    <3>5. s \in Generation /\ s.worker = "idle" /\ ~s.stop /\ s.queue = q
      BY <3>1, <3>3, <3>4, Zenon DEF Generation
    <3>6. QED BY <3>3, <3>5, Zenon
  <2>5. /\ service' \in Seq(Generation) /\ Len(service') = n /\ service'[n] = s
        /\ \A g \in Gens : service'[g] = service[g]
    BY <1>5, <2>1, <2>2, <2>3, <2>4, AppendFacts DEF Gens
  <2>6. Gens \subseteq Gens' /\ n \in Gens' /\ \A g \in Gens' : g \in Gens \/ g = n
    BY <2>1, <2>2, <2>5 DEF Gens
  <2>7. PICK x : x = [handler[h] EXCEPT !.pc = "seat", !.gen = n]
    OBVIOUS
  <2>8. handler[h] \in HandlerRecord /\ "seat" \in Pcs
    BY Zenon DEF CellInv, Pcs, Swapping
  <2>9. x \in HandlerRecord /\ x.pc = "seat" /\ x.gen = n
    BY <2>2, <2>7, <2>8, Zenon DEF HandlerRecord
  <2>10. handler' = [handler EXCEPT ![h] = x]
    BY <1>5, <2>1, <2>7, Zenon DEF CellInv
  <2>11. handler' \in [Handlers -> HandlerRecord] /\ handler'[h] = x
         /\ \A i \in Handlers : i # h => handler'[i] = handler[i]
    BY <2>9, <2>10, Zenon DEF CellInv
  <2>12. Untouched(n)'
    BY <2>4, <2>5, <2>6 DEF Untouched
  <2>13. HandlerFits(h, handler[h])'
    <3>1. handler'[h].pc = "seat" /\ handler'[h].gen = n /\ guard' = h /\ loaded' = 0
      BY <1>2, <1>5, <2>9, <2>11, Zenon
    <3>2. Untouched(handler[h].gen)'
      BY <2>12, <3>1, Zenon DEF Untouched
    <3>3. QED BY <3>1, <3>2, Zenon DEF HandlerFits, Draining
  <2>14. MappedIsKnown'
    <3>1. SUFFICES ASSUME NEW g \in Gens', service'[g].worker # "ended"
                   PROVE  \E i \in Handlers : handler'[i].pc \in Draining \cup {"seat"} /\ handler'[i].gen = g
      BY Zenon DEF MappedIsKnown
    <3>2. g = n
      BY <1>3, <2>5, <2>6, <3>1, Zenon
    <3>3. QED BY <2>9, <2>11, <3>2, Zenon
  <2>15. \A i \in Handlers \ {h} : SamePlace(handler[i], handler'[i])
    BY <2>11, Zenon DEF SamePlace
  <2>16. /\ handler' \in [Handlers -> HandlerRecord] /\ guard' = h /\ loaded' \in Nat /\ loaded' = 0
         /\ failure' \in BOOLEAN /\ handler'[h].pc \in Swapping
    BY <1>2, <1>5, <2>9, <2>11, Zenon DEF CellInv, Swapping
  <2>17. QED BY <1>1, <1>2, <2>5, <2>6, <2>13, <2>14, <2>15, <2>16, SwapStep, Zenon
<1>6. QED BY <1>4, <1>5, Zenon DEF LoadMap

\* An inference that is queued keeps the invariant, also with a service that is
\* being retired.
LEMMA InferKeeps ==
    ASSUME CellInv, NEW h \in Handlers, Infer(h)
    PROVE  CellInv'
<1>1. handler[h].pc = "admit" /\ handler[h].pc \notin Swapping
      /\ registry' \subseteq Models /\ weights' \subseteq Models
  BY Zenon DEF Infer, Swapping, Draining, CellInv
<1>2. PICK g \in Gens : g = handler[h].gen
  BY <1>1, Zenon DEF CellInv, HandlerFits
<1>3. CASE Owe(h) /\ service' = service
  BY <1>1, <1>3, GotoMoves, Zenon DEF Infer, Owe
<1>4. CASE /\ service[g].worker # "ended" /\ service' = [service EXCEPT ![g].queue = Append(@, h)]
           /\ Goto(h, "await")
  <2>1. service[g] \in Generation /\ service \in Seq(Generation)
    BY DEF CellInv, Gens
  <2>2. PICK q : q = Append(service[g].queue, h)
    BY Zenon
  <2>3. service[g].queue \in Seq(Handlers \cup {Shutdown}) /\ h \in Handlers \cup {Shutdown}
    BY <2>1, Zenon DEF Generation
  <2>4. /\ q \in Seq(Handlers \cup {Shutdown}) /\ Len(q) = Len(service[g].queue) + 1
        /\ \A i \in 1 .. Len(service[g].queue) : q[i] = service[g].queue[i]
        /\ q[Len(service[g].queue) + 1] = h
    BY <2>2, <2>3, AppendFacts
  <2>5. PICK s : s = [service[g] EXCEPT !.queue = q]
    BY Zenon
  <2>6. s \in Generation /\ s.worker = service[g].worker /\ s.stop = service[g].stop /\ s.queue = q
    BY <2>1, <2>4, <2>5, Zenon DEF Generation
  <2>7. service' = [service EXCEPT ![g] = s]
    BY <1>4, <2>2, <2>5, Zenon
  <2>8. NothingMapped /\ Gens' = Gens /\ service'[g] = s
        /\ \A j \in Gens : j # g => service'[j] = service[j]
    BY <2>6, <2>7, GenerationChanges, Zenon
  <2>9. \A j \in Gens : Untouched(j) => Untouched(j)'
    <3>1. SUFFICES ASSUME NEW j \in Gens, Untouched(j) PROVE Untouched(j)'
      BY Zenon
    <3>2. CASE j # g
      BY <2>8, <3>1, <3>2, Zenon DEF Untouched
    <3>3. CASE j = g
      <4>1. \A i \in 1 .. Len(q) : q[i] # Shutdown
        BY <2>3, <2>4, <3>1, <3>3, CellAssumption DEF Untouched
      <4>2. QED BY <2>6, <2>8, <3>1, <3>3, <4>1, Zenon DEF Untouched
    <3>4. QED BY <3>2, <3>3, Zenon
  <2>10. "await" \in Pcs
    BY DEF Pcs
  <2>11. PICK x \in HandlerRecord : handler' = [handler EXCEPT ![h] = x] /\ x.pc = "await"
    BY <1>4, <2>10, GotoFits
  <2>12. handler' \in [Handlers -> HandlerRecord] /\ handler'[h] = x
         /\ \A i \in Handlers : i # h => handler'[i] = handler[i]
    BY <2>11, Zenon DEF CellInv
  <2>13. \A i \in Handlers :
           \/ SamePlace(handler[i], handler'[i])
           \/ /\ handler[i].pc \notin Swapping
              /\ handler'[i].pc \notin {"lookup"} \cup Swapping
              /\ handler'[i].pc = "admit" => handler'[i].gen \in Gens
    BY <1>1, <2>11, <2>12, Zenon DEF SamePlace, Swapping, Draining
  <2>14. handler' \in [Handlers -> HandlerRecord]
         /\ guard' = guard /\ loaded' = loaded /\ failure' = failure /\ transition' = transition
    BY <2>12, Zenon DEF Infer
  <2>15. QED BY <1>1, <2>8, <2>9, <2>13, <2>14, QuietStep, Zenon
<1>5. QED BY <1>2, <1>3, <1>4, Zenon DEF Infer

\* Answering generations moves no handler.
LEMMA RepliesMove ==
    ASSUME CellInv, NEW hs, NEW r \in Replies, Reply(hs, r)
    PROVE  handler' \in [Handlers -> HandlerRecord] /\ \A i \in Handlers : SamePlace(handler[i], handler'[i])
<1>1. ASSUME NEW i \in Handlers
      PROVE  handler'[i] \in HandlerRecord /\ SamePlace(handler[i], handler'[i])
  <2>1. handler[i] \in HandlerRecord
    BY Zenon DEF CellInv
  <2>2. PICK x : x = [handler[i] EXCEPT !.reply = r]
    BY Zenon
  <2>3. x \in HandlerRecord /\ SamePlace(handler[i], x)
    BY <2>1, <2>2, Zenon DEF HandlerRecord, SamePlace
  <2>4. handler'[i] = x \/ handler'[i] = handler[i]
    BY <2>2, Zenon DEF Reply
  <2>5. QED BY <2>1, <2>3, <2>4, Zenon DEF SamePlace
<1>2. QED BY <1>1, Zenon DEF Reply

\* A step of a worker keeps the invariant, unless it stops one the cell holds.
LEMMA WorkerMoves ==
    ASSUME CellInv, NEW g \in Gens, NEW s \in Generation, service' = [service EXCEPT ![g] = s],
           s.worker # "ended" => service[g].worker # "ended",
           Untouched(g) => /\ ~s.stop /\ s.worker # "ended"
                           /\ \A i \in 1 .. Len(s.queue) : s.queue[i] # Shutdown,
           handler' \in [Handlers -> HandlerRecord],
           \A i \in Handlers : SamePlace(handler[i], handler'[i]),
           UNCHANGED <<registry, weights, loaded, failure, transition, guard>>
    PROVE  CellInv'
<1>1. NothingMapped /\ Gens' = Gens /\ service'[g] = s /\ \A j \in Gens : j # g => service'[j] = service[j]
  BY GenerationChanges, Zenon
<1>2. \A j \in Gens : Untouched(j) => Untouched(j)'
  <2>1. SUFFICES ASSUME NEW j \in Gens, Untouched(j) PROVE Untouched(j)'
    BY Zenon
  <2>2. CASE j # g
    BY <1>1, <2>1, <2>2, Zenon DEF Untouched
  <2>3. CASE j = g
    BY <1>1, <2>1, <2>3, Zenon DEF Untouched
  <2>4. QED BY <2>2, <2>3, Zenon
<1>3. registry' \subseteq Models /\ weights' \subseteq Models
  BY Zenon DEF CellInv
<1>4. QED BY <1>1, <1>2, <1>3, QuietStep, Zenon

\* Every step of a worker keeps the invariant.
LEMMA WorkerStepKeeps ==
    ASSUME CellInv, NEW g \in Gens, WorkerStep(g)
    PROVE  CellInv'
<1>1. service[g] \in Generation /\ service \in Seq(Generation)
  BY DEF CellInv, Gens
<1>2. UNCHANGED <<registry, weights, loaded, failure, transition, guard>>
  BY Zenon DEF WorkerStep, WorkerTakes, WorkerActivates, WorkerFinishes
<1>3. service[g].queue \in Seq(Handlers \cup {Shutdown})
  BY <1>1, Zenon DEF Generation
<1>4. handler \in [Handlers -> HandlerRecord] /\ \A i \in Handlers : SamePlace(handler[i], handler[i])
  BY Zenon DEF CellInv, SamePlace
<1>5. CASE WorkerTakes(g)
  <2>1. service[g].worker = "idle" /\ service[g].queue # <<>>
    BY <1>5, Zenon DEF WorkerTakes
  <2>2. /\ Head(service[g].queue) \in Handlers \cup {Shutdown} /\ Len(service[g].queue) > 0
        /\ Head(service[g].queue) = service[g].queue[1]
        /\ Tail(service[g].queue) \in Seq(Handlers \cup {Shutdown})
        /\ Len(Tail(service[g].queue)) = Len(service[g].queue) - 1
        /\ \A i \in 1 .. Len(Tail(service[g].queue)) : Tail(service[g].queue)[i] = service[g].queue[i + 1]
    BY <1>3, <2>1, TakeFacts
  <2>3. CASE /\ service[g].stop \/ Head(service[g].queue) = Shutdown
             /\ Reply(Queued(g), IF service[g].stop THEN "cancelled" ELSE "unavailable")
             /\ service' = [service EXCEPT ![g].queue = <<>>, ![g].worker = "ended"]
    <3>1. PICK r \in Replies : Reply(Queued(g), r)
      BY <2>3, Zenon DEF Replies
    <3>2. handler' \in [Handlers -> HandlerRecord] /\ \A i \in Handlers : SamePlace(handler[i], handler'[i])
      BY <3>1, RepliesMove, Zenon
    <3>3. PICK q : q = <<>>
      BY Zenon
    <3>4. q \in Seq(Handlers \cup {Shutdown})
      BY <3>3
    <3>5. PICK s : s = [service[g] EXCEPT !.queue = q, !.worker = "ended"]
      BY Zenon
    <3>6. s \in Generation
      BY <1>1, <3>4, <3>5, Zenon DEF Generation
    <3>7. service' = [service EXCEPT ![g] = s]
      BY <1>1, <2>3, <3>3, <3>5, Zenon
    <3>8. ~Untouched(g)
      BY <2>2, <2>3 DEF Untouched
    <3>9. service[g].worker # "ended"
      BY <2>1, Zenon
    <3>10. QED BY <1>2, <3>2, <3>6, <3>7, <3>8, <3>9, WorkerMoves, Zenon
  <2>4. CASE /\ ~service[g].stop /\ Head(service[g].queue) # Shutdown
             /\ service' = [service EXCEPT ![g].queue = Tail(@), ![g].worker = "taken",
                                           ![g].current = Head(service[g].queue)]
             /\ UNCHANGED handler
    <3>1. PICK q, c : q = Tail(service[g].queue) /\ c = Head(service[g].queue)
      BY Zenon
    <3>2. PICK s : s = [service[g] EXCEPT !.queue = q, !.worker = "taken", !.current = c]
      BY Zenon
    <3>3. q \in Seq(Handlers \cup {Shutdown}) /\ c \in Handlers \cup {None, Shutdown}
      BY <2>2, <3>1, Zenon
    <3>4. s \in Generation /\ s.queue = q /\ s.worker = "taken" /\ s.stop = service[g].stop
      BY <1>1, <3>2, <3>3, Zenon DEF Generation
    <3>5. service' = [service EXCEPT ![g] = s]
      BY <1>1, <2>4, <3>1, <3>2, Zenon
    <3>6. Untouched(g) => \A i \in 1 .. Len(q) : q[i] # Shutdown
      <4>1. Len(service[g].queue) \in Nat
        BY <1>3
      <4>2. QED BY <2>2, <3>1, <4>1 DEF Untouched
    <3>7. service[g].worker # "ended" /\ s.worker # "ended" /\ ~s.stop
      BY <2>1, <2>4, <3>4, Zenon
    <3>8. Untouched(g) => /\ ~s.stop /\ s.worker # "ended"
                          /\ \A i \in 1 .. Len(s.queue) : s.queue[i] # Shutdown
      BY <3>4, <3>6, <3>7, Zenon
    <3>9. handler' \in [Handlers -> HandlerRecord] /\ \A i \in Handlers : SamePlace(handler[i], handler'[i])
      BY <1>4, <2>4, Zenon
    <3>10. QED BY <1>2, <3>4, <3>5, <3>7, <3>8, <3>9, WorkerMoves, Zenon
  <2>5. QED BY <1>5, <2>3, <2>4, Zenon DEF WorkerTakes
<1>6. CASE WorkerActivates(g)
  <2>1. PICK c : c = service[g].current
    BY Zenon
  <2>2. PICK s : s = [service[g] EXCEPT !.worker = "running", !.active = c]
    OBVIOUS
  <2>3. c \in Handlers \cup {None, Shutdown}
    BY <1>1, <2>1, Zenon DEF Generation
  <2>4. s \in Generation /\ s.queue = service[g].queue /\ s.worker = "running" /\ s.stop = service[g].stop
    BY <1>1, <2>2, <2>3, Zenon DEF Generation
  <2>5. service' = [service EXCEPT ![g] = s]
    BY <1>1, <1>6, <2>1, <2>2, Zenon DEF WorkerActivates
  <2>6. service[g].worker # "ended" /\ handler' = handler
    BY <1>6, Zenon DEF WorkerActivates
  <2>7. Untouched(g) => /\ ~s.stop /\ s.worker # "ended"
                        /\ \A i \in 1 .. Len(s.queue) : s.queue[i] # Shutdown
    BY <2>4, Zenon DEF Untouched
  <2>8. QED BY <1>2, <1>4, <2>4, <2>5, <2>6, <2>7, WorkerMoves, Zenon
<1>7. CASE WorkerFinishes(g)
  <2>1. PICK r \in Replies : Reply({service[g].current}, r)
    <3>1. PICK r \in {"generated", "failed"}
                     \cup (IF handler[service[g].current].cancelled THEN {"cancelled"} ELSE {}) :
             Reply({service[g].current}, r)
      BY <1>7, Zenon DEF WorkerFinishes
    <3>2. r \in Replies
      BY Zenon DEF Replies
    <3>3. QED BY <3>1, <3>2, Zenon
  <2>2. handler' \in [Handlers -> HandlerRecord] /\ \A i \in Handlers : SamePlace(handler[i], handler'[i])
    BY <2>1, RepliesMove, Zenon
  <2>3. PICK s : s = [service[g] EXCEPT !.worker = "idle", !.active = None, !.current = None]
    BY Zenon
  <2>4. s \in Generation /\ s.queue = service[g].queue /\ s.worker = "idle" /\ s.stop = service[g].stop
    BY <1>1, <2>3, Zenon DEF Generation
  <2>5. service' = [service EXCEPT ![g] = s]
    BY <1>1, <1>7, <2>3, Zenon DEF WorkerFinishes
  <2>6. service[g].worker # "ended"
    BY <1>7, Zenon DEF WorkerFinishes
  <2>7. Untouched(g) => /\ ~s.stop /\ s.worker # "ended"
                        /\ \A i \in 1 .. Len(s.queue) : s.queue[i] # Shutdown
    BY <2>4, Zenon DEF Untouched
  <2>8. QED BY <1>2, <2>2, <2>4, <2>5, <2>6, <2>7, WorkerMoves, Zenon
<1>8. QED BY <1>5, <1>6, <1>7, Zenon DEF WorkerStep

\* Nothing is mapped initially.
LEMMA CellInitInv == CellInit => CellInv
<1> SUFFICES ASSUME CellInit PROVE CellInv OBVIOUS
<1>1. handler \in [Handlers -> HandlerRecord] /\ \A h \in Handlers : handler[h].pc = "idle"
  <2>1. None \in Ops /\ None \in Replies /\ None \in Answers /\ "idle" \in Pcs
    BY Zenon DEF Ops, Replies, Answers, Pcs
  <2>2. Idle \in HandlerRecord /\ Idle.pc = "idle"
    BY <2>1, Zenon DEF Idle, HandlerRecord
  <2>3. QED BY <2>2, Zenon DEF CellInit
<1>2. \A h \in Handlers : HandlerFits(h, handler[h])
  BY <1>1, Zenon DEF HandlerFits, Swapping, Draining
<1>3. registry \subseteq Models /\ weights \subseteq Models /\ guard = None /\ transition = "none"
  BY Zenon DEF CellInit, LoadModelAtStart
<1>4. CASE loaded = 0 /\ service = <<>> /\ failure \in BOOLEAN
  <2>1. service \in Seq(Generation) /\ Gens = {}
    BY <1>4 DEF Gens
  <2>2. QED BY <1>1, <1>2, <1>3, <1>4, <2>1, Zenon DEF CellInv, MappedIsKnown
<1>5. ASSUME NEW m \in registry, loaded = 1, service = <<StartGenerator(m)>>, failure = FALSE
      PROVE  CellInv
  <2>1. PICK q : q = <<>>
    BY Zenon
  <2>2. q \in Seq(Handlers \cup {Shutdown}) /\ Len(q) = 0
    BY <2>1
  <2>3. PICK s : s = StartGenerator(m)
    BY Zenon
  <2>4. s = [model |-> m, queue |-> q, worker |-> "idle", current |-> None, active |-> None, stop |-> FALSE]
    BY <2>1, <2>3, Zenon DEF StartGenerator
  <2>5. m \in Models
    BY <1>3, Zenon
  <2>6. s \in Generation /\ s.worker = "idle" /\ ~s.stop /\ s.queue = q
    BY <2>2, <2>4, <2>5, Zenon DEF Generation
  <2>7. service = <<s>>
    BY <1>5, <2>3, Zenon
  <2>8. service \in Seq(Generation) /\ Gens = {1} /\ service[1] = s
    BY <2>6, <2>7 DEF Gens
  <2>9. Untouched(loaded)
    BY <1>5, <2>2, <2>6, <2>8 DEF Untouched
  <2>10. MappedIsKnown
    BY <1>5, <2>8, Zenon DEF MappedIsKnown
  <2>11. QED BY <1>1, <1>2, <1>3, <1>5, <2>8, <2>9, <2>10, Zenon DEF CellInv
<1>6. QED BY <1>4, <1>5, Zenon DEF CellInit, LoadModelAtStart

\* Every behaviour of the model cell keeps the inductive invariant.
THEOREM CellInvariant == CellSpec => []CellInv
<1>1. CellInv /\ [CellNext]_cellVars => CellInv'
  <2> SUFFICES ASSUME CellInv, [CellNext]_cellVars PROVE CellInv' OBVIOUS
  <2>1. CASE UNCHANGED cellVars
    <3>1. /\ NothingMapped /\ \A g \in Gens : Untouched(g) => Untouched(g)'
      BY <2>1, ServiceUnchanged, Zenon DEF cellVars
    <3>2. \A i \in Handlers : SamePlace(handler[i], handler'[i])
      BY <2>1, Zenon DEF cellVars, SamePlace
    <3>3. handler' \in [Handlers -> HandlerRecord] /\ registry' \subseteq Models /\ weights' \subseteq Models
      BY <2>1, Zenon DEF cellVars, CellInv
    <3>4. guard' = guard /\ loaded' = loaded /\ failure' = failure /\ transition' = transition
      BY <2>1, Zenon DEF cellVars
    <3>5. QED BY <3>1, <3>2, <3>3, <3>4, QuietStep, Zenon
  <2>2. ASSUME NEW h \in Handlers, Dispatch(h)
        PROVE  CellInv'
    <3>1. ASSUME NEW m \in Models,
                 \/ LoadBegin(h, m) \/ InferBegin(h, m) \/ Register(h, m) \/ UnregisterBegin(h, m)
                 \/ DeleteWeightsBegin(h, m)
          PROVE  CellInv'
      BY <3>1, LoadBeginKeeps, QuietDispatch, Zenon
    <3>2. CASE UnloadBegin(h)
      BY <3>2, UnloadBeginKeeps, Zenon
    <3>3. CASE ModelStatus(h) \/ ModelVerify(h) \/ ModelSweep(h) \/ ResetRegistry(h)
      BY <3>3, QuietRequest, Zenon
    <3>4. QED BY <2>2, <3>1, <3>2, <3>3, Zenon DEF Dispatch
  <2>3. ASSUME NEW h \in Handlers, HandlerStep(h)
        PROVE  CellInv'
    BY <2>3, LoadLookupKeeps, DrainsKeep, DrainJoinKeeps, LoadMapKeeps, LoadSeatKeeps, InferKeeps,
       QuietHandler, Zenon
    DEF HandlerStep
  <2>4. ASSUME NEW g \in Gens, WorkerStep(g)
        PROVE  CellInv'
    BY <2>4, WorkerStepKeeps, Zenon
  <2>5. QED BY <2>1, <2>2, <2>3, <2>4, Zenon DEF CellNext
<1>2. QED BY CellInitInv, <1>1, PTL DEF CellSpec

\* For any number of handlers, models and generations: at most one runtime is
\* mapped and the surface tells the truth about a change in flight
\* (begin_transition, retire_loaded_model, handle_model_load).
THEOREM CellServesOne == CellSpec => []CellServesOneModel
<1>1. CellInv => CellServesOneModel
  <2> SUFFICES ASSUME CellInv PROVE CellServesOneModel BY Zenon
  <2> DEFINE Live == {g \in Gens : service[g].worker # "ended"}
  <2>1. \E n : Live \subseteq {n}
    <3>1. CASE guard \in Handlers
      <4>1. PICK h \in Handlers : h = guard
        BY <3>1, Zenon
      <4>2. \A g \in Live : g = loaded \/ (handler[h].pc \in Draining \cup {"seat"} /\ handler[h].gen = g)
        BY <4>1, OthersAway, Zenon
      <4>3. CASE handler[h].pc \in Draining \cup {"seat"}
        <5>1. loaded = 0
          BY <4>3, Zenon DEF CellInv, HandlerFits, Swapping
        <5>2. Live \subseteq {handler[h].gen}
          BY <4>2, <5>1 DEF Gens
        <5>3. QED BY <5>2, Zenon
      <4>4. CASE handler[h].pc \notin Draining \cup {"seat"}
        BY <4>2, <4>4, Zenon
      <4>5. QED BY <4>3, <4>4, Zenon
    <3>2. CASE guard = None
      <4>1. \A g \in Gens : service[g].worker # "ended" => g = loaded
        BY <3>2, CellAssumption, Zenon DEF CellInv, MappedIsKnown, HandlerFits, Swapping
      <4>2. QED BY <4>1, Zenon
    <3>3. QED BY <3>1, <3>2, Zenon DEF CellInv
  <2>2. PICK n : Live \subseteq {n}
    BY <2>1, Zenon
  <2>3. OneModelMapped
    <3> SUFFICES ASSUME NEW g \in Gens, NEW k \in Gens,
                        service[g].worker # "ended", service[k].worker # "ended"
                 PROVE  g = k
      BY Zenon DEF OneModelMapped
    <3>1. g \in Live /\ k \in Live
      BY Zenon
    <3>2. QED BY <2>2, <3>1, Zenon
  <2>4. SurfaceHonest
    BY CellAssumption, Zenon DEF CellInv, SurfaceHonest, Swapping, Draining, Untouched
  <2>5. QED BY <2>3, <2>4, Zenon DEF CellServesOneModel
<1>2. QED BY CellInvariant, <1>1, PTL

=============================================================================
