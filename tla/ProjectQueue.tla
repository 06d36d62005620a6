---------------------------- MODULE ProjectQueue ----------------------------
(***************************************************************************)
(* What the request store promises its clients: each project is a first-in *)
(* first-out queue served by one worker at a time, a request whose worker  *)
(* is lost goes back to the head of its queue, and a request ends once.    *)
(***************************************************************************)
EXTENDS Naturals, Sequences

CONSTANTS RequestIds, Projects, None

VARIABLES
    waiting,   \* the requests of each project that wait, in the order they run
    running,   \* the request each project is working on, or None
    outcome    \* how each request ended, or "none"

vars == <<waiting, running, outcome>>

Ends == {"succeeded", "failed", "cancelled"}

InQueue(r) ==
    \E p \in Projects : running[p] = r \/ \E i \in 1 .. Len(waiting[p]) : waiting[p][i] = r

Init ==
    /\ waiting = [p \in Projects |-> <<>>]
    /\ running = [p \in Projects |-> None]
    /\ outcome = [r \in RequestIds |-> "none"]

Submit(r, p) ==
    /\ ~InQueue(r) /\ outcome[r] = "none"
    /\ waiting' = [waiting EXCEPT ![p] = Append(@, r)]
    /\ UNCHANGED <<running, outcome>>

Start(p) ==
    /\ running[p] = None /\ waiting[p] # <<>>
    /\ running' = [running EXCEPT ![p] = Head(waiting[p])]
    /\ waiting' = [waiting EXCEPT ![p] = Tail(@)]
    /\ UNCHANGED outcome

\* A waiting request is withdrawn: cancelled, or failed before it could start.
Withdraw(p, i, end) ==
    /\ outcome' = [outcome EXCEPT ![waiting[p][i]] = end]
    /\ waiting' = [waiting EXCEPT ![p] = SubSeq(@, 1, i - 1) \o SubSeq(@, i + 1, Len(@))]
    /\ UNCHANGED running

\* The workers of some projects stop: each of their requests ends, or returns to
\* the head of its queue.
Settle(fate) ==
    LET P == DOMAIN fate IN
    /\ \A p \in P : running[p] # None
    /\ running' = [p \in Projects |-> IF p \in P THEN None ELSE running[p]]
    /\ waiting' = [p \in Projects |->
                     IF p \in P /\ fate[p] = "requeued"
                     THEN <<running[p]>> \o waiting[p] ELSE waiting[p]]
    /\ outcome' = [r \in RequestIds |->
                     IF \E p \in P : running[p] = r /\ fate[p] # "requeued"
                     THEN fate[CHOOSE p \in P : running[p] = r] ELSE outcome[r]]

Next ==
    \/ \E r \in RequestIds, p \in Projects : Submit(r, p)
    \/ \E p \in Projects : Start(p)
    \/ \E p \in Projects : \E i \in 1 .. Len(waiting[p]), end \in {"failed", "cancelled"} :
         Withdraw(p, i, end)
    \/ \E P \in SUBSET Projects : \E fate \in [P -> Ends \cup {"requeued"}] : Settle(fate)

Spec == Init /\ [][Next]_vars

=============================================================================
