-------------------------- MODULE QueueRefinement --------------------------
(***************************************************************************)
(* The mapping under which the tables of RequestStore implement the queues *)
(* of ProjectQueue.                                                        *)
(***************************************************************************)
EXTENDS RequestStore

\* The requests of a project, in a table of requests, that are in one of the states.
InProject(table, states, p) ==
    {r \in RequestIds : table[r].state \in states /\ table[r].project = p}

\* Requests by their queue sequence: the i-th has i - 1 others before it.
ByPlace(table, S) ==
    [i \in 1 .. Cardinality(S) |->
       CHOOSE r \in S : Cardinality({q \in S : table[q].seq < table[r].seq}) = i - 1]

Waiting == [p \in Projects |-> ByPlace(req, InProject(req, {"queued"}, p))]

Running ==
    [p \in Projects |-> IF InProject(req, Active, p) = {} THEN None
                        ELSE CHOOSE r \in InProject(req, Active, p) : TRUE]

Outcome == [r \in RequestIds |-> IF req[r].state \in Terminal THEN req[r].state ELSE "none"]

Queue == INSTANCE ProjectQueue WITH waiting <- Waiting, running <- Running, outcome <- Outcome

\* The tables implement a first-in first-out queue per project: every
\* transaction of the store is one step of the abstract queues, or none
\* (accept, claim, recover_leases, finish, cancel).
ImplementsProjectQueue == Queue!Spec

=============================================================================
