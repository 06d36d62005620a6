------------------------- MODULE ProjectQueueProofs -------------------------
(***************************************************************************)
(* The proof that the request store implements a first-in first-out queue  *)
(* per project. The mapping lists the waiting requests of a project by     *)
(* counting; Enumerates says what such a list is without counting, and     *)
(* PlacesAreUnique that there is only one. So the queues after a           *)
(* transaction need not be computed: a list that has the right members in  *)
(* the right order is the queue. Every transaction is an acceptance, a     *)
(* claim, the withdrawal of one waiting request or the return of some      *)
(* leases (StoreMoves), and each kind is shown to be a step of the         *)
(* abstract queues.                                                        *)
(***************************************************************************)
EXTENDS QueueRefinement, RequestStoreProofs

\* A sequence lists the requests of a set by their queue sequence.
Enumerates(s, S, table) ==
    /\ s \in Seq(S)
    /\ \A r \in S : \E i \in 1 .. Len(s) : s[i] = r
    /\ \A i, j \in 1 .. Len(s) : i < j => table[s[i]].seq < table[s[j]].seq

\* There is one such sequence, the one the mapping computes: in a list by queue
\* sequence the i-th request has i - 1 others before it.
LEMMA PlacesAreUnique ==
    ASSUME NEW table, NEW S, NEW s, Enumerates(s, S, table), \A r \in S : table[r].seq \in Nat
    PROVE  s = ByPlace(table, S)
<1> DEFINE n == Len(s)
           Before(r) == {q \in S : table[q].seq < table[r].seq}
<1>1. n \in Nat /\ s \in [1 .. n -> S] /\ DOMAIN s = 1 .. n
  BY DEF Enumerates
<1>2. \A i, j \in 1 .. n : table[s[i]].seq < table[s[j]].seq <=> i < j
  <2>1. \A i \in 1 .. n : s[i] \in S /\ table[s[i]].seq \in Nat
    BY <1>1
  <2> QED BY <1>1, <2>1 DEF Enumerates
<1>3. \A i, j \in 1 .. n : s[i] = s[j] => i = j
  <2>1. \A i, j \in 1 .. n : i < j \/ j < i \/ i = j
    BY <1>1
  <2>2. \A i \in 1 .. n : ~(i < i)
    BY <1>1
  <2> QED BY <1>2, <2>1, <2>2, Zenon
<1>4. ASSUME NEW i \in 1 .. n PROVE Cardinality(Before(s[i])) = i - 1
  <2> DEFINE B == Before(s[i])
             f == [j \in 1 .. i - 1 |-> s[j]]
  <2>1. i - 1 \in Nat /\ \A j \in 1 .. n : j \in 1 .. i - 1 <=> j < i
    BY <1>1
  <2>2. \A j \in 1 .. i - 1 : j \in 1 .. n
    BY <1>1
  <2>3. \A j \in 1 .. i - 1 : s[j] \in B
    BY <1>1, <1>2, <2>1, <2>2, Zenon
  <2>4. \A q \in B : \E j \in 1 .. i - 1 : s[j] = q
    BY <1>2, <2>1, Zenon DEF Enumerates
  <2>5. \A j, k \in 1 .. i - 1 : s[j] = s[k] => j = k
    BY <1>3, <2>2, Zenon
  <2> HIDE DEF B
  <2>6. f \in Bijection(1 .. i - 1, B)
    BY <2>3, <2>4, <2>5, Zenon DEF Bijection, Injection, Surjection, IsInjective
  <2>7. ExistsBijection(1 .. i - 1, B)
    BY <2>6, Zenon DEF ExistsBijection
  <2> QED BY <2>1, <2>7, FS_CountingElements, Zenon DEF B
<1>5. Cardinality(S) = n
  <2>1. s \in Bijection(1 .. n, S)
    BY <1>1, <1>3, Zenon DEF Bijection, Injection, Surjection, IsInjective, Enumerates
  <2>2. ExistsBijection(1 .. n, S)
    BY <2>1, Zenon DEF ExistsBijection
  <2> QED BY <1>1, <2>2, FS_CountingElements, Zenon
<1> HIDE DEF Before
<1>6. ASSUME NEW i \in 1 .. n PROVE s[i] = CHOOSE r \in S : Cardinality(Before(r)) = i - 1
  <2>1. s[i] \in S /\ Cardinality(Before(s[i])) = i - 1
    BY <1>1, <1>4
  <2>2. ASSUME NEW r \in S, Cardinality(Before(r)) = i - 1 PROVE r = s[i]
    <3>1. PICK j \in 1 .. n : s[j] = r
      BY Zenon DEF Enumerates
    <3>2. j - 1 = i - 1
      BY <1>4, <2>2, <3>1, Zenon
    <3> QED BY <1>1, <3>1, <3>2
  <2> QED BY <2>1, <2>2, Zenon
<1> QED BY <1>1, <1>5, <1>6, Zenon DEF ByPlace, Before

\* A list whose members are in a set is a list of that set.
LEMMA ListOf ==
    ASSUME NEW S, NEW R, NEW t \in Seq(S), \A i \in 1 .. Len(t) : t[i] \in R
    PROVE  t \in Seq(R)
<1>1. Len(t) \in Nat /\ t \in [1 .. Len(t) -> R]
  OBVIOUS
<1> QED BY <1>1

\* An empty queue.
LEMMA EnumeratesNothing ==
    ASSUME NEW table PROVE Enumerates(<<>>, {}, table)
BY DEF Enumerates

\* A table that keeps the requests' places keeps their list.
LEMMA EnumeratesStill ==
    ASSUME NEW table, NEW new, NEW S, NEW s, Enumerates(s, S, table),
           \A r \in S : new[r].seq = table[r].seq
    PROVE  Enumerates(s, S, new)
<1>1. \A i \in 1 .. Len(s) : s[i] \in S
  BY DEF Enumerates
<1> QED BY <1>1, Zenon DEF Enumerates

\* A request behind all others is appended (accept).
LEMMA EnumeratesAppend ==
    ASSUME NEW table, NEW S, NEW s, Enumerates(s, S, table), NEW r,
           \A q \in S : table[q].seq < table[r].seq
    PROVE  Enumerates(Append(s, r), S \cup {r}, table)
<1> DEFINE n == Len(s)
           t == Append(s, r)
<1>1. n \in Nat /\ t \in Seq(S \cup {r}) /\ Len(t) = n + 1
      /\ (\A i \in 1 .. n : s[i] \in S /\ t[i] = s[i]) /\ t[n + 1] = r
  BY DEF Enumerates
<1>2. \A i \in 1 .. n + 1 : i \in 1 .. n \/ i = n + 1
  BY <1>1
<1>3. \A i, j \in 1 .. n + 1 : i < j => i \in 1 .. n
  BY <1>1
<1>4. 1 .. n \subseteq 1 .. n + 1 /\ n + 1 \in 1 .. n + 1
  BY <1>1
<1> HIDE DEF t
<1>5. \A x \in S \cup {r} : \E i \in 1 .. n + 1 : t[i] = x
  BY <1>1, <1>4, Zenon DEF Enumerates
<1>6. \A i, j \in 1 .. n + 1 : i < j => table[t[i]].seq < table[t[j]].seq
  BY <1>1, <1>2, <1>3, Zenon DEF Enumerates
<1> QED BY <1>1, <1>5, <1>6, Zenon DEF Enumerates, t

\* A request ahead of all others is put at the head (recover_leases).
LEMMA EnumeratesPrepend ==
    ASSUME NEW table, NEW S, NEW s, Enumerates(s, S, table), NEW r,
           \A q \in S : table[r].seq < table[q].seq
    PROVE  Enumerates(<<r>> \o s, S \cup {r}, table)
<1> DEFINE n == Len(s)
           t == <<r>> \o s
<1>1. s \in Seq(S) /\ n \in Nat /\ \A i \in 1 .. n : s[i] \in S
  BY DEF Enumerates
<1>2. t \in Seq(S \cup {r}) /\ Len(t) = n + 1 /\ t[1] = r /\ \A i \in 2 .. n + 1 : t[i] = s[i - 1]
  <2>1. s \in Seq(S \cup {r}) /\ <<r>> \in Seq(S \cup {r}) /\ Len(<<r>>) = 1 /\ <<r>>[1] = r
    BY <1>1
  <2> QED BY <1>1, <2>1
<1>3. /\ \A i \in 1 .. n + 1 : i = 1 \/ i \in 2 .. n + 1
      /\ \A i \in 2 .. n + 1 : i - 1 \in 1 .. n /\ i \in 1 .. n + 1
      /\ \A i \in 1 .. n : i + 1 \in 2 .. n + 1 /\ (i + 1) - 1 = i
      /\ \A i, j \in 1 .. n + 1 : i < j => j \in 2 .. n + 1
      /\ \A i, j \in 2 .. n + 1 : i < j => i - 1 < j - 1
      /\ 1 \in 1 .. n + 1
  BY <1>1
<1> HIDE DEF t
<1>4. \A i \in 1 .. n : i + 1 \in 1 .. n + 1 /\ t[i + 1] = s[i]
  BY <1>2, <1>3, Zenon
<1>5. \A x \in S \cup {r} : \E i \in 1 .. n + 1 : t[i] = x
  BY <1>2, <1>3, <1>4, Zenon DEF Enumerates
<1>6. ASSUME NEW i \in 1 .. n + 1, NEW j \in 1 .. n + 1, i < j
      PROVE  table[t[i]].seq < table[t[j]].seq
  <2>1. j \in 2 .. n + 1 /\ j - 1 \in 1 .. n /\ t[j] = s[j - 1]
    BY <1>2, <1>3, <1>6, Zenon
  <2>2. CASE i = 1
    BY <1>1, <1>2, <2>1, <2>2, Zenon
  <2>3. CASE i \in 2 .. n + 1
    <3>1. i - 1 \in 1 .. n /\ t[i] = s[i - 1] /\ i - 1 < j - 1
      BY <1>2, <1>3, <1>6, <2>1, <2>3, Zenon
    <3> QED BY <2>1, <3>1, Zenon DEF Enumerates
  <2> QED BY <1>3, <2>2, <2>3, Zenon
<1> QED BY <1>2, <1>5, <1>6, Zenon DEF Enumerates, t

\* The head is the first of its queue, and the tail lists the others (claim).
LEMMA EnumeratesTail ==
    ASSUME NEW table, NEW S, NEW s, Enumerates(s, S, table), NEW r \in S,
           \A q \in S : table[q].seq \in Nat /\ table[r].seq <= table[q].seq
    PROVE  s # <<>> /\ Head(s) = r /\ Enumerates(Tail(s), S \ {r}, table)
<1> DEFINE n == Len(s)
           t == Tail(s)
<1>1. s \in Seq(S) /\ n \in Nat /\ \A i \in 1 .. n : s[i] \in S /\ table[s[i]].seq \in Nat
  BY DEF Enumerates
<1>2. PICK k \in 1 .. n : s[k] = r
  BY Zenon DEF Enumerates
<1>3. 1 \in 1 .. n /\ n > 0
  BY <1>1, <1>2
<1>4. k = 1
  <2>1. 1 < k => table[s[1]].seq < table[r].seq
    BY <1>2, <1>3, Zenon DEF Enumerates
  <2>2. table[r].seq <= table[s[1]].seq /\ table[r].seq \in Nat /\ table[s[1]].seq \in Nat
    BY <1>1, <1>3, Zenon
  <2> QED BY <1>1, <2>1, <2>2
<1>5. s # <<>> /\ Head(s) = r
  BY <1>1, <1>2, <1>3, <1>4
<1>6. t \in Seq(S) /\ Len(t) = n - 1 /\ \A i \in 1 .. n - 1 : t[i] = s[i + 1]
  BY <1>1, <1>3, <1>5
<1>7. \A i \in 1 .. n : i # 1 => table[r].seq < table[s[i]].seq
  <2>1. \A i \in 1 .. n : i # 1 => 1 < i
    BY <1>1
  <2> QED BY <1>2, <1>3, <1>4, <2>1, Zenon DEF Enumerates
<1>8. \A i \in 1 .. n - 1 : i + 1 \in 1 .. n /\ i + 1 # 1
  BY <1>1
<1>9. \A i \in 1 .. n - 1 : t[i] \in S \ {r}
  BY <1>1, <1>6, <1>7, <1>8
<1>10. t \in Seq(S \ {r})
  BY <1>6, <1>9, ListOf, Zenon
<1>11. \A x \in S \ {r} : \E i \in 1 .. n - 1 : t[i] = x
  <2> TAKE x \in S \ {r}
  <2>1. PICK i \in 1 .. n : s[i] = x
    BY Zenon DEF Enumerates
  <2>2. i # 1
    BY <1>2, <1>4, <2>1
  <2>3. i - 1 \in 1 .. n - 1 /\ (i - 1) + 1 = i
    BY <1>1, <2>2
  <2> QED BY <1>6, <2>1, <2>3
<1>12. \A i, j \in 1 .. n - 1 : i < j => table[t[i]].seq < table[t[j]].seq
  <2>1. \A i, j \in 1 .. n - 1 : i < j => i + 1 < j + 1
    BY <1>1
  <2> QED BY <1>6, <1>8, <2>1, Zenon DEF Enumerates
<1> HIDE DEF t
<1> QED BY <1>5, <1>6, <1>10, <1>11, <1>12, Zenon DEF Enumerates, t

\* The members of two lists put together.
LEMMA ConcatFacts ==
    ASSUME NEW S, NEW a \in Seq(S), NEW b \in Seq(S)
    PROVE  /\ a \o b \in Seq(S) /\ Len(a \o b) = Len(a) + Len(b)
           /\ \A i \in 1 .. Len(a) + Len(b) : (a \o b)[i] = IF i <= Len(a) THEN a[i] ELSE b[i - Len(a)]
OBVIOUS

\* What is left of a list without its k-th member.
LEMMA WithoutFacts ==
    ASSUME NEW S, NEW s \in Seq(S), NEW k \in 1 .. Len(s)
    PROVE  LET t == SubSeq(s, 1, k - 1) \o SubSeq(s, k + 1, Len(s)) IN
           /\ t \in Seq(S) /\ Len(t) = Len(s) - 1
           /\ \A i \in 1 .. Len(t) : t[i] = IF i < k THEN s[i] ELSE s[i + 1]
<1> DEFINE a == SubSeq(s, 1, k - 1)
           b == SubSeq(s, k + 1, Len(s))
<1>1. Len(s) \in Nat /\ k \in Nat /\ 1 <= k /\ k <= Len(s)
  OBVIOUS
<1>2. a \in Seq(S) /\ Len(a) = k - 1 /\ \A i \in 1 .. k - 1 : a[i] = s[i]
  BY <1>1
<1>3. b \in Seq(S) /\ Len(b) = Len(s) - k /\ \A i \in 1 .. Len(s) - k : b[i] = s[i + k]
  BY <1>1
<1> HIDE DEF a, b
<1>4. a \o b \in Seq(S) /\ Len(a \o b) = Len(a) + Len(b)
  BY <1>2, <1>3, ConcatFacts, Zenon
<1>5. \A i \in 1 .. Len(a) + Len(b) : (a \o b)[i] = IF i <= Len(a) THEN a[i] ELSE b[i - Len(a)]
  BY <1>2, <1>3, ConcatFacts, Zenon
<1>6. ASSUME NEW i \in 1 .. Len(s) - 1
      PROVE  (a \o b)[i] = IF i < k THEN s[i] ELSE s[i + 1]
  <2>1. i \in 1 .. Len(a) + Len(b)
    BY <1>1, <1>2, <1>3
  <2>2. CASE i < k
    <3>1. i \in 1 .. k - 1 /\ i <= Len(a)
      BY <1>1, <1>2, <2>2
    <3> QED BY <1>2, <1>5, <2>1, <2>2, <3>1, Zenon
  <2>3. CASE ~(i < k)
    <3>1. i - Len(a) \in 1 .. Len(s) - k /\ (i - Len(a)) + k = i + 1 /\ ~(i <= Len(a))
      BY <1>1, <1>2, <2>3
    <3>2. b[i - Len(a)] = s[i + 1]
      BY <1>3, <3>1, Zenon
    <3> QED BY <1>5, <2>1, <2>3, <3>1, <3>2, Zenon
  <2> QED BY <2>2, <2>3, Zenon
<1>7. Len(a \o b) = Len(s) - 1
  BY <1>1, <1>2, <1>3, <1>4
<1> QED BY <1>4, <1>6, <1>7, Zenon DEF a, b

\* A request that is withdrawn leaves the others in their order (cancel).
LEMMA EnumeratesWithout ==
    ASSUME NEW table, NEW S, NEW s, Enumerates(s, S, table), NEW k \in 1 .. Len(s),
           \A q \in S : table[q].seq \in Nat
    PROVE  Enumerates(SubSeq(s, 1, k - 1) \o SubSeq(s, k + 1, Len(s)), S \ {s[k]}, table)
<1> DEFINE n == Len(s)
           t == SubSeq(s, 1, k - 1) \o SubSeq(s, k + 1, Len(s))
<1>1. s \in Seq(S) /\ n \in Nat /\ \A i \in 1 .. n : s[i] \in S
  BY DEF Enumerates
<1>2. t \in Seq(S) /\ Len(t) = n - 1 /\ \A i \in 1 .. Len(t) : t[i] = IF i < k THEN s[i] ELSE s[i + 1]
  BY <1>1, WithoutFacts, Zenon
<1> HIDE DEF t
<1> DEFINE At(i) == IF i < k THEN i ELSE i + 1
<1>3. /\ \A i \in 1 .. n - 1 : At(i) \in 1 .. n /\ At(i) # k
      /\ \A i, j \in 1 .. n - 1 : i < j => At(i) < At(j)
  BY <1>1
<1>4. \A i \in 1 .. n : i # k => \E j \in 1 .. n - 1 : At(j) = i
  <2> SUFFICES ASSUME NEW i \in 1 .. n, i # k PROVE \E j \in 1 .. n - 1 : At(j) = i
    OBVIOUS
  <2>1. CASE i < k
    <3>1. i \in 1 .. n - 1 /\ At(i) = i
      BY <1>1, <2>1
    <3> QED BY <3>1
  <2>2. CASE ~(i < k)
    <3>1. i - 1 \in 1 .. n - 1 /\ At(i - 1) = i
      BY <1>1, <2>2
    <3> QED BY <3>1
  <2> QED BY <2>1, <2>2
<1>5. \A i \in 1 .. n - 1 : t[i] = s[At(i)]
  BY <1>2
<1> HIDE DEF At
<1>6. \A i, j \in 1 .. n : s[i] = s[j] => i = j
  <2>1. \A i, j \in 1 .. n : i < j \/ j < i \/ i = j
    BY <1>1
  <2>2. \A i \in 1 .. n : ~(table[s[i]].seq < table[s[i]].seq)
    <3>1. \A m \in Nat : ~(m < m)
      OBVIOUS
    <3> QED BY <1>1, <3>1, Zenon
  <2> QED BY <2>1, <2>2, Zenon DEF Enumerates
<1>7. \A i \in 1 .. n - 1 : t[i] \in S \ {s[k]}
  BY <1>1, <1>3, <1>5, <1>6, Zenon
<1>8. t \in Seq(S \ {s[k]})
  BY <1>2, <1>7, ListOf, Zenon
<1>9. \A x \in S \ {s[k]} : \E i \in 1 .. n - 1 : t[i] = x
  <2> TAKE x \in S \ {s[k]}
  <2>1. PICK i \in 1 .. n : s[i] = x
    BY Zenon DEF Enumerates
  <2>2. PICK j \in 1 .. n - 1 : At(j) = i
    BY <1>4, <2>1, Zenon
  <2> QED BY <1>5, <2>1, <2>2, Zenon
<1>10. \A i, j \in 1 .. n - 1 : i < j => table[t[i]].seq < table[t[j]].seq
  BY <1>3, <1>5, Zenon DEF Enumerates
<1> QED BY <1>2, <1>8, <1>9, <1>10, Zenon DEF Enumerates, t

-----------------------------------------------------------------------------
(* What a transaction of the store does to the queues *)

\* A request keeps its place, and its state but for a mark of cancellation.
Steady(r) ==
    /\ SameIdentity(r)
    /\ req'[r].state = req[r].state \/ (req[r].state \in Active /\ req'[r].state \in Active)

\* One waiting request ends and nothing else happens.
Withdrawn(r) ==
    /\ req[r].state = "queued" /\ req'[r].state \in {"failed", "cancelled"} /\ SameIdentity(r)
    /\ \A q \in RequestIds \ {r} : Steady(q)

\* Some leases are given up: each of their requests waits again or ends.
Settled(R) ==
    /\ \A r \in R : req'[r].state \in {"queued"} \cup Terminal /\ SameIdentity(r)
    /\ \A q \in RequestIds \ R : Steady(q)

\* A row that is not rewritten is steady.
LEMMA SameRowSteady ==
    ASSUME NEW r, req'[r] = req[r]
    PROVE  Steady(r)
BY DEF Steady, SameIdentity

\* A transaction that rewrites one row leaves the others steady.
LEMMA OthersSteady ==
    ASSUME TypeOK, NEW r \in RequestIds, NEW row, req' = [req EXCEPT ![r] = row]
    PROVE  req'[r] = row /\ \A q \in RequestIds \ {r} : Steady(q)
<1>1. req'[r] = row /\ \A q \in RequestIds \ {r} : req'[q] = req[q]
  BY DEF TypeOK
<1> QED BY <1>1, SameRowSteady

\* finish, finish_terminal_flow and the sweeps of recovery give leases up.
LEMMA GivesLeasesUp ==
    ASSUME IInv, \A q \in RequestIds : LaterStep(q),
           \/ \E h \in handles : Finish(h) \/ FinishTerminalFlow(h)
           \/ RecoverExpired \/ Restart
    PROVE  \E R \in SUBSET ActiveLeases : Settled(R)
<1>1. TypeOK /\ \A q \in RequestIds : SameIdentity(q)
  BY LaterFacts, Zenon DEF IInv, QueueInv
<1>2. ASSUME NEW h \in handles, Finish(h) \/ FinishTerminalFlow(h)
      PROVE  \E R \in SUBSET ActiveLeases : Settled(R)
  <2>1. /\ h.request \in RequestIds /\ req[h.request] \in Row
        /\ req[h.request].result \in Results /\ h.request \in ActiveLeases
    <3>1. h.request \in RequestIds /\ req[h.request] \in Row
      BY <1>1, Zenon DEF TypeOK, Handle
    <3>2. Live(h)
      BY <1>2, Zenon DEF Finish, FinishAs, FinishTerminalFlow
    <3>3. req[h.request].result \in Results
      BY <3>1, Zenon DEF Row
    <3> QED BY <3>1, <3>2, <3>3, Zenon DEF Live, ActiveLeases
  <2> DEFINE r == h.request
  <2>2. PICK row : req' = [req EXCEPT ![r] = row] /\ row.state \in Terminal
    <3>1. {"succeeded", "failed", "cancelled"} \subseteq Terminal /\ Terminal \subseteq States
          /\ {"success", "failure"} \subseteq Results
      BY StateMembers DEF Terminal
    <3>2. ASSUME NEW s \in Terminal, NEW x \in Results, FinishAs(h, s, x)
          PROVE  \E row : req' = [req EXCEPT ![r] = row] /\ row.state \in Terminal
      <4>1. CASE req[r].state = "leased"
        <5>1. req' = [req EXCEPT ![r] = Finalized(req[r], s, x)]
          BY <3>2, <4>1, Zenon DEF FinishAs, Update
        <5>2. Finalized(req[r], s, x).state = s
          BY <2>1, <3>1, FinalizedRow
        <5> QED BY <5>1, <5>2, Zenon
      <4>2. CASE req[r].state # "leased"
        <5>1. req' = [req EXCEPT ![r] = Finalized(req[r], "cancelled", req[r].result)]
          BY <3>2, <4>2, Zenon DEF FinishAs, Update
        <5>2. "cancelled" \in States /\ "cancelled" \in Terminal
          BY <3>1, Zenon
        <5>3. Finalized(req[r], "cancelled", req[r].result).state = "cancelled"
          BY <2>1, <5>2, FinalizedRow
        <5> QED BY <5>1, <5>2, <5>3, Zenon
      <4> QED BY <4>1, <4>2, Zenon
    <3>3. CASE Finish(h)
      BY <3>1, <3>2, <3>3, Zenon DEF Finish
    <3>4. CASE FinishTerminalFlow(h)
      <4>1. req' = [req EXCEPT ![r] = EndedByFlow(r)]
        BY <3>4, Zenon DEF FinishTerminalFlow, Update
      <4>2. EndedByFlow(r).state \in Terminal
        BY <1>1, <2>1, EndedByFlowState, TerminalValues, Zenon
      <4> QED BY <4>1, <4>2, Zenon
    <3> QED BY <1>2, <3>3, <3>4, Zenon
  <2> HIDE DEF r
  <2>3. r \in RequestIds /\ {r} \in SUBSET ActiveLeases
    BY <2>1 DEF r
  <2>4. req'[r] = row /\ \A q \in RequestIds \ {r} : Steady(q)
    BY <1>1, <2>2, <2>3, OthersSteady, Zenon
  <2>5. Settled({r})
    BY <1>1, <2>2, <2>3, <2>4, Zenon DEF Settled
  <2> QED BY <2>3, <2>5, Zenon
<1>3. ASSUME NEW R \in SUBSET ActiveLeases, RecoverLeases(R) PROVE Settled(R)
  <2>1. R \subseteq RequestIds /\ \A r \in R : req[r].state \in Active
    BY Zenon DEF ActiveLeases
  <2>2. /\ \A r \in R : req'[r] = Recovered(r)
        /\ \A q \in RequestIds \ R : req'[q] = req[q]
    BY <1>3, <2>1, Zenon DEF RecoverLeases
  <2>3. \A r \in R : Recovered(r).state \in {"queued"} \cup Terminal
    BY <1>1, <2>1, RecoveredRow, Zenon
  <2> QED BY <1>1, <2>1, <2>2, <2>3, SameRowSteady, Zenon DEF Settled
<1>4. ExpiredLeases \in SUBSET ActiveLeases /\ ActiveLeases \in SUBSET ActiveLeases
  BY DEF ExpiredLeases
<1> QED BY <1>2, <1>3, <1>4, Zenon DEF RecoverExpired, Restart

\* cancel and the quarantine of a flow without authorization withdraw a waiting
\* request, give up the lease of one whose flow had ended, or mark it.
LEMMA CancelMoves ==
    ASSUME IInv, \A q \in RequestIds : LaterStep(q), NEW r \in RequestIds,
           Cancel(r) \/ FailCorruptFlowAuthorization(r)
    PROVE  Withdrawn(r) \/ \E R \in SUBSET ActiveLeases : Settled(R)
<1>1. TypeOK /\ req[r] \in Row /\ \A q \in RequestIds : SameIdentity(q)
  <2>1. TypeOK /\ \A q \in RequestIds : SameIdentity(q)
    BY LaterFacts, Zenon DEF IInv, QueueInv
  <2> QED BY <2>1, Zenon DEF TypeOK
<1>2. ASSUME NEW s \in {"failed", "cancelled"}, NEW x \in Results, req[r].state = "queued",
             req' = [req EXCEPT ![r] = Finalized(req[r], s, x)]
      PROVE  Withdrawn(r)
  <2>1. s \in States
    BY StateMembers DEF Terminal
  <2>2. Finalized(req[r], s, x).state = s
    BY <1>1, <2>1, FinalizedRow
  <2>3. req'[r] = Finalized(req[r], s, x) /\ \A q \in RequestIds \ {r} : Steady(q)
    BY <1>1, <1>2, OthersSteady, Zenon
  <2> QED BY <1>1, <1>2, <2>2, <2>3, Zenon DEF Withdrawn
<1>3. CASE req[r].state = "queued"
           /\ Update(r, Finalized(req[r], "cancelled", "cancellation"), "cancelled")
  <2>1. "cancellation" \in Results
    BY DEF Results
  <2> QED BY <1>2, <1>3, <2>1, Zenon DEF Update
<1>4. CASE FailCorruptFlowAuthorization(r)
  <2>1. "failure" \in Results
    BY DEF Results
  <2> QED BY <1>2, <1>4, <2>1, Zenon DEF Update, FailCorruptFlowAuthorization
<1>5. CASE req[r].state \in Active /\ FlowEnded(r)
           /\ Update(r, EndedByFlow(r), TerminalEvent(EndedByFlow(r).state))
  <2>1. EndedByFlow(r).state \in Terminal
    BY <1>1, EndedByFlowState, TerminalValues, Zenon
  <2>2. req'[r] = EndedByFlow(r) /\ \A q \in RequestIds \ {r} : Steady(q)
    BY <1>1, <1>5, OthersSteady, Zenon DEF Update
  <2>3. Settled({r})
    BY <1>1, <2>1, <2>2, Zenon DEF Settled
  <2>4. {r} \in SUBSET ActiveLeases
    BY <1>5 DEF ActiveLeases
  <2> QED BY <2>3, <2>4, Zenon
<1>6. CASE req[r].state = "leased" /\ ~FlowEnded(r)
           /\ Update(r, CancelMarked(req[r]), "cancellation_requested")
  <2>1. CancelMarked(req[r]).state = "cancellation_requested"
    BY <1>1, CancelMarkedRow, Zenon
  <2>2. req'[r] = CancelMarked(req[r]) /\ \A q \in RequestIds \ {r} : Steady(q)
    BY <1>1, <1>6, OthersSteady, Zenon DEF Update
  <2>3. Steady(r)
    BY <1>1, <1>6, <2>1, <2>2, Zenon DEF Steady, Active
  <2>4. Settled({})
    BY <2>2, <2>3, Zenon DEF Settled
  <2> QED BY <2>4, Zenon
<1> QED BY <1>3, <1>4, <1>5, <1>6, Zenon DEF Cancel

\* Every transaction accepts a request, claims one, withdraws one that waits, or
\* gives up some leases, possibly none.
LEMMA StoreMoves ==
    ASSUME IInv, [Next]_vars
    PROVE  \/ \E r \in RequestIds, p \in Projects, k \in Keys, o \in Ops : Accept(r, p, k, o)
           \/ \E r \in RequestIds : Claim(r) \/ Withdrawn(r)
           \/ \E R \in SUBSET ActiveLeases : Settled(R)
<1>1. \/ \E r \in RequestIds, p \in Projects, k \in Keys, o \in Ops : Accept(r, p, k, o)
      \/ \E r \in RequestIds : Claim(r)
      \/ \A q \in RequestIds : LaterStep(q)
  BY StepShape, Zenon
<1>2. SUFFICES ASSUME \A q \in RequestIds : LaterStep(q),
                      ~ \E r \in RequestIds, p \in Projects, k \in Keys, o \in Ops : Accept(r, p, k, o),
                      ~ \E r \in RequestIds : Claim(r)
               PROVE  \/ \E r \in RequestIds : Withdrawn(r)
                      \/ \E R \in SUBSET ActiveLeases : Settled(R)
  BY <1>1, Zenon
<1>3. ASSUME \A q \in RequestIds : Steady(q)
      PROVE  \E R \in SUBSET ActiveLeases : Settled(R)
  <2>1. Settled({})
    BY <1>3, Zenon DEF Settled
  <2> QED BY <2>1, Zenon
<1>4. CASE req' = req
  BY <1>3, <1>4, SameRowSteady, Zenon
<1>5. ASSUME NEW h \in handles, Renew(h) PROVE \E R \in SUBSET ActiveLeases : Settled(R)
  <2>1. TypeOK /\ h.request \in RequestIds /\ req[h.request] \in Row
    BY Zenon DEF IInv, QueueInv, TypeOK, Handle
  <2>2. req' = [req EXCEPT ![h.request] = Renewed(req[h.request])]
    BY <1>5, <2>1, Zenon DEF Renew, TypeOK
  <2>3. /\ req'[h.request] = Renewed(req[h.request])
        /\ \A q \in RequestIds \ {h.request} : Steady(q)
    BY <2>1, <2>2, OthersSteady, Zenon
  <2>4. Steady(h.request)
    BY <2>1, <2>3, RenewedRow, Zenon DEF Steady, SameIdentity
  <2> QED BY <1>3, <2>3, <2>4, Zenon
<1>6. CASE \E r \in RequestIds : Cancel(r) \/ FailCorruptFlowAuthorization(r)
  BY <1>2, <1>6, CancelMoves, Zenon
<1>7. CASE \/ \E h \in handles : Finish(h) \/ FinishTerminalFlow(h)
           \/ RecoverExpired \/ Restart
  BY <1>2, <1>7, GivesLeasesUp, Zenon
<1>8. CASE \/ \E h \in handles, s \in FlowSteps : SaveCheckpoint(h, s[2], s[3])
           \/ ResetAccess \/ ResetHistory \/ \E t \in 0 .. MaxTime : SetClock(t)
  <2>1. req' = req
    BY <1>8, Zenon DEF SaveCheckpoint, ResetAccess, ResetHistory, SetClock
  <2> QED BY <1>4, <2>1
<1>9. CASE UNCHANGED vars
  BY <1>4, <1>9, Zenon DEF vars
<1> QED BY <1>2, <1>5, <1>6, <1>7, <1>8, <1>9, Zenon DEF Next

-----------------------------------------------------------------------------
(* The mapping *)

\* The waiting requests of each project, as the mapping lists them.
Queued(p) == InProject(req, {"queued"}, p)
Ordered == \A p \in Projects : Enumerates(Waiting[p], Queued(p), req)

\* Lists of the waiting requests after a step are the queues after it.
LEMMA WaitingNext ==
    ASSUME TypeOK', NEW w, w = [p \in Projects |-> w[p]],
           \A p \in Projects : Enumerates(w[p], InProject(req', {"queued"}, p), req')
    PROVE  Waiting' = w /\ Ordered'
<1>1. ASSUME NEW p \in Projects
      PROVE  w[p] = ByPlace(req', InProject(req', {"queued"}, p))
  <2>1. \A r \in InProject(req', {"queued"}, p) : req'[r].seq \in Nat
    BY Zenon DEF InProject, TypeOK, Row
  <2> QED BY <2>1, PlacesAreUnique, Zenon
<1>2. Waiting' = [p \in Projects |-> ByPlace(req', InProject(req', {"queued"}, p))]
  BY Zenon DEF Waiting
<1>3. Waiting' = w
  BY <1>1, <1>2, Zenon
<1> QED BY <1>3, Zenon DEF Ordered, Queued

\* A project's running request is the one with its lease.
LEMMA RunningIs ==
    ASSUME IInv, NEW p \in Projects
    PROVE  \/ Running[p] = None /\ InProject(req, Active, p) = {}
           \/ /\ Running[p] \in RequestIds /\ Running[p] # None
              /\ InProject(req, Active, p) = {Running[p]}
<1> DEFINE A == InProject(req, Active, p)
<1>1. Running[p] = IF A = {} THEN None ELSE CHOOSE r \in A : TRUE
  BY Zenon DEF Running
<1>2. A \subseteq RequestIds /\ None \notin RequestIds
  BY StoreAssumption DEF InProject
<1>3. \A r, q \in A : r = q
  BY Zenon DEF IInv, QueueInv, OneActiveLeasePerProject, InProject, ActiveLeases, SameProject, Active
<1> HIDE DEF A
<1>4. CASE A = {}
  BY <1>1, <1>4 DEF A
<1>5. CASE A # {}
  <2>1. Running[p] \in A
    BY <1>1, <1>5, Zenon
  <2>2. A = {Running[p]}
    BY <1>3, <2>1, Zenon
  <2> QED BY <1>2, <2>1, <2>2, Zenon DEF A
<1> QED BY <1>4, <1>5

\* The running request after a step.
LEMMA RunningNext ==
    /\ Running = [p \in Projects |-> Running[p]]
    /\ Running' = [p \in Projects |-> Running'[p]]
    /\ \A p \in Projects :
         /\ InProject(req', Active, p) = {} => Running'[p] = None
         /\ \A r : InProject(req', Active, p) = {r} => Running'[p] = r
         /\ InProject(req', Active, p) = InProject(req, Active, p) => Running'[p] = Running[p]
<1>1. Running' = [p \in Projects |-> IF InProject(req', Active, p) = {} THEN None
                                     ELSE CHOOSE r \in InProject(req', Active, p) : TRUE]
  BY Zenon DEF Running
<1>2. \A p \in Projects : Running'[p] = IF InProject(req', Active, p) = {} THEN None
                                        ELSE CHOOSE r \in InProject(req', Active, p) : TRUE
  BY <1>1, Zenon
<1>3. \A p \in Projects : Running[p] = IF InProject(req, Active, p) = {} THEN None
                                       ELSE CHOOSE r \in InProject(req, Active, p) : TRUE
  BY Zenon DEF Running
<1>4. \A r : {r} # {} /\ (CHOOSE q \in {r} : TRUE) = r
  BY Zenon
<1>5. Running' = [p \in Projects |-> Running'[p]]
  BY <1>1, <1>2, Zenon
<1>6. Running = [p \in Projects |-> Running[p]]
  <2>1. Running = [p \in Projects |-> IF InProject(req, Active, p) = {} THEN None
                                      ELSE CHOOSE r \in InProject(req, Active, p) : TRUE]
    BY Zenon DEF Running
  <2> QED BY <1>3, <2>1, Zenon
<1>7. ASSUME NEW p \in Projects
      PROVE  /\ InProject(req', Active, p) = {} => Running'[p] = None
             /\ \A r : InProject(req', Active, p) = {r} => Running'[p] = r
             /\ InProject(req', Active, p) = InProject(req, Active, p) => Running'[p] = Running[p]
  <2>1. InProject(req', Active, p) = {} => Running'[p] = None
    BY <1>2, Zenon
  <2>2. ASSUME NEW r, InProject(req', Active, p) = {r} PROVE Running'[p] = r
    BY <1>2, <1>4, <2>2, Zenon
  <2>3. InProject(req', Active, p) = InProject(req, Active, p) => Running'[p] = Running[p]
    BY <1>2, <1>3, Zenon
  <2> QED BY <2>1, <2>2, <2>3, Zenon
<1> QED BY <1>5, <1>6, <1>7, Zenon

\* How each request ended, before and after a step.
LEMMA OutcomeNext ==
    /\ Outcome = [r \in RequestIds |-> Outcome[r]]
    /\ Outcome' = [r \in RequestIds |-> Outcome'[r]]
    /\ \A r \in RequestIds :
         /\ Outcome[r] = IF req[r].state \in Terminal THEN req[r].state ELSE "none"
         /\ Outcome'[r] = IF req'[r].state \in Terminal THEN req'[r].state ELSE "none"
<1>1. Outcome' = [r \in RequestIds |-> IF req'[r].state \in Terminal THEN req'[r].state ELSE "none"]
  BY Zenon DEF Outcome
<1>2. \A r \in RequestIds : Outcome'[r] = IF req'[r].state \in Terminal THEN req'[r].state ELSE "none"
  BY <1>1, Zenon
<1>3. \A r \in RequestIds : Outcome[r] = IF req[r].state \in Terminal THEN req[r].state ELSE "none"
  BY Zenon DEF Outcome
<1>4. Outcome' = [r \in RequestIds |-> Outcome'[r]]
  BY <1>1, <1>2, Zenon
<1>5. Outcome = [r \in RequestIds |-> Outcome[r]]
  BY Zenon DEF Outcome
<1> QED BY <1>2, <1>3, <1>4, <1>5, Zenon

\* What a waiting request is.
LEMMA WaitingIs ==
    ASSUME IInv, Ordered, NEW p \in Projects
    PROVE  /\ Waiting[p] \in Seq(RequestIds)
           /\ \A i \in 1 .. Len(Waiting[p]) : Waiting[p][i] \in Queued(p)
           /\ \A r \in Queued(p) : /\ r \in RequestIds /\ req[r].seq \in Nat /\ req[r].state = "queued"
                                   /\ req[r].project = p
           /\ Waiting = [x \in Projects |-> Waiting[x]]
<1>1. Waiting[p] \in Seq(Queued(p)) /\ \A i \in 1 .. Len(Waiting[p]) : Waiting[p][i] \in Queued(p)
  <2>1. Waiting[p] \in Seq(Queued(p))
    BY Zenon DEF Ordered, Enumerates
  <2> QED BY <2>1
<1>2. \A r \in Queued(p) : /\ r \in RequestIds /\ req[r].seq \in Nat /\ req[r].state = "queued"
                           /\ req[r].project = p
  BY Zenon DEF Queued, InProject, IInv, QueueInv, TypeOK, Row
<1>3. Waiting[p] \in Seq(RequestIds)
  BY <1>1, <1>2, ListOf, Zenon
<1>4. Waiting = [x \in Projects |-> Waiting[x]]
  BY Zenon DEF Waiting
<1> QED BY <1>1, <1>2, <1>3, <1>4, Zenon

-----------------------------------------------------------------------------
(* Each kind of transaction is a step of the abstract queues *)

\* accept submits a request to its project's queue.
LEMMA AcceptSubmits ==
    ASSUME IInv, TypeOK', Ordered, NEW r \in RequestIds, NEW p \in Projects, NEW k \in Keys,
           NEW o \in Ops, Accept(r, p, k, o)
    PROVE  Queue!Submit(r, p) /\ Ordered'
<1>1. /\ req[r].state = "absent" /\ nextSeq[p] \in Nat
      /\ req'[r].state = "queued" /\ req'[r].project = p /\ req'[r].seq = nextSeq[p]
      /\ \A q \in RequestIds \ {r} : req'[q] = req[q]
  <2>1. TypeOK /\ nextSeq[p] \in Nat /\ 1 + RowCount \in Nat
    BY RowCountType DEF IInv, QueueInv, TypeOK
  <2>2. /\ req'[r] = NewRow(p, k, o, nextSeq[p], 1 + RowCount)
        /\ \A q \in RequestIds \ {r} : req'[q] = req[q]
    BY AcceptStep, Zenon
  <2>3. LET new == NewRow(p, k, o, nextSeq[p], 1 + RowCount) IN
        new.state = "queued" /\ new.project = p /\ new.seq = nextSeq[p]
    BY <2>1, NewRowOperator
  <2> QED BY <2>1, <2>2, <2>3, Zenon DEF Accept
<1>2. \A q \in Queued(p) : q \in RequestIds /\ q # r /\ req[q].seq < nextSeq[p]
  <2>1. \A q \in Queued(p) : q \in RequestIds /\ req[q].state = "queued" /\ req[q].project = p
    BY WaitingIs, Zenon
  <2>2. \A q \in RequestIds : req[q].state = "queued" => req[q].seq < nextSeq[req[q].project]
    BY Zenon DEF IInv, QueueInv, RowShape, RowShapeOf
  <2> QED BY <1>1, <2>1, <2>2, Zenon
<1> DEFINE w == [Waiting EXCEPT ![p] = Append(@, r)]
<1>3. w = [x \in Projects |-> w[x]] /\ w[p] = Append(Waiting[p], r)
      /\ \A x \in Projects \ {p} : w[x] = Waiting[x]
  BY WaitingIs, Zenon
<1>4. /\ InProject(req', {"queued"}, p) = Queued(p) \cup {r}
      /\ \A x \in Projects \ {p} : InProject(req', {"queued"}, x) = Queued(x)
      /\ \A x \in Projects : InProject(req', Active, x) = InProject(req, Active, x)
  <2>1. "queued" \notin Active /\ "absent" \notin Active /\ "absent" # "queued"
    BY DEF Active
  <2> QED BY <1>1, <2>1 DEF InProject, Queued
<1> HIDE DEF w
<1>5. ASSUME NEW x \in Projects PROVE Enumerates(w[x], InProject(req', {"queued"}, x), req')
  <2>1. \A q \in Queued(x) : req'[q].seq = req[q].seq
    <3>1. "queued" # "absent"
      OBVIOUS
    <3>2. \A q \in Queued(x) : q \in RequestIds /\ q # r
      BY <1>1, <3>1, WaitingIs
    <3> QED BY <1>1, <3>2, Zenon
  <2>2. Enumerates(Waiting[x], Queued(x), req')
    BY <2>1, EnumeratesStill, Zenon DEF Ordered
  <2>3. CASE x = p
    <3>1. \A q \in Queued(p) : req'[q].seq < req'[r].seq
      BY <1>1, <1>2, Zenon
    <3>2. Enumerates(Append(Waiting[p], r), Queued(p) \cup {r}, req')
      BY <2>2, <2>3, <3>1, EnumeratesAppend, Zenon
    <3> QED BY <1>3, <1>4, <2>3, <3>2, Zenon
  <2>4. CASE x # p
    BY <1>3, <1>4, <2>2, <2>4, Zenon
  <2> QED BY <2>3, <2>4
<1>6. Waiting' = w /\ Ordered'
  BY <1>3, <1>5, WaitingNext, Zenon
<1>7. Running' = Running
  BY <1>4, RunningNext, Zenon
<1>8. Outcome' = Outcome /\ Outcome[r] = "none"
  <2>1. "queued" \notin Terminal /\ "absent" \notin Terminal
    BY DEF Terminal
  <2>2. \A q \in RequestIds : req'[q] = req[q] \/ (req[q].state \notin Terminal /\ req'[q].state \notin Terminal)
    <3>1. req[r].state \notin Terminal /\ req'[r].state \notin Terminal
      BY <1>1, <2>1
    <3>2. \A q \in RequestIds : q = r \/ req'[q] = req[q]
      BY <1>1, Zenon
    <3> QED BY <3>1, <3>2, Zenon
  <2>3. \A q \in RequestIds : Outcome'[q] = Outcome[q]
    BY <2>2, OutcomeNext, Zenon
  <2> QED BY <1>1, <2>1, <2>3, OutcomeNext, Zenon
<1>9. ASSUME NEW x \in Projects
      PROVE  Running[x] # r /\ \A i \in 1 .. Len(Waiting[x]) : Waiting[x][i] # r
  <2>1. "absent" \notin Active /\ "absent" # "queued"
    BY DEF Active
  <2>2. r \notin InProject(req, Active, x)
    BY <1>1, <2>1, Zenon DEF InProject
  <2>3. None # r
    BY StoreAssumption
  <2>4. Running[x] # r
    BY <2>2, <2>3, RunningIs, Zenon
  <2> QED BY <1>1, <2>1, <2>4, WaitingIs, Zenon
<1> QED BY <1>6, <1>7, <1>8, <1>9, Zenon DEF Queue!Submit, Queue!InQueue, w

\* claim starts the head of a queue whose project has no running request.
LEMMA ClaimStarts ==
    ASSUME IInv, TypeOK', Ordered, NEW r \in RequestIds, Claim(r)
    PROVE  \E p \in Projects : Queue!Start(p) /\ Ordered'
<1> DEFINE p == req[r].project
<1>1. /\ req[r].state = "queued" /\ req'[r].state = "leased" /\ SameIdentity(r)
      /\ \A q \in RequestIds \ {r} : req'[q] = req[q]
  BY ClaimStep, Zenon DEF Started
<1>2. p \in Projects
  <2>1. req[r].state # "absent"
    BY <1>1
  <2> QED BY <2>1, Zenon DEF IInv, QueueInv, RowShape, RowShapeOf
<1>3. \A q \in RequestIds : req[q].project = p =>
        req[q].state \notin Active /\ (req[q].state = "queued" => req[q].seq >= req[r].seq)
  BY Zenon DEF Claim, Candidate, Eligible, Unfinished
<1> HIDE DEF p
<1>4. InProject(req, Active, p) = {} /\ r \in Queued(p)
  BY <1>1, <1>3, Zenon DEF InProject, Queued, p
<1>5. \A q \in Queued(p) : req[q].seq \in Nat /\ req[r].seq <= req[q].seq
  <2>1. \A q \in Queued(p) : q \in RequestIds /\ req[q].seq \in Nat /\ req[q].state = "queued"
                             /\ req[q].project = p
    BY <1>2, WaitingIs, Zenon
  <2>2. \A q \in Queued(p) : req[q].seq >= req[r].seq
    BY <1>3, <2>1, Zenon
  <2> QED BY <1>4, <2>1, <2>2
<1>6. /\ Waiting[p] # <<>> /\ Head(Waiting[p]) = r
      /\ Enumerates(Tail(Waiting[p]), Queued(p) \ {r}, req)
  BY <1>2, <1>4, <1>5, EnumeratesTail, Zenon DEF Ordered
<1>7. /\ InProject(req', {"queued"}, p) = Queued(p) \ {r}
      /\ \A x \in Projects \ {p} : InProject(req', {"queued"}, x) = Queued(x)
      /\ InProject(req', Active, p) = {r}
      /\ \A x \in Projects \ {p} : InProject(req', Active, x) = InProject(req, Active, x)
  <2>1. "queued" \notin Active /\ "leased" \in Active /\ "leased" # "queued"
    BY DEF Active
  <2>2. req'[r].project = p /\ req[r].project = p
    BY <1>1 DEF SameIdentity, p
  <2> QED BY <1>1, <1>4, <2>1, <2>2 DEF InProject, Queued
<1> DEFINE w == [Waiting EXCEPT ![p] = Tail(@)]
<1>8. w = [x \in Projects |-> w[x]] /\ w[p] = Tail(Waiting[p])
      /\ \A x \in Projects \ {p} : w[x] = Waiting[x]
  BY <1>2, WaitingIs, Zenon
<1> HIDE DEF w
<1>9. ASSUME NEW x \in Projects PROVE Enumerates(w[x], InProject(req', {"queued"}, x), req')
  <2>1. \A q \in Queued(x) : req'[q].seq = req[q].seq
    BY <1>1, WaitingIs, Zenon DEF SameIdentity
  <2>2. CASE x = p
    <3>1. Enumerates(Tail(Waiting[p]), Queued(p) \ {r}, req')
      BY <1>6, <2>1, <2>2, EnumeratesStill, Zenon
    <3> QED BY <1>7, <1>8, <2>2, <3>1, Zenon
  <2>3. CASE x # p
    <3>1. Enumerates(Waiting[x], Queued(x), req')
      BY <2>1, EnumeratesStill, Zenon DEF Ordered
    <3> QED BY <1>7, <1>8, <2>3, <3>1, Zenon
  <2> QED BY <2>2, <2>3
<1>10. Waiting' = w /\ Ordered'
  BY <1>8, <1>9, WaitingNext, Zenon
<1>11. Running[p] = None
  BY <1>2, <1>4, RunningIs, Zenon
<1>12. Running' = [Running EXCEPT ![p] = Head(Waiting[p])]
  <2>1. Running'[p] = r /\ \A x \in Projects \ {p} : Running'[x] = Running[x]
    BY <1>2, <1>7, RunningNext, Zenon
  <2> QED BY <1>2, <1>6, <2>1, RunningNext, Zenon
<1>13. Outcome' = Outcome
  <2>1. "queued" \notin Terminal /\ "leased" \notin Terminal
    BY DEF Terminal
  <2>2. \A q \in RequestIds : req'[q] = req[q] \/ (req[q].state \notin Terminal /\ req'[q].state \notin Terminal)
    <3>1. req[r].state \notin Terminal /\ req'[r].state \notin Terminal
      BY <1>1, <2>1
    <3>2. \A q \in RequestIds : q = r \/ req'[q] = req[q]
      BY <1>1, Zenon
    <3> QED BY <3>1, <3>2, Zenon
  <2>3. \A q \in RequestIds : Outcome'[q] = Outcome[q]
    BY <2>2, OutcomeNext, Zenon
  <2> QED BY <2>3, OutcomeNext, Zenon
<1>14. Queue!Start(p)
  BY <1>6, <1>10, <1>11, <1>12, <1>13, Zenon DEF Queue!Start, w
<1> QED BY <1>2, <1>10, <1>14, Zenon

\* A steady request is where it was in the mapping too.
LEMMA SteadyFacts ==
    ASSUME NEW q \in RequestIds, Steady(q)
    PROVE  /\ req'[q].seq = req[q].seq /\ Outcome'[q] = Outcome[q]
           /\ \A x : /\ q \in InProject(req', {"queued"}, x) <=> q \in InProject(req, {"queued"}, x)
                     /\ q \in InProject(req', Active, x) <=> q \in InProject(req, Active, x)
<1>1. req'[q].seq = req[q].seq /\ req'[q].project = req[q].project
  BY DEF Steady, SameIdentity
<1>2. /\ req'[q].state = "queued" <=> req[q].state = "queued"
      /\ req'[q].state \in Active <=> req[q].state \in Active
  BY DEF Steady, Active
<1>3. Outcome'[q] = Outcome[q]
  <2>1. CASE req'[q].state = req[q].state
    BY <2>1, OutcomeNext, Zenon
  <2>2. CASE req[q].state \in Active /\ req'[q].state \in Active
    <3>1. req[q].state \notin Terminal /\ req'[q].state \notin Terminal
      BY <2>2 DEF Active, Terminal
    <3> QED BY <3>1, OutcomeNext, Zenon
  <2> QED BY <2>1, <2>2 DEF Steady
<1> QED BY <1>1, <1>2, <1>3, Zenon DEF InProject

\* cancel and the quarantine take a request out of the middle of its queue.
LEMMA WithdrawnWithdraws ==
    ASSUME IInv, TypeOK', Ordered, NEW r \in RequestIds, Withdrawn(r)
    PROVE  /\ Ordered'
           /\ \E p \in Projects : \E i \in 1 .. Len(Waiting[p]), end \in {"failed", "cancelled"} :
                Queue!Withdraw(p, i, end)
<1> DEFINE p == req[r].project
           end == req'[r].state
<1>1. /\ req[r].state = "queued" /\ end \in {"failed", "cancelled"} /\ req'[r].project = p
      /\ req'[r].seq = req[r].seq /\ \A q \in RequestIds \ {r} : Steady(q)
  BY Zenon DEF Withdrawn, SameIdentity
<1>2. p \in Projects /\ r \in Queued(p)
  <2>1. req[r].state # "absent"
    BY <1>1
  <2>2. p \in Projects
    BY <2>1, Zenon DEF IInv, QueueInv, RowShape, RowShapeOf
  <2> QED BY <1>1, <2>2, Zenon DEF Queued, InProject
<1>3. /\ end \in Terminal /\ end # "queued" /\ end \notin Active
      /\ req[r].state \notin Active
  BY <1>1 DEF Terminal, Active
<1> HIDE DEF p, end
<1>4. PICK i \in 1 .. Len(Waiting[p]) : Waiting[p][i] = r
  BY <1>2, Zenon DEF Ordered, Enumerates
<1> DEFINE left == SubSeq(Waiting[p], 1, i - 1) \o SubSeq(Waiting[p], i + 1, Len(Waiting[p]))
           w == [Waiting EXCEPT ![p] = left]
<1>5. /\ InProject(req', {"queued"}, p) = Queued(p) \ {r}
      /\ \A x \in Projects \ {p} : InProject(req', {"queued"}, x) = Queued(x)
      /\ \A x \in Projects : InProject(req', Active, x) = InProject(req, Active, x)
  <2>1. \A x : InProject(req', {"queued"}, x) \subseteq RequestIds
               /\ Queued(x) \subseteq RequestIds
               /\ InProject(req', Active, x) \subseteq RequestIds
               /\ InProject(req, Active, x) \subseteq RequestIds
    BY Zenon DEF InProject, Queued
  <2>2. \A x : \A q \in RequestIds \ {r} :
          /\ q \in InProject(req', {"queued"}, x) <=> q \in Queued(x)
          /\ q \in InProject(req', Active, x) <=> q \in InProject(req, Active, x)
    BY <1>1, SteadyFacts, Zenon DEF Queued
  <2>3. \A x : /\ r \notin InProject(req', {"queued"}, x) /\ r \notin InProject(req', Active, x)
               /\ r \notin InProject(req, Active, x) /\ (r \in Queued(x) => x = p)
    BY <1>3, Zenon DEF InProject, Queued, end, p
  <2>4. ASSUME NEW x \in Projects PROVE InProject(req', Active, x) = InProject(req, Active, x)
    <3>1. \A q : q \in InProject(req', Active, x) <=> q \in InProject(req, Active, x)
      BY <2>1, <2>2, <2>3, Zenon
    <3> QED BY <3>1, Zenon
  <2>5. ASSUME NEW x \in Projects \ {p} PROVE InProject(req', {"queued"}, x) = Queued(x)
    <3>1. r \notin InProject(req', {"queued"}, x) /\ r \notin Queued(x)
      BY <2>3, Zenon
    <3>2. \A q \in RequestIds \ {r} : q \in InProject(req', {"queued"}, x) <=> q \in Queued(x)
      BY <2>2, Zenon
    <3>3. \A q : q \in InProject(req', {"queued"}, x) <=> q \in Queued(x)
      BY <2>1, <3>1, <3>2, Zenon
    <3> QED BY <3>3, Zenon
  <2>6. InProject(req', {"queued"}, p) = Queued(p) \ {r}
    <3>1. r \notin InProject(req', {"queued"}, p)
      BY <2>3, Zenon
    <3>2. \A q \in RequestIds \ {r} : q \in InProject(req', {"queued"}, p) <=> q \in Queued(p)
      BY <2>2, Zenon
    <3> QED BY <2>1, <3>1, <3>2, Zenon
  <2> QED BY <2>4, <2>5, <2>6, Zenon
<1>6. \A q \in RequestIds : req'[q].seq = req[q].seq
  BY <1>1, SteadyFacts, Zenon
<1> HIDE DEF left
<1>7. w = [x \in Projects |-> w[x]] /\ w[p] = left /\ \A x \in Projects \ {p} : w[x] = Waiting[x]
  BY <1>2, WaitingIs, Zenon
<1> HIDE DEF w
<1>8. ASSUME NEW x \in Projects PROVE Enumerates(w[x], InProject(req', {"queued"}, x), req')
  <2>1. \A q \in Queued(x) : req[q].seq \in Nat /\ req'[q].seq = req[q].seq
    BY <1>6, WaitingIs, Zenon
  <2>2. CASE x = p
    <3>1. Enumerates(left, Queued(p) \ {r}, req)
      BY <1>2, <1>4, <2>1, <2>2, EnumeratesWithout, Zenon DEF Ordered, left
    <3>2. Enumerates(left, Queued(p) \ {r}, req')
      BY <2>1, <2>2, <3>1, EnumeratesStill, Zenon
    <3> QED BY <1>5, <1>7, <2>2, <3>2, Zenon
  <2>3. CASE x # p
    <3>1. Enumerates(Waiting[x], Queued(x), req')
      BY <2>1, EnumeratesStill, Zenon DEF Ordered
    <3> QED BY <1>5, <1>7, <2>3, <3>1, Zenon
  <2> QED BY <2>2, <2>3
<1>9. Waiting' = w /\ Ordered'
  BY <1>7, <1>8, WaitingNext, Zenon
<1>10. Running' = Running
  BY <1>5, RunningNext, Zenon
<1>11. Outcome' = [Outcome EXCEPT ![Waiting[p][i]] = end]
  <2>1. Outcome'[r] = end
    BY <1>3, OutcomeNext, Zenon DEF end
  <2>2. \A q \in RequestIds \ {r} : Outcome'[q] = Outcome[q]
    BY <1>1, SteadyFacts, Zenon
  <2>3. Outcome' = [Outcome EXCEPT ![r] = end]
    BY <2>1, <2>2, OutcomeNext, Zenon
  <2> QED BY <1>4, <2>3
<1>12. Queue!Withdraw(p, i, end)
  BY <1>2, <1>9, <1>10, <1>11, WaitingIs, Zenon DEF Queue!Withdraw, w, left
<1> QED BY <1>1, <1>2, <1>9, <1>12, Zenon

\* A request with a lease is ahead of all that wait in its project.
LEMMA LeasedIsFirst ==
    ASSUME IInv, NEW r \in ActiveLeases, NEW q \in Queued(req[r].project)
    PROVE  req[r].seq < req[q].seq
<1>1. r \in RequestIds /\ req[r].state \in Active /\ q \in RequestIds
      /\ req[q].state = "queued" /\ req[q].project = req[r].project
  BY Zenon DEF ActiveLeases, Queued, InProject
<1>2. req[r].attempt > 0 /\ req[r].seq \in Nat /\ req[q].seq \in Nat
  BY <1>1, Zenon DEF IInv, QueueInv, RowShape, RowShapeOf, TypeOK, Row
<1>3. q # r /\ req[q].state # "absent" /\ req[q].state \notin Terminal
  BY <1>1 DEF Active, Terminal
<1>4. SameProject(q, r)
  BY <1>1, <1>3, Zenon DEF SameProject
<1>5. ~(req[q].seq < req[r].seq)
  BY <1>1, <1>2, <1>3, <1>4, Zenon DEF IInv, QueueInv, StartedInOrder
<1>6. req[q].seq # req[r].seq
  BY <1>1, <1>3, <1>4, Zenon DEF IInv, QueueInv, IdempotentAcceptance
<1> QED BY <1>2, <1>5, <1>6

\* The projects that give a lease up, and what becomes of their running requests.
Giving(R) == {x \in Projects : \E r \in R : req[r].project = x}
Fate(R) ==
    [x \in Giving(R) |-> IF req'[Running[x]].state = "queued" THEN "requeued" ELSE req'[Running[x]].state]

\* The running requests of the projects that give a lease up are those of the leases.
LEMMA GivingFacts ==
    ASSUME IInv, NEW R \in SUBSET ActiveLeases
    PROVE  /\ \A r \in R : /\ r \in RequestIds /\ req[r].state \in Active
                           /\ req[r].project \in Giving(R) /\ Running[req[r].project] = r
           /\ \A x \in Giving(R) : /\ x \in Projects /\ Running[x] \in R /\ Running[x] # None
                                   /\ req[Running[x]].project = x
                                   /\ InProject(req, Active, x) = {Running[x]}
<1>1. \A r \in R : r \in RequestIds /\ req[r].state \in Active
  BY Zenon DEF ActiveLeases
<1>2. ASSUME NEW r \in R
      PROVE  /\ req[r].project \in Projects /\ req[r].project \in Giving(R)
             /\ Running[req[r].project] = r /\ r # None
             /\ InProject(req, Active, req[r].project) = {r}
  <2>1. req[r].state # "absent"
    BY <1>1 DEF Active
  <2>2. req[r].project \in Projects
    BY <1>1, <2>1, Zenon DEF IInv, QueueInv, RowShape, RowShapeOf
  <2>3. r \in InProject(req, Active, req[r].project)
    BY <1>1, Zenon DEF InProject
  <2>4. /\ Running[req[r].project] = r /\ r # None
        /\ InProject(req, Active, req[r].project) = {r}
    BY <2>2, <2>3, RunningIs, Zenon
  <2> QED BY <2>2, <2>4, Zenon DEF Giving
<1>3. ASSUME NEW x \in Giving(R)
      PROVE  /\ x \in Projects /\ Running[x] \in R /\ Running[x] # None
             /\ req[Running[x]].project = x /\ InProject(req, Active, x) = {Running[x]}
  <2>1. x \in Projects /\ \E r \in R : req[r].project = x
    BY Zenon DEF Giving
  <2>2. PICK r \in R : req[r].project = x
    BY <2>1, Zenon
  <2> QED BY <1>2, <2>1, <2>2, Zenon
<1> QED BY <1>1, <1>2, <1>3, Zenon

\* The queues after leases are given up: those that are not ended come first again.
LEMMA SettledQueues ==
    ASSUME IInv, TypeOK', Ordered, NEW R \in SUBSET ActiveLeases, Settled(R)
    PROVE  /\ Ordered'
           /\ Waiting' = [x \in Projects |->
                            IF x \in Giving(R) /\ Fate(R)[x] = "requeued"
                            THEN <<Running[x]>> \o Waiting[x] ELSE Waiting[x]]
<1> DEFINE Back(x) == x \in Giving(R) /\ Fate(R)[x] = "requeued"
           w == [x \in Projects |-> IF Back(x) THEN <<Running[x]>> \o Waiting[x] ELSE Waiting[x]]
<1>1. /\ \A r \in R : /\ r \in RequestIds /\ req[r].state \in Active
                      /\ req[r].project \in Giving(R) /\ Running[req[r].project] = r
      /\ \A x \in Giving(R) : /\ x \in Projects /\ Running[x] \in R /\ Running[x] # None
                              /\ req[Running[x]].project = x
                              /\ InProject(req, Active, x) = {Running[x]}
  BY GivingFacts, Zenon
<1>2. /\ \A r \in R : /\ req'[r].state \in {"queued"} \cup Terminal
                      /\ req'[r].project = req[r].project /\ req'[r].seq = req[r].seq
      /\ \A q \in RequestIds \ R : Steady(q)
  BY Zenon DEF Settled, SameIdentity
<1>3. \A x \in Giving(R) : Fate(R)[x] = "requeued" <=> req'[Running[x]].state = "queued"
  <2> TAKE x \in Giving(R)
  <2>1. req'[Running[x]].state \in {"queued"} \cup Terminal
    BY <1>1, <1>2, Zenon
  <2>2. Fate(R)[x] = IF req'[Running[x]].state = "queued" THEN "requeued" ELSE req'[Running[x]].state
    BY Zenon DEF Fate
  <2>3. "requeued" \notin Terminal
    BY DEF Terminal
  <2> QED BY <2>1, <2>2, <2>3, Zenon
<1>4. ASSUME NEW x \in Projects, NEW q
      PROVE  q \in InProject(req', {"queued"}, x) <=> q \in Queued(x) \/ (Back(x) /\ q = Running[x])
  <2>1. q \notin RequestIds => q \notin InProject(req', {"queued"}, x) /\ q \notin Queued(x)
    BY Zenon DEF InProject, Queued
  <2>2. Back(x) => Running[x] \in R /\ Running[x] \in RequestIds
    BY <1>1, Zenon
  <2>3. CASE q \in RequestIds \ R
    <3>1. q \in InProject(req', {"queued"}, x) <=> q \in Queued(x)
      BY <1>2, <2>3, SteadyFacts, Zenon DEF Queued
    <3> QED BY <2>2, <2>3, <3>1, Zenon
  <2>4. CASE q \in R
    <3>1. q \notin Queued(x)
      <4>1. req[q].state # "queued"
        BY <1>1, <2>4 DEF Active
      <4> QED BY <4>1, Zenon DEF Queued, InProject
    <3>2. q \in InProject(req', {"queued"}, x) <=> req'[q].state = "queued" /\ req[q].project = x
      BY <1>1, <1>2, <2>4, Zenon DEF InProject
    <3>3. Back(x) /\ q = Running[x] => req'[q].state = "queued" /\ req[q].project = x
      BY <1>1, <1>3, Zenon
    <3>4. ASSUME req'[q].state = "queued", req[q].project = x PROVE Back(x) /\ q = Running[x]
      <4>1. x \in Giving(R) /\ Running[x] = q
        BY <1>1, <2>4, <3>4, Zenon
      <4>2. req'[Running[x]].state = "queued"
        BY <3>4, <4>1, Zenon
      <4> QED BY <1>3, <4>1, <4>2, Zenon
    <3> QED BY <3>1, <3>2, <3>3, <3>4, Zenon
  <2> QED BY <2>1, <2>2, <2>3, <2>4, Zenon
<1> HIDE DEF Back
<1>5. ASSUME NEW x \in Projects PROVE Enumerates(w[x], InProject(req', {"queued"}, x), req')
  <2>1. \A q \in Queued(x) : req'[q].seq = req[q].seq
    BY <1>2, SteadyFacts, WaitingIs, Zenon
  <2>2. Enumerates(Waiting[x], Queued(x), req')
    BY <2>1, EnumeratesStill, Zenon DEF Ordered
  <2>3. CASE Back(x)
    <3>1. Running[x] \in R /\ req[Running[x]].project = x /\ req'[Running[x]].seq = req[Running[x]].seq
      BY <1>1, <1>2, <2>3, Zenon DEF Back
    <3>2. \A q \in Queued(x) : req'[Running[x]].seq < req'[q].seq
      BY <2>1, <3>1, LeasedIsFirst, Zenon
    <3>3. Enumerates(<<Running[x]>> \o Waiting[x], Queued(x) \cup {Running[x]}, req')
      BY <2>2, <3>2, EnumeratesPrepend, Zenon
    <3>4. InProject(req', {"queued"}, x) = Queued(x) \cup {Running[x]}
      BY <1>4, <2>3, Zenon
    <3> QED BY <2>3, <3>3, <3>4, Zenon
  <2>4. CASE ~Back(x)
    <3>1. InProject(req', {"queued"}, x) = Queued(x)
      BY <1>4, <2>4, Zenon
    <3> QED BY <2>2, <2>4, <3>1, Zenon
  <2> QED BY <2>3, <2>4
<1>6. w = [x \in Projects |-> w[x]]
  BY Zenon
<1> HIDE DEF w
<1>7. Waiting' = w /\ Ordered'
  BY <1>5, <1>6, WaitingNext, Zenon
<1> QED BY <1>7, Zenon DEF w, Back

\* recovery, finish and the end of a flow stop the workers of some projects.
LEMMA SettledSettles ==
    ASSUME IInv, TypeOK', Ordered, NEW R \in SUBSET ActiveLeases, Settled(R)
    PROVE  /\ Ordered'
           /\ \E P \in SUBSET Projects : \E fate \in [P -> Queue!Ends \cup {"requeued"}] :
                Queue!Settle(fate)
<1> DEFINE P == Giving(R)
           fate == Fate(R)
<1>1. /\ \A r \in R : /\ r \in RequestIds /\ req[r].state \in Active
                      /\ req[r].project \in P /\ Running[req[r].project] = r
      /\ \A x \in P : /\ x \in Projects /\ Running[x] \in R /\ Running[x] # None
                      /\ req[Running[x]].project = x
                      /\ InProject(req, Active, x) = {Running[x]}
  BY GivingFacts, Zenon
<1>2. /\ \A r \in R : /\ req'[r].state \in {"queued"} \cup Terminal
                      /\ req'[r].project = req[r].project
      /\ \A q \in RequestIds \ R : Steady(q)
  BY Zenon DEF Settled, SameIdentity
<1>3. DOMAIN fate = P
      /\ \A x \in P : fate[x] = IF req'[Running[x]].state = "queued" THEN "requeued"
                                ELSE req'[Running[x]].state
  BY Zenon DEF Fate
<1>4. /\ "requeued" \notin Terminal /\ "queued" \notin Terminal /\ "queued" \notin Active
      /\ Terminal \subseteq Queue!Ends /\ \A s \in Terminal : s \notin Active
      /\ \A s \in Active : s \notin Terminal
  BY DEF Terminal, Active, Queue!Ends
<1>5. P \in SUBSET Projects /\ fate \in [P -> Queue!Ends \cup {"requeued"}]
  <2>1. \A x \in P : fate[x] \in Queue!Ends \cup {"requeued"}
    <3> TAKE x \in P
    <3>1. req'[Running[x]].state \in {"queued"} \cup Terminal
      BY <1>1, <1>2, Zenon
    <3> QED BY <1>3, <1>4, <3>1, Zenon
  <2>2. fate = [x \in P |-> fate[x]]
    BY <1>3, Zenon DEF Fate
  <2>3. P \in SUBSET Projects
    BY <1>1, Zenon
  <2> QED BY <2>1, <2>2, <2>3, Zenon
<1> HIDE DEF P, fate
<1>6. Running' = [x \in Projects |-> IF x \in P THEN None ELSE Running[x]]
  <2>1. \A r \in R : req'[r].state \notin Active
    BY <1>2, <1>4, Zenon
  <2>2. ASSUME NEW x \in P PROVE Running'[x] = None
    <3>1. ASSUME NEW q \in InProject(req', Active, x) PROVE FALSE
      <4>1. q \in RequestIds /\ q \notin R
        BY <2>1, <3>1, Zenon DEF InProject
      <4>2. q \in InProject(req, Active, x)
        BY <1>2, <3>1, <4>1, SteadyFacts, Zenon
      <4>3. InProject(req, Active, x) = {Running[x]} /\ Running[x] \in R
        BY <1>1, Zenon
      <4>4. q = Running[x]
        BY <4>2, <4>3, Zenon
      <4> QED BY <4>1, <4>3, <4>4, Zenon
    <3>2. InProject(req', Active, x) = {}
      BY <3>1, Zenon
    <3> QED BY <1>1, <3>2, RunningNext, Zenon
  <2>3. ASSUME NEW x \in Projects \ P PROVE Running'[x] = Running[x]
    <3>1. \A q \in RequestIds \ R : q \in InProject(req', Active, x) <=> q \in InProject(req, Active, x)
      BY <1>2, SteadyFacts, Zenon
    <3>2. \A q \in R : q \notin InProject(req', Active, x) /\ q \notin InProject(req, Active, x)
      <4>1. \A q \in R : req[q].project # x
        BY <1>1, <2>3, Zenon
      <4> QED BY <2>1, <4>1, Zenon DEF InProject
    <3>3. \A q : q \in InProject(req', Active, x) \/ q \in InProject(req, Active, x) => q \in RequestIds
      BY Zenon DEF InProject
    <3>4. \A q : q \in InProject(req', Active, x) <=> q \in InProject(req, Active, x)
      BY <3>1, <3>2, <3>3, Zenon
    <3>5. InProject(req', Active, x) = InProject(req, Active, x)
      BY <3>4, Zenon
    <3> QED BY <3>5, RunningNext, Zenon
  <2>4. \A x \in Projects : Running'[x] = IF x \in P THEN None ELSE Running[x]
    BY <2>2, <2>3, Zenon
  <2> QED BY <2>4, RunningNext, Zenon
<1>7. ASSUME NEW r \in RequestIds
      PROVE  Outcome'[r] = IF \E x \in P : Running[x] = r /\ fate[x] # "requeued"
                           THEN fate[CHOOSE x \in P : Running[x] = r] ELSE Outcome[r]
  <2>1. CASE r \in R
    <3>1. \A x \in P : Running[x] = r <=> x = req[r].project
      BY <1>1, <2>1, Zenon
    <3>2. req[r].project \in P /\ Running[req[r].project] = r
      BY <1>1, <2>1, Zenon
    <3>3. (CHOOSE x \in P : Running[x] = r) = req[r].project
      BY <3>1, <3>2, Zenon
    <3>4. fate[req[r].project] = IF req'[r].state = "queued" THEN "requeued" ELSE req'[r].state
      BY <1>3, <3>2, Zenon
    <3>5. (\E x \in P : Running[x] = r /\ fate[x] # "requeued") <=> fate[req[r].project] # "requeued"
      BY <3>1, <3>2, Zenon
    <3>6. Outcome[r] = "none"
      BY <1>1, <1>4, <2>1, OutcomeNext, Zenon
    <3>7. CASE req'[r].state = "queued"
      <4>1. Outcome'[r] = "none" /\ fate[req[r].project] = "requeued"
        BY <1>4, <3>4, <3>7, OutcomeNext, Zenon
      <4> QED BY <3>5, <3>6, <4>1, Zenon
    <3>8. CASE req'[r].state \in Terminal
      <4>1. req'[r].state # "queued" /\ req'[r].state # "requeued"
        BY <1>4, <3>8, Zenon
      <4>2. Outcome'[r] = req'[r].state /\ fate[req[r].project] = req'[r].state
        BY <3>4, <3>8, <4>1, OutcomeNext, Zenon
      <4> QED BY <3>3, <3>5, <4>1, <4>2, Zenon
    <3> QED BY <1>2, <2>1, <3>7, <3>8, Zenon
  <2>2. CASE r \notin R
    <3>1. ~ \E x \in P : Running[x] = r /\ fate[x] # "requeued"
      BY <1>1, <2>2, Zenon
    <3>2. Outcome'[r] = Outcome[r]
      BY <1>2, <2>2, SteadyFacts, Zenon
    <3> QED BY <3>1, <3>2, Zenon
  <2> QED BY <2>1, <2>2
<1>8. Outcome' = [r \in RequestIds |-> IF \E x \in P : Running[x] = r /\ fate[x] # "requeued"
                                       THEN fate[CHOOSE x \in P : Running[x] = r] ELSE Outcome[r]]
  BY <1>7, OutcomeNext, Zenon
<1>9. /\ Ordered'
      /\ Waiting' = [x \in Projects |-> IF x \in P /\ fate[x] = "requeued"
                                        THEN <<Running[x]>> \o Waiting[x] ELSE Waiting[x]]
  BY SettledQueues, Zenon DEF P, fate
<1>10. Queue!Settle(fate)
  <2>1. \A x \in P : Running[x] # None
    BY <1>1, Zenon
  <2>2. P = DOMAIN fate
    BY <1>3
  <2> QED BY <1>6, <1>8, <1>9, <2>1, <2>2 DEF Queue!Settle
<1> QED BY <1>5, <1>9, <1>10, Zenon

\* The empty tables are the empty queues.
LEMMA EmptyQueues == Init => Queue!Init /\ Ordered
<1> SUFFICES ASSUME Init PROVE Queue!Init /\ Ordered
  OBVIOUS
<1>1. \A r \in RequestIds : req[r].state = "absent"
  BY DEF Init, NoRow
<1>2. "absent" \notin Terminal \cup Active \cup {"queued"}
  BY DEF Terminal, Active
<1>3. \A p : InProject(req, {"queued"}, p) = {} /\ InProject(req, Active, p) = {}
  BY <1>1, <1>2, Zenon DEF InProject
<1>4. \A p \in Projects : Waiting[p] = <<>>
  <2>1. ByPlace(req, {}) = <<>>
    BY FS_EmptySet DEF ByPlace
  <2> QED BY <1>3, <2>1, Zenon DEF Waiting
<1>5. Waiting = [p \in Projects |-> <<>>]
  BY <1>4, Zenon DEF Waiting
<1>6. Running = [p \in Projects |-> None]
  BY <1>3, Zenon DEF Running
<1>7. Outcome = [r \in RequestIds |-> "none"]
  <2>1. \A r \in RequestIds : req[r].state \notin Terminal
    BY <1>1, <1>2, Zenon
  <2> QED BY <2>1, Zenon DEF Outcome
<1>8. Ordered
  BY <1>3, <1>4, EnumeratesNothing, Zenon DEF Ordered, Queued
<1> QED BY <1>5, <1>6, <1>7, <1>8, Zenon DEF Queue!Init

\* Every transaction is a step of the abstract queues or leaves them alone.
LEMMA QueueStep ==
    ASSUME IInv, IInv', Ordered, [Next]_vars
    PROVE  [Queue!Next]_(Queue!vars) /\ Ordered'
<1>1. TypeOK'
  BY Zenon DEF IInv, QueueInv
<1>2. ASSUME NEW r \in RequestIds, NEW p \in Projects, NEW k \in Keys, NEW o \in Ops, Accept(r, p, k, o)
      PROVE  Queue!Next /\ Ordered'
  BY <1>1, <1>2, AcceptSubmits, Zenon DEF Queue!Next
<1>3. ASSUME NEW r \in RequestIds, Claim(r) PROVE Queue!Next /\ Ordered'
  BY <1>1, <1>3, ClaimStarts, Zenon DEF Queue!Next
<1>4. ASSUME NEW r \in RequestIds, Withdrawn(r) PROVE Queue!Next /\ Ordered'
  BY <1>1, <1>4, WithdrawnWithdraws, Zenon DEF Queue!Next
<1>5. ASSUME NEW R \in SUBSET ActiveLeases, Settled(R) PROVE Queue!Next /\ Ordered'
  BY <1>1, <1>5, SettledSettles, Zenon DEF Queue!Next
<1> QED BY <1>2, <1>3, <1>4, <1>5, StoreMoves, Zenon

\* The request store implements a first-in first-out queue per project, served
\* by one worker at a time: each of its transactions is one step of those
\* queues, whatever the number of requests, projects, keys and leases
\* (accept, claim, recover_leases, finish, cancel).
THEOREM StoreImplementsQueues == Spec => ImplementsProjectQueue
<1>1. Init => Queue!Init /\ Ordered
  BY EmptyQueues
<1>2. IInv /\ IInv' /\ Ordered /\ [Next]_vars => [Queue!Next]_(Queue!vars) /\ Ordered'
  BY QueueStep
<1>3. Spec => []IInv
  BY StoreInvariant
<1> QED BY <1>1, <1>2, <1>3, PTL DEF Spec, ImplementsProjectQueue, Queue!Spec

=============================================================================
