------------------------ MODULE EvidenceStoreProofs ------------------------
(*****************************************************************************)
(* Proofs about the evidence store. EvidenceInv is the inductive invariant:  *)
(* beside the two properties of the bytes it says what a put in progress     *)
(* rests on (its intent, its temporary, its row), what a purge has left      *)
(* behind it, and what a reset that cleared the store may still find. It     *)
(* holds although a put, a prune and a purge of several processes interleave *)
(* and any of them may die between two steps, because only the daemon puts   *)
(* and purges, one command at a time.                                        *)
(*****************************************************************************)
EXTENDS EvidenceStore, FiniteSetTheorems, TLAPS

\* The stages of a prune or a purge after its handles are deleted.
PruneStages == {"select_intents", "intents", "select_blobs", "blobs"}

\* The command a worker is running.
Command ==
    [pc : {"idle"} \cup PutStages \cup PruneStages, key : Keys \cup {None}, row : Row \cup {None},
     attempt : 0 .. MaxPuts, todo : SUBSET (Digests \cup 1 .. MaxPuts), more : BOOLEAN,
     purge : BOOLEAN]

\* The types of the tables, of the files on disk and of the workers.
TypeOK ==
    /\ handles \in [Keys -> Row \cup {None}]
    /\ blobRows \in SUBSET Digests /\ files \in SUBSET Digests /\ outlived \in SUBSET Digests
    /\ attempts \in 0 .. MaxPuts
    /\ intents \in SUBSET (1 .. attempts) /\ stale \in SUBSET (1 .. attempts)
    /\ temps \in SUBSET (1 .. attempts)
    /\ digestOf \in [1 .. MaxPuts -> Digests \cup {None}]
    /\ worker \in [Workers -> Command]
    /\ reset \in [state : {"off", "running", "cleared", "exhausted", "refused", "lost"}, rounds : Nat,
                  doomed : SUBSET Keys, fresh : SUBSET Digests]

\* What a running put of worker w rests on: it is the daemon's, its intent is on
\* record and fresh or has been outlived, it has no temporary but while it
\* installs, and once published its blob file has a row.
PutFits(w, c) ==
    c.pc \in PutStages =>
        /\ w = Daemon /\ c.key \in Keys /\ c.row \in Row
        /\ c.attempt \in 1 .. attempts /\ digestOf[c.attempt] = c.row.digest
        /\ c.attempt \in intents \ stale \/ c.row.digest \in outlived
        /\ c.pc \in {"install", "commit", "clear"} => c.attempt \notin temps
        /\ c.pc = "clear" => c.row.digest \in blobRows \/ c.row.digest \notin files

\* A purge is the daemon's, and one that has left nothing so far has every handle
\* behind it and every remaining blob row before it.
PurgeFits(w, c) ==
    c.purge =>
        /\ w = Daemon /\ c.pc \in PruneStages
        /\ ~c.more => Present = {} /\ (c.pc = "blobs" => blobRows \subseteq c.todo)

\* Since the reset cleared the store, only rows put meanwhile are there.
ClearedIsEmpty ==
    reset.state = "cleared" => blobRows \subseteq reset.fresh /\ reset.doomed \cap Present = {}

\* The inductive invariant.
EvidenceInv ==
    /\ TypeOK
    /\ IsFiniteSet(blobRows)
    /\ HandleHasBlob
    /\ OrphanDiscoverable
    /\ \A w \in Workers : PutFits(w, worker[w]) /\ PurgeFits(w, worker[w])
    /\ ClearedIsEmpty

-----------------------------------------------------------------------------
\* A worker's command is one, and so is being idle.
LEMMA CommandFacts ==
    ASSUME TypeOK, NEW w \in Workers
    PROVE  /\ worker[w] \in Command /\ Idle \in Command
           /\ Idle.pc = "idle" /\ Idle.purge = FALSE
<1>1. worker[w] \in Command
  BY DEF TypeOK
<1>2. Idle \in Command
  <2>1. 0 \in 0 .. MaxPuts
    BY EvidenceAssumption
  <2> QED
    BY <2>1 DEF Idle, Command
<1> QED
  BY <1>1, <1>2 DEF Idle

\* A worker's command is replaced; whatever else changes must keep what the other
\* workers rest on.
LEMMA CommandUpdate ==
    ASSUME EvidenceInv, NEW w \in Workers, NEW c \in Command, worker' = [worker EXCEPT ![w] = c],
           PutFits(w, c)', PurgeFits(w, c)',
           \A v \in Workers \ {w}, d \in Command :
               PutFits(v, d) /\ PurgeFits(v, d) => PutFits(v, d)' /\ PurgeFits(v, d)'
    PROVE  /\ worker' \in [Workers -> Command]
           /\ \A v \in Workers : PutFits(v, worker[v])' /\ PurgeFits(v, worker[v])'
<1>1. /\ worker \in [Workers -> Command]
      /\ \A v \in Workers : PutFits(v, worker[v]) /\ PurgeFits(v, worker[v])
  BY DEF EvidenceInv, TypeOK
<1>2. worker' \in [Workers -> Command]
  BY <1>1
<1>3. ASSUME NEW v \in Workers PROVE PutFits(v, worker[v])' /\ PurgeFits(v, worker[v])'
  <2>1. CASE v = w
    <3>1. worker'[v] = c
      BY <1>1, <2>1
    <3> QED
      BY <2>1, <3>1, Zenon DEF PutFits, PurgeFits
  <2>2. CASE v # w
    <3>1. PICK d \in Command : d = worker[v] /\ worker'[v] = d
      BY <1>1, <2>2
    <3>2. PutFits(v, d)' /\ PurgeFits(v, d)'
      BY <1>1, <2>2, <3>1
    <3> QED
      BY <3>1, <3>2, Zenon DEF PutFits, PurgeFits
  <2> QED
    BY <2>1, <2>2
<1> QED
  BY <1>2, <1>3

\* Steps of one worker that touch nothing but its command, its temporary and the
\* purge loop's answer.
LEMMA QuietKeeps ==
    ASSUME EvidenceInv, NEW w \in Workers, NEW c \in Command, worker' = [worker EXCEPT ![w] = c],
           temps' \in SUBSET temps,
           UNCHANGED <<handles, blobRows, intents, digestOf, stale, files, attempts, outlived>>,
           reset' \in [state : {"off", "running", "cleared", "exhausted", "refused", "lost"},
                       rounds : Nat, doomed : SUBSET Keys, fresh : SUBSET Digests],
           ClearedIsEmpty', PutFits(w, c)', PurgeFits(w, c)'
    PROVE  EvidenceInv'
<1>1. \A v \in Workers \ {w}, d \in Command :
          PutFits(v, d) /\ PurgeFits(v, d) => PutFits(v, d)' /\ PurgeFits(v, d)'
  BY DEF PutFits, PurgeFits, Present
<1>2. /\ worker' \in [Workers -> Command]
      /\ \A v \in Workers : PutFits(v, worker[v])' /\ PurgeFits(v, worker[v])'
  BY <1>1, CommandUpdate, Zenon
<1>3. TypeOK'
  BY <1>2 DEF EvidenceInv, TypeOK
<1>4. HandleHasBlob' /\ OrphanDiscoverable' /\ IsFiniteSet(blobRows)'
  BY DEF EvidenceInv, HandleHasBlob, OrphanDiscoverable, Present
<1> QED
  BY <1>2, <1>3, <1>4 DEF EvidenceInv

\* The worker gives up or is done: it is idle again.
LEMMA IdleFits ==
    ASSUME NEW w
    PROVE  PutFits(w, Idle) /\ PurgeFits(w, Idle)
BY DEF PutFits, PurgeFits, Idle, PutStages

\* A worker that becomes idle, by a failure, by its death or because it is done.
LEMMA IdleKeeps ==
    ASSUME EvidenceInv, NEW w \in Workers, worker' = [worker EXCEPT ![w] = Idle],
           temps' \in SUBSET temps,
           UNCHANGED <<handles, blobRows, intents, digestOf, stale, files, attempts, outlived>>,
           reset' = reset \/ reset' = ResetEnd("lost")
    PROVE  EvidenceInv'
<1>1. PICK c \in Command : c = Idle
  BY CommandFacts, Zenon DEF EvidenceInv
<1>2. c.pc = "idle" /\ c.purge = FALSE
  BY <1>1, Zenon DEF Idle
<1>3. PutFits(w, c)' /\ PurgeFits(w, c)'
  BY <1>2, Zenon DEF PutFits, PurgeFits, PutStages
<1>4. /\ reset' \in [state : {"off", "running", "cleared", "exhausted", "refused", "lost"},
                     rounds : Nat, doomed : SUBSET Keys, fresh : SUBSET Digests]
      /\ ClearedIsEmpty'
  BY DEF EvidenceInv, TypeOK, ResetEnd, ClearedIsEmpty, Present
<1> QED
  BY <1>1, <1>3, <1>4, QuietKeeps, Zenon

-----------------------------------------------------------------------------
\* A new install intent: its attempt number is used for the first time, so no
\* temporary, stale intent or running put has it.
LEMMA PutStartKeeps ==
    ASSUME EvidenceInv, NEW k \in Keys, NEW row \in Row, PutStart(Daemon, k, row)
    PROVE  EvidenceInv'
<1> DEFINE n == attempts + 1
<1>1. /\ attempts < MaxPuts /\ attempts \in 0 .. MaxPuts /\ MaxPuts \in Nat
      /\ intents \in SUBSET (1 .. attempts) /\ stale \in SUBSET (1 .. attempts)
      /\ temps \in SUBSET (1 .. attempts) /\ Daemon \in Workers
      /\ digestOf \in [1 .. MaxPuts -> Digests \cup {None}] /\ row.digest \in Digests
  BY EvidenceAssumption DEF PutStart, EvidenceInv, TypeOK, Workers, Row
<1>2. /\ attempts' = n /\ intents' = intents \cup {n}
      /\ digestOf' = [digestOf EXCEPT ![n] = row.digest]
      /\ UNCHANGED <<handles, blobRows, stale, files, temps, reset, outlived>>
  BY DEF PutStart
<1>3. PICK c : c = [Idle EXCEPT !.pc = "install", !.key = k, !.row = row, !.attempt = n]
  OBVIOUS
<1>4. worker' = [worker EXCEPT ![Daemon] = c]
  BY <1>2, <1>3 DEF PutStart
<1>5. n \in 1 .. MaxPuts /\ n \notin intents /\ n \notin stale /\ n \notin temps /\ n \in 1 .. n
      /\ n \in 0 .. MaxPuts
  BY <1>1
<1>6. /\ c \in Command /\ c.pc = "install" /\ c.purge = FALSE /\ c.key = k /\ c.row = row
      /\ c.attempt = n
  <2> HIDE DEF n
  <2>1. Idle \in Command /\ Idle.purge = FALSE
    BY <1>1, CommandFacts, Zenon DEF EvidenceInv
  <2> QED
    BY <1>3, <1>5, <2>1, Zenon DEF Command, PutStages
<1>7. /\ digestOf' \in [1 .. MaxPuts -> Digests \cup {None}] /\ digestOf'[n] = row.digest
      /\ \A a \in 1 .. attempts : digestOf'[a] = digestOf[a] /\ a \in 1 .. MaxPuts
      /\ attempts' \in 0 .. MaxPuts /\ 1 .. attempts \subseteq 1 .. n
  BY <1>1, <1>2, <1>5
<1> HIDE DEF n
<1>8. PutFits(Daemon, c)' /\ PurgeFits(Daemon, c)'
  BY <1>2, <1>5, <1>6, <1>7, Zenon DEF PutFits, PurgeFits
<1>9. \A v \in Workers \ {Daemon}, d \in Command :
          PutFits(v, d) /\ PurgeFits(v, d) => PutFits(v, d)' /\ PurgeFits(v, d)'
  BY <1>2, Zenon DEF PutFits, PurgeFits, Present
<1>10. /\ worker' \in [Workers -> Command]
       /\ \A v \in Workers : PutFits(v, worker[v])' /\ PurgeFits(v, worker[v])'
  BY <1>1, <1>4, <1>6, <1>8, <1>9, CommandUpdate, Zenon
<1>11. TypeOK'
  BY <1>1, <1>2, <1>5, <1>7, <1>10, Zenon DEF EvidenceInv, TypeOK
<1>12. HandleHasBlob' /\ ClearedIsEmpty' /\ IsFiniteSet(blobRows)'
  BY <1>2, Zenon DEF EvidenceInv, HandleHasBlob, ClearedIsEmpty, Present
<1>13. OrphanDiscoverable'
  <2>1. \A a \in intents \cup temps : a \in 1 .. attempts
    BY <1>1
  <2> QED
    BY <1>2, <1>7, <2>1 DEF EvidenceInv, OrphanDiscoverable
<1> QED
  BY <1>10, <1>11, <1>12, <1>13 DEF EvidenceInv

\* Installing reuses the blob file, or writes a temporary that the intent covers.
LEMMA InstallBlobKeeps ==
    ASSUME EvidenceInv, NEW w \in Workers, InstallBlob(w)
    PROVE  EvidenceInv'
<1>1. /\ worker[w].pc = "install" /\ worker[w] \in Command /\ PutFits(w, worker[w])
      /\ PurgeFits(w, worker[w]) /\ worker \in [Workers -> Command]
      /\ UNCHANGED <<handles, blobRows, intents, digestOf, stale, files, attempts, reset, outlived>>
  BY DEF InstallBlob, EvidenceInv, TypeOK
<1>2. CASE worker[w].row.digest \in files
  <2>1. PICK c : c = [worker[w] EXCEPT !.pc = "commit"]
    BY Zenon
  <2>2. worker' = [worker EXCEPT ![w] = c] /\ temps' = temps
    BY <1>1, <1>2, <2>1 DEF InstallBlob
  <2>3. /\ c \in Command /\ c.pc = "commit" /\ c.purge = worker[w].purge /\ c.key = worker[w].key
        /\ c.row = worker[w].row /\ c.attempt = worker[w].attempt
    BY <1>1, <2>1 DEF Command, PutStages
  <2>4. PutFits(w, c)' /\ PurgeFits(w, c)'
    BY <1>1, <2>2, <2>3, Zenon DEF PutFits, PurgeFits, PutStages, PruneStages
  <2>5. ClearedIsEmpty'
    BY <1>1, Zenon DEF EvidenceInv, ClearedIsEmpty, Present
  <2>6. reset' \in [state : {"off", "running", "cleared", "exhausted", "refused", "lost"},
                    rounds : Nat, doomed : SUBSET Keys, fresh : SUBSET Digests]
    BY <1>1 DEF EvidenceInv, TypeOK
  <2> QED
    BY <1>1, <2>2, <2>3, <2>4, <2>5, <2>6, QuietKeeps, Zenon
<1>3. CASE worker[w].row.digest \notin files
  <2>1. PICK c : c = [worker[w] EXCEPT !.pc = "link"]
    BY Zenon
  <2>2. worker' = [worker EXCEPT ![w] = c] /\ temps' = temps \cup {worker[w].attempt}
    BY <1>1, <1>3, <2>1 DEF InstallBlob
  <2>3. /\ c \in Command /\ c.pc = "link" /\ c.purge = worker[w].purge /\ c.key = worker[w].key
        /\ c.row = worker[w].row /\ c.attempt = worker[w].attempt
    BY <1>1, <2>1 DEF Command, PutStages
  <2>4. PutFits(w, c)' /\ PurgeFits(w, c)'
    BY <1>1, <2>2, <2>3, Zenon DEF PutFits, PurgeFits, PutStages, PruneStages
  <2>5. w = Daemon
    BY <1>1 DEF PutFits, PutStages
  <2>6. \A v \in Workers \ {w}, d \in Command :
            PutFits(v, d) /\ PurgeFits(v, d) => PutFits(v, d)' /\ PurgeFits(v, d)'
    BY <1>1, <2>5, Zenon DEF PutFits, PurgeFits, Present
  <2>7. /\ worker' \in [Workers -> Command]
        /\ \A v \in Workers : PutFits(v, worker[v])' /\ PurgeFits(v, worker[v])'
    BY <2>2, <2>3, <2>4, <2>6, CommandUpdate, Zenon
  <2>8. /\ worker[w].attempt \in 1 .. attempts
        /\ worker[w].attempt \in intents \/ digestOf[worker[w].attempt] \in outlived
    BY <1>1, Zenon DEF PutFits, PutStages
  <2>9. TypeOK'
    BY <1>1, <2>2, <2>7, <2>8, Zenon DEF EvidenceInv, TypeOK
  <2>10. HandleHasBlob' /\ ClearedIsEmpty' /\ IsFiniteSet(blobRows)'
    BY <1>1, Zenon DEF EvidenceInv, HandleHasBlob, ClearedIsEmpty, Present
  <2>11. OrphanDiscoverable'
    BY <1>1, <2>2, <2>8, Zenon DEF EvidenceInv, OrphanDiscoverable
  <2> QED
    BY <2>7, <2>9, <2>10, <2>11 DEF EvidenceInv
<1> QED
  BY <1>2, <1>3

\* Publishing the blob file: its intent is on record, or it outlived its grace.
LEMMA LinkBlobKeeps ==
    ASSUME EvidenceInv, NEW w \in Workers, LinkBlob(w)
    PROVE  EvidenceInv'
<1>1. /\ worker[w].pc = "link" /\ worker[w] \in Command /\ PutFits(w, worker[w])
      /\ PurgeFits(w, worker[w]) /\ worker \in [Workers -> Command]
      /\ UNCHANGED <<handles, blobRows, intents, digestOf, stale, temps, attempts, reset, outlived>>
  BY DEF LinkBlob, EvidenceInv, TypeOK
<1>2. CASE worker[w].attempt \notin temps
  BY <1>1, <1>2, IdleKeeps DEF LinkBlob
<1>3. CASE worker[w].attempt \in temps
  <2>1. PICK c : c = [worker[w] EXCEPT !.pc = "drop"]
    BY Zenon
  <2>2. worker' = [worker EXCEPT ![w] = c] /\ files' = files \cup {worker[w].row.digest}
    BY <1>1, <1>3, <2>1 DEF LinkBlob
  <2>3. /\ c \in Command /\ c.pc = "drop" /\ c.purge = worker[w].purge /\ c.key = worker[w].key
        /\ c.row = worker[w].row /\ c.attempt = worker[w].attempt
    BY <1>1, <2>1 DEF Command, PutStages
  <2>4. PutFits(w, c)' /\ PurgeFits(w, c)'
    BY <1>1, <2>2, <2>3, Zenon DEF PutFits, PurgeFits, PutStages, PruneStages
  <2>5. /\ w = Daemon /\ worker[w].row \in Row /\ worker[w].attempt \in 1 .. attempts
        /\ digestOf[worker[w].attempt] = worker[w].row.digest
        /\ worker[w].attempt \in intents \/ worker[w].row.digest \in outlived
    BY <1>1, Zenon DEF PutFits, PutStages
  <2>6. \A v \in Workers \ {w}, d \in Command :
            PutFits(v, d) /\ PurgeFits(v, d) => PutFits(v, d)' /\ PurgeFits(v, d)'
    BY <1>1, <2>5, Zenon DEF PutFits, PurgeFits, Present
  <2>7. /\ worker' \in [Workers -> Command]
        /\ \A v \in Workers : PutFits(v, worker[v])' /\ PurgeFits(v, worker[v])'
    BY <2>2, <2>3, <2>4, <2>6, CommandUpdate, Zenon
  <2>8. TypeOK'
    <3>1. worker[w].row.digest \in Digests
      BY <2>5 DEF Row
    <3> QED
      BY <1>1, <2>2, <2>7, <3>1, Zenon DEF EvidenceInv, TypeOK
  <2>9. HandleHasBlob' /\ ClearedIsEmpty' /\ IsFiniteSet(blobRows)'
    BY <1>1, <2>2, Zenon DEF EvidenceInv, HandleHasBlob, ClearedIsEmpty, Present
  <2>10. OrphanDiscoverable'
    BY <1>1, <2>2, <2>5 DEF EvidenceInv, OrphanDiscoverable
  <2> QED
    BY <2>7, <2>8, <2>9, <2>10 DEF EvidenceInv
<1> QED
  BY <1>2, <1>3

\* The temporary goes once its blob is linked.
LEMMA DropTemporaryKeeps ==
    ASSUME EvidenceInv, NEW w \in Workers, DropTemporary(w)
    PROVE  EvidenceInv'
<1>1. /\ worker[w].pc = "drop" /\ worker[w] \in Command /\ PutFits(w, worker[w])
      /\ PurgeFits(w, worker[w]) /\ worker \in [Workers -> Command]
      /\ temps' = temps \ {worker[w].attempt}
      /\ UNCHANGED <<handles, blobRows, intents, digestOf, stale, files, attempts, reset, outlived>>
  BY DEF DropTemporary, EvidenceInv, TypeOK
<1>2. PICK c : c = [worker[w] EXCEPT !.pc = "commit"]
  BY Zenon
<1>3. worker' = [worker EXCEPT ![w] = c]
  BY <1>1, <1>2 DEF DropTemporary
<1>4. /\ c \in Command /\ c.pc = "commit" /\ c.purge = worker[w].purge /\ c.key = worker[w].key
      /\ c.row = worker[w].row /\ c.attempt = worker[w].attempt
  BY <1>1, <1>2 DEF Command, PutStages
<1>5. PutFits(w, c)' /\ PurgeFits(w, c)'
  BY <1>1, <1>4, Zenon DEF PutFits, PurgeFits, PutStages, PruneStages
<1>6. ClearedIsEmpty'
  BY <1>1, Zenon DEF EvidenceInv, ClearedIsEmpty, Present
<1>7. reset' \in [state : {"off", "running", "cleared", "exhausted", "refused", "lost"},
                  rounds : Nat, doomed : SUBSET Keys, fresh : SUBSET Digests]
  BY <1>1 DEF EvidenceInv, TypeOK
<1> QED
  BY <1>1, <1>3, <1>4, <1>5, <1>6, <1>7, QuietKeeps, Zenon

\* The transaction that publishes a handle: its blob file is there again whatever
\* was cleaned meanwhile, and its blob row is there or the handle already was.
LEMMA PutCommitKeeps ==
    ASSUME EvidenceInv, NEW w \in Workers, PutCommit(w)
    PROVE  EvidenceInv'
<1> DEFINE k == worker[w].key
           row == worker[w].row
<1>1. /\ worker[w].pc = "commit" /\ worker[w] \in Command /\ PutFits(w, worker[w])
      /\ PurgeFits(w, worker[w]) /\ worker \in [Workers -> Command]
      /\ UNCHANGED <<intents, digestOf, stale, temps, attempts, outlived>>
  BY DEF PutCommit, EvidenceInv, TypeOK
<1>2. /\ w = Daemon /\ k \in Keys /\ row \in Row /\ row.digest \in Digests
      /\ worker[w].purge = FALSE
  BY <1>1, Zenon DEF PutFits, PurgeFits, PutStages, PruneStages, Row, Command
<1>3. \A v \in Workers : ~worker[v].purge
  BY <1>2 DEF EvidenceInv, PurgeFits
<1>4. CASE ~EnsureSameMapping(k, row)
  <2>1. handles[k] # None
    BY <1>4 DEF EnsureSameMapping
  <2>2. /\ files' = files /\ blobRows' = blobRows /\ handles' = handles /\ reset' = reset
        /\ worker' = [worker EXCEPT ![w] = Idle] /\ temps' = temps
    BY <1>1, <1>4, <2>1 DEF PutCommit
  <2> QED
    BY <1>1, <2>2, IdleKeeps, Zenon
<1>5. CASE EnsureSameMapping(k, row)
  <2>1. PICK c : c = [worker[w] EXCEPT !.pc = "clear"]
    BY Zenon
  <2>2. /\ worker' = [worker EXCEPT ![w] = c] /\ files' = files \cup {row.digest}
        /\ blobRows' = IF handles[k] = None THEN blobRows \cup {row.digest} ELSE blobRows
        /\ handles' = IF handles[k] = None THEN [handles EXCEPT ![k] = row] ELSE handles
        /\ reset' = IF reset.state \notin {"running", "cleared"} THEN reset
                    ELSE [reset EXCEPT !.doomed = @ \ {k}, !.fresh = @ \cup {row.digest}]
    BY <1>1, <1>5, <2>1 DEF PutCommit, EnsureBlobEntry
  <2>3. /\ c \in Command /\ c.pc = "clear" /\ c.purge = worker[w].purge /\ c.key = worker[w].key
        /\ c.row = worker[w].row /\ c.attempt = worker[w].attempt
    BY <1>1, <2>1 DEF Command, PutStages
  <2>4. /\ handles \in [Keys -> Row \cup {None}] /\ handles' \in [Keys -> Row \cup {None}]
        /\ handles[k] = None \/ handles[k] = row
        /\ handles'[k] = row /\ \A j \in Keys : j # k => handles'[j] = handles[j]
    BY <1>2, <1>5, <2>2 DEF EvidenceInv, TypeOK, EnsureSameMapping
  <2>5. row.digest \in blobRows' /\ blobRows \subseteq blobRows' /\ blobRows' \subseteq blobRows \cup {row.digest}
    <3>1. CASE handles[k] = None
      BY <2>2, <3>1
    <3>2. CASE handles[k] # None
      <4>1. k \in Present /\ handles[k] = row
        BY <1>2, <2>4, <3>2 DEF Present
      <4>2. row.digest \in blobRows
        BY <4>1 DEF EvidenceInv, HandleHasBlob
      <4> QED
        BY <2>2, <3>2, <4>2
    <3> QED
      BY <3>1, <3>2
  <2>6. IsFiniteSet(blobRows')
    BY <2>2, FS_AddElement, Zenon DEF EvidenceInv
  <2>7. /\ reset' \in [state : {"off", "running", "cleared", "exhausted", "refused", "lost"},
                       rounds : Nat, doomed : SUBSET Keys, fresh : SUBSET Digests]
        /\ reset'.state = reset.state
        /\ reset.state = "cleared" =>
             /\ reset'.doomed = reset.doomed \ {k} /\ reset'.fresh = reset.fresh \cup {row.digest}
    BY <1>2, <2>2, Zenon DEF EvidenceInv, TypeOK
  <2>8. PutFits(w, c)' /\ PurgeFits(w, c)'
    <3>1. PutFits(w, c)'
      BY <1>1, <1>2, <2>3, <2>5, Zenon DEF PutFits, PutStages
    <3>2. PurgeFits(w, c)'
      BY <1>2, <2>3, Zenon DEF PurgeFits
    <3> QED
      BY <3>1, <3>2
  <2>9. ASSUME NEW v \in Workers PROVE PutFits(v, worker[v])' /\ PurgeFits(v, worker[v])'
    <3>1. CASE v = w
      BY <1>1, <2>2, <2>8, <3>1, Zenon DEF PutFits, PurgeFits
    <3>2. CASE v # w
      <4>1. worker'[v] = worker[v] /\ ~worker[v].purge /\ worker[v].pc \notin PutStages
        BY <1>1, <1>2, <1>3, <2>2, <3>2, Zenon DEF EvidenceInv, PutFits
      <4> QED
        BY <4>1 DEF PutFits, PurgeFits
    <3> QED
      BY <3>1, <3>2
  <2>10. TypeOK'
    <3>1. worker' \in [Workers -> Command]
      BY <1>1, <2>2, <2>3
    <3> QED
      BY <1>1, <1>2, <2>2, <2>4, <2>5, <2>7, <3>1, Zenon DEF EvidenceInv, TypeOK
  <2>11. HandleHasBlob'
    BY <1>2, <2>2, <2>4, <2>5, Zenon DEF EvidenceInv, HandleHasBlob, Present
  <2>12. OrphanDiscoverable'
    BY <1>1, <2>2, <2>5, Zenon DEF EvidenceInv, OrphanDiscoverable
  <2>13. ClearedIsEmpty'
    BY <1>2, <2>4, <2>5, <2>7 DEF EvidenceInv, ClearedIsEmpty, Present
  <2> QED
    BY <2>6, <2>9, <2>10, <2>11, <2>12, <2>13 DEF EvidenceInv
<1> QED
  BY <1>4, <1>5

\* A transaction that rolls back leaves the file, covered by its intent.
LEMMA PutRolledBackKeeps ==
    ASSUME EvidenceInv, NEW w \in Workers, PutRolledBack(w)
    PROVE  EvidenceInv'
<1> DEFINE row == worker[w].row
           a == worker[w].attempt
<1>1. /\ worker[w].pc = "commit" /\ worker[w] \in Command /\ PutFits(w, worker[w])
      /\ worker \in [Workers -> Command] /\ Idle \in Command
      /\ worker' = [worker EXCEPT ![w] = Idle]
      /\ files' = files \cup {row.digest} /\ temps \subseteq temps' /\ temps' \subseteq temps \cup {a}
      /\ UNCHANGED <<handles, blobRows, intents, digestOf, stale, attempts, reset, outlived>>
  BY CommandFacts, Zenon DEF PutRolledBack, EvidenceInv, TypeOK, EnsureBlobEntry
<1>2. /\ w = Daemon /\ row \in Row /\ row.digest \in Digests /\ a \in 1 .. attempts
      /\ digestOf[a] = row.digest /\ (a \in intents \/ row.digest \in outlived)
  BY <1>1, Zenon DEF PutFits, PutStages, Row
<1>3. ASSUME NEW v \in Workers PROVE PutFits(v, worker[v])' /\ PurgeFits(v, worker[v])'
  <2>1. CASE v = w
    <3>1. worker'[v].pc = "idle" /\ worker'[v].purge = FALSE
      BY <1>1, <2>1, Zenon DEF Idle
    <3> QED
      BY <3>1, Zenon DEF PutFits, PurgeFits, PutStages
  <2>2. CASE v # w
    <3>1. worker'[v] = worker[v] /\ worker[v].pc \notin PutStages /\ PurgeFits(v, worker[v])
      BY <1>1, <1>2, <2>2, Zenon DEF EvidenceInv, PutFits
    <3> QED
      BY <1>1, <3>1, Zenon DEF PutFits, PurgeFits, Present
  <2> QED
    BY <2>1, <2>2
<1>4. TypeOK'
  <2>1. worker' \in [Workers -> Command]
    BY <1>1
  <2>2. temps' \in SUBSET (1 .. attempts)
    BY <1>1, <1>2, Zenon DEF EvidenceInv, TypeOK
  <2> QED
    BY <1>1, <1>2, <2>1, <2>2, Zenon DEF EvidenceInv, TypeOK
<1>5. HandleHasBlob' /\ ClearedIsEmpty' /\ IsFiniteSet(blobRows)'
  BY <1>1, Zenon DEF EvidenceInv, HandleHasBlob, ClearedIsEmpty, Present
<1>6. OrphanDiscoverable'
  BY <1>1, <1>2 DEF EvidenceInv, OrphanDiscoverable
<1> QED
  BY <1>3, <1>4, <1>5, <1>6 DEF EvidenceInv

\* The intent goes after the handle is published: its file has a row by now, or a
\* cleanup took both, and it has no temporary.
LEMMA ClearInstallIntentKeeps ==
    ASSUME EvidenceInv, NEW w \in Workers, ClearInstallIntent(w)
    PROVE  EvidenceInv'
<1> DEFINE row == worker[w].row
           a == worker[w].attempt
<1>1. /\ worker[w].pc = "clear" /\ worker[w] \in Command /\ PutFits(w, worker[w])
      /\ worker \in [Workers -> Command] /\ Idle \in Command
      /\ worker' = [worker EXCEPT ![w] = Idle] /\ intents' = intents \ {a}
      /\ UNCHANGED <<handles, blobRows, digestOf, stale, files, temps, attempts, reset, outlived>>
  BY CommandFacts, Zenon DEF ClearInstallIntent, EvidenceInv, TypeOK
<1>2. /\ w = Daemon /\ digestOf[a] = row.digest /\ a \notin temps
      /\ row.digest \in blobRows \/ row.digest \notin files
  BY <1>1, Zenon DEF PutFits, PutStages
<1>3. ASSUME NEW v \in Workers PROVE PutFits(v, worker[v])' /\ PurgeFits(v, worker[v])'
  <2>1. CASE v = w
    <3>1. worker'[v].pc = "idle" /\ worker'[v].purge = FALSE
      BY <1>1, <2>1, Zenon DEF Idle
    <3> QED
      BY <3>1 DEF PutFits, PurgeFits, PutStages
  <2>2. CASE v # w
    <3>1. worker'[v] = worker[v] /\ worker[v].pc \notin PutStages /\ PurgeFits(v, worker[v])
      BY <1>1, <1>2, <2>2, Zenon DEF EvidenceInv, PutFits
    <3> QED
      BY <1>1, <3>1, Zenon DEF PutFits, PurgeFits, Present
  <2> QED
    BY <2>1, <2>2
<1>4. TypeOK'
  BY <1>1, Zenon DEF EvidenceInv, TypeOK
<1>5. HandleHasBlob' /\ ClearedIsEmpty' /\ IsFiniteSet(blobRows)'
  BY <1>1, Zenon DEF EvidenceInv, HandleHasBlob, ClearedIsEmpty, Present
<1>6. OrphanDiscoverable'
  BY <1>1, <1>2 DEF EvidenceInv, OrphanDiscoverable
<1> QED
  BY <1>3, <1>4, <1>5, <1>6 DEF EvidenceInv

\* A failed command and a dead process leave everything on disk to the intents.
LEMMA FailureKeeps ==
    ASSUME EvidenceInv, NEW w \in Workers, PutFails(w) \/ Die(w)
    PROVE  EvidenceInv'
<1>1. CASE PutFails(w)
  BY <1>1, IdleKeeps, Zenon DEF PutFails
<1>2. CASE Die(w)
  BY <1>2, IdleKeeps, Zenon DEF Die
<1> QED
  BY <1>1, <1>2

\* An intent goes stale; a put that still runs on it is remembered as outliving it.
LEMMA IntentAgesKeeps ==
    ASSUME EvidenceInv, NEW a \in 1 .. MaxPuts, IntentAges(a)
    PROVE  EvidenceInv'
<1>1. /\ a \in intents /\ stale' = stale \cup {a}
      /\ outlived' = IF Running(a) THEN outlived \cup {digestOf[a]} ELSE outlived
      /\ UNCHANGED <<handles, blobRows, intents, digestOf, files, temps, attempts, worker, reset>>
  BY DEF IntentAges
<1>2. outlived \subseteq outlived' /\ outlived' \in SUBSET Digests
  <2>1. Running(a) => digestOf[a] \in Digests
    BY Zenon DEF Running, EvidenceInv, PutFits, Row
  <2> QED
    BY <1>1, <2>1 DEF EvidenceInv, TypeOK
<1>3. TypeOK'
  BY <1>1, <1>2, Zenon DEF EvidenceInv, TypeOK
<1>4. ASSUME NEW v \in Workers PROVE PutFits(v, worker[v])' /\ PurgeFits(v, worker[v])'
  <2>1. PutFits(v, worker[v]) /\ PurgeFits(v, worker[v])
    BY DEF EvidenceInv
  <2>2. PurgeFits(v, worker[v])'
    BY <1>1, <2>1, Zenon DEF PurgeFits, Present
  <2>3. PutFits(v, worker[v])'
    <3>1. CASE worker[v].pc \in PutStages /\ worker[v].attempt = a
      <4>1. worker[v].row.digest \in outlived'
        BY <1>1, <2>1, <3>1, Zenon DEF PutFits, Running
      <4> QED
        BY <1>1, <2>1, <4>1, Zenon DEF PutFits
    <3>2. CASE ~(worker[v].pc \in PutStages /\ worker[v].attempt = a)
      BY <1>1, <1>2, <2>1, <3>2, Zenon DEF PutFits
    <3> QED
      BY <3>1, <3>2
  <2> QED
    BY <2>2, <2>3
<1>5. HandleHasBlob' /\ ClearedIsEmpty' /\ IsFiniteSet(blobRows)'
  BY <1>1, Zenon DEF EvidenceInv, HandleHasBlob, ClearedIsEmpty, Present
<1>6. OrphanDiscoverable'
  BY <1>1, <1>2, Zenon DEF EvidenceInv, OrphanDiscoverable
<1> QED
  BY <1>3, <1>4, <1>5, <1>6, Zenon DEF EvidenceInv

-----------------------------------------------------------------------------
\* A page is a part of what it was taken from, and all of it if there is no more.
LEMMA PageFacts ==
    ASSUME NEW S, NEW page \in Pages(S)
    PROVE  page \subseteq S /\ (IsFiniteSet(S) /\ ~HasMore(S) => page = S)
<1>1. page \subseteq S
  BY DEF Pages
<1>2. ASSUME IsFiniteSet(S), ~HasMore(S) PROVE page = S
  <2>1. Cardinality(S) \in Nat /\ Cardinality(S) <= PageLimit
    BY <1>2, FS_CardinalityType, EvidenceAssumption DEF HasMore
  <2>2. Cardinality(page) = Cardinality(S)
    BY <2>1, EvidenceAssumption DEF Pages
  <2> QED
    BY <1>1, <1>2, <2>2, FS_Subset
<1> QED
  BY <1>1, <1>2

\* Handles of a page are deleted by a prune or a purge: no bytes move.
LEMMA DeleteKeeps ==
    ASSUME EvidenceInv, NEW w \in Workers, NEW c \in Command, NEW page,
           worker' = [worker EXCEPT ![w] = c], c.pc = "select_intents",
           c.purge => w = Daemon /\ (~c.more => Present' = {}),
           handles' = [k \in Keys |-> IF k \in page THEN None ELSE handles[k]],
           UNCHANGED <<blobRows, intents, digestOf, stale, files, temps, attempts, outlived>>,
           reset' \in [state : {"off", "running", "cleared", "exhausted", "refused", "lost"},
                       rounds : Nat, doomed : SUBSET Keys, fresh : SUBSET Digests],
           reset'.state = reset.state, reset'.doomed = reset.doomed, reset'.fresh = reset.fresh
    PROVE  EvidenceInv'
<1>1. /\ handles' \in [Keys -> Row \cup {None}]
      /\ \A k \in Keys : handles'[k] # None => handles'[k] = handles[k]
      /\ Present' \subseteq Present
  BY Zenon DEF EvidenceInv, TypeOK, Present
<1>2. PutFits(w, c)' /\ PurgeFits(w, c)'
  BY Zenon DEF PutFits, PurgeFits, PutStages, PruneStages
<1>3. \A v \in Workers \ {w}, d \in Command :
          PutFits(v, d) /\ PurgeFits(v, d) => PutFits(v, d)' /\ PurgeFits(v, d)'
  BY <1>1 DEF PutFits, PurgeFits
<1>4. /\ worker' \in [Workers -> Command]
      /\ \A v \in Workers : PutFits(v, worker[v])' /\ PurgeFits(v, worker[v])'
  BY <1>2, <1>3, CommandUpdate, Zenon
<1>5. TypeOK'
  BY <1>1, <1>4, Zenon DEF EvidenceInv, TypeOK
<1>6. HandleHasBlob' /\ OrphanDiscoverable' /\ IsFiniteSet(blobRows)'
  BY <1>1 DEF EvidenceInv, HandleHasBlob, OrphanDiscoverable, Present
<1>7. ClearedIsEmpty'
  BY <1>1, Zenon DEF EvidenceInv, ClearedIsEmpty
<1> QED
  BY <1>4, <1>5, <1>6, <1>7, Zenon DEF EvidenceInv

\* A prune of a CLI process deletes a page of old handles.
LEMMA PruneKeeps ==
    ASSUME EvidenceInv, NEW w \in Clis, NEW project \in Projects, NEW old \in SUBSET Keys,
           Prune(w, project, old)
    PROVE  EvidenceInv'
<1>1. PICK page \in Pages(old) :
          handles' = [k \in Keys |-> IF k \in page THEN None ELSE handles[k]]
  BY DEF Prune
<1>2. PICK c : c = [Idle EXCEPT !.pc = "select_intents", !.more = HasMore(old)]
  OBVIOUS
<1>3. /\ worker' = [worker EXCEPT ![w] = c] /\ w \in Workers
      /\ UNCHANGED <<blobRows, intents, digestOf, stale, files, temps, attempts, reset, outlived>>
  BY <1>2 DEF Prune, Workers
<1>4. c \in Command /\ c.pc = "select_intents" /\ c.purge = FALSE
  <2>1. Idle \in Command /\ Idle.purge = FALSE
    BY <1>3, CommandFacts, Zenon DEF EvidenceInv
  <2>2. HasMore(old) \in BOOLEAN
    BY DEF HasMore
  <2> HIDE DEF HasMore
  <2> QED
    BY <1>2, <2>1, <2>2, Zenon DEF Command, PruneStages
<1>5. reset' \in [state : {"off", "running", "cleared", "exhausted", "refused", "lost"},
                  rounds : Nat, doomed : SUBSET Keys, fresh : SUBSET Digests]
  BY <1>3, Zenon DEF EvidenceInv, TypeOK
<1> QED
  BY <1>1, <1>3, <1>4, <1>5, DeleteKeeps, Zenon

\* One round of the reset's purge: a page that is not the last has more behind it.
LEMMA PurgeAllKeeps ==
    ASSUME EvidenceInv, PurgeAll(Daemon)
    PROVE  EvidenceInv'
<1>1. Daemon \in Workers /\ reset.state = "running"
  BY DEF Workers, PurgeAll
<1>2. CASE UNCHANGED <<handles, worker>> /\ \E s \in {"exhausted", "refused"} : reset' = ResetEnd(s)
  <2>1. UNCHANGED <<handles, blobRows, intents, digestOf, stale, files, temps, attempts, worker, outlived>>
    BY <1>2 DEF PurgeAll
  <2>2. /\ reset' \in [state : {"off", "running", "cleared", "exhausted", "refused", "lost"},
                       rounds : Nat, doomed : SUBSET Keys, fresh : SUBSET Digests]
        /\ reset'.state # "cleared"
    BY <1>2 DEF ResetEnd
  <2>3. TypeOK'
    BY <2>1, <2>2, Zenon DEF EvidenceInv, TypeOK
  <2>4. HandleHasBlob' /\ OrphanDiscoverable' /\ ClearedIsEmpty' /\ IsFiniteSet(blobRows)'
    BY <2>1, <2>2, Zenon DEF EvidenceInv, HandleHasBlob, OrphanDiscoverable, ClearedIsEmpty, Present
  <2>5. \A v \in Workers : PutFits(v, worker[v])' /\ PurgeFits(v, worker[v])'
    BY <2>1, Zenon DEF EvidenceInv, PutFits, PurgeFits, Present
  <2> QED
    BY <2>3, <2>4, <2>5, Zenon DEF EvidenceInv
<1>3. CASE \E page \in Pages(Present) :
             /\ handles' = [k \in Keys |-> IF k \in page THEN None ELSE handles[k]]
             /\ reset' = [reset EXCEPT !.rounds = @ + 1]
             /\ worker' = [worker EXCEPT ![Daemon] =
                    [Idle EXCEPT !.pc = "select_intents", !.more = HasMore(Present), !.purge = TRUE]]
  <2>1. PICK page \in Pages(Present) :
             /\ handles' = [k \in Keys |-> IF k \in page THEN None ELSE handles[k]]
             /\ reset' = [reset EXCEPT !.rounds = @ + 1]
             /\ worker' = [worker EXCEPT ![Daemon] =
                    [Idle EXCEPT !.pc = "select_intents", !.more = HasMore(Present), !.purge = TRUE]]
    BY <1>3
  <2>2. PICK c : c = [Idle EXCEPT !.pc = "select_intents", !.more = HasMore(Present), !.purge = TRUE]
    OBVIOUS
  <2>3. c \in Command /\ c.pc = "select_intents" /\ c.more = HasMore(Present)
    <3>1. Idle \in Command
      BY <1>1, CommandFacts, Zenon DEF EvidenceInv
    <3>2. HasMore(Present) \in BOOLEAN
      BY DEF HasMore
    <3> QED
      BY <2>2, <3>1, <3>2, Zenon DEF Command, PruneStages
  <2>4. ~HasMore(Present) => Present' = {}
    <3>1. IsFiniteSet(Present)
      BY EvidenceAssumption, FS_Subset, Zenon DEF Present, Keys
    <3>2. ~HasMore(Present) => page = Present
      BY <2>1, <3>1, PageFacts
    <3> QED
      BY <2>1, <3>2 DEF Present
  <2>5. UNCHANGED <<blobRows, intents, digestOf, stale, files, temps, attempts, outlived>>
    BY DEF PurgeAll
  <2>6. /\ reset' \in [state : {"off", "running", "cleared", "exhausted", "refused", "lost"},
                       rounds : Nat, doomed : SUBSET Keys, fresh : SUBSET Digests]
        /\ reset'.state = reset.state /\ reset'.doomed = reset.doomed /\ reset'.fresh = reset.fresh
    BY <2>1 DEF EvidenceInv, TypeOK
  <2>7. worker' = [worker EXCEPT ![Daemon] = c]
    BY <2>1, <2>2
  <2>8. handles' = [k \in Keys |-> IF k \in page THEN None ELSE handles[k]]
    BY <2>1
  <2> QED
    BY <1>1, <2>3, <2>4, <2>5, <2>6, <2>7, <2>8, DeleteKeeps, Zenon
<1> QED
  BY <1>2, <1>3 DEF PurgeAll

\* A reset begins: only its own bookkeeping changes.
LEMMA StartResetKeeps ==
    ASSUME EvidenceInv, StartReset
    PROVE  EvidenceInv'
<1>1. UNCHANGED <<handles, blobRows, intents, digestOf, stale, files, temps, attempts, worker, outlived>>
  BY Zenon DEF StartReset
<1>2. /\ reset' \in [state : {"off", "running", "cleared", "exhausted", "refused", "lost"},
                     rounds : Nat, doomed : SUBSET Keys, fresh : SUBSET Digests]
      /\ reset'.state # "cleared"
  <2>1. Present \subseteq Keys
    BY DEF Present
  <2> QED
    BY <2>1, Zenon DEF StartReset
<1>3. TypeOK'
  BY <1>1, <1>2, Zenon DEF EvidenceInv, TypeOK
<1>4. HandleHasBlob' /\ OrphanDiscoverable' /\ ClearedIsEmpty' /\ IsFiniteSet(blobRows)'
  BY <1>1, <1>2, Zenon DEF EvidenceInv, HandleHasBlob, OrphanDiscoverable, ClearedIsEmpty, Present
<1>5. \A v \in Workers : PutFits(v, worker[v])' /\ PurgeFits(v, worker[v])'
  BY <1>1, Zenon DEF EvidenceInv, PutFits, PurgeFits, Present
<1> QED
  BY <1>3, <1>4, <1>5, Zenon DEF EvidenceInv

-----------------------------------------------------------------------------
\* The attempt numbers handed out so far are among those the model allows.
LEMMA AttemptsBounded == ASSUME TypeOK PROVE 1 .. attempts \subseteq 1 .. MaxPuts
BY EvidenceAssumption DEF TypeOK

\* A cleanup selects its page of stale intents.
LEMMA SelectIntentsKeeps ==
    ASSUME EvidenceInv, NEW w \in Workers, SelectIntents(w)
    PROVE  EvidenceInv'
<1> DEFINE S == intents \cap stale
<1>1. PICK page \in Pages(S) :
          worker' = [worker EXCEPT ![w].pc = "intents", ![w].todo = page, ![w].more = @ \/ HasMore(S)]
  BY Zenon DEF SelectIntents, Select
<1>2. /\ worker[w].pc = "select_intents" /\ worker[w] \in Command /\ worker \in [Workers -> Command]
      /\ PurgeFits(w, worker[w]) /\ page \in SUBSET (1 .. MaxPuts)
      /\ UNCHANGED <<handles, blobRows, intents, digestOf, stale, files, temps, attempts, reset, outlived>>
  <2>1. S \in SUBSET (1 .. MaxPuts)
    BY AttemptsBounded, Zenon DEF EvidenceInv, TypeOK
  <2> QED
    BY <2>1, PageFacts DEF SelectIntents, Select, EvidenceInv, TypeOK
<1>3. PICK c : c = [worker[w] EXCEPT !.pc = "intents", !.todo = page, !.more = @ \/ HasMore(S)]
  OBVIOUS
<1>4. worker' = [worker EXCEPT ![w] = c]
  BY <1>1, <1>2, <1>3, Zenon
<1>5. /\ c \in Command /\ c.pc = "intents" /\ c.purge = worker[w].purge
      /\ c.more = (worker[w].more \/ HasMore(S))
  <2>1. (worker[w].more \/ HasMore(S)) \in BOOLEAN
    OBVIOUS
  <2> QED
    BY <1>2, <1>3, <2>1, Zenon DEF Command, PruneStages
<1>6. PutFits(w, c)' /\ PurgeFits(w, c)'
  BY <1>2, <1>5, Zenon DEF PutFits, PurgeFits, PutStages, PruneStages, Present
<1>7. ClearedIsEmpty'
  BY <1>2, Zenon DEF EvidenceInv, ClearedIsEmpty, Present
<1>8. reset' \in [state : {"off", "running", "cleared", "exhausted", "refused", "lost"},
                  rounds : Nat, doomed : SUBSET Keys, fresh : SUBSET Digests]
  BY <1>2, Zenon DEF EvidenceInv, TypeOK
<1> QED
  BY <1>2, <1>4, <1>5, <1>6, <1>7, <1>8, QuietKeeps, Zenon

\* The intents of a page are done with.
LEMMA IntentsDoneKeeps ==
    ASSUME EvidenceInv, NEW w \in Workers, IntentsDone(w)
    PROVE  EvidenceInv'
<1>1. /\ worker[w].pc = "intents" /\ worker[w] \in Command /\ PurgeFits(w, worker[w])
      /\ worker \in [Workers -> Command]
      /\ UNCHANGED <<handles, blobRows, intents, digestOf, stale, files, temps, attempts, reset, outlived>>
  BY DEF IntentsDone, EvidenceInv, TypeOK
<1>2. PICK c : c = [worker[w] EXCEPT !.pc = "select_blobs"]
  BY Zenon
<1>3. worker' = [worker EXCEPT ![w] = c]
  BY <1>1, <1>2 DEF IntentsDone
<1>4. /\ c \in Command /\ c.pc = "select_blobs" /\ c.purge = worker[w].purge
      /\ c.more = worker[w].more
  BY <1>1, <1>2 DEF Command, PruneStages
<1>5. PutFits(w, c)' /\ PurgeFits(w, c)'
  BY <1>1, <1>4, Zenon DEF PutFits, PurgeFits, PutStages, PruneStages, Present
<1>6. ClearedIsEmpty'
  BY <1>1, Zenon DEF EvidenceInv, ClearedIsEmpty, Present
<1>7. reset' \in [state : {"off", "running", "cleared", "exhausted", "refused", "lost"},
                  rounds : Nat, doomed : SUBSET Keys, fresh : SUBSET Digests]
  BY <1>1, Zenon DEF EvidenceInv, TypeOK
<1> QED
  BY <1>1, <1>3, <1>4, <1>5, <1>6, <1>7, QuietKeeps, Zenon

\* A cleanup selects its page of unreferenced blobs; a purge that has left nothing
\* so far selects them all or learns that there are more.
LEMMA SelectBlobsKeeps ==
    ASSUME EvidenceInv, NEW w \in Workers, SelectBlobs(w)
    PROVE  EvidenceInv'
<1> DEFINE S == {d \in blobRows : ~Referenced(d)}
<1>1. PICK page \in Pages(S) :
          worker' = [worker EXCEPT ![w].pc = "blobs", ![w].todo = page, ![w].more = @ \/ HasMore(S)]
  BY Zenon DEF SelectBlobs, Select
<1>2. /\ worker[w].pc = "select_blobs" /\ worker[w] \in Command /\ worker \in [Workers -> Command]
      /\ PurgeFits(w, worker[w]) /\ page \in SUBSET Digests
      /\ UNCHANGED <<handles, blobRows, intents, digestOf, stale, files, temps, attempts, reset, outlived>>
  <2>1. S \in SUBSET Digests
    BY Zenon DEF EvidenceInv, TypeOK
  <2> QED
    BY <2>1, PageFacts DEF SelectBlobs, Select, EvidenceInv, TypeOK
<1>3. PICK c : c = [worker[w] EXCEPT !.pc = "blobs", !.todo = page, !.more = @ \/ HasMore(S)]
  BY Zenon
<1>4. worker' = [worker EXCEPT ![w] = c]
  BY <1>1, <1>2, <1>3, Zenon
<1>5. /\ c \in Command /\ c.pc = "blobs" /\ c.purge = worker[w].purge /\ c.todo = page
      /\ c.more = (worker[w].more \/ HasMore(S))
  <2>1. (worker[w].more \/ HasMore(S)) \in BOOLEAN
    OBVIOUS
  <2> QED
    BY <1>2, <1>3, <2>1, Zenon DEF Command, PruneStages
<1>6. ~HasMore(S) => page = S
  <2>1. IsFiniteSet(S)
    BY FS_Subset, Zenon DEF EvidenceInv
  <2> QED
    BY <2>1, PageFacts
<1>7. Present = {} => S = blobRows
  BY DEF Referenced
<1> HIDE DEF S
<1>8. PurgeFits(w, c)'
  <2>1. c.purge /\ ~c.more => Present = {} /\ blobRows \subseteq c.todo
    BY <1>2, <1>5, <1>6, <1>7, Zenon DEF PurgeFits
  <2> QED
    BY <1>2, <1>5, <2>1, Zenon DEF PurgeFits, PruneStages, Present
<1>9. PutFits(w, c)'
  BY <1>5, Zenon DEF PutFits, PutStages
<1>10. ClearedIsEmpty'
  BY <1>2, Zenon DEF EvidenceInv, ClearedIsEmpty, Present
<1>11. reset' \in [state : {"off", "running", "cleared", "exhausted", "refused", "lost"},
                   rounds : Nat, doomed : SUBSET Keys, fresh : SUBSET Digests]
  BY <1>2, Zenon DEF EvidenceInv, TypeOK
<1> QED
  BY <1>2, <1>4, <1>5, <1>8, <1>9, <1>10, <1>11, QuietKeeps, Zenon

\* A stale intent and what only it accounts for go together: its temporary, and
\* the file of its digest unless a row or another intent names it.
LEMMA CleanIntentKeeps ==
    ASSUME EvidenceInv, NEW w \in Workers, NEW a \in 1 .. MaxPuts, NEW e \in Endings,
           CleanIntent(w, a, e)
    PROVE  EvidenceInv'
<1> DEFINE found == a \in intents /\ a \in stale
           unlinks == found /\ e # "failed_before"
<1>1. /\ worker[w].pc = "intents" /\ worker[w] \in Command /\ worker \in [Workers -> Command]
      /\ PurgeFits(w, worker[w])
      /\ UNCHANGED <<handles, blobRows, digestOf, stale, attempts, reset, outlived>>
  BY Zenon DEF CleanIntent, EvidenceInv, TypeOK
<1>2. /\ temps' = IF unlinks THEN temps \ {a} ELSE temps
      /\ files' = IF unlinks THEN files \ IntentOrphan(a) ELSE files
      /\ intents' = IF found /\ e = "committed" THEN intents \ {a} ELSE intents
  BY Zenon DEF CleanIntent
<1>3. PICK c : c = [worker[w] EXCEPT !.todo = @ \ {a}, !.more = @ \/ ~(e = "committed")]
  OBVIOUS
<1>4. worker' = [worker EXCEPT ![w] = c]
  BY <1>1, <1>3, Zenon DEF CleanIntent, Record
<1>5. /\ c \in Command /\ c.pc = "intents" /\ c.purge = worker[w].purge
      /\ c.more = (worker[w].more \/ ~(e = "committed"))
  <2>1. (worker[w].more \/ ~(e = "committed")) \in BOOLEAN
    OBVIOUS
  <2>2. worker[w].todo \ {a} \in SUBSET (Digests \cup 1 .. MaxPuts)
    BY <1>1, Zenon DEF Command
  <2> QED
    BY <1>1, <1>3, <2>1, <2>2, Zenon DEF Command
<1>6. /\ files' \subseteq files /\ temps' \subseteq temps /\ intents' \subseteq intents
      /\ intents \ stale \subseteq intents'
      /\ files \cap blobRows \subseteq files'
  BY <1>2, Zenon DEF IntentOrphan
<1>7. PutFits(w, c)' /\ PurgeFits(w, c)'
  BY <1>1, <1>5, Zenon DEF PutFits, PurgeFits, PutStages, PruneStages, Present
<1>8. \A v \in Workers \ {w}, d \in Command :
          PutFits(v, d) /\ PurgeFits(v, d) => PutFits(v, d)' /\ PurgeFits(v, d)'
  BY <1>1, <1>6 DEF PutFits, PurgeFits, Present
<1>9. /\ worker' \in [Workers -> Command]
      /\ \A v \in Workers : PutFits(v, worker[v])' /\ PurgeFits(v, worker[v])'
  BY <1>4, <1>5, <1>7, <1>8, CommandUpdate, Zenon
<1>10. TypeOK'
  BY <1>1, <1>6, <1>9, Zenon DEF EvidenceInv, TypeOK
<1>11. HandleHasBlob' /\ ClearedIsEmpty' /\ IsFiniteSet(blobRows)'
  BY <1>1, <1>6, Zenon DEF EvidenceInv, HandleHasBlob, ClearedIsEmpty, Present
<1>12. OrphanDiscoverable'
  <2>1. OrphanDiscoverable
    BY DEF EvidenceInv
  <2>2. CASE found /\ e = "committed"
    <3>1. /\ intents' = intents \ {a} /\ temps' = temps \ {a} /\ files' = files \ IntentOrphan(a)
      BY <1>2, <2>2, Zenon
    <3>2. ASSUME NEW d \in files' \ (blobRows' \cup outlived') PROVE \E b \in intents' : digestOf'[b] = d
      <4>1. PICK b \in intents : digestOf[b] = d
        BY <1>1, <2>1, <3>1, Zenon DEF OrphanDiscoverable
      <4>2. CASE b # a
        BY <1>1, <3>1, <4>1, <4>2, Zenon
      <4>3. CASE b = a
        BY <1>1, <3>1, <4>1, <4>3, Zenon DEF IntentOrphan
      <4> QED
        BY <4>2, <4>3
    <3>3. \A b \in temps' : b \in intents' \/ digestOf'[b] \in outlived'
      BY <1>1, <2>1, <3>1, Zenon DEF OrphanDiscoverable
    <3> QED
      BY <3>2, <3>3, Zenon DEF OrphanDiscoverable
  <2>3. CASE ~(found /\ e = "committed")
    <3>1. intents' = intents
      BY <1>2, <2>3, Zenon
    <3> QED
      BY <1>1, <1>6, <2>1, <3>1, Zenon DEF OrphanDiscoverable
  <2> QED
    BY <2>2, <2>3
<1> QED
  BY <1>9, <1>10, <1>11, <1>12 DEF EvidenceInv

\* An unreferenced blob's file goes before its row does; a purge that leaves the
\* row behind has learnt that there is more to do.
LEMMA CleanBlobKeeps ==
    ASSUME EvidenceInv, NEW w \in Workers, NEW x \in Digests, NEW e \in Endings, CleanBlob(w, x, e)
    PROVE  EvidenceInv'
<1> DEFINE unlinks == ~Referenced(x) /\ e # "failed_before"
           deletes == ~Referenced(x) /\ x \in blobRows /\ e = "committed"
           resolved == e = "committed" /\ (Referenced(x) \/ deletes)
<1>1. /\ worker[w].pc = "blobs" /\ worker[w] \in Command /\ worker \in [Workers -> Command]
      /\ PurgeFits(w, worker[w])
      /\ UNCHANGED <<handles, intents, digestOf, stale, temps, attempts, reset, outlived>>
  BY Zenon DEF CleanBlob, EvidenceInv, TypeOK
<1>2. /\ files' = IF unlinks THEN files \ {x} ELSE files
      /\ blobRows' = IF deletes THEN blobRows \ {x} ELSE blobRows
  BY Zenon DEF CleanBlob
<1>3. PICK c : c = [worker[w] EXCEPT !.todo = @ \ {x}, !.more = @ \/ ~resolved]
  OBVIOUS
<1>4. worker' = [worker EXCEPT ![w] = c]
  BY <1>1, <1>3, Zenon DEF CleanBlob, Record
<1>5. deletes => unlinks
  OBVIOUS
<1>6. resolved => Referenced(x) \/ deletes
  OBVIOUS
<1>7. unlinks => ~Referenced(x)
  OBVIOUS
<1> HIDE DEF resolved, deletes, unlinks
<1>8. /\ c \in Command /\ c.pc = "blobs" /\ c.purge = worker[w].purge
      /\ c.more = (worker[w].more \/ ~resolved) /\ c.todo = worker[w].todo \ {x}
  <2>1. (worker[w].more \/ ~resolved) \in BOOLEAN
    OBVIOUS
  <2>2. worker[w].todo \ {x} \in SUBSET (Digests \cup 1 .. MaxPuts)
    BY <1>1, Zenon DEF Command
  <2> QED
    BY <1>1, <1>3, <2>1, <2>2, Zenon DEF Command
<1>9. PutFits(w, c)'
  BY <1>8, Zenon DEF PutFits, PutStages
<1>10. PurgeFits(w, c)'
  <2>1. ASSUME c.purge, ~c.more PROVE Present = {} /\ blobRows' \subseteq c.todo
    <3>1. ~worker[w].more /\ resolved /\ Present = {} /\ blobRows \subseteq worker[w].todo
      BY <1>1, <1>8, <2>1, Zenon DEF PurgeFits
    <3>2. deletes
      BY <1>6, <3>1, Zenon DEF Referenced
    <3> QED
      BY <1>2, <1>8, <3>1, <3>2, Zenon
  <2> QED
    BY <1>1, <1>8, <2>1, Zenon DEF PurgeFits, PruneStages, Present
<1>11. \A v \in Workers \ {w}, d \in Command :
          PutFits(v, d) /\ PurgeFits(v, d) => PutFits(v, d)' /\ PurgeFits(v, d)'
  <2> SUFFICES ASSUME NEW v \in Workers \ {w}, NEW d \in Command, PutFits(v, d), PurgeFits(v, d)
               PROVE  PutFits(v, d)' /\ PurgeFits(v, d)'
    BY Zenon
  <2>1. blobRows' \subseteq blobRows /\ Present' = Present
    BY <1>1, <1>2, Zenon DEF Present
  <2>2. \A y : y \in blobRows \/ y \notin files => y \in blobRows' \/ y \notin files'
    BY <1>2, <1>5, Zenon
  <2>3. PutFits(v, d)'
    BY <1>1, <2>2, Zenon DEF PutFits
  <2>4. PurgeFits(v, d)'
    BY <2>1, Zenon DEF PurgeFits
  <2> QED
    BY <2>3, <2>4, Zenon
<1>12. /\ worker' \in [Workers -> Command]
       /\ \A v \in Workers : PutFits(v, worker[v])' /\ PurgeFits(v, worker[v])'
  BY <1>4, <1>8, <1>9, <1>10, <1>11, CommandUpdate, Zenon
<1>13. TypeOK'
  BY <1>1, <1>2, <1>12, Zenon DEF EvidenceInv, TypeOK
<1>14. IsFiniteSet(blobRows)'
  BY <1>2, FS_RemoveElement, Zenon DEF EvidenceInv
<1>15. HandleHasBlob'
  <2>1. unlinks \/ deletes => \A k \in Present : handles[k].digest # x
    BY <1>5, <1>7 DEF Referenced
  <2> QED
    BY <1>1, <1>2, <2>1, Zenon DEF EvidenceInv, HandleHasBlob, Present
<1>16. OrphanDiscoverable' /\ ClearedIsEmpty'
  BY <1>1, <1>2, <1>5, Zenon DEF EvidenceInv, OrphanDiscoverable, ClearedIsEmpty, Present
<1> QED
  BY <1>12, <1>13, <1>14, <1>15, <1>16, Zenon DEF EvidenceInv

\* The end of a cleanup; a purge that has left nothing clears the reset.
LEMMA CleanupDoneKeeps ==
    ASSUME EvidenceInv, NEW w \in Workers, CleanupDone(w)
    PROVE  EvidenceInv'
<1>1. /\ worker[w].pc = "blobs" /\ worker[w].todo = {} /\ PurgeFits(w, worker[w])
      /\ worker' = [worker EXCEPT ![w] = Idle]
      /\ reset' = IF worker[w].purge /\ ~worker[w].more
                  THEN [reset EXCEPT !.state = "cleared", !.rounds = 0] ELSE reset
      /\ UNCHANGED <<handles, blobRows, intents, digestOf, stale, files, temps, attempts, outlived>>
  BY DEF CleanupDone, EvidenceInv
<1>2. CASE worker[w].purge /\ ~worker[w].more
  <2>1. Present = {} /\ blobRows = {}
    BY <1>1, <1>2 DEF PurgeFits
  <2>2. ClearedIsEmpty'
    BY <1>1, <2>1 DEF ClearedIsEmpty, Present
  <2>3. reset' \in [state : {"off", "running", "cleared", "exhausted", "refused", "lost"},
                    rounds : Nat, doomed : SUBSET Keys, fresh : SUBSET Digests]
    BY <1>1, <1>2, Zenon DEF EvidenceInv, TypeOK
  <2>4. PICK c \in Command : c = Idle
    BY CommandFacts, Zenon DEF EvidenceInv
  <2>5. PutFits(w, c)' /\ PurgeFits(w, c)'
    BY <2>4, Zenon DEF PutFits, PurgeFits, PutStages, Idle
  <2>6. worker' = [worker EXCEPT ![w] = c] /\ temps' \in SUBSET temps
    BY <1>1, <2>4
  <2> QED
    BY <1>1, <2>2, <2>3, <2>5, <2>6, QuietKeeps, Zenon
<1>3. CASE ~(worker[w].purge /\ ~worker[w].more)
  <2>1. reset' = reset /\ temps' \in SUBSET temps
    BY <1>1, <1>3
  <2> QED
    BY <1>1, <2>1, IdleKeeps, Zenon
<1> QED
  BY <1>2, <1>3

-----------------------------------------------------------------------------
\* An empty store.
LEMMA InitEvidenceInv ==
    ASSUME Init
    PROVE  EvidenceInv
<1>1. \A w \in Workers : worker[w] = Idle
  BY DEF Init
<1>2. TypeOK
  <2>1. 0 \in 0 .. MaxPuts
    BY EvidenceAssumption
  <2>2. worker \in [Workers -> Command]
    <3>1. Idle \in Command
      BY <2>1, Zenon DEF Idle, Command
    <3> QED
      BY <3>1 DEF Init
  <2>3. handles \in [Keys -> Row \cup {None}] /\ digestOf \in [1 .. MaxPuts -> Digests \cup {None}]
    BY DEF Init
  <2>4. reset \in [state : {"off", "running", "cleared", "exhausted", "refused", "lost"},
                   rounds : Nat, doomed : SUBSET Keys, fresh : SUBSET Digests]
    BY Zenon DEF Init, ResetEnd
  <2> QED
    BY <2>1, <2>2, <2>3, <2>4, Zenon DEF Init, TypeOK
<1>3. IsFiniteSet(blobRows)
  BY FS_EmptySet, Zenon DEF Init
<1>4. HandleHasBlob /\ OrphanDiscoverable
  BY Zenon DEF Init, HandleHasBlob, OrphanDiscoverable, Present
<1>5. \A w \in Workers : PutFits(w, worker[w]) /\ PurgeFits(w, worker[w])
  BY <1>1, IdleFits
<1>6. ClearedIsEmpty
  BY Zenon DEF Init, ResetEnd, ClearedIsEmpty
<1> QED
  BY <1>2, <1>3, <1>4, <1>5, <1>6 DEF EvidenceInv

\* Every step of a worker, of the clock and of the reset keeps the invariant.
LEMMA NextEvidenceInv ==
    ASSUME EvidenceInv, [Next]_vars
    PROVE  EvidenceInv'
<1>1. ASSUME NEW w \in Workers, WorkerStep(w) PROVE EvidenceInv'
  <2>1. CASE InstallBlob(w) \/ LinkBlob(w) \/ DropTemporary(w)
    BY <2>1, InstallBlobKeeps, LinkBlobKeeps, DropTemporaryKeeps
  <2>2. CASE PutCommit(w) \/ PutRolledBack(w) \/ ClearInstallIntent(w)
    BY <2>2, PutCommitKeeps, PutRolledBackKeeps, ClearInstallIntentKeeps
  <2>3. CASE SelectIntents(w) \/ IntentsDone(w) \/ SelectBlobs(w) \/ CleanupDone(w)
    BY <2>3, SelectIntentsKeeps, IntentsDoneKeeps, SelectBlobsKeeps, CleanupDoneKeeps, Zenon
  <2>4. CASE \E a \in 1 .. MaxPuts, e \in Endings : CleanIntent(w, a, e)
    BY <2>4, CleanIntentKeeps
  <2>5. CASE \E d \in Digests, e \in Endings : CleanBlob(w, d, e)
    BY <2>5, CleanBlobKeeps, Zenon
  <2> QED
    BY <1>1, <2>1, <2>2, <2>3, <2>4, <2>5, Zenon DEF WorkerStep
<1>2. ASSUME NEW w \in Workers, PutFails(w) \/ Die(w) PROVE EvidenceInv'
  BY <1>2, FailureKeeps
<1>3. ASSUME NEW k \in Keys, NEW row \in Row, PutStart(Daemon, k, row) PROVE EvidenceInv'
  BY <1>3, PutStartKeeps
<1>4. CASE PurgeAll(Daemon)
  BY <1>4, PurgeAllKeeps
<1>5. ASSUME NEW w \in Clis, NEW p \in Projects, NEW old \in SUBSET Keys, Prune(w, p, old)
      PROVE  EvidenceInv'
  BY <1>5, PruneKeeps
<1>6. ASSUME NEW a \in 1 .. MaxPuts, IntentAges(a) PROVE EvidenceInv'
  BY <1>6, IntentAgesKeeps
<1>7. CASE StartReset
  BY <1>7, StartResetKeeps
<1>8. CASE UNCHANGED vars
  <2>1. UNCHANGED <<handles, blobRows, intents, digestOf, stale, files, temps, attempts, worker, reset,
                    outlived>>
    BY <1>8 DEF vars
  <2>2. TypeOK' /\ IsFiniteSet(blobRows)'
    BY <2>1, Zenon DEF EvidenceInv, TypeOK
  <2>3. HandleHasBlob' /\ OrphanDiscoverable' /\ ClearedIsEmpty'
    BY <2>1, Zenon DEF EvidenceInv, HandleHasBlob, OrphanDiscoverable, ClearedIsEmpty, Present
  <2>4. \A v \in Workers : PutFits(v, worker[v])' /\ PurgeFits(v, worker[v])'
    BY <2>1, ZenonT(40) DEF EvidenceInv, PutFits, PurgeFits, Present
  <2> QED
    BY <2>2, <2>3, <2>4, Zenon DEF EvidenceInv
<1> QED
  BY <1>1, <1>2, <1>3, <1>4, <1>5, <1>6, <1>7, <1>8, Zenon DEF Next

\* EvidenceInv holds in every reachable state, for any number of CLI processes,
\* projects, names, contents, puts and pages.
THEOREM EvidenceInvariant == Spec => []EvidenceInv
<1>1. Init => EvidenceInv
  BY InitEvidenceInv
<1>2. EvidenceInv /\ [Next]_vars => EvidenceInv'
  BY NextEvidenceInv
<1> QED
  BY <1>1, <1>2, PTL DEF Spec

\* BytesAreAccountedFor: no handle is ever without its bytes and no bytes without a
\* trace, whatever processes put, prune and purge at once and wherever one dies.
THEOREM BytesAccounted == Spec => []BytesAreAccountedFor
<1>1. EvidenceInv => BytesAreAccountedFor
  BY DEF EvidenceInv, BytesAreAccountedFor
<1> QED
  BY <1>1, EvidenceInvariant, PTL

\* ClearedMeansGone: when the purge of a history reset says that nothing is left,
\* the rows are gone, and so are the bytes that nothing else accounts for.
THEOREM ClearedGone == Spec => []ClearedMeansGone
<1>1. EvidenceInv => ClearedMeansGone
  BY Zenon DEF EvidenceInv, ClearedMeansGone, ClearedIsEmpty, OrphanDiscoverable
<1> QED
  BY <1>1, EvidenceInvariant, PTL

\* What one step may do to a stored handle.
Retains ==
    \A k \in Keys : handles[k] # None /\ handles'[k] # handles[k] =>
        /\ handles'[k] = None
        /\ handles[k].retention = "persistent" =>
              reset.state = "running" /\ reset'.rounds = reset.rounds + 1

\* A step that changes a handle deletes it, and a persistent one only for a purge.
LEMMA StepRetains ==
    ASSUME EvidenceInv, Next
    PROVE  Retains
<1>1. handles \in [Keys -> Row \cup {None}]
  BY Zenon DEF EvidenceInv, TypeOK
<1>2. ASSUME NEW w \in Workers, WorkerStep(w) PROVE Retains
  <2>1. CASE PutCommit(w)
    <3>1. /\ worker[w].key \in Keys
          /\ \/ handles' = handles
             \/ /\ handles[worker[w].key] = None
                /\ handles' = [handles EXCEPT ![worker[w].key] = worker[w].row]
      BY <2>1, Zenon DEF PutCommit, EvidenceInv, PutFits, PutStages
    <3> QED
      BY <1>1, <3>1, Zenon DEF Retains
  <2>2. CASE UNCHANGED handles
    BY <2>2, Zenon DEF Retains
  <2> QED
    BY <1>2, <2>1, <2>2, Zenon DEF WorkerStep, InstallBlob, LinkBlob, DropTemporary, PutRolledBack,
       ClearInstallIntent, SelectIntents, IntentsDone, SelectBlobs, Select, CleanupDone, CleanIntent,
       CleanBlob
<1>3. ASSUME NEW w \in Clis, NEW p \in Projects, NEW old \in SUBSET Keys, Prune(w, p, old)
      PROVE  Retains
  <2>1. PICK page \in Pages(old) :
            handles' = [k \in Keys |-> IF k \in page THEN None ELSE handles[k]]
    BY <1>3 DEF Prune
  <2>2. \A k \in page : handles[k].retention # "persistent"
    BY <1>3, <2>1, PageFacts DEF Prune
  <2> QED
    BY <1>1, <2>1, <2>2, Zenon DEF Retains
<1>4. CASE PurgeAll(Daemon)
  <2>1. CASE UNCHANGED handles
    BY <2>1, Zenon DEF Retains
  <2>2. CASE handles' # handles
    <3>1. PICK page \in Pages(Present) :
              /\ handles' = [k \in Keys |-> IF k \in page THEN None ELSE handles[k]]
              /\ reset' = [reset EXCEPT !.rounds = @ + 1]
      BY <1>4, <2>2 DEF PurgeAll
    <3>2. reset.state = "running" /\ reset'.rounds = reset.rounds + 1
      BY <1>4, <3>1 DEF PurgeAll, EvidenceInv, TypeOK
    <3> QED
      BY <1>1, <3>1, <3>2 DEF Retains
  <2> QED
    BY <2>1, <2>2
<1>5. CASE UNCHANGED handles
  BY <1>5 DEF Retains
<1> QED
  BY <1>2, <1>3, <1>4, <1>5, Zenon DEF Next, PutFails, Die, PutStart, IntentAges, StartReset

\* RetainedUnlessPurged: no step rewrites the mapping of a handle, and only a round
\* of the history reset's purge deletes a persistent one.
THEOREM Retained == Spec => RetainedUnlessPurged
<1>1. EvidenceInv /\ [Next]_vars => [Retains]_vars
  BY StepRetains
<1> QED
  BY <1>1, EvidenceInvariant, PTL DEF Spec, RetainedUnlessPurged, Retains
=============================================================================
