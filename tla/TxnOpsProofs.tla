---------------------------- MODULE TxnOpsProofs ----------------------------
(***************************************************************************)
(* TLAPS proofs about TxnOps, for every set of threads, keys, pages and    *)
(* operations, every retry limit and every setting of the switches.        *)
(***************************************************************************)
EXTENDS TxnOps, TLAPS

-----------------------------------------------------------------------------
(***************************************************************************)
(* Facts about the data.                                                   *)
(***************************************************************************)
\* An operation's key has a page, and its value fields are contents.
LEMMA OpFields ==
    ASSUME NEW o \in Ops
    PROVE  /\ o.key \in Keys /\ PageOf[o.key] \in Pages
           /\ o.val \in Contents /\ o.old \in Contents
           /\ o.kind \in {"get", "put", "putIf", "del"}
           /\ o.kind \in {"put", "putIf"} => o.val \in Values
           /\ o.kind = "putIf" => o.old \in Values
<1>1. o \in Op
  BY OpsAssumption
<1>2. o.key \in Keys /\ o.val \in Contents /\ o.old \in Contents
      /\ o.kind \in {"get", "put", "putIf", "del"}
  BY <1>1 DEF Op
<1> QED
  BY <1>2, OpsAssumption, PagesAssumption

\* A before-image maps some keys to contents.
LEMMA ImageElim ==
    ASSUME NEW f \in Images
    PROVE  DOMAIN f \subseteq Keys /\ \A k \in DOMAIN f : f[k] \in Contents
  BY DEF Images

\* A function on a set of keys whose values are contents is a before-image.
LEMMA ImageIntro ==
    ASSUME NEW S \in SUBSET Keys, NEW f \in [S -> Contents]
    PROVE  f \in Images
  BY DEF Images

\* The empty image.
LEMMA NoImageType == NoImage \in Images /\ DOMAIN NoImage = {}
<1>1. NoImage \in [{} -> Contents]
  BY DEF NoImage
<1>2. DOMAIN NoImage = {}
  BY DEF NoImage
<1> QED
  BY <1>1, <1>2, ImageIntro

\* Taking an element out of a queue leaves a queue.
LEMMA RemoveType ==
    ASSUME NEW S, NEW q \in Seq(S), NEW i \in DOMAIN q
    PROVE  SubSeq(q, 1, i - 1) \o SubSeq(q, i + 1, Len(q)) \in Seq(S)
<1>1. i \in 1 .. Len(q)
  OBVIOUS
<1>2. SubSeq(q, 1, i - 1) \in Seq(S)
  BY <1>1
<1>3. SubSeq(q, i + 1, Len(q)) \in Seq(S)
  BY <1>1
<1> QED
  BY <1>2, <1>3

-----------------------------------------------------------------------------
(***************************************************************************)
(* Type correctness.                                                       *)
(***************************************************************************)
\* Init gives every variable its type.
LEMMA InitType == Init => TypeOK
<1> SUFFICES ASSUME Init PROVE TypeOK
  OBVIOUS
<1>1. undo \in [Threads -> Images]
  BY NoImageType DEF Init
<1>2. attempts \in [Threads -> 0 .. Retries + 1]
      /\ \A t \in Threads : attempts[t] <= Retries
  BY LimitsAssumption DEF Init
<1>3. /\ store \in [Keys -> Contents]
      /\ logged \in [Keys -> Contents]
      /\ value \in [Threads -> Contents]
      /\ status \in [Threads -> Status]
      /\ rc \in [Threads -> {OK, RUNRECOVERY, EIO}] /\ \A t \in Threads : rc[t] = OK
  BY DEF Init, Contents, Status, OK
<1>4. waiters \in [Pages -> Seq(Threads)]
  BY DEF Init
<1>5. /\ panic \in BOOLEAN
      /\ rlock \in [Pages -> SUBSET Threads]
      /\ wlock \in [Pages -> SUBSET Threads]
      /\ txn \in [Threads -> BOOLEAN]
      /\ op \in [Threads -> Ops \cup {NoOp}]
  BY DEF Init
<1>6. pc \in [Threads -> {"idle", "begin", "get", "put", "del", "end", "commit", "out"}]
      /\ \A t \in Threads : pc[t] = "idle"
  BY DEF Init
<1> QED
  BY <1>1, <1>2, <1>3, <1>4, <1>5, <1>6 DEF TypeOK

\* What EndTxn and AbortTxn leave typed.
LEMMA EndTxnType ==
    ASSUME TypeOK, NEW t \in Threads, EndTxn(t)
    PROVE  /\ rlock' \in [Pages -> SUBSET Threads]
           /\ wlock' \in [Pages -> SUBSET Threads]
           /\ txn' \in [Threads -> BOOLEAN]
           /\ undo' \in [Threads -> Images]
  BY NoImageType DEF TypeOK, EndTxn

\* The same for DB_TXN->abort, whether or not the environment has panicked.
LEMMA AbortTxnType ==
    ASSUME TypeOK, NEW t \in Threads, AbortTxn(t)
    PROVE  /\ store' \in [Keys -> Contents]
           /\ rlock' \in [Pages -> SUBSET Threads]
           /\ wlock' \in [Pages -> SUBSET Threads]
           /\ txn' \in [Threads -> BOOLEAN]
           /\ undo' \in [Threads -> Images]
<1>1. CASE panic
  BY <1>1 DEF AbortTxn, TypeOK
<1>2. CASE ~panic
  <2>1. \A k \in Keys : k \in DOMAIN undo[t] => undo[t][k] \in Contents
    BY ImageElim DEF TypeOK
  <2>2. store' \in [Keys -> Contents]
    BY <1>2, <2>1 DEF AbortTxn, TypeOK
  <2> QED
    BY <1>2, <2>2, EndTxnType DEF AbortTxn
<1> QED
  BY <1>1, <1>2

\* Leaving the queue of a page keeps the queues typed.
LEMMA DequeueType ==
    ASSUME TypeOK, NEW t \in Threads, op[t] \in Ops, Dequeue(t)
    PROVE  waiters' \in [Pages -> Seq(Threads)]
<1>1. Page(t) \in Pages /\ waiters[Page(t)] \in Seq(Threads)
  BY OpFields DEF Page, Key, TypeOK
<1>2. CASE Queued(t)
  <2>1. PICK i \in DOMAIN waiters[Page(t)] :
          waiters' = [waiters EXCEPT ![Page(t)] =
             SubSeq(@, 1, i - 1) \o SubSeq(@, i + 1, Len(@))]
    BY <1>2 DEF Dequeue
  <2> DEFINE r == SubSeq(waiters[Page(t)], 1, i - 1)
                  \o SubSeq(waiters[Page(t)], i + 1, Len(waiters[Page(t)]))
  <2>2. r \in Seq(Threads)
    BY <1>1, RemoveType
  <2>3. waiters' = [waiters EXCEPT ![Page(t)] = r]
    BY <2>1
  <2> HIDE DEF r
  <2> QED
    BY <2>2, <2>3 DEF TypeOK
<1>3. CASE ~Queued(t)
  BY <1>3 DEF Dequeue, TypeOK
<1> QED
  BY <1>2, <1>3

\* A granted request keeps the lock table typed.
LEMMA GrantType ==
    ASSUME TypeOK, NEW t \in Threads, op[t] \in Ops, Grant(t)
    PROVE  /\ rlock' \in [Pages -> SUBSET Threads]
           /\ wlock' \in [Pages -> SUBSET Threads]
           /\ waiters' \in [Pages -> Seq(Threads)]
<1>1. Page(t) \in Pages
  BY OpFields DEF Page, Key
<1>2. waiters' \in [Pages -> Seq(Threads)]
  BY DequeueType DEF Grant
<1> QED
  BY <1>1, <1>2 DEF Grant, TypeOK

\* A write keeps the cache and the before-images typed.
LEMMA WriteType ==
    ASSUME TypeOK, NEW t \in Threads, op[t] \in Ops, NEW c \in Contents, Write(t, c)
    PROVE  /\ store' \in [Keys -> Contents]
           /\ undo' \in [Threads -> Images]
<1>1. Key(t) \in Keys
  BY OpFields DEF Key
<1>2. store' \in [Keys -> Contents]
  BY <1>1 DEF Write, TypeOK
<1>3. undo' \in [Threads -> Images]
  <2> DEFINE S == DOMAIN undo[t] \cup {Key(t)}
             f == [k \in S |-> IF k \in DOMAIN undo[t] THEN undo[t][k] ELSE store[k]]
  <2>1. undo[t] \in Images
    BY DEF TypeOK
  <2>2. S \in SUBSET Keys
    BY <1>1, <2>1, ImageElim
  <2>3. \A k \in S : (IF k \in DOMAIN undo[t] THEN undo[t][k] ELSE store[k]) \in Contents
    BY <2>1, <2>2, ImageElim DEF TypeOK
  <2>4. f \in [S -> Contents]
    BY <2>3
  <2>5. f \in Images
    BY <2>2, <2>4, ImageIntro
  <2>6. undo' = [undo EXCEPT ![t] = f]
    BY DEF Write
  <2> HIDE DEF f
  <2> QED
    BY <2>5, <2>6 DEF TypeOK
<1> QED
  BY <1>2, <1>3

\* The part of TypeOK about a single thread's pc and operation.
PcFitsOp ==
    \A t \in Threads :
        /\ pc[t] # "idle" => op[t] \in Ops
        /\ pc[t] = "get" => op[t].kind \in {"get", "putIf"}
        /\ pc[t] = "put" => op[t].kind \in {"put", "putIf"}
        /\ pc[t] = "del" => op[t].kind = "del"
        /\ pc[t] = "commit" => status[t] = OK
        /\ pc[t] # "out" => attempts[t] <= Retries /\ rc[t] = OK

\* Taking up an operation keeps the types.
LEMMA StartType ==
    ASSUME TypeOK, NEW t \in Threads, NEW kind, Start(t, kind)
    PROVE  TypeOK'
  BY DEF TypeOK, Start, locks

\* TXN_BEGIN leads to a call that fits the operation.
LEMMA TxnBeginType ==
    ASSUME TypeOK, NEW t \in Threads, TxnBegin(t)
    PROVE  TypeOK'
<1>1. op[t] \in Ops
  BY DEF TypeOK, TxnBegin
<1>2. op[t].kind \in {"get", "put", "putIf", "del"}
  BY <1>1, OpFields
<1>3. txn' \in [Threads -> BOOLEAN]
  BY DEF TypeOK, TxnBegin
<1>4. pc' \in [Threads -> {"idle", "begin", "get", "put", "del", "end", "commit", "out"}]
  BY <1>2 DEF TypeOK, TxnBegin, FirstCall
<1>5. PcFitsOp'
  BY <1>1, <1>2 DEF PcFitsOp, TypeOK, TxnBegin, FirstCall, baton
<1> QED
  BY <1>3, <1>4, <1>5 DEF TypeOK, PcFitsOp, TxnBegin, locks, baton

\* A failed txn_begin keeps the types.
LEMMA TxnBeginFailsType ==
    ASSUME TypeOK, NEW t \in Threads, TxnBeginFails(t)
    PROVE  TypeOK'
  BY DEF TypeOK, TxnBeginFails, Failure, locks

\* db->get leads to the put of putIf or to TXN_END.
LEMMA DbGetType ==
    ASSUME TypeOK, NEW t \in Threads, DbGet(t)
    PROVE  TypeOK'
<1>1. op[t] \in Ops /\ op[t].kind \in {"get", "putIf"}
  BY DEF TypeOK, DbGet
<1>2. Key(t) \in Keys
  BY <1>1, OpFields DEF Key
<1>3. /\ rlock' \in [Pages -> SUBSET Threads]
      /\ wlock' \in [Pages -> SUBSET Threads]
      /\ waiters' \in [Pages -> Seq(Threads)]
  BY <1>1, GrantType DEF DbGet
<1>4. status' \in [Threads -> Status]
  BY DEF TypeOK, DbGet, GetStatus, Status
<1>5. value' \in [Threads -> Contents]
  BY <1>2 DEF TypeOK, DbGet, Contents
<1>6. pc' \in [Threads -> {"idle", "begin", "get", "put", "del", "end", "commit", "out"}]
  BY DEF TypeOK, DbGet
<1>7. PcFitsOp'
  BY <1>1 DEF PcFitsOp, TypeOK, DbGet
<1> QED
  BY <1>3, <1>4, <1>5, <1>6, <1>7 DEF TypeOK, PcFitsOp, DbGet

\* db->put, whether it writes or reports DB_KEYEXIST, keeps the types.
LEMMA DbPutType ==
    ASSUME TypeOK, NEW t \in Threads, DbPut(t)
    PROVE  TypeOK'
<1>1. op[t] \in Ops /\ attempts[t] <= Retries /\ rc[t] = OK
  BY DEF TypeOK, DbPut
<1>2. op[t].val \in Contents
  BY <1>1, OpFields
<1>3. /\ rlock' \in [Pages -> SUBSET Threads]
      /\ wlock' \in [Pages -> SUBSET Threads]
      /\ waiters' \in [Pages -> Seq(Threads)]
  BY <1>1, GrantType DEF DbPut
<1>4. /\ store' \in [Keys -> Contents]
      /\ undo' \in [Threads -> Images]
  <2>1. CASE Write(t, op[t].val)
    BY <1>1, <1>2, <2>1, WriteType
  <2>2. CASE UNCHANGED <<store, undo>>
    BY <2>2 DEF TypeOK
  <2> QED
    BY <2>1, <2>2 DEF DbPut
<1>5. status' \in [Threads -> Status]
  BY DEF TypeOK, DbPut, Status
<1>6. /\ pc' = [pc EXCEPT ![t] = "end"] /\ UNCHANGED <<logged, panic, txn, baton>>
      /\ \A u \in Threads : u # t => status'[u] = status[u]
  BY DEF TypeOK, DbPut
<1>7. pc' \in [Threads -> {"idle", "begin", "get", "put", "del", "end", "commit", "out"}]
  BY <1>6 DEF TypeOK
<1>8. PcFitsOp'
  BY <1>1, <1>6 DEF PcFitsOp, TypeOK, baton
<1> QED
  BY <1>3, <1>4, <1>5, <1>6, <1>7, <1>8 DEF TypeOK, PcFitsOp, baton

\* db->del, whether it deletes or reports DB_NOTFOUND, keeps the types.
LEMMA DbDelType ==
    ASSUME TypeOK, NEW t \in Threads, DbDel(t)
    PROVE  TypeOK'
<1>1. op[t] \in Ops /\ attempts[t] <= Retries /\ rc[t] = OK
  BY DEF TypeOK, DbDel
<1>2. None \in Contents
  BY DEF Contents
<1>3. /\ rlock' \in [Pages -> SUBSET Threads]
      /\ wlock' \in [Pages -> SUBSET Threads]
      /\ waiters' \in [Pages -> Seq(Threads)]
  BY <1>1, GrantType DEF DbDel
<1>4. /\ store' \in [Keys -> Contents]
      /\ undo' \in [Threads -> Images]
  <2>1. CASE Write(t, None)
    BY <1>1, <1>2, <2>1, WriteType
  <2>2. CASE UNCHANGED <<store, undo>>
    BY <2>2 DEF TypeOK
  <2> QED
    BY <2>1, <2>2 DEF DbDel
<1>5. status' \in [Threads -> Status]
  BY DEF TypeOK, DbDel, Status
<1>6. /\ pc' = [pc EXCEPT ![t] = "end"] /\ UNCHANGED <<logged, panic, txn, baton>>
      /\ \A u \in Threads : u # t => status'[u] = status[u]
  BY DEF TypeOK, DbDel
<1>7. pc' \in [Threads -> {"idle", "begin", "get", "put", "del", "end", "commit", "out"}]
  BY <1>6 DEF TypeOK
<1>8. PcFitsOp'
  BY <1>1, <1>6 DEF PcFitsOp, TypeOK, baton
<1> QED
  BY <1>3, <1>4, <1>5, <1>6, <1>7, <1>8 DEF TypeOK, PcFitsOp, baton

\* Joining the queue of a page, at its head or its tail, keeps the types.
LEMMA LockWaitType ==
    ASSUME TypeOK, NEW t \in Threads, LockWait(t)
    PROVE  TypeOK'
<1>1. op[t] \in Ops
  BY DEF TypeOK, LockWait, Calls
<1>2. Page(t) \in Pages /\ waiters[Page(t)] \in Seq(Threads)
  BY <1>1, OpFields DEF Page, Key, TypeOK
<1>3. <<t>> \o waiters[Page(t)] \in Seq(Threads)
      /\ Append(waiters[Page(t)], t) \in Seq(Threads)
  BY <1>2
<1>4. waiters' \in [Pages -> Seq(Threads)]
  BY <1>2, <1>3 DEF LockWait, Enqueue, TypeOK
<1> QED
  BY <1>4 DEF TypeOK, LockWait, baton

\* A refused lock request keeps the types.
LEMMA LockDeniedType ==
    ASSUME TypeOK, NEW t \in Threads, LockDenied(t)
    PROVE  TypeOK'
<1>1. op[t] \in Ops /\ attempts[t] <= Retries /\ rc[t] = OK
  BY DEF TypeOK, LockDenied, Calls
<1>2. waiters' \in [Pages -> Seq(Threads)]
  BY <1>1, DequeueType DEF LockDenied
<1>3. status' \in [Threads -> Status]
  BY DEF TypeOK, LockDenied, Status
<1> QED
  BY <1>1, <1>2, <1>3 DEF TypeOK, LockDenied, baton

\* A failed call keeps the types.
LEMMA CallFailsType ==
    ASSUME TypeOK, NEW t \in Threads, CallFails(t)
    PROVE  TypeOK'
<1>1. op[t] \in Ops /\ attempts[t] <= Retries /\ rc[t] = OK
  BY DEF TypeOK, CallFails, Calls
<1>2. status' \in [Threads -> Status]
  BY DEF TypeOK, CallFails, Failure, Status
<1> QED
  BY <1>1, <1>2 DEF TypeOK, CallFails, locks, baton

\* So does one that fails half-way.
LEMMA CallFailsHalfwayType ==
    ASSUME TypeOK, NEW t \in Threads, CallFailsHalfway(t)
    PROVE  TypeOK'
<1>1. op[t] \in Ops /\ attempts[t] <= Retries /\ rc[t] = OK
  BY DEF TypeOK, CallFailsHalfway
<1>2. /\ rlock' \in [Pages -> SUBSET Threads]
      /\ wlock' \in [Pages -> SUBSET Threads]
      /\ waiters' \in [Pages -> Seq(Threads)]
  BY <1>1, GrantType DEF CallFailsHalfway
<1>3. PICK c \in Contents : Write(t, c)
  BY <1>1, OpFields DEF CallFailsHalfway, Contents
<1>4. store' \in [Keys -> Contents] /\ undo' \in [Threads -> Images]
  BY <1>1, <1>3, WriteType
<1>5. status' \in [Threads -> Status]
  BY DEF TypeOK, CallFailsHalfway, Failure, Status
<1>6. pc' = [pc EXCEPT ![t] = "end"] /\ UNCHANGED <<logged, panic, txn, baton>>
  BY DEF CallFailsHalfway
<1>7. PcFitsOp'
  BY <1>1, <1>6 DEF PcFitsOp, TypeOK, baton, CallFailsHalfway
<1> QED
  BY <1>2, <1>4, <1>5, <1>6, <1>7 DEF TypeOK, PcFitsOp, baton

\* Every branch of TXN_END keeps _attempts within _retries + 1.
LEMMA TxnEndType ==
    ASSUME TypeOK, NEW t \in Threads, TxnEnd(t)
    PROVE  TypeOK'
<1>1. CASE CommitBegins(t)
  BY <1>1 DEF TypeOK, CommitBegins, locks, baton
<1>2. CASE CommitEnds(t)
  <2>1. logged' \in [Keys -> Contents]
    BY <1>2 DEF TypeOK, CommitEnds, LogCommit
  <2>2. EndTxn(t)
    BY <1>2 DEF CommitEnds
  <2> QED
    BY <1>2, <2>1, <2>2, EndTxnType DEF TypeOK, CommitEnds, baton
<1>3. CASE CommitFails(t)
  <2>1. AbortTxn(t)
    BY <1>3 DEF CommitFails
  <2>2. status' \in [Threads -> Status]
    BY <1>3 DEF TypeOK, CommitFails, Failure, Status
  <2>3. op[t] \in Ops
    BY <1>3 DEF TypeOK, CommitFails
  <2> QED
    BY <1>3, <2>1, <2>2, <2>3, AbortTxnType DEF TypeOK, CommitFails, baton
<1>6. CASE CommitInDoubt(t)
  <2>1. logged' \in [Keys -> Contents]
    BY <1>6 DEF TypeOK, CommitInDoubt, LogCommit
  <2>2. status' \in [Threads -> Status]
    BY <1>6 DEF TypeOK, CommitInDoubt, Status
  <2> QED
    BY <1>6, <2>1, <2>2 DEF TypeOK, CommitInDoubt, locks, baton
<1>4. CASE Retry(t)
  <2>1. AbortTxn(t)
    BY <1>4 DEF Retry
  <2>2. attempts' \in [Threads -> 0 .. Retries + 1]
    BY <1>4, LimitsAssumption DEF TypeOK, Retry
  <2>3. op[t] \in Ops
    BY <1>4 DEF TypeOK, Retry
  <2> QED
    BY <1>4, <2>1, <2>2, <2>3, AbortTxnType DEF TypeOK, Retry
<1>5. CASE Abort(t)
  <2>1. AbortTxn(t)
    BY <1>5 DEF Abort
  <2>3. op[t] \in Ops /\ attempts[t] \in 0 .. Retries + 1 /\ attempts[t] <= Retries
    BY <1>5 DEF TypeOK, Abort
  <2>4. attempts[t] + 1 \in 0 .. Retries + 1
    BY <2>3, LimitsAssumption
  <2>2. attempts' \in [Threads -> 0 .. Retries + 1]
    BY <1>5, <2>3, <2>4 DEF TypeOK, Abort
  <2> QED
    BY <1>5, <2>1, <2>2, <2>3, AbortTxnType DEF TypeOK, Abort
<1> QED
  BY <1>1, <1>2, <1>3, <1>4, <1>5, <1>6 DEF TxnEnd

\* Every step keeps the types.
LEMMA NextType == TypeOK /\ [Next]_vars => TypeOK'
<1> SUFFICES ASSUME TypeOK, [Next]_vars PROVE TypeOK'
  OBVIOUS
<1>1. ASSUME NEW t \in Threads, Accept(t) PROVE TypeOK'
  BY <1>1, StartType DEF Accept, EIO_Get, EIO_Put, EIO_PutIf, EIO_Del, GetS, PutS, DelS
<1>2. ASSUME NEW t \in Threads, TxnBegin(t) \/ TxnBeginFails(t) PROVE TypeOK'
  BY <1>2, TxnBeginType, TxnBeginFailsType
<1>3. ASSUME NEW t \in Threads, Call(t) PROVE TypeOK'
  BY <1>3, DbGetType, DbPutType, DbDelType DEF Call
<1>4. ASSUME NEW t \in Threads,
             LockWait(t) \/ LockDenied(t) \/ CallFails(t) \/ CallFailsHalfway(t)
      PROVE  TypeOK'
  BY <1>4, LockWaitType, LockDeniedType, CallFailsType, CallFailsHalfwayType
<1>5. ASSUME NEW t \in Threads, TxnEnd(t) PROVE TypeOK'
  BY <1>5, TxnEndType
<1>6. ASSUME NEW t \in Threads, Return(t) PROVE TypeOK'
  <2>1. status' \in [Threads -> Status] /\ value' \in [Threads -> Contents]
    BY <1>6 DEF TypeOK, Return, Status, Contents
  <2>2. attempts' \in [Threads -> 0 .. Retries + 1] /\ attempts'[t] <= Retries
    BY <1>6, LimitsAssumption DEF TypeOK, Return
  <2> QED
    BY <1>6, <2>1, <2>2 DEF TypeOK, Return, locks
<1>7. ASSUME EnvPanic PROVE TypeOK'
  BY <1>7 DEF TypeOK, EnvPanic, locks, baton
<1>8. ASSUME Crash PROVE TypeOK'
  <2>1. undo' \in [Threads -> Images]
    BY <1>8, NoImageType DEF Crash, Restart
  <2>2. attempts' \in [Threads -> 0 .. Retries + 1]
        /\ \A t \in Threads : attempts'[t] <= Retries
    BY <1>8, LimitsAssumption DEF Crash, Restart
  <2>3. /\ status' \in [Threads -> Status] /\ value' \in [Threads -> Contents]
        /\ rc' \in [Threads -> {OK, RUNRECOVERY, EIO}] /\ \A t \in Threads : rc'[t] = OK
    BY <1>8 DEF Crash, Restart, Status, Contents
  <2>4. waiters' \in [Pages -> Seq(Threads)]
    BY <1>8 DEF Crash, Restart
  <2>5. pc' \in [Threads -> {"idle", "begin", "get", "put", "del", "end", "commit", "out"}]
        /\ \A t \in Threads : pc'[t] = "idle"
    BY <1>8 DEF Crash, Restart
  <2>6. /\ rlock' \in [Pages -> SUBSET Threads]
        /\ wlock' \in [Pages -> SUBSET Threads]
        /\ txn' \in [Threads -> BOOLEAN]
        /\ op' \in [Threads -> Ops \cup {NoOp}]
        /\ panic' \in BOOLEAN
        /\ store' \in [Keys -> Contents] /\ logged' \in [Keys -> Contents]
    BY <1>8 DEF Crash, Restart, TypeOK
  <2> QED
    BY <2>1, <2>2, <2>3, <2>4, <2>5, <2>6 DEF TypeOK
<1>9. ASSUME UNCHANGED vars PROVE TypeOK'
  BY <1>9 DEF TypeOK, vars
<1> QED
  BY <1>1, <1>2, <1>3, <1>4, <1>5, <1>6, <1>7, <1>8, <1>9 DEF Next

\* Every reachable state is well typed, a thread is only ever inside a call that
\* its operation makes, and it retries at most _retries times.
THEOREM TypeCorrect == Spec => []TypeOK
  BY InitType, NextType, PTL DEF Spec

-----------------------------------------------------------------------------
(***************************************************************************)
(* The inductive invariant.  LockExclusion and DirtyIsOwned relate the     *)
(* threads to each other and to the two copies of the database; what is    *)
(* left is about one thread at a time.  It holds in a panic too, when      *)
(* commits already begun may still reach the log: only the claim that no   *)
(* transaction is left over then fails, because abort does nothing.        *)
(***************************************************************************)
\* What holds of thread t.
ThreadInv(t) ==
    /\ ~panic /\ pc[t] \in {"idle", "begin", "out"} => ~txn[t]
    /\ pc[t] \in Calls \cup {"end", "commit"} => txn[t]
    /\ pc[t] \in Calls => undo[t] = NoImage
    /\ pc[t] \in {"end", "commit"} /\ op[t].kind = "get" => undo[t] = NoImage
    /\ pc[t] \in {"end", "commit"} => DOMAIN undo[t] \subseteq {Key(t)}
    /\ ~txn[t] => undo[t] = NoImage /\ \A p \in Pages : t \notin rlock[p] \cup wlock[p]
    /\ \A k \in DOMAIN undo[t] : t \in wlock[PageOf[k]]
    /\ pc[t] = "put" /\ op[t].kind = "putIf" =>
          store[Key(t)] = op[t].old /\ t \in rlock[Page(t)]
    /\ pc[t] \in {"end", "commit"}
          /\ status[t] \in {OK, NOTFOUND, KEYEXIST, CONSISTENCY} =>
          /\ status[t] = Atomic!Outcome(op[t], logged)
          /\ t \in rlock[Page(t)] \cup wlock[Page(t)]
          /\ status[t] = OK =>
                /\ store[Key(t)] = Atomic!Effect(op[t], logged)[Key(t)]
                /\ op[t].kind # "get" => Key(t) \in DOMAIN undo[t]
                /\ value[t] = IF op[t].kind = "get" THEN logged[Key(t)] ELSE None

\* Only a get has a value to return.
ValueOfGet ==
    \A t \in Threads : pc[t] = "idle" \/ op[t].kind # "get" => value[t] = None

\* Before its transaction begins an operation has no return code but that of an
\* attempt that ended in a deadlock.
Untouched ==
    \A t \in Threads :
        /\ pc[t] = "idle" => status[t] = OK
        /\ pc[t] = "begin" => status[t] \in {OK, DEADLOCK}
        /\ pc[t] = "begin" /\ status[t] = OK => value[t] = None

IInv ==
    /\ TypeOK
    /\ LockExclusion
    /\ DirtyIsOwned
    /\ ValueOfGet
    /\ Untouched
    /\ \A t \in Threads : ThreadInv(t)

\* The inductive invariant holds at the start.
LEMMA InitInv == Init => IInv
<1> SUFFICES ASSUME Init PROVE IInv
  OBVIOUS
<1>1. TypeOK
  BY InitType
<1>2. LockExclusion
  BY DEF Init, LockExclusion
<1>3. DirtyIsOwned
  BY NoImageType DEF Init, DirtyIsOwned
<1>4. ValueOfGet /\ Untouched
  BY DEF Init, ValueOfGet, Untouched
<1>5. \A t \in Threads : ThreadInv(t)
  BY NoImageType DEF Init, ThreadInv, Calls
<1> QED
  BY <1>1, <1>2, <1>3, <1>4, <1>5 DEF IInv

\* The sequential answer and the effect at the operation's own key depend on
\* nothing but the contents of that key.
LEMMA OutcomeIsLocal ==
    ASSUME NEW o \in Ops, NEW r \in [Keys -> Contents], NEW s \in [Keys -> Contents],
           r[o.key] = s[o.key]
    PROVE  /\ Atomic!Outcome(o, r) = Atomic!Outcome(o, s)
           /\ Atomic!Effect(o, r)[o.key] = Atomic!Effect(o, s)[o.key]
<1>1. o.key \in Keys
  BY OpFields
<1>2. Atomic!Outcome(o, r) = Atomic!Outcome(o, s)
  BY <1>1 DEF Atomic!Outcome
<1> QED
  BY <1>1, <1>2 DEF Atomic!Effect

\* A thread that a step leaves alone keeps its part of the invariant, if the
\* step does not touch the key that the thread has a lock for.
LEMMA Frame ==
    ASSUME TypeOK, TypeOK', NEW u \in Threads, ThreadInv(u), panic => panic',
           pc'[u] = pc[u], op'[u] = op[u], status'[u] = status[u],
           value'[u] = value[u], txn'[u] = txn[u], undo'[u] = undo[u],
           \A p \in Pages : u \in rlock'[p] <=> u \in rlock[p],
           \A p \in Pages : u \in wlock'[p] <=> u \in wlock[p],
           op[u] \in Ops /\ u \in rlock[Page(u)] \cup wlock[Page(u)] =>
               store'[Key(u)] = store[Key(u)] /\ logged'[Key(u)] = logged[Key(u)]
    PROVE  ThreadInv(u)'
<1>1. \A k \in DOMAIN undo'[u] : u \in wlock'[PageOf[k]]
  <2>1. \A k \in DOMAIN undo[u] : PageOf[k] \in Pages
    BY ImageElim, PagesAssumption DEF TypeOK
  <2> QED
    BY <2>1 DEF ThreadInv
<1>2. CASE pc[u] \in {"idle", "begin", "out"}
  BY <1>1, <1>2 DEF ThreadInv, Calls
<1>3. CASE pc[u] \notin {"idle", "begin", "out"}
  <2>1. op[u] \in Ops
    BY <1>3 DEF TypeOK
  <2>2. Key(u) \in Keys /\ Page(u) \in Pages /\ Key(u)' = Key(u) /\ Page(u)' = Page(u)
    BY <2>1, OpFields DEF Key, Page
  <2>3. CASE ~(u \in rlock[Page(u)] \cup wlock[Page(u)])
    BY <1>1, <1>3, <2>2, <2>3 DEF ThreadInv
  <2>4. CASE u \in rlock[Page(u)] \cup wlock[Page(u)]
    <3>1. store'[Key(u)] = store[Key(u)] /\ logged'[Key(u)] = logged[Key(u)]
      BY <2>1, <2>4
    <3>2. /\ Atomic!Outcome(op[u], logged') = Atomic!Outcome(op[u], logged)
          /\ Atomic!Effect(op[u], logged')[Key(u)] = Atomic!Effect(op[u], logged)[Key(u)]
      BY <2>1, <3>1, OutcomeIsLocal DEF TypeOK, Key
    <3> QED
      BY <1>1, <1>3, <2>2, <2>4, <3>1, <3>2 DEF ThreadInv
  <2> QED
    BY <2>3, <2>4
<1> QED
  BY <1>2, <1>3

-----------------------------------------------------------------------------
(***************************************************************************)
(* The three kinds of step: those that leave locks and data alone, those   *)
(* that are granted a lock, and those that end a transaction.              *)
(***************************************************************************)
\* A step of thread t that changes none of the data, locks and transactions.
Quiet(t) ==
    /\ UNCHANGED <<store, logged, panic, rlock, wlock, txn, undo>>
    /\ \A u \in Threads : u # t =>
          /\ pc'[u] = pc[u] /\ op'[u] = op[u]
          /\ status'[u] = status[u] /\ value'[u] = value[u]

\* A step that leaves the store, the locks and the transactions alone, and
\* keeps what is claimed of its own thread, keeps the invariant.
LEMMA QuietInv ==
    ASSUME IInv, TypeOK', NEW t \in Threads, Quiet(t), ValueOfGet', Untouched',
           ThreadInv(t)'
    PROVE  IInv'
<1>1. LockExclusion'
  BY DEF IInv, LockExclusion, Quiet
<1>2. DirtyIsOwned'
  BY DEF IInv, DirtyIsOwned, Quiet
<1>3. ASSUME NEW u \in Threads, u # t PROVE ThreadInv(u)'
  BY <1>3, Frame DEF IInv, Quiet
<1> QED
  BY <1>1, <1>2, <1>3 DEF IInv, Quiet

\* Taking up an operation keeps the invariant.
LEMMA AcceptInv ==
    ASSUME IInv, NEW t \in Threads, Accept(t)
    PROVE  IInv'
<1>1. PICK kind \in {"get", "put", "putIf", "del"} : Start(t, kind)
  BY DEF Accept, EIO_Get, EIO_Put, EIO_PutIf, EIO_Del, GetS, PutS, DelS
<1>2. TypeOK'
  BY <1>1, StartType DEF IInv
<1>3. PICK o \in Ops : op' = [op EXCEPT ![t] = o]
  BY <1>1 DEF Start
<1>4. Quiet(t)
  BY <1>1, <1>3 DEF Quiet, Start, locks, IInv, TypeOK
<1>5. pc[t] = "idle" /\ pc'[t] = "begin" /\ value'[t] = None /\ status'[t] = OK
  BY <1>1 DEF IInv, ValueOfGet, Untouched, Start, TypeOK
<1>6. ValueOfGet' /\ Untouched'
  BY <1>4, <1>5 DEF IInv, ValueOfGet, Untouched, Quiet
<1>7. ThreadInv(t)'
  BY <1>4, <1>5 DEF IInv, ThreadInv, Quiet, Calls
<1> QED
  BY <1>2, <1>4, <1>6, <1>7, QuietInv

\* A failed txn_begin leaves the thread without a transaction.
LEMMA TxnBeginFailsInv ==
    ASSUME IInv, NEW t \in Threads, TxnBeginFails(t)
    PROVE  IInv'
<1>1. TypeOK'
  BY TxnBeginFailsType DEF IInv
<1>2. Quiet(t)
  BY DEF Quiet, TxnBeginFails, locks, IInv, TypeOK
<1>3. ValueOfGet' /\ Untouched'
  BY DEF TxnBeginFails, IInv, ValueOfGet, Untouched, TypeOK
<1>4. ThreadInv(t)'
  BY <1>2 DEF TxnBeginFails, IInv, ThreadInv, Quiet, Calls, TypeOK
<1> QED
  BY <1>1, <1>2, <1>3, <1>4, QuietInv

\* Waiting for a lock claims nothing.
LEMMA LockWaitInv ==
    ASSUME IInv, NEW t \in Threads, LockWait(t)
    PROVE  IInv'
<1>1. TypeOK'
  BY LockWaitType DEF IInv
<1>2. Quiet(t)
  BY DEF Quiet, LockWait, baton
<1>3. ValueOfGet' /\ Untouched'
  BY DEF LockWait, baton, IInv, ValueOfGet, Untouched
<1>4. ThreadInv(t)'
  BY DEF LockWait, baton, IInv, ThreadInv, Key, Page
<1> QED
  BY <1>1, <1>2, <1>3, <1>4, QuietInv

\* A call that is refused its lock, or fails with nothing done, leaves an error
\* to TXN_END.
LEMMA CallGivesUpInv ==
    ASSUME IInv, NEW t \in Threads, LockDenied(t) \/ CallFails(t)
    PROVE  IInv'
<1>1. TypeOK'
  BY LockDeniedType, CallFailsType DEF IInv
<1>2. Quiet(t)
  BY DEF Quiet, LockDenied, CallFails, locks, baton, IInv, TypeOK
<1>3. ValueOfGet'
  BY DEF LockDenied, CallFails, baton, IInv, ValueOfGet, TypeOK, Calls
<1>4. /\ pc[t] \in Calls /\ pc'[t] = "end" /\ op'[t] = op[t]
      /\ status'[t] \in {DEADLOCK, RUNRECOVERY, EIO}
  BY DEF LockDenied, CallFails, Failure, baton, IInv, TypeOK
<1>5. status'[t] \notin {OK, NOTFOUND, KEYEXIST, CONSISTENCY}
  BY <1>4 DEF DEADLOCK, RUNRECOVERY, EIO, OK, NOTFOUND, KEYEXIST, CONSISTENCY
<1>6. ThreadInv(t)'
  BY <1>2, <1>4, <1>5, NoImageType DEF IInv, ThreadInv, Quiet, Calls
<1>7. Untouched'
  BY <1>2, <1>4 DEF IInv, Untouched, Quiet
<1> QED
  BY <1>1, <1>2, <1>3, <1>6, <1>7, QuietInv

\* The call of commit changes nothing yet.
LEMMA CommitBeginsInv ==
    ASSUME IInv, NEW t \in Threads, CommitBegins(t)
    PROVE  IInv'
<1>1. TypeOK'
  BY TxnEndType DEF IInv, TxnEnd
<1>2. Quiet(t)
  BY DEF Quiet, CommitBegins, locks, baton, IInv, TypeOK
<1>3. ValueOfGet' /\ Untouched'
  BY DEF CommitBegins, baton, IInv, ValueOfGet, Untouched, TypeOK
<1>4. pc[t] = "end" /\ pc'[t] = "commit" /\ UNCHANGED <<op, status, value>>
  BY DEF CommitBegins, baton, IInv, TypeOK
<1>5. Key(t)' = Key(t) /\ Page(t)' = Page(t)
  BY <1>4 DEF Key, Page
<1>6. ThreadInv(t)'
  BY <1>2, <1>4, <1>5 DEF IInv, ThreadInv, Quiet, Calls
<1> QED
  BY <1>1, <1>2, <1>3, <1>6, QuietInv

\* Answering the caller keeps the invariant.
LEMMA ReturnInv ==
    ASSUME IInv, NEW t \in Threads, Return(t)
    PROVE  IInv'
<1>1. TypeOK'
  BY NextType DEF IInv, Next
<1>2. Quiet(t)
  BY DEF Quiet, Return, locks, IInv, TypeOK
<1>3. ValueOfGet' /\ Untouched'
  BY DEF Return, IInv, ValueOfGet, Untouched, TypeOK
<1>4. ThreadInv(t)'
  BY <1>2 DEF Return, IInv, ThreadInv, Quiet, Calls, TypeOK
<1> QED
  BY <1>1, <1>2, <1>3, <1>4, QuietInv

\* A transaction begins with no lock and no write.
LEMMA TxnBeginInv ==
    ASSUME IInv, NEW t \in Threads, TxnBegin(t)
    PROVE  IInv'
<1>1. TypeOK'
  BY TxnBeginType DEF IInv
<1>2. /\ pc[t] = "begin" /\ pc'[t] \in Calls /\ txn'[t]
      /\ op' = op /\ value' = value /\ status' = status /\ ~panic
      /\ ~(pc'[t] = "put" /\ op[t].kind = "putIf")
  <2>1. op[t] \in Ops
    BY DEF TxnBegin, IInv, TypeOK
  <2> QED
    BY <2>1, OpFields DEF TxnBegin, baton, FirstCall, Calls, IInv, TypeOK
<1>3. LockExclusion' /\ DirtyIsOwned'
  BY DEF TxnBegin, locks, IInv, LockExclusion, DirtyIsOwned
<1>4. ValueOfGet' /\ Untouched'
  BY <1>2 DEF IInv, ValueOfGet, Untouched, TxnBegin, TypeOK, Calls
<1>5. ASSUME NEW u \in Threads, u # t PROVE ThreadInv(u)'
  BY <1>1, <1>5, Frame DEF TxnBegin, locks, baton, IInv, TypeOK
<1>6. ThreadInv(t)'
  <2>1. undo[t] = NoImage /\ undo' = undo
    BY <1>2 DEF IInv, ThreadInv, TxnBegin
  <2> QED
    BY <1>2, <2>1, NoImageType DEF ThreadInv, Calls
<1> QED
  BY <1>1, <1>3, <1>4, <1>5, <1>6 DEF IInv

\* A call that is granted its lock sees committed data: nobody else has written
\* the key, and the transaction itself has written nothing yet.
LEMMA GrantedIsClean ==
    ASSUME IInv, ~panic, NEW t \in Threads, pc[t] \in Calls, Grantable(t)
    PROVE  /\ op[t] \in Ops /\ Key(t) \in Keys /\ Page(t) \in Pages
           /\ txn[t] /\ undo[t] = NoImage
           /\ \A u \in Threads : Key(t) \notin DOMAIN undo[u]
           /\ store[Key(t)] = logged[Key(t)]
<1>1. op[t] \in Ops /\ undo[t] = NoImage /\ txn[t]
  BY DEF IInv, TypeOK, ThreadInv, Calls
<1>2. Key(t) \in Keys /\ Page(t) \in Pages /\ Page(t) = PageOf[Key(t)]
  BY <1>1, OpFields DEF Key, Page
<1>3. ASSUME NEW u \in Threads PROVE Key(t) \notin DOMAIN undo[u]
  <2>1. CASE u = t
    BY <1>1, <2>1, NoImageType
  <2>2. CASE u # t
    BY <1>2, <2>2 DEF Grantable, Conflicts, IInv, ThreadInv
  <2> QED
    BY <2>1, <2>2
<1>4. store[Key(t)] = logged[Key(t)]
  BY <1>2, <1>3 DEF IInv, DirtyIsOwned, TypeOK
<1> QED
  BY <1>1, <1>2, <1>3, <1>4

\* What a grant does to the lock table.
LEMMA GrantLocks ==
    ASSUME IInv, NEW t \in Threads, op[t] \in Ops, Grantable(t), Grant(t)
    PROVE  /\ LockExclusion'
           /\ \A u \in Threads, p \in Pages : u # t =>
                 (u \in rlock'[p] <=> u \in rlock[p]) /\ (u \in wlock'[p] <=> u \in wlock[p])
           /\ \A p \in Pages : rlock[p] \subseteq rlock'[p] /\ wlock[p] \subseteq wlock'[p]
           /\ WantsWrite(t) => t \in wlock'[Page(t)]
           /\ ~WantsWrite(t) => t \in rlock'[Page(t)]
<1>1. Page(t) \in Pages
  BY OpFields DEF Page, Key
<1>2. /\ \A u \in Threads : u # t => u \notin wlock[Page(t)]
      /\ WantsWrite(t) => \A u \in Threads : u # t => u \notin rlock[Page(t)]
  BY DEF Grantable, Conflicts
<1>3. rlock \in [Pages -> SUBSET Threads] /\ wlock \in [Pages -> SUBSET Threads]
  BY DEF IInv, TypeOK
<1>4. CASE WantsWrite(t)
  <2>1. rlock' = rlock /\ wlock' = [wlock EXCEPT ![Page(t)] = @ \cup {t}]
    BY <1>4 DEF Grant
  <2>2. LockExclusion'
    BY <1>1, <1>2, <1>3, <1>4, <2>1 DEF IInv, LockExclusion
  <2> QED
    BY <1>1, <1>3, <1>4, <2>1, <2>2
<1>5. CASE ~WantsWrite(t)
  <2>1. wlock' = wlock /\ rlock' = [rlock EXCEPT ![Page(t)] = @ \cup {t}]
    BY <1>5 DEF Grant
  <2>2. LockExclusion'
    BY <1>1, <1>2, <1>3, <1>5, <2>1 DEF IInv, LockExclusion
  <2> QED
    BY <1>1, <1>3, <1>5, <2>1, <2>2
<1> QED
  BY <1>4, <1>5

\* A granted db->get sees the committed value and keeps it locked.
LEMMA DbGetInv ==
    ASSUME IInv, NEW t \in Threads, DbGet(t)
    PROVE  IInv'
<1>1. TypeOK'
  BY DbGetType DEF IInv
<1>2. /\ ~panic /\ pc[t] = "get" /\ Grantable(t) /\ Grant(t)
      /\ UNCHANGED <<store, logged, panic, txn, undo, op>>
  BY DEF DbGet
<1>3. /\ op[t] \in Ops /\ Key(t) \in Keys /\ Page(t) \in Pages
      /\ txn[t] /\ undo[t] = NoImage /\ store[Key(t)] = logged[Key(t)]
      /\ op[t].kind \in {"get", "putIf"}
  BY <1>2, GrantedIsClean DEF Calls, IInv, TypeOK
<1>4. /\ pc'[t] = IF op[t].kind = "putIf" /\ GetStatus(t) = OK THEN "put" ELSE "end"
      /\ status'[t] = GetStatus(t)
      /\ value'[t] = IF op[t].kind = "get" THEN store[Key(t)] ELSE None
      /\ \A u \in Threads : u # t =>
            pc'[u] = pc[u] /\ status'[u] = status[u] /\ value'[u] = value[u]
  BY DEF DbGet, IInv, TypeOK
<1>5. LockExclusion'
  BY <1>2, <1>3, GrantLocks
<1>6. DirtyIsOwned'
  <2>1. \A p \in Pages : wlock[p] \subseteq wlock'[p]
    BY <1>2, <1>3, GrantLocks
  <2>2. \A u \in Threads : \A k \in DOMAIN undo[u] : k \in Keys
    BY ImageElim DEF IInv, TypeOK
  <2>3. \A k \in Keys : PageOf[k] \in Pages
    BY PagesAssumption
  <2> QED
    BY <1>2, <2>1, <2>2, <2>3 DEF IInv, DirtyIsOwned
<1>7. ValueOfGet' /\ Untouched'
  BY <1>2, <1>4 DEF IInv, ValueOfGet, Untouched
<1>8. ASSUME NEW u \in Threads, u # t PROVE ThreadInv(u)'
  BY <1>1, <1>2, <1>3, <1>4, <1>8, GrantLocks, Frame DEF IInv
<1>9. ThreadInv(t)'
  <2>1. t \in rlock'[Page(t)] \cup wlock'[Page(t)]
    BY <1>2, <1>3, GrantLocks
  <2>2. op[t].kind = "putIf" => t \in rlock'[Page(t)]
    <3>1. op[t].kind = "putIf" => ~WantsWrite(t)
      BY <1>2 DEF WantsWrite
    <3> QED
      BY <1>2, <1>3, <3>1, GrantLocks
  <2>3. op[t].kind = "putIf" /\ GetStatus(t) = OK => store[Key(t)] = op[t].old
    BY DEF GetStatus, OK, NOTFOUND, CONSISTENCY
  <2>4. pc'[t] = "end" => GetStatus(t) = Atomic!Outcome(op[t], logged)
    BY <1>3, <1>4 DEF GetStatus, Atomic!Outcome, Key, OK, NOTFOUND, CONSISTENCY,
       Atomic!OK, Atomic!NOTFOUND, Atomic!CONSISTENCY
  <2>5. pc'[t] = "end" /\ GetStatus(t) = OK =>
           op[t].kind = "get" /\ Atomic!Effect(op[t], logged) = logged
    BY <1>3, <1>4 DEF Atomic!Effect
  <2>6. Key(t)' = Key(t) /\ Page(t)' = Page(t)
    BY <1>2 DEF Key, Page
  <2>7. pc'[t] \in {"put", "end"}
    BY <1>4
  <2> QED
    BY <1>2, <1>3, <1>4, <2>1, <2>2, <2>3, <2>4, <2>5, <2>6, <2>7, NoImageType
       DEF ThreadInv, Calls
<1> QED
  BY <1>1, <1>2, <1>5, <1>6, <1>7, <1>8, <1>9 DEF IInv

\* A put or del that is granted its lock and writes c: either c and the return
\* code 0 are what the committed contents call for, or the call then fails.
LEMMA WriteStepInv ==
    ASSUME IInv, TypeOK', NEW t \in Threads, NEW c \in Contents, NEW s \in Status,
           ~panic, pc[t] \in {"put", "del"}, Grantable(t), Grant(t), Write(t, c),
           pc' = [pc EXCEPT ![t] = "end"], status' = [status EXCEPT ![t] = s],
           UNCHANGED <<logged, panic, txn, baton>>,
           \/ /\ s = OK
              /\ Atomic!Outcome(op[t], logged) = OK
              /\ Atomic!Effect(op[t], logged)[Key(t)] = c
           \/ s \notin {OK, NOTFOUND, KEYEXIST, CONSISTENCY}
    PROVE  IInv'
<1>1. /\ op[t] \in Ops /\ Key(t) \in Keys /\ Page(t) \in Pages
      /\ txn[t] /\ undo[t] = NoImage
      /\ \A u \in Threads : Key(t) \notin DOMAIN undo[u]
      /\ store[Key(t)] = logged[Key(t)]
  BY GrantedIsClean DEF Calls
<1>2. op' = op /\ value' = value /\ WantsWrite(t) /\ op[t].kind # "get"
  BY DEF baton, WantsWrite, IInv, TypeOK
<1>3. /\ Page(t) = PageOf[Key(t)] /\ Key(t)' = Key(t) /\ Page(t)' = Page(t)
      /\ \A k \in Keys : PageOf[k] \in Pages
  BY <1>2, PagesAssumption DEF Page, Key
<1>4. /\ LockExclusion'
      /\ \A u \in Threads, p \in Pages : u # t =>
            (u \in rlock'[p] <=> u \in rlock[p]) /\ (u \in wlock'[p] <=> u \in wlock[p])
      /\ \A p \in Pages : wlock[p] \subseteq wlock'[p]
      /\ t \in wlock'[Page(t)]
  BY <1>1, <1>2, GrantLocks
<1>5. store' = [store EXCEPT ![Key(t)] = c]
  BY DEF Write
<1>6. \A u \in Threads : \A k \in DOMAIN undo[u] : k \in Keys
  BY ImageElim DEF IInv, TypeOK
<1>7. /\ \A u \in Threads : u # t => undo'[u] = undo[u]
      /\ DOMAIN undo'[t] = {Key(t)}
      /\ undo'[t][Key(t)] = store[Key(t)]
  BY <1>1, NoImageType DEF Write, IInv, TypeOK
<1>8. DirtyIsOwned'
  <2>1. ASSUME NEW k \in Keys, store'[k] # logged'[k]
        PROVE  \E u \in wlock'[PageOf[k]] : k \in DOMAIN undo'[u]
    <3>1. CASE k = Key(t)
      BY <1>3, <1>4, <1>7, <3>1
    <3>2. CASE k # Key(t)
      <4>1. store[k] # logged[k]
        BY <1>5, <2>1, <3>2 DEF IInv, TypeOK
      <4>2. PICK u \in wlock[PageOf[k]] : k \in DOMAIN undo[u]
        BY <4>1 DEF IInv, DirtyIsOwned
      <4>3. u \in Threads /\ u # t
        BY <1>1, <1>3, <4>2, NoImageType DEF IInv, TypeOK
      <4> QED
        BY <1>3, <1>4, <1>7, <4>2, <4>3
    <3> QED
      BY <3>1, <3>2
  <2>2. ASSUME NEW u \in Threads, NEW k \in DOMAIN undo'[u]
        PROVE  u \in wlock'[PageOf[k]] /\ undo'[u][k] = logged'[k]
    <3>1. CASE u = t
      BY <1>1, <1>3, <1>4, <1>7, <3>1
    <3>2. CASE u # t
      BY <1>3, <1>4, <1>6, <1>7, <3>2 DEF IInv, DirtyIsOwned
    <3> QED
      BY <3>1, <3>2
  <2> QED
    BY <2>1, <2>2 DEF DirtyIsOwned
<1>9. ValueOfGet' /\ Untouched'
  BY <1>2 DEF IInv, ValueOfGet, Untouched, TypeOK
<1>10. ASSUME NEW u \in Threads, u # t PROVE ThreadInv(u)'
  <2>1. op[u] \in Ops /\ u \in rlock[Page(u)] \cup wlock[Page(u)] => Key(u) # Key(t)
    BY <1>2, <1>10 DEF Grantable, Conflicts, Page, Key
  <2>2. op[u] \in Ops /\ u \in rlock[Page(u)] \cup wlock[Page(u)] =>
           store'[Key(u)] = store[Key(u)] /\ logged'[Key(u)] = logged[Key(u)]
    BY <1>5, <2>1, OpFields DEF IInv, TypeOK, Key
  <2>3. pc'[u] = pc[u] /\ status'[u] = status[u]
    BY <1>10 DEF IInv, TypeOK
  <2> QED
    BY <1>2, <1>4, <1>7, <1>10, <2>2, <2>3, Frame DEF IInv
<1>11. ThreadInv(t)'
  <2>1. pc'[t] = "end" /\ status'[t] = s /\ store'[Key(t)] = c
    BY <1>1, <1>5 DEF IInv, TypeOK
  <2>2. value[t] = None
    BY <1>2 DEF IInv, ValueOfGet
  <2> QED
    BY <1>1, <1>2, <1>3, <1>4, <1>7, <2>1, <2>2 DEF ThreadInv, Calls
<1> QED
  BY <1>4, <1>8, <1>9, <1>10, <1>11 DEF IInv

\* A put or del that is granted its lock and finds that it has nothing to write.
LEMMA NoWriteStepInv ==
    ASSUME IInv, TypeOK', NEW t \in Threads, NEW s \in {KEYEXIST, NOTFOUND},
           ~panic, pc[t] \in {"put", "del"}, Grantable(t), Grant(t),
           pc' = [pc EXCEPT ![t] = "end"], status' = [status EXCEPT ![t] = s],
           UNCHANGED <<store, logged, undo, panic, txn, baton>>,
           Atomic!Outcome(op[t], logged) = s
    PROVE  IInv'
<1>1. /\ op[t] \in Ops /\ Key(t) \in Keys /\ Page(t) \in Pages
      /\ txn[t] /\ undo[t] = NoImage
  BY GrantedIsClean DEF Calls
<1>2. op' = op /\ value' = value /\ WantsWrite(t) /\ op[t].kind # "get"
  BY DEF baton, WantsWrite, IInv, TypeOK
<1>3. /\ LockExclusion'
      /\ \A u \in Threads, p \in Pages : u # t =>
            (u \in rlock'[p] <=> u \in rlock[p]) /\ (u \in wlock'[p] <=> u \in wlock[p])
      /\ \A p \in Pages : wlock[p] \subseteq wlock'[p]
      /\ t \in wlock'[Page(t)]
  BY <1>1, <1>2, GrantLocks
<1>4. DirtyIsOwned'
  <2>1. \A u \in Threads : \A k \in DOMAIN undo[u] : k \in Keys
    BY ImageElim DEF IInv, TypeOK
  <2> QED
    BY <1>3, <2>1, PagesAssumption DEF IInv, DirtyIsOwned
<1>5. ValueOfGet' /\ Untouched'
  BY <1>2 DEF IInv, ValueOfGet, Untouched, TypeOK
<1>6. ASSUME NEW u \in Threads, u # t PROVE ThreadInv(u)'
  <2>1. pc'[u] = pc[u] /\ status'[u] = status[u]
    BY <1>6 DEF IInv, TypeOK
  <2> QED
    BY <1>2, <1>3, <1>6, <2>1, Frame DEF IInv
<1>7. ThreadInv(t)'
  <2>1. pc'[t] = "end" /\ status'[t] = s /\ s # OK
    BY DEF IInv, TypeOK, OK, KEYEXIST, NOTFOUND
  <2>2. Key(t)' = Key(t) /\ Page(t)' = Page(t)
    BY <1>2 DEF Key, Page
  <2> QED
    BY <1>1, <1>2, <1>3, <2>1, <2>2, NoImageType DEF ThreadInv, Calls
<1> QED
  BY <1>3, <1>4, <1>5, <1>6, <1>7 DEF IInv

\* A granted db->put keeps the invariant.
LEMMA DbPutInv ==
    ASSUME IInv, NEW t \in Threads, DbPut(t)
    PROVE  IInv'
<1>1. TypeOK'
  BY DbPutType DEF IInv
<1>2. /\ ~panic /\ pc[t] = "put" /\ Grantable(t) /\ Grant(t)
      /\ pc' = [pc EXCEPT ![t] = "end"] /\ UNCHANGED <<logged, panic, txn, baton>>
  BY DEF DbPut
<1>3. /\ op[t] \in Ops /\ Key(t) \in Keys /\ store[Key(t)] = logged[Key(t)]
      /\ op[t].kind \in {"put", "putIf"}
  BY <1>2, GrantedIsClean DEF Calls, IInv, TypeOK
<1>4. op[t].val \in Contents /\ (op[t].kind = "putIf" => op[t].old # None)
  BY <1>3, OpFields, ContentsAssumption
<1>5. op[t].kind = "putIf" => logged[Key(t)] = op[t].old
  BY <1>2, <1>3 DEF IInv, ThreadInv
<1>6. CASE op[t].flags = "DB_NOOVERWRITE" /\ store[Key(t)] # None
  <2>1. Atomic!Outcome(op[t], logged) = KEYEXIST
    BY <1>3, <1>4, <1>5, <1>6 DEF Atomic!Outcome, Key, KEYEXIST, Atomic!KEYEXIST
  <2>2. status' = [status EXCEPT ![t] = KEYEXIST] /\ UNCHANGED <<store, undo>>
    BY <1>6 DEF DbPut
  <2> QED
    BY <1>1, <1>2, <2>1, <2>2, NoWriteStepInv
<1>7. CASE ~(op[t].flags = "DB_NOOVERWRITE" /\ store[Key(t)] # None)
  <2>1. Atomic!Outcome(op[t], logged) = OK
    BY <1>3, <1>4, <1>5, <1>7 DEF Atomic!Outcome, Key, OK, Atomic!OK
  <2>2. Atomic!Effect(op[t], logged)[Key(t)] = op[t].val
    BY <1>3, <2>1 DEF Atomic!Effect, Key, IInv, TypeOK, OK, Atomic!OK
  <2>3. status' = [status EXCEPT ![t] = OK] /\ Write(t, op[t].val)
    BY <1>7 DEF DbPut
  <2>4. OK \in Status
    BY DEF Status
  <2> QED
    BY <1>1, <1>2, <1>4, <2>1, <2>2, <2>3, <2>4, WriteStepInv
<1> QED
  BY <1>6, <1>7

\* A granted db->del keeps the invariant.
LEMMA DbDelInv ==
    ASSUME IInv, NEW t \in Threads, DbDel(t)
    PROVE  IInv'
<1>1. TypeOK'
  BY DbDelType DEF IInv
<1>2. /\ ~panic /\ pc[t] = "del" /\ Grantable(t) /\ Grant(t)
      /\ pc' = [pc EXCEPT ![t] = "end"] /\ UNCHANGED <<logged, panic, txn, baton>>
  BY DEF DbDel
<1>3. /\ op[t] \in Ops /\ Key(t) \in Keys /\ store[Key(t)] = logged[Key(t)]
      /\ op[t].kind = "del"
  BY <1>2, GrantedIsClean DEF Calls, IInv, TypeOK
<1>4. None \in Contents /\ OK \in Status
  BY DEF Contents, Status
<1>5. CASE store[Key(t)] = None
  <2>1. Atomic!Outcome(op[t], logged) = NOTFOUND
    BY <1>3, <1>5 DEF Atomic!Outcome, Key, NOTFOUND, Atomic!NOTFOUND
  <2>2. status' = [status EXCEPT ![t] = NOTFOUND] /\ UNCHANGED <<store, undo>>
    BY <1>5 DEF DbDel
  <2> QED
    BY <1>1, <1>2, <2>1, <2>2, NoWriteStepInv
<1>6. CASE store[Key(t)] # None
  <2>1. Atomic!Outcome(op[t], logged) = OK
    BY <1>3, <1>6 DEF Atomic!Outcome, Key, OK, Atomic!OK
  <2>2. Atomic!Effect(op[t], logged)[Key(t)] = None
    BY <1>3, <2>1 DEF Atomic!Effect, Key, IInv, TypeOK, OK, Atomic!OK
  <2>3. status' = [status EXCEPT ![t] = OK] /\ Write(t, None)
    BY <1>6 DEF DbDel
  <2> QED
    BY <1>1, <1>2, <1>4, <2>1, <2>2, <2>3, WriteStepInv
<1> QED
  BY <1>5, <1>6

\* A put or del that fails when it has written something leaves it to the abort.
LEMMA CallFailsHalfwayInv ==
    ASSUME IInv, NEW t \in Threads, CallFailsHalfway(t)
    PROVE  IInv'
<1>1. TypeOK'
  BY CallFailsHalfwayType DEF IInv
<1>2. op[t] \in Ops
  BY DEF CallFailsHalfway, IInv, TypeOK
<1>3. PICK c \in Contents : Write(t, c)
  BY <1>2, OpFields DEF CallFailsHalfway, Contents
<1>4. Failure \in Status /\ Failure \notin {OK, NOTFOUND, KEYEXIST, CONSISTENCY}
  BY DEF Failure, Status, RUNRECOVERY, EIO, OK, NOTFOUND, KEYEXIST, CONSISTENCY
<1> QED
  BY <1>1, <1>3, <1>4, WriteStepInv DEF CallFailsHalfway

\* What the end of a transaction does to the lock table.
LEMMA EndTxnLocks ==
    ASSUME IInv, NEW t \in Threads, EndTxn(t)
    PROVE  /\ LockExclusion'
           /\ \A p \in Pages : t \notin rlock'[p] \cup wlock'[p]
           /\ \A u \in Threads, p \in Pages : u # t =>
                 (u \in rlock'[p] <=> u \in rlock[p]) /\ (u \in wlock'[p] <=> u \in wlock[p])
           /\ txn'[t] = FALSE /\ undo'[t] = NoImage
           /\ \A u \in Threads : u # t => txn'[u] = txn[u] /\ undo'[u] = undo[u]
<1>1. LockExclusion'
  BY DEF EndTxn, IInv, LockExclusion
<1> QED
  BY <1>1 DEF EndTxn, IInv, TypeOK

\* A key that thread t has written is nobody else's: neither written nor locked.
LEMMA WrittenIsExclusive ==
    ASSUME IInv, NEW t \in Threads, NEW k \in DOMAIN undo[t], NEW u \in Threads, u # t
    PROVE  /\ k \in Keys /\ PageOf[k] \in Pages
           /\ k \notin DOMAIN undo[u]
           /\ u \notin rlock[PageOf[k]] \cup wlock[PageOf[k]]
<1>1. k \in Keys /\ PageOf[k] \in Pages
  BY ImageElim, PagesAssumption DEF IInv, TypeOK
<1>2. t \in wlock[PageOf[k]]
  BY DEF IInv, ThreadInv
<1>3. u \notin rlock[PageOf[k]] \cup wlock[PageOf[k]]
  BY <1>1, <1>2 DEF IInv, LockExclusion
<1> QED
  BY <1>1, <1>3 DEF IInv, ThreadInv

\* A step of t that changes store and log at nothing but the keys t has written
\* keeps what is claimed of every other thread.
LEMMA OthersUntouched ==
    ASSUME IInv, TypeOK', NEW t \in Threads, NEW u \in Threads, u # t,
           pc'[u] = pc[u], status'[u] = status[u], txn'[u] = txn[u], undo'[u] = undo[u],
           \A p \in Pages : u \in rlock'[p] <=> u \in rlock[p],
           \A p \in Pages : u \in wlock'[p] <=> u \in wlock[p],
           \A k \in Keys : k \notin DOMAIN undo[t] =>
               store'[k] = store[k] /\ logged'[k] = logged[k],
           UNCHANGED <<panic, op, value>>
    PROVE  ThreadInv(u)'
<1>1. op[u] \in Ops /\ u \in rlock[Page(u)] \cup wlock[Page(u)] =>
         Key(u) \notin DOMAIN undo[t]
  BY WrittenIsExclusive DEF Page
<1>2. op[u] \in Ops /\ u \in rlock[Page(u)] \cup wlock[Page(u)] =>
         store'[Key(u)] = store[Key(u)] /\ logged'[Key(u)] = logged[Key(u)]
  BY <1>1, OpFields DEF Key
<1> QED
  BY <1>2, Frame DEF IInv

\* Every way out of TXN_END that aborts.
LEMMA AbortStepInv ==
    ASSUME IInv, TypeOK', NEW t \in Threads, NEW next \in {"begin", "out"},
           pc[t] \in {"end", "commit"}, AbortTxn(t), pc' = [pc EXCEPT ![t] = next],
           \A u \in Threads : u # t => status'[u] = status[u],
           next = "begin" => status'[t] = DEADLOCK,
           UNCHANGED <<logged, panic, op, value>>
    PROVE  IInv'
<1>1. ValueOfGet' /\ Untouched'
  BY DEF IInv, ValueOfGet, Untouched, TypeOK, OK, DEADLOCK
<1>2. pc'[t] = next /\ \A u \in Threads : u # t => pc'[u] = pc[u]
  BY DEF IInv, TypeOK
<1>3. CASE panic
  <2>1. UNCHANGED <<store, rlock, wlock, txn, undo>>
    BY <1>3 DEF AbortTxn
  <2>2. LockExclusion' /\ DirtyIsOwned'
    BY <1>3, <2>1 DEF IInv, LockExclusion, DirtyIsOwned
  <2>3. ASSUME NEW u \in Threads, u # t PROVE ThreadInv(u)'
    BY <1>2, <2>1, <2>3, OthersUntouched
  <2>4. ThreadInv(t)'
    BY <1>2, <1>3, <2>1 DEF IInv, ThreadInv, Calls
  <2> QED
    BY <1>1, <2>2, <2>3, <2>4 DEF IInv
<1>4. CASE ~panic
  <2>1. /\ store' = [k \in Keys |-> IF k \in DOMAIN undo[t] THEN undo[t][k] ELSE store[k]]
        /\ EndTxn(t)
    BY <1>4 DEF AbortTxn
  <2>2. /\ LockExclusion'
        /\ \A p \in Pages : t \notin rlock'[p] \cup wlock'[p]
        /\ \A u \in Threads, p \in Pages : u # t =>
              (u \in rlock'[p] <=> u \in rlock[p]) /\ (u \in wlock'[p] <=> u \in wlock[p])
        /\ txn'[t] = FALSE /\ undo'[t] = NoImage
        /\ \A u \in Threads : u # t => txn'[u] = txn[u] /\ undo'[u] = undo[u]
    BY <2>1, EndTxnLocks
  <2>3. DirtyIsOwned'
    <3>1. ASSUME NEW k \in Keys, store'[k] # logged'[k]
          PROVE  \E u \in wlock'[PageOf[k]] : k \in DOMAIN undo'[u]
      <4>1. k \notin DOMAIN undo[t] /\ store[k] # logged[k]
        BY <1>4, <2>1, <3>1 DEF IInv, DirtyIsOwned
      <4>2. PICK u \in wlock[PageOf[k]] : k \in DOMAIN undo[u]
        BY <1>4, <4>1 DEF IInv, DirtyIsOwned
      <4>3. u \in Threads /\ u # t /\ PageOf[k] \in Pages
        BY <4>1, <4>2, PagesAssumption DEF IInv, TypeOK
      <4> QED
        BY <2>2, <4>2, <4>3
    <3>2. ASSUME NEW u \in Threads, NEW k \in DOMAIN undo'[u]
          PROVE  u \in wlock'[PageOf[k]] /\ undo'[u][k] = logged'[k]
      <4>1. u # t /\ undo'[u] = undo[u]
        BY <2>2, NoImageType
      <4>2. PageOf[k] \in Pages
        BY <4>1, ImageElim, PagesAssumption DEF IInv, TypeOK
      <4> QED
        BY <1>4, <2>2, <4>1, <4>2 DEF IInv, DirtyIsOwned
    <3> QED
      BY <3>1, <3>2 DEF DirtyIsOwned
  <2>4. ASSUME NEW u \in Threads, u # t PROVE ThreadInv(u)'
    <3>1. txn'[u] = txn[u] /\ undo'[u] = undo[u]
          /\ (\A p \in Pages : u \in rlock'[p] <=> u \in rlock[p])
          /\ (\A p \in Pages : u \in wlock'[p] <=> u \in wlock[p])
      BY <2>2, <2>4
    <3> QED
      BY <1>2, <2>1, <2>4, <3>1, OthersUntouched
  <2>5. ThreadInv(t)'
    BY <1>2, <2>2, NoImageType DEF ThreadInv, Calls
  <2> QED
    BY <1>1, <2>2, <2>3, <2>4, <2>5 DEF IInv
<1> QED
  BY <1>3, <1>4

\* Commit moves exactly the transaction's own writes to the log.
LEMMA CommitEndsInv ==
    ASSUME IInv, NEW t \in Threads, CommitEnds(t)
    PROVE  IInv'
<1>1. TypeOK'
  BY TxnEndType DEF IInv, TxnEnd
<1>2. /\ pc[t] = "commit" /\ pc' = [pc EXCEPT ![t] = "out"]
      /\ logged' = [k \in Keys |-> IF k \in DOMAIN undo[t] THEN store[k] ELSE logged[k]]
      /\ EndTxn(t)
      /\ UNCHANGED <<store, panic, status, op, value>>
  BY DEF CommitEnds, LogCommit, baton
<1>3. /\ LockExclusion'
      /\ \A p \in Pages : t \notin rlock'[p] \cup wlock'[p]
      /\ \A u \in Threads, p \in Pages : u # t =>
            (u \in rlock'[p] <=> u \in rlock[p]) /\ (u \in wlock'[p] <=> u \in wlock[p])
      /\ txn'[t] = FALSE /\ undo'[t] = NoImage
      /\ \A u \in Threads : u # t => txn'[u] = txn[u] /\ undo'[u] = undo[u]
  BY <1>2, EndTxnLocks
<1>4. ValueOfGet' /\ Untouched'
  BY <1>2 DEF IInv, ValueOfGet, Untouched, TypeOK
<1>5. DirtyIsOwned'
  <2> SUFFICES ASSUME ~panic
               PROVE  /\ \A k \in Keys : store'[k] # logged'[k] =>
                            \E u \in wlock'[PageOf[k]] : k \in DOMAIN undo'[u]
                      /\ \A u \in Threads : \A k \in DOMAIN undo'[u] :
                            u \in wlock'[PageOf[k]] /\ undo'[u][k] = logged'[k]
    BY <1>2 DEF DirtyIsOwned
  <2>1. ASSUME NEW k \in Keys, store'[k] # logged'[k]
        PROVE  \E u \in wlock'[PageOf[k]] : k \in DOMAIN undo'[u]
    <3>1. k \notin DOMAIN undo[t] /\ store[k] # logged[k]
      BY <1>2, <2>1
    <3>2. PICK u \in wlock[PageOf[k]] : k \in DOMAIN undo[u]
      BY <3>1 DEF IInv, DirtyIsOwned
    <3>3. u \in Threads /\ u # t /\ PageOf[k] \in Pages
      BY <3>1, <3>2, PagesAssumption DEF IInv, TypeOK
    <3> QED
      BY <1>3, <3>2, <3>3
  <2>2. ASSUME NEW u \in Threads, NEW k \in DOMAIN undo'[u]
        PROVE  u \in wlock'[PageOf[k]] /\ undo'[u][k] = logged'[k]
    <3>1. u # t /\ undo'[u] = undo[u]
      BY <1>3, NoImageType
    <3>2. k \in Keys /\ PageOf[k] \in Pages /\ k \notin DOMAIN undo[t]
      BY <3>1, WrittenIsExclusive
    <3> QED
      BY <1>2, <1>3, <3>1, <3>2 DEF IInv, DirtyIsOwned
  <2> QED
    BY <2>1, <2>2
<1>6. pc'[t] = "out" /\ \A u \in Threads : u # t => pc'[u] = pc[u]
  BY <1>2 DEF IInv, TypeOK
<1>7. ASSUME NEW u \in Threads, u # t PROVE ThreadInv(u)'
  <2>1. txn'[u] = txn[u] /\ undo'[u] = undo[u]
        /\ (\A p \in Pages : u \in rlock'[p] <=> u \in rlock[p])
        /\ (\A p \in Pages : u \in wlock'[p] <=> u \in wlock[p])
    BY <1>3, <1>7
  <2> QED
    BY <1>1, <1>2, <1>6, <1>7, <2>1, OthersUntouched
<1>8. ThreadInv(t)'
  BY <1>3, <1>6, NoImageType DEF ThreadInv, Calls
<1> QED
  BY <1>1, <1>3, <1>4, <1>5, <1>7, <1>8 DEF IInv

\* A commit that a panic leaves in doubt logs the writes and keeps the locks.
LEMMA CommitInDoubtInv ==
    ASSUME IInv, NEW t \in Threads, CommitInDoubt(t)
    PROVE  IInv'
<1>1. TypeOK'
  BY TxnEndType DEF IInv, TxnEnd
<1>2. /\ pc[t] = "commit" /\ pc' = [pc EXCEPT ![t] = "out"] /\ panic
      /\ logged' = [k \in Keys |-> IF k \in DOMAIN undo[t] THEN store[k] ELSE logged[k]]
      /\ status' = [status EXCEPT ![t] = RUNRECOVERY]
      /\ UNCHANGED <<store, panic, rlock, wlock, txn, undo, op, value>>
  BY DEF CommitInDoubt, LogCommit, locks, baton
<1>3. LockExclusion' /\ DirtyIsOwned'
  BY <1>2 DEF IInv, LockExclusion, DirtyIsOwned
<1>4. ValueOfGet' /\ Untouched'
  BY <1>2 DEF IInv, ValueOfGet, Untouched, TypeOK
<1>5. /\ pc'[t] = "out"
      /\ \A u \in Threads : u # t => pc'[u] = pc[u] /\ status'[u] = status[u]
  BY <1>2 DEF IInv, TypeOK
<1>6. ASSUME NEW u \in Threads, u # t PROVE ThreadInv(u)'
  BY <1>1, <1>2, <1>5, <1>6, OthersUntouched
<1>7. ThreadInv(t)'
  BY <1>2, <1>5 DEF IInv, ThreadInv, Calls
<1> QED
  BY <1>1, <1>3, <1>4, <1>6, <1>7 DEF IInv

\* Every branch of TXN_END keeps the invariant.
LEMMA TxnEndInv ==
    ASSUME IInv, NEW t \in Threads, TxnEnd(t)
    PROVE  IInv'
<1>1. TypeOK'
  BY TxnEndType DEF IInv
<1>2. CASE CommitBegins(t)
  BY <1>2, CommitBeginsInv
<1>3. CASE CommitEnds(t)
  BY <1>3, CommitEndsInv
<1>4. CASE CommitInDoubt(t)
  BY <1>4, CommitInDoubtInv
<1>5. CASE CommitFails(t)
  <2>1. /\ pc[t] \in {"end", "commit"} /\ AbortTxn(t) /\ pc' = [pc EXCEPT ![t] = "out"]
        /\ UNCHANGED <<logged, panic, op, value>>
        /\ \A u \in Threads : u # t => status'[u] = status[u]
    BY <1>5 DEF CommitFails, baton, IInv, TypeOK
  <2> QED
    BY <1>1, <2>1, AbortStepInv
<1>6. CASE Retry(t)
  BY <1>1, <1>6, AbortStepInv DEF Retry
<1>7. CASE Abort(t)
  BY <1>1, <1>7, AbortStepInv DEF Abort
<1> QED
  BY <1>2, <1>3, <1>4, <1>5, <1>6, <1>7 DEF TxnEnd

\* Recovery re-establishes the invariant from the log alone.
LEMMA CrashInv ==
    ASSUME IInv, Crash
    PROVE  IInv'
<1>1. TypeOK'
  BY NextType DEF IInv, Next
<1>2. LockExclusion'
  BY DEF Crash, Restart, LockExclusion
<1>3. DirtyIsOwned'
  BY NoImageType DEF Crash, Restart, DirtyIsOwned
<1>4. ValueOfGet' /\ Untouched'
  BY DEF Crash, Restart, ValueOfGet, Untouched
<1>5. ASSUME NEW t \in Threads PROVE ThreadInv(t)'
  BY NoImageType DEF Crash, Restart, ThreadInv, Calls
<1> QED
  BY <1>1, <1>2, <1>3, <1>4, <1>5 DEF IInv

\* Every step keeps the invariant.
LEMMA NextInv == IInv /\ [Next]_vars => IInv'
<1> SUFFICES ASSUME IInv, [Next]_vars PROVE IInv'
  OBVIOUS
<1>1. ASSUME NEW t \in Threads, Accept(t) PROVE IInv'
  BY <1>1, AcceptInv
<1>2. ASSUME NEW t \in Threads, TxnBegin(t) \/ TxnBeginFails(t) PROVE IInv'
  BY <1>2, TxnBeginInv, TxnBeginFailsInv
<1>3. ASSUME NEW t \in Threads, Call(t) PROVE IInv'
  BY <1>3, DbGetInv, DbPutInv, DbDelInv DEF Call
<1>4. ASSUME NEW t \in Threads,
             LockWait(t) \/ LockDenied(t) \/ CallFails(t) \/ CallFailsHalfway(t)
      PROVE  IInv'
  BY <1>4, LockWaitInv, CallGivesUpInv, CallFailsHalfwayInv
<1>5. ASSUME NEW t \in Threads, TxnEnd(t) PROVE IInv'
  BY <1>5, TxnEndInv
<1>6. ASSUME NEW t \in Threads, Return(t) PROVE IInv'
  BY <1>6, ReturnInv
<1>7. ASSUME EnvPanic PROVE IInv'
  <2>1. TypeOK'
    BY <1>7, NextType DEF IInv, Next
  <2>2. LockExclusion' /\ DirtyIsOwned' /\ ValueOfGet' /\ Untouched'
    BY <1>7 DEF EnvPanic, locks, baton, IInv, LockExclusion, DirtyIsOwned, ValueOfGet,
       Untouched
  <2>3. ASSUME NEW u \in Threads PROVE ThreadInv(u)'
    BY <1>7, <2>1, Frame DEF EnvPanic, locks, baton, IInv
  <2> QED
    BY <2>1, <2>2, <2>3 DEF IInv
<1>8. ASSUME Crash PROVE IInv'
  BY <1>8, CrashInv
<1>9. ASSUME UNCHANGED vars PROVE IInv'
  <2>1. TypeOK'
    BY NextType DEF IInv
  <2>2. LockExclusion' /\ DirtyIsOwned' /\ ValueOfGet' /\ Untouched'
    BY <1>9 DEF vars, IInv, LockExclusion, DirtyIsOwned, ValueOfGet, Untouched
  <2>3. ASSUME NEW u \in Threads PROVE ThreadInv(u)'
    BY <1>9, <2>1, Frame DEF vars, IInv
  <2> QED
    BY <2>1, <2>2, <2>3 DEF IInv
<1> QED
  BY <1>1, <1>2, <1>3, <1>4, <1>5, <1>6, <1>7, <1>8, <1>9 DEF Next

\* The inductive invariant holds in every reachable state.
THEOREM Invariance == Spec => []IInv
  BY InitInv, NextInv, PTL DEF Spec

-----------------------------------------------------------------------------
(***************************************************************************)
(* What the invariant says about the code.                                 *)
(***************************************************************************)
\* No page that one operation's transaction has locked for writing is locked by
\* another's, however many threads run and however putIf upgrades its lock.
THEOREM LocksExclude == Spec => []LockExclusion
<1>1. IInv => LockExclusion
  BY DEF IInv
<1> QED
  BY <1>1, Invariance, PTL

\* TXN_BEGIN .. TXN_END is balanced on every path: unless the environment has
\* panicked, no transaction, lock or uncommitted write outlives its operation.
THEOREM TransactionsEnd == Spec => []NothingLeaks
<1>1. IInv => NothingLeaks
  BY DEF IInv, ThreadInv, NothingLeaks
<1> QED
  BY <1>1, Invariance, PTL

\* Uncommitted data is always under its writer's write lock with the committed
\* value as its before-image, so that abort and recovery agree.
THEOREM DirtyDataIsOwned == Spec => []DirtyIsOwned
<1>1. IInv => DirtyIsOwned
  BY DEF IInv
<1> QED
  BY <1>1, Invariance, PTL

\* The value that EIO_PutIf compared is still there when it writes.
THEOREM PutIfIsAtomic == Spec => []AssertedValueHolds
<1>1. IInv => AssertedValueHolds
  BY DEF IInv, ThreadInv, AssertedValueHolds
<1> QED
  BY <1>1, Invariance, PTL

\* The return code that reaches TXN_END is the sequential one for the committed
\* contents, under a lock that keeps it so until commit has logged the writes,
\* even when the environment panics meanwhile.
THEOREM AnswersAreCurrent == Spec => []AnswerIsCurrent
<1>1. IInv => AnswerIsCurrent
  BY DEF IInv, ThreadInv, AnswerIsCurrent
<1> QED
  BY <1>1, Invariance, PTL

-----------------------------------------------------------------------------
(***************************************************************************)
(* Retries.                                                                *)
(***************************************************************************)
\* A step that answers nobody keeps what is claimed of those answered before.
LEMMA NobodyAnswered ==
    ASSUME RetriesExhausted, NEW t \in Threads, pc'[t] # "out",
           \A u \in Threads : u # t =>
               /\ pc'[u] = pc[u] /\ status'[u] = status[u]
               /\ rc'[u] = rc[u] /\ attempts'[u] = attempts[u]
    PROVE  RetriesExhausted'
  BY DEF RetriesExhausted

\* Every step keeps RetriesExhausted: of the ways into out only the last branch
\* of TXN_END leaves a DB_LOCK_DEADLOCK with a txn_begin that succeeded.
LEMMA NextRetries ==
    ASSUME TypeOK, RetriesExhausted, [Next]_vars
    PROVE  RetriesExhausted'
<1>1. ASSUME NEW t \in Threads, Accept(t) \/ Return(t) PROVE RetriesExhausted'
  BY <1>1, NobodyAnswered DEF Accept, EIO_Get, EIO_Put, EIO_PutIf, EIO_Del, GetS, PutS,
     DelS, Start, Return, TypeOK
<1>2. ASSUME NEW t \in Threads, TxnBegin(t) PROVE RetriesExhausted'
  <2>1. op[t].kind \in {"get", "put", "putIf", "del"}
    BY <1>2, OpFields DEF TxnBegin, TypeOK
  <2> QED
    BY <1>2, <2>1, NobodyAnswered DEF TxnBegin, FirstCall, baton, TypeOK
<1>3. ASSUME NEW t \in Threads, TxnBeginFails(t) PROVE RetriesExhausted'
  <2>1. Failure # OK
    BY DEF Failure, RUNRECOVERY, EIO, OK
  <2> QED
    BY <1>3, <2>1 DEF TxnBeginFails, TypeOK, RetriesExhausted
<1>4. ASSUME NEW t \in Threads, Call(t) \/ LockWait(t) PROVE RetriesExhausted'
  BY <1>4, NobodyAnswered DEF Call, DbGet, DbPut, DbDel, LockWait, Calls, baton, TypeOK
<1>5. ASSUME NEW t \in Threads, LockDenied(t) \/ CallFails(t) \/ CallFailsHalfway(t)
      PROVE  RetriesExhausted'
  BY <1>5, NobodyAnswered DEF LockDenied, CallFails, CallFailsHalfway, baton, TypeOK
<1>6. ASSUME NEW t \in Threads, CommitBegins(t) \/ Retry(t) PROVE RetriesExhausted'
  BY <1>6, NobodyAnswered DEF CommitBegins, Retry, baton, TypeOK
<1>7. ASSUME NEW t \in Threads, CommitEnds(t) PROVE RetriesExhausted'
  BY <1>7 DEF CommitEnds, baton, TypeOK, RetriesExhausted, OK, DEADLOCK
<1>8. ASSUME NEW t \in Threads, CommitFails(t) \/ CommitInDoubt(t) PROVE RetriesExhausted'
  <2>1. status'[t] # DEADLOCK
    BY <1>8 DEF CommitFails, CommitInDoubt, Failure, TypeOK, RUNRECOVERY, EIO, DEADLOCK
  <2> QED
    BY <1>8, <2>1 DEF CommitFails, CommitInDoubt, baton, TypeOK, RetriesExhausted
<1>9. ASSUME NEW t \in Threads, Abort(t) PROVE RetriesExhausted'
  <2>1. attempts[t] \in Nat /\ attempts[t] <= Retries
    BY <1>9, LimitsAssumption DEF TypeOK, Abort
  <2>2. status[t] = DEADLOCK => attempts'[t] = Retries + 1
    BY <1>9, <2>1, LimitsAssumption DEF Abort, TypeOK
  <2> QED
    BY <1>9, <2>2 DEF Abort, TypeOK, RetriesExhausted
<1>10. CASE EnvPanic
  BY <1>10 DEF EnvPanic, baton, RetriesExhausted
<1>11. CASE Crash
  BY <1>11 DEF Crash, Restart, RetriesExhausted
<1>12. CASE UNCHANGED vars
  BY <1>12 DEF vars, RetriesExhausted
<1> QED
  BY <1>1, <1>2, <1>3, <1>4, <1>5, <1>6, <1>7, <1>8, <1>9, <1>10, <1>11, <1>12
     DEF Next, TxnEnd

\* An operation whose transaction could begin is given up with DB_LOCK_DEADLOCK
\* only after 1 + _retries attempts, whatever else fails.
THEOREM GivesUpLate == Spec => []RetriesExhausted
<1>1. Init => RetriesExhausted
  BY DEF Init, RetriesExhausted
<1>2. TypeOK /\ RetriesExhausted /\ [Next]_vars => RetriesExhausted'
  BY NextRetries
<1> QED
  BY <1>1, <1>2, TypeCorrect, PTL DEF Spec

-----------------------------------------------------------------------------
(***************************************************************************)
(* What commit leaves in the log.                                          *)
(***************************************************************************)
\* It is the operation's effect on the committed contents, and 0 its outcome.
LEMMA CommitLogsEffect ==
    ASSUME IInv, NEW t \in Threads, pc[t] = "commit", LogCommit(t)
    PROVE  /\ op[t] \in Ops /\ Key(t) = op[t].key /\ Key(t) \in Keys
           /\ status[t] = OK /\ Atomic!Outcome(op[t], logged) = OK
           /\ logged' = Atomic!Effect(op[t], logged)
           /\ value[t] = IF op[t].kind = "get" THEN logged[Key(t)] ELSE None
<1>1. op[t] \in Ops /\ Key(t) \in Keys /\ Key(t) = op[t].key /\ status[t] = OK
  BY OpFields DEF IInv, TypeOK, Key
<1>2. /\ OK = Atomic!Outcome(op[t], logged)
      /\ store[Key(t)] = Atomic!Effect(op[t], logged)[Key(t)]
      /\ op[t].kind # "get" => Key(t) \in DOMAIN undo[t]
      /\ value[t] = IF op[t].kind = "get" THEN logged[Key(t)] ELSE None
      /\ DOMAIN undo[t] \subseteq {Key(t)}
      /\ op[t].kind = "get" => undo[t] = NoImage
  BY <1>1 DEF IInv, ThreadInv
<1>3. logged' = Atomic!Effect(op[t], logged)
  <2>1. CASE op[t].kind = "get"
    <3>1. logged' = logged
      BY <1>2, <2>1, NoImageType DEF LogCommit, IInv, TypeOK
    <3> QED
      BY <2>1, <3>1 DEF Atomic!Effect
  <2>2. CASE op[t].kind # "get"
    <3> DEFINE c == IF op[t].kind = "del" THEN None ELSE op[t].val
    <3>1. Atomic!Effect(op[t], logged) = [logged EXCEPT ![Key(t)] = c]
      BY <1>1, <1>2, <2>2 DEF Atomic!Effect, Atomic!OK, OK
    <3>2. store[Key(t)] = c
      BY <1>1, <1>2, <3>1 DEF IInv, TypeOK
    <3>3. DOMAIN undo[t] = {Key(t)}
      BY <1>2, <2>2
    <3> HIDE DEF c
    <3>4. logged' = [logged EXCEPT ![Key(t)] = c]
      BY <1>1, <3>2, <3>3 DEF LogCommit, IInv, TypeOK
    <3> QED
      BY <3>1, <3>4
  <2> QED
    BY <2>1, <2>2
<1> QED
  BY <1>1, <1>2, <1>3

\* The only way to an answer of 0, other than a failed txn_begin, is a commit that
\* ends: every other step into out reports an error.
LEMMA OnlyCommitAnswersZero ==
    ASSUME TypeOK, [Next]_vars, NEW t \in Threads,
           pc[t] # "out", pc'[t] = "out", status'[t] = OK, rc'[t] = OK
    PROVE  CommitEnds(t)
<1>1. ASSUME NEW u \in Threads, Accept(u) \/ Return(u) PROVE FALSE
  BY <1>1 DEF Accept, EIO_Get, EIO_Put, EIO_PutIf, EIO_Del, GetS, PutS, DelS, Start,
     Return, TypeOK
<1>2. ASSUME NEW u \in Threads, TxnBegin(u) PROVE FALSE
  <2>1. op[u].kind \in {"get", "put", "putIf", "del"}
    BY <1>2, OpFields DEF TxnBegin, TypeOK
  <2> QED
    BY <1>2, <2>1 DEF TxnBegin, FirstCall, TypeOK
<1>3. ASSUME NEW u \in Threads, TxnBeginFails(u) PROVE FALSE
  <2>1. Failure # OK
    BY DEF Failure, RUNRECOVERY, EIO, OK
  <2> QED
    BY <1>3, <2>1 DEF TxnBeginFails, TypeOK
<1>4. ASSUME NEW u \in Threads, Call(u) \/ LockWait(u) PROVE FALSE
  BY <1>4 DEF Call, DbGet, DbPut, DbDel, LockWait, TypeOK
<1>5. ASSUME NEW u \in Threads, LockDenied(u) \/ CallFails(u) \/ CallFailsHalfway(u)
      PROVE  FALSE
  BY <1>5 DEF LockDenied, CallFails, CallFailsHalfway, TypeOK
<1>6. ASSUME NEW u \in Threads, CommitBegins(u) \/ Retry(u) PROVE FALSE
  BY <1>6 DEF CommitBegins, Retry, TypeOK
<1>7. ASSUME NEW u \in Threads, CommitFails(u) \/ CommitInDoubt(u) PROVE FALSE
  <2>1. status'[u] # OK
    BY <1>7 DEF CommitFails, CommitInDoubt, Failure, TypeOK, RUNRECOVERY, EIO, OK
  <2>2. u = t
    BY <1>7 DEF CommitFails, CommitInDoubt, TypeOK
  <2> QED
    BY <2>1, <2>2
<1>8. ASSUME NEW u \in Threads, Abort(u) PROVE FALSE
  BY <1>8 DEF Abort, TypeOK
<1>9. ~EnvPanic /\ ~Crash /\ ~UNCHANGED vars
  BY DEF EnvPanic, Crash, Restart, vars
<1>10. ASSUME NEW u \in Threads, CommitEnds(u) PROVE u = t
  BY <1>10 DEF CommitEnds, TypeOK
<1> QED
  BY <1>1, <1>2, <1>3, <1>4, <1>5, <1>6, <1>7, <1>8, <1>9, <1>10 DEF Next, TxnEnd

\* A put, putIf or del that is answered 0 is in the log at that moment, unless
\* its txn_begin failed: no failed call, failed commit, retry or panic under the
\* commit comes between the 0 and the log.
THEOREM AcknowledgedWritesAreLogged == Spec => BegunIsLogged
<1> DEFINE Logged ==
      \A t \in Threads :
          pc[t] # "out" /\ pc'[t] = "out" /\ status'[t] = OK /\ rc'[t] = OK =>
              /\ op[t].kind \in {"put", "putIf"} => logged'[Key(t)] = op[t].val
              /\ op[t].kind = "del" => logged'[Key(t)] = None
<1>1. IInv /\ [Next]_vars => [Logged]_vars
  <2> SUFFICES ASSUME IInv, [Next]_vars PROVE Logged
    OBVIOUS
  <2>1. ASSUME NEW t \in Threads, pc[t] # "out", pc'[t] = "out", status'[t] = OK,
               rc'[t] = OK
        PROVE  /\ op[t].kind \in {"put", "putIf"} => logged'[Key(t)] = op[t].val
               /\ op[t].kind = "del" => logged'[Key(t)] = None
    <3>1. pc[t] = "commit" /\ LogCommit(t)
      BY <2>1, OnlyCommitAnswersZero DEF CommitEnds, IInv
    <3>2. /\ op[t] \in Ops /\ Key(t) = op[t].key /\ Key(t) \in Keys
          /\ Atomic!Outcome(op[t], logged) = OK
          /\ logged' = Atomic!Effect(op[t], logged)
      BY <3>1, CommitLogsEffect
    <3> QED
      BY <3>2 DEF Atomic!Effect, Atomic!OK, OK, IInv, TypeOK
  <2> QED
    BY <2>1
<1> QED
  BY <1>1, Invariance, PTL DEF Spec, BegunIsLogged

-----------------------------------------------------------------------------
(***************************************************************************)
(* Refinement.                                                             *)
(***************************************************************************)
\* Initial states map to initial states of AtomicStore.
LEMMA InitRefines ==
    ASSUME Init
    PROVE  Atomic!Init
  BY DEF Init, Atomic!Init, Answered, Atomic!OK, Atomic!NoOp, NoOp, OK

\* The abstract variables that the refinement mapping computes.
PhaseBar == [t \in Threads |-> IF pc[t] = "idle" THEN "idle"
                               ELSE IF Answered(t) THEN "answered" ELSE "called"]
SkippedBar == [t \in Threads |-> rc[t] # OK]
StatusBar == [t \in Threads |-> IF Answered(t) THEN status[t] ELSE OK]
ValueBar == [t \in Threads |-> IF Answered(t) /\ status[t] = OK THEN value[t] ELSE None]

\* A step of thread t inside an operation, before its answer is fixed, that does
\* not change the committed contents is invisible to the caller.
LEMMA Invisible ==
    ASSUME TypeOK, TypeOK', NEW t \in Threads,
           pc[t] \notin {"idle", "out"}, pc'[t] \notin {"idle", "out"},
           logged' = logged, op' = op, rc' = rc,
           \A u \in Threads : u # t =>
               pc'[u] = pc[u] /\ status'[u] = status[u] /\ value'[u] = value[u]
    PROVE  UNCHANGED Atomic!vars
<1>1. \A u \in Threads : Answered(u) <=> pc[u] = "out"
  BY DEF Answered
<1>2. \A u \in Threads : Answered(u)' <=> pc'[u] = "out"
  BY DEF Answered
<1> QED
  BY <1>1, <1>2 DEF Atomic!vars

\* A step of thread t changes them for t alone.
LEMMA BarsChange ==
    ASSUME NEW t \in Threads, NEW ph, NEW sk, NEW st, NEW va,
           \A u \in Threads : u # t =>
               /\ pc'[u] = pc[u] /\ status'[u] = status[u]
               /\ value'[u] = value[u] /\ rc'[u] = rc[u],
           ph = PhaseBar'[t], sk = SkippedBar'[t], st = StatusBar'[t], va = ValueBar'[t]
    PROVE  /\ PhaseBar' = [PhaseBar EXCEPT ![t] = ph]
           /\ SkippedBar' = [SkippedBar EXCEPT ![t] = sk]
           /\ StatusBar' = [StatusBar EXCEPT ![t] = st]
           /\ ValueBar' = [ValueBar EXCEPT ![t] = va]
<1>1. \A u \in Threads : u # t => (Answered(u)' <=> Answered(u))
  BY DEF Answered
<1> QED
  BY <1>1 DEF PhaseBar, SkippedBar, StatusBar, ValueBar

\* What every answer has in common: t's operation was called and is answered, and
\* the abstract variables change for t alone.
LEMMA AnswerBars ==
    ASSUME TypeOK, NEW t \in Threads,
           pc[t] \notin {"idle", "out"}, pc' = [pc EXCEPT ![t] = "out"], value' = value,
           \A u \in Threads : u # t => status'[u] = status[u] /\ rc'[u] = rc[u]
    PROVE  /\ PhaseBar[t] = "called" /\ PhaseBar' = [PhaseBar EXCEPT ![t] = "answered"]
           /\ SkippedBar' = [SkippedBar EXCEPT ![t] = rc'[t] # OK]
           /\ StatusBar' = [StatusBar EXCEPT ![t] = status'[t]]
           /\ ValueBar' = [ValueBar EXCEPT ![t] =
                              IF status'[t] = OK THEN value[t] ELSE None]
           /\ (status'[t] = OK => value[t] = None) => ValueBar' = ValueBar
<1>1. \A u \in Threads : u # t =>
         /\ pc'[u] = pc[u] /\ status'[u] = status[u]
         /\ value'[u] = value[u] /\ rc'[u] = rc[u]
  BY DEF TypeOK
<1>2. /\ PhaseBar[t] = "called" /\ PhaseBar'[t] = "answered" /\ StatusBar'[t] = status'[t]
      /\ ValueBar'[t] = IF status'[t] = OK THEN value[t] ELSE None
      /\ ValueBar[t] = None
      /\ SkippedBar'[t] = (rc'[t] # OK)
  BY DEF PhaseBar, SkippedBar, StatusBar, ValueBar, TypeOK, Answered
<1>3. /\ PhaseBar' = [PhaseBar EXCEPT ![t] = "answered"]
      /\ SkippedBar' = [SkippedBar EXCEPT ![t] = rc'[t] # OK]
      /\ StatusBar' = [StatusBar EXCEPT ![t] = status'[t]]
      /\ ValueBar' = [ValueBar EXCEPT ![t] =
                         IF status'[t] = OK THEN value[t] ELSE None]
  BY <1>1, <1>2, BarsChange
<1>4. (status'[t] = OK => value[t] = None) => ValueBar' = ValueBar
  BY <1>2, <1>3 DEF ValueBar
<1> QED
  BY <1>2, <1>3, <1>4

\* Taking up an operation is a call of AtomicStore.
LEMMA AcceptRefines ==
    ASSUME TypeOK, NEW t \in Threads, Accept(t)
    PROVE  Atomic!Call(t)
<1>1. PICK o \in Ops : op' = [op EXCEPT ![t] = o]
  BY DEF Accept, EIO_Get, EIO_Put, EIO_PutIf, EIO_Del, GetS, PutS, DelS, Start
<1>2. /\ pc[t] = "idle" /\ pc' = [pc EXCEPT ![t] = "begin"]
      /\ UNCHANGED <<logged, rc, status, value>>
  BY DEF Accept, EIO_Get, EIO_Put, EIO_PutIf, EIO_Del, GetS, PutS, DelS, Start
<1>3. \A u \in Threads : u # t =>
         /\ pc'[u] = pc[u] /\ status'[u] = status[u]
         /\ value'[u] = value[u] /\ rc'[u] = rc[u]
  BY <1>2 DEF TypeOK
<1>4. PhaseBar[t] = "idle" /\ PhaseBar'[t] = "called" /\ SkippedBar'[t] = SkippedBar[t]
      /\ StatusBar'[t] = StatusBar[t] /\ ValueBar'[t] = ValueBar[t]
  BY <1>2 DEF PhaseBar, SkippedBar, StatusBar, ValueBar, TypeOK, Answered
<1>5. /\ PhaseBar' = [PhaseBar EXCEPT ![t] = "called"]
      /\ SkippedBar' = SkippedBar /\ StatusBar' = StatusBar /\ ValueBar' = ValueBar
  <2>1. /\ PhaseBar' = [PhaseBar EXCEPT ![t] = "called"]
        /\ SkippedBar' = [SkippedBar EXCEPT ![t] = SkippedBar[t]]
        /\ StatusBar' = [StatusBar EXCEPT ![t] = StatusBar[t]]
        /\ ValueBar' = [ValueBar EXCEPT ![t] = ValueBar[t]]
    BY <1>3, <1>4, BarsChange
  <2> QED
    BY <2>1 DEF SkippedBar, StatusBar, ValueBar
<1> QED
  BY <1>1, <1>2, <1>4, <1>5
     DEF Atomic!Call, PhaseBar, SkippedBar, StatusBar, ValueBar, OK, Atomic!OK

\* Handing the status to the caller is a return of AtomicStore.
LEMMA ReturnRefines ==
    ASSUME TypeOK, NEW t \in Threads, Return(t)
    PROVE  Atomic!Return(t)
<1>1. /\ pc[t] = "out" /\ pc' = [pc EXCEPT ![t] = "idle"]
      /\ op' = [op EXCEPT ![t] = NoOp] /\ logged' = logged /\ rc' = [rc EXCEPT ![t] = OK]
      /\ \A u \in Threads : u # t =>
            /\ pc'[u] = pc[u] /\ status'[u] = status[u]
            /\ value'[u] = value[u] /\ rc'[u] = rc[u]
  BY DEF Return, TypeOK
<1>2. PhaseBar[t] = "answered" /\ PhaseBar'[t] = "idle" /\ SkippedBar'[t] = FALSE
      /\ StatusBar'[t] = OK /\ ValueBar'[t] = None
  BY <1>1 DEF PhaseBar, SkippedBar, StatusBar, ValueBar, TypeOK, Answered
<1>3. /\ PhaseBar' = [PhaseBar EXCEPT ![t] = "idle"]
      /\ SkippedBar' = [SkippedBar EXCEPT ![t] = FALSE]
      /\ StatusBar' = [StatusBar EXCEPT ![t] = OK]
      /\ ValueBar' = [ValueBar EXCEPT ![t] = None]
  BY <1>1, <1>2, BarsChange
<1> QED
  BY <1>1, <1>2, <1>3
     DEF Atomic!Return, PhaseBar, SkippedBar, StatusBar, ValueBar, Atomic!NoOp, NoOp,
     Atomic!OK, OK

\* A failed txn_begin skips the operation: 0 is answered, or the DB_LOCK_DEADLOCK
\* of the attempt before.
LEMMA TxnBeginFailsRefines ==
    ASSUME IInv, NEW t \in Threads, TxnBeginFails(t)
    PROVE  Atomic!Skip(t)
<1>1. /\ pc[t] = "begin" /\ pc' = [pc EXCEPT ![t] = "out"]
      /\ rc' = [rc EXCEPT ![t] = Failure] /\ UNCHANGED <<logged, op, status, value>>
  BY DEF TxnBeginFails
<1>2. TypeOK /\ rc'[t] = Failure /\ \A u \in Threads : u # t => rc'[u] = rc[u]
  BY <1>1 DEF IInv, TypeOK
<1>3. status[t] \in {OK, DEADLOCK} /\ (status[t] = OK => value[t] = None)
  BY <1>1 DEF IInv, Untouched
<1>4. Failure # OK
  BY DEF Failure, RUNRECOVERY, EIO, OK
<1>5. /\ PhaseBar[t] = "called" /\ PhaseBar' = [PhaseBar EXCEPT ![t] = "answered"]
      /\ SkippedBar' = [SkippedBar EXCEPT ![t] = TRUE]
      /\ StatusBar' = [StatusBar EXCEPT ![t] = status[t]]
      /\ ValueBar' = ValueBar
  BY <1>1, <1>2, <1>3, <1>4, AnswerBars
<1> QED
  BY <1>1, <1>3, <1>5 DEF Atomic!Skip, PhaseBar, SkippedBar, StatusBar, ValueBar, OK,
     Atomic!OK, DEADLOCK, Atomic!DEADLOCK

\* A commit that ends is the instant at which the operation takes effect.
LEMMA CommitEndsRefines ==
    ASSUME IInv, NEW t \in Threads, CommitEnds(t)
    PROVE  Atomic!Answer(t)
<1>1. /\ pc[t] = "commit" /\ pc' = [pc EXCEPT ![t] = "out"] /\ LogCommit(t)
      /\ UNCHANGED <<rc, status, op, value>>
  BY DEF CommitEnds, baton
<1>2. /\ op[t] \in Ops /\ Key(t) = op[t].key
      /\ status[t] = OK /\ Atomic!Outcome(op[t], logged) = OK
      /\ logged' = Atomic!Effect(op[t], logged)
      /\ value[t] = IF op[t].kind = "get" THEN logged[Key(t)] ELSE None
  BY <1>1, CommitLogsEffect
<1>3. TypeOK
  BY DEF IInv
<1>4. rc[t] = OK
  BY <1>1 DEF IInv, TypeOK
<1>5. /\ PhaseBar[t] = "called" /\ PhaseBar' = [PhaseBar EXCEPT ![t] = "answered"]
      /\ SkippedBar' = [SkippedBar EXCEPT ![t] = FALSE]
      /\ StatusBar' = [StatusBar EXCEPT ![t] = OK]
      /\ ValueBar' = [ValueBar EXCEPT ![t] = value[t]]
  BY <1>1, <1>2, <1>3, <1>4, AnswerBars
<1>6. SkippedBar' = SkippedBar
  BY <1>1 DEF SkippedBar
<1> DEFINE outcome == Atomic!Outcome(op[t], logged)
           effect == Atomic!Effect(op[t], logged)
<1>7. outcome = OK /\ logged' = effect
  BY <1>2
<1> HIDE DEF outcome, effect
<1>8. Atomic!Outcome(op[t], logged) = outcome /\ Atomic!Effect(op[t], logged) = effect
  BY DEF outcome, effect
<1>9. /\ StatusBar' = [StatusBar EXCEPT ![t] = outcome]
      /\ ValueBar' = [ValueBar EXCEPT ![t] =
                         IF op[t].kind = "get" THEN logged[op[t].key] ELSE None]
  BY <1>2, <1>5, <1>7
<1> QED
  BY <1>1, <1>5, <1>6, <1>7, <1>8, <1>9
     DEF Atomic!Answer, PhaseBar, SkippedBar, StatusBar, ValueBar, OK, Atomic!OK

\* A commit in doubt takes effect, and its caller hears DB_RUNRECOVERY.
LEMMA CommitInDoubtRefines ==
    ASSUME IInv, NEW t \in Threads, CommitInDoubt(t)
    PROVE  Atomic!Doubt(t)
<1>1. /\ pc[t] = "commit" /\ pc' = [pc EXCEPT ![t] = "out"] /\ LogCommit(t)
      /\ status' = [status EXCEPT ![t] = RUNRECOVERY] /\ UNCHANGED <<rc, op, value>>
  BY DEF CommitInDoubt, baton
<1>2. logged' = Atomic!Effect(op[t], logged)
  BY <1>1, CommitLogsEffect
<1>3. /\ TypeOK /\ status'[t] = RUNRECOVERY
      /\ \A u \in Threads : u # t => status'[u] = status[u]
  BY <1>1 DEF IInv, TypeOK
<1>4. RUNRECOVERY # OK
  BY DEF RUNRECOVERY, OK
<1>5. /\ PhaseBar[t] = "called" /\ PhaseBar' = [PhaseBar EXCEPT ![t] = "answered"]
      /\ StatusBar' = [StatusBar EXCEPT ![t] = RUNRECOVERY]
      /\ ValueBar' = ValueBar
  BY <1>1, <1>3, <1>4, AnswerBars
<1>6. SkippedBar' = SkippedBar
  BY <1>1 DEF SkippedBar
<1> DEFINE effect == Atomic!Effect(op[t], logged)
<1>7. logged' = effect
  BY <1>2
<1> HIDE DEF effect
<1>8. Atomic!Effect(op[t], logged) = effect
  BY DEF effect
<1> QED
  BY <1>1, <1>5, <1>6, <1>7, <1>8 DEF Atomic!Doubt, PhaseBar, SkippedBar, StatusBar,
     ValueBar, OK, RUNRECOVERY, Atomic!RUNRECOVERY

\* A step that answers a refusal and leaves the log alone refuses.
LEMMA RefusalRefines ==
    ASSUME TypeOK, NEW t \in Threads, NEW s \in {DEADLOCK, RUNRECOVERY, EIO},
           pc[t] \notin {"idle", "out"}, pc' = [pc EXCEPT ![t] = "out"],
           status' = [status EXCEPT ![t] = s], UNCHANGED <<logged, rc, op, value>>
    PROVE  Atomic!Refuse(t)
<1>1. status'[t] = s /\ \A u \in Threads : u # t => status'[u] = status[u]
  BY DEF TypeOK
<1>2. s # OK /\ s \in Atomic!Refusals
  BY DEF DEADLOCK, RUNRECOVERY, EIO, OK, Atomic!Refusals, Atomic!DEADLOCK,
     Atomic!RUNRECOVERY
<1>3. /\ PhaseBar[t] = "called" /\ PhaseBar' = [PhaseBar EXCEPT ![t] = "answered"]
      /\ StatusBar' = [StatusBar EXCEPT ![t] = s]
      /\ ValueBar' = ValueBar
  BY <1>1, <1>2, AnswerBars
<1>4. SkippedBar' = SkippedBar
  BY DEF SkippedBar
<1> QED
  BY <1>2, <1>3, <1>4 DEF Atomic!Refuse, PhaseBar, SkippedBar, StatusBar, ValueBar, OK

\* The last branch of TXN_END refuses, or answers that there was nothing to do.
LEMMA AbortRefines ==
    ASSUME IInv, NEW t \in Threads, Abort(t)
    PROVE  Atomic!Refuse(t) \/ Atomic!Answer(t)
<1>1. /\ pc[t] = "end" /\ pc' = [pc EXCEPT ![t] = "out"] /\ status[t] # OK
      /\ UNCHANGED <<logged, rc, op, status, value>>
  BY DEF Abort
<1>2. TypeOK
  BY DEF IInv
<1>3. CASE status[t] \in {DEADLOCK, RUNRECOVERY, EIO}
  <2>1. status' = [status EXCEPT ![t] = status[t]]
    BY <1>1, <1>2 DEF TypeOK
  <2> QED
    BY <1>1, <1>2, <1>3, <2>1, RefusalRefines
<1>4. CASE status[t] \notin {DEADLOCK, RUNRECOVERY, EIO}
  <2>1. status[t] \in {OK, NOTFOUND, KEYEXIST, CONSISTENCY} /\ status'[t] = status[t]
    BY <1>1, <1>2, <1>4 DEF TypeOK, Status
  <2>2. status[t] = Atomic!Outcome(op[t], logged)
    BY <1>1, <2>1 DEF IInv, ThreadInv
  <2>3. Atomic!Effect(op[t], logged) = logged
    BY <1>1, <2>2 DEF Atomic!Effect, Atomic!OK, OK
  <2>4. op[t].kind = "get" => logged[op[t].key] = None
    BY <1>1, <2>2 DEF Atomic!Outcome, Atomic!OK, OK
  <2>5. /\ PhaseBar[t] = "called" /\ PhaseBar' = [PhaseBar EXCEPT ![t] = "answered"]
        /\ StatusBar' = [StatusBar EXCEPT ![t] = status[t]]
        /\ ValueBar' = [ValueBar EXCEPT ![t] = None]
    BY <1>1, <1>2, AnswerBars
  <2>6. SkippedBar' = SkippedBar
    BY <1>1 DEF SkippedBar
  <2> DEFINE outcome == Atomic!Outcome(op[t], logged)
             effect == Atomic!Effect(op[t], logged)
  <2>7. outcome = status[t] /\ logged' = effect
    BY <1>1, <2>2, <2>3
  <2> HIDE DEF outcome, effect
  <2>8. Atomic!Outcome(op[t], logged) = outcome /\ Atomic!Effect(op[t], logged) = effect
    BY DEF outcome, effect
  <2>9. None = IF op[t].kind = "get" THEN logged[op[t].key] ELSE None
    BY <2>4
  <2>10. /\ StatusBar' = [StatusBar EXCEPT ![t] = outcome]
         /\ ValueBar' = [ValueBar EXCEPT ![t] =
                            IF op[t].kind = "get" THEN logged[op[t].key] ELSE None]
    BY <2>5, <2>7, <2>9
  <2> QED
    BY <1>1, <2>5, <2>6, <2>7, <2>8, <2>10
       DEF Atomic!Answer, PhaseBar, SkippedBar, StatusBar, ValueBar, OK, Atomic!OK
<1> QED
  BY <1>3, <1>4

\* Every step maps to a step of AtomicStore or to none.
LEMMA NextRefines ==
    ASSUME IInv, IInv', [Next]_vars
    PROVE  [Atomic!Next]_(Atomic!vars)
<1>1. TypeOK /\ TypeOK'
  BY DEF IInv
<1>2. ASSUME NEW t \in Threads, Accept(t) PROVE Atomic!Call(t)
  BY <1>1, <1>2, AcceptRefines
<1>3. ASSUME NEW t \in Threads, Return(t) PROVE Atomic!Return(t)
  BY <1>1, <1>3, ReturnRefines
<1>4. ASSUME NEW t \in Threads, TxnBegin(t) PROVE UNCHANGED Atomic!vars
  <2>1. op[t].kind \in {"get", "put", "putIf", "del"}
    BY <1>1, <1>4, OpFields DEF TxnBegin, TypeOK
  <2>2. pc[t] = "begin" /\ pc'[t] \notin {"idle", "out"}
    BY <1>1, <1>4, <2>1 DEF TxnBegin, FirstCall, TypeOK
  <2> QED
    BY <1>1, <1>4, <2>2, Invisible DEF TxnBegin, baton, TypeOK
<1>5. ASSUME NEW t \in Threads, Call(t) \/ CallFailsHalfway(t)
      PROVE  UNCHANGED Atomic!vars
  <2>1. /\ pc[t] \notin {"idle", "out"} /\ pc'[t] \notin {"idle", "out"}
        /\ logged' = logged /\ op' = op /\ rc' = rc
        /\ \A u \in Threads : u # t =>
              pc'[u] = pc[u] /\ status'[u] = status[u] /\ value'[u] = value[u]
    BY <1>1, <1>5 DEF Call, DbGet, DbPut, DbDel, CallFailsHalfway, baton, TypeOK
  <2> QED
    BY <1>1, <2>1, Invisible
<1>6. ASSUME NEW t \in Threads, LockWait(t) \/ LockDenied(t) \/ CallFails(t)
      PROVE  UNCHANGED Atomic!vars
  <2>1. /\ pc[t] \notin {"idle", "out"} /\ pc'[t] \notin {"idle", "out"}
        /\ logged' = logged /\ op' = op /\ rc' = rc
        /\ \A u \in Threads : u # t =>
              pc'[u] = pc[u] /\ status'[u] = status[u] /\ value'[u] = value[u]
    BY <1>1, <1>6 DEF LockWait, LockDenied, CallFails, Calls, baton, TypeOK
  <2> QED
    BY <1>1, <2>1, Invisible
<1>7. ASSUME NEW t \in Threads, CommitBegins(t) \/ Retry(t) PROVE UNCHANGED Atomic!vars
  <2>1. /\ pc[t] \notin {"idle", "out"} /\ pc'[t] \notin {"idle", "out"}
        /\ logged' = logged /\ op' = op /\ rc' = rc
        /\ \A u \in Threads : u # t =>
              pc'[u] = pc[u] /\ status'[u] = status[u] /\ value'[u] = value[u]
    BY <1>1, <1>7 DEF CommitBegins, Retry, baton, TypeOK
  <2> QED
    BY <1>1, <2>1, Invisible
<1>8. ASSUME NEW t \in Threads, CommitFails(t) PROVE Atomic!Refuse(t)
  <2>1. Failure \in {DEADLOCK, RUNRECOVERY, EIO}
    BY DEF Failure
  <2> QED
    BY <1>1, <1>8, <2>1, RefusalRefines DEF CommitFails, baton
<1>9. ASSUME NEW t \in Threads, Abort(t) PROVE Atomic!Refuse(t) \/ Atomic!Answer(t)
  BY <1>9, AbortRefines
<1>10. CASE EnvPanic
  BY <1>10 DEF EnvPanic, baton, Atomic!vars, Answered
<1>11. ASSUME Crash PROVE Atomic!Restart
  BY <1>11 DEF Crash, Restart, Atomic!Restart, Answered, Atomic!NoOp, NoOp, Atomic!OK, OK
<1>12. ASSUME UNCHANGED vars PROVE UNCHANGED Atomic!vars
  BY <1>12 DEF vars, Atomic!vars, Answered
<1> QED
  BY <1>2, <1>3, <1>4, <1>5, <1>6, <1>7, <1>8, <1>9, <1>10, <1>11, <1>12,
     TxnBeginFailsRefines, CommitEndsRefines, CommitInDoubtRefines
     DEF Next, TxnEnd, Atomic!Next

\* get, put, putIf and del are atomic and durable, whatever deadlocks, timeouts,
\* failed calls, failed commits, retries, panics and crashes they meet: only a
\* failed txn_begin makes an answer that stands for nothing, and only
\* DB_RUNRECOVERY leaves an effect in doubt.
THEOREM OperationsAreAtomic == Spec => ImplementsAtomicStore
<1>1. Init => Atomic!Init
  BY InitRefines
<1>2. IInv /\ IInv' /\ [Next]_vars => [Atomic!Next]_(Atomic!vars)
  BY NextRefines
<1> QED
  BY <1>1, <1>2, Invariance, PTL DEF Spec, ImplementsAtomicStore, Atomic!Spec
=============================================================================
