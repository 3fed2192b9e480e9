------------------------------- MODULE TxnOps -------------------------------
(***************************************************************************)
(* The data operations of a Db handle: get, put, putIf and del, run by the *)
(* threads of node's eio pool (EIO_Get, EIO_Put, EIO_PutIf, EIO_Del) and,  *)
(* in their Sync form, by the JavaScript thread (GetS, PutS, DelS).        *)
(*                                                                         *)
(* Every operation is the same program: the macro TXN_BEGIN, one or two    *)
(* calls of Berkeley DB on one key, and the macro TXN_END, which commits,  *)
(* aborts, or aborts and goes back to TXN_BEGIN (bdb_common.h).  The pc of *)
(* a thread says which of these steps it is about to take.  The Db was     *)
(* made in an open environment, so its _transactional is set.              *)
(*                                                                         *)
(* Berkeley DB is modelled by what those calls rely on: page locks kept    *)
(* until the transaction ends, before-images, a log forced by commit, the  *)
(* deadlock detector, the transaction region's size, and the panic state   *)
(* of an environment.                                                      *)
(***************************************************************************)
EXTENDS Naturals, FiniteSets, Sequences, Relation

CONSTANTS
    Workers,        \* the threads of the eio pool
    JsThread,       \* the thread that runs JavaScript
    Keys, Values,   \* database keys, and the values a put may store
    None,           \* the contents of a key that is not in the database
    Pages, PageOf,  \* leaf pages, and the page that each key lives on
    Ops,            \* the operations callers may issue
    Retries,        \* Db::_retries
    TxnMax,         \* how many live transactions the txn region has room for
    LockDetect,     \* DbEnv.setLockDetect was called
    LockTimeout,    \* DbEnv.setLockTimeout or setTxnTimeout was called
    IoErrors,       \* calls of Berkeley DB may fail (ENOSPC, ENOMEM, EIO)
    Panics,         \* the environment may panic
    Crashes         \* the process may die and start again

Threads == Workers \cup {JsThread}

Contents == Values \cup {None}

\* The flags an operation may pass on to the last Berkeley DB call it makes.
FlagsOf == [get   |-> {"0", "DB_RMW"},
            put   |-> {"0", "DB_NOOVERWRITE"},
            putIf |-> {"0", "DB_NOOVERWRITE"},
            del   |-> {"0"}]

Op == [kind : {"get", "put", "putIf", "del"}, key : Keys, val : Contents,
       old : Contents, flags : {"0", "DB_RMW", "DB_NOOVERWRITE"}]

NoOp == [kind |-> "none", key |-> None, val |-> None, old |-> None, flags |-> "0"]

ASSUME ThreadsAssumption == IsFiniteSet(Workers) /\ JsThread \notin Workers
ASSUME ContentsAssumption == None \notin Values
ASSUME PagesAssumption == PageOf \in [Keys -> Pages]
ASSUME OpsAssumption ==
    /\ Ops \subseteq Op
    /\ \A o \in Ops :
          /\ o.flags \in FlagsOf[o.kind]
          /\ o.kind \in {"put", "putIf"} => o.val \in Values
          /\ o.kind = "putIf" => o.old \in Values
ASSUME LimitsAssumption == Retries \in Nat /\ TxnMax \in Nat
ASSUME SwitchesAssumption ==
    {LockDetect, LockTimeout, IoErrors, Panics, Crashes} \subseteq BOOLEAN

VARIABLES
    store,      \* contents of the database as the shared cache holds them
    logged,     \* contents as the committed part of the forced log gives them
    panic,      \* the environment has panicked (REGENV's panic flag)
    rlock,      \* per page, the threads whose transactions hold a read lock
    wlock,      \* per page, the threads whose transactions hold a write lock
    waiters,    \* per page, the queue of threads that wait for a lock
    txn,        \* per thread, whether _txn is a live transaction
    undo,       \* per thread, the before-images of its transaction's writes
    pc,         \* per thread, the next step
    op,         \* per thread, the operation it runs (the baton, the arguments)
    rc,         \* per thread, _rc of TXN_BEGIN: what txn_begin returned
    status,     \* per thread, baton->status (rc in the Sync methods)
    value,      \* per thread, the value db->get filled in
    attempts    \* per thread, _attempts of TXN_BEGIN

vars == <<store, logged, panic, rlock, wlock, waiters, txn, undo, pc, op,
          rc, status, value, attempts>>
locks == <<rlock, wlock, waiters>>
baton == <<op, rc, value, attempts>>

OK == "0"
NOTFOUND == "DB_NOTFOUND"
KEYEXIST == "DB_KEYEXIST"
CONSISTENCY == "ConsistencyError"        \* -2
DEADLOCK == "DB_LOCK_DEADLOCK"
RUNRECOVERY == "DB_RUNRECOVERY"
EIO == "EIO"                             \* any other error
Status == {OK, NOTFOUND, KEYEXIST, CONSISTENCY, DEADLOCK, RUNRECOVERY, EIO}

\* What a call answers that fails for a reason of its own.
Failure == IF panic THEN RUNRECOVERY ELSE EIO

Calls == {"get", "put", "del"}

\* Before-images: functions on the set of keys the transaction has written.
Images == UNION {[S -> Contents] : S \in SUBSET Keys}
NoImage == [k \in {} |-> None]

-----------------------------------------------------------------------------
(***************************************************************************)
(* Page locks, which last until the transaction ends.                      *)
(***************************************************************************)
Key(t) == op[t].key
Page(t) == PageOf[Key(t)]

\* put and del lock for writing; get does so under DB_RMW.  The get inside
\* EIO_PutIf passes 0 for its flags.
WantsWrite(t) ==
    pc[t] \in {"put", "del"} \/ (op[t].kind = "get" /\ op[t].flags = "DB_RMW")

\* Seeded fault: a writer does not wait for readers.
ConflictsWithWritersOnly(t, u) == t # u /\ u \in wlock[Page(t)]

Conflicts(t, u) ==
    /\ t # u
    /\ u \in wlock[Page(t)] \/ (WantsWrite(t) /\ u \in rlock[Page(t)])

Queued(t) == \E i \in DOMAIN waiters[Page(t)] : waiters[Page(t)][i] = t
AtHead(t) == waiters[Page(t)] # <<>> /\ Head(waiters[Page(t)]) = t
Holds(t) == t \in rlock[Page(t)] \cup wlock[Page(t)]

\* A request is granted when no other transaction's lock conflicts with it and
\* it does not overtake: a waiter waits its turn, and a newcomer that holds no
\* lock on the page yet queues behind the waiters it conflicts with.
Grantable(t) ==
    /\ \A u \in Threads : ~Conflicts(t, u)
    /\ IF Queued(t) THEN AtHead(t)
       ELSE Holds(t) \/ \A i \in DOMAIN waiters[Page(t)] :
                           ~WantsWrite(t) /\ ~WantsWrite(waiters[Page(t)][i])

\* An upgrade goes to the head of the queue, everyone else to its tail.
Enqueue(t) ==
    waiters' = [waiters EXCEPT ![Page(t)] =
                   IF Holds(t) THEN <<t>> \o @ ELSE Append(@, t)]

Dequeue(t) ==
    IF Queued(t)
    THEN \E i \in DOMAIN waiters[Page(t)] :
            /\ waiters[Page(t)][i] = t
            /\ waiters' = [waiters EXCEPT ![Page(t)] =
                              SubSeq(@, 1, i - 1) \o SubSeq(@, i + 1, Len(@))]
    ELSE UNCHANGED waiters

\* Seeded fault: db->get is passed NULL instead of _txn.
GrantReadOutsideTxn(t) ==
    /\ wlock' = IF WantsWrite(t) THEN [wlock EXCEPT ![Page(t)] = @ \cup {t}]
                ELSE wlock
    /\ Dequeue(t)
    /\ UNCHANGED rlock

Grant(t) ==
    /\ rlock' = IF WantsWrite(t) THEN rlock
                ELSE [rlock EXCEPT ![Page(t)] = @ \cup {t}]
    /\ wlock' = IF WantsWrite(t) THEN [wlock EXCEPT ![Page(t)] = @ \cup {t}]
                ELSE wlock
    /\ Dequeue(t)

\* A thread that waits for itself through the others.
WaitsFor ==
    [t, u \in Threads |-> pc[t] \in Calls /\ Queued(t) /\ Conflicts(t, u)]
Deadlocked(t) == TransitiveClosure(WaitsFor, Threads)[t, t]

EndTxn(t) ==
    /\ rlock' = [p \in Pages |-> rlock[p] \ {t}]
    /\ wlock' = [p \in Pages |-> wlock[p] \ {t}]
    /\ txn' = [txn EXCEPT ![t] = FALSE]
    /\ undo' = [undo EXCEPT ![t] = NoImage]

\* Seeded fault: TXN_END drops the transaction without undoing its writes.
AbortKeepsWrites(t) == EndTxn(t) /\ UNCHANGED store

\* DB_TXN->abort: put the before-images back, then give up the locks.  In a
\* panicked environment the call returns at once and changes nothing.
AbortTxn(t) ==
    IF panic THEN UNCHANGED <<store, rlock, wlock, txn, undo>>
    ELSE /\ store' = [k \in Keys |-> IF k \in DOMAIN undo[t] THEN undo[t][k]
                                     ELSE store[k]]
         /\ EndTxn(t)

\* A Berkeley DB call that writes contents c for the operation's key.
Write(t, c) ==
    /\ store' = [store EXCEPT ![Key(t)] = c]
    /\ undo' = [undo EXCEPT ![t] =
                   [k \in DOMAIN undo[t] \cup {Key(t)} |->
                      IF k \in DOMAIN undo[t] THEN undo[t][k] ELSE store[k]]]

-----------------------------------------------------------------------------
Init ==
    /\ store = [k \in Keys |-> None]
    /\ logged = [k \in Keys |-> None]
    /\ panic = FALSE
    /\ rlock = [p \in Pages |-> {}]
    /\ wlock = [p \in Pages |-> {}]
    /\ waiters = [p \in Pages |-> <<>>]
    /\ txn = [t \in Threads |-> FALSE]
    /\ undo = [t \in Threads |-> NoImage]
    /\ pc = [t \in Threads |-> "idle"]
    /\ op = [t \in Threads |-> NoOp]
    /\ rc = [t \in Threads |-> OK]
    /\ status = [t \in Threads |-> OK]
    /\ value = [t \in Threads |-> None]
    /\ attempts = [t \in Threads |-> 0]

\* A thread takes up an operation of the given kind.
Start(t, kind) ==
    /\ pc[t] = "idle"
    /\ \E o \in {x \in Ops : x.kind = kind} : op' = [op EXCEPT ![t] = o]
    /\ pc' = [pc EXCEPT ![t] = "begin"]
    /\ UNCHANGED <<store, logged, panic, locks, txn, undo, rc, status, value,
                   attempts>>

EIO_Get(t) == t \in Workers /\ Start(t, "get")
EIO_Put(t) == t \in Workers /\ Start(t, "put")
EIO_PutIf(t) == t \in Workers /\ Start(t, "putIf")
EIO_Del(t) == t \in Workers /\ Start(t, "del")

\* The Sync methods; there is no putIfSync.
GetS(t) == t = JsThread /\ Start(t, "get")
PutS(t) == t = JsThread /\ Start(t, "put")
DelS(t) == t = JsThread /\ Start(t, "del")

-----------------------------------------------------------------------------
(***************************************************************************)
(* TXN_BEGIN.                                                              *)
(***************************************************************************)
\* The transaction region holds no more transactions.
RegionFull == Cardinality({t \in Threads : txn[t]}) >= TxnMax

\* The first Berkeley DB call of an operation.
FirstCall(kind) == IF kind = "putIf" THEN "get" ELSE kind

TxnBegin(t) ==
    /\ pc[t] = "begin"
    /\ ~panic /\ ~RegionFull
    /\ txn' = [txn EXCEPT ![t] = TRUE]
    /\ pc' = [pc EXCEPT ![t] = FirstCall(op[t].kind)]
    /\ UNCHANGED <<store, logged, panic, locks, undo, status, baton>>

\* txn_begin finds a panic or a full region, or fails to allocate, to log the
\* recycling of transaction ids, to get a locker or to set its timeout.  Then
\* _rc != 0: goto out, and nothing copies _rc to the status the caller sees.
\* That is 0, or, after a goto again, the DB_LOCK_DEADLOCK of the last attempt.
TxnBeginFails(t) ==
    /\ pc[t] = "begin"
    /\ panic \/ RegionFull \/ IoErrors
    /\ rc' = [rc EXCEPT ![t] = Failure]
    /\ pc' = [pc EXCEPT ![t] = "out"]
    /\ UNCHANGED <<store, logged, panic, locks, txn, undo, op, status, value,
                   attempts>>

-----------------------------------------------------------------------------
(***************************************************************************)
(* The calls between TXN_BEGIN and TXN_END.                                *)
(***************************************************************************)
\* Seeded fault: the value read is not compared with baton->oldVal.
GetStatusUncompared(t) == IF store[Key(t)] = None THEN NOTFOUND ELSE OK

\* db->get.  EIO_PutIf then compares what it read with baton->oldVal, and
\* calls db->put if they agree.
GetStatus(t) ==
    IF store[Key(t)] = None THEN NOTFOUND
    ELSE IF op[t].kind = "putIf" /\ store[Key(t)] # op[t].old THEN CONSISTENCY
    ELSE OK

DbGet(t) ==
    /\ pc[t] = "get"
    /\ ~panic
    /\ Grantable(t)
    /\ Grant(t)
    /\ status' = [status EXCEPT ![t] = GetStatus(t)]
    /\ value' = [value EXCEPT ![t] =
                    IF op[t].kind = "get" THEN store[Key(t)] ELSE None]
    /\ pc' = [pc EXCEPT ![t] =
                 IF op[t].kind = "putIf" /\ GetStatus(t) = OK THEN "put" ELSE "end"]
    /\ UNCHANGED <<store, logged, panic, txn, undo, op, rc, attempts>>

\* Seeded fault: baton->flags is not passed on to db->put.
DbPutOverwrites(t) ==
    /\ pc[t] = "put" /\ ~panic /\ Grantable(t)
    /\ Grant(t)
    /\ status' = [status EXCEPT ![t] = OK]
    /\ Write(t, op[t].val)
    /\ pc' = [pc EXCEPT ![t] = "end"]
    /\ UNCHANGED <<logged, panic, txn, baton>>

\* db->put, which reports DB_KEYEXIST under DB_NOOVERWRITE.
DbPut(t) ==
    /\ pc[t] = "put"
    /\ ~panic
    /\ Grantable(t)
    /\ Grant(t)
    /\ IF op[t].flags = "DB_NOOVERWRITE" /\ store[Key(t)] # None
       THEN /\ status' = [status EXCEPT ![t] = KEYEXIST]
            /\ UNCHANGED <<store, undo>>
       ELSE /\ status' = [status EXCEPT ![t] = OK]
            /\ Write(t, op[t].val)
    /\ pc' = [pc EXCEPT ![t] = "end"]
    /\ UNCHANGED <<logged, panic, txn, baton>>

\* db->del.
DbDel(t) ==
    /\ pc[t] = "del"
    /\ ~panic
    /\ Grantable(t)
    /\ Grant(t)
    /\ IF store[Key(t)] = None
       THEN /\ status' = [status EXCEPT ![t] = NOTFOUND]
            /\ UNCHANGED <<store, undo>>
       ELSE /\ status' = [status EXCEPT ![t] = OK]
            /\ Write(t, None)
    /\ pc' = [pc EXCEPT ![t] = "end"]
    /\ UNCHANGED <<logged, panic, txn, baton>>

\* A call whose lock is not to be had waits for it.
LockWait(t) ==
    /\ pc[t] \in Calls
    /\ ~panic
    /\ ~Queued(t)
    /\ ~Grantable(t)
    /\ Enqueue(t)
    /\ UNCHANGED <<store, logged, panic, rlock, wlock, txn, undo, pc, status, baton>>

\* A waiting call is told DB_LOCK_DEADLOCK: the detector chose it, or its lock
\* or transaction timeout expired.
LockDenied(t) ==
    /\ pc[t] \in Calls
    /\ Queued(t)
    /\ (LockDetect /\ Deadlocked(t)) \/ LockTimeout
    /\ Dequeue(t)
    /\ status' = [status EXCEPT ![t] = DEADLOCK]
    /\ pc' = [pc EXCEPT ![t] = "end"]
    /\ UNCHANGED <<store, logged, panic, rlock, wlock, txn, undo, baton>>

\* Any other failure of the call, with nothing done.
CallFails(t) ==
    /\ pc[t] \in Calls
    /\ ~Queued(t)
    /\ panic \/ IoErrors
    /\ status' = [status EXCEPT ![t] = Failure]
    /\ pc' = [pc EXCEPT ![t] = "end"]
    /\ UNCHANGED <<store, logged, panic, locks, txn, undo, baton>>

\* put deletes the record and adds it again: it may fail in between, and both
\* put and del may fail when they have done what they were asked.
CallFailsHalfway(t) ==
    /\ pc[t] \in {"put", "del"}
    /\ ~panic /\ IoErrors
    /\ Grantable(t)
    /\ Grant(t)
    /\ \E c \in {None} \cup (IF pc[t] = "put" THEN {op[t].val} ELSE {}) : Write(t, c)
    /\ status' = [status EXCEPT ![t] = Failure]
    /\ pc' = [pc EXCEPT ![t] = "end"]
    /\ UNCHANGED <<logged, panic, txn, baton>>

-----------------------------------------------------------------------------
(***************************************************************************)
(* TXN_END.                                                                *)
(***************************************************************************)
\* STATUS == 0: txn->commit is called, and finds no panic.
CommitBegins(t) ==
    /\ pc[t] = "end"
    /\ status[t] = OK
    /\ ~panic
    /\ pc' = [pc EXCEPT ![t] = "commit"]
    /\ UNCHANGED <<store, logged, panic, locks, txn, undo, status, baton>>

\* The writes of t's transaction enter the log.
LogCommit(t) ==
    logged' = [k \in Keys |-> IF k \in DOMAIN undo[t] THEN store[k] ELSE logged[k]]

\* Seeded fault: TXN_END commits with DB_TXN_NOSYNC.
CommitUnforced(t) ==
    /\ pc[t] = "commit"
    /\ EndTxn(t)
    /\ pc' = [pc EXCEPT ![t] = "out"]
    /\ UNCHANGED <<waiters, logged, store, panic, status, baton>>

\* Commit has forced the log and given up the locks.  It does not test for a
\* panic again.
CommitEnds(t) ==
    /\ pc[t] = "commit"
    /\ LogCommit(t)
    /\ EndTxn(t)
    /\ pc' = [pc EXCEPT ![t] = "out"]
    /\ UNCHANGED <<waiters, store, panic, status, baton>>

\* Seeded fault: the result of commit is not stored in STATUS.
CommitFailsSilently(t) ==
    /\ pc[t] \in {"end", "commit"} /\ status[t] = OK
    /\ panic \/ (IoErrors /\ pc[t] = "commit")
    /\ AbortTxn(t)
    /\ pc' = [pc EXCEPT ![t] = "out"]
    /\ UNCHANGED <<waiters, logged, panic, status, baton>>

\* Commit is refused in a panic; one that cannot log makes its record an abort
\* record, aborts the transaction and returns the error.
CommitFails(t) ==
    /\ pc[t] \in {"end", "commit"}
    /\ status[t] = OK
    /\ panic \/ (IoErrors /\ pc[t] = "commit")
    /\ AbortTxn(t)
    /\ status' = [status EXCEPT ![t] = Failure]
    /\ pc' = [pc EXCEPT ![t] = "out"]
    /\ UNCHANGED <<waiters, logged, panic, baton>>

\* A panic under commit, its record being in the log and out of reach (its
\* author's "left with a commit record but a panic return"), or while it gives
\* up the locks.
CommitInDoubt(t) ==
    /\ pc[t] = "commit"
    /\ panic
    /\ LogCommit(t)
    /\ status' = [status EXCEPT ![t] = RUNRECOVERY]
    /\ pc' = [pc EXCEPT ![t] = "out"]
    /\ UNCHANGED <<store, panic, locks, txn, undo, baton>>

\* Seeded fault: goto again whatever _attempts is.
RetryForever(t) ==
    /\ pc[t] = "end" /\ status[t] = DEADLOCK
    /\ attempts' = [attempts EXCEPT ![t] = @ + 1]
    /\ AbortTxn(t)
    /\ pc' = [pc EXCEPT ![t] = "begin"]
    /\ UNCHANGED <<waiters, logged, panic, op, rc, status, value>>

\* ++_attempts <= _retries: abort and go back to TXN_BEGIN.
Retry(t) ==
    /\ pc[t] = "end"
    /\ status[t] = DEADLOCK
    /\ attempts[t] + 1 <= Retries
    /\ attempts' = [attempts EXCEPT ![t] = @ + 1]
    /\ AbortTxn(t)
    /\ pc' = [pc EXCEPT ![t] = "begin"]
    /\ UNCHANGED <<waiters, logged, panic, op, rc, status, value>>

\* Seeded fault: the last branch of TXN_END returns without aborting.
AbortForgotten(t) ==
    /\ pc[t] = "end" /\ status[t] # OK
    /\ status[t] = DEADLOCK => attempts[t] + 1 > Retries
    /\ attempts' = [attempts EXCEPT ![t] = IF status[t] = DEADLOCK THEN @ + 1 ELSE @]
    /\ pc' = [pc EXCEPT ![t] = "out"]
    /\ UNCHANGED <<store, logged, panic, locks, txn, undo, op, rc, status, value>>

\* Seeded fault: a deadlock is reported although retries are left.
AbortEarly(t) ==
    /\ pc[t] = "end" /\ status[t] # OK
    /\ attempts' = [attempts EXCEPT ![t] = IF status[t] = DEADLOCK THEN @ + 1 ELSE @]
    /\ AbortTxn(t)
    /\ pc' = [pc EXCEPT ![t] = "out"]
    /\ UNCHANGED <<waiters, logged, panic, op, rc, status, value>>

\* else: abort and fall through to out.
Abort(t) ==
    /\ pc[t] = "end"
    /\ status[t] # OK
    /\ status[t] = DEADLOCK => attempts[t] + 1 > Retries
    /\ attempts' = [attempts EXCEPT ![t] = IF status[t] = DEADLOCK THEN @ + 1 ELSE @]
    /\ AbortTxn(t)
    /\ pc' = [pc EXCEPT ![t] = "out"]
    /\ UNCHANGED <<waiters, logged, panic, op, rc, status, value>>

\* out: the status goes to the caller, and the baton is deleted.
Return(t) ==
    /\ pc[t] = "out"
    /\ pc' = [pc EXCEPT ![t] = "idle"]
    /\ op' = [op EXCEPT ![t] = NoOp]
    /\ rc' = [rc EXCEPT ![t] = OK]
    /\ status' = [status EXCEPT ![t] = OK]
    /\ value' = [value EXCEPT ![t] = None]
    /\ attempts' = [attempts EXCEPT ![t] = 0]
    /\ UNCHANGED <<store, logged, panic, locks, txn, undo>>

-----------------------------------------------------------------------------
(***************************************************************************)
(* The environment.                                                        *)
(***************************************************************************)
\* Berkeley DB meets an error it cannot back out of (__env_panic).
EnvPanic ==
    /\ Panics
    /\ ~panic
    /\ panic' = TRUE
    /\ UNCHANGED <<store, logged, locks, txn, undo, pc, status, baton>>

\* Everything but the database and its log is new.
Restart ==
    /\ panic' = FALSE
    /\ rlock' = [p \in Pages |-> {}]
    /\ wlock' = [p \in Pages |-> {}]
    /\ waiters' = [p \in Pages |-> <<>>]
    /\ txn' = [t \in Threads |-> FALSE]
    /\ undo' = [t \in Threads |-> NoImage]
    /\ pc' = [t \in Threads |-> "idle"]
    /\ op' = [t \in Threads |-> NoOp]
    /\ rc' = [t \in Threads |-> OK]
    /\ status' = [t \in Threads |-> OK]
    /\ value' = [t \in Threads |-> None]
    /\ attempts' = [t \in Threads |-> 0]

\* Seeded fault: openSync drops DB_RECOVER.
CrashWithoutRecovery == Crashes /\ Restart /\ UNCHANGED <<store, logged>>

\* The process dies; openSync's default DB_RECOVER rebuilds the database from
\* the log.
Crash ==
    /\ Crashes
    /\ store' = logged
    /\ Restart
    /\ UNCHANGED logged

Accept(t) ==
    \/ EIO_Get(t) \/ EIO_Put(t) \/ EIO_PutIf(t) \/ EIO_Del(t)
    \/ GetS(t) \/ PutS(t) \/ DelS(t)

Call(t) == DbGet(t) \/ DbPut(t) \/ DbDel(t)

TxnEnd(t) ==
    \/ CommitBegins(t) \/ CommitEnds(t) \/ CommitFails(t) \/ CommitInDoubt(t)
    \/ Retry(t) \/ Abort(t)

Next ==
    \/ \E t \in Threads :
          \/ Accept(t) \/ TxnBegin(t) \/ TxnBeginFails(t) \/ Call(t)
          \/ LockWait(t) \/ LockDenied(t) \/ CallFails(t) \/ CallFailsHalfway(t)
          \/ TxnEnd(t) \/ Return(t)
    \/ EnvPanic
    \/ Crash

Spec == Init /\ [][Next]_vars

\* Every thread runs on and the detector is run by whoever starts to wait.  The
\* lock manager promotes waiters when a lock is given up, before their threads
\* run again, so a waiter that is at the head of its queue while its lock is
\* free again and again gets it.  Callers need not issue operations, and
\* timeouts need not expire.
Fairness ==
    \A t \in Threads :
        /\ WF_vars(TxnBegin(t) \/ TxnBeginFails(t))
        /\ WF_vars(TxnEnd(t))
        /\ WF_vars(Return(t))
        /\ WF_vars(LockWait(t))
        /\ WF_vars(LockDetect /\ LockDenied(t))
        /\ SF_vars(Call(t))

FairSpec == Spec /\ Fairness
-----------------------------------------------------------------------------
(***************************************************************************)
(* What is checked.                                                        *)
(***************************************************************************)
\* Every variable has its type, a thread's pc fits its operation, and _attempts
\* passes _retries only when the operation has given up.
TypeOK ==
    /\ store \in [Keys -> Contents]
    /\ logged \in [Keys -> Contents]
    /\ panic \in BOOLEAN
    /\ rlock \in [Pages -> SUBSET Threads]
    /\ wlock \in [Pages -> SUBSET Threads]
    /\ waiters \in [Pages -> Seq(Threads)]
    /\ txn \in [Threads -> BOOLEAN]
    /\ undo \in [Threads -> Images]
    /\ pc \in [Threads -> {"idle", "begin", "get", "put", "del", "end", "commit",
                        "out"}]
    /\ op \in [Threads -> Ops \cup {NoOp}]
    /\ rc \in [Threads -> {OK, RUNRECOVERY, EIO}]
    /\ status \in [Threads -> Status]
    /\ value \in [Threads -> Contents]
    /\ attempts \in [Threads -> 0 .. Retries + 1]
    /\ \A t \in Threads :
          /\ pc[t] # "idle" => op[t] \in Ops
          /\ pc[t] = "get" => op[t].kind \in {"get", "putIf"}
          /\ pc[t] = "put" => op[t].kind \in {"put", "putIf"}
          /\ pc[t] = "del" => op[t].kind = "del"
          /\ pc[t] = "commit" => status[t] = OK
          /\ pc[t] # "out" => attempts[t] <= Retries /\ rc[t] = OK

\* A page locked for writing is locked by nobody else, through upgrades (the
\* put of EIO_PutIf after its get), retries and aborts.
LockExclusion ==
    \A p \in Pages : \A t \in wlock[p], u \in rlock[p] \cup wlock[p] : t = u

\* Whatever way out of the macros an operation takes (commit, abort, failed
\* txn_begin, goto again), no transaction outlives it: outside TXN_BEGIN ..
\* TXN_END a thread has no live transaction, no lock and no uncommitted write.
\* (In a panicked environment abort does nothing, so nothing is claimed.)
NothingLeaks ==
    ~panic => \A t \in Threads :
        pc[t] \in {"idle", "begin", "out"} =>
            /\ ~txn[t]
            /\ \A p \in Pages : t \notin rlock[p] \cup wlock[p]
            /\ undo[t] = NoImage

\* The cache differs from the committed contents only at keys that a live
\* transaction has written and still locks, and its before-image is the
\* committed value: abort and recovery agree on every key.
DirtyIsOwned ==
    ~panic =>
        /\ \A k \in Keys : store[k] # logged[k] =>
              \E t \in wlock[PageOf[k]] : k \in DOMAIN undo[t]
        /\ \A t \in Threads : \A k \in DOMAIN undo[t] :
              t \in wlock[PageOf[k]] /\ undo[t][k] = logged[k]

\* EIO_PutIf's test is still true when its put runs: between db->get and
\* db->put no other thread changes the value that memcmp saw.
AssertedValueHolds ==
    \A t \in Threads :
        pc[t] = "put" /\ op[t].kind = "putIf" =>
            store[Key(t)] = op[t].old /\ t \in rlock[Page(t)]

\* The refinement mapping: the committed contents are the store, and an answer
\* stands for nothing when the operation's txn_begin failed.
Answered(t) == pc[t] = "out"
Atomic == INSTANCE AtomicStore WITH
    store <- logged,
    phase <- [t \in Threads |-> IF pc[t] = "idle" THEN "idle"
                                ELSE IF Answered(t) THEN "answered" ELSE "called"],
    skipped <- [t \in Threads |-> rc[t] # OK],
    status <- [t \in Threads |-> IF Answered(t) THEN status[t] ELSE OK],
    value <- [t \in Threads |-> IF Answered(t) /\ status[t] = OK THEN value[t]
                                 ELSE None]

\* The return code an operation takes to TXN_END is the one that the committed
\* contents call for, under a lock that keeps it so until the commit has logged
\* its writes, panic or not, and the cache then holds the operation's effect on
\* the committed contents.
AnswerIsCurrent ==
    \A t \in Threads :
        /\ pc[t] = "commit" \/ (pc[t] = "end" /\ ~panic)
        /\ status[t] \in {OK, NOTFOUND, KEYEXIST, CONSISTENCY}
        => /\ status[t] = Atomic!Outcome(op[t], logged)
           /\ t \in rlock[Page(t)] \cup wlock[Page(t)]
           /\ status[t] = OK =>
                 /\ store[Key(t)] = Atomic!Effect(op[t], logged)[Key(t)]
                 /\ op[t].kind # "get" => Key(t) \in DOMAIN undo[t]
                 /\ value[t] = IF op[t].kind = "get" THEN logged[Key(t)] ELSE None

\* A caller hears DB_LOCK_DEADLOCK only when the operation was tried 1 + _retries
\* times, as the documentation of openSync's 'retries' has it, or when the
\* txn_begin of a further attempt failed.
RetriesExhausted ==
    \A t \in Threads :
        pc[t] = "out" /\ status[t] = DEADLOCK /\ rc[t] = OK
            => attempts[t] = Retries + 1

\* An operation that writes and is answered 0 is in the log when it is answered.
AcknowledgedIsLogged ==
    [][\A t \in Threads :
          pc[t] # "out" /\ pc'[t] = "out" /\ status'[t] = OK =>
              /\ op[t].kind \in {"put", "putIf"} => logged'[Key(t)] = op[t].val
              /\ op[t].kind = "del" => logged'[Key(t)] = None]_vars

\* The same of an operation whose txn_begin did not fail: no other error, and no
\* panic under its commit, can come between the 0 and the log.
BegunIsLogged ==
    [][\A t \in Threads :
          pc[t] # "out" /\ pc'[t] = "out" /\ status'[t] = OK /\ rc'[t] = OK =>
              /\ op[t].kind \in {"put", "putIf"} => logged'[Key(t)] = op[t].val
              /\ op[t].kind = "del" => logged'[Key(t)] = None]_vars

\* The operations implement AtomicStore: each takes effect at one instant, a
\* refusal has no effect, what was answered survives a crash, only
\* DB_RUNRECOVERY leaves the caller in doubt, and only a failed txn_begin makes
\* an answer that stands for nothing.
ImplementsAtomicStore == Atomic!Spec

\* Every operation that a thread takes up is answered.
EveryCallReturns == \A t \in Threads : pc[t] # "idle" ~> pc[t] = "idle"
=============================================================================
