--------------------------- MODULE AsyncRequests ---------------------------
(***************************************************************************)
(* The way of an asynchronous call through the binding, and the lives of   *)
(* the objects it uses.  JavaScript calls db.get, put, putIf, del,         *)
(* cursorGet or env.txnCheckpoint; the method makes a baton, holds the     *)
(* object with Ref, queues the baton for the eio pool and holds the event  *)
(* loop with ev_ref.  A thread of the pool runs the EIO_ function, and the *)
(* event loop then runs the EIO_After function: ev_unref, the callback,    *)
(* Unref.  Meanwhile the script opens, closes and drops Db and DbEnv       *)
(* objects, and the collector deletes those nothing refers to.             *)
(*                                                                         *)
(* What the pool thread does between its Berkeley DB calls, retries among  *)
(* it, is TxnOps and CursorOps; here a call, which may fail, uses handles, *)
(* which somebody may have closed meanwhile.                               *)
(* Using a NULL pointer, a closed handle or collected memory is undefined  *)
(* behaviour: the model records it in fault and stops.                     *)
(***************************************************************************)
EXTENDS Naturals, FiniteSets, Sequences

CONSTANTS
    Dbs, Env,       \* the Db objects of one environment, and its DbEnv object
    Reqs,           \* asynchronous calls the script makes
    Workloads,      \* the methods each may be a call of
    None,
    PoolSize,       \* threads in the eio pool
    InitTxn,        \* env.openSync's flags have DB_INIT_TXN
    Throws,         \* callbacks may throw with no uncaughtException listener
    RuleSets        \* what scripts may take care of: subsets of AllRules

Objects == Dbs \cup {Env}

AllRules ==
    {"opensEnvFirst",   \* makes a Db only when its environment is open
     "closedIsDone",    \* makes no call on an object it has closed
     "closesIdle",      \* closes a Db when its calls have called back, and the
                        \* environment when all have and its Dbs are closed
     "keepsEnv",        \* keeps an environment it closes, or has Dbs in
     "keepsBuffers"}    \* keeps keys and values until the callback

\* EIO_ functions that use _db once, that use it again, and that use _env.
OneCall == {"get", "put", "del"}
MoreCalls == {"putIf", "cursorGet"}
EnvCall == {"txnCheckpoint"}

ASSUME ObjectsAssumption == IsFiniteSet(Dbs) /\ Env \notin Dbs /\ None \notin Objects
ASSUME ReqsAssumption ==
    /\ IsFiniteSet(Reqs)
    /\ None \notin Reqs
    /\ Workloads \subseteq [Reqs -> {OneCall, MoreCalls, EnvCall}]
ASSUME PoolAssumption == PoolSize \in Nat \ {0}
ASSUME ScriptAssumption ==
    {InitTxn, Throws} \subseteq BOOLEAN /\ RuleSets \subseteq SUBSET AllRules

VARIABLES
    \* Db and DbEnv objects
    wrapper,        \* the C++ object: "none", "live" or "deleted"
    held,           \* JavaScript can reach the object
    refs,           \* node::ObjectWrap::refs_
    pointer,        \* _db (of a Db), _env (of a DbEnv) is not NULL
    handle,         \* the DB or DB_ENV: "none", "created", "open" or "freed"
    transactional,  \* _transactional
    \* requests
    stage,          \* how far a request is
    target,         \* baton->object
    rc,             \* what txn_begin returned: _rc of TXN_BEGIN
    status,         \* baton->status
    executed,       \* Berkeley DB has performed the request's last call
    buffer,         \* memory of key and val: "held", "dropped" or "freed"
    \* the process
    queue, done,    \* eio's request and result queues
    evrefs,         \* references on the event loop
    js,             \* the main thread: "script", "loop", "exited" or "killed"
    callback,       \* the request whose callback runs, or None
    closing,        \* the Db that CloseS is about to give a NULL _db, or None
    fault,          \* undefined behaviour met: "none", "null" or "freed"
    \* the script, never changed
    rules,          \* what it takes care of
    methods         \* what a request is a call of: alternatives whose EIO_
                    \* functions take the same steps

objects == <<wrapper, held, refs, pointer, handle, transactional>>
requests == <<stage, target, rc, status, executed, buffer>>
script == <<rules, methods>>
process == <<queue, done, evrefs, js, callback, closing>>
vars == <<objects, requests, process, fault, script>>

OK == "0"
Error == "error"      \* any other return code

Working == {"begin", "call", "again", "end"}
Pending == {"queued", "done", "calling"} \cup Working

Init ==
    /\ wrapper = [o \in Objects |-> "none"]
    /\ held = [o \in Objects |-> FALSE]
    /\ refs = [o \in Objects |-> 0]
    /\ pointer = [o \in Objects |-> FALSE]
    /\ handle = [o \in Objects |-> "none"]
    /\ transactional = [o \in Objects |-> FALSE]
    /\ stage = [r \in Reqs |-> "new"]
    /\ target = [r \in Reqs |-> None]
    /\ rc = [r \in Reqs |-> OK]
    /\ status = [r \in Reqs |-> OK]
    /\ executed = [r \in Reqs |-> FALSE]
    /\ buffer = [r \in Reqs |-> "held"]
    /\ queue = <<>>
    /\ done = <<>>
    /\ evrefs = 0
    /\ js = "script"
    /\ callback = None
    /\ closing = None
    /\ fault = "none"
    /\ rules \in RuleSets
    /\ methods \in Workloads

Alive == fault = "none" /\ js \notin {"exited", "killed"}
Scripting == Alive /\ js = "script" /\ closing = None
Follows(rule) == rule \in rules

Fail(f) == fault' = f /\ UNCHANGED <<objects, requests, process>>

\* Every use of a Db's handle also uses its environment's.
Dangling(o) == handle[o] = "freed" \/ handle[Env] = "freed"

Outstanding(o) == {r \in Reqs : stage[r] \in Pending /\ target[r] = o}

-----------------------------------------------------------------------------
(***************************************************************************)
(* What the script does: constructors, open, close, and losing references. *)
(***************************************************************************)
\* A reference on which the script may make a call.
Usable(o) ==
    held[o] /\ (Follows("closedIsDone") => handle[o] # "freed")

\* DbEnv::New.
NewEnv ==
    /\ Scripting
    /\ wrapper[Env] = "none"
    /\ wrapper' = [wrapper EXCEPT ![Env] = "live"]
    /\ held' = [held EXCEPT ![Env] = TRUE]
    /\ pointer' = [pointer EXCEPT ![Env] = TRUE]
    /\ handle' = [handle EXCEPT ![Env] = "created"]
    /\ UNCHANGED <<refs, transactional, requests, process, fault>>

\* Seeded fault: Db::New does not ask the environment about transactions.
NewDbPlain(d) ==
    /\ Scripting /\ wrapper[d] = "none" /\ Usable(Env)
    /\ Follows("opensEnvFirst") => handle[Env] = "open"
    /\ handle[Env] # "freed"
    /\ wrapper' = [wrapper EXCEPT ![d] = "live"]
    /\ held' = [held EXCEPT ![d] = TRUE]
    /\ pointer' = [pointer EXCEPT ![d] = TRUE]
    /\ handle' = [handle EXCEPT ![d] = "created"]
    /\ UNCHANGED <<refs, transactional, requests, process, fault>>

\* Db::New copies the environment's handle and _transactional as they are now,
\* and does not hold the DbEnv object.
NewDb(d) ==
    /\ Scripting
    /\ wrapper[d] = "none"
    /\ Usable(Env)
    /\ Follows("opensEnvFirst") => handle[Env] = "open"
    /\ IF handle[Env] = "freed" THEN Fail("freed")
       ELSE /\ wrapper' = [wrapper EXCEPT ![d] = "live"]
            /\ held' = [held EXCEPT ![d] = TRUE]
            /\ pointer' = [pointer EXCEPT ![d] = TRUE]
            /\ handle' = [handle EXCEPT ![d] = "created"]
            /\ transactional' = [transactional EXCEPT ![d] = transactional[Env]]
            /\ UNCHANGED <<refs, requests, process, fault>>

\* DbEnv::OpenS.  Berkeley DB may refuse; _transactional is set before.
OpenEnv ==
    /\ Scripting
    /\ Usable(Env)
    /\ IF handle[Env] = "freed" THEN Fail("freed")
       ELSE /\ transactional' = [transactional EXCEPT ![Env] = InitTxn]
            /\ \E h \in {handle[Env], "open"} : handle' = [handle EXCEPT ![Env] = h]
            /\ UNCHANGED <<wrapper, held, refs, pointer, requests, process, fault>>

\* Db::OpenS.  With a NULL _db it returns -1 and changes nothing.
OpenDb(d) ==
    /\ Scripting
    /\ Usable(d)
    /\ pointer[d]
    /\ IF Dangling(d) THEN Fail("freed")
       ELSE /\ handle[Env] = "open"
            /\ handle' = [handle EXCEPT ![d] = "open"]
            /\ UNCHANGED <<wrapper, held, refs, pointer, transactional,
                           requests, process, fault>>

\* The Sync methods of a Db use _db without testing it.
CallS(d) ==
    /\ Scripting
    /\ Usable(d)
    /\ ~pointer[d] \/ Dangling(d)
    /\ Fail(IF pointer[d] THEN "freed" ELSE "null")

\* Db::CloseS, in two steps: DB->close frees the handle ...
CloseDb(d) ==
    /\ Scripting
    /\ Usable(d)
    /\ Follows("closesIdle") => Outstanding(d) = {}
    /\ IF ~pointer[d] THEN Fail("null")
       ELSE IF Dangling(d) THEN Fail("freed")
       ELSE /\ handle' = [handle EXCEPT ![d] = "freed"]
            /\ closing' = d
            /\ UNCHANGED <<wrapper, held, refs, pointer, transactional, requests,
                           queue, done, evrefs, js, callback, fault>>

\* Seeded fault: CloseS leaves _db as it is.
ClosedDbKeepsPointer(d) ==
    /\ Alive /\ closing = d
    /\ closing' = None
    /\ UNCHANGED <<objects, requests, queue, done, evrefs, js, callback, fault>>

\* ... and then _db = NULL.
ClosedDb(d) ==
    /\ Alive
    /\ closing = d
    /\ pointer' = [pointer EXCEPT ![d] = FALSE]
    /\ closing' = None
    /\ UNCHANGED <<wrapper, held, refs, handle, transactional, requests, queue,
                   done, evrefs, js, callback, fault>>

\* DB_ENV->close also closes the databases that are open in the environment.
EnvFreed == [o \in Objects |-> IF o = Env \/ handle[o] = "open" THEN "freed"
                               ELSE handle[o]]

\* DbEnv::CloseS; _env keeps its value.
CloseEnv ==
    /\ Scripting
    /\ Usable(Env)
    /\ Follows("closesIdle") =>
          /\ \A o \in Objects : Outstanding(o) = {}
          /\ \A d \in Dbs : handle[d] \in {"none", "freed"}
    /\ IF handle[Env] = "freed" THEN Fail("freed")
       ELSE /\ handle' = EnvFreed
            /\ UNCHANGED <<wrapper, held, refs, pointer, transactional, requests,
                           process, fault>>

\* The script loses its last reference to an object.
Drop(o) ==
    /\ Scripting
    /\ held[o]
    /\ Follows("keepsEnv") /\ o = Env =>
          /\ handle[Env] # "freed"
          /\ \A d \in Dbs : handle[d] \in {"none", "freed"}
    /\ held' = [held EXCEPT ![o] = FALSE]
    /\ UNCHANGED <<wrapper, refs, pointer, handle, transactional, requests,
                   process, fault>>

\* Nothing but the script's own variables keeps the Buffers of a call: the
\* baton has only their addresses.
DropBuffer(r) ==
    /\ Scripting
    /\ ~Follows("keepsBuffers")
    /\ stage[r] \in Pending
    /\ target[r] # Env
    /\ buffer[r] = "held"
    /\ buffer' = [buffer EXCEPT ![r] = "dropped"]
    /\ UNCHANGED <<objects, stage, target, rc, status, executed, process, fault>>

-----------------------------------------------------------------------------
(***************************************************************************)
(* The collector.  It runs on the main thread, in the script or between    *)
(* callbacks, and takes what neither the script nor refs_ holds.           *)
(***************************************************************************)
Collecting == Alive /\ closing = None

\* ~Db.
CollectDb(d) ==
    /\ Collecting
    /\ wrapper[d] = "live" /\ ~held[d] /\ refs[d] = 0
    /\ IF pointer[d] /\ Dangling(d) THEN Fail("freed")
       ELSE /\ wrapper' = [wrapper EXCEPT ![d] = "deleted"]
            /\ handle' = [handle EXCEPT ![d] = "freed"]
            /\ pointer' = [pointer EXCEPT ![d] = FALSE]
            /\ UNCHANGED <<held, refs, transactional, requests, process, fault>>

\* ~DbEnv.
CollectEnv ==
    /\ Collecting
    /\ wrapper[Env] = "live" /\ ~held[Env] /\ refs[Env] = 0
    /\ IF handle[Env] = "freed" THEN Fail("freed")
       ELSE /\ wrapper' = [wrapper EXCEPT ![Env] = "deleted"]
            /\ handle' = EnvFreed
            /\ pointer' = [pointer EXCEPT ![Env] = FALSE]
            /\ UNCHANGED <<held, refs, transactional, requests, process, fault>>

CollectBuffer(r) ==
    /\ Collecting
    /\ buffer[r] = "dropped"
    /\ buffer' = [buffer EXCEPT ![r] = "freed"]
    /\ UNCHANGED <<objects, stage, target, rc, status, executed, process, fault>>

-----------------------------------------------------------------------------
(***************************************************************************)
(* The asynchronous methods.                                               *)
(***************************************************************************)
\* Seeded fault: the object is not held while its request is out.
SubmitWithoutRef(r, o) ==
    /\ Scripting /\ stage[r] = "new" /\ Usable(o)
    /\ stage' = [stage EXCEPT ![r] = "queued"]
    /\ target' = [target EXCEPT ![r] = o]
    /\ queue' = Append(queue, r)
    /\ evrefs' = evrefs + 1
    /\ UNCHANGED <<objects, rc, status, executed, buffer, done, js, callback,
                   closing, fault>>

\* Seeded fault: the event loop is not held while a request is out.
SubmitWithoutEvRef(r, o) ==
    /\ Scripting /\ stage[r] = "new" /\ Usable(o)
    /\ stage' = [stage EXCEPT ![r] = "queued"]
    /\ target' = [target EXCEPT ![r] = o]
    /\ refs' = [refs EXCEPT ![o] = @ + 1]
    /\ queue' = Append(queue, r)
    /\ UNCHANGED <<wrapper, held, pointer, handle, transactional, rc, status,
                   executed, buffer, done, evrefs, js, callback, closing, fault>>

\* new baton, Ref, eio_custom, ev_ref.
Submit(r, o) ==
    /\ Scripting
    /\ stage[r] = "new"
    /\ Usable(o)
    /\ stage' = [stage EXCEPT ![r] = "queued"]
    /\ target' = [target EXCEPT ![r] = o]
    /\ refs' = [refs EXCEPT ![o] = @ + 1]
    /\ queue' = Append(queue, r)
    /\ evrefs' = evrefs + 1
    /\ UNCHANGED <<wrapper, held, pointer, handle, transactional, rc, status,
                   executed, buffer, done, js, callback, closing, fault>>

Get(r, d) == "get" \in methods[r] /\ Submit(r, d)
Put(r, d) == "put" \in methods[r] /\ Submit(r, d)
PutIf(r, d) == "putIf" \in methods[r] /\ Submit(r, d)
Del(r, d) == "del" \in methods[r] /\ Submit(r, d)
CursorGet(r, d) == "cursorGet" \in methods[r] /\ Submit(r, d)
TxnCheckpoint(r) == "txnCheckpoint" \in methods[r] /\ Submit(r, Env)

-----------------------------------------------------------------------------
(***************************************************************************)
(* The pool: EIO_Get, EIO_Put, EIO_PutIf, EIO_Del, EIO_CursorGet and       *)
(* EIO_Checkpoint.                                                         *)
(***************************************************************************)
Finish(r) ==
    /\ stage' = [stage EXCEPT ![r] = "done"]
    /\ done' = Append(done, r)

InTxn(r) == target[r] \in Dbs /\ transactional[target[r]]

\* A thread takes the oldest request.  If the pointer is NULL it returns at
\* once: the status is the 0 that the baton was made with.
Take(r) ==
    /\ Alive
    /\ queue # <<>>
    /\ r = Head(queue)
    /\ Cardinality({q \in Reqs : stage[q] \in Working}) < PoolSize
    /\ IF wrapper[target[r]] # "live" THEN Fail("freed")
       ELSE /\ queue' = Tail(queue)
            /\ IF pointer[target[r]]
               THEN /\ stage' = [stage EXCEPT ![r] = IF InTxn(r) THEN "begin" ELSE "call"]
                    /\ UNCHANGED done
               ELSE Finish(r)
            /\ UNCHANGED <<objects, target, rc, status, executed, buffer, evrefs, js,
                           callback, closing, fault>>

\* TXN_BEGIN.  txn_begin may fail in any environment, and does in one that was
\* never opened: goto out, where nobody looks at _rc.
Begin(r) ==
    /\ Alive
    /\ stage[r] = "begin"
    /\ IF handle[Env] = "freed" THEN Fail("freed")
       ELSE /\ \/ /\ handle[Env] = "open"
                  /\ stage' = [stage EXCEPT ![r] = "call"]
                  /\ UNCHANGED <<rc, done>>
               \/ /\ rc' = [rc EXCEPT ![r] = Error]
                  /\ Finish(r)
            /\ UNCHANGED <<objects, target, status, executed, buffer, queue, evrefs, js,
                           callback, closing, fault>>

\* putIf calls put after a get that succeeds.  cursorGet uses and closes a cursor
\* it could open, and keeps the status of the close.
AfterCall(r, ok) ==
    IF methods[r] = MoreCalls /\ stage[r] = "call" /\ ok
    THEN {"again", "end"} ELSE {"end"}

Memory(r) == IF ~pointer[target[r]] THEN "null"
             ELSE IF Dangling(target[r]) \/ buffer[r] = "freed" THEN "freed"
             ELSE "none"

\* Seeded fault: the return code of the call is not stored in the baton.
CallStatusLost(r) ==
    /\ Alive /\ stage[r] \in {"call", "again"}
    /\ IF Memory(r) # "none" THEN Fail(Memory(r))
       ELSE /\ \E ok \in {FALSE, handle[target[r]] = "open"} :
                  /\ executed' = [executed EXCEPT ![r] = ok]
                  /\ \E s \in AfterCall(r, ok) : stage' = [stage EXCEPT ![r] = s]
            /\ UNCHANGED <<objects, target, rc, status, buffer, process, fault>>

\* A Berkeley DB call; all read _db anew.  It may fail, and a handle that is not
\* open refuses it.
Call(r) ==
    /\ Alive
    /\ stage[r] \in {"call", "again"}
    /\ IF Memory(r) # "none" THEN Fail(Memory(r))
       ELSE /\ \E ok \in {FALSE, handle[target[r]] = "open"} :
                  /\ executed' = [executed EXCEPT ![r] = ok]
                  /\ status' = [status EXCEPT ![r] = IF ok THEN OK ELSE Error]
                  /\ \E s \in AfterCall(r, ok) : stage' = [stage EXCEPT ![r] = s]
            /\ UNCHANGED <<objects, target, rc, buffer, process, fault>>

\* TXN_END uses the transaction, which belongs to the environment.  The commit
\* may fail.
End(r) ==
    /\ Alive
    /\ stage[r] = "end"
    /\ IF InTxn(r) /\ handle[Env] = "freed" THEN Fail("freed")
       ELSE /\ \/ UNCHANGED status
               \/ InTxn(r) /\ status' = [status EXCEPT ![r] = Error]
            /\ Finish(r)
            /\ UNCHANGED <<objects, target, rc, executed, buffer, queue, evrefs, js,
                           callback, closing, fault>>

-----------------------------------------------------------------------------
(***************************************************************************)
(* The event loop: EIO_AfterGet, EIO_AfterCursorGet, EIO_After_ReturnStatus *)
(***************************************************************************)
\* The main program ends, and node enters the loop.
MainReturns ==
    /\ Scripting
    /\ callback = None
    /\ js' = "loop"
    /\ UNCHANGED <<objects, requests, queue, done, evrefs, callback, closing, fault>>

\* ev_unref, and the callback starts.
After(r) ==
    /\ Alive
    /\ js = "loop"
    /\ done # <<>>
    /\ r = Head(done)
    /\ done' = Tail(done)
    /\ evrefs' = evrefs - 1
    /\ stage' = [stage EXCEPT ![r] = "calling"]
    /\ js' = "script"
    /\ callback' = r
    /\ UNCHANGED <<objects, target, rc, status, executed, buffer, queue, closing, fault>>

\* Seeded fault: the After function does not give up its reference.
CallbackReturnsWithoutUnref(r) ==
    /\ Scripting /\ callback = r
    /\ stage' = [stage EXCEPT ![r] = "delivered"]
    /\ js' = "loop"
    /\ callback' = None
    /\ UNCHANGED <<objects, target, rc, status, executed, buffer, queue, done, evrefs,
                   closing, fault>>

\* The callback returns, or throws to an uncaughtException listener: Unref, and
\* the baton is deleted.
CallbackReturns(r) ==
    /\ Scripting
    /\ callback = r
    /\ IF wrapper[target[r]] # "live" THEN Fail("freed")
       ELSE /\ refs' = [refs EXCEPT ![target[r]] = @ - 1]
            /\ stage' = [stage EXCEPT ![r] = "delivered"]
            /\ js' = "loop"
            /\ callback' = None
            /\ UNCHANGED <<wrapper, held, pointer, handle, transactional, target,
                           rc, status, executed, buffer, queue, done, evrefs, closing,
                           fault>>

\* node::FatalException without a listener ends the process.
CallbackThrows(r) ==
    /\ Scripting
    /\ Throws
    /\ callback = r
    /\ js' = "killed"
    /\ UNCHANGED <<objects, requests, queue, done, evrefs, callback, closing, fault>>

\* Nothing holds the loop: ev_loop returns and node exits.
LoopEnds ==
    /\ Alive
    /\ js = "loop"
    /\ evrefs = 0
    /\ js' = "exited"
    /\ UNCHANGED <<objects, requests, queue, done, evrefs, callback, closing, fault>>

\* The process is gone.
Gone == ~Alive /\ UNCHANGED <<objects, requests, process, fault>>

Script ==
    \/ NewEnv \/ OpenEnv \/ CloseEnv
    \/ \E d \in Dbs :
          \/ NewDb(d) \/ OpenDb(d) \/ CallS(d) \/ CloseDb(d)
          \/ \E r \in Reqs :
                Get(r, d) \/ Put(r, d) \/ PutIf(r, d) \/ Del(r, d) \/ CursorGet(r, d)
    \/ \E o \in Objects : Drop(o)
    \/ \E r \in Reqs : TxnCheckpoint(r) \/ DropBuffer(r)

Collector ==
    \/ \E d \in Dbs : CollectDb(d)
    \/ CollectEnv
    \/ \E r \in Reqs : CollectBuffer(r)

Pool == \E r \in Reqs : Take(r) \/ Begin(r) \/ Call(r) \/ End(r)

Loop ==
    \/ \E r \in Reqs : After(r) \/ CallbackReturns(r) \/ CallbackThrows(r)
    \/ \E d \in Dbs : ClosedDb(d)
    \/ MainReturns
    \/ LoopEnds

Next == (Script \/ Collector \/ Pool \/ Loop \/ Gone) /\ UNCHANGED script

Spec == Init /\ [][Next]_vars

\* Threads of the pool run on (that their calls return is TxnOps' concern), the
\* script's main program and its callbacks end, and the loop turns.
FairSpec ==
    /\ Spec
    /\ WF_vars(MainReturns /\ UNCHANGED script)
    /\ \A r \in Reqs :
          /\ WF_vars((Take(r) \/ Begin(r) \/ Call(r) \/ End(r)) /\ UNCHANGED script)
          /\ WF_vars(After(r) /\ UNCHANGED script)
          /\ WF_vars(CallbackReturns(r) /\ UNCHANGED script)
    /\ \A d \in Dbs : WF_vars(ClosedDb(d) /\ UNCHANGED script)

-----------------------------------------------------------------------------
(***************************************************************************)
(* What is checked.                                                        *)
(***************************************************************************)
TypeOK ==
    /\ wrapper \in [Objects -> {"none", "live", "deleted"}]
    /\ held \in [Objects -> BOOLEAN]
    /\ refs \in [Objects -> 0 .. Cardinality(Reqs)]
    /\ pointer \in [Objects -> BOOLEAN]
    /\ handle \in [Objects -> {"none", "created", "open", "freed"}]
    /\ transactional \in [Objects -> BOOLEAN]
    /\ stage \in [Reqs -> Pending \cup {"new", "delivered"}]
    /\ target \in [Reqs -> Objects \cup {None}]
    /\ rc \in [Reqs -> {OK, Error}]
    /\ status \in [Reqs -> {OK, Error}]
    /\ executed \in [Reqs -> BOOLEAN]
    /\ buffer \in [Reqs -> {"held", "dropped", "freed"}]
    /\ queue \in Seq(Reqs)
    /\ done \in Seq(Reqs)
    /\ evrefs \in 0 .. Cardinality(Reqs)
    /\ js \in {"script", "loop", "exited", "killed"}
    /\ callback \in Reqs \cup {None}
    /\ closing \in Dbs \cup {None}
    /\ fault \in {"none", "null", "freed"}
    /\ rules \subseteq AllRules
    /\ methods \in [Reqs -> {OneCall, MoreCalls, EnvCall}]

\* Whatever the script does, a request's object outlives its request: it is not
\* deleted before the After function has made its last use of it.
KeptWhilePending ==
    \A r \in Reqs : stage[r] \in Pending => wrapper[target[r]] = "live"

\* Ref and Unref, ev_ref and ev_unref balance: an object is held once for each
\* of its requests, the loop once for each request that has not called back,
\* so both are let go when the last of them has.
CountsBalance ==
    /\ \A o \in Objects : refs[o] = Cardinality(Outstanding(o))
    /\ evrefs = Cardinality({r \in Reqs : stage[r] \in Pending \ {"calling"}})

\* node does not exit by itself while a callback is owed.
NoCallbackLost ==
    js = "exited" => \A r \in Reqs : stage[r] \in {"new", "delivered"}

\* No pointer is NULL when it is used, no handle is used after its close (a
\* destructor closing it again included), and no collected memory is read.
NoFault == fault = "none"

\* A caller who is told 0 can rely on the operation having been performed, but
\* when it was txn_begin that failed (AcknowledgedIsLogged of TxnOps).
ZeroMeansExecuted ==
    \A r \in Reqs :
        stage[r] \in {"calling", "delivered"} /\ status[r] = OK /\ rc[r] = OK
            => executed[r]

Careful == rules = AllRules

\* The five rules are enough for a script never to meet undefined behaviour,
\* whatever the pool, the loop and the collector do in between.
NoUseAfterClose == Careful => NoFault

\* And then every 0 that a callback is passed means work that was done, but when
\* it was txn_begin that failed.
AnsweredWasExecuted == Careful => ZeroMeansExecuted

\* And in an environment opened with DB_INIT_TXN every call of Berkeley DB on a
\* Db is made inside a transaction: _transactional, copied by Db::New, is right.
ProtectedByTxn ==
    Careful /\ InitTxn => \A r \in Reqs :
        stage[r] \in {"call", "again", "end"} /\ target[r] \in Dbs => InTxn(r)

\* Every request calls back, whatever the script closes and drops meanwhile,
\* unless a callback's exception or undefined behaviour ends the process.
EveryRequestCallsBack ==
    \A r \in Reqs : stage[r] = "queued" ~>
        stage[r] = "delivered" \/ js = "killed" \/ fault # "none"
=============================================================================
