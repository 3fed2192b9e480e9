------------------------ MODULE AsyncRequestsProofs -------------------------
(***************************************************************************)
(* TLAPS proofs about AsyncRequests, for any number of Db objects, of      *)
(* requests and of pool threads, and for scripts that follow any of the    *)
(* rules, or all of them.                                                  *)
(***************************************************************************)
EXTENDS AsyncRequests, FiniteSetTheorems, TLAPS

-----------------------------------------------------------------------------
(***************************************************************************)
(* The inductive invariant.                                                *)
(***************************************************************************)
\* Types; that the two counters are natural numbers follows from
\* CountsBalance.
Typed ==
    /\ wrapper \in [Objects -> {"none", "live", "deleted"}]
    /\ held \in [Objects -> BOOLEAN]
    /\ refs \in [Objects -> Int]
    /\ pointer \in [Objects -> BOOLEAN]
    /\ handle \in [Objects -> {"none", "created", "open", "freed"}]
    /\ transactional \in [Objects -> BOOLEAN]
    /\ stage \in [Reqs -> Pending \cup {"new", "delivered"}]
    /\ target \in [Reqs -> Objects \cup {None}]
    /\ rc \in [Reqs -> {OK, Error}]
    /\ status \in [Reqs -> {OK, Error}]
    /\ executed \in [Reqs -> BOOLEAN]
    /\ buffer \in [Reqs -> {"held", "dropped", "freed"}]
    /\ queue \in Seq(Reqs)
    /\ done \in Seq(Reqs)
    /\ evrefs \in Int
    /\ js \in {"script", "loop", "exited", "killed"}
    /\ callback \in Reqs \cup {None}
    /\ closing \in Dbs \cup {None}
    /\ fault \in {"none", "null", "freed"}
    /\ rules \subseteq AllRules
    /\ methods \in [Reqs -> {OneCall, MoreCalls, EnvCall}]

\* A queue of eio holds a request at most once, and only those at stage s.
Lines(st, q, s) ==
    /\ \A i \in 1 .. Len(q) : st[q[i]] = s
    /\ \A i, j \in 1 .. Len(q) : q[i] = q[j] => i = j

\* Where a request is: a baton that was made has an object, the queues hold the
\* requests of their stage, and the callback that runs is that of a request.
Placed ==
    /\ \A r \in Reqs : stage[r] # "new" => target[r] \in Objects
    /\ \A r \in Reqs : stage[r] = "begin" => target[r] \in Dbs
    /\ Lines(stage, queue, "queued")
    /\ Lines(stage, done, "done")
    /\ \A r \in Reqs : stage[r] = "calling" <=> callback = r
    /\ js \in {"loop", "exited"} => callback = None

\* Requests that have not called back.
Owed == {r \in Reqs : stage[r] \in Pending \ {"calling"}}

\* Objects: what the script holds or a request needs is not deleted.
Kept ==
    /\ \A o \in Objects : held[o] => wrapper[o] = "live"
    /\ KeptWhilePending

IInv == Typed /\ Placed /\ CountsBalance /\ Kept /\ NoCallbackLost

-----------------------------------------------------------------------------
(***************************************************************************)
(* The queues.                                                             *)
(***************************************************************************)
\* A queue without its first element.
LEMMA TailFacts ==
    ASSUME NEW S, NEW q \in Seq(S), q # <<>>
    PROVE  /\ Tail(q) \in Seq(S) /\ Len(Tail(q)) = Len(q) - 1
           /\ \A i \in 1 .. Len(Tail(q)) : Tail(q)[i] = q[i + 1]
           /\ Head(q) = q[1] /\ Len(q) >= 1
  OBVIOUS

\* A queue with one element more.
LEMMA AppendFacts ==
    ASSUME NEW S, NEW q \in Seq(S), NEW e \in S
    PROVE  /\ Append(q, e) \in Seq(S) /\ Len(Append(q, e)) = Len(q) + 1
           /\ \A i \in 1 .. Len(q) : Append(q, e)[i] = q[i]
           /\ Append(q, e)[Len(q) + 1] = e
  OBVIOUS

\* The first request leaves the line for another stage.
LEMMA LeavesLine ==
    ASSUME NEW S, NEW st, NEW st2, NEW s, NEW q \in Seq(S), q # <<>>, Lines(st, q, s),
           \A p \in S : p # Head(q) => st2[p] = st[p]
    PROVE  Lines(st2, Tail(q), s)
<1>1. \A i \in 1 .. Len(Tail(q)) : i + 1 \in 1 .. Len(q) /\ 1 \in 1 .. Len(q) /\ i + 1 # 1
  BY TailFacts
<1>2. \A i \in 1 .. Len(q) : q[i] \in S
  OBVIOUS
<1>3. \A i \in 1 .. Len(Tail(q)) : Tail(q)[i] \in S /\ Tail(q)[i] # Head(q)
  BY <1>1, <1>2, TailFacts DEF Lines
<1>4. \A i \in 1 .. Len(Tail(q)) : st2[Tail(q)[i]] = s
  BY <1>1, <1>3, TailFacts DEF Lines
<1>5. \A i, j \in 1 .. Len(Tail(q)) : Tail(q)[i] = Tail(q)[j] => i = j
  BY <1>1, TailFacts DEF Lines
<1> QED
  BY <1>4, <1>5 DEF Lines

\* A request elsewhere moves.
LEMMA StaysInLine ==
    ASSUME NEW S, NEW st, NEW st2, NEW s, NEW q \in Seq(S), Lines(st, q, s), NEW r \in S,
           st[r] # s, \A p \in S : p # r => st2[p] = st[p]
    PROVE  Lines(st2, q, s)
<1>1. \A i \in 1 .. Len(q) : q[i] \in S
  OBVIOUS
<1> QED
  BY <1>1 DEF Lines

\* A request from elsewhere joins the line.
LEMMA JoinsLine ==
    ASSUME NEW S, NEW st, NEW st2, NEW s, NEW q \in Seq(S), Lines(st, q, s), NEW r \in S,
           st[r] # s, st2[r] = s, \A p \in S : p # r => st2[p] = st[p]
    PROVE  Lines(st2, Append(q, r), s)
<1>1. \A i \in 1 .. Len(q) : q[i] \in S /\ q[i] # r
  BY DEF Lines
<1>2. \A i \in 1 .. Len(Append(q, r)) : i \in 1 .. Len(q) \/ i = Len(q) + 1
  BY AppendFacts
<1>3. \A i \in 1 .. Len(q) : st2[q[i]] = s /\ Append(q, r)[i] = q[i]
  BY <1>1, AppendFacts DEF Lines
<1>4. \A i \in 1 .. Len(Append(q, r)) : st2[Append(q, r)[i]] = s
  BY <1>2, <1>3, AppendFacts
<1>5. \A i, j \in 1 .. Len(Append(q, r)) : Append(q, r)[i] = Append(q, r)[j] => i = j
  BY <1>1, <1>2, <1>3, AppendFacts DEF Lines
<1> QED
  BY <1>4, <1>5 DEF Lines

-----------------------------------------------------------------------------
(***************************************************************************)
(* Types.                                                                  *)
(***************************************************************************)
\* The DbEnv and the Dbs are the objects; None is no object and no request.
LEMMA ObjectFacts ==
    Env \in Objects /\ Dbs \subseteq Objects /\ None \notin Objects /\ None \notin Reqs
  BY ObjectsAssumption, ReqsAssumption DEF Objects

\* The stages at which a request needs its object.
LEMMA Stages ==
    /\ "queued" \in Pending /\ "begin" \in Pending /\ "call" \in Pending /\ "again" \in Pending
    /\ "end" \in Pending /\ "done" \in Pending /\ "calling" \in Pending
    /\ "new" \notin Pending /\ "delivered" \notin Pending
  BY DEF Pending, Working

\* A step that moves request r to another stage.
LEMMA StageTyped ==
    ASSUME Typed, NEW r \in Reqs, NEW s \in Pending \cup {"new", "delivered"},
           stage' = [stage EXCEPT ![r] = s]
    PROVE  stage' \in [Reqs -> Pending \cup {"new", "delivered"}]
  BY DEF Typed

\* A request is finished and put in the queue of results.
LEMMA DoneTyped ==
    ASSUME Typed, NEW r \in Reqs, Finish(r)
    PROVE  /\ stage' \in [Reqs -> Pending \cup {"new", "delivered"}]
           /\ done' \in Seq(Reqs)
<1>1. stage' \in [Reqs -> Pending \cup {"new", "delivered"}]
  BY StageTyped, Stages DEF Finish
<1>2. done' \in Seq(Reqs)
  BY DEF Finish, Typed
<1> QED
  BY <1>1, <1>2

\* Init gives every variable its type.
LEMMA InitTyped == Init => Typed
  BY ReqsAssumption, ScriptAssumption DEF Init, Typed, OK

\* The steps of the script keep the types.
LEMMA ScriptTyped ==
    ASSUME Typed, Script, UNCHANGED script
    PROVE  Typed'
<1> USE ObjectFacts DEF Typed, objects, requests, process, script, Fail
<1>1. CASE NewEnv
  BY <1>1 DEF NewEnv
<1>2. CASE OpenEnv
  <2>1. InitTxn \in BOOLEAN
    BY ScriptAssumption
  <2>2. CASE handle[Env] = "freed"
    BY <1>2, <2>2 DEF OpenEnv
  <2>3. CASE handle[Env] # "freed"
    <3>1. transactional' = [transactional EXCEPT ![Env] = InitTxn]
      BY <1>2, <2>3 DEF OpenEnv
    <3>2. transactional' \in [Objects -> BOOLEAN]
      BY <2>1, <3>1, Zenon
    <3>3. handle' \in [Objects -> {"none", "created", "open", "freed"}]
      BY <1>2, <2>3 DEF OpenEnv
    <3>4. UNCHANGED <<wrapper, held, refs, pointer, requests, process, fault, script>>
      BY <1>2, <2>3 DEF OpenEnv
    <3> QED
      BY <3>2, <3>3, <3>4
  <2> QED
    BY <2>2, <2>3
<1>3. CASE CloseEnv
  BY <1>3 DEF CloseEnv, EnvFreed
<1>4. ASSUME NEW d \in Dbs, NewDb(d) PROVE Typed'
  <2>2. CASE handle[Env] = "freed"
    BY <1>4, <2>2 DEF NewDb
  <2>3. CASE handle[Env] # "freed"
    <3>1. transactional' = [transactional EXCEPT ![d] = transactional[Env]]
      BY <1>4, <2>3 DEF NewDb
    <3>2. transactional' \in [Objects -> BOOLEAN]
      BY <3>1, Zenon
    <3>3. /\ wrapper' \in [Objects -> {"none", "live", "deleted"}]
          /\ held' \in [Objects -> BOOLEAN] /\ pointer' \in [Objects -> BOOLEAN]
          /\ handle' \in [Objects -> {"none", "created", "open", "freed"}]
      BY <1>4, <2>3 DEF NewDb
    <3>4. UNCHANGED <<refs, requests, process, fault, script>>
      BY <1>4, <2>3 DEF NewDb
    <3> QED
      BY <3>2, <3>3, <3>4
  <2> QED
    BY <2>2, <2>3
<1>5. ASSUME NEW d \in Dbs, OpenDb(d) PROVE Typed'
  <2>1. CASE Dangling(d)
    BY <1>5, <2>1 DEF OpenDb
  <2>2. CASE ~Dangling(d)
    <3>1. handle' \in [Objects -> {"none", "created", "open", "freed"}]
      BY <1>5, <2>2 DEF OpenDb
    <3> QED
      BY <1>5, <2>2, <3>1 DEF OpenDb
  <2> QED
    BY <2>1, <2>2
<1>6. ASSUME NEW d \in Dbs, CallS(d) PROVE Typed'
  BY <1>6 DEF CallS
<1>7. ASSUME NEW d \in Dbs, CloseDb(d) PROVE Typed'
  <2>1. CASE ~pointer[d] \/ Dangling(d)
    BY <1>7, <2>1 DEF CloseDb
  <2>2. CASE pointer[d] /\ ~Dangling(d)
    <3>1. handle' \in [Objects -> {"none", "created", "open", "freed"}]
      BY <1>7, <2>2 DEF CloseDb
    <3>2. closing' \in Dbs \cup {None}
      BY <1>7, <2>2 DEF CloseDb
    <3> QED
      BY <1>7, <2>2, <3>1, <3>2 DEF CloseDb
  <2> QED
    BY <2>1, <2>2
<1>8. ASSUME NEW r \in Reqs, NEW o \in Objects, Submit(r, o) PROVE Typed'
  <2>1. stage' \in [Reqs -> Pending \cup {"new", "delivered"}]
    BY <1>8, StageTyped, Stages DEF Submit
  <2>2. refs' \in [Objects -> Int]
    BY <1>8 DEF Submit
  <2>3. target' \in [Reqs -> Objects \cup {None}] /\ queue' \in Seq(Reqs) /\ evrefs' \in Int
    BY <1>8 DEF Submit
  <2> QED
    BY <1>8, <2>1, <2>2, <2>3 DEF Submit
<1>9. ASSUME NEW o \in Objects, Drop(o) PROVE Typed'
  BY <1>9 DEF Drop
<1>10. ASSUME NEW r \in Reqs, DropBuffer(r) PROVE Typed'
  BY <1>10 DEF DropBuffer
<1> QED
  BY <1>1, <1>2, <1>3, <1>4, <1>5, <1>6, <1>7, <1>8, <1>9, <1>10
     DEF Script, Get, Put, PutIf, Del, CursorGet, TxnCheckpoint

\* So do those of the collector, the pool and the event loop.
LEMMA OthersTyped ==
    ASSUME Typed, Collector \/ Pool \/ Loop \/ Gone, UNCHANGED script
    PROVE  Typed'
<1> USE ObjectFacts DEF Typed, objects, requests, process, script, Fail
<1>1. ASSUME NEW d \in Dbs, CollectDb(d) PROVE Typed'
  <2>1. CASE pointer[d] /\ Dangling(d)
    BY <1>1, <2>1 DEF CollectDb
  <2>2. CASE ~(pointer[d] /\ Dangling(d))
    <3>1. pointer' \in [Objects -> BOOLEAN]
      BY <1>1, <2>2, Zenon DEF CollectDb
    <3> QED
      BY <1>1, <2>2, <3>1 DEF CollectDb
  <2> QED
    BY <2>1, <2>2
<1>2. CASE CollectEnv
  <2>1. CASE handle[Env] = "freed"
    BY <1>2, <2>1 DEF CollectEnv
  <2>2. CASE handle[Env] # "freed"
    <3>1. pointer' \in [Objects -> BOOLEAN]
      BY <1>2, <2>2, Zenon DEF CollectEnv
    <3>2. handle' \in [Objects -> {"none", "created", "open", "freed"}]
      BY <1>2, <2>2 DEF CollectEnv, EnvFreed
    <3> QED
      BY <1>2, <2>2, <3>1, <3>2 DEF CollectEnv
  <2> QED
    BY <2>1, <2>2
<1>3. ASSUME NEW r \in Reqs, CollectBuffer(r) PROVE Typed'
  BY <1>3 DEF CollectBuffer
<1>4. ASSUME NEW r \in Reqs, Take(r) PROVE Typed'
  <2>1. CASE wrapper[target[r]] # "live"
    BY <1>4, <2>1 DEF Take
  <2>2. CASE wrapper[target[r]] = "live"
    <3>1. queue' \in Seq(Reqs)
      <4>1. queue # <<>> /\ queue' = Tail(queue)
        BY <1>4, <2>2 DEF Take
      <4> QED
        BY <4>1, TailFacts
    <3>2. /\ stage' \in [Reqs -> Pending \cup {"new", "delivered"}]
          /\ done' \in Seq(Reqs)
      <4>1. CASE pointer[target[r]]
        <5>1. stage' = [stage EXCEPT ![r] = IF InTxn(r) THEN "begin" ELSE "call"] /\ done' = done
          BY <1>4, <2>2, <4>1 DEF Take
        <5> QED
          BY <5>1, StageTyped, Stages
      <4>2. CASE ~pointer[target[r]]
        BY <1>4, <2>2, <4>2, DoneTyped DEF Take
      <4> QED
        BY <4>1, <4>2
    <3> QED
      BY <1>4, <2>2, <3>1, <3>2 DEF Take
  <2> QED
    BY <2>1, <2>2
<1>5. ASSUME NEW r \in Reqs, Begin(r) PROVE Typed'
  <2>1. CASE handle[Env] = "freed"
    BY <1>5, <2>1 DEF Begin
  <2>2. CASE handle[Env] # "freed"
    <3>1. /\ stage' \in [Reqs -> Pending \cup {"new", "delivered"}]
          /\ done' \in Seq(Reqs)
          /\ rc' \in [Reqs -> {OK, Error}]
      BY <1>5, <2>2, StageTyped, DoneTyped, Stages DEF Begin
    <3> QED
      BY <1>5, <2>2, <3>1 DEF Begin
  <2> QED
    BY <2>1, <2>2
<1>6. ASSUME NEW r \in Reqs, Call(r) PROVE Typed'
  <2>1. CASE Memory(r) # "none"
    <3>1. Memory(r) \in {"none", "null", "freed"}
      BY DEF Memory
    <3> QED
      BY <1>6, <2>1, <3>1 DEF Call
  <2>2. CASE Memory(r) = "none"
    <3>0. PICK ok \in {FALSE, handle[target[r]] = "open"} :
            /\ executed' = [executed EXCEPT ![r] = ok]
            /\ status' = [status EXCEPT ![r] = IF ok THEN OK ELSE Error]
            /\ \E s \in AfterCall(r, ok) : stage' = [stage EXCEPT ![r] = s]
      BY <1>6, <2>2 DEF Call
    <3>1. PICK s \in AfterCall(r, ok) : stage' = [stage EXCEPT ![r] = s]
      BY <3>0
    <3>2. stage' \in [Reqs -> Pending \cup {"new", "delivered"}]
      BY <3>1, StageTyped, Stages DEF AfterCall
    <3>3. executed' \in [Reqs -> BOOLEAN]
      BY <3>0, Zenon
    <3>4. status' \in [Reqs -> {OK, Error}]
      BY <3>0
    <3>5. UNCHANGED <<objects, target, rc, buffer, process, fault, script>>
      BY <1>6, <2>2 DEF Call
    <3> QED
      BY <3>2, <3>3, <3>4, <3>5
  <2> QED
    BY <2>1, <2>2
<1>7. ASSUME NEW r \in Reqs, End(r) PROVE Typed'
  BY <1>7, DoneTyped DEF End
<1>8. ASSUME NEW r \in Reqs, After(r) PROVE Typed'
  <2>1. stage' \in [Reqs -> Pending \cup {"new", "delivered"}]
    BY <1>8, StageTyped, Stages DEF After
  <2>2. done' \in Seq(Reqs)
    BY <1>8 DEF After
  <2> QED
    BY <1>8, <2>1, <2>2 DEF After
<1>9. ASSUME NEW r \in Reqs, CallbackReturns(r) PROVE Typed'
  <2>1. CASE wrapper[target[r]] # "live"
    BY <1>9, <2>1 DEF CallbackReturns
  <2>2. CASE wrapper[target[r]] = "live"
    <3>1. stage' \in [Reqs -> Pending \cup {"new", "delivered"}]
      BY <1>9, <2>2, StageTyped, Stages DEF CallbackReturns
    <3>2. refs' \in [Objects -> Int]
      BY <1>9, <2>2 DEF CallbackReturns
    <3> QED
      BY <1>9, <2>2, <3>1, <3>2 DEF CallbackReturns
  <2> QED
    BY <2>1, <2>2
<1>10. ASSUME NEW r \in Reqs, CallbackThrows(r) PROVE Typed'
  BY <1>10 DEF CallbackThrows
<1>11. ASSUME NEW d \in Dbs, ClosedDb(d) PROVE Typed'
  BY <1>11 DEF ClosedDb
<1>12. CASE MainReturns \/ LoopEnds \/ Gone
  BY <1>12 DEF MainReturns, LoopEnds, Gone
<1> QED
  BY <1>1, <1>2, <1>3, <1>4, <1>5, <1>6, <1>7, <1>8, <1>9, <1>10, <1>11, <1>12
     DEF Collector, Pool, Loop

-----------------------------------------------------------------------------
(***************************************************************************)
(* Steps, by what they do to requests.                                     *)
(***************************************************************************)
\* Steps that leave every request, the queues and the counts alone.
Quiet ==
    UNCHANGED <<refs, stage, target, queue, done, evrefs, js, callback>>

\* A thread of the pool works on request r.
Works(r) ==
    /\ stage[r] \in Pending \ {"calling"} /\ stage'[r] \in Pending \ {"calling"}
    /\ \A p \in Reqs : p # r => stage'[p] = stage[p]
    /\ UNCHANGED <<refs, target, evrefs, js, callback, wrapper, held>>

\* The steps of the script but for Submit, and of the collector, are quiet.
LEMMA QuietSteps ==
    ASSUME \/ NewEnv \/ OpenEnv \/ CloseEnv \/ CollectEnv \/ Gone
           \/ \E d \in Dbs : \/ NewDb(d) \/ OpenDb(d) \/ CallS(d) \/ CloseDb(d)
                             \/ ClosedDb(d) \/ CollectDb(d)
           \/ \E o \in Objects : Drop(o)
           \/ \E r \in Reqs : DropBuffer(r) \/ CollectBuffer(r)
           \/ \E f \in {"null", "freed"} : Fail(f)
    PROVE  Quiet
<1> USE DEF Quiet, objects, requests, process, Fail
<1>1. CASE NewEnv \/ OpenEnv \/ CloseEnv \/ CollectEnv \/ Gone
  BY <1>1 DEF NewEnv, OpenEnv, CloseEnv, CollectEnv, Gone
<1>2. ASSUME NEW d \in Dbs, NewDb(d) \/ OpenDb(d) \/ CallS(d) PROVE Quiet
  BY <1>2 DEF NewDb, OpenDb, CallS
<1>3. ASSUME NEW d \in Dbs, CloseDb(d) \/ ClosedDb(d) \/ CollectDb(d) PROVE Quiet
  BY <1>3 DEF CloseDb, ClosedDb, CollectDb
<1>4. ASSUME NEW o \in Objects, Drop(o) PROVE Quiet
  BY <1>4 DEF Drop
<1>5. ASSUME NEW r \in Reqs, DropBuffer(r) \/ CollectBuffer(r) PROVE Quiet
  BY <1>5 DEF DropBuffer, CollectBuffer
<1>6. ASSUME NEW f \in {"null", "freed"}, Fail(f) PROVE Quiet
  BY <1>6
<1> QED
  BY <1>1, <1>2, <1>3, <1>4, <1>5, <1>6

\* A step is quiet, a Submit, a step of the pool, or a step of the event loop.
LEMMA Kinds ==
    ASSUME Next
    PROVE  \/ Quiet
           \/ \E r \in Reqs, o \in Objects : Submit(r, o)
           \/ Pool
           \/ \E r \in Reqs : After(r) \/ CallbackReturns(r) \/ CallbackThrows(r)
           \/ MainReturns
           \/ LoopEnds
<1>1. CASE Script
  BY <1>1, QuietSteps, ObjectFacts
     DEF Script, Get, Put, PutIf, Del, CursorGet, TxnCheckpoint
<1>2. CASE Collector \/ Gone
  BY <1>2, QuietSteps DEF Collector
<1>3. CASE Loop
  BY <1>3, QuietSteps DEF Loop
<1> QED
  BY <1>1, <1>2, <1>3 DEF Next

\* What the pool does to the queues: the request at the head of the first
\* leaves it, or one that is worked on joins the second, or both, or neither.
LEMMA PoolSteps ==
    ASSUME Typed, Placed, NEW r \in Reqs, Take(r) \/ Begin(r) \/ Call(r) \/ End(r)
    PROVE  \/ Quiet /\ UNCHANGED <<wrapper, held>>
           \/ /\ Works(r)
              /\ \/ queue # <<>> /\ r = Head(queue) /\ queue' = Tail(queue)
                 \/ stage[r] # "queued" /\ queue' = queue
              /\ \/ stage[r] # "done" /\ stage'[r] = "done" /\ done' = Append(done, r)
                 \/ stage[r] # "done" /\ stage'[r] # "done" /\ done' = done
              /\ stage'[r] # "queued"
              /\ stage'[r] = "begin" => target[r] \in Dbs
<1> USE DEF objects, requests, process, Fail, Quiet
<1>0. \A s : stage' = [stage EXCEPT ![r] = s] =>
         stage'[r] = s /\ \A p \in Reqs : p # r => stage'[p] = stage[p]
  BY DEF Typed
<1>1. CASE Take(r)
  <2>1. CASE wrapper[target[r]] # "live"
    BY <1>1, <2>1 DEF Take
  <2>2. CASE wrapper[target[r]] = "live"
    <3>1. queue # <<>> /\ r = Head(queue) /\ queue' = Tail(queue)
      BY <1>1, <2>2 DEF Take
    <3>2. stage[r] = "queued"
      BY <3>1, TailFacts DEF Typed, Placed, Lines
    <3>3. UNCHANGED <<refs, target, evrefs, js, callback, wrapper, held>>
      BY <1>1, <2>2 DEF Take
    <3>4. CASE pointer[target[r]]
      <4>1. stage' = [stage EXCEPT ![r] = IF InTxn(r) THEN "begin" ELSE "call"] /\ done' = done
        BY <1>1, <2>2, <3>4 DEF Take
      <4>2. stage'[r] = (IF InTxn(r) THEN "begin" ELSE "call") /\ \A p \in Reqs : p # r => stage'[p] = stage[p]
        BY <1>0, <4>1
      <4>3. InTxn(r) => target[r] \in Dbs
        BY DEF InTxn
      <4> QED
        BY <3>1, <3>2, <3>3, <4>1, <4>2, <4>3, Stages DEF Works
    <3>5. CASE ~pointer[target[r]]
      <4>1. stage' = [stage EXCEPT ![r] = "done"] /\ done' = Append(done, r)
        BY <1>1, <2>2, <3>5 DEF Take, Finish
      <4>2. stage'[r] = "done" /\ \A p \in Reqs : p # r => stage'[p] = stage[p]
        BY <1>0, <4>1
      <4> QED
        BY <3>1, <3>2, <3>3, <4>1, <4>2, Stages DEF Works
    <3> QED
      BY <3>4, <3>5
  <2> QED
    BY <2>1, <2>2
<1>2. CASE Begin(r)
  <2>1. CASE handle[Env] = "freed"
    BY <1>2, <2>1 DEF Begin
  <2>2. CASE handle[Env] # "freed"
    <3>1. stage[r] = "begin" /\ UNCHANGED <<refs, target, evrefs, js, callback, wrapper, held, queue>>
      BY <1>2, <2>2 DEF Begin
    <3>2. \/ stage' = [stage EXCEPT ![r] = "call"] /\ done' = done
          \/ stage' = [stage EXCEPT ![r] = "done"] /\ done' = Append(done, r)
      BY <1>2, <2>2 DEF Begin, Finish
    <3> QED
      BY <1>0, <3>1, <3>2, Stages DEF Works
  <2> QED
    BY <2>1, <2>2
<1>3. CASE Call(r)
  <2>1. CASE Memory(r) # "none"
    BY <1>3, <2>1 DEF Call
  <2>2. CASE Memory(r) = "none"
    <3>0. PICK ok \in {FALSE, handle[target[r]] = "open"} :
            \E s \in AfterCall(r, ok) : stage' = [stage EXCEPT ![r] = s]
      BY <1>3, <2>2 DEF Call
    <3>1. PICK s \in AfterCall(r, ok) : stage' = [stage EXCEPT ![r] = s]
      BY <3>0
    <3>2. s \in {"again", "end"}
      BY DEF AfterCall
    <3>3. /\ stage[r] \in {"call", "again"}
          /\ UNCHANGED <<refs, target, evrefs, js, callback, wrapper, held, queue, done>>
      BY <1>3, <2>2 DEF Call
    <3> QED
      BY <1>0, <3>1, <3>2, <3>3, Stages DEF Works
  <2> QED
    BY <2>1, <2>2
<1>4. CASE End(r)
  <2>1. CASE InTxn(r) /\ handle[Env] = "freed"
    BY <1>4, <2>1 DEF End
  <2>2. CASE ~(InTxn(r) /\ handle[Env] = "freed")
    <3>1. stage[r] = "end" /\ UNCHANGED <<refs, target, evrefs, js, callback, wrapper, held, queue>>
      BY <1>4, <2>2 DEF End
    <3>2. stage' = [stage EXCEPT ![r] = "done"] /\ done' = Append(done, r)
      BY <1>4, <2>2 DEF End, Finish
    <3> QED
      BY <1>0, <3>1, <3>2, Stages DEF Works
  <2> QED
    BY <2>1, <2>2
<1> QED
  BY <1>1, <1>2, <1>3, <1>4

-----------------------------------------------------------------------------
(***************************************************************************)
(* Placed.                                                                 *)
(***************************************************************************)
\* The steps of the pool keep requests where they belong.
LEMMA WorkPlaced ==
    ASSUME Typed, Placed, NEW r \in Reqs, Take(r) \/ Begin(r) \/ Call(r) \/ End(r)
    PROVE  Placed'
<1>1. CASE Quiet
  BY <1>1 DEF Quiet, Placed, Lines
<1>2. CASE ~Quiet
  <2>1. Works(r)
    BY <1>2, PoolSteps
  <2>2. \/ queue # <<>> /\ r = Head(queue) /\ queue' = Tail(queue)
        \/ stage[r] # "queued" /\ queue' = queue
    BY <1>2, PoolSteps
  <2>3. \/ stage[r] # "done" /\ stage'[r] = "done" /\ done' = Append(done, r)
        \/ stage[r] # "done" /\ stage'[r] # "done" /\ done' = done
    BY <1>2, PoolSteps
  <2>4. stage'[r] = "begin" => target[r] \in Dbs
    BY <1>2, PoolSteps
  <2>5. \A p \in Reqs : p # r => stage'[p] = stage[p]
    BY <2>1 DEF Works
  <2>6. stage[r] # "calling" /\ stage'[r] # "calling" /\ stage[r] # "new"
    BY <2>1, Stages DEF Works
  <2>7. Lines(stage', queue', "queued")
    <3>1. queue \in Seq(Reqs) /\ Lines(stage, queue, "queued")
      BY DEF Typed, Placed
    <3>2. CASE queue # <<>> /\ r = Head(queue) /\ queue' = Tail(queue)
      BY <2>5, <3>1, <3>2, LeavesLine
    <3>3. CASE stage[r] # "queued" /\ queue' = queue
      BY <2>5, <3>1, <3>3, StaysInLine
    <3> QED
      BY <2>2, <3>2, <3>3
  <2>8. Lines(stage', done', "done")
    <3>1. done \in Seq(Reqs) /\ Lines(stage, done, "done")
      BY DEF Typed, Placed
    <3>2. CASE stage[r] # "done" /\ stage'[r] = "done" /\ done' = Append(done, r)
      BY <2>5, <3>1, <3>2, JoinsLine
    <3>3. CASE stage[r] # "done" /\ stage'[r] # "done" /\ done' = done
      BY <2>5, <3>1, <3>3, StaysInLine
    <3> QED
      BY <2>3, <3>2, <3>3
  <2>9. target' = target /\ js' = js /\ callback' = callback
    BY <2>1 DEF Works
  <2>10. \A p \in Reqs : stage'[p] = "calling" <=> callback' = p
    BY <2>5, <2>6, <2>9 DEF Placed
  <2>11. \A p \in Reqs : /\ stage'[p] # "new" => target'[p] \in Objects
                         /\ stage'[p] = "begin" => target'[p] \in Dbs
    BY <2>4, <2>5, <2>6, <2>9 DEF Placed
  <2> QED
    BY <2>7, <2>8, <2>9, <2>10, <2>11 DEF Placed
<1> QED
  BY <1>1, <1>2

\* So does a Submit, ...
LEMMA SubmitPlaced ==
    ASSUME Typed, Placed, NEW r \in Reqs, NEW o \in Objects, Submit(r, o)
    PROVE  Placed'
<1>1. /\ stage[r] = "new" /\ stage' = [stage EXCEPT ![r] = "queued"]
      /\ target' = [target EXCEPT ![r] = o]
      /\ queue' = Append(queue, r)
      /\ UNCHANGED <<done, js, callback>>
  BY DEF Submit
<1>2. stage'[r] = "queued" /\ \A p \in Reqs : p # r => stage'[p] = stage[p]
  BY <1>1 DEF Typed
<1>3. target'[r] = o /\ \A p \in Reqs : p # r => target'[p] = target[p]
  BY <1>1 DEF Typed
<1>4. Lines(stage', queue', "queued")
  BY <1>1, <1>2, JoinsLine DEF Typed, Placed
<1>5. Lines(stage', done', "done")
  BY <1>1, <1>2, StaysInLine DEF Typed, Placed
<1>6. \A p \in Reqs : stage'[p] = "calling" <=> callback' = p
  BY <1>1, <1>2 DEF Placed
<1>7. \A p \in Reqs : /\ stage'[p] # "new" => target'[p] \in Objects
                      /\ stage'[p] = "begin" => target'[p] \in Dbs
  BY <1>2, <1>3 DEF Placed
<1> QED
  BY <1>1, <1>4, <1>5, <1>6, <1>7 DEF Placed

\* ... and so does the event loop.
LEMMA LoopPlaced ==
    ASSUME Typed, Placed,
           \/ \E r \in Reqs : After(r) \/ CallbackReturns(r) \/ CallbackThrows(r)
           \/ MainReturns \/ LoopEnds
    PROVE  Placed'
<1> USE DEF objects, requests, process, Fail
<1>1. ASSUME NEW r \in Reqs, After(r) PROVE Placed'
  <2>1. /\ js = "loop" /\ done # <<>> /\ r = Head(done) /\ done' = Tail(done)
        /\ stage' = [stage EXCEPT ![r] = "calling"]
        /\ js' = "script" /\ callback' = r
        /\ UNCHANGED <<target, queue>>
    BY <1>1 DEF After
  <2>2. stage[r] = "done"
    BY <2>1, TailFacts DEF Typed, Placed, Lines
  <2>3. stage'[r] = "calling" /\ \A p \in Reqs : p # r => stage'[p] = stage[p]
    BY <2>1 DEF Typed
  <2>4. Lines(stage', done', "done")
    BY <2>1, <2>3, LeavesLine DEF Typed, Placed
  <2>5. Lines(stage', queue', "queued")
    <3>1. queue \in Seq(Reqs) /\ Lines(stage, queue, "queued") /\ queue' = queue
      BY <2>1 DEF Typed, Placed
    <3> QED
      BY <2>2, <2>3, <3>1, StaysInLine
  <2>6. \A p \in Reqs : stage'[p] = "calling" <=> callback' = p
    BY <2>1, <2>3, ObjectFacts DEF Placed
  <2>7. \A p \in Reqs : /\ stage'[p] # "new" => target'[p] \in Objects
                        /\ stage'[p] = "begin" => target'[p] \in Dbs
    BY <2>1, <2>2, <2>3 DEF Placed
  <2> QED
    BY <2>1, <2>4, <2>5, <2>6, <2>7 DEF Placed
<1>2. ASSUME NEW r \in Reqs, CallbackReturns(r) PROVE Placed'
  <2>1. CASE wrapper[target[r]] # "live"
    <3>1. Quiet
      BY <1>2, <2>1 DEF CallbackReturns, Quiet
    <3> QED
      BY <3>1 DEF Quiet, Placed, Lines
  <2>2. CASE wrapper[target[r]] = "live"
    <3>1. /\ callback = r /\ callback' = None /\ js' = "loop"
          /\ stage' = [stage EXCEPT ![r] = "delivered"]
          /\ UNCHANGED <<target, queue, done>>
      BY <1>2, <2>2 DEF CallbackReturns
    <3>2. stage[r] = "calling"
      BY <3>1 DEF Placed
    <3>3. stage'[r] = "delivered" /\ \A p \in Reqs : p # r => stage'[p] = stage[p]
      BY <3>1 DEF Typed
    <3>4. Lines(stage', done', "done")
      BY <3>1, <3>2, <3>3, StaysInLine DEF Typed, Placed
    <3>5. Lines(stage', queue', "queued")
      BY <3>1, <3>2, <3>3, StaysInLine DEF Typed, Placed
    <3>6. \A p \in Reqs : stage'[p] = "calling" <=> callback' = p
      BY <3>1, <3>3, ObjectFacts DEF Placed
    <3>7. \A p \in Reqs : /\ stage'[p] # "new" => target'[p] \in Objects
                          /\ stage'[p] = "begin" => target'[p] \in Dbs
      BY <3>1, <3>2, <3>3 DEF Placed
    <3> QED
      BY <3>1, <3>4, <3>5, <3>6, <3>7 DEF Placed
  <2> QED
    BY <2>1, <2>2
<1>3. ASSUME NEW r \in Reqs, CallbackThrows(r) PROVE Placed'
  BY <1>3 DEF CallbackThrows, Placed, Lines
<1>4. CASE MainReturns
  BY <1>4 DEF MainReturns, Placed, Lines
<1>5. CASE LoopEnds
  BY <1>5 DEF LoopEnds, Placed, Lines
<1> QED
  BY <1>1, <1>2, <1>3, <1>4, <1>5

\* Every step does.
LEMMA NextPlaced ==
    ASSUME Typed, Placed, Next
    PROVE  Placed'
<1>1. CASE Quiet
  BY <1>1 DEF Quiet, Placed, Lines
<1> QED
  BY <1>1, Kinds, SubmitPlaced, WorkPlaced, LoopPlaced DEF Pool

-----------------------------------------------------------------------------
(***************************************************************************)
(* CountsBalance.                                                          *)
(***************************************************************************)
\* The sets that are counted are finite.
LEMMA FiniteReqs ==
    /\ \A o \in Objects : IsFiniteSet(Outstanding(o)) /\ Cardinality(Outstanding(o)) \in Nat
    /\ IsFiniteSet(Owed) /\ Cardinality(Owed) \in Nat
<1>1. \A S : S \subseteq Reqs => IsFiniteSet(S) /\ Cardinality(S) \in Nat
  BY ReqsAssumption, FS_Subset, FS_CardinalityType
<1>2. Owed \subseteq Reqs
  BY DEF Owed
<1>3. \A o \in Objects : Outstanding(o) \subseteq Reqs
  BY DEF Outstanding
<1> QED
  BY <1>1, <1>2, <1>3

\* Work of the pool changes neither set.
LEMMA WorkCounted ==
    ASSUME CountsBalance, NEW r \in Reqs, Works(r)
    PROVE  CountsBalance'
<1>1. \A p \in Reqs : (stage'[p] \in Pending <=> stage[p] \in Pending)
                      /\ (stage'[p] \in Pending \ {"calling"} <=> stage[p] \in Pending \ {"calling"})
  BY DEF Works
<1>2. UNCHANGED <<refs, target, evrefs>>
  BY DEF Works
<1>3. Owed' = Owed
  BY <1>1 DEF Owed
<1>4. \A o \in Objects : Outstanding(o)' = Outstanding(o)
  BY <1>1, <1>2 DEF Outstanding
<1> QED
  BY <1>2, <1>3, <1>4 DEF CountsBalance, Owed

\* A Submit adds one request to each, and one to each count.
LEMMA SubmitCounted ==
    ASSUME Typed, CountsBalance, NEW r \in Reqs, NEW o \in Objects, Submit(r, o)
    PROVE  CountsBalance'
<1>1. /\ stage[r] = "new" /\ stage' = [stage EXCEPT ![r] = "queued"]
      /\ target' = [target EXCEPT ![r] = o]
      /\ refs' = [refs EXCEPT ![o] = @ + 1]
      /\ evrefs' = evrefs + 1
  BY DEF Submit
<1>2. stage'[r] = "queued" /\ \A p \in Reqs : p # r => stage'[p] = stage[p]
  BY <1>1 DEF Typed
<1>3. target'[r] = o /\ \A p \in Reqs : p # r => target'[p] = target[p]
  BY <1>1 DEF Typed
<1>4. Owed' = Owed \cup {r} /\ r \notin Owed
  BY <1>1, <1>2, Stages DEF Owed
<1>5. Outstanding(o)' = Outstanding(o) \cup {r} /\ r \notin Outstanding(o)
  BY <1>1, <1>2, <1>3, Stages DEF Outstanding
<1>6. \A p \in Objects : p # o => Outstanding(p)' = Outstanding(p)
  BY <1>1, <1>2, <1>3, Stages DEF Outstanding
<1>7. Cardinality(Owed') = Cardinality(Owed) + 1
  BY <1>4, FiniteReqs, FS_AddElement
<1>8. Cardinality(Outstanding(o)') = Cardinality(Outstanding(o)) + 1
  BY <1>5, FiniteReqs, FS_AddElement
<1>9. refs'[o] = refs[o] + 1 /\ \A p \in Objects : p # o => refs'[p] = refs[p]
  BY <1>1 DEF Typed
<1>10. \A p \in Objects : refs'[p] = Cardinality(Outstanding(p)')
  BY <1>6, <1>8, <1>9 DEF CountsBalance
<1>11. evrefs' = Cardinality(Owed')
  BY <1>1, <1>7 DEF CountsBalance, Owed
<1> QED
  BY <1>10, <1>11 DEF CountsBalance, Owed

\* After takes one from those that owe a callback, ...
LEMMA AfterCounted ==
    ASSUME Typed, Placed, CountsBalance, NEW r \in Reqs, After(r)
    PROVE  CountsBalance'
<1>1. /\ done # <<>> /\ r = Head(done)
      /\ stage' = [stage EXCEPT ![r] = "calling"]
      /\ evrefs' = evrefs - 1
      /\ UNCHANGED <<target, refs>>
  BY DEF After, objects
<1>2. stage[r] = "done"
  BY <1>1, TailFacts DEF Typed, Placed, Lines
<1>3. stage'[r] = "calling" /\ \A p \in Reqs : p # r => stage'[p] = stage[p]
  BY <1>1 DEF Typed
<1>4. Owed' = Owed \ {r} /\ r \in Owed
  BY <1>2, <1>3, Stages DEF Owed
<1>5. \A p \in Objects : Outstanding(p)' = Outstanding(p)
  BY <1>1, <1>2, <1>3, Stages DEF Outstanding
<1>6. Cardinality(Owed') = Cardinality(Owed) - 1
  BY <1>4, FiniteReqs, FS_RemoveElement
<1>7. evrefs' = Cardinality(Owed')
  BY <1>1, <1>6 DEF CountsBalance, Owed
<1> QED
  BY <1>1, <1>5, <1>7 DEF CountsBalance, Owed

\* ... and the end of the callback one from those of the object.
LEMMA ReturnCounted ==
    ASSUME Typed, Placed, CountsBalance, NEW r \in Reqs, CallbackReturns(r)
    PROVE  CountsBalance'
<1>1. CASE wrapper[target[r]] # "live"
  <2>1. Quiet
    BY <1>1 DEF CallbackReturns, Quiet, Fail, objects, requests, process
  <2> QED
    BY <2>1 DEF Quiet, CountsBalance, Outstanding
<1>2. CASE wrapper[target[r]] = "live"
  <2>0. stage[r] = "calling" /\ target[r] \in Objects
    BY DEF Placed, CallbackReturns
  <2>1. PICK o \in Objects : o = target[r]
    BY <2>0
  <2>2. /\ stage[r] = "calling"
        /\ stage' = [stage EXCEPT ![r] = "delivered"]
        /\ refs' = [refs EXCEPT ![o] = @ - 1]
        /\ UNCHANGED <<target, evrefs>>
    BY <1>2, <2>0, <2>1 DEF CallbackReturns
  <2>3. stage'[r] = "delivered" /\ \A p \in Reqs : p # r => stage'[p] = stage[p]
    BY <2>2 DEF Typed
  <2>4. Owed' = Owed
    BY <2>2, <2>3, Stages DEF Owed
  <2>5. Outstanding(o)' = Outstanding(o) \ {r} /\ r \in Outstanding(o)
    BY <2>1, <2>2, <2>3, Stages DEF Outstanding
  <2>6. \A p \in Objects : p # o => Outstanding(p)' = Outstanding(p)
    BY <2>1, <2>2, <2>3, Stages DEF Outstanding
  <2>7. refs'[o] = refs[o] - 1 /\ \A p \in Objects : p # o => refs'[p] = refs[p]
    BY <2>1, <2>2 DEF Typed
  <2>8. Cardinality(Outstanding(o)') = Cardinality(Outstanding(o)) - 1
    BY <2>2, <2>5, FiniteReqs, FS_RemoveElement
  <2>9. \A p \in Objects : refs'[p] = Cardinality(Outstanding(p)')
    BY <2>6, <2>7, <2>8 DEF CountsBalance
  <2> QED
    BY <2>2, <2>4, <2>9 DEF CountsBalance, Owed
<1> QED
  BY <1>1, <1>2

\* Every step keeps the counts.
LEMMA NextCounted ==
    ASSUME Typed, Placed, CountsBalance, Next
    PROVE  CountsBalance'
<1>1. CASE Quiet
  BY <1>1 DEF Quiet, CountsBalance, Outstanding
<1>2. CASE Pool
  <2>1. PICK r \in Reqs : Take(r) \/ Begin(r) \/ Call(r) \/ End(r)
    BY <1>2 DEF Pool
  <2>2. Quiet \/ Works(r)
    BY <2>1, PoolSteps
  <2> QED
    BY <1>1, <2>2, WorkCounted
<1>3. ASSUME NEW r \in Reqs, CallbackThrows(r) PROVE CountsBalance'
  BY <1>3 DEF CallbackThrows, CountsBalance, Outstanding, objects, requests
<1>4. CASE MainReturns \/ LoopEnds
  BY <1>4 DEF MainReturns, LoopEnds, CountsBalance, Outstanding, objects, requests
<1> QED
  BY <1>1, <1>2, <1>3, <1>4, Kinds, SubmitCounted, AfterCounted, ReturnCounted

-----------------------------------------------------------------------------
(***************************************************************************)
(* Kept and NoCallbackLost.                                                *)
(***************************************************************************)
\* A step either leaves the objects as far as they are counted, or is one of
\* the four that make, drop or delete one.
LEMMA Wrappers ==
    ASSUME Typed, Placed, Next
    PROVE  \/ UNCHANGED <<wrapper, held>>
           \/ NewEnv /\ wrapper' = [wrapper EXCEPT ![Env] = "live"] /\ held' = [held EXCEPT ![Env] = TRUE]
           \/ \E d \in Dbs : /\ NewDb(d)
                             /\ wrapper' = [wrapper EXCEPT ![d] = "live"]
                             /\ held' = [held EXCEPT ![d] = TRUE]
           \/ \E o \in Objects : Drop(o) /\ wrapper' = wrapper /\ held' = [held EXCEPT ![o] = FALSE]
           \/ \E o \in Objects : /\ ~held[o] /\ refs[o] = 0 /\ held' = held
                                 /\ wrapper' = [wrapper EXCEPT ![o] = "deleted"]
                                 /\ Quiet
<1> USE ObjectFacts DEF objects, requests, process, Fail
<1>1. CASE NewEnv \/ OpenEnv \/ CloseEnv \/ Gone
  BY <1>1 DEF NewEnv, OpenEnv, CloseEnv, Gone
<1>2. ASSUME NEW d \in Dbs, NewDb(d)
      PROVE  \/ UNCHANGED <<wrapper, held>>
             \/ wrapper' = [wrapper EXCEPT ![d] = "live"] /\ held' = [held EXCEPT ![d] = TRUE]
  BY <1>2 DEF NewDb
<1>3. ASSUME NEW d \in Dbs, OpenDb(d) \/ CallS(d) \/ CloseDb(d) \/ ClosedDb(d)
      PROVE  UNCHANGED <<wrapper, held>>
  BY <1>3 DEF OpenDb, CallS, CloseDb, ClosedDb
<1>4. ASSUME NEW o \in Objects, Drop(o)
      PROVE  wrapper' = wrapper /\ held' = [held EXCEPT ![o] = FALSE]
  BY <1>4 DEF Drop
<1>5. ASSUME NEW r \in Reqs, DropBuffer(r) \/ CollectBuffer(r)
      PROVE  UNCHANGED <<wrapper, held>>
  BY <1>5 DEF DropBuffer, CollectBuffer
<1>6. ASSUME NEW d \in Dbs, CollectDb(d)
      PROVE  \/ UNCHANGED <<wrapper, held>>
             \/ /\ ~held[d] /\ refs[d] = 0 /\ held' = held
                /\ wrapper' = [wrapper EXCEPT ![d] = "deleted"]
                /\ Quiet
  BY <1>6 DEF CollectDb, Quiet
<1>7. CASE CollectEnv
  BY <1>7 DEF CollectEnv, Quiet
<1>8. ASSUME NEW r \in Reqs, NEW o \in Objects, Submit(r, o)
      PROVE  UNCHANGED <<wrapper, held>>
  BY <1>8 DEF Submit
<1>9. ASSUME NEW r \in Reqs, Take(r) \/ Begin(r) \/ Call(r) \/ End(r)
      PROVE  UNCHANGED <<wrapper, held>>
  BY <1>9, PoolSteps DEF Works
<1>10. ASSUME NEW r \in Reqs, After(r) \/ CallbackReturns(r) \/ CallbackThrows(r)
       PROVE  UNCHANGED <<wrapper, held>>
  BY <1>10 DEF After, CallbackReturns, CallbackThrows
<1>11. CASE MainReturns \/ LoopEnds
  BY <1>11 DEF MainReturns, LoopEnds
<1>12. CASE Script
  BY <1>1, <1>2, <1>3, <1>4, <1>5, <1>8, <1>12
     DEF Script, Get, Put, PutIf, Del, CursorGet, TxnCheckpoint
<1>13. CASE Collector
  BY <1>5, <1>6, <1>7, <1>13 DEF Collector
<1>14. CASE Pool \/ Loop \/ Gone
  BY <1>1, <1>3, <1>9, <1>10, <1>11, <1>14 DEF Pool, Loop
<1> QED
  BY <1>12, <1>13, <1>14 DEF Next

\* Only a Submit makes a request pending, and it holds its object.
LEMMA PendingBefore ==
    ASSUME Typed, Placed, Next, NEW r \in Reqs, stage'[r] \in Pending
    PROVE  \/ stage[r] \in Pending /\ target'[r] = target[r]
           \/ target'[r] \in Objects /\ held[target'[r]] /\ held' = held /\ wrapper' = wrapper
<1>1. CASE Quiet
  BY <1>1 DEF Quiet
<1>2. ASSUME NEW p \in Reqs, NEW o \in Objects, Submit(p, o)
      PROVE  \/ stage[r] \in Pending /\ target'[r] = target[r]
             \/ target'[r] \in Objects /\ held[target'[r]] /\ held' = held /\ wrapper' = wrapper
  <2>1. /\ stage' = [stage EXCEPT ![p] = "queued"] /\ target' = [target EXCEPT ![p] = o]
        /\ held[o] /\ held' = held /\ wrapper' = wrapper
    BY <1>2 DEF Submit, Usable
  <2> QED
    BY <2>1 DEF Typed
<1>3. ASSUME NEW p \in Reqs, Take(p) \/ Begin(p) \/ Call(p) \/ End(p)
      PROVE  stage[r] \in Pending /\ target'[r] = target[r]
  <2>1. Quiet \/ Works(p)
    BY <1>3, PoolSteps
  <2> QED
    BY <2>1, <1>1 DEF Works, Quiet
<1>4. ASSUME NEW p \in Reqs, After(p)
      PROVE  stage[r] \in Pending /\ target'[r] = target[r]
  <2>1. /\ done # <<>> /\ p = Head(done) /\ stage' = [stage EXCEPT ![p] = "calling"]
        /\ target' = target
    BY <1>4 DEF After
  <2>2. stage[p] = "done"
    BY <2>1, TailFacts DEF Typed, Placed, Lines
  <2> QED
    BY <2>1, <2>2, Stages DEF Typed
<1>5. ASSUME NEW p \in Reqs, CallbackReturns(p)
      PROVE  stage[r] \in Pending /\ target'[r] = target[r]
  <2>1. (stage' = stage \/ stage' = [stage EXCEPT ![p] = "delivered"]) /\ target' = target
    BY <1>5 DEF CallbackReturns, Fail, requests
  <2> QED
    BY <2>1, Stages DEF Typed
<1>6. CASE (\E p \in Reqs : CallbackThrows(p)) \/ MainReturns \/ LoopEnds
  BY <1>6 DEF CallbackThrows, MainReturns, LoopEnds, requests
<1> QED
  BY <1>1, <1>2, <1>3, <1>4, <1>5, <1>6, Kinds DEF Pool

\* Every step keeps what is held or needed.
LEMMA NextKept ==
    ASSUME Typed, Placed, CountsBalance, Kept, Next
    PROVE  Kept'
<1>1. ASSUME NEW o \in Objects, held'[o]
      PROVE  wrapper'[o] = "live"
  <2> USE ObjectFacts DEF Typed, Kept
  <2>1. CASE UNCHANGED <<wrapper, held>>
    BY <1>1, <2>1
  <2>2. ASSUME NEW p \in Objects, wrapper' = [wrapper EXCEPT ![p] = "live"],
               held' = [held EXCEPT ![p] = TRUE]
        PROVE  wrapper'[o] = "live"
    BY <1>1, <2>2
  <2>3. ASSUME NEW p \in Objects, wrapper' = wrapper, held' = [held EXCEPT ![p] = FALSE]
        PROVE  wrapper'[o] = "live"
    <3>1. held[o]
      BY <1>1, <2>3
    <3> QED
      BY <2>3, <3>1
  <2>4. ASSUME NEW p \in Objects, ~held[p], held' = held,
               wrapper' = [wrapper EXCEPT ![p] = "deleted"]
        PROVE  wrapper'[o] = "live"
    BY <1>1, <2>4
  <2> QED
    BY <2>1, <2>2, <2>3, <2>4, Wrappers
<1>2. ASSUME NEW r \in Reqs, stage'[r] \in Pending
      PROVE  wrapper'[target'[r]] = "live"
  <2>1. CASE stage[r] \in Pending /\ target'[r] = target[r]
    <3>1. target[r] \in Objects /\ wrapper[target[r]] = "live"
      BY <2>1, Stages DEF Placed, Kept, KeptWhilePending
    <3>2. refs[target[r]] # 0
      <4>1. r \in Outstanding(target[r])
        BY <2>1 DEF Outstanding
      <4>2. Cardinality(Outstanding(target[r])) # 0
        BY <3>1, <4>1, FiniteReqs, FS_EmptySet
      <4> QED
        BY <3>1, <4>2 DEF CountsBalance
    <3> QED
      BY <2>1, <3>1, <3>2, Wrappers, ObjectFacts DEF Typed
  <2>2. CASE target'[r] \in Objects /\ held[target'[r]] /\ held' = held /\ wrapper' = wrapper
    BY <2>2 DEF Kept
  <2> QED
    BY <1>2, <2>1, <2>2, PendingBefore
<1> QED
  BY <1>1, <1>2 DEF Kept, KeptWhilePending

\* The loop ends only when no callback is owed, and nothing happens after that.
LEMMA NextCallbacks ==
    ASSUME Typed, Placed, CountsBalance, NoCallbackLost, Next
    PROVE  NoCallbackLost'
<1>1. CASE Quiet
  BY <1>1 DEF Quiet, NoCallbackLost
<1>2. CASE LoopEnds
  <2>1. evrefs = 0 /\ js = "loop" /\ stage' = stage
    BY <1>2 DEF LoopEnds, requests
  <2>2. Owed = {}
    BY <2>1, FiniteReqs, FS_EmptySet DEF CountsBalance, Owed
  <2>3. \A r \in Reqs : stage[r] # "calling"
    BY <2>1, ObjectFacts DEF Placed
  <2>4. \A r \in Reqs : stage[r] \notin Pending
    BY <2>2, <2>3 DEF Owed
  <2> QED
    BY <2>1, <2>4 DEF NoCallbackLost, Typed
<1>3. CASE js' # "exited"
  BY <1>3 DEF NoCallbackLost
<1>4. CASE Pool \/ (\E r \in Reqs : After(r) \/ CallbackReturns(r) \/ CallbackThrows(r))
           \/ MainReturns \/ \E r \in Reqs, o \in Objects : Submit(r, o)
  <2>1. js # "exited"
    BY <1>4 DEF Pool, Take, Begin, Call, End, After, CallbackReturns, CallbackThrows,
                MainReturns, Submit, Scripting, Alive
  <2>2. CASE Pool
    BY <2>1, <2>2, <1>1, <1>3, PoolSteps DEF Pool, Works
  <2>3. CASE (\E r \in Reqs : After(r) \/ CallbackReturns(r) \/ CallbackThrows(r))
             \/ MainReturns \/ \E r \in Reqs, o \in Objects : Submit(r, o)
    <3>1. js' # "exited"
      BY <2>1, <2>3 DEF After, CallbackReturns, CallbackThrows, MainReturns, Submit, Fail, process
    <3> QED
      BY <3>1, <1>3
  <2> QED
    BY <1>4, <2>2, <2>3
<1> QED
  BY <1>1, <1>2, <1>4, Kinds

-----------------------------------------------------------------------------
(***************************************************************************)
(* For any script.                                                         *)
(***************************************************************************)
\* The initial states satisfy the invariant.
LEMMA InitIInv == Init => IInv
<1> SUFFICES ASSUME Init PROVE IInv
  OBVIOUS
<1>1. Typed
  BY InitTyped
<1>2. Placed
  BY ObjectFacts DEF Init, Placed, Lines
<1>3. Owed = {} /\ \A o \in Objects : Outstanding(o) = {}
  BY Stages DEF Init, Owed, Outstanding
<1>4. CountsBalance
  BY <1>3, FS_EmptySet DEF Init, CountsBalance, Owed
<1>5. Kept
  BY Stages DEF Init, Kept, KeptWhilePending
<1>6. NoCallbackLost
  BY DEF Init, NoCallbackLost
<1> QED
  BY <1>1, <1>2, <1>4, <1>5, <1>6 DEF IInv

\* Every step preserves it.
LEMMA NextIInv == IInv /\ [Next]_vars => IInv'
<1>1. ASSUME IInv, Next PROVE IInv'
  <2>1. Typed'
    BY <1>1, ScriptTyped, OthersTyped DEF IInv, Next
  <2> QED
    BY <1>1, <2>1, NextPlaced, NextCounted, NextKept, NextCallbacks DEF IInv
<1>2. ASSUME IInv, UNCHANGED vars PROVE IInv'
  BY <1>2 DEF IInv, Typed, Placed, Lines, CountsBalance, Outstanding, Kept, KeptWhilePending,
              NoCallbackLost, vars, objects, requests, process, script
<1> QED
  BY <1>1, <1>2

\* The invariant holds throughout.
LEMMA Invariance == Spec => []IInv
  BY InitIInv, NextIInv, PTL DEF Spec

\* TypeOK: every variable of the binding's request path keeps its type; the two
\* reference counts are bounded by the number of requests.
THEOREM RequestTypes == Spec => []TypeOK
<1>1. IInv => TypeOK
  <2> SUFFICES ASSUME IInv PROVE TypeOK
    OBVIOUS
  <2>1. \A S : S \subseteq Reqs => Cardinality(S) \in 0 .. Cardinality(Reqs)
    <3>1. Cardinality(Reqs) \in Nat
      BY ReqsAssumption, FS_CardinalityType
    <3>2. \A S : S \subseteq Reqs => IsFiniteSet(S) /\ Cardinality(S) <= Cardinality(Reqs)
      BY ReqsAssumption, FS_Subset
    <3>3. \A S : IsFiniteSet(S) => Cardinality(S) \in Nat
      BY FS_CardinalityType
    <3> QED
      BY <3>1, <3>2, <3>3
  <2>2. \A o \in Objects : refs[o] \in 0 .. Cardinality(Reqs)
    <3>1. \A o \in Objects : Outstanding(o) \subseteq Reqs
      BY DEF Outstanding
    <3> QED
      BY <2>1, <3>1 DEF IInv, CountsBalance
  <2>3. refs \in [Objects -> 0 .. Cardinality(Reqs)]
    BY <2>2 DEF IInv, Typed
  <2>4. evrefs \in 0 .. Cardinality(Reqs)
    <3>1. Owed \subseteq Reqs
      BY DEF Owed
    <3> QED
      BY <2>1, <3>1 DEF IInv, CountsBalance, Owed
  <2> QED
    BY <2>3, <2>4 DEF IInv, Typed, TypeOK
<1> QED
  BY <1>1, Invariance, PTL

\* KeptWhilePending: no Db or DbEnv is deleted while a request needs it, for any
\* script: Ref and Unref in the methods and the After functions see to it.
THEOREM ObjectsOutliveRequests == Spec => []KeptWhilePending
  BY Invariance, PTL DEF IInv, Kept

\* CountsBalance: refs_ and the references on the event loop are the numbers of
\* requests that need them, for any script.
THEOREM ReferencesBalance == Spec => []CountsBalance
  BY Invariance, PTL DEF IInv

\* NoCallbackLost: node does not exit by itself while a callback is owed.
THEOREM LoopWaitsForCallbacks == Spec => []NoCallbackLost
  BY Invariance, PTL DEF IInv

-----------------------------------------------------------------------------
(***************************************************************************)
(* For scripts that follow the five rules.                                 *)
(***************************************************************************)
\* The handle of the object can be used.
Usual(o) == handle[o] \in {"created", "open"}

\* The handles: a Db's is usable only inside an open environment that the script
\* still holds, and _db is NULL unless it is, or CloseS is about to make it so.
Handles ==
    /\ \A o \in Objects : held[o] => handle[o] # "none"
    /\ \A d \in Dbs : Usual(d) => handle[Env] = "open" /\ held[Env]
    /\ \A d \in Dbs : pointer[d] <=> (Usual(d) \/ closing = d)
    /\ wrapper[Env] = "live" => pointer[Env] /\ (held[Env] \/ handle[Env] # "freed")
    /\ closing # None => handle[closing] = "freed"

\* The requests: their memory is kept, the handle they will use is usable, and a
\* status of 0 after the call is that of an operation performed, but when
\* txn_begin failed.
Answers ==
    /\ \A r \in Reqs : buffer[r] = "held"
    /\ \A r \in Reqs : stage[r] \in Pending => Usual(target[r])
    /\ \A r \in Reqs :
          stage[r] \in {"again", "end", "done", "calling", "delivered"}
             /\ status[r] = OK /\ rc[r] = OK => executed[r]

\* _transactional: the copies in Db objects are right.
Txns ==
    InitTxn => /\ handle[Env] = "open" => transactional[Env]
               /\ \A d \in Dbs : Usual(d) => transactional[d]

CInv == NoFault /\ Handles /\ Answers /\ Txns

\* A careful script follows each of the rules.
LEMMA CarefulFollows ==
    ASSUME Careful
    PROVE  /\ Follows("opensEnvFirst") /\ Follows("closedIsDone") /\ Follows("closesIdle")
           /\ Follows("keepsEnv") /\ Follows("keepsBuffers")
  BY DEF Careful, Follows, AllRules

\* It makes calls only on usable handles, ...
LEMMA UsableIsUsual ==
    ASSUME Typed, Careful, Handles, NEW o \in Objects, Usable(o)
    PROVE  Usual(o)
  BY CarefulFollows DEF Typed, Handles, Usable, Usual

\* ... and a usable Db has its pointer and an open environment.
LEMMA UsualDb ==
    ASSUME Handles, NEW d \in Dbs, Usual(d)
    PROVE  pointer[d] /\ ~Dangling(d) /\ handle[Env] = "open" /\ held[Env]
  BY DEF Handles, Usual, Dangling

\* An object with no reference has no request.
LEMMA Unreferenced ==
    ASSUME CountsBalance, NEW o \in Objects, refs[o] = 0
    PROVE  Outstanding(o) = {}
  BY FiniteReqs, FS_EmptySet DEF CountsBalance

\* What changes no object and no request keeps the invariant.
LEMMA CarefulQuiet ==
    ASSUME CInv, UNCHANGED <<objects, requests, closing, fault>>
    PROVE  CInv'
  BY DEF CInv, NoFault, Handles, Answers, Txns, Usual, objects, requests

\* Constructors.
LEMMA CarefulNew ==
    ASSUME IInv, CInv, Careful, NewEnv \/ \E d \in Dbs : NewDb(d)
    PROVE  CInv'
<1> USE ObjectFacts DEF CInv, IInv, Typed, requests, process
<1>1. CASE NewEnv
  <2>1. /\ wrapper[Env] = "none" /\ closing = None
        /\ wrapper' = [wrapper EXCEPT ![Env] = "live"]
        /\ held' = [held EXCEPT ![Env] = TRUE]
        /\ pointer' = [pointer EXCEPT ![Env] = TRUE]
        /\ handle' = [handle EXCEPT ![Env] = "created"]
        /\ UNCHANGED <<transactional, stage, target, rc, status, executed, buffer, closing, fault>>
    BY <1>1 DEF NewEnv, Scripting
  <2>2. \A d \in Dbs : ~Usual(d)
    BY <2>1 DEF Handles, Kept
  <2>3. \A d \in Dbs : /\ handle'[d] = handle[d] /\ pointer'[d] = pointer[d]
                       /\ held'[d] = held[d]
    BY <2>1, ObjectsAssumption
  <2>4. handle'[Env] = "created" /\ held'[Env] /\ pointer'[Env]
    BY <2>1
  <2>5. Handles'
    BY <2>1, <2>2, <2>3, <2>4 DEF Handles, Usual, Objects
  <2>6. Answers'
    BY <2>1, <2>3, <2>4, Stages DEF Answers, Usual, Objects, Placed
  <2>7. Txns'
    BY <2>2, <2>3, <2>4 DEF Txns, Usual
  <2> QED
    BY <2>1, <2>5, <2>6, <2>7 DEF NoFault
<1>2. ASSUME NEW d \in Dbs, NewDb(d) PROVE CInv'
  <2>0. handle[Env] = "open" /\ held[Env]
    BY <1>2, CarefulFollows DEF NewDb, Usable
  <2>1. /\ closing = None
        /\ wrapper' = [wrapper EXCEPT ![d] = "live"]
        /\ held' = [held EXCEPT ![d] = TRUE]
        /\ pointer' = [pointer EXCEPT ![d] = TRUE]
        /\ handle' = [handle EXCEPT ![d] = "created"]
        /\ transactional' = [transactional EXCEPT ![d] = transactional[Env]]
        /\ UNCHANGED <<stage, target, rc, status, executed, buffer, closing, fault>>
    BY <1>2, <2>0 DEF NewDb, Scripting
  <2>2. \A o \in Objects : o # d =>
          /\ handle'[o] = handle[o] /\ pointer'[o] = pointer[o] /\ held'[o] = held[o]
          /\ wrapper'[o] = wrapper[o] /\ transactional'[o] = transactional[o]
    BY <2>1
  <2>3. /\ handle'[d] = "created" /\ held'[d] /\ pointer'[d]
        /\ transactional'[d] = transactional[Env]
    BY <2>1
  <2>4. Env # d
    BY ObjectsAssumption
  <2>5. Handles'
    BY <2>0, <2>1, <2>2, <2>3, <2>4 DEF Handles, Usual
  <2>6. Answers'
    BY <2>1, <2>2, <2>3, Stages DEF Answers, Usual, Placed
  <2>7. Txns'
    BY <2>0, <2>2, <2>3, <2>4 DEF Txns, Usual
  <2> QED
    BY <2>1, <2>5, <2>6, <2>7 DEF NoFault
<1> QED
  BY <1>1, <1>2

\* Opening, and the Sync methods.
LEMMA CarefulOpen ==
    ASSUME IInv, CInv, Careful, OpenEnv \/ \E d \in Dbs : OpenDb(d) \/ CallS(d)
    PROVE  CInv'
<1> USE ObjectFacts DEF CInv, IInv, Typed, requests, process
<1>1. CASE OpenEnv
  <2>0. held[Env] /\ Usual(Env) /\ handle[Env] # "freed"
    BY <1>1, UsableIsUsual DEF OpenEnv, Usable, Usual
  <2>1. PICK h \in {handle[Env], "open"} :
          /\ transactional' = [transactional EXCEPT ![Env] = InitTxn]
          /\ handle' = [handle EXCEPT ![Env] = h]
          /\ UNCHANGED <<wrapper, held, pointer, stage, target, rc, status, executed, buffer,
                         closing, fault>>
    BY <1>1, <2>0 DEF OpenEnv
  <2>2. \A d \in Dbs : handle'[d] = handle[d] /\ transactional'[d] = transactional[d]
    BY <2>1, ObjectsAssumption
  <2>3. /\ handle'[Env] \in {"created", "open"} /\ (handle[Env] = "open" => handle'[Env] = "open")
        /\ transactional'[Env] = InitTxn
    BY <2>0, <2>1 DEF Usual
  <2>4. closing # None => closing \in Dbs
    OBVIOUS
  <2>5. Handles'
    BY <2>1, <2>2, <2>3, <2>4 DEF Handles, Usual, Objects
  <2>6. Answers'
    BY <2>1, <2>2, <2>3, Stages DEF Answers, Usual, Objects, Placed
  <2>7. Txns'
    BY <2>2, <2>3 DEF Txns, Usual
  <2> QED
    BY <2>1, <2>5, <2>6, <2>7 DEF NoFault
<1>2. ASSUME NEW d \in Dbs, OpenDb(d) PROVE CInv'
  <2>0. Usual(d) /\ ~Dangling(d) /\ Env # d
    BY <1>2, UsableIsUsual, UsualDb, ObjectsAssumption DEF OpenDb
  <2>1. /\ handle' = [handle EXCEPT ![d] = "open"]
        /\ UNCHANGED <<wrapper, held, pointer, transactional, stage, target, rc, status, executed,
                       buffer, closing, fault>>
    BY <1>2, <2>0 DEF OpenDb
  <2>2. handle'[d] = "open" /\ \A o \in Objects : o # d => handle'[o] = handle[o]
    BY <2>1
  <2>3. closing # d
    BY <2>0 DEF Handles, Usual
  <2>5. Handles'
    BY <2>0, <2>1, <2>2, <2>3 DEF Handles, Usual
  <2>6. Answers'
    BY <2>1, <2>2, Stages DEF Answers, Usual, Placed
  <2>7. Txns'
    BY <2>0, <2>1, <2>2 DEF Txns, Usual
  <2> QED
    BY <2>1, <2>5, <2>6, <2>7 DEF NoFault
<1>3. ASSUME NEW d \in Dbs, CallS(d) PROVE CInv'
  BY <1>3, UsableIsUsual, UsualDb DEF CallS
<1> QED
  BY <1>1, <1>2, <1>3

\* Closing: nothing that is closed has requests.
LEMMA CarefulClose ==
    ASSUME IInv, CInv, Careful, CloseEnv \/ \E d \in Dbs : CloseDb(d) \/ ClosedDb(d)
    PROVE  CInv'
<1> USE ObjectFacts DEF CInv, IInv, Typed, requests, process, objects
<1>1. CASE CloseEnv
  <2>0. /\ held[Env] /\ handle[Env] # "freed"
        /\ \A o \in Objects : Outstanding(o) = {}
        /\ \A d \in Dbs : ~Usual(d)
    BY <1>1, CarefulFollows DEF CloseEnv, Usable, Usual
  <2>1. /\ handle' = EnvFreed
        /\ UNCHANGED <<wrapper, held, pointer, transactional, stage, target, rc, status, executed,
                       buffer, closing, fault>>
    BY <1>1, <2>0 DEF CloseEnv
  <2>2. handle'[Env] = "freed" /\ \A d \in Dbs : handle'[d] = handle[d]
    BY <2>0, <2>1, ObjectsAssumption DEF EnvFreed, Usual
  <2>3. ASSUME NEW r \in Reqs, stage[r] \in Pending PROVE FALSE
    <3>1. target[r] \in Objects /\ r \in Outstanding(target[r])
      BY <2>3, Stages DEF Outstanding, Placed
    <3> QED
      BY <2>0, <3>1
  <2>5. Handles'
    BY <2>0, <2>1, <2>2 DEF Handles, Usual, Objects
  <2>6. Answers'
    BY <2>1, <2>3 DEF Answers
  <2>7. Txns'
    BY <2>0, <2>2 DEF Txns, Usual
  <2> QED
    BY <2>1, <2>5, <2>6, <2>7 DEF NoFault
<1>2. ASSUME NEW d \in Dbs, CloseDb(d) PROVE CInv'
  <2>0. Usual(d) /\ pointer[d] /\ ~Dangling(d) /\ Env # d /\ Outstanding(d) = {}
    BY <1>2, UsableIsUsual, UsualDb, CarefulFollows, ObjectsAssumption DEF CloseDb
  <2>1. /\ handle' = [handle EXCEPT ![d] = "freed"] /\ closing = None /\ closing' = d
        /\ UNCHANGED <<wrapper, held, pointer, transactional, stage, target, rc, status, executed,
                       buffer, fault>>
    BY <1>2, <2>0 DEF CloseDb, Scripting
  <2>2. handle'[d] = "freed" /\ \A o \in Objects : o # d => handle'[o] = handle[o]
    BY <2>1
  <2>3. \A r \in Reqs : stage[r] \in Pending => target[r] # d
    BY <2>0 DEF Outstanding
  <2>5. Handles'
    BY <2>0, <2>1, <2>2 DEF Handles, Usual
  <2>6. Answers'
    BY <2>1, <2>2, <2>3, Stages DEF Answers, Usual, Placed
  <2>7. Txns'
    BY <2>0, <2>1, <2>2 DEF Txns, Usual
  <2> QED
    BY <2>1, <2>5, <2>6, <2>7 DEF NoFault
<1>3. ASSUME NEW d \in Dbs, ClosedDb(d) PROVE CInv'
  <2>0. handle[d] = "freed" /\ Env # d /\ d # None
    BY <1>3, ObjectsAssumption DEF ClosedDb, Handles
  <2>1. /\ pointer' = [pointer EXCEPT ![d] = FALSE] /\ closing = d /\ closing' = None
        /\ UNCHANGED <<wrapper, held, handle, transactional, stage, target, rc, status, executed,
                       buffer, fault>>
    BY <1>3 DEF ClosedDb
  <2>2. ~pointer'[d] /\ \A o \in Objects : o # d => pointer'[o] = pointer[o]
    BY <2>1
  <2>5. Handles'
    BY <2>0, <2>1, <2>2 DEF Handles, Usual
  <2>6. Answers' /\ Txns'
    BY <2>1 DEF Answers, Usual, Txns
  <2> QED
    BY <2>1, <2>5, <2>6 DEF NoFault
<1> QED
  BY <1>1, <1>2, <1>3

\* Losing references, and the collector.
LEMMA CarefulCollect ==
    ASSUME IInv, CInv, Careful,
           Collector \/ (\E o \in Objects : Drop(o)) \/ \E r \in Reqs : DropBuffer(r)
    PROVE  CInv'
<1> USE ObjectFacts DEF CInv, IInv, Typed, requests, process, objects
<1>1. ASSUME NEW o \in Objects, Drop(o) PROVE CInv'
  <2>0. o = Env => handle[Env] # "freed" /\ \A d \in Dbs : ~Usual(d)
    BY <1>1, CarefulFollows DEF Drop, Usual
  <2>1. /\ held' = [held EXCEPT ![o] = FALSE]
        /\ UNCHANGED <<wrapper, pointer, handle, transactional, stage, target, rc, status, executed,
                       buffer, closing, fault>>
    BY <1>1 DEF Drop
  <2>2. ~held'[o] /\ \A p \in Objects : p # o => held'[p] = held[p]
    BY <2>1
  <2>5. Handles'
    BY <2>0, <2>1, <2>2 DEF Handles, Usual
  <2>6. Answers' /\ Txns'
    BY <2>1 DEF Answers, Usual, Txns
  <2> QED
    BY <2>1, <2>5, <2>6 DEF NoFault
<1>2. ASSUME NEW r \in Reqs, DropBuffer(r) \/ CollectBuffer(r) PROVE CInv'
  BY <1>2, CarefulFollows DEF DropBuffer, CollectBuffer, Answers
<1>3. ASSUME NEW d \in Dbs, CollectDb(d) PROVE CInv'
  <2>0. ~held[d] /\ Outstanding(d) = {} /\ closing = None /\ Env # d /\ d # None
    BY <1>3, Unreferenced, ObjectsAssumption DEF CollectDb, Collecting
  <2>1. ~(pointer[d] /\ Dangling(d))
    BY <2>0, UsualDb DEF Handles
  <2>2. /\ wrapper' = [wrapper EXCEPT ![d] = "deleted"]
        /\ handle' = [handle EXCEPT ![d] = "freed"]
        /\ pointer' = [pointer EXCEPT ![d] = FALSE]
        /\ UNCHANGED <<held, transactional, stage, target, rc, status, executed, buffer, closing, fault>>
    BY <1>3, <2>1 DEF CollectDb
  <2>3. /\ handle'[d] = "freed" /\ ~pointer'[d]
        /\ \A o \in Objects : o # d => /\ handle'[o] = handle[o] /\ pointer'[o] = pointer[o]
                                      /\ wrapper'[o] = wrapper[o]
    BY <2>2
  <2>4. \A r \in Reqs : stage[r] \in Pending => target[r] # d
    BY <2>0 DEF Outstanding
  <2>5. Handles'
    BY <2>0, <2>2, <2>3 DEF Handles, Usual
  <2>6. Answers'
    BY <2>2, <2>3, <2>4, Stages DEF Answers, Usual, Placed
  <2>7. Txns'
    BY <2>0, <2>2, <2>3 DEF Txns, Usual
  <2> QED
    BY <2>2, <2>5, <2>6, <2>7 DEF NoFault
<1>4. CASE CollectEnv
  <2>0. /\ ~held[Env] /\ wrapper[Env] = "live" /\ handle[Env] # "freed" /\ Outstanding(Env) = {}
        /\ \A d \in Dbs : ~Usual(d)
    BY <1>4, Unreferenced DEF CollectEnv, Handles
  <2>1. /\ wrapper' = [wrapper EXCEPT ![Env] = "deleted"]
        /\ handle' = EnvFreed
        /\ pointer' = [pointer EXCEPT ![Env] = FALSE]
        /\ UNCHANGED <<held, transactional, stage, target, rc, status, executed, buffer, closing, fault>>
    BY <1>4, <2>0 DEF CollectEnv
  <2>2. /\ handle'[Env] = "freed" /\ wrapper'[Env] = "deleted"
        /\ \A d \in Dbs : handle'[d] = handle[d] /\ pointer'[d] = pointer[d]
    BY <2>0, <2>1, ObjectsAssumption DEF EnvFreed, Usual
  <2>3. \A r \in Reqs : stage[r] \in Pending => target[r] \in Dbs
    BY <2>0, Stages DEF Outstanding, Placed, Objects
  <2>5. Handles'
    BY <2>0, <2>1, <2>2 DEF Handles, Usual, Objects
  <2>6. Answers'
    BY <2>1, <2>2, <2>3 DEF Answers, Usual
  <2>7. Txns'
    BY <2>0, <2>2 DEF Txns, Usual
  <2> QED
    BY <2>1, <2>5, <2>6, <2>7 DEF NoFault
<1> QED
  BY <1>1, <1>2, <1>3, <1>4 DEF Collector

\* The request moves on to stage s, and no object changes.
LEMMA CarefulMoves ==
    ASSUME IInv, CInv, NEW r \in Reqs, NEW s, stage' = [stage EXCEPT ![r] = s],
           s \in Pending => Usual(target'[r]),
           s \in {"again", "end", "done", "calling", "delivered"}
              /\ status'[r] = OK /\ rc'[r] = OK => executed'[r],
           \A p \in Reqs : p # r => /\ target'[p] = target[p] /\ rc'[p] = rc[p]
                                   /\ status'[p] = status[p]
                                   /\ executed'[p] = executed[p],
           UNCHANGED <<wrapper, held, pointer, handle, transactional, buffer, closing, fault>>
    PROVE  CInv'
<1> USE DEF CInv
<1>1. stage'[r] = s /\ \A p \in Reqs : p # r => stage'[p] = stage[p]
  BY DEF IInv, Typed
<1>2. Answers'
  BY <1>1 DEF Answers, Usual
<1>3. Handles' /\ Txns' /\ NoFault'
  BY DEF Handles, Usual, Txns, NoFault
<1> QED
  BY <1>2, <1>3

\* The asynchronous methods.
LEMMA CarefulSubmit ==
    ASSUME IInv, CInv, Careful, NEW r \in Reqs, NEW o \in Objects, Submit(r, o)
    PROVE  CInv'
<1>1. /\ stage' = [stage EXCEPT ![r] = "queued"] /\ target' = [target EXCEPT ![r] = o]
      /\ UNCHANGED <<wrapper, held, pointer, handle, transactional, rc, status, executed, buffer,
                     closing, fault>>
  BY DEF Submit
<1>2. Usual(o)
  BY UsableIsUsual DEF Submit, IInv, CInv
<1>3. target'[r] = o /\ \A p \in Reqs : p # r => target'[p] = target[p]
  BY <1>1 DEF IInv, Typed
<1> QED
  BY <1>1, <1>2, <1>3, CarefulMoves

\* A pending request has its object, its pointer and its handles.
LEMMA PendingIsSafe ==
    ASSUME IInv, CInv, NEW r \in Reqs, stage[r] \in Pending
    PROVE  /\ target[r] \in Objects /\ wrapper[target[r]] = "live" /\ Usual(target[r])
           /\ pointer[target[r]] /\ ~Dangling(target[r]) /\ Memory(r) = "none"
           /\ target[r] \in Dbs => handle[Env] = "open"
<1>1. target[r] \in Objects /\ wrapper[target[r]] = "live" /\ Usual(target[r])
  BY Stages DEF IInv, Placed, Kept, KeptWhilePending, CInv, Answers
<1>2. pointer[target[r]] /\ ~Dangling(target[r]) /\ (target[r] \in Dbs => handle[Env] = "open")
  <2>1. CASE target[r] \in Dbs
    BY <1>1, <2>1, UsualDb DEF CInv
  <2>2. CASE target[r] = Env
    BY <1>1, <2>2, ObjectsAssumption DEF CInv, Handles, Usual, Dangling
  <2> QED
    BY <1>1, <2>1, <2>2 DEF Objects
<1> QED
  BY <1>1, <1>2 DEF Memory, CInv, Answers

\* The pool.
LEMMA CarefulPool ==
    ASSUME IInv, CInv, NEW r \in Reqs, Take(r) \/ Begin(r) \/ Call(r) \/ End(r)
    PROVE  CInv'
<1> USE DEF objects
<1>1. CASE Take(r)
  <2>1. stage[r] = "queued"
    BY <1>1, TailFacts DEF Take, IInv, Typed, Placed, Lines
  <2>2. wrapper[target[r]] = "live" /\ pointer[target[r]] /\ Usual(target[r])
    BY <2>1, Stages, PendingIsSafe
  <2>3. /\ stage' = [stage EXCEPT ![r] = IF InTxn(r) THEN "begin" ELSE "call"]
        /\ UNCHANGED <<objects, target, rc, status, executed, buffer, closing, fault>>
    BY <1>1, <2>2 DEF Take
  <2> QED
    BY <2>2, <2>3, CarefulMoves
<1>2. CASE Begin(r)
  <2>1. stage[r] = "begin" /\ target[r] \in Dbs
    BY <1>2 DEF Begin, IInv, Placed
  <2>2. handle[Env] = "open" /\ Usual(target[r])
    BY <2>1, Stages, PendingIsSafe
  <2>3. /\ \/ stage' = [stage EXCEPT ![r] = "call"] /\ rc' = rc
           \/ stage' = [stage EXCEPT ![r] = "done"] /\ rc' = [rc EXCEPT ![r] = Error]
        /\ UNCHANGED <<objects, target, status, executed, buffer, closing, fault>>
    BY <1>2, <2>2 DEF Begin, Finish
  <2>4. CASE stage' = [stage EXCEPT ![r] = "call"] /\ rc' = rc
    BY <2>2, <2>3, <2>4, CarefulMoves
  <2>5. CASE stage' = [stage EXCEPT ![r] = "done"] /\ rc' = [rc EXCEPT ![r] = Error]
    <3>1. rc'[r] # OK /\ \A p \in Reqs : p # r => rc'[p] = rc[p]
      BY <2>5 DEF IInv, Typed, OK, Error
    <3> QED
      BY <2>2, <2>3, <2>5, <3>1, CarefulMoves
  <2> QED
    BY <2>3, <2>4, <2>5
<1>3. CASE Call(r)
  <2>1. stage[r] \in Pending
    BY <1>3, Stages DEF Call
  <2>2. Memory(r) = "none" /\ Usual(target[r])
    BY <2>1, PendingIsSafe
  <2>3. PICK ok \in {FALSE, handle[target[r]] = "open"} :
          /\ executed' = [executed EXCEPT ![r] = ok]
          /\ status' = [status EXCEPT ![r] = IF ok THEN OK ELSE Error]
          /\ \E s \in AfterCall(r, ok) : stage' = [stage EXCEPT ![r] = s]
    BY <1>3, <2>2 DEF Call
  <2>4. PICK s \in AfterCall(r, ok) : stage' = [stage EXCEPT ![r] = s]
    BY <2>3
  <2>5. UNCHANGED <<objects, target, rc, buffer, closing, fault>>
    BY <1>3, <2>2 DEF Call, process
  <2>6. status'[r] = OK => executed'[r]
    BY <2>3 DEF IInv, Typed, OK, Error
  <2>7. \A p \in Reqs : p # r => status'[p] = status[p] /\ executed'[p] = executed[p]
    BY <2>3 DEF IInv, Typed
  <2> QED
    BY <2>2, <2>4, <2>5, <2>6, <2>7, CarefulMoves
<1>4. CASE End(r)
  <2>1. stage[r] = "end"
    BY <1>4 DEF End
  <2>2. Usual(target[r]) /\ (target[r] \in Dbs => handle[Env] = "open")
    BY <2>1, Stages, PendingIsSafe
  <2>3. /\ stage' = [stage EXCEPT ![r] = "done"]
        /\ status' = status \/ status' = [status EXCEPT ![r] = Error]
        /\ UNCHANGED <<objects, target, rc, executed, buffer, closing, fault>>
    BY <1>4, <2>2 DEF End, Finish, InTxn
  <2>4. status[r] = OK /\ rc[r] = OK => executed[r]
    BY <2>1 DEF CInv, Answers
  <2>5. /\ status'[r] = status[r] \/ status'[r] # OK
        /\ \A p \in Reqs : p # r => status'[p] = status[p]
    BY <2>3 DEF IInv, Typed, OK, Error
  <2> QED
    BY <2>2, <2>3, <2>4, <2>5, CarefulMoves
<1> QED
  BY <1>1, <1>2, <1>3, <1>4

\* The event loop.
LEMMA CarefulLoop ==
    ASSUME IInv, CInv, NEW r \in Reqs, After(r) \/ CallbackReturns(r)
    PROVE  CInv'
<1> USE DEF objects
<1>1. CASE After(r)
  <2>1. stage[r] = "done"
    BY <1>1, TailFacts DEF After, IInv, Typed, Placed, Lines
  <2>2. Usual(target[r]) /\ (status[r] = OK /\ rc[r] = OK => executed[r])
    BY <2>1, Stages, PendingIsSafe DEF CInv, Answers
  <2>3. /\ stage' = [stage EXCEPT ![r] = "calling"]
        /\ UNCHANGED <<objects, target, rc, status, executed, buffer, closing, fault>>
    BY <1>1 DEF After
  <2> QED
    BY <2>2, <2>3, CarefulMoves
<1>2. CASE CallbackReturns(r)
  <2>1. stage[r] = "calling"
    BY <1>2 DEF CallbackReturns, IInv, Placed
  <2>2. wrapper[target[r]] = "live" /\ Usual(target[r]) /\ (status[r] = OK /\ rc[r] = OK => executed[r])
    BY <2>1, Stages, PendingIsSafe DEF CInv, Answers
  <2>3. /\ stage' = [stage EXCEPT ![r] = "delivered"]
        /\ UNCHANGED <<wrapper, held, pointer, handle, transactional, target, rc, status, executed,
                       buffer, closing, fault>>
    BY <1>2, <2>2 DEF CallbackReturns
  <2> QED
    BY <2>2, <2>3, CarefulMoves, Stages
<1> QED
  BY <1>1, <1>2

\* Every step of a process whose script is careful keeps the invariant.
LEMMA NextCInv == IInv /\ (Careful => CInv) /\ [Next]_vars => (Careful => CInv)'
<1> SUFFICES ASSUME IInv, Careful => CInv, [Next]_vars, Careful'
             PROVE  CInv'
  OBVIOUS
<1>1. Careful /\ CInv
  BY DEF Next, vars, script, Careful
<1>2. CASE UNCHANGED vars
  BY <1>1, <1>2, CarefulQuiet DEF vars, process
<1>3. CASE Script
  <2>1. \/ NewEnv \/ \E d \in Dbs : NewDb(d)
        \/ OpenEnv \/ \E d \in Dbs : OpenDb(d) \/ CallS(d)
        \/ CloseEnv \/ \E d \in Dbs : CloseDb(d)
        \/ \E r \in Reqs, o \in Objects : Submit(r, o)
        \/ (\E o \in Objects : Drop(o)) \/ \E r \in Reqs : DropBuffer(r)
    BY <1>3, ObjectFacts DEF Script, Get, Put, PutIf, Del, CursorGet, TxnCheckpoint
  <2> QED
    BY <1>1, <2>1, CarefulNew, CarefulOpen, CarefulClose, CarefulSubmit, CarefulCollect
<1>4. CASE Collector
  BY <1>1, <1>4, CarefulCollect
<1>5. CASE Pool
  BY <1>1, <1>5, CarefulPool DEF Pool
<1>6. CASE Loop \/ Gone
  <2>1. CASE (\E r \in Reqs : CallbackThrows(r)) \/ MainReturns \/ LoopEnds \/ Gone
    BY <1>1, <2>1, CarefulQuiet DEF CallbackThrows, MainReturns, LoopEnds, Gone, process
  <2> QED
    BY <1>1, <1>6, <2>1, CarefulLoop, CarefulClose DEF Loop
<1> QED
  BY <1>2, <1>3, <1>4, <1>5, <1>6 DEF Next

\* The invariant holds throughout.
LEMMA CarefulInvariance == Spec => [](Careful => CInv)
<1>1. Init => CInv
  BY ObjectFacts, ObjectsAssumption, Stages
     DEF Init, CInv, NoFault, Handles, Answers, Txns, Usual
<1> QED
  BY <1>1, Invariance, NextCInv, PTL DEF Spec

\* NoUseAfterClose: a script that follows the five rules never makes the binding
\* use a NULL _db, a closed handle or collected memory.
THEOREM CarefulScriptsAreSafe == Spec => []NoUseAfterClose
  BY CarefulInvariance, PTL DEF CInv, NoUseAfterClose

\* AnsweredWasExecuted: such a script can rely on a status of 0.
THEOREM ZeroCanBeTrusted == Spec => []AnsweredWasExecuted
<1>1. (Careful => CInv) => AnsweredWasExecuted
  BY DEF CInv, Answers, AnsweredWasExecuted, ZeroMeansExecuted
<1> QED
  BY <1>1, CarefulInvariance, PTL

\* ProtectedByTxn: and in a transactional environment all its calls on a Db are
\* made inside a transaction.
THEOREM CallsAreProtected == Spec => []ProtectedByTxn
<1>1. (Careful => CInv) => ProtectedByTxn
  BY Stages DEF CInv, Answers, Txns, ProtectedByTxn, InTxn
<1> QED
  BY <1>1, CarefulInvariance, PTL
=============================================================================
