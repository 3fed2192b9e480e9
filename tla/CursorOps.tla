----------------------------- MODULE CursorOps -----------------------------
(***************************************************************************)
(* Cursor scans: cursorGet, run by the threads of the eio pool             *)
(* (EIO_CursorGet), and cursorGetSync, run by the JavaScript thread        *)
(* (CursorGetS), of a transactional Db, beside threads that put and        *)
(* delete records (TxnOps).                                                *)
(*                                                                         *)
(* A scan begins a transaction, opens a cursor, positions it with          *)
(* initFlag, moves it with flags until it has limit records or a call      *)
(* fails, closes the cursor and ends the transaction.  The cursor locks    *)
(* each leaf page it reads, one after the other, and the transaction keeps *)
(* those locks until it ends.                                              *)
(*                                                                         *)
(* What TXN_END sees is the result of cursor->close (or of a db->cursor    *)
(* that failed), which is never DB_LOCK_DEADLOCK: the macro's goto again   *)
(* is out of a scan's reach, so the model has no retry.                    *)
(***************************************************************************)
EXTENDS Naturals, FiniteSets, Sequences, SequencesExt

CONSTANTS
    Workers, JsThread,      \* the threads that scan
    Writers,                \* threads that put and delete
    Keys, Values, None,     \* keys are numbers; None: no record
    Pages, PageOf,          \* leaf pages 1 .. Pages, and each key's
    Scans,                  \* the scans callers may ask for
    LockDetect, LockTimeout, IoErrors

Threads == Workers \cup {JsThread}
Contents == Values \cup {None}

\* The arguments of cursorGet.
Scan == [initFlag : {"DB_SET", "DB_SET_RANGE", "DB_FIRST", "DB_LAST"}, key : Keys,
         flags : {"DB_NEXT", "DB_PREV"}, limit : Nat]
NoScan == [initFlag |-> "none", key |-> None, flags |-> "none", limit |-> 0]

ASSUME ThreadsAssumption ==
    IsFiniteSet(Workers) /\ JsThread \notin Workers /\ Threads \cap Writers = {}
ASSUME KeysAssumption == IsFiniteSet(Keys) /\ Keys \subseteq Nat
ASSUME ContentsAssumption == None \notin Values /\ None \notin Keys
ASSUME PagesAssumption ==
    /\ Pages \in Nat \ {0}
    /\ PageOf \in [Keys -> 1 .. Pages]
    /\ \A j, k \in Keys : j < k => PageOf[j] <= PageOf[k]
ASSUME ScansAssumption == Scans \subseteq Scan
ASSUME SwitchesAssumption == {LockDetect, LockTimeout, IoErrors} \subseteq BOOLEAN

VARIABLES
    store,      \* contents of the database as the cache holds them
    committed,  \* contents without the writes of live transactions
    writing,    \* per writer, the key its transaction has written, or None
    rlock,      \* per page, the scans that hold a read lock
    pc,         \* per scanning thread, the next step
    scan,       \* its arguments
    txn,        \* _txn is live
    deadlocked, \* _txn is marked TXN_DEADLOCK
    cursor,     \* cursor is not NULL
    page,       \* the page the cursor is on, 0 before the first
    rc,         \* the result of its last call on the database or the cursor
    status,     \* baton->status, the rc of CursorGetS
    records     \* baton->records, the arr of CursorGetS

database == <<store, committed, writing>>
calls == <<cursor, page, rc, records>>
vars == <<database, rlock, pc, scan, txn, deadlocked, calls, status>>

OK == "0"
NOTFOUND == "DB_NOTFOUND"
DEADLOCK == "DB_LOCK_DEADLOCK"
EINVAL == "EINVAL"
EIO == "EIO"                \* any other error

Init ==
    /\ store = [k \in Keys |-> None]
    /\ committed = [k \in Keys |-> None]
    /\ writing = [w \in Writers |-> None]
    /\ rlock = [p \in 1 .. Pages |-> {}]
    /\ pc = [t \in Threads |-> "idle"]
    /\ scan = [t \in Threads |-> NoScan]
    /\ txn = [t \in Threads |-> FALSE]
    /\ deadlocked = [t \in Threads |-> FALSE]
    /\ cursor = [t \in Threads |-> FALSE]
    /\ page = [t \in Threads |-> 0]
    /\ rc = [t \in Threads |-> OK]
    /\ status = [t \in Threads |-> OK]
    /\ records = [t \in Threads |-> <<>>]

Goto(t, s) == pc' = [pc EXCEPT ![t] = s]

-----------------------------------------------------------------------------
(***************************************************************************)
(* Writers: a put or del under a page's write lock, then commit or abort.  *)
(***************************************************************************)
Locked(p) == \E w \in Writers : writing[w] # None /\ PageOf[writing[w]] = p

Write(w, k, c) ==
    /\ writing[w] = None
    /\ ~Locked(PageOf[k])
    /\ rlock[PageOf[k]] = {}
    /\ store' = [store EXCEPT ![k] = c]
    /\ writing' = [writing EXCEPT ![w] = k]
    /\ UNCHANGED <<committed, rlock, pc, scan, txn, deadlocked, calls, status>>

CommitWrite(w) ==
    /\ writing[w] # None
    /\ committed' = [committed EXCEPT ![writing[w]] = store[writing[w]]]
    /\ writing' = [writing EXCEPT ![w] = None]
    /\ UNCHANGED <<store, rlock, pc, scan, txn, deadlocked, calls, status>>

AbortWrite(w) ==
    /\ writing[w] # None
    /\ store' = [store EXCEPT ![writing[w]] = committed[writing[w]]]
    /\ writing' = [writing EXCEPT ![w] = None]
    /\ UNCHANGED <<committed, rlock, pc, scan, txn, deadlocked, calls, status>>

-----------------------------------------------------------------------------
(***************************************************************************)
(* The scan, up to the label error.                                        *)
(***************************************************************************)
Start(t) ==
    /\ pc[t] = "idle"
    /\ \E s \in Scans : scan' = [scan EXCEPT ![t] = s]
    /\ Goto(t, "begin")
    /\ UNCHANGED <<database, rlock, txn, deadlocked, calls, status>>

EIO_CursorGet(t) == t \in Workers /\ Start(t)
CursorGetS(t) == t = JsThread /\ Start(t)

TxnBegin(t) ==
    /\ pc[t] = "begin"
    /\ txn' = [txn EXCEPT ![t] = TRUE]
    /\ Goto(t, "cursor")
    /\ UNCHANGED <<database, rlock, scan, deadlocked, calls, status>>

\* txn_begin fails: goto out.
TxnBeginFails(t) ==
    /\ pc[t] = "begin"
    /\ IoErrors
    /\ Goto(t, "out")
    /\ UNCHANGED <<database, rlock, scan, txn, deadlocked, calls, status>>

DbCursor(t) ==
    /\ pc[t] = "cursor"
    /\ cursor' = [cursor EXCEPT ![t] = TRUE]
    /\ Goto(t, "get")
    /\ UNCHANGED <<database, rlock, scan, txn, deadlocked, page, rc, records, status>>

\* Seeded fault: a failed db->cursor leaves the function.
DbCursorFailsReturn(t) ==
    /\ pc[t] = "cursor" /\ IoErrors
    /\ status' = [status EXCEPT ![t] = EIO]
    /\ Goto(t, "out")
    /\ UNCHANGED <<database, rlock, scan, txn, deadlocked, calls>>

\* db->cursor fails: goto error with cursor NULL, so straight to TXN_END.
DbCursorFails(t) ==
    /\ pc[t] = "cursor"
    /\ IoErrors
    /\ rc' = [rc EXCEPT ![t] = EIO]
    /\ status' = [status EXCEPT ![t] = EIO]
    /\ Goto(t, "end")
    /\ UNCHANGED <<database, rlock, scan, txn, deadlocked, cursor, page, records>>

\* The call that cursor->get is making: with initFlag, then with flags.
First(t) == records[t] = <<>>
Backward(t) == IF First(t) THEN scan[t].initFlag = "DB_LAST"
               ELSE scan[t].flags = "DB_PREV"

\* The keys whose records would answer the call.
Sought(t) ==
    LET s == scan[t] IN
    IF ~First(t)
    THEN {k \in Keys : IF Backward(t) THEN k < Last(records[t]).key
                                      ELSE k > Last(records[t]).key}
    ELSE CASE s.initFlag = "DB_SET" -> {s.key}
           [] s.initFlag = "DB_SET_RANGE" -> {k \in Keys : k >= s.key}
           [] OTHER -> Keys

\* Those found on the cursor's page.
Found(t) == {k \in Sought(t) : PageOf[k] = page[t] /\ store[k] # None}

Nearest(t) == CHOOSE k \in Found(t) : \A j \in Found(t) :
                 IF Backward(t) THEN j <= k ELSE k <= j

\* The page the call goes to next, if there is one: first the one its search
\* leads to, then the neighbours (for DB_SET the search is all).
NextPage(t) ==
    IF page[t] = 0
    THEN CASE scan[t].initFlag = "DB_FIRST" -> {1}
           [] scan[t].initFlag = "DB_LAST" -> {Pages}
           [] OTHER -> {PageOf[scan[t].key]}
    ELSE IF First(t) /\ scan[t].initFlag = "DB_SET" THEN {}
    ELSE (1 .. Pages) \cap {IF Backward(t) THEN page[t] - 1 ELSE page[t] + 1}

Getting(t) == pc[t] = "get" /\ Found(t) = {}

\* Seeded fault: the cursor is opened with NULL instead of _txn.
LockPageOutsideTxn(t) ==
    /\ Getting(t)
    /\ \E p \in NextPage(t) :
          /\ ~Locked(p)
          /\ rlock' = [q \in 1 .. Pages |-> IF q = p THEN rlock[q] \cup {t}
                                            ELSE rlock[q] \ {t}]
          /\ page' = [page EXCEPT ![t] = p]
    /\ UNCHANGED <<database, pc, scan, txn, deadlocked, cursor, rc, records, status>>

\* The cursor moves to a page and locks it.
LockPage(t) ==
    /\ Getting(t)
    /\ \E p \in NextPage(t) :
          /\ ~Locked(p)
          /\ rlock' = [rlock EXCEPT ![p] = @ \cup {t}]
          /\ page' = [page EXCEPT ![t] = p]
    /\ UNCHANGED <<database, pc, scan, txn, deadlocked, cursor, rc, records, status>>

\* The lock is not to be had.  Both the detector and a timeout give
\* DB_LOCK_DEADLOCK, but only the detector marks the transaction.  A scan waits
\* for a writer that holds the page, or for one that waits for another scan.
\* (The lock's queue is left out: the model lets any scan that can be waiting be
\* denied, which is more than the detector does.)
LockDenied(t, by) ==
    /\ Getting(t)
    /\ \E p \in NextPage(t) : Locked(p) \/ \E u \in Threads \ {t} : u \in rlock[p]
    /\ by = "detector" => LockDetect
    /\ by = "timeout" => LockTimeout
    /\ rc' = [rc EXCEPT ![t] = DEADLOCK]
    /\ deadlocked' = [deadlocked EXCEPT ![t] = by = "detector"]
    /\ Goto(t, "close")
    /\ UNCHANGED <<database, rlock, scan, txn, cursor, page, records, status>>

\* Seeded fault: the loop's test is i++ <= limit.
MoreOffByOne(t, n) == n <= scan[t].limit

\* i++ < limit, where i counts the records.
More(t, n) == n < scan[t].limit

\* cursor->get returns 0: push_back, and the loop's test.
Got(t) ==
    /\ pc[t] = "get"
    /\ Found(t) # {}
    /\ rc' = [rc EXCEPT ![t] = OK]
    /\ records' = [records EXCEPT ![t] =
                      Append(@, [key |-> Nearest(t), val |-> store[Nearest(t)]])]
    /\ Goto(t, IF More(t, Len(records[t]) + 1) THEN "get" ELSE "close")
    /\ UNCHANGED <<database, rlock, scan, txn, deadlocked, cursor, page, status>>

\* cursor->get runs off the end.
NotFound(t) ==
    /\ Getting(t)
    /\ NextPage(t) = {}
    /\ rc' = [rc EXCEPT ![t] = NOTFOUND]
    /\ Goto(t, "close")
    /\ UNCHANGED <<database, rlock, scan, txn, deadlocked, cursor, page, records, status>>

GetFails(t) ==
    /\ pc[t] = "get"
    /\ IoErrors
    /\ rc' = [rc EXCEPT ![t] = EIO]
    /\ Goto(t, "close")
    /\ UNCHANGED <<database, rlock, scan, txn, deadlocked, cursor, page, records, status>>

-----------------------------------------------------------------------------
(***************************************************************************)
(* From the label error on.                                                *)
(***************************************************************************)
\* The result of cursor->close replaces whatever the calls before it returned.
Close(t) ==
    /\ pc[t] = "close"
    /\ \E s \in {OK} \cup IF IoErrors THEN {EIO} ELSE {} :
          status' = [status EXCEPT ![t] = s]
    /\ cursor' = [cursor EXCEPT ![t] = FALSE]
    /\ Goto(t, "end")
    /\ UNCHANGED <<database, rlock, scan, txn, deadlocked, page, rc, records>>

EndTxn(t) ==
    /\ rlock' = [p \in 1 .. Pages |-> rlock[p] \ {t}]
    /\ txn' = [txn EXCEPT ![t] = FALSE]
    /\ deadlocked' = [deadlocked EXCEPT ![t] = FALSE]

\* Seeded fault: the end of the database is not reported.
AnswerForgetsEnd(t) == OK

\* The status after a commit that returned 0.  CursorGetS says DB_NOTFOUND only
\* when the loop has met the end, not when its first call did.
Answer(t) ==
    IF rc[t] = NOTFOUND /\ ~(t = JsThread /\ First(t)) THEN NOTFOUND ELSE OK

Commit(t) ==
    /\ pc[t] = "end"
    /\ status[t] = OK
    /\ ~deadlocked[t]
    /\ EndTxn(t)
    /\ status' = [status EXCEPT ![t] = Answer(t)]
    /\ Goto(t, "out")
    /\ UNCHANGED <<database, scan, calls>>

\* Commit refuses a transaction that the detector has chosen, and aborts it.
CommitRefused(t) ==
    /\ pc[t] = "end"
    /\ status[t] = OK
    /\ deadlocked[t]
    /\ EndTxn(t)
    /\ status' = [status EXCEPT ![t] = EINVAL]
    /\ Goto(t, "out")
    /\ UNCHANGED <<database, scan, calls>>

Abort(t) ==
    /\ pc[t] = "end"
    /\ status[t] # OK
    /\ EndTxn(t)
    /\ Goto(t, "out")
    /\ UNCHANGED <<database, scan, calls, status>>

\* Status and records go to the caller.
Return(t) ==
    /\ pc[t] = "out"
    /\ Goto(t, "idle")
    /\ scan' = [scan EXCEPT ![t] = NoScan]
    /\ page' = [page EXCEPT ![t] = 0]
    /\ rc' = [rc EXCEPT ![t] = OK]
    /\ status' = [status EXCEPT ![t] = OK]
    /\ records' = [records EXCEPT ![t] = <<>>]
    /\ UNCHANGED <<database, rlock, txn, deadlocked, cursor>>

Next ==
    \/ \E w \in Writers :
          \/ \E k \in Keys, c \in Contents : Write(w, k, c)
          \/ CommitWrite(w) \/ AbortWrite(w)
    \/ \E t \in Threads :
          \/ EIO_CursorGet(t) \/ CursorGetS(t)
          \/ TxnBegin(t) \/ TxnBeginFails(t) \/ DbCursor(t) \/ DbCursorFails(t)
          \/ LockPage(t) \/ Got(t) \/ NotFound(t) \/ GetFails(t)
          \/ \E by \in {"detector", "timeout"} : LockDenied(t, by)
          \/ Close(t) \/ Commit(t) \/ CommitRefused(t) \/ Abort(t) \/ Return(t)

Spec == Init /\ [][Next]_vars

-----------------------------------------------------------------------------
(***************************************************************************)
(* What is checked.                                                        *)
(***************************************************************************)
\* A call of cursorGet returns at most limit records (and at least asks for one).
Limit(s) == IF s.limit = 0 THEN 1 ELSE s.limit

\* What a scan s of contents c should return, at one instant.  The keys with a
\* record, those initFlag may position on, the one it does position on, and the
\* run from there in the order of flags:
Present(c) == {k \in Keys : c[k] # None}
Starts(s, c) ==
    CASE s.initFlag = "DB_SET" -> Present(c) \cap {s.key}
      [] s.initFlag = "DB_SET_RANGE" -> {k \in Present(c) : k >= s.key}
      [] OTHER -> Present(c)
StartOf(s, c) == CHOOSE k \in Starts(s, c) : \A j \in Starts(s, c) :
                    IF s.initFlag = "DB_LAST" THEN j <= k ELSE k <= j
Before(s, j, k) == IF s.flags = "DB_PREV" THEN j > k ELSE j < k
Run(s, c) ==
    LET start == StartOf(s, c)
    IN IF Starts(s, c) = {} THEN {} ELSE {k \in Present(c) : ~Before(s, k, start)}

\* and the records of the run, as many as limit allows.
Nth(s, run, i) == CHOOSE k \in run : Cardinality({j \in run : Before(s, j, k)}) = i - 1
Size(s, run) == IF Cardinality(run) < Limit(s) THEN Cardinality(run) ELSE Limit(s)
Expected(s, c) ==
    LET run == Run(s, c)
        nth(i) == Nth(s, run, i)
    IN [i \in 1 .. Size(s, run) |-> [key |-> nth(i), val |-> c[nth(i)]]]

\* Every variable has its type, and no scan exceeds its limit.
TypeOK ==
    /\ {store, committed} \subseteq [Keys -> Contents]
    /\ writing \in [Writers -> Keys \cup {None}]
    /\ rlock \in [1 .. Pages -> SUBSET Threads]
    /\ pc \in [Threads -> {"idle", "begin", "cursor", "get", "close", "end", "out"}]
    /\ scan \in [Threads -> Scans \cup {NoScan}]
    /\ {txn, deadlocked, cursor} \subseteq [Threads -> BOOLEAN]
    /\ page \in [Threads -> 0 .. Pages]
    /\ rc \in [Threads -> {OK, NOTFOUND, DEADLOCK, EIO}]
    /\ status \in [Threads -> {OK, NOTFOUND, EINVAL, EIO}]
    /\ records \in [Threads -> Seq([key : Keys, val : Values])]
    /\ \A t \in Threads : Len(records[t]) <= Limit(scan[t])

\* While a scan has its transaction, the records it has collected begin the
\* answer that the committed contents give at this instant: it has read no
\* uncommitted record, and nobody has since changed, deleted or inserted a
\* record in the part it has passed.
ScanIsSnapshot ==
    \A t \in Threads :
        txn[t] => IsPrefix(records[t], Expected(scan[t], committed))

\* A scan whose calls all succeeded returns, when it commits, the whole answer
\* for the committed contents, and says DB_NOTFOUND exactly when fewer records
\* than the limit were left.  (CursorGetS says 0 when there was none at all.)
ScanIsExact ==
    [][\A t \in Threads :
          pc[t] = "end" /\ pc'[t] = "out" /\ status[t] = OK /\ rc[t] \in {OK, NOTFOUND} =>
              /\ records[t] = Expected(scan[t], committed)
              /\ status'[t] = NOTFOUND <=>
                    /\ Len(records[t]) < Limit(scan[t])
                    /\ ~(t = JsThread /\ records[t] = <<>>)]_vars

\* Whichever call of a scan failed, once it has left TXN_END it holds no page
\* lock, no open cursor and no transaction.
ScanLeavesNothing ==
    \A t \in Threads : pc[t] \in {"idle", "begin", "out"} =>
        /\ ~txn[t] /\ ~cursor[t] /\ ~deadlocked[t]
        /\ \A p \in 1 .. Pages : t \notin rlock[p]

\* A caller who is told 0 or DB_NOTFOUND has the whole answer.
AnsweredIsComplete ==
    [][\A t \in Threads :
          pc[t] # "out" /\ pc'[t] = "out" /\ status'[t] \in {OK, NOTFOUND} =>
              records[t] = Expected(scan[t], committed)]_vars
=============================================================================
