# A TLA+ model of node-bdb

node-bdb binds Berkeley DB 5.1 to node.js: JavaScript objects `DbEnv` and `Db`
(`lib/`, `src/bdb_env.cc`, `src/bdb_db.cc`) whose methods call Berkeley DB either
at once, on the JavaScript thread (the `Sync` methods), or on a thread of node's
eio pool, with a callback. This directory models the binding, checks the models
with TLC and proves the central results with TLAPS. It also models
`tools/cpplint.py`, Google's lint program, of which the repository keeps a copy and
which `wscript:99` runs over `src/`: it is not part of the binding, but it is the
repository's only Python program, and it has parsers with state worth checking.

Paths below are relative to the repository's root.

## Inventory

| component | state | operations | interacts with |
|---|---|---|---|
| data operations (`bdb_db.cc`, `bdb_common.h`) | a transaction per operation, its page locks and before-images, the baton's status and value, `_attempts` | get, put, putIf, del, and get/put/del Sync; all are `TXN_BEGIN`, one or two Berkeley DB calls, `TXN_END` | one another, through Berkeley DB's locks, on the pool's threads and the JavaScript thread |
| requests and object lives (`bdb_object.cc`, `bdb_db.cc`, `bdb_env.cc`) | batons, `refs_` of each object, references on the event loop, `_db`, `_env`, `_transactional`, the native handles, eio's two queues | the asynchronous methods, the `EIO_` and `EIO_After` functions, `New`, `OpenS`, `CloseS`, the destructors, `txnCheckpoint` | the script, the collector, the pool, the event loop |
| cursor scans (`bdb_db.cc`) | a transaction, its page locks, an open cursor, the records so far, the result of the last call | cursorGet, cursorGetSync | the same macros and request path |
| JavaScript wrappers (`lib/*.js`) | none | option checks and defaults | hand on to the native methods |
| environment settings (`bdb_env.cc`) | Berkeley DB's | the `set*` methods | fix detector, timeouts and region sizes before open |
| C++ style checker (`tools/cpplint.py`) | settings, error counts, suppressions; per file the text, `_IncludeState`, `_FunctionState`, the stack of `_ClassState` | ParseArguments, ProcessFile, ProcessFileData, ProcessLine, Error, the checks | none of the others; the checks and the parsers meet in `Error` |
| secondary indices, encryption, constants | none | associateSync, setEncrypt, `bdb_bindings.cc` | one call each |
| Berkeley DB 5.1.25 (`deps/`) | vendored | | used by all of the above |

What is hard here, and what has to hold:

- **Interleaving.** putIf reads, compares and writes; it is correct only because
  the read lock is kept in the transaction and upgraded. Operations on different
  keys of one page block and deadlock one another. Wanted: each operation takes
  effect at one instant, with the answer that instant calls for.
- **Failure half-way.** Lock denied, I/O error, failed commit, failed
  `txn_begin`, panic, crash. Wanted: an error has no effect, success is durable,
  nothing (transaction, lock, dirty page) outlives its operation, retries start
  from nothing and are bounded.
- **Waiting.** Wanted: every operation ends, every request calls back.
- **State carried from line to line and from file to file** (cpplint). The parsers
  go over a text once, while some errors are reported long after their line was
  passed, or before it was parsed. Wanted: what each parser knows is what the text
  up to here says; a suppression covers its line whenever the report comes and
  ends with its file; the counts agree with what was printed; the program ends.
- **Lives of objects.** Main thread, pool and collector share `_db`, `_env` and
  reference counts without locks. Wanted: objects outlive their requests, node
  does not exit while a callback is owed, no handle is used after its close, and
  code 0 means that the work was done.

`PROJECT.json` lists the hazards line by line with the properties that watch them.

## Modules

| module | what it is |
|---|---|
| `AtomicStore` | abstract specification of the data operations: a map, operations that take effect at one instant, refusals without effect, restarts that lose nothing answered; and the two answers that do not say what happened: `Skip` (txn_begin failed) and `Doubt` (a panic under commit) |
| `TxnOps` | the operations as the code runs them, with the part of Berkeley DB they rely on |
| `TxnOpsProofs` | theorems about `TxnOps`, with their proofs |
| `AsyncRequests` | the asynchronous request path and the lives of Db and DbEnv objects |
| `AsyncRequestsProofs` | theorems about `AsyncRequests`, with their proofs |
| `CursorOps` | cursor scans beside writers: the calls of a scan, the page locks of its cursor, its way out |
| `CursorOpsProofs` | theorems about `CursorOps`, with their proofs |
| `LintText` | cpplint: what a line is, multi-line comments, the checks that look back and forward |
| `LintScopes` | cpplint: the parsers of functions and classes |
| `LintIncludes` | cpplint: #include order, and include what you use |
| `Cpplint` | a run of cpplint: command line, files, lines, the error handler |
| `CpplintProofs` | theorems about `Cpplint`, with their proofs |
| `CpplintParserProofs` | further theorems about what its parsers know at each line |
| `FoldFacts` | lemmas on folds and sums over finite sets, for the proofs about `Cpplint` |
| `LeastNumbers` | a nonempty set of numbers has a least one: for `FoldFacts` and `CursorOpsProofs` |
| `MCTxnOps`, `MCAsyncRequests`, `MCCursorOps`, `MCCpplint` | instances for TLC |

Definitions named "Seeded fault" in a comment are not part of a specification:
each is the mutated form of the definition after it, and is there to show that a
property can fail.

### TxnOps

A thread's `pc` is its place in an operation: `idle`, `begin` (`TXN_BEGIN`),
`get`, `put`, `del` (the call it makes next), `end` (`TXN_END`), `commit` (commit
has passed its check for a panic and not yet finished), `out`. The
actions are the entry points (`EIO_Get` ... `DelS`), `TxnBegin` and
`TxnBeginFails`, the calls `DbGet`, `DbPut`, `DbDel`, what may happen instead of a
call (`LockWait`, `LockDenied`, `CallFails`, `CallFailsHalfway`), the branches of
`TXN_END` in the order the macro tests them (`CommitBegins`, then `CommitEnds`,
`CommitFails` or `CommitInDoubt`; `Retry`; `Abort`), and `Return`. putIf goes from
its get to its put when `memcmp` agrees. `status` is what the caller will be told,
`rc` is `_rc` of `TXN_BEGIN`, which nobody looks at: a `txn_begin` that fails (a panic, a
full region, or any of its allocations, log writes and locks) sends the operation
to `out` with the status as it is, which is 0, or, after a `goto again`, the
DB_LOCK_DEADLOCK of the attempt before.

The database is transactional, as it is when the environment was opened with the
default flags before the Db was made. That it was is a rule of the script
(`opensEnvFirst` in `AsyncRequests`, `ProtectedByTxn`). Without transactions each
call is one Berkeley DB call whose atomicity would be assumed and not shown, so
nothing is said of it here.

Berkeley DB is modelled by the behaviour the operations depend on:

- page locks, kept until the transaction ends. `Grantable` and `Enqueue` follow
  `__lock_get_internal`: a request waits for conflicting holders; one that
  already holds a lock on the page goes to the head of the queue and is not held
  up by waiters; everyone else queues behind the waiters it conflicts with.
  Promotion stops at the first waiter that still conflicts (`__lock_promote`);
- the detector, run by whoever starts to wait, if `setLockDetect` was called;
  any member of the cycle may be the victim. An expired lock or transaction
  timeout is reported as DB_LOCK_DEADLOCK too (`__db_lget`);
- calls that fail with nothing done, half done (put deletes the record and adds it
  again, `__bam_iitem`), or after all was done;
- commit, which forces the log (`logged`), then gives up the locks; a commit that
  cannot log aborts; abort restores the before-images;
- panic, at any instant: every later call returns DB_RUNRECOVERY and changes nothing. A commit
  that has passed its check goes on: it may succeed, abort, or return
  DB_RUNRECOVERY with its record in the log ("left with a commit record but a
  panic return", `log_put.c:548`);
- crash: the next `openSync` runs recovery (`DB_RECOVER` is a default flag), which
  leaves the committed contents.

Abstracted: a value is one of a small set, a leaf page is a given set of keys
(no splits, no internal pages), the several statuses of a failed call are one
(`EIO`). Flags are those the methods hand on and that change what happens:
DB_RMW and DB_NOOVERWRITE.

### AsyncRequests

A request (`stage`) goes from `queued` through the pool (`begin`, `call`, `again`,
`end`) to `done`, to its callback (`calling`) and to `delivered`. An object has a
wrapper, a JavaScript reference (`held`), `refs_`, a pointer (`_db`/`_env` not
NULL) and a native handle. The script's steps are the constructors, opens,
closes, dropping its last reference to an object or a buffer, and the
asynchronous methods; it runs in the main program and inside callbacks. The
collector runs between any two of them. `CloseS` of a Db is two steps, because
pool threads read `_db` while it runs. A use of a NULL pointer, a destroyed
handle or collected memory sets `fault`, and nothing happens after that.

The script is the environment of this component. The variable `rules`, which never
changes, is what it takes care of (one of `RuleSets`), and `methods` (one of
`Workloads`) what each request is a call of:

| rule | the script |
|---|---|
| `opensEnvFirst` | makes a Db only in an environment that is open |
| `closedIsDone` | makes no call on an object it has closed |
| `closesIdle` | closes a Db when its requests have called back, the environment when all have and its Dbs are closed |
| `keepsEnv` | does not let go of an environment that it has closed or that still has Dbs |
| `keepsBuffers` | keeps keys and values until the callback |

These are the habits of `test/test_concurrent.js`, which keeps everything in
global variables or closures and closes the Db, then the environment, after the
last callback. No document states them. What a pool thread does inside its
transaction (retries included: they use the same handles again) is `TxnOps`; here
`txn_begin` (`rc`), each call and commit may succeed or fail. `executed` says that
Berkeley DB performed the last call of the request. What a careful
script can rely on is that a 0 was work done, except when `txn_begin` failed: that
exception is the first finding below, and no rule of the script avoids it.

### CursorOps

A scanning thread goes through `begin`, `cursor` (`db->cursor`), `get` (the first
`cursor->get` with initFlag and those of the loop with flags), `close`, `end`
(`TXN_END`) and `out`. One `cursor->get` is several steps: `LockPage` moves the cursor
to a leaf page and locks it (`__bamc_next`, `__bamc_prev`), `Got` takes the nearest
record there, `NotFound` is the end of the last page. `LockDenied` and `GetFails` end the
call with an error; every way leads to `Close`, whose result replaces the error, as
at `bdb_db.cc:158`. Writers are the puts and dels of `TxnOps`, reduced to their
write lock, their effect and their commit or abort; locks have no queue here: a
scan may be granted a lock whenever no writer holds the page, and may be denied
one whenever it can be waiting, so the model has every order that queues allow.

`TXN_END`'s `goto again` is not in the model, because a scan cannot reach it: the
status it tests is that of `cursor->close`, or of a `db->cursor` that failed, and
neither asks for a page lock. A scan that the detector chose as a victim is refused
by commit with EINVAL (`TXN_DEADLOCK`); one whose lock timed out commits.

`CursorGetS` differs in one point, which `Answer` keeps: when the very first call
finds nothing it answers 0 and an empty array, where cursorGet answers
DB_NOTFOUND.

Only transactional databases, and only the flags DB_SET, DB_SET_RANGE, DB_FIRST,
DB_LAST, DB_NEXT and DB_PREV, are considered.

### LintText, LintScopes, LintIncludes, Cpplint

A line of text is a record of the questions the checks ask of it (how many braces,
does it begin a comment, which header does it include, ...); the regular
expressions that answer them are not modelled. As in the code, the text of a file
is put between two marker lines, so that line numbers begin at 1.

`phase` is where the program stands: `start`; `file` (between files); `ifndef` and
`endif` (CheckForHeaderGuard), `comments` (RemoveMultiLineComments); for each line
`nolint` (ParseNolintSuppressions), `style` (CheckForFunctionLengths to
CheckBraces), `braces` (the loop at the end of CheckBraces), `language` (CheckSpacing to
_ClassState); then `finish`, `include what you use`, `utf8` and `end`; `crashed` and
`exited`. One action is what the program does in a phase up to its calls of
Error, and each call is a step, because the handler reads and changes the
suppressions and the counts. Loops that change state as they go
(RemoveMultiLineComments, the lines, CheckBraces, the missing headers, the replacement
characters) take a step for each turn.

The parsers are operators: `FunctionLine`, `ClassLine` and `IncludeLine` take the
state before a line to the state after it, and the `Check` operators give what is
reported on the way.

What is kept exactly: the order of all steps, every early return, the filters and
the confidence levels, which line an error is reported for, the three ways in which
the program misbehaves on its own: `CloseExpression` runs over the end of the text
and raises IndexError, although its docstring (line 981) promises the line past
the end; the loop of CheckBraces does not end; `--verbose` takes any integer
(line 3086), though the usage text has 0 to 5, and at a negative one Check takes the
logarithm of 0, a ValueError (`CheckDies`). What is abstracted:

- rules that look at one line, or at one line joined to the next, are a line's
  `style`, `language` and `other` findings, wherever the rule stands;
- a file name is a directory, a stem, a suffix (`_test`, `-inl`, ...) and an
  extension. `FilesBelongToSameModule` asks whether one path ends with another as a
  text: that is the constant `EndsWith`, and the path it leads to is `FullPath`; the
  instance has `foo.cc` include `oo.h`, which makes the program read `foo.h`;
- a filter is the set of categories that its prefix covers; one without a sign,
  which the usage text allows (lines 126 and 130), is the ValueError it is in
  the code (lines 540-543);
- the order in which CheckForIncludeWhatYouUse reports is free (Python's dictionary
  has none); `--output`, which only formats, and the messages are left out.

The model was compared with the program itself: for each of the 4 235 command
lines of `lint_files` on which the program ends, and the 84 of
`lint_unclosed_comment`, files with the lines the records stand for were written,
`cpplint.py` (moved to Python 3, with the two triggers of the instance) was run on
them, and its errors and exit code were those of the model.

## Runs

Passing:

| run | instance | states | question |
|---|---|---|---|
| `txn_contention` | 2 pool threads and the JavaScript thread, 2 keys on one page, 1 retry, detector, I/O errors, crashes | 248 000 | do the safety properties of `TxnOps` hold, does it implement `AtomicStore`, also for operations on different keys that share a page's lock? |
| `txn_flags_panic` | 2 threads, all methods and flags, timeouts, I/O errors, panics, crashes | 355 000 | do answers, locks, log and the abstract store stay right with every flag and with a panic at any instant? |
| `txn_liveness` | 3 threads, detector, fairness | 13 000 | is every operation answered? |
| `async_scripts` | 1 Db, its environment, 2 requests, 2 pool threads; scripts that follow all rules and scripts that follow none; `txn_begin`, calls and commits may fail | 428 000 | which guarantees need no care of the script, is a careful one safe from undefined behaviour and from false success, does every request call back? |
| `cursor_scans` | a pool thread, the JavaScript thread and a writer, 3 keys on 2 pages, 4 scans in both directions, every call may fail | 2 000 000 | is a scan a snapshot, is it complete unless a call failed, does it leave nothing behind? |
| `lint_files` | 4 362 command lines: every file of up to 2 to 4 lines out of a small set for each parser, 64 pairs of files, combinations of options | 159 000 | is what cpplint removes, counts, suppresses and prints what the text calls for, and does it end? |

Violated, each against something the repository says (see `findings` in
`PROJECT.json`):

- `txn_begin_failure`: a failed `txn_begin` jumps to `out` with the status still 0;
  a put that was not made is answered 0.
- `txn_default_detector`: nothing turns the deadlock detector on by default, so
  the documented retry never happens and two putIf on one page wait forever.
- `async_close_busy` (`ZeroMeansExecuted`): a put still queued when `closeSync` runs finds `_db` NULL,
  does nothing and is answered 0.
- `async_env_collected` (`NoFault`): `DbEnv::CloseS` leaves `_env` set, and `~DbEnv` closes the
  destroyed handle again.
- `cursor_lock_timeout`: a scan that hears DB_LOCK_DEADLOCK is not retried, as the
  documentation of `retries` has it, but answered 0 with part of the records.
- `lint_unclosed_comment` (`EveryNolintHolds`): a comment that is never closed is
  reported for the line after its first, before any NOLINT is parsed, so a NOLINT on
  that line, which the usage text says suppresses it, does not.

Two more places where cpplint and its documentation disagree, the filter without
a sign and the docstring of `CloseExpression`, are in the model as the code has them
(see above) and have no run of their own.

**Properties.** In `TxnOps`: `LockExclusion`, `NothingLeaks`, `DirtyIsOwned`,
`AssertedValueHolds` (putIf), `AnswerIsCurrent`, `RetriesExhausted`,
`BegunIsLogged`, `AcknowledgedIsLogged`, `ImplementsAtomicStore`,
`EveryCallReturns`. In `AsyncRequests`: `KeptWhilePending`, `CountsBalance`,
`NoCallbackLost`, `NoUseAfterClose`, `AnsweredWasExecuted`, `ProtectedByTxn`,
`EveryRequestCallsBack`, and `NoFault` and `ZeroMeansExecuted`, which only careful
scripts can have. In `CursorOps`: `ScanIsSnapshot`, `ScanIsExact`,
`ScanLeavesNothing`, `AnsweredIsComplete`. In `Cpplint`: `SuppressionIsLocal`,
`NolintHolds`, `EveryNolintHolds`, `CountsAgree`, `LastFilterDecides`, `CommentsGone`, `LengthIsCounted`,
`LongFunctionsShow`, `DepthIsCounted`, `SectionIsHighest`, `LastHeaderIsGreatest`,
`LintEnds`. Those about a parser compare its state, at every
line, with a definition made from the whole text: the lines since the last `{` of a
function, the sum of the braces since that of a class, the greatest header since
the section changed. Each is stated in a comment at its definition.

**Bounds.** Three threads give an upgrade deadlock with a bystander in the queue,
and a victim that retries against both. Two values tell a stale read from a
current one and make putIf's comparison succeed and fail. One retry lets an
operation be tried again and give up. Operations
on one key conflict; two keys on one page share locks and not data; keys on different pages do
not interact, as an operation has one key. In `AsyncRequests` two requests are
enough to have one in the pool and one in the queue, done, or calling back, on
the same Db or on the Db and its environment. A request stands for any of the
methods whose `EIO_` functions take the same steps (`methods`). In `CursorOps` two keys on the first
page and one on the second let a scan cross pages in both directions with a
writer behind it, on its page and ahead of it; limits 0, 2 and 9 ask for less than
one record, for fewer than there are, and for more. In `Cpplint` a parser's state
depends on a few kinds of lines, and words of up to four of them pass through
every transition twice; NORMAL_TRIGGER and TEST_TRIGGER are 2 and 3 in place of 250
and 400, and functions of up to 9 lines reach the third power of two above them.
One pair of files is enough to show what the first leaves to the second, as
nothing is counted per file. Every state space is finite without further bounds:
nothing but `_attempts`, bounded by `_retries`, and cpplint's error counts, bounded
by the text, counts. Worker threads are
interchangeable, so the runs of safety properties use them as a symmetry set.

**Deadlock checking** is on everywhere except in `txn_default_detector`, where the
threads waiting for each other is the subject. In `AsyncRequests` a process that
has ended stutters (`Gone`), as in `Cpplint` (`Done`).

**Fairness.** `TxnOps`: weak fairness of every step a thread takes by itself; of
the detector, which runs whenever a request starts to wait; strong fairness of
the granted call, because the lock manager promotes the head of the queue inside
the release of the lock, before another thread can ask. Callers need not issue
operations, timeouts need not expire, calls need not fail. `AsyncRequests`: weak
fairness of the pool's steps, of the After functions, and of the end of the
script's main program and callbacks. `Cpplint`: weak fairness of Next; it is one
sequential program that reads files and waits for nobody.

## Proofs

`TxnOpsProofs` proves, for any threads, keys, values, pages, operations and number
of retries, under the named assumptions on constants in `TxnOps`:

| theorem | result |
|---|---|
| `TypeCorrect` | `TypeOK` |
| `LocksExclude` | `LockExclusion` |
| `TransactionsEnd` | `NothingLeaks` |
| `DirtyDataIsOwned` | `DirtyIsOwned` |
| `PutIfIsAtomic` | `AssertedValueHolds` |
| `AnswersAreCurrent` | `AnswerIsCurrent` |
| `GivesUpLate` | `RetriesExhausted` |
| `OperationsAreAtomic` | `ImplementsAtomicStore` |
| `AcknowledgedWritesAreLogged` | `BegunIsLogged` |

No theorem assumes that something does not fail. The last three are true because of
what they say of a failed `txn_begin`: `RetriesExhausted` and `BegunIsLogged` exempt the
operation whose `rc` tells of one, and in `AtomicStore` it is the action `Skip`, an
answer of 0 or DB_LOCK_DEADLOCK without effect. That is the weakest exemption
there is: `AcknowledgedIsLogged`, which is `BegunIsLogged` without it, is refuted by the run
`txn_begin_failure`. `Doubt` is the same for a panic under commit: only
DB_RUNRECOVERY, never 0 and no other error, may hide an effect.

The argument is one inductive invariant, `IInv`. `LockExclusion` and `DirtyIsOwned`
are not inductive by themselves: that an abort restores the committed value
needs that nobody else has written the key since, and that needs the exclusive
lock; that putIf's comparison still holds needs that the store at a read-locked
key equals the committed contents. `ThreadInv(t)` therefore says, for each pc, what
the thread holds and knows: nothing outside a transaction; a read lock and an
equal value between putIf's get and put; at `end` the answer, the lock and the
effect on the cache. The proof has one lemma per kind of step; `Frame` shows that
a step of one thread leaves the others' claims alone as long as it does not touch
a key they have locked. Nearly all of `ThreadInv` holds in a panic too: abort does nothing
then, so transactions may be left over, but they keep their locks and their writes. At
`commit` the answer, the lock and the effect on the cache are therefore what they were when commit
began, and what reaches the log, if anything does, is the effect of the answer
(`CommitLogsEffect`). `BegunIsLogged` and the refinement rest on that.

`AsyncRequestsProofs`, for any number of Dbs, requests and pool threads:

| theorem | result |
|---|---|
| `RequestTypes` | `TypeOK` |
| `ObjectsOutliveRequests` | `KeptWhilePending` |
| `ReferencesBalance` | `CountsBalance` |
| `LoopWaitsForCallbacks` | `NoCallbackLost` |
| `CarefulScriptsAreSafe` | `NoUseAfterClose` |
| `ZeroCanBeTrusted` | `AnsweredWasExecuted` |
| `CallsAreProtected` | `ProtectedByTxn` |

The first four hold for every script and come from one invariant, `IInv`: the
counts are the numbers of requests that need them, so a request with a callback
owed has one, and neither the collector nor the end of the loop can overlook it.
They need to know besides where a request is (`Placed`: a queue holds each of
its requests once, and only those of its stage). The last three are about careful
scripts and come from `CInv`: what the five rules add up to (handles are open where
they are used, a Db is closed only when idle, buffers outlive their requests). In
`ZeroCanBeTrusted` a request whose `txn_begin` failed is exempt, as in `TxnOps`; that every other failure
reaches the caller is what it shows.

`CursorOpsProofs`, for any threads, scans, writers, keys and pages:

| theorem | result |
|---|---|
| `ScanTypes` | `TypeOK` |
| `ScansCleanUp` | `ScanLeavesNothing` |
| `ScansAreSnapshots` | `ScanIsSnapshot` |
| `ScansAreExact` | `ScanIsExact` |
| `AnswersAreComplete` | `AnsweredIsComplete`, assuming no lock timeout and no I/O error |

This is two-phase locking at work: a page that a scan has passed is read-locked by
it, so no writer has uncommitted data there (`Exclusive`, `Clean`) and none can commit
any. `Collected` says that the records so far are those the scan passes first in
the committed contents, and `Position` where its cursor is, page by page; both
survive a writer's commit because what it changes lies on pages not yet passed.
`AnsweredIsComplete` is what a caller would want and what the run
`cursor_lock_timeout` refutes. `AnswersAreComplete` says that lock timeouts and failed calls are
all there is to it: a scan that the deadlock detector has chosen is marked as its
victim (`Unfailing`), and then commit refuses it, although the 0 of `cursor->close` has
hidden the error by then.

`CpplintProofs` and `CpplintParserProofs`, for any headers, directories, triggers, files
and options:

| theorem | result |
|---|---|
| `LintTypes` | `TypeOK` |
| `CountsAreKept` | `CountsAgree` |
| `CommentsAreGone` | `CommentsGone` |
| `SuppressionsAreLocal` | `SuppressionIsLocal` |
| `NolintIsHeeded` | `NolintHolds` |
| `LongFunctionsAreShown` | `LongFunctionsShow` |
| `LastFiltersDecide` | `LastFilterDecides` |
| `LengthsAreCounted` | `LengthIsCounted` |
| `SectionIsTheHighest` | `SectionIsHighest` |
| `LastHeaderIsTheGreatest` | `LastHeaderIsGreatest` |
| `DepthsAreCounted` | `DepthIsCounted` |

`TypeInv` adds to the types the shape of the text (two markers, as many lines as
the file). `Uncommented` says that up to the line RemoveMultiLineComments has come to
the text is the file without its comments, and from there on the file as it was;
`TurnOfComments` is the reason, that a comment begun before this line has ended
before it. `NolintHolds` needs `Heeded`: every call of Error still to be made, and
every class still on the stack, is for a line whose NOLINT has been parsed
already. That is what the order of the checks is for, and the calls made before
any line is parsed (the copyright, the header guard) are for line 0 or parse the
line themselves.

`LongFunctionsShow` comes down to `LengthShows`: the level is at least the verbosity,
because the verbosity is one of the levels that the length reaches. All other
calls of Error have other categories (`RuleFindings`), and the verbosity does not change
between the check and the handler, as options are read before any file. The same
holds for the filters in `LastFilterDecides`, whose other half is `FoldSays`: the loop over
the filters says what the last covering one says.

The four theorems of `CpplintParserProofs` compare what a parser keeps from line to line with what the text up
to the line says. `LinesSeen` shows that only CheckStyle and CheckLanguage add to
the lines seen, one at a time, and a lemma about one line more does the rest:
`MeasuresMore` for functions, `SectionMore` and `RunMore` for the section and the
last header, `NestedMore` for the stack of classes. `Knows`, the invariant for `_IncludeState`, has to say besides that a
header counts as included if and only if a line before includes it; a line number of
0 stands for "not included", which is sound because line 0 is the marker
(`MarkerKept`, from `Uncommented`). `DepthIsCounted` is inductive once `Entry` says that every
entry of the stack was declared by a line seen (so that no entry but the top one
is without another class inside it), and that a class whose `{` is still to come
has counted nothing.

`FoldFacts` is what these proofs need to know of `FoldLeft` and `MapThenSumSet`, which the
community modules define by a recursive function on the subsets of a set. As the
library's induction theorems cannot be used here, its lemmas go by least
counterexamples (`LeastNumbers`): `FoldExists`, that there is such a function for a
finite set, without which nothing is known of it; `SumsInAnyOrder`, that a sum
does not depend on the order in which elements are taken; `SumsAgree`, that it does
not depend on the larger set either. `BracesMore`, the braces of one line more, and
`FoldSays` follow.

Left to TLC: the liveness properties (`EveryCallReturns`, `EveryRequestCallsBack`,
`LintEnds`), which are outside what the prover handles. `NoFault` and
`ZeroMeansExecuted` are false of careless scripts, as the runs show; for careful ones they are
`NoUseAfterClose` and `AnsweredWasExecuted`, which are proved. `AcknowledgedIsLogged`, `EveryNolintHolds` and
`AnsweredIsComplete` are refuted. Every other property of the runs is proved.

## Not modelled

Databases without transactions, beyond the request path of `AsyncRequests`;
secondary indices and encryption (one call each, foreign code); the table of
constants; the inside of Berkeley DB beyond the behaviour above: page splits,
cache eviction, log records, checkpoints' effect on recovery time, replication;
several processes sharing an environment; allocation failures in the
constructors. Of cpplint: the regular expressions, the rules that look at one
line, the elision of strings and comments within a line, GetHeaderGuardCPPVariable,
the texts of messages and usage, `--output`, and reading and decoding files.

## Plan

1. `CursorOps`: cursors without transactions (locks coupled from page to page), the
   lock's queue and with it the liveness of scans that cross in opposite
   directions.
2. `DbApi`: the wrappers' option handling (a 0 is taken for an absent option), and
   the settings of the environment with what each must precede.
3. Composition of `AsyncRequests` with `TxnOps`: a request's answer is that of the
   operation, in one specification, against an abstract asynchronous store.
4. Proofs: that the composition of 3 implements its abstract store, from the
   theorems about its two parts.
