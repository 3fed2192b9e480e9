----------------------------- MODULE AtomicStore -----------------------------
(***************************************************************************)
(* What the Db methods promise their callers: a map from keys to values on *)
(* which every get, put, putIf and del takes effect at one instant between *)
(* the call and its answer, an answer that reports an error has no effect, *)
(* except that DB_RUNRECOVERY leaves the caller in doubt, and a restart of *)
(* the process keeps exactly the operations that had taken effect before   *)
(* it.  One answer stands for nothing: that of a caller who was skipped.   *)
(*                                                                         *)
(* This is the abstract specification; TxnOps is the detailed one.         *)
(***************************************************************************)

CONSTANTS
    Threads,    \* callers: the eio pool's threads and the JavaScript thread
    Keys,       \* database keys
    Values,     \* the values a put may store
    None,       \* the contents of a key that is not in the database
    Ops         \* the operations callers may issue

VARIABLES
    store,      \* the contents of the database
    phase,      \* of each caller: "idle", "called" or "answered"
    skipped,    \* of each caller, whether its operation was answered unrun
    op,         \* the operation of each caller that is not idle
    status,     \* the return code a caller was answered
    value       \* the value a get was answered

vars == <<store, phase, skipped, op, status, value>>

Contents == Values \cup {None}

NoOp == [kind |-> "none", key |-> None, val |-> None, old |-> None, flags |-> "0"]

\* Return codes.  A caller that is refused must be able to tell.
OK == "0"
NOTFOUND == "DB_NOTFOUND"
KEYEXIST == "DB_KEYEXIST"
CONSISTENCY == "ConsistencyError"
DEADLOCK == "DB_LOCK_DEADLOCK"
RUNRECOVERY == "DB_RUNRECOVERY"
Refusals == {DEADLOCK, RUNRECOVERY, "EIO"}

(***************************************************************************)
(* The sequential meaning of one operation o on contents s.                *)
(***************************************************************************)
Outcome(o, s) ==
    LET present == s[o.key] # None
        refused == present /\ o.flags = "DB_NOOVERWRITE"
    IN  CASE o.kind = "get"   -> IF present THEN OK ELSE NOTFOUND
          [] o.kind = "put"   -> IF refused THEN KEYEXIST ELSE OK
          [] o.kind = "putIf" -> IF ~present THEN NOTFOUND
                                 ELSE IF s[o.key] # o.old THEN CONSISTENCY
                                 ELSE IF refused THEN KEYEXIST ELSE OK
          [] o.kind = "del"   -> IF present THEN OK ELSE NOTFOUND

Effect(o, s) ==
    IF Outcome(o, s) # OK \/ o.kind = "get" THEN s
    ELSE [s EXCEPT ![o.key] = IF o.kind = "del" THEN None ELSE o.val]

Init ==
    /\ store = [k \in Keys |-> None]
    /\ phase = [t \in Threads |-> "idle"]
    /\ skipped = [t \in Threads |-> FALSE]
    /\ op = [t \in Threads |-> NoOp]
    /\ status = [t \in Threads |-> OK]
    /\ value = [t \in Threads |-> None]

Call(t) ==
    /\ phase[t] = "idle"
    /\ \E o \in Ops : op' = [op EXCEPT ![t] = o]
    /\ phase' = [phase EXCEPT ![t] = "called"]
    /\ UNCHANGED <<store, skipped, status, value>>

\* The operation takes effect and its result is fixed, in one step.
Answer(t) ==
    /\ phase[t] = "called"
    /\ phase' = [phase EXCEPT ![t] = "answered"]
    /\ status' = [status EXCEPT ![t] = Outcome(op[t], store)]
    /\ value' = [value EXCEPT ![t] =
                    IF op[t].kind = "get" THEN store[op[t].key] ELSE None]
    /\ store' = Effect(op[t], store)
    /\ UNCHANGED <<skipped, op>>

\* The operation is given up: an error code, and no effect.
Refuse(t) ==
    /\ phase[t] = "called"
    /\ phase' = [phase EXCEPT ![t] = "answered"]
    /\ \E s \in Refusals : status' = [status EXCEPT ![t] = s]
    /\ UNCHANGED <<store, skipped, op, value>>

\* The operation takes effect, but the caller is told of a panic that leaves it
\* open (Refuse is the case where it takes none).
Doubt(t) ==
    /\ phase[t] = "called"
    /\ phase' = [phase EXCEPT ![t] = "answered"]
    /\ status' = [status EXCEPT ![t] = RUNRECOVERY]
    /\ store' = Effect(op[t], store)
    /\ UNCHANGED <<skipped, op, value>>

\* The operation is not run, and the caller is told 0, or the DB_LOCK_DEADLOCK
\* of an attempt before.
Skip(t) ==
    /\ phase[t] = "called"
    /\ phase' = [phase EXCEPT ![t] = "answered"]
    /\ skipped' = [skipped EXCEPT ![t] = TRUE]
    /\ \E s \in {OK, DEADLOCK} : status' = [status EXCEPT ![t] = s]
    /\ UNCHANGED <<store, op, value>>

Return(t) ==
    /\ phase[t] = "answered"
    /\ phase' = [phase EXCEPT ![t] = "idle"]
    /\ skipped' = [skipped EXCEPT ![t] = FALSE]
    /\ op' = [op EXCEPT ![t] = NoOp]
    /\ status' = [status EXCEPT ![t] = OK]
    /\ value' = [value EXCEPT ![t] = None]
    /\ UNCHANGED store

\* The process dies and starts again: pending calls are lost, the store is not.
Restart ==
    /\ phase' = [t \in Threads |-> "idle"]
    /\ skipped' = [t \in Threads |-> FALSE]
    /\ op' = [t \in Threads |-> NoOp]
    /\ status' = [t \in Threads |-> OK]
    /\ value' = [t \in Threads |-> None]
    /\ UNCHANGED store

Next ==
    \/ \E t \in Threads :
          Call(t) \/ Answer(t) \/ Refuse(t) \/ Doubt(t) \/ Skip(t) \/ Return(t)
    \/ Restart

Spec == Init /\ [][Next]_vars
=============================================================================
