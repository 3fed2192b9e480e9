------------------------------ MODULE MCTxnOps ------------------------------
(* Instances of TxnOps for TLC: operation sets, page layouts, symmetry.      *)
EXTENDS TxnOps, TLC

CONSTANTS w1, w2, js, k1, k2, v1, v2, p1

O(kind, k, v, old, flags) ==
    [kind |-> kind, key |-> k, val |-> v, old |-> old, flags |-> flags]

\* One operation of every kind and flag on one key.
OneKeyOps ==
    {O("get", k1, None, None, "0"), O("get", k1, None, None, "DB_RMW"),
     O("put", k1, v1, None, "0"), O("put", k1, v2, None, "DB_NOOVERWRITE"),
     O("putIf", k1, v2, v1, "0"), O("putIf", k1, v1, v2, "DB_NOOVERWRITE"),
     O("del", k1, None, None, "0")}

\* What three threads contend on: two keys of one page, so that operations on
\* different keys share locks; read-test-write, blind writes, read.
ContentionOps ==
    {O("get", k1, None, None, "0"), O("put", k1, v1, None, "0"),
     O("putIf", k1, v2, v1, "0"), O("put", k2, v1, None, "0")}

\* What can starve or deadlock: a read, a write, and a read that becomes a write.
WaitingOps ==
    {O("get", k1, None, None, "0"), O("put", k1, v1, None, "0"),
     O("putIf", k1, v1, v1, "0")}

OnePage == [k \in {k1} |-> p1]
SharedPage == [k \in {k1, k2} |-> p1]

WorkerSymmetry == Permutations({w1, w2})
=============================================================================
