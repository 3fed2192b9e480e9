-------------------------- MODULE CursorOpsProofs ---------------------------
(***************************************************************************)
(* TLAPS proofs about CursorOps, for any number of scanning threads,       *)
(* writers, keys and pages, any scans and every setting of the switches.   *)
(***************************************************************************)
EXTENDS CursorOps, LeastNumbers, FiniteSetTheorems

-----------------------------------------------------------------------------
(***************************************************************************)
(* Least and greatest keys.                                                *)
(***************************************************************************)
\* A finite set of natural numbers has a greatest element.
LEMMA GreatestExists ==
    ASSUME NEW S, S \subseteq Nat, S # {}, IsFiniteSet(S)
    PROVE  \E m \in S : \A j \in S : j <= m
<1> DEFINE Bad == {T \in SUBSET S : T # {} /\ ~\E m \in T : \A j \in T : j <= m}
           R == StrictSubsetOrdering(S)
<1> SUFFICES ASSUME Bad # {} PROVE FALSE
  OBVIOUS
<1>1. IsWellFoundedOn(R, SUBSET S)
  BY FS_StrictSubsetOrderingWellFounded, FS_FiniteSubsetsOfFinite
<1>2. PICK T \in Bad : \A U \in Bad : ~(<<U, T>> \in R)
  BY <1>1, WFMin
<1>3. PICK x \in T : TRUE
  BY <1>2
<1>4. T \ {x} \in SUBSET S /\ <<T \ {x}, T>> \in R
  BY <1>2, <1>3 DEF StrictSubsetOrdering
<1>5. T \ {x} \notin Bad
  BY <1>2, <1>4
<1>6. CASE T \ {x} = {}
  <2>1. \A j \in T : j = x
    BY <1>6
  <2>2. x \in Nat
    BY <1>2, <1>3
  <2> QED
    BY <1>2, <1>3, <2>1, <2>2
<1>7. CASE T \ {x} # {}
  <2>1. PICK m \in T \ {x} : \A j \in T \ {x} : j <= m
    BY <1>4, <1>5, <1>7
  <2>2. m \in Nat /\ x \in Nat /\ T \subseteq Nat
    BY <1>2, <1>3, <2>1
  <2>3. CASE x <= m
    BY <1>2, <2>1, <2>2, <2>3
  <2>4. CASE m <= x
    <3>1. \A j \in T : j <= x
      BY <2>1, <2>2, <2>4
    <3> QED
      BY <1>2, <1>3, <3>1
  <2> QED
    BY <2>2, <2>3, <2>4
<1> QED
  BY <1>6, <1>7

-----------------------------------------------------------------------------
(***************************************************************************)
(* What a scan has collected, compared with Expected.                      *)
(***************************************************************************)
Record == [key : Keys, val : Values]

\* The records rs are those that scan s passes first in contents c.
Passes(rs, s, c) ==
    /\ \A i \in 1 .. Len(rs) : c[rs[i].key] = rs[i].val
    /\ \A i, j \in 1 .. Len(rs) : i < j => Before(s, rs[i].key, rs[j].key)
    /\ rs # <<>> =>
          /\ rs[1].key \in Starts(s, c)
          /\ \A k \in Starts(s, c) : IF s.initFlag = "DB_LAST" THEN k <= rs[1].key
                                                               ELSE rs[1].key <= k
          /\ \A k \in Present(c) :
                ~Before(s, k, rs[1].key) /\ Before(s, k, rs[Len(rs)].key)
                   => \E i \in 1 .. Len(rs) : k = rs[i].key

\* The fields of records.
LEMMA RecordFacts ==
    ASSUME NEW rs \in Seq(Record)
    PROVE  /\ Len(rs) \in Nat
           /\ \A i \in 1 .. Len(rs) : /\ rs[i] \in Record /\ rs[i].key \in Keys
                                     /\ rs[i].key \in Nat /\ rs[i].val # None
           /\ rs # <<>> => 1 \in 1 .. Len(rs) /\ Len(rs) \in 1 .. Len(rs)
<1>1. Len(rs) \in Nat /\ \A i \in 1 .. Len(rs) : rs[i] \in Record
  OBVIOUS
<1>2. \A r \in Record : r.key \in Keys /\ r.key \in Nat /\ r.val # None
  BY ContentsAssumption, KeysAssumption DEF Record
<1>3. rs # <<>> => Len(rs) # 0
  OBVIOUS
<1> QED
  BY <1>1, <1>2, <1>3

\* The order of a scan, on its keys.
LEMMA BeforeOrders ==
    ASSUME NEW s, NEW i \in Nat, NEW j \in Nat
    PROVE  /\ ~Before(s, i, i)
           /\ Before(s, i, j) => ~Before(s, j, i)
           /\ i # j => Before(s, i, j) \/ Before(s, j, i)
           /\ \A k \in Nat : Before(s, i, j) /\ Before(s, j, k) => Before(s, i, k)
  BY DEF Before

\* The scan starts at the first record, and its run contains all of them.
LEMMA RunOf ==
    ASSUME NEW s, NEW c, NEW rs \in Seq(Record), Passes(rs, s, c), rs # <<>>
    PROVE  /\ Run(s, c) = {k \in Present(c) : ~Before(s, k, rs[1].key)}
           /\ \A i \in 1 .. Len(rs) : rs[i].key \in Run(s, c)
<1>0. Keys \subseteq Nat /\ Len(rs) \in Nat \ {0}
  BY KeysAssumption
<1>1. \A i \in 1 .. Len(rs) : rs[i].key \in Keys /\ rs[i].key \in Nat /\ rs[i].val # None
  BY RecordFacts
<1>2. Starts(s, c) \subseteq Keys /\ rs[1].key \in Starts(s, c)
  BY DEF Starts, Present, Passes
<1>3. StartOf(s, c) \in Starts(s, c) /\ \A j \in Starts(s, c) :
         IF s.initFlag = "DB_LAST" THEN j <= StartOf(s, c) ELSE StartOf(s, c) <= j
  BY <1>2 DEF StartOf, Passes
<1>4. StartOf(s, c) = rs[1].key
  <2>1. StartOf(s, c) \in Nat /\ rs[1].key \in Nat
    BY <1>0, <1>2, <1>3
  <2>2. CASE s.initFlag = "DB_LAST"
    <3>1. StartOf(s, c) <= rs[1].key /\ rs[1].key <= StartOf(s, c)
      BY <1>2, <1>3, <2>2 DEF Passes
    <3> QED
      BY <2>1, <3>1
  <2>3. CASE s.initFlag # "DB_LAST"
    <3>1. StartOf(s, c) <= rs[1].key /\ rs[1].key <= StartOf(s, c)
      BY <1>2, <1>3, <2>3 DEF Passes
    <3> QED
      BY <2>1, <3>1
  <2> QED
    BY <2>2, <2>3
<1>5. Run(s, c) = {k \in Present(c) : ~Before(s, k, rs[1].key)}
  BY <1>2, <1>4 DEF Run
<1>6. \A i \in 1 .. Len(rs) : rs[i].key \in Present(c)
  BY <1>1 DEF Present, Passes
<1>7. ASSUME NEW i \in 1 .. Len(rs) PROVE ~Before(s, rs[i].key, rs[1].key)
  <2>1. 1 \in 1 .. Len(rs) /\ rs[i].key \in Nat /\ rs[1].key \in Nat
    BY <1>0, <1>1
  <2>2. i = 1 \/ Before(s, rs[1].key, rs[i].key)
    BY <2>1 DEF Passes
  <2> QED
    BY <2>1, <2>2, BeforeOrders
<1> QED
  BY <1>5, <1>6, <1>7

\* The i-th record is the i-th of the run.
LEMMA NthIs ==
    ASSUME NEW s, NEW c, NEW rs \in Seq(Record), Passes(rs, s, c), rs # <<>>,
           NEW i \in 1 .. Len(rs)
    PROVE  Nth(s, Run(s, c), i) = rs[i].key
<1> DEFINE run == Run(s, c)
           earlier(k) == {j \in run : Before(s, j, k)}
           f == [m \in 1 .. i - 1 |-> rs[m].key]
<1>0. Keys \subseteq Nat /\ Len(rs) \in Nat \ {0} /\ i \in Nat /\ i - 1 \in Nat
  BY KeysAssumption
<1>1. \A m \in 1 .. Len(rs) : rs[m].key \in Keys /\ rs[m].key \in Nat
  BY RecordFacts
<1>2. run \subseteq Keys /\ run \subseteq Present(c) /\ IsFiniteSet(run)
      /\ \A m \in 1 .. Len(rs) : rs[m].key \in run
  BY RunOf, KeysAssumption, FS_Subset DEF Present
<1>3. f \in Bijection(1 .. i - 1, earlier(rs[i].key))
  <2>1. \A m \in 1 .. i - 1 : m \in 1 .. Len(rs) /\ m < i
    BY <1>0
  <2>2. \A m \in 1 .. i - 1 : rs[m].key \in earlier(rs[i].key)
    BY <1>2, <2>1 DEF Passes
  <2>3. ASSUME NEW m \in 1 .. i - 1, NEW n \in 1 .. i - 1, rs[m].key = rs[n].key PROVE m = n
    <3>1. rs[m].key \in Nat /\ m \in 1 .. Len(rs) /\ n \in 1 .. Len(rs)
      BY <1>0, <1>1, <2>1
    <3>2. ~(m < n) /\ ~(n < m)
      BY <2>3, <3>1, BeforeOrders DEF Passes
    <3> QED
      BY <3>1, <3>2
  <2>4. ASSUME NEW k \in earlier(rs[i].key) PROVE \E m \in 1 .. i - 1 : rs[m].key = k
    <3>1. k \in Present(c) /\ k \in Nat /\ ~Before(s, k, rs[1].key) /\ Before(s, k, rs[i].key)
      BY <1>0, <1>2, <2>4, RunOf
    <3>2. Before(s, k, rs[Len(rs)].key)
      <4>1. i = Len(rs) \/ Before(s, rs[i].key, rs[Len(rs)].key)
        BY <1>0 DEF Passes
      <4>2. rs[i].key \in Nat /\ rs[Len(rs)].key \in Nat
        BY <1>0, <1>1
      <4> QED
        BY <3>1, <4>1, <4>2, BeforeOrders
    <3>3. PICK m \in 1 .. Len(rs) : k = rs[m].key
      BY <3>1, <3>2 DEF Passes
    <3>4. ~Before(s, rs[i].key, k) /\ k # rs[i].key
      <4>1. rs[i].key \in Nat
        BY <1>1
      <4> QED
        BY <3>1, <4>1 DEF Before
    <3>5. m < i
      BY <1>0, <3>3, <3>4 DEF Passes
    <3> QED
      BY <1>0, <3>3, <3>5
  <2> HIDE DEF earlier
  <2>5. f \in [1 .. i - 1 -> earlier(rs[i].key)]
    BY <2>2
  <2>6. \A m, n \in 1 .. i - 1 : f[m] = f[n] => m = n
    BY <2>3
  <2>7. \A k \in earlier(rs[i].key) : \E m \in 1 .. i - 1 : f[m] = k
    BY <2>4
  <2> HIDE DEF f
  <2> QED
    BY <2>5, <2>6, <2>7 DEF Bijection, Injection, Surjection, IsInjective
<1>4. Cardinality(earlier(rs[i].key)) = i - 1
  <2>1. ExistsBijection(1 .. i - 1, earlier(rs[i].key))
    BY <1>3 DEF ExistsBijection
  <2> QED
    BY <1>0, <2>1, FS_CountingElements
<1>5. ASSUME NEW k \in run, Cardinality(earlier(k)) = i - 1 PROVE k = rs[i].key
  <2>0. k \in Nat /\ rs[i].key \in Nat /\ run \subseteq Nat /\ rs[i].key \in run
    BY <1>0, <1>1, <1>2
  <2>1. ASSUME NEW a \in run, NEW b \in run, Before(s, a, b)
        PROVE  Cardinality(earlier(a)) # Cardinality(earlier(b))
    <3>1. earlier(a) \in SUBSET earlier(b) /\ a \in earlier(b) /\ a \notin earlier(a)
      BY <2>0, <2>1, BeforeOrders
    <3>2. IsFiniteSet(earlier(b))
      BY <1>2, FS_Subset
    <3> QED
      BY <3>1, <3>2, FS_Subset
  <2> QED
    BY <1>4, <1>5, <2>0, <2>1, BeforeOrders
<1>6. \A k \in run : Cardinality({j \in run : Before(s, j, k)}) = i - 1 <=> k = rs[i].key
  BY <1>4, <1>5
<1> HIDE DEF run
<1>7. Nth(s, run, i) = CHOOSE k \in run : Cardinality({j \in run : Before(s, j, k)}) = i - 1
  BY DEF Nth
<1>8. Nth(s, run, i) \in run /\ Cardinality({j \in run : Before(s, j, Nth(s, run, i))}) = i - 1
  BY <1>2, <1>6, <1>7
<1>9. Nth(s, run, i) = rs[i].key
  BY <1>6, <1>8
<1> QED
  BY <1>9 DEF run

\* How many there are.
LEMMA RunSize ==
    ASSUME NEW s, NEW c, NEW rs \in Seq(Record), Passes(rs, s, c), rs # <<>>
    PROVE  /\ IsFiniteSet(Run(s, c)) /\ Cardinality(Run(s, c)) \in Nat
           /\ Len(rs) <= Cardinality(Run(s, c))
           /\ (\A k \in Run(s, c) : \E i \in 1 .. Len(rs) : k = rs[i].key)
                 => Len(rs) = Cardinality(Run(s, c))
<1> DEFINE run == Run(s, c)
           f == [m \in 1 .. Len(rs) |-> rs[m].key]
<1>1. Len(rs) \in Nat /\ \A m \in 1 .. Len(rs) : rs[m].key \in Nat
  BY RecordFacts
<1>2. IsFiniteSet(run) /\ Cardinality(run) \in Nat /\ \A m \in 1 .. Len(rs) : rs[m].key \in run
  <2>1. run \in SUBSET Keys
    BY RunOf DEF Present
  <2> QED
    BY <2>1, RunOf, KeysAssumption, FS_Subset, FS_CardinalityType
<1>3. ASSUME NEW m \in 1 .. Len(rs), NEW n \in 1 .. Len(rs), rs[m].key = rs[n].key PROVE m = n
  <2>1. rs[m].key \in Nat /\ m \in Nat /\ n \in Nat
    BY <1>1
  <2>2. ~(m < n) /\ ~(n < m)
    BY <1>3, <2>1, BeforeOrders DEF Passes
  <2> QED
    BY <2>1, <2>2
<1> HIDE DEF run
<1>4. f \in [1 .. Len(rs) -> run]
  BY <1>2
<1>5. \A m, n \in 1 .. Len(rs) : f[m] = f[n] => m = n
  BY <1>3
<1>6. (\A k \in run : \E i \in 1 .. Len(rs) : k = rs[i].key)
         => \A k \in run : \E m \in 1 .. Len(rs) : f[m] = k
  OBVIOUS
<1> HIDE DEF f
<1>7. f \in Injection(1 .. Len(rs), run)
  BY <1>4, <1>5 DEF Injection, IsInjective
<1>8. Cardinality(1 .. Len(rs)) = Len(rs)
  BY <1>1, FS_Interval
<1>9. Len(rs) <= Cardinality(run) /\ (Len(rs) = Cardinality(run) <=> f \in Surjection(1 .. Len(rs), run))
  BY <1>2, <1>7, <1>8, FS_Injection
<1>10. (\A k \in run : \E i \in 1 .. Len(rs) : k = rs[i].key) => f \in Surjection(1 .. Len(rs), run)
  BY <1>4, <1>6 DEF Surjection
<1> QED
  BY <1>2, <1>9, <1>10 DEF run

\* A limit is a number, and at least one record is asked for.
LEMMA LimitFacts ==
    ASSUME NEW s \in Scans
    PROVE  Limit(s) \in Nat \ {0}
<1>1. s \in Scan
  BY ScansAssumption
<1>2. s.limit \in Nat
  BY <1>1 DEF Scan
<1> QED
  BY <1>2 DEF Limit

\* The run is a finite set of keys.
LEMMA RunFacts ==
    ASSUME NEW s, NEW c
    PROVE  /\ Run(s, c) \subseteq Keys
           /\ IsFiniteSet(Run(s, c)) /\ Cardinality(Run(s, c)) \in Nat
<1>1. Run(s, c) \in SUBSET Keys
  BY DEF Run, Present
<1> QED
  BY <1>1, KeysAssumption, FS_Subset, FS_CardinalityType

\* The records a scan passes first begin the answer.
LEMMA PassedIsPrefix ==
    ASSUME NEW s \in Scans, NEW c, NEW rs \in Seq(Record), Passes(rs, s, c), Len(rs) <= Limit(s)
    PROVE  IsPrefix(rs, Expected(s, c))
<1> DEFINE run == Run(s, c)
           e == Expected(s, c)
<1>0. Limit(s) \in Nat /\ Cardinality(run) \in Nat /\ Size(s, run) \in Nat
  BY LimitFacts, RunFacts DEF Size
<1>1. e = [i \in 1 .. Size(s, run) |-> [key |-> Nth(s, run, i), val |-> c[Nth(s, run, i)]]]
  BY DEF Expected
<1> HIDE DEF run, e
<1>2. Len(e) = Size(s, run) /\ \A n \in 0 .. Size(s, run) : SubSeq(e, 1, n) = [i \in 1 .. n |-> e[i]]
  BY <1>0, <1>1
<1>3. Len(rs) \in Nat /\ SubSeq(rs, 1, Len(rs)) = [i \in 1 .. Len(rs) |-> rs[i]]
  OBVIOUS
<1>4. Len(rs) <= Size(s, run)
  <2>1. CASE rs = <<>>
    BY <1>0, <2>1
  <2>2. CASE rs # <<>>
    <3>1. Len(rs) <= Cardinality(run)
      BY <2>2, RunSize DEF run
    <3> QED
      BY <1>0, <3>1 DEF Size
  <2> QED
    BY <2>1, <2>2
<1>5. ASSUME NEW i \in 1 .. Len(rs) PROVE e[i] = rs[i]
  <2>1. rs # <<>> /\ i \in 1 .. Size(s, run)
    BY <1>0, <1>3, <1>4
  <2>2. Nth(s, run, i) = rs[i].key
    BY <2>1, NthIs DEF run
  <2>3. rs[i] \in Record /\ c[rs[i].key] = rs[i].val
    BY RecordFacts DEF Passes
  <2>4. rs[i] = [key |-> rs[i].key, val |-> rs[i].val]
    BY <2>3 DEF Record
  <2> QED
    BY <1>1, <2>1, <2>2, <2>3, <2>4
<1>6. SubSeq(e, 1, Len(rs)) = [i \in 1 .. Len(rs) |-> e[i]]
  BY <1>0, <1>2, <1>3, <1>4
<1> QED
  BY <1>2, <1>3, <1>4, <1>5, <1>6 DEF IsPrefix, e

\* They are the whole answer if there are as many as limit says, or no more to
\* pass.
LEMMA PassedIsAll ==
    ASSUME NEW s \in Scans, NEW c, NEW rs \in Seq(Record), Passes(rs, s, c), Len(rs) <= Limit(s),
           \/ Len(rs) = Limit(s)
           \/ rs = <<>> /\ Starts(s, c) = {}
           \/ rs # <<>> /\ \A k \in Present(c) : ~Before(s, rs[Len(rs)].key, k)
    PROVE  rs = Expected(s, c)
<1> DEFINE run == Run(s, c)
           e == Expected(s, c)
<1>0. Limit(s) \in Nat \ {0} /\ Cardinality(run) \in Nat /\ Size(s, run) \in Nat
  BY LimitFacts, RunFacts DEF Size
<1>1. e = [i \in 1 .. Size(s, run) |-> [key |-> Nth(s, run, i), val |-> c[Nth(s, run, i)]]]
  BY DEF Expected
<1>2. IsPrefix(rs, e)
  BY PassedIsPrefix
<1> HIDE DEF e
<1>3. Len(e) = Size(s, run) /\ Len(rs) \in Nat
  BY <1>0, <1>1
<1>4. Len(rs) <= Size(s, run)
  BY <1>2, <1>3 DEF IsPrefix
<1>5. Size(s, run) <= Len(rs)
  <2>1. CASE Len(rs) = Limit(s)
    BY <1>0, <2>1 DEF Size
  <2>2. CASE rs = <<>> /\ Starts(s, c) = {}
    <3>1. Cardinality(run) = 0
      BY <2>2, FS_EmptySet DEF Run
    <3> QED
      BY <1>0, <1>3, <3>1 DEF Size
  <2>3. CASE rs # <<>> /\ \A k \in Present(c) : ~Before(s, rs[Len(rs)].key, k)
    <3>1. ASSUME NEW k \in Run(s, c) PROVE \E i \in 1 .. Len(rs) : k = rs[i].key
      <4>1. k \in Present(c) /\ k \in Nat /\ ~Before(s, k, rs[1].key)
        <5>1. Run(s, c) = {j \in Present(c) : ~Before(s, j, rs[1].key)}
          BY <2>3, RunOf
        <5> QED
          BY <3>1, <5>1, KeysAssumption DEF Present
      <4>2. Len(rs) \in 1 .. Len(rs) /\ rs[Len(rs)].key \in Nat
        BY <2>3, RecordFacts
      <4>3. k = rs[Len(rs)].key \/ Before(s, k, rs[Len(rs)].key)
        BY <2>3, <4>1, <4>2, BeforeOrders
      <4> QED
        BY <2>3, <4>1, <4>2, <4>3 DEF Passes
    <3>2. Len(rs) = Cardinality(run)
      BY <2>3, <3>1, RunSize
    <3> QED
      BY <1>0, <3>2 DEF Size
  <2> QED
    BY <2>1, <2>2, <2>3
<1>6. Len(rs) = Len(e)
  BY <1>0, <1>3, <1>4, <1>5
<1>7. SubSeq(e, 1, Len(e)) = e
  <2>1. e = [i \in 1 .. Len(e) |-> e[i]] /\ Len(e) \in Nat
    BY <1>0, <1>1, <1>3
  <2> QED
    BY <2>1
<1>8. SubSeq(rs, 1, Len(rs)) = rs
  OBVIOUS
<1> QED
  BY <1>2, <1>6, <1>7, <1>8 DEF IsPrefix, e

-----------------------------------------------------------------------------
(***************************************************************************)
(* The inductive invariant.                                                *)
(***************************************************************************)
Typed ==
    /\ store \in [Keys -> Contents] /\ committed \in [Keys -> Contents]
    /\ writing \in [Writers -> Keys \cup {None}]
    /\ rlock \in [1 .. Pages -> SUBSET Threads]
    /\ pc \in [Threads -> {"idle", "begin", "cursor", "get", "close", "end", "out"}]
    /\ scan \in [Threads -> Scans \cup {NoScan}]
    /\ txn \in [Threads -> BOOLEAN] /\ deadlocked \in [Threads -> BOOLEAN]
    /\ cursor \in [Threads -> BOOLEAN]
    /\ page \in [Threads -> 0 .. Pages]
    /\ rc \in [Threads -> {OK, NOTFOUND, DEADLOCK, EIO}]
    /\ status \in [Threads -> {OK, NOTFOUND, EINVAL, EIO}]
    /\ records \in [Threads -> Seq(Record)]

\* What a thread has at each step of a scan.
InTxn == {"cursor", "get", "close", "end"}
Control(t) ==
    /\ txn[t] <=> pc[t] \in InTxn
    /\ cursor[t] <=> pc[t] \in {"get", "close"}
    /\ deadlocked[t] => pc[t] \in {"close", "end"} /\ rc[t] = DEADLOCK
    /\ pc[t] # "idle" => scan[t] \in Scans
    /\ pc[t] \in {"idle", "begin", "cursor"} => records[t] = <<>> /\ page[t] = 0
    /\ \A p \in 1 .. Pages : t \in rlock[p] => pc[t] \in InTxn

\* The loop's test: the scan goes on only below the limit.
Limited(t) ==
    /\ Len(records[t]) <= Limit(scan[t])
    /\ pc[t] = "get" => records[t] = <<>> \/ Len(records[t]) < scan[t].limit
    /\ pc[t] \in {"close", "end"} =>
          /\ rc[t] = OK => Len(records[t]) = Limit(scan[t])
          /\ rc[t] = NOTFOUND => Len(records[t]) < Limit(scan[t])

\* Two-phase locking: a page is not written while it is read-locked, and contents
\* that no live transaction has written are committed.
Exclusive ==
    \A w \in Writers : writing[w] # None => rlock[PageOf[writing[w]]] = {}
Clean ==
    \A k \in Keys : (\A w \in Writers : writing[w] # k) => store[k] = committed[k]

\* The scan has locked k's page and there is no record.
Absent(t, k) == t \in rlock[PageOf[k]] /\ store[k] = None

\* The keys that the first call of scan s may answer with.
Seek(s) == CASE s.initFlag = "DB_SET" -> {s.key}
             [] s.initFlag = "DB_SET_RANGE" -> {k \in Keys : k >= s.key}
             [] OTHER -> Keys

\* The records of a scan are still there, and between them, and before the
\* first, there is nothing.
Collected(t) ==
    LET rs == records[t] s == scan[t] IN
    /\ \A i \in 1 .. Len(rs) : t \in rlock[PageOf[rs[i].key]] /\ store[rs[i].key] = rs[i].val
    /\ \A i, j \in 1 .. Len(rs) : i < j => Before(s, rs[i].key, rs[j].key)
    /\ rs # <<>> =>
          /\ rs[1].key \in Seek(s)
          /\ \A k \in Seek(s) : (IF s.initFlag = "DB_LAST" THEN k > rs[1].key ELSE k < rs[1].key)
                                 => Absent(t, k)
          /\ \A k \in Keys :
                ~Before(s, k, rs[1].key) /\ Before(s, k, rs[Len(rs)].key)
                   => Absent(t, k) \/ \E i \in 1 .. Len(rs) : k = rs[i].key

\* The scan comes to page p before it comes to page q.
Ahead(t, p, q) == IF Backward(t) THEN p > q ELSE p < q

\* Nothing that the present call seeks is on a page the cursor has left, and
\* nothing at all once it has answered DB_NOTFOUND.
Position(t) ==
    /\ page[t] # 0 => t \in rlock[page[t]]
    /\ records[t] # <<>> => page[t] # 0
    /\ First(t) /\ scan[t].initFlag = "DB_SET" /\ page[t] # 0 => page[t] = PageOf[scan[t].key]
    /\ page[t] # 0 => \A k \in Sought(t) : Ahead(t, PageOf[k], page[t]) => Absent(t, k)
    /\ pc[t] \in {"close", "end"} /\ rc[t] = NOTFOUND => \A k \in Sought(t) : Absent(t, k)

IInv ==
    /\ Typed /\ Exclusive /\ Clean
    /\ \A t \in Threads : Control(t) /\ Limited(t)
    /\ \A t \in Threads : pc[t] \in InTxn => Collected(t) /\ Position(t)

-----------------------------------------------------------------------------
(***************************************************************************)
(* Types.                                                                  *)
(***************************************************************************)
\* The initial values have their types.
LEMMA InitTyped == Init => Typed
  BY PagesAssumption DEF Init, Typed, Contents, OK

\* The record that Got collects.
LEMMA NearestFound ==
    ASSUME Typed, NEW t \in Threads, Found(t) # {}, Sought(t) \subseteq Keys
    PROVE  /\ Nearest(t) \in Found(t) /\ Nearest(t) \in Keys /\ Nearest(t) \in Nat
           /\ \A j \in Found(t) : IF Backward(t) THEN j <= Nearest(t) ELSE Nearest(t) <= j
           /\ [key |-> Nearest(t), val |-> store[Nearest(t)]] \in Record
<1>1. Found(t) \in SUBSET Keys /\ IsFiniteSet(Found(t)) /\ Found(t) \subseteq Nat
  BY KeysAssumption, FS_Subset DEF Found
<1>2. \E k \in Found(t) : \A j \in Found(t) : IF Backward(t) THEN j <= k ELSE k <= j
  BY <1>1, LeastExists, GreatestExists
<1>3. /\ Nearest(t) \in Found(t)
      /\ \A j \in Found(t) : IF Backward(t) THEN j <= Nearest(t) ELSE Nearest(t) <= j
  BY <1>2 DEF Nearest
<1>4. store[Nearest(t)] \in Values
  BY <1>1, <1>3 DEF Typed, Found, Contents
<1> QED
  BY <1>1, <1>3, <1>4 DEF Record

\* What a call seeks are keys.
LEMMA SoughtKeys ==
    ASSUME NEW t \in Threads, scan[t] \in Scans
    PROVE  Sought(t) \subseteq Keys /\ (First(t) => Sought(t) = Seek(scan[t])) /\ scan[t].key \in Keys
<1>1. scan[t] \in Scan
  BY ScansAssumption
<1>2. scan[t].key \in Keys
  BY <1>1 DEF Scan
<1>3. First(t) => Sought(t) = Seek(scan[t])
  BY DEF Sought, Seek
<1>4. Seek(scan[t]) \subseteq Keys
  BY <1>2 DEF Seek
<1> QED
  BY <1>2, <1>3, <1>4 DEF Sought

\* A page the cursor may go to is a page.
LEMMA NextPageIs ==
    ASSUME Typed, NEW t \in Threads, scan[t] \in Scans, NEW p \in NextPage(t)
    PROVE  p \in 1 .. Pages
<1>1. PageOf[scan[t].key] \in 1 .. Pages
  BY SoughtKeys, PagesAssumption
<1>2. 1 \in 1 .. Pages /\ Pages \in 1 .. Pages
  BY PagesAssumption
<1> QED
  BY <1>1, <1>2 DEF NextPage

\* Every step keeps the types.
LEMMA NextTyped ==
    ASSUME Typed, \A t \in Threads : Control(t), Next
    PROVE  Typed'
<1> USE DEF Typed, database, calls, Goto
<1>1. ASSUME NEW w \in Writers, NEW k \in Keys, NEW c \in Contents, Write(w, k, c) PROVE Typed'
  BY <1>1 DEF Write
<1>2. ASSUME NEW w \in Writers, CommitWrite(w) PROVE Typed'
  BY <1>2 DEF CommitWrite
<1>3. ASSUME NEW w \in Writers, AbortWrite(w) PROVE Typed'
  BY <1>3 DEF AbortWrite
<1>4. ASSUME NEW t \in Threads, Start(t) PROVE Typed'
  BY <1>4 DEF Start
<1>5. ASSUME NEW t \in Threads, TxnBegin(t) \/ TxnBeginFails(t) \/ DbCursor(t) PROVE Typed'
  <2>1. CASE TxnBegin(t)
    BY <2>1 DEF TxnBegin
  <2>2. CASE TxnBeginFails(t)
    BY <2>2 DEF TxnBeginFails
  <2>3. CASE DbCursor(t)
    BY <2>3 DEF DbCursor
  <2> QED
    BY <1>5, <2>1, <2>2, <2>3
<1>6. ASSUME NEW t \in Threads, DbCursorFails(t) \/ NotFound(t) \/ GetFails(t) PROVE Typed'
  <2>1. CASE DbCursorFails(t)
    BY <2>1 DEF DbCursorFails
  <2>2. CASE NotFound(t)
    BY <2>2 DEF NotFound
  <2>3. CASE GetFails(t)
    BY <2>3 DEF GetFails
  <2> QED
    BY <1>6, <2>1, <2>2, <2>3
<1>7. ASSUME NEW t \in Threads, LockPage(t) PROVE Typed'
  <2>1. PICK p \in NextPage(t) : /\ rlock' = [rlock EXCEPT ![p] = @ \cup {t}]
                                 /\ page' = [page EXCEPT ![t] = p]
    BY <1>7 DEF LockPage
  <2>2. p \in 1 .. Pages
    BY <1>7, NextPageIs DEF LockPage, Getting, Control
  <2>3. rlock' \in [1 .. Pages -> SUBSET Threads]
    BY <2>1, <2>2
  <2>4. page' \in [Threads -> 0 .. Pages]
    BY <2>1, <2>2, PagesAssumption
  <2> QED
    BY <1>7, <2>3, <2>4 DEF LockPage
<1>8. ASSUME NEW t \in Threads, NEW by, LockDenied(t, by) PROVE Typed'
  <2>1. deadlocked' = [deadlocked EXCEPT ![t] = by = "detector"] /\ (by = "detector") \in BOOLEAN
    BY <1>8 DEF LockDenied
  <2>2. deadlocked' \in [Threads -> BOOLEAN]
    BY <2>1, Zenon
  <2> QED
    BY <1>8, <2>2 DEF LockDenied
<1>9. ASSUME NEW t \in Threads, Got(t) PROVE Typed'
  <2>1. Found(t) # {} /\ Sought(t) \subseteq Keys
    BY <1>9, SoughtKeys DEF Got, Control
  <2>2. [key |-> Nearest(t), val |-> store[Nearest(t)]] \in Record
    BY <2>1, NearestFound
  <2>3. records' = [records EXCEPT ![t] =
                       Append(records[t], [key |-> Nearest(t), val |-> store[Nearest(t)]])]
    BY <1>9 DEF Got
  <2>4. records' \in [Threads -> Seq(Record)]
    BY <2>2, <2>3
  <2>5. pc' \in [Threads -> {"idle", "begin", "cursor", "get", "close", "end", "out"}]
    BY <1>9 DEF Got
  <2>6. rc' \in [Threads -> {OK, NOTFOUND, DEADLOCK, EIO}]
    BY <1>9 DEF Got
  <2> QED
    BY <1>9, <2>4, <2>5, <2>6 DEF Got
<1>10. ASSUME NEW t \in Threads, Close(t) PROVE Typed'
  <2>1. status' \in [Threads -> {OK, NOTFOUND, EINVAL, EIO}]
    BY <1>10 DEF Close
  <2> QED
    BY <1>10, <2>1 DEF Close
<1>11. ASSUME NEW t \in Threads, EndTxn(t)
       PROVE  /\ rlock' \in [1 .. Pages -> SUBSET Threads]
              /\ txn' \in [Threads -> BOOLEAN] /\ deadlocked' \in [Threads -> BOOLEAN]
  BY <1>11 DEF EndTxn
<1>12. ASSUME NEW t \in Threads, Commit(t) PROVE Typed'
  <2>1. Answer(t) \in {OK, NOTFOUND}
    BY DEF Answer
  <2>2. status' \in [Threads -> {OK, NOTFOUND, EINVAL, EIO}]
    BY <1>12, <2>1 DEF Commit
  <2> QED
    BY <1>11, <1>12, <2>2 DEF Commit
<1>13. ASSUME NEW t \in Threads, CommitRefused(t) \/ Abort(t) PROVE Typed'
  BY <1>11, <1>13 DEF CommitRefused, Abort
<1>14. ASSUME NEW t \in Threads, Return(t) PROVE Typed'
  BY <1>14, PagesAssumption DEF Return
<1> QED
  BY <1>1, <1>2, <1>3, <1>4, <1>5, <1>6, <1>7, <1>8, <1>9, <1>10, <1>12, <1>13, <1>14
     DEF Next, EIO_CursorGet, CursorGetS

-----------------------------------------------------------------------------
(***************************************************************************)
(* Control and the limit.                                                  *)
(***************************************************************************)
WriterStep(w) ==
    (\E k \in Keys, c \in Contents : Write(w, k, c)) \/ CommitWrite(w) \/ AbortWrite(w)

\* The steps of a thread that scans, before TXN_END and from there on.
Scanning(t) ==
    \/ TxnBegin(t) \/ DbCursor(t) \/ DbCursorFails(t) \/ LockPage(t) \/ Got(t) \/ NotFound(t)
    \/ GetFails(t) \/ (\E by \in {"detector", "timeout"} : LockDenied(t, by)) \/ Close(t)
Ending(t) ==
    Start(t) \/ TxnBeginFails(t) \/ Commit(t) \/ CommitRefused(t) \/ Abort(t) \/ Return(t)

\* A step leaves the scan of thread t alone.
Untouched(t) ==
    /\ pc'[t] = pc[t] /\ scan'[t] = scan[t] /\ txn'[t] = txn[t] /\ cursor'[t] = cursor[t]
    /\ deadlocked'[t] = deadlocked[t]
    /\ page'[t] = page[t] /\ rc'[t] = rc[t] /\ records'[t] = records[t]
    /\ \A p \in 1 .. Pages : t \in rlock'[p] <=> t \in rlock[p]

\* The steps of the system.
LEMMA Steps ==
    ASSUME Next
    PROVE  (\E w \in Writers : WriterStep(w)) \/ \E t \in Threads : Scanning(t) \/ Ending(t)
  BY DEF Next, WriterStep, Scanning, Ending, EIO_CursorGet, CursorGetS

\* Writers leave scans alone, ...
LEMMA WritersApart ==
    ASSUME NEW w \in Writers, WriterStep(w), NEW t \in Threads
    PROVE  Untouched(t) /\ rlock' = rlock
  BY DEF WriterStep, Write, CommitWrite, AbortWrite, calls, Untouched

\* ... and so do other scans; no scan changes the database.
LEMMA ScansApart ==
    ASSUME Typed, \A x \in Threads : Control(x), NEW u \in Threads, Scanning(u) \/ Ending(u)
    PROVE  UNCHANGED database /\ \A t \in Threads : t # u => Untouched(t)
<1> USE DEF Typed, Goto, calls
<1> DEFINE Goal == UNCHANGED database /\ \A t \in Threads : t # u => Untouched(t)
<1>1. CASE TxnBegin(u)
  BY <1>1 DEF TxnBegin, Untouched
<1>2. CASE DbCursor(u)
  BY <1>2 DEF DbCursor, Untouched
<1>3. CASE DbCursorFails(u)
  BY <1>3 DEF DbCursorFails, Untouched
<1>4. CASE LockPage(u)
  <2>1. PICK p \in NextPage(u) : /\ rlock' = [rlock EXCEPT ![p] = @ \cup {u}]
                                 /\ page' = [page EXCEPT ![u] = p]
    BY <1>4 DEF LockPage
  <2>2. p \in 1 .. Pages
    BY <1>4, NextPageIs DEF LockPage, Getting, Control
  <2>3. \A t \in Threads : t # u => \A q \in 1 .. Pages : t \in rlock'[q] <=> t \in rlock[q]
    BY <2>1, <2>2
  <2>4. \A t \in Threads : t # u => page'[t] = page[t]
    BY <2>1
  <2> QED
    BY <1>4, <2>3, <2>4 DEF LockPage, Untouched
<1>5. CASE Got(u)
  <2>1. \A t \in Threads : t # u =>
           pc'[t] = pc[t] /\ rc'[t] = rc[t] /\ records'[t] = records[t]
    BY <1>5 DEF Got
  <2> QED
    BY <1>5, <2>1 DEF Got, Untouched
<1>6. CASE NotFound(u)
  BY <1>6 DEF NotFound, Untouched
<1>7. CASE GetFails(u)
  BY <1>7 DEF GetFails, Untouched
<1>8. ASSUME NEW by, LockDenied(u, by) PROVE Goal
  <2>1. \A t \in Threads : t # u =>
           pc'[t] = pc[t] /\ rc'[t] = rc[t] /\ deadlocked'[t] = deadlocked[t]
    BY <1>8 DEF LockDenied
  <2> QED
    BY <1>8, <2>1 DEF LockDenied, Untouched
<1>9. CASE Close(u)
  BY <1>9 DEF Close, Untouched
<1>10. CASE Start(u)
  BY <1>10 DEF Start, Untouched
<1>11. CASE TxnBeginFails(u)
  BY <1>11 DEF TxnBeginFails, Untouched
<1>12. CASE Commit(u) \/ CommitRefused(u) \/ Abort(u)
  <2>1. EndTxn(u) /\ pc' = [pc EXCEPT ![u] = "out"] /\ UNCHANGED <<database, scan, calls>>
    BY <1>12 DEF Commit, CommitRefused, Abort
  <2>2. \A t \in Threads : t # u =>
           /\ txn'[t] = txn[t] /\ deadlocked'[t] = deadlocked[t]
           /\ \A p \in 1 .. Pages : t \in rlock'[p] <=> t \in rlock[p]
    BY <2>1 DEF EndTxn
  <2> QED
    BY <2>1, <2>2 DEF Untouched
<1>13. CASE Return(u)
  BY <1>13 DEF Return, Untouched
<1> QED
  BY <1>1, <1>2, <1>3, <1>4, <1>5, <1>6, <1>7, <1>8, <1>9, <1>10, <1>11, <1>12, <1>13
     DEF Scanning, Ending

\* Each step takes its own scan from one step of the function to the next.
LEMMA NextControl ==
    ASSUME Typed, \A x \in Threads : Control(x) /\ Limited(x),
           NEW t \in Threads, Scanning(t) \/ Ending(t)
    PROVE  Control(t)' /\ Limited(t)'
<1> USE DEF Typed, Goto, calls, InTxn
<1>0. Control(t) /\ Limited(t) /\ records[t] \in Seq(Record)
  OBVIOUS
<1>1. CASE TxnBegin(t)
  BY <1>0, <1>1 DEF TxnBegin, Control, Limited
<1>2. CASE DbCursor(t)
  BY <1>0, <1>2 DEF DbCursor, Control, Limited
<1>3. CASE DbCursorFails(t)
  BY <1>0, <1>3 DEF DbCursorFails, Control, Limited, OK, NOTFOUND, EIO, DEADLOCK
<1>4. CASE LockPage(t)
  BY <1>0, <1>4 DEF LockPage, Getting, Control, Limited
<1>5. CASE Got(t)
  <2>1. scan[t] \in Scans /\ pc[t] = "get"
    BY <1>0, <1>5 DEF Got, Control
  <2>2. scan[t] \in Scan
    BY <2>1, ScansAssumption
  <2>3. scan[t].limit \in Nat
    BY <2>2 DEF Scan
  <2>4. Len(records[t]) \in Nat /\ (records[t] = <<>> => Len(records[t]) = 0)
    BY <1>0
  <2>5. /\ pc'[t] = IF More(t, Len(records[t]) + 1) THEN "get" ELSE "close"
        /\ records'[t] = Append(records[t], [key |-> Nearest(t), val |-> store[Nearest(t)]])
        /\ rc'[t] = OK
        /\ UNCHANGED <<database, rlock, scan, txn, deadlocked, cursor, page, status>>
    BY <1>5 DEF Got
  <2>6. Len(records'[t]) = Len(records[t]) + 1
    <3>1. Sought(t) \subseteq Keys /\ Found(t) # {}
      BY <2>1, <1>5, SoughtKeys DEF Got
    <3>2. [key |-> Nearest(t), val |-> store[Nearest(t)]] \in Record
      BY <3>1, NearestFound
    <3> QED
      BY <1>0, <2>5, <3>2
  <2>7. Limited(t)'
    BY <1>0, <2>1, <2>3, <2>4, <2>5, <2>6 DEF Limited, Limit, More, OK, NOTFOUND
  <2>8. Control(t)'
    BY <1>0, <2>1, <2>5 DEF Control
  <2> QED
    BY <2>7, <2>8
<1>6. CASE NotFound(t)
  <2>1. scan[t] \in Scans /\ pc[t] = "get"
    BY <1>0, <1>6 DEF NotFound, Getting, Control
  <2>2. scan[t] \in Scan
    BY <2>1, ScansAssumption
  <2>3. scan[t].limit \in Nat
    BY <2>2 DEF Scan
  <2>4. Len(records[t]) < Limit(scan[t])
    BY <1>0, <2>1, <2>3 DEF Limited, Limit
  <2> QED
    BY <1>0, <1>6, <2>4 DEF NotFound, Getting, Control, Limited, OK, NOTFOUND, DEADLOCK
<1>7. CASE GetFails(t)
  BY <1>0, <1>7 DEF GetFails, Control, Limited, OK, NOTFOUND, EIO, DEADLOCK
<1>8. ASSUME NEW by, LockDenied(t, by) PROVE Control(t)' /\ Limited(t)'
  BY <1>0, <1>8 DEF LockDenied, Getting, Control, Limited, OK, NOTFOUND, DEADLOCK
<1>9. CASE Close(t)
  BY <1>0, <1>9 DEF Close, Control, Limited
<1>10. CASE Start(t)
  <2>1. PICK s \in Scans : scan' = [scan EXCEPT ![t] = s]
    BY <1>10 DEF Start
  <2>2. scan'[t] = s /\ Limit(s) \in Nat /\ records[t] = <<>> /\ Len(records[t]) = 0
    BY <1>0, <1>10, <2>1, LimitFacts DEF Start, Control
  <2>3. Limited(t)'
    BY <1>10, <2>2 DEF Start, Limited
  <2> QED
    BY <1>0, <1>10, <2>2, <2>3 DEF Start, Control
<1>11. CASE TxnBeginFails(t)
  BY <1>0, <1>11 DEF TxnBeginFails, Control, Limited
<1>12. CASE Commit(t) \/ CommitRefused(t) \/ Abort(t)
  <2>1. EndTxn(t) /\ pc[t] = "end" /\ pc' = [pc EXCEPT ![t] = "out"] /\ UNCHANGED <<scan, calls>>
    BY <1>12 DEF Commit, CommitRefused, Abort
  <2>2. ~txn'[t] /\ ~deadlocked'[t] /\ \A p \in 1 .. Pages : t \notin rlock'[p]
    BY <2>1 DEF EndTxn
  <2> QED
    BY <1>0, <2>1, <2>2 DEF Control, Limited
<1>13. CASE Return(t)
  <2>1. Limited(t)'
    BY <1>13 DEF Return, Limited, Limit, NoScan
  <2> QED
    BY <1>0, <1>13, <2>1 DEF Return, Control
<1> QED
  BY <1>1, <1>2, <1>3, <1>4, <1>5, <1>6, <1>7, <1>8, <1>9, <1>10, <1>11, <1>12, <1>13
     DEF Scanning, Ending

-----------------------------------------------------------------------------
(***************************************************************************)
(* The locks, and what they protect.                                       *)
(***************************************************************************)
\* Every step keeps the two phases apart.
LEMMA NextLocks ==
    ASSUME Typed, Exclusive, Clean, \A t \in Threads : Control(t), Next
    PROVE  Exclusive' /\ Clean'
<1> USE ContentsAssumption DEF Typed
<1>1. ASSUME NEW w \in Writers, NEW k \in Keys, NEW c \in Contents, Write(w, k, c)
      PROVE  Exclusive' /\ Clean'
  <2>1. /\ rlock[PageOf[k]] = {} /\ writing[w] = None
        /\ store' = [store EXCEPT ![k] = c] /\ writing' = [writing EXCEPT ![w] = k]
        /\ UNCHANGED <<committed, rlock>>
    BY <1>1 DEF Write
  <2>2. Exclusive'
    BY <2>1 DEF Exclusive
  <2>3. ASSUME NEW j \in Keys, \A v \in Writers : writing'[v] # j PROVE store'[j] = committed'[j]
    <3>1. j # k /\ \A v \in Writers : writing[v] # j
      BY <2>1, <2>3
    <3> QED
      BY <2>1, <3>1 DEF Clean
  <2> QED
    BY <2>2, <2>3 DEF Clean
<1>2. ASSUME NEW w \in Writers, CommitWrite(w) \/ AbortWrite(w)
      PROVE  Exclusive' /\ Clean'
  <2>1. PICK k \in Keys : k = writing[w]
    BY <1>2 DEF CommitWrite, AbortWrite
  <2>2. /\ writing' = [writing EXCEPT ![w] = None] /\ rlock' = rlock
        /\ \/ committed' = [committed EXCEPT ![k] = store[k]] /\ store' = store
           \/ store' = [store EXCEPT ![k] = committed[k]] /\ committed' = committed
    BY <1>2, <2>1 DEF CommitWrite, AbortWrite
  <2>3. Exclusive'
    BY <2>2 DEF Exclusive
  <2>4. ASSUME NEW j \in Keys, \A v \in Writers : writing'[v] # j PROVE store'[j] = committed'[j]
    <3>1. CASE j = k
      BY <2>2, <3>1
    <3>2. CASE j # k
      <4>1. \A v \in Writers : writing[v] # j
        BY <2>1, <2>2, <2>4, <3>2
      <4> QED
        BY <2>2, <3>2, <4>1 DEF Clean
    <3> QED
      BY <3>1, <3>2
  <2> QED
    BY <2>3, <2>4 DEF Clean
<1>3. ASSUME NEW t \in Threads, Scanning(t) \/ Ending(t)
      PROVE  Exclusive' /\ Clean'
  <2>1. UNCHANGED <<store, committed, writing>>
    BY <1>3, ScansApart DEF database
  <2>2. Clean'
    BY <2>1 DEF Clean
  <2>3. CASE LockPage(t)
    <3>1. PICK p \in NextPage(t) : ~Locked(p) /\ rlock' = [rlock EXCEPT ![p] = @ \cup {t}]
      BY <2>3 DEF LockPage
    <3>2. \A q \in 1 .. Pages : q # p => rlock'[q] = rlock[q]
      BY <3>1
    <3>3. \A w \in Writers : writing[w] # None => PageOf[writing[w]] \in 1 .. Pages /\ PageOf[writing[w]] # p
      BY <3>1, PagesAssumption DEF Locked
    <3> QED
      BY <2>1, <2>2, <3>2, <3>3 DEF Exclusive
  <2>4. CASE ~LockPage(t)
    <3>1. rlock' = rlock \/ rlock' = [p \in 1 .. Pages |-> rlock[p] \ {t}]
      BY <1>3, <2>4 DEF Scanning, Ending, TxnBegin, DbCursor, DbCursorFails, Got, NotFound, GetFails,
                        LockDenied, Close, Start, TxnBeginFails, Commit, CommitRefused, Abort, EndTxn,
                        Return
    <3>2. \A p \in 1 .. Pages : rlock[p] = {} => rlock'[p] = {}
      <4>1. \A p \in 1 .. Pages : rlock'[p] = rlock[p] \/ rlock'[p] = rlock[p] \ {t}
        BY <3>1
      <4> QED
        BY <4>1
    <3>3. \A w \in Writers : writing[w] # None => PageOf[writing[w]] \in 1 .. Pages
      BY PagesAssumption
    <3> QED
      BY <2>1, <2>2, <3>2, <3>3 DEF Exclusive
  <2> QED
    BY <2>3, <2>4
<1> QED
  BY <1>1, <1>2, <1>3, Steps DEF WriterStep

\* No step changes a record on a page that stays locked by a scan.
LEMMA LockedStays ==
    ASSUME Typed, Exclusive, \A x \in Threads : Control(x), Next,
           NEW t \in Threads, NEW k \in Keys, t \in rlock[PageOf[k]]
    PROVE  store'[k] = store[k]
<1> USE ContentsAssumption DEF Typed
<1>1. ASSUME NEW w \in Writers, NEW j \in Keys, NEW c \in Contents, Write(w, j, c)
      PROVE  store'[k] = store[k]
  <2>1. k # j /\ store' = [store EXCEPT ![j] = c]
    BY <1>1 DEF Write
  <2> QED
    BY <2>1
<1>2. ASSUME NEW w \in Writers, CommitWrite(w) PROVE store'[k] = store[k]
  BY <1>2 DEF CommitWrite
<1>3. ASSUME NEW w \in Writers, AbortWrite(w) PROVE store'[k] = store[k]
  <2>1. writing[w] # k /\ store' = [store EXCEPT ![writing[w]] = committed[writing[w]]]
    BY <1>3 DEF AbortWrite, Exclusive
  <2> QED
    BY <2>1
<1>4. ASSUME NEW u \in Threads, Scanning(u) \/ Ending(u) PROVE store'[k] = store[k]
  BY <1>4, ScansApart DEF database
<1> QED
  BY <1>1, <1>2, <1>3, <1>4, Steps DEF WriterStep

\* What a scan has read is what is committed.
LEMMA LockedIsCommitted ==
    ASSUME Typed, Exclusive, Clean, NEW t \in Threads, NEW k \in Keys, t \in rlock[PageOf[k]]
    PROVE  store[k] = committed[k]
<1>1. \A w \in Writers : writing[w] # k
  BY ContentsAssumption DEF Exclusive
<1> QED
  BY <1>1 DEF Clean

-----------------------------------------------------------------------------
(***************************************************************************)
(* The progress of a scan.                                                 *)
(***************************************************************************)
\* The records stay right while the scan keeps them and its locks, ...
LEMMA CollectedStays ==
    ASSUME Typed, NEW t \in Threads, scan[t] \in Scans, Collected(t),
           scan'[t] = scan[t], records'[t] = records[t],
           \A p \in 1 .. Pages : t \in rlock[p] => t \in rlock'[p],
           \A k \in Keys : t \in rlock[PageOf[k]] => store'[k] = store[k]
    PROVE  /\ Collected(t)'
           /\ Sought(t)' = Sought(t) /\ (Backward(t)' <=> Backward(t)) /\ (First(t)' <=> First(t))
           /\ Sought(t) \subseteq Keys
           /\ \A k \in Keys : Absent(t, k) => Absent(t, k)'
<1>1. \A k \in Keys : /\ PageOf[k] \in 1 .. Pages
                      /\ t \in rlock[PageOf[k]] => t \in rlock'[PageOf[k]] /\ store'[k] = store[k]
                      /\ Absent(t, k) => Absent(t, k)'
  BY PagesAssumption DEF Absent
<1>2. records[t] \in Seq(Record) /\ \A i \in 1 .. Len(records[t]) : records[t][i].key \in Keys
  BY RecordFacts DEF Typed
<1>3. /\ Sought(t)' = Sought(t) /\ (Backward(t)' <=> Backward(t)) /\ (First(t)' <=> First(t))
      /\ Sought(t) \subseteq Keys
  BY SoughtKeys DEF Sought, Backward, First
<1>4. Seek(scan[t]) \subseteq Keys
  <2>1. scan[t].key \in Keys
    BY SoughtKeys
  <2> QED
    BY <2>1 DEF Seek
<1>5. Collected(t)'
  BY <1>1, <1>2, <1>4 DEF Collected
<1> QED
  BY <1>1, <1>3, <1>5

\* ... and so does the position while the cursor stays on its page.
LEMMA Stable ==
    ASSUME Typed, NEW t \in Threads, scan[t] \in Scans, Collected(t), Position(t),
           scan'[t] = scan[t], records'[t] = records[t], page'[t] = page[t],
           \A p \in 1 .. Pages : t \in rlock[p] => t \in rlock'[p],
           \A k \in Keys : t \in rlock[PageOf[k]] => store'[k] = store[k],
           pc'[t] \in {"close", "end"} /\ rc'[t] = NOTFOUND
              => pc[t] \in {"close", "end"} /\ rc[t] = NOTFOUND
    PROVE  Collected(t)' /\ Position(t)'
<1>1. /\ Collected(t)'
      /\ Sought(t)' = Sought(t) /\ (Backward(t)' <=> Backward(t)) /\ (First(t)' <=> First(t))
      /\ Sought(t) \subseteq Keys
      /\ \A k \in Keys : Absent(t, k) => Absent(t, k)'
  BY CollectedStays
<1>2. page'[t] # 0 => t \in rlock'[page'[t]]
  BY DEF Position, Typed
<1>3. \A p, q : Ahead(t, p, q)' <=> Ahead(t, p, q)
  BY <1>1 DEF Ahead
<1>4. Position(t)'
  BY <1>1, <1>2, <1>3 DEF Position, Ahead
<1> QED
  BY <1>1, <1>4

\* Of two keys on the way of a scan the nearer is on the same page or an earlier.
LEMMA PageOrder ==
    ASSUME NEW j \in Keys, NEW k \in Keys
    PROVE  /\ PageOf[j] \in 1 .. Pages /\ j \in Nat
           /\ j <= k => PageOf[j] <= PageOf[k]
<1>1. PageOf[j] \in 1 .. Pages /\ PageOf[k] \in 1 .. Pages /\ j \in Nat /\ k \in Nat
  BY PagesAssumption, KeysAssumption
<1>2. j < k => PageOf[j] <= PageOf[k]
  BY PagesAssumption
<1> QED
  BY <1>1, <1>2

\* The cursor moves to another page: the one it leaves has nothing it seeks.
LEMMA MovesOn ==
    ASSUME Typed, NEW t \in Threads, Control(t), Collected(t), Position(t), LockPage(t)
    PROVE  Collected(t)' /\ Position(t)'
<1>1. PICK p \in NextPage(t) : /\ rlock' = [rlock EXCEPT ![p] = @ \cup {t}]
                               /\ page' = [page EXCEPT ![t] = p]
  BY DEF LockPage
<1>2. /\ pc[t] = "get" /\ Found(t) = {} /\ scan[t] \in Scans
      /\ UNCHANGED <<store, pc, scan, rc, records>>
  BY DEF LockPage, Getting, Control, database
<1>3. p \in 1 .. Pages /\ p \in Nat \ {0}
  BY <1>2, NextPageIs, PagesAssumption
<1>4. page'[t] = p /\ t \in rlock'[p] /\ \A q \in 1 .. Pages : t \in rlock[q] => t \in rlock'[q]
  BY <1>1, <1>3 DEF Typed
<1>5. /\ Collected(t)'
      /\ Sought(t)' = Sought(t) /\ (Backward(t)' <=> Backward(t)) /\ (First(t)' <=> First(t))
      /\ Sought(t) \subseteq Keys
      /\ \A k \in Keys : Absent(t, k) => Absent(t, k)'
  BY <1>2, <1>4, CollectedStays
<1>6. page[t] \in 0 .. Pages /\ Pages \in Nat
  BY PagesAssumption DEF Typed
<1>7. ASSUME NEW k \in Sought(t), Ahead(t, PageOf[k], p) PROVE Absent(t, k)'
  <2>0. k \in Keys /\ PageOf[k] \in 1 .. Pages /\ PageOf[k] \in Nat
    BY <1>5, PageOrder, PagesAssumption
  <2>1. CASE page[t] = 0
    <3>1. First(t) /\ Sought(t) = Seek(scan[t]) /\ scan[t].key \in Keys
      BY <1>2, <2>1, SoughtKeys DEF Position, First
    <3>2. PageOf[scan[t].key] \in Nat /\ (k >= scan[t].key => PageOf[scan[t].key] <= PageOf[k])
      <4>1. ASSUME NEW x \in Keys PROVE PageOf[x] \in Nat /\ (k >= x => PageOf[x] <= PageOf[k])
        <5>1. PageOf[x] \in 1 .. Pages /\ x \in Nat /\ k \in Nat /\ (x <= k => PageOf[x] <= PageOf[k])
          BY <2>0, PageOrder
        <5> QED
          BY <1>6, <5>1
      <4> QED
        BY <3>1, <4>1
    <3>3. CASE scan[t].initFlag = "DB_LAST"
      <4>1. p = Pages
        BY <2>1, <3>3 DEF NextPage
      <4> QED
        BY <1>6, <1>7, <2>0, <3>1, <3>3, <4>1 DEF Ahead, Backward
    <3>4. CASE scan[t].initFlag = "DB_FIRST"
      <4>1. p = 1
        BY <2>1, <3>4 DEF NextPage
      <4> QED
        BY <1>6, <1>7, <2>0, <3>1, <3>4, <4>1 DEF Ahead, Backward
    <3>5. CASE scan[t].initFlag \notin {"DB_LAST", "DB_FIRST"}
      <4>1. p = PageOf[scan[t].key]
        BY <2>1, <3>5 DEF NextPage
      <4>2. scan[t] \in Scan
        BY <1>2, ScansAssumption
      <4>3. scan[t].initFlag \in {"DB_SET", "DB_SET_RANGE"}
        BY <3>5, <4>2 DEF Scan
      <4>4. PageOf[k] >= p
        BY <2>0, <3>1, <3>2, <4>1, <4>3 DEF Seek
      <4> QED
        BY <1>3, <1>7, <2>0, <3>1, <3>5, <4>4 DEF Ahead, Backward
    <3> QED
      BY <3>3, <3>4, <3>5
  <2>2. CASE page[t] # 0
    <3>1. p = IF Backward(t) THEN page[t] - 1 ELSE page[t] + 1
      BY <2>2 DEF NextPage
    <3>2. Ahead(t, PageOf[k], page[t]) \/ PageOf[k] = page[t]
      BY <1>6, <1>7, <2>0, <3>1 DEF Ahead
    <3>3. PageOf[k] = page[t] => store[k] = None
      BY <1>2 DEF Found
    <3>4. Absent(t, k)
      BY <2>2, <3>2, <3>3 DEF Absent, Position
    <3> QED
      BY <1>5, <2>0, <3>4
  <2> QED
    BY <2>1, <2>2
<1>8. First(t) /\ scan[t].initFlag = "DB_SET" => p = PageOf[scan[t].key]
  <2>1. First(t) /\ scan[t].initFlag = "DB_SET" => page[t] = 0
    BY DEF NextPage
  <2> QED
    BY <2>1 DEF NextPage
<1>9. \A q, r : Ahead(t, q, r)' <=> Ahead(t, q, r)
  BY <1>5 DEF Ahead
<1>10. Position(t)'
  BY <1>2, <1>3, <1>4, <1>5, <1>7, <1>8, <1>9 DEF Position
<1> QED
  BY <1>5, <1>10

\* cursor->get answers: what it passed over is absent.
LEMMA Collects ==
    ASSUME Typed, NEW t \in Threads, Control(t), Collected(t), Position(t), Got(t)
    PROVE  Collected(t)' /\ Position(t)'
<1> DEFINE rs == records[t]
           s == scan[t]
           k == Nearest(t)
           new == records'[t]
<1>1. /\ pc[t] = "get" /\ Found(t) # {} /\ s \in Scans /\ Sought(t) \subseteq Keys
      /\ UNCHANGED <<store, rlock, scan, page>> /\ rc'[t] = OK
  BY SoughtKeys DEF Got, Control, database, Typed
<1>2. /\ k \in Found(t) /\ k \in Keys /\ k \in Nat
      /\ \A j \in Found(t) : IF Backward(t) THEN j <= k ELSE k <= j
      /\ [key |-> k, val |-> store[k]] \in Record
  BY <1>1, NearestFound
<1>3. /\ k \in Sought(t) /\ PageOf[k] = page[t] /\ page[t] # 0 /\ t \in rlock[page[t]]
      /\ page[t] \in Nat /\ page[t] \in 1 .. Pages
  <2>1. k \in Sought(t) /\ PageOf[k] = page[t]
    BY <1>2 DEF Found
  <2>2. PageOf[k] \in 1 .. Pages /\ Pages \in Nat
    BY <1>2, PagesAssumption
  <2> QED
    BY <2>1, <2>2 DEF Position
<1>4. rs \in Seq(Record) /\ Len(rs) \in Nat
      /\ \A i \in 1 .. Len(rs) : rs[i].key \in Keys /\ rs[i].key \in Nat
      /\ (rs # <<>> => 1 \in 1 .. Len(rs) /\ Len(rs) \in 1 .. Len(rs))
      /\ (rs = <<>> => Len(rs) = 0)
  BY RecordFacts DEF Typed
<1>5. new = Append(rs, [key |-> k, val |-> store[k]])
  BY DEF Got, Typed
<1>6. /\ Len(new) = Len(rs) + 1 /\ \A i \in 1 .. Len(rs) : new[i] = rs[i]
      /\ new[Len(rs) + 1].key = k /\ new[Len(rs) + 1].val = store[k] /\ new # <<>>
  <2>1. new \in Seq(Record) /\ Len(new) = Len(rs) + 1 /\ \A i \in 1 .. Len(rs) : new[i] = rs[i]
    BY <1>2, <1>4, <1>5
  <2>2. new[Len(rs) + 1] = [key |-> k, val |-> store[k]]
    BY <1>2, <1>4, <1>5
  <2> QED
    BY <1>4, <2>1, <2>2
<1>7. \A i \in 1 .. Len(new) : i \in 1 .. Len(rs) \/ i = Len(rs) + 1
  BY <1>4, <1>6
\* What lies before the answer, on the way of the call, is absent.
<1>8. ASSUME NEW j \in Sought(t), IF Backward(t) THEN j > k ELSE j < k PROVE Absent(t, j)
  <2>1. j \in Keys /\ j \in Nat /\ PageOf[j] \in 1 .. Pages /\ PageOf[j] \in Nat
    BY <1>1, PageOrder, PagesAssumption
  <2>2. PageOf[j] = page[t] \/ Ahead(t, PageOf[j], page[t])
    BY <1>2, <1>3, <1>8, <2>1, PageOrder DEF Ahead
  <2>3. PageOf[j] = page[t] => store[j] = None
    BY <1>2, <1>8, <2>1 DEF Found
  <2> QED
    BY <1>3, <2>2, <2>3 DEF Absent, Position
<1>9. \A j : Absent(t, j)' <=> Absent(t, j)
  BY <1>1 DEF Absent
<1>10. First(t) <=> rs = <<>>
  BY DEF First
\* In the order of the scan, the answer comes after the last record.
<1>11. ASSUME rs # <<>>
       PROVE  /\ Backward(t) <=> s.flags = "DB_PREV"
              /\ \A j \in Keys : j \in Sought(t) <=> Before(s, rs[Len(rs)].key, j)
              /\ Before(s, rs[Len(rs)].key, k)
  <2>1. Backward(t) <=> s.flags = "DB_PREV"
    BY <1>10, <1>11 DEF Backward
  <2>2. Last(rs) = rs[Len(rs)] /\ rs[Len(rs)].key \in Nat
    BY <1>4, <1>11 DEF Last
  <2>3. \A j \in Keys : j \in Sought(t) <=> Before(s, rs[Len(rs)].key, j)
    BY <1>10, <1>11, <2>1, <2>2, KeysAssumption DEF Sought, Before
  <2> QED
    BY <1>2, <1>3, <2>1, <2>3
<1>12. ASSUME NEW i \in 1 .. Len(new)
       PROVE  t \in rlock[PageOf[new[i].key]] /\ store[new[i].key] = new[i].val
  <2>1. CASE i \in 1 .. Len(rs)
    <3>1. t \in rlock[PageOf[rs[i].key]] /\ store[rs[i].key] = rs[i].val
      BY <2>1 DEF Collected
    <3> QED
      BY <1>6, <2>1, <3>1
  <2>2. CASE i = Len(rs) + 1
    BY <1>3, <1>6, <2>2
  <2> QED
    BY <1>7, <2>1, <2>2
<1>13. ASSUME NEW i \in 1 .. Len(new), NEW j \in 1 .. Len(new), i < j
       PROVE  Before(s, new[i].key, new[j].key)
  <2>1. i \in 1 .. Len(rs) /\ rs # <<>>
    BY <1>4, <1>6, <1>7, <1>13
  <2>2. CASE j \in 1 .. Len(rs)
    BY <1>6, <1>13, <2>1, <2>2 DEF Collected
  <2>3. CASE j = Len(rs) + 1
    <3>1. i = Len(rs) \/ Before(s, rs[i].key, rs[Len(rs)].key)
      BY <1>4, <2>1 DEF Collected
    <3>2. rs[i].key \in Nat /\ rs[Len(rs)].key \in Nat
      BY <1>4, <2>1
    <3>3. Before(s, rs[i].key, k)
      <4>1. Before(s, rs[Len(rs)].key, k)
        BY <1>11, <2>1
      <4>2. k \in Nat
        BY <1>2
      <4> HIDE DEF rs, s, k
      <4> QED
        BY <3>1, <3>2, <4>1, <4>2 DEF Before
    <3> QED
      BY <1>6, <2>1, <2>3, <3>3
  <2> QED
    BY <1>7, <2>2, <2>3
<1>14. /\ new[1].key \in Seek(s)
       /\ \A j \in Seek(s) : (IF s.initFlag = "DB_LAST" THEN j > new[1].key ELSE j < new[1].key)
                              => Absent(t, j)
  <2>1. CASE rs = <<>>
    <3>1. new[1].key = k /\ Sought(t) = Seek(s) /\ (Backward(t) <=> s.initFlag = "DB_LAST")
      BY <1>1, <1>4, <1>6, <1>10, <2>1, SoughtKeys DEF Backward
    <3> QED
      BY <1>3, <1>8, <3>1
  <2>2. CASE rs # <<>>
    BY <1>4, <1>6, <2>2 DEF Collected
  <2> QED
    BY <2>1, <2>2
<1>15. ASSUME NEW j \in Keys, ~Before(s, j, new[1].key), Before(s, j, new[Len(new)].key)
       PROVE  Absent(t, j) \/ \E i \in 1 .. Len(new) : j = new[i].key
  <2>1. new[Len(new)].key = k
    BY <1>6
  <2>2. CASE rs = <<>>
    BY <1>4, <1>6, <1>15, <2>2
  <2>3. CASE rs # <<>>
    <3>0. rs[Len(rs)].key \in Nat /\ j \in Nat
      BY <1>4, <2>3, KeysAssumption
    <3>1. CASE Before(s, j, rs[Len(rs)].key)
      <4>1. ~Before(s, j, rs[1].key)
        BY <1>4, <1>6, <1>15, <2>3
      <4>2. Absent(t, j) \/ \E i \in 1 .. Len(rs) : j = rs[i].key
        BY <2>3, <3>1, <4>1 DEF Collected
      <4> QED
        BY <1>4, <1>6, <4>2
    <3>2. CASE j = rs[Len(rs)].key
      BY <1>4, <1>6, <2>3, <3>2
    <3>3. CASE Before(s, rs[Len(rs)].key, j)
      <4>1. j \in Sought(t) /\ IF Backward(t) THEN j > k ELSE j < k
        BY <1>11, <1>15, <2>1, <2>3, <3>3 DEF Before
      <4> QED
        BY <1>8, <4>1
    <3> QED
      BY <3>0, <3>1, <3>2, <3>3, BeforeOrders
  <2> QED
    BY <2>2, <2>3
<1>16. Collected(t)'
  <2> HIDE DEF new, rs, s, k
  <2>1. scan'[t] = s
    BY <1>1 DEF s
  <2>2. rlock' = rlock /\ store' = store
    BY <1>1
  <2> QED
    BY <1>9, <1>12, <1>13, <1>14, <1>15, <2>1, <2>2 DEF Collected, new
<1>17. Position(t)'
  <2>1. ~First(t)' /\ (Backward(t)' <=> s.flags = "DB_PREV")
    BY <1>1, <1>6 DEF First, Backward
  <2>2. \A j \in Sought(t)' : j \in Keys /\ IF s.flags = "DB_PREV" THEN j < k ELSE j > k
    BY <1>6, <2>1 DEF Sought, Last
  <2>3. ASSUME NEW j \in Sought(t)' PROVE ~Ahead(t, PageOf[j], page[t])'
    <3>1. j \in Keys /\ PageOf[j] \in Nat /\ j \in Nat
      BY <2>2, PageOrder, PagesAssumption
    <3>2. IF s.flags = "DB_PREV" THEN PageOf[j] <= page[t] ELSE PageOf[j] >= page[t]
      BY <1>2, <1>3, <2>2, <2>3, <3>1, PageOrder
    <3> QED
      BY <1>1, <1>3, <2>1, <3>1, <3>2 DEF Ahead
  <2>4. rc'[t] # NOTFOUND
    BY <1>1 DEF OK, NOTFOUND
  <2> QED
    BY <1>1, <1>3, <2>1, <2>3, <2>4 DEF Position
<1> QED
  BY <1>16, <1>17

\* cursor->get runs off the end: nothing it sought was on the way.
LEMMA RunsOff ==
    ASSUME Typed, NEW t \in Threads, Control(t), Collected(t), Position(t), NotFound(t)
    PROVE  Collected(t)' /\ Position(t)'
<1>1. /\ pc[t] = "get" /\ Found(t) = {} /\ NextPage(t) = {} /\ scan[t] \in Scans
      /\ Sought(t) \subseteq Keys
      /\ UNCHANGED <<store, rlock, scan, page, records>>
  BY SoughtKeys DEF NotFound, Getting, Control, database
<1>2. page[t] # 0 /\ page[t] \in 1 .. Pages /\ Pages \in Nat /\ page[t] \in Nat
  <2>1. page[t] = 0 => NextPage(t) # {}
    <3>1. CASE scan[t].initFlag = "DB_FIRST"
      BY <3>1 DEF NextPage
    <3>2. CASE scan[t].initFlag = "DB_LAST"
      BY <3>2 DEF NextPage
    <3>3. CASE scan[t].initFlag \notin {"DB_FIRST", "DB_LAST"}
      <4>1. page[t] = 0 => NextPage(t) = {PageOf[scan[t].key]}
        BY <3>3 DEF NextPage
      <4> QED
        BY <4>1
    <3> QED
      BY <3>1, <3>2, <3>3
  <2> QED
    BY <1>1, <2>1, PagesAssumption DEF Typed
<1>3. ASSUME NEW k \in Sought(t) PROVE Absent(t, k)
  <2>1. k \in Keys /\ PageOf[k] \in 1 .. Pages /\ PageOf[k] \in Nat
    BY <1>1, PagesAssumption
  <2>2. PageOf[k] = page[t] \/ Ahead(t, PageOf[k], page[t])
    <3>1. CASE First(t) /\ scan[t].initFlag = "DB_SET"
      <4>1. page[t] = PageOf[scan[t].key] /\ k = scan[t].key
        BY <1>1, <1>2, <3>1 DEF Position, Sought
      <4> QED
        BY <4>1
    <3>2. CASE ~(First(t) /\ scan[t].initFlag = "DB_SET")
      <4>1. (IF Backward(t) THEN page[t] - 1 ELSE page[t] + 1) \notin 1 .. Pages
        BY <1>1, <1>2, <3>2 DEF NextPage
      <4>2. page[t] = IF Backward(t) THEN 1 ELSE Pages
        BY <1>2, <4>1
      <4> QED
        BY <1>2, <2>1, <4>2 DEF Ahead
    <3> QED
      BY <3>1, <3>2
  <2>3. PageOf[k] = page[t] => store[k] = None
    BY <1>1 DEF Found
  <2> QED
    BY <1>2, <2>2, <2>3 DEF Absent, Position
<1>4. /\ Collected(t)'
      /\ Sought(t)' = Sought(t) /\ (Backward(t)' <=> Backward(t)) /\ (First(t)' <=> First(t))
      /\ \A k \in Keys : Absent(t, k) => Absent(t, k)'
  BY <1>1, CollectedStays
<1>5. Position(t)'
  BY <1>1, <1>3, <1>4 DEF Position, Ahead
<1> QED
  BY <1>4, <1>5

\* Every step keeps the progress of every scan.
LEMMA NextProgress ==
    ASSUME IInv, Next, NEW t \in Threads, pc'[t] \in InTxn
    PROVE  Collected(t)' /\ Position(t)'
<1> USE DEF IInv
<1>0. \A k \in Keys : t \in rlock[PageOf[k]] => store'[k] = store[k]
  BY LockedStays
<1>1. ASSUME Untouched(t) PROVE Collected(t)' /\ Position(t)'
  <2>1. pc[t] \in InTxn /\ scan[t] \in Scans /\ Collected(t) /\ Position(t)
    BY <1>1 DEF Untouched, Control, InTxn
  <2> QED
    BY <1>0, <1>1, <2>1, Stable DEF Untouched
<1>2. CASE Ending(t)
  <2>1. pc'[t] \in {"begin", "out", "idle"}
    BY <1>2 DEF Ending, Start, TxnBeginFails, Commit, CommitRefused, Abort, Return, Goto, Typed
  <2> QED
    BY <2>1 DEF InTxn
<1>3. CASE Scanning(t)
  <2>1. CASE TxnBegin(t)
    <3>1. records'[t] = <<>> /\ page'[t] = 0 /\ pc'[t] = "cursor"
      BY <2>1 DEF TxnBegin, Control, calls, Goto, Typed
    <3>2. Len(records'[t]) = 0
      BY <3>1
    <3> QED
      BY <3>1, <3>2 DEF Collected, Position
  <2>2. CASE ~TxnBegin(t)
    <3>1. pc[t] \in InTxn /\ scan[t] \in Scans /\ Collected(t) /\ Position(t) /\ Control(t)
      BY <1>3, <2>2 DEF Scanning, DbCursor, DbCursorFails, LockPage, Got, NotFound, GetFails,
                        LockDenied, Getting, Close, InTxn, Control
    <3>2. CASE LockPage(t) \/ Got(t) \/ NotFound(t)
      BY <3>1, <3>2, MovesOn, Collects, RunsOff
    <3>3. CASE DbCursor(t) \/ DbCursorFails(t) \/ GetFails(t) \/ Close(t)
               \/ \E by \in {"detector", "timeout"} : LockDenied(t, by)
      <4>1. UNCHANGED <<scan, records, page, rlock>>
        BY <3>3 DEF DbCursor, DbCursorFails, GetFails, LockDenied, Close
      <4>2. pc'[t] \in {"close", "end"} /\ rc'[t] = NOTFOUND
               => pc[t] \in {"close", "end"} /\ rc[t] = NOTFOUND
        BY <3>3 DEF DbCursor, DbCursorFails, GetFails, LockDenied, Close, Goto, Typed,
                    NOTFOUND, EIO, DEADLOCK
      <4> QED
        BY <1>0, <3>1, <4>1, <4>2, Stable
    <3> QED
      BY <1>3, <2>2, <3>2, <3>3 DEF Scanning
  <2> QED
    BY <2>1, <2>2
<1>4. CASE \E w \in Writers : WriterStep(w)
  BY <1>1, <1>4, WritersApart
<1>5. CASE \E u \in Threads : u # t /\ (Scanning(u) \/ Ending(u))
  BY <1>1, <1>5, ScansApart
<1> QED
  BY <1>2, <1>3, <1>4, <1>5, Steps

-----------------------------------------------------------------------------
(***************************************************************************)
(* The theorems.                                                           *)
(***************************************************************************)
\* The initial states satisfy the invariant.
LEMMA InitIInv == Init => IInv
<1> SUFFICES ASSUME Init PROVE IInv
  OBVIOUS
<1>1. Exclusive /\ Clean
  BY DEF Init, Exclusive, Clean
<1>2. ASSUME NEW t \in Threads PROVE Control(t) /\ Limited(t) /\ pc[t] \notin InTxn
  <2>1. Control(t) /\ pc[t] \notin InTxn
    BY DEF Init, Control, InTxn
  <2>2. Limited(t)
    BY DEF Init, Limited, Limit, NoScan
  <2> QED
    BY <2>1, <2>2
<1> QED
  BY <1>1, <1>2, InitTyped DEF IInv

\* Every step preserves it.
LEMMA NextIInv == IInv /\ [Next]_vars => IInv'
<1>1. ASSUME IInv, Next PROVE IInv'
  <2>1. Typed' /\ Exclusive' /\ Clean'
    BY <1>1, NextTyped, NextLocks DEF IInv
  <2>2. ASSUME NEW t \in Threads PROVE Control(t)' /\ Limited(t)'
    <3>1. Untouched(t) => Control(t)' /\ Limited(t)'
      BY <1>1 DEF IInv, Untouched, Control, Limited
    <3>2. CASE Scanning(t) \/ Ending(t)
      BY <1>1, <3>2, NextControl DEF IInv
    <3>3. CASE \E w \in Writers : WriterStep(w)
      BY <3>1, <3>3, WritersApart
    <3>4. CASE \E u \in Threads : u # t /\ (Scanning(u) \/ Ending(u))
      BY <1>1, <3>1, <3>4, ScansApart DEF IInv
    <3> QED
      BY <1>1, <3>2, <3>3, <3>4, Steps
  <2>3. \A t \in Threads : pc'[t] \in InTxn => Collected(t)' /\ Position(t)'
    BY <1>1, NextProgress
  <2> QED
    BY <2>1, <2>2, <2>3 DEF IInv
<1>2. ASSUME IInv, UNCHANGED vars PROVE IInv'
  BY <1>2 DEF IInv, Typed, Exclusive, Clean, Control, Limited, Collected, Position, Absent, Ahead,
              Backward, First, Sought, vars, database, calls
<1> QED
  BY <1>1, <1>2

\* The invariant holds throughout.
LEMMA Invariance == Spec => []IInv
  BY InitIInv, NextIInv, PTL DEF Spec

\* TypeOK: every variable of a scan keeps its type, and no scan returns more
\* than its limit of records.
THEOREM ScanTypes == Spec => []TypeOK
<1>1. IInv => TypeOK
  BY DEF IInv, Typed, TypeOK, Limited, Record
<1> QED
  BY <1>1, Invariance, PTL

\* ScanLeavesNothing: whichever call of EIO_CursorGet or CursorGetS fails, the
\* thread leaves TXN_END without locks, cursor or transaction.
THEOREM ScansCleanUp == Spec => []ScanLeavesNothing
<1>1. IInv => ScanLeavesNothing
  BY DEF IInv, Control, InTxn, ScanLeavesNothing
<1> QED
  BY <1>1, Invariance, PTL

\* In terms of the committed contents: what a scan has collected are the records
\* it should have passed, and after DB_NOTFOUND there are no more.
LEMMA ScanPasses ==
    ASSUME IInv, NEW t \in Threads, pc[t] \in InTxn
    PROVE  /\ scan[t] \in Scans /\ records[t] \in Seq(Record) /\ Len(records[t]) <= Limit(scan[t])
           /\ Passes(records[t], scan[t], committed)
           /\ pc[t] = "end" /\ rc[t] = NOTFOUND =>
                 \/ records[t] = <<>> /\ Starts(scan[t], committed) = {}
                 \/ /\ records[t] # <<>>
                    /\ \A k \in Present(committed) :
                          ~Before(scan[t], records[t][Len(records[t])].key, k)
<1> DEFINE rs == records[t]
           s == scan[t]
<1>1. /\ s \in Scans /\ rs \in Seq(Record) /\ Len(rs) <= Limit(s)
      /\ Collected(t) /\ Position(t)
  BY DEF IInv, Typed, Control, Limited, InTxn
<1>2. \A k \in Keys : t \in rlock[PageOf[k]] => committed[k] = store[k]
  BY LockedIsCommitted DEF IInv
<1>3. \A k \in Keys : Absent(t, k) => k \notin Present(committed)
  BY <1>2 DEF Absent, Present
<1>4. /\ \A i \in 1 .. Len(rs) : rs[i].key \in Keys /\ rs[i].key \in Nat /\ rs[i].val # None
      /\ rs # <<>> => 1 \in 1 .. Len(rs) /\ Len(rs) \in 1 .. Len(rs)
  BY <1>1, RecordFacts
<1>5. \A i \in 1 .. Len(rs) : committed[rs[i].key] = rs[i].val
  BY <1>1, <1>2, <1>4 DEF Collected
<1>6. Starts(s, committed) = Seek(s) \cap Present(committed) /\ Seek(s) \subseteq Keys
  <2>1. s.key \in Keys
    BY <1>1, SoughtKeys
  <2> QED
    BY <2>1 DEF Starts, Seek, Present
<1>7. Passes(rs, s, committed)
  <2>1. ASSUME rs # <<>>
        PROVE  /\ rs[1].key \in Starts(s, committed)
               /\ \A k \in Starts(s, committed) : IF s.initFlag = "DB_LAST" THEN k <= rs[1].key
                                                                         ELSE rs[1].key <= k
    <3>1. rs[1].key \in Present(committed) /\ rs[1].key \in Seek(s) /\ rs[1].key \in Nat
      BY <1>1, <1>4, <1>5, <2>1 DEF Present, Collected
    <3>2. ASSUME NEW k \in Starts(s, committed)
          PROVE  IF s.initFlag = "DB_LAST" THEN k <= rs[1].key ELSE rs[1].key <= k
      <4>1. k \in Seek(s) /\ k \in Nat /\ ~Absent(t, k)
        BY <1>3, <1>6, KeysAssumption
      <4>2. ~(IF s.initFlag = "DB_LAST" THEN k > rs[1].key ELSE k < rs[1].key)
        BY <1>1, <2>1, <4>1 DEF Collected
      <4> QED
        BY <3>1, <4>1, <4>2
    <3> QED
      BY <1>6, <3>1, <3>2
  <2>2. ASSUME rs # <<>>, NEW k \in Present(committed),
               ~Before(s, k, rs[1].key), Before(s, k, rs[Len(rs)].key)
        PROVE  \E i \in 1 .. Len(rs) : k = rs[i].key
    <3>1. k \in Keys
      BY DEF Present
    <3> QED
      BY <1>1, <1>3, <2>2, <3>1 DEF Collected
  <2>3. \A i, j \in 1 .. Len(rs) : i < j => Before(s, rs[i].key, rs[j].key)
    BY <1>1 DEF Collected
  <2> QED
    BY <1>5, <2>1, <2>2, <2>3 DEF Passes
<1>8. ASSUME pc[t] = "end", rc[t] = NOTFOUND
      PROVE  \/ rs = <<>> /\ Starts(s, committed) = {}
             \/ rs # <<>> /\ \A k \in Present(committed) : ~Before(s, rs[Len(rs)].key, k)
  <2>1. \A k \in Sought(t) : Absent(t, k)
    BY <1>1, <1>8 DEF Position
  <2>2. CASE rs = <<>>
    <3>1. Sought(t) = Seek(s)
      BY <1>1, <2>2, SoughtKeys DEF First
    <3> QED
      BY <1>3, <1>6, <2>1, <2>2, <3>1
  <2>3. CASE rs # <<>>
    <3>1. ASSUME NEW k \in Present(committed), Before(s, rs[Len(rs)].key, k) PROVE FALSE
      <4>1. k \in Keys /\ k \in Nat /\ rs[Len(rs)].key \in Nat
        BY <1>4, <2>3, KeysAssumption DEF Present
      <4>2. k \in Sought(t)
        BY <2>3, <3>1, <4>1 DEF Sought, First, Backward, Last, Before
      <4> QED
        BY <1>3, <2>1, <4>1, <4>2
    <3> QED
      BY <2>3, <3>1
  <2> QED
    BY <2>2, <2>3
<1> QED
  BY <1>1, <1>7, <1>8

\* ScanIsSnapshot: at every instant of its transaction, what a scan has collected
\* begins the answer of the contents committed at that instant.
THEOREM ScansAreSnapshots == Spec => []ScanIsSnapshot
<1>1. ASSUME IInv, NEW t \in Threads, txn[t]
      PROVE  IsPrefix(records[t], Expected(scan[t], committed))
  <2>1. pc[t] \in InTxn
    BY <1>1 DEF IInv, Control
  <2> QED
    BY <1>1, <2>1, ScanPasses, PassedIsPrefix
<1>2. IInv => ScanIsSnapshot
  BY <1>1 DEF ScanIsSnapshot
<1> QED
  BY <1>2, Invariance, PTL

\* A commit of a scan that ran to its end answers exactly what was asked for, and
\* tells the caller when it met the end of the database.
LEMMA ScanEndsExact ==
    ASSUME IInv, [Next]_vars, NEW t \in Threads, pc[t] = "end", pc'[t] = "out", status[t] = OK,
           rc[t] \in {OK, NOTFOUND}
    PROVE  /\ records[t] = Expected(scan[t], committed)
           /\ status'[t] = NOTFOUND <=>
                  /\ Len(records[t]) < Limit(scan[t])
                  /\ ~(t = JsThread /\ records[t] = <<>>)
<1>1. Next
  BY DEF vars
<1>2. Commit(t)
  <2>1. ~Untouched(t)
    BY DEF Untouched
  <2>2. Scanning(t) \/ Ending(t)
    BY <1>1, <2>1, Steps, WritersApart, ScansApart DEF IInv
  <2>3. ~deadlocked[t]
    BY DEF IInv, Control, OK, NOTFOUND, DEADLOCK
  <2> QED
    BY <2>2, <2>3
       DEF Scanning, Ending, TxnBegin, DbCursor, DbCursorFails, LockPage, Getting, Got, NotFound,
           GetFails, LockDenied, Close, Start, TxnBeginFails, CommitRefused, Abort, Return
<1>3. /\ scan[t] \in Scans /\ records[t] \in Seq(Record) /\ Len(records[t]) <= Limit(scan[t])
      /\ Passes(records[t], scan[t], committed)
      /\ rc[t] = NOTFOUND =>
            \/ records[t] = <<>> /\ Starts(scan[t], committed) = {}
            \/ /\ records[t] # <<>>
               /\ \A k \in Present(committed) :
                     ~Before(scan[t], records[t][Len(records[t])].key, k)
  BY ScanPasses DEF InTxn
<1>4. rc[t] = OK => Len(records[t]) = Limit(scan[t])
  BY DEF IInv, Limited
<1>5. records[t] = Expected(scan[t], committed)
  BY <1>3, <1>4, PassedIsAll
<1>6. rc[t] = NOTFOUND => Len(records[t]) < Limit(scan[t])
  BY DEF IInv, Limited
<1>7. status'[t] = Answer(t)
  BY <1>2 DEF Commit, IInv, Typed
<1>8. Len(records[t]) \in Nat /\ Limit(scan[t]) \in Nat
  BY <1>3, LimitFacts
<1>9. rc[t] = NOTFOUND <=> Len(records[t]) < Limit(scan[t])
  BY <1>4, <1>6, <1>8 DEF OK, NOTFOUND
<1>10. status'[t] = NOTFOUND <=> rc[t] = NOTFOUND /\ ~(t = JsThread /\ records[t] = <<>>)
  BY <1>7 DEF Answer, First, OK, NOTFOUND
<1> QED
  BY <1>5, <1>9, <1>10

\* ScanIsExact: a scan that ran to its end answers, when it commits, exactly what
\* was asked for, and tells the caller when it met the end of the database.
THEOREM ScansAreExact == Spec => ScanIsExact
<1> DEFINE Exact ==
      \A t \in Threads :
          pc[t] = "end" /\ pc'[t] = "out" /\ status[t] = OK /\ rc[t] \in {OK, NOTFOUND} =>
              /\ records[t] = Expected(scan[t], committed)
              /\ status'[t] = NOTFOUND <=>
                    /\ Len(records[t]) < Limit(scan[t])
                    /\ ~(t = JsThread /\ records[t] = <<>>)
<1>1. IInv /\ [Next]_vars => [Exact]_vars
  BY ScanEndsExact
<1> QED
  BY <1>1, Invariance, PTL DEF Spec, ScanIsExact

\* The last part of the invariant where no lock or transaction has a timeout and
\* no call fails: a scan that was refused a lock is one that the detector chose,
\* and has marked, so that its commit will refuse.
Unfailing(t) ==
    /\ rc[t] # EIO
    /\ pc[t] = "end" => status[t] = OK
    /\ pc[t] \in {"close", "end"} /\ rc[t] = DEADLOCK => deadlocked[t]

\* Each step of a scan keeps that.
LEMMA NextUnfailing ==
    ASSUME ~LockTimeout, ~IoErrors, IInv, [Next]_vars, \A x \in Threads : Unfailing(x),
           NEW t \in Threads
    PROVE  Unfailing(t)'
<1> USE DEF Goto, calls, Unfailing
<1>1. Typed /\ Control(t) /\ Unfailing(t)
  BY DEF IInv
<1>2. CASE UNCHANGED <<pc, rc, status, deadlocked>>
  BY <1>1, <1>2
<1>3. ASSUME NEW w \in Writers, WriterStep(w) PROVE Unfailing(t)'
  BY <1>1, <1>3 DEF WriterStep, Write, CommitWrite, AbortWrite
<1>4. ASSUME NEW u \in Threads, Start(u) \/ TxnBegin(u) \/ DbCursor(u) \/ LockPage(u) \/ Return(u)
      PROVE  Unfailing(t)'
  BY <1>1, <1>4 DEF Start, TxnBegin, DbCursor, LockPage, Return, Typed, OK, EIO, DEADLOCK
<1>5. ASSUME NEW u \in Threads, Got(u) \/ NotFound(u) PROVE Unfailing(t)'
  BY <1>1, <1>5 DEF Got, NotFound, Typed, OK, NOTFOUND, EIO, DEADLOCK
<1>6. ASSUME NEW u \in Threads, LockDenied(u, "detector") PROVE Unfailing(t)'
  BY <1>1, <1>6 DEF LockDenied, Typed, EIO, DEADLOCK
<1>7. ASSUME NEW u \in Threads, Close(u) PROVE Unfailing(t)'
  BY <1>1, <1>7 DEF Close, Typed
<1>8. ASSUME NEW u \in Threads, Commit(u) \/ CommitRefused(u) \/ Abort(u) PROVE Unfailing(t)'
  BY <1>1, <1>8 DEF Commit, CommitRefused, Abort, EndTxn, Typed
<1>9. \A u \in Threads : /\ ~LockDenied(u, "timeout")
                          /\ ~TxnBeginFails(u) /\ ~DbCursorFails(u) /\ ~GetFails(u)
  BY DEF LockDenied, TxnBeginFails, DbCursorFails, GetFails
<1>10. \A u \in Threads, by \in {"detector", "timeout"} :
          LockDenied(u, by) => LockDenied(u, "detector")
  BY <1>9
<1> QED
  BY <1>2, <1>3, <1>4, <1>5, <1>6, <1>7, <1>8, <1>9, <1>10, Steps DEF Scanning, Ending, vars

\* Without timeouts and failed calls, the only ways to an answer are Commit and
\* a commit that refuses.
LEMMA UnfailingEnds ==
    ASSUME ~LockTimeout, ~IoErrors, IInv, [Next]_vars, NEW t \in Threads, Unfailing(t),
           pc[t] # "out", pc'[t] = "out", status'[t] \in {OK, NOTFOUND}
    PROVE  pc[t] = "end" /\ status[t] = OK /\ rc[t] \in {OK, NOTFOUND}
<1>1. Next /\ Typed /\ Control(t)
  BY DEF vars, IInv
<1>2. ~Untouched(t)
  BY DEF Untouched
<1>3. Scanning(t) \/ Ending(t)
  BY <1>1, <1>2, Steps, WritersApart, ScansApart DEF IInv
<1>4. Commit(t) \/ CommitRefused(t) \/ Abort(t)
  BY <1>1, <1>3 DEF Scanning, Ending, Goto, Typed, TxnBegin, DbCursor, DbCursorFails, LockPage,
     Getting, Got, NotFound, GetFails, LockDenied, Close, Start, TxnBeginFails, Return
<1>5. pc[t] = "end" /\ status[t] = OK
  BY <1>4 DEF Commit, CommitRefused, Abort, Unfailing
<1>6. ~deadlocked[t]
  BY <1>1, <1>4, <1>5 DEF Commit, CommitRefused, Abort, Typed, EINVAL, OK, NOTFOUND
<1> QED
  BY <1>1, <1>5, <1>6 DEF Unfailing, Typed

\* AnsweredIsComplete: it is lock and transaction timeouts, and failed calls, that
\* let a scan answer 0 or DB_NOTFOUND with a part of the answer.  Without them,
\* whatever scans the deadlock detector chooses, an answer is the whole answer.
THEOREM AnswersAreComplete ==
    ASSUME ~LockTimeout, ~IoErrors
    PROVE  Spec => AnsweredIsComplete
<1> DEFINE FInv == IInv /\ \A t \in Threads : Unfailing(t)
           Complete == \A t \in Threads :
               pc[t] # "out" /\ pc'[t] = "out" /\ status'[t] \in {OK, NOTFOUND} =>
                   records[t] = Expected(scan[t], committed)
<1>1. Init => FInv
  BY InitIInv DEF Init, Unfailing, OK, EIO
<1>2. FInv /\ [Next]_vars => FInv'
  BY NextIInv, NextUnfailing
<1>3. FInv /\ [Next]_vars => [Complete]_vars
  BY UnfailingEnds, ScanEndsExact
<1> QED
  BY <1>1, <1>2, <1>3, PTL DEF Spec, AnsweredIsComplete
=============================================================================
