------------------------- MODULE AlarmListProofs -------------------------
(***************************************************************************)
(* Facts about the operators of AlarmList, for every table.                *)
(***************************************************************************)
EXTENDS AlarmList, SequenceTheorems, FiniteSetTheorems, TLAPS

-----------------------------------------------------------------------------
\* A row of a table is an alarm.
LEMMA RowType ==
    ASSUME NEW s \in Seq(Alarm), NEW i \in DOMAIN s
    PROVE  /\ i \in Nat /\ i \in 1..Len(s)
           /\ s[i] \in Alarm /\ s[i].ts \in Int
<1>1. DOMAIN s = 1..Len(s) /\ Len(s) \in Nat
  BY LenProperties
<1>2. s[i] \in Alarm
  BY <1>1, ElementOfSeq
<1> QED BY <1>1, <1>2 DEF Alarm

-----------------------------------------------------------------------------
(* ByTime: ranks are a numbering of the chosen rows.                       *)

\* Ranks lie in 1..n, they order the rows as Precedes does, and so two rows
\* never share one.
LEMMA RankOrder ==
    ASSUME NEW s \in Seq(Alarm), NEW K \in SUBSET DOMAIN s
    PROVE  /\ IsFiniteSet(K)
           /\ Cardinality(K) \in Nat
           /\ \A i \in K : Rank(s, K, i) \in 1..Cardinality(K)
           /\ \A i, j \in K : i # j /\ Precedes(s, i, j)
                                 => Rank(s, K, i) < Rank(s, K, j)
<1> DEFINE n == Cardinality(K)
           Before(i) == {j \in K : Precedes(s, j, i)}
<1>1. K \subseteq 1..Len(s) /\ Len(s) \in Nat
  BY LenProperties
<1>2. \A i \in K : i \in Nat /\ s[i].ts \in Int
  BY <1>1, RowType
<1>3. IsFiniteSet(K) /\ n \in Nat
  <2>1. IsFiniteSet(1..Len(s))
    BY <1>1, FS_Interval
  <2>2. IsFiniteSet(K)
    BY <1>1, <2>1, FS_Subset
  <2> QED BY <2>2, FS_CardinalityType
<1>4. ASSUME NEW i \in K
      PROVE  /\ IsFiniteSet(Before(i)) /\ Cardinality(Before(i)) \in 1..n
             /\ Rank(s, K, i) = Cardinality(Before(i))
  <2>1. IsFiniteSet(Before(i)) /\ Cardinality(Before(i)) <= n
    BY <1>3, FS_Subset
  <2>2. i \in Before(i)
    BY <1>2 DEF Precedes
  <2>3. Cardinality(Before(i)) \in Nat /\ Cardinality(Before(i)) # 0
    BY <2>1, <2>2, FS_CardinalityType, FS_EmptySet
  <2> QED BY <2>1, <2>3, <1>3 DEF Rank
<1>5. ASSUME NEW i \in K, NEW j \in K, i # j, Precedes(s, i, j)
      PROVE  Rank(s, K, i) < Rank(s, K, j)
  <2>1. Before(i) \subseteq Before(j)
    BY <1>2, <1>5 DEF Precedes
  <2>2. j \in Before(j) /\ j \notin Before(i)
    BY <1>2, <1>5 DEF Precedes
  <2>3. /\ Cardinality(Before(i)) <= Cardinality(Before(j))
        /\ Cardinality(Before(j)) # Cardinality(Before(i))
    BY <2>1, <2>2, <1>4, FS_Subset
  <2>4. \A k \in K : /\ Rank(s, K, k) = Cardinality(Before(k))
                     /\ Cardinality(Before(k)) \in Nat
    BY <1>3, <1>4
  <2> QED BY <2>3, <2>4
<1> QED BY <1>3, <1>4, <1>5

\* Of two rows one precedes the other.
LEMMA PrecedesTotal ==
    ASSUME NEW s \in Seq(Alarm), NEW i \in DOMAIN s, NEW j \in DOMAIN s
    PROVE  Precedes(s, i, j) \/ Precedes(s, j, i)
<1>1. i \in Nat /\ j \in Nat /\ s[i].ts \in Int /\ s[j].ts \in Int
  BY RowType
<1> QED BY <1>1 DEF Precedes

\* Every rank is taken, by one row.
LEMMA RankUnique ==
    ASSUME NEW s \in Seq(Alarm), NEW K \in SUBSET DOMAIN s,
           NEW p \in 1..Cardinality(K)
    PROVE  \E i \in K : /\ Rank(s, K, i) = p
                        /\ \A j \in K : Rank(s, K, j) = p => j = i
<1> DEFINE n == Cardinality(K)
           f == [i \in K |-> Rank(s, K, i)]
<1>1. /\ IsFiniteSet(K) /\ n \in Nat
      /\ \A i \in K : Rank(s, K, i) \in 1..n
      /\ \A i, j \in K : i # j /\ Precedes(s, i, j)
                            => Rank(s, K, i) < Rank(s, K, j)
  BY RankOrder
<1>2. \A i, j \in K : Rank(s, K, i) = Rank(s, K, j) => i = j
  BY <1>1, PrecedesTotal
<1>3. f \in Injection(K, 1..n)
  BY <1>1, <1>2 DEF Injection, IsInjective
<1>4. IsFiniteSet(1..n) /\ Cardinality(1..n) = n
  BY <1>1, FS_Interval
<1>5. f \in Surjection(K, 1..n)
  BY <1>3, <1>4, FS_Injection
<1>6. \E i \in K : f[i] = p
  BY <1>5 DEF Surjection
<1> QED BY <1>2, <1>6

\* ByTime(s, K) has one row per index of K, each a row of s, every chosen row
\* of s is there, and it is sorted.
LEMMA ByTimeProperties ==
    ASSUME NEW s \in Seq(Alarm), NEW K \in SUBSET DOMAIN s
    PROVE  LET t == ByTime(s, K)
           IN  /\ t \in Seq(Alarm)
               /\ Len(t) = Cardinality(K)
               /\ \A p \in DOMAIN t : \E i \in K : t[p] = s[i]
               /\ \A i \in K : \E p \in DOMAIN t : t[p] = s[i]
               /\ IsSortedByTime(t)
<1> DEFINE n == Cardinality(K)
           t == ByTime(s, K)
           row(p) == CHOOSE i \in K : Rank(s, K, i) = p
<1>1. n \in Nat /\ \A i \in K : Rank(s, K, i) \in 1..n
  BY RankOrder
<1>2. t = [p \in 1..n |-> s[row(p)]]
  BY DEF ByTime
<1>3. \A p \in 1..n : row(p) \in K /\ Rank(s, K, row(p)) = p
  BY RankUnique
<1>4. \A i \in K : row(Rank(s, K, i)) = i
  BY <1>1, RankUnique
<1>5. \A i \in K : s[i] \in Alarm /\ s[i].ts \in Int /\ i \in Nat
  BY RowType
<1>6. \A p \in 1..n : s[row(p)] \in Alarm
  BY <1>3, <1>5
<1> HIDE DEF row
<1>7. t \in Seq(Alarm) /\ Len(t) = n /\ DOMAIN t = 1..n
  <2>1. t \in [1..n -> Alarm]
    BY <1>2, <1>6
  <2>2. t \in Seq(Alarm)
    BY <1>1, <2>1, SeqDef
  <2> QED BY <1>1, <2>1, <2>2, LenProperties
<1>8. ASSUME NEW p \in 1..n, NEW q \in 1..n, p < q
      PROVE  t[p].ts <= t[q].ts
  <2>1. row(p) # row(q) /\ ~ Precedes(s, row(q), row(p))
    BY <1>3, <1>8, RankOrder
  <2>2. Precedes(s, row(p), row(q))
    BY <2>1, <1>3, PrecedesTotal
  <2> QED BY <2>2, <1>2, <1>3, <1>5 DEF Precedes
<1>9. \A i \in K : t[Rank(s, K, i)] = s[i]
  BY <1>1, <1>2, <1>4
<1> QED BY <1>1, <1>2, <1>3, <1>7, <1>8, <1>9 DEF IsSortedByTime

-----------------------------------------------------------------------------
(* Intervals have a least and a greatest member with a property, stated as *)
(* a set so that no operator is a parameter.                               *)

\* A set of naturals that is not empty has a least member.
LEMMA LeastOf ==
    ASSUME NEW S \in SUBSET Nat, S # {}
    PROVE  \E m \in S : \A k \in S : m <= k
<1>1. \E m \in S : \A k \in S : ~ (<<k, m>> \in OpToRel(<, Nat))
  BY NatLessThanWellFounded, WFMin
<1>2. PICK m \in S : \A k \in S : ~ (<<k, m>> \in OpToRel(<, Nat))
  BY <1>1
<1>3. ASSUME NEW k \in S PROVE m <= k
  <2>1. k \in Nat /\ m \in Nat
    OBVIOUS
  <2>2. k < m => <<k, m>> \in OpToRel(<, Nat)
    BY <2>1 DEF OpToRel
  <2>3. ~ (k < m)
    BY <1>2, <2>2
  <2> QED BY <2>1, <2>3
<1> QED BY <1>3

\* A bounded set of naturals that is not empty has a greatest member.
LEMMA GreatestOf ==
    ASSUME NEW n \in Nat, NEW S \in SUBSET 0..n, S # {}
    PROVE  \E m \in S : \A k \in S : k <= m
<1> DEFINE T == {n - k : k \in S}
<1>1. T \in SUBSET Nat /\ T # {}
  <2>1. \A k \in S : k \in 0..n /\ n - k \in Nat
    OBVIOUS
  <2>2. T \in SUBSET Nat
    BY <2>1
  <2>3. PICK k \in S : TRUE
    OBVIOUS
  <2>4. n - k \in T
    OBVIOUS
  <2> QED BY <2>2, <2>4
<1>2. PICK m \in T : \A k \in T : m <= k
  BY <1>1, LeastOf
<1>3. PICK p \in S : m = n - p
  BY <1>2
<1>4. ASSUME NEW k \in S PROVE k <= p
  <2>1. n - k \in T
    BY <1>4
  <2>2. m <= n - k
    BY <1>2, <2>1
  <2> QED BY <1>3, <2>2
<1> QED BY <1>4

-----------------------------------------------------------------------------
(* todox_task_push                                                         *)

\* The loop of todox_task_push finds its place.
LEMMA SlotProperties ==
    ASSUME NEW lst \in Seq(Alarm), NEW itm \in Alarm
    PROVE  LET p == Slot(lst, itm)
           IN  /\ p \in 0..Len(lst)
               /\ p = 0 \/ lst[p].ts <= itm.ts
               /\ \A q \in p+1..Len(lst) : lst[q].ts > itm.ts
<1> DEFINE n == Len(lst)
           S == {p \in 0..n : p = 0 \/ lst[p].ts <= itm.ts}
<1>1. n \in Nat /\ itm.ts \in Int /\ \A q \in 1..n : lst[q].ts \in Int
  BY LenProperties, RowType DEF Alarm
<1>2. PICK m \in S : \A k \in S : k <= m
  <2>1. S \in SUBSET 0..n /\ 0 \in S
    BY <1>1
  <2> QED BY <1>1, <2>1, GreatestOf
<1>3. \A q \in m+1..n : lst[q].ts > itm.ts
  <2> SUFFICES ASSUME NEW q \in m+1..n PROVE lst[q].ts > itm.ts
    OBVIOUS
  <2>1. q \in 1..n /\ ~ (q <= m)
    BY <1>1, <1>2
  <2>2. q \notin S
    BY <1>2, <2>1
  <2> QED BY <1>1, <2>1, <2>2
<1>4. /\ m \in 0..n
      /\ m = 0 \/ lst[m].ts <= itm.ts
  BY <1>2
<1> QED BY <1>3, <1>4 DEF Slot

\* t is lst with itm put in at i.
IsInsertion(t, lst, i, itm) ==
    /\ t \in Seq(Alarm)
    /\ Len(t) = Len(lst) + 1
    /\ \A q \in 1..Len(lst)+1 :
          t[q] = IF q < i THEN lst[q] ELSE IF q = i THEN itm ELSE lst[q-1]

\* InsertAt(lst, i, itm), pointwise.
LEMMA InsertAtProperties ==
    ASSUME NEW lst \in Seq(Alarm), NEW i \in 1..Len(lst)+1, NEW itm \in Alarm
    PROVE  IsInsertion(InsertAt(lst, i, itm), lst, i, itm)
<1> DEFINE n == Len(lst)
           l == SubSeq(lst, 1, i-1)
           m == <<itm>>
           r == SubSeq(lst, i, n)
<1>1. n \in Nat /\ \A q \in 1..n : lst[q] \in Alarm
  BY LenProperties, ElementOfSeq
<1>2. /\ l \in Seq(Alarm) /\ Len(l) = i-1
      /\ \A q \in 1..i-1 : l[q] = lst[q]
  <2>1. \A q \in 1..i-1 : lst[q] \in Alarm
    BY <1>1
  <2> QED BY <1>1, <2>1, SubSeqProperties
<1>3. /\ r \in Seq(Alarm) /\ Len(r) = n-i+1
      /\ \A q \in 1..n-i+1 : r[q] = lst[i+q-1]
  <2>1. \A q \in i..n : lst[q] \in Alarm
    BY <1>1
  <2> QED BY <1>1, <2>1, SubSeqProperties
<1>4. m \in Seq(Alarm) /\ Len(m) = 1 /\ m[1] = itm
  OBVIOUS
<1> HIDE DEF l, m, r
<1>5. /\ l \o m \in Seq(Alarm) /\ Len(l \o m) = i
      /\ \A q \in 1..i : (l \o m)[q] = IF q < i THEN lst[q] ELSE itm
  <2>1. /\ l \o m \in Seq(Alarm) /\ Len(l \o m) = Len(l) + Len(m)
        /\ \A q \in 1..Len(l)+Len(m) :
              (l \o m)[q] = IF q <= Len(l) THEN l[q] ELSE m[q - Len(l)]
    BY <1>2, <1>4, ConcatProperties
  <2> QED BY <1>1, <1>2, <1>4, <2>1
<1>6. /\ (l \o m) \o r \in Seq(Alarm)
      /\ Len((l \o m) \o r) = n + 1
      /\ \A q \in 1..n+1 :
            ((l \o m) \o r)[q] = IF q <= i THEN (l \o m)[q] ELSE r[q-i]
  <2> DEFINE lm == l \o m
  <2>1. lm \in Seq(Alarm) /\ Len(lm) = i
    BY <1>5
  <2> HIDE DEF lm
  <2>2. /\ lm \o r \in Seq(Alarm) /\ Len(lm \o r) = Len(lm) + Len(r)
        /\ \A q \in 1..Len(lm)+Len(r) :
              (lm \o r)[q] = IF q <= Len(lm) THEN lm[q] ELSE r[q - Len(lm)]
    BY <1>3, <2>1, ConcatProperties
  <2>3. i + (n-i+1) = n+1
    BY <1>1
  <2> QED BY <1>3, <2>1, <2>2, <2>3 DEF lm
<1>7. InsertAt(lst, i, itm) = (l \o m) \o r
  BY DEF InsertAt, l, m, r
<1>8. ASSUME NEW q \in 1..n+1
      PROVE  ((l \o m) \o r)[q] = IF q < i THEN lst[q]
                                 ELSE IF q = i THEN itm ELSE lst[q-1]
  <2>1. CASE q <= i
    BY <1>1, <1>5, <1>6, <2>1
  <2>2. CASE q > i
    <3>1. q-i \in 1..n-i+1 /\ i+(q-i)-1 = q-1
      BY <1>1, <2>2
    <3> QED BY <1>1, <1>3, <1>6, <2>2, <3>1
  <2>3. q <= i \/ q > i
    BY <1>1
  <2> QED BY <2>1, <2>2, <2>3, Zenon
<1> QED BY <1>6, <1>7, <1>8 DEF IsInsertion

\* todox_task_push keeps a sorted table sorted, and leaves a full one alone.
THEOREM TaskPushKeepsOrder ==
    ASSUME NEW lst \in Seq(Alarm), NEW itm \in Alarm
    PROVE  /\ TaskPush(lst, itm) \in Seq(Alarm)
           /\ Len(lst) >= MaxRows => TaskPush(lst, itm) = lst
           /\ Len(lst) < MaxRows =>
                 /\ Len(TaskPush(lst, itm)) = Len(lst) + 1
                 /\ \E p \in DOMAIN TaskPush(lst, itm) :
                        TaskPush(lst, itm)[p] = itm
                 /\ \A i \in DOMAIN lst : \E p \in DOMAIN TaskPush(lst, itm) :
                        TaskPush(lst, itm)[p] = lst[i]
           /\ IsSortedByTime(lst) => IsSortedByTime(TaskPush(lst, itm))
<1> DEFINE n == Len(lst)
           k == Slot(lst, itm)
           t == InsertAt(lst, k+1, itm)
<1>1. /\ n \in Nat /\ DOMAIN lst = 1..n /\ itm.ts \in Int
      /\ \A q \in 1..n : lst[q].ts \in Int
      /\ MaxRows \in Nat
  BY LenProperties, RowType, MaxRowsAssumption DEF Alarm
<1>2. /\ k \in 0..n
      /\ k = 0 \/ lst[k].ts <= itm.ts
      /\ \A q \in k+1..n : lst[q].ts > itm.ts
  BY SlotProperties
<1> HIDE DEF k
<1>3. k+1 \in 1..n+1
  BY <1>1, <1>2
<1>4. /\ t \in Seq(Alarm) /\ Len(t) = n+1
      /\ \A q \in 1..n+1 : t[q] = IF q < k+1 THEN lst[q]
                                ELSE IF q = k+1 THEN itm ELSE lst[q-1]
  <2>1. IsInsertion(t, lst, k+1, itm)
    BY <1>3, InsertAtProperties, Zenon
  <2> QED BY <1>1, <2>1, SMT DEF IsInsertion
<1> HIDE DEF t
<1>5. DOMAIN t = 1..n+1
  BY <1>1, <1>4, LenProperties
<1>6. t[k+1] = itm
  BY <1>3, <1>4
<1>7. ASSUME NEW i \in 1..n PROVE \E p \in 1..n+1 : t[p] = lst[i]
  <2>1. CASE i <= k
    <3>1. t[i] = lst[i]
      BY <1>1, <1>2, <1>4, <2>1
    <3> QED BY <1>1, <3>1
  <2>2. CASE i > k
    <3>1. t[i+1] = lst[i]
      BY <1>1, <1>2, <1>4, <2>2
    <3> QED BY <1>1, <3>1
  <2> QED BY <1>1, <1>2, <2>1, <2>2
<1>8. ASSUME IsSortedByTime(lst), NEW p \in 1..n+1, NEW q \in 1..n+1, p < q
      PROVE  t[p].ts <= t[q].ts
  <2>1. \A i, j \in 1..n : i <= j => lst[i].ts <= lst[j].ts
    BY <1>1, <1>8 DEF IsSortedByTime
  <2>2. CASE q < k+1
    BY <1>1, <1>2, <1>4, <1>8, <2>1, <2>2
  <2>3. CASE q = k+1
    <3>1. t[p] = lst[p] /\ p <= k /\ p \in 1..n /\ k \in 1..n
      BY <1>1, <1>2, <1>4, <1>8, <2>3
    <3> QED BY <1>1, <1>2, <1>6, <2>1, <2>3, <3>1
  <2>4. CASE q > k+1
    <3>1. t[q] = lst[q-1] /\ q-1 \in k+1..n /\ q-1 \in 1..n
      BY <1>1, <1>2, <1>4, <2>4
    <3>2. CASE p < k+1
      <4>1. t[p] = lst[p] /\ p \in 1..n /\ p <= q-1
        BY <1>1, <1>2, <1>4, <1>8, <3>2, <2>4
      <4> QED BY <2>1, <3>1, <4>1
    <3>3. CASE p = k+1
      BY <1>1, <1>2, <1>6, <3>1, <3>3
    <3>4. CASE p > k+1
      <4>1. t[p] = lst[p-1] /\ p-1 \in 1..n /\ p-1 <= q-1
        BY <1>1, <1>2, <1>4, <1>8, <3>4
      <4> QED BY <2>1, <3>1, <4>1
    <3> QED BY <1>1, <1>2, <3>2, <3>3, <3>4
  <2> QED BY <1>1, <1>2, <2>2, <2>3, <2>4
<1>9. IsSortedByTime(lst) => IsSortedByTime(t)
  BY <1>5, <1>8 DEF IsSortedByTime
<1>10. TaskPush(lst, itm) = IF n >= MaxRows THEN lst ELSE t
  BY DEF TaskPush, t, k
<1>11. CASE n >= MaxRows
  <2>1. TaskPush(lst, itm) = lst /\ ~ (n < MaxRows)
    BY <1>1, <1>10, <1>11
  <2> QED BY <2>1
<1>12. CASE n < MaxRows
  <2>1. TaskPush(lst, itm) = t
    BY <1>1, <1>10, <1>12
  <2> QED BY <1>1, <1>3, <1>4, <1>5, <1>6, <1>7, <1>9, <1>12, <2>1
<1> QED BY <1>1, <1>11, <1>12

\* Pushing rows one after another leaves a sorted table no longer than
\* MaxRows.
LEMMA PushAllProperties ==
    ASSUME NEW lst \in Seq(Alarm), NEW items \in Seq(Alarm)
    PROVE  /\ PushAll(lst, items) \in Seq(Alarm)
           /\ IsSortedByTime(PushAll(lst, items))
           /\ Len(PushAll(lst, items)) <= MaxRows
<1> DEFINE s == lst \o items
           K == {i \in DOMAIN s : i <= MaxRows}
<1>1. s \in Seq(Alarm)
  BY ConcatProperties
<1>2. DOMAIN s = 1..Len(s) /\ Len(s) \in Nat
  BY <1>1, LenProperties
<1> HIDE DEF s
<1>3. K \in SUBSET DOMAIN s
  OBVIOUS
<1>4. /\ ByTime(s, K) \in Seq(Alarm) /\ IsSortedByTime(ByTime(s, K))
      /\ Len(ByTime(s, K)) = Cardinality(K)
  BY <1>1, <1>3, ByTimeProperties
<1>5. Cardinality(K) <= MaxRows
  <2>1. MaxRows \in Nat
    BY MaxRowsAssumption
  <2>2. K \in SUBSET 1..MaxRows
    BY <1>2, <2>1
  <2>3. IsFiniteSet(1..MaxRows) /\ Cardinality(1..MaxRows) = MaxRows
    BY <2>1, FS_Interval
  <2>4. Cardinality(K) <= Cardinality(1..MaxRows)
    <3> HIDE DEF K
    <3> QED BY <2>2, <2>3, FS_Subset, Zenon
  <2> QED BY <2>3, <2>4, Zenon
<1> QED BY <1>4, <1>5 DEF PushAll, s

\* todox_task_remove_all leaves a sorted table without a row of the task.
LEMMA TaskRemoveAllProperties ==
    ASSUME NEW lst \in Seq(Alarm), NEW t \in Tasks
    PROVE  /\ TaskRemoveAll(lst, t) \in Seq(Alarm)
           /\ IsSortedByTime(TaskRemoveAll(lst, t))
           /\ RowsOf(TaskRemoveAll(lst, t), t) = {}
<1> DEFINE K == DOMAIN lst \ RowsOf(lst, t)
<1>1. K \in SUBSET DOMAIN lst /\ \A i \in K : lst[i].task # t
  BY DEF RowsOf
<1>2. /\ ByTime(lst, K) \in Seq(Alarm) /\ IsSortedByTime(ByTime(lst, K))
      /\ \A p \in DOMAIN ByTime(lst, K) : \E i \in K : ByTime(lst, K)[p] = lst[i]
  BY <1>1, ByTimeProperties
<1> QED BY <1>1, <1>2 DEF TaskRemoveAll, RowsOf

-----------------------------------------------------------------------------
(* Weekly alarms                                                           *)

\* What the prover has to know of \div and %.
LEMMA DivisionProperties ==
    ASSUME NEW x \in Nat, NEW w \in Nat \ {0}
    PROVE  /\ x \div w \in Nat
           /\ w * (x \div w) <= x
           /\ x < w * (x \div w) + w
OBVIOUS

\* todox_advance_repeat_to_future moves an alarm by whole weeks to the first
\* of its times after now.
THEOREM AdvanceIsNextOccurrence ==
    ASSUME NEW t \in Int, NEW now \in Int
    PROVE  LET u == AdvanceRepeatToFuture(t, now)
           IN  /\ u \in Int
               /\ u > now
               /\ t <= now => u - Week <= now
               /\ \E k \in Nat : u = t + Week * k
<1> DEFINE u == AdvanceRepeatToFuture(t, now)
           q == (now - t) \div Week
<1>1. Week \in Nat \ {0}
  BY WeekAssumption
<1>2. CASE t <= now
  <2>1. /\ q \in Nat
        /\ Week * q <= now - t
        /\ now - t < Week * q + Week
    BY <1>1, <1>2, DivisionProperties
  <2> HIDE DEF q
  <2>2. Week * (q + 1) = Week * q + Week /\ Week * q \in Int
    BY <1>1, <2>1
  <2>3. u = t + Week * (q + 1)
    BY <1>2 DEF AdvanceRepeatToFuture, q
  <2>4. /\ u \in Int /\ u > now /\ u - Week <= now
    BY <1>1, <2>1, <2>2, <2>3
  <2>5. q + 1 \in Nat
    BY <2>1
  <2> QED BY <2>3, <2>4, <2>5
<1>3. CASE ~ (t <= now)
  <2>1. u = t
    BY <1>3 DEF AdvanceRepeatToFuture
  <2>2. t = t + Week * 0
    BY <1>1
  <2> QED BY <1>3, <2>1, <2>2
<1> QED BY <1>2, <1>3

\* Moving a row in time makes no other row of it.
LEMMA MovedRow ==
    ASSUME NEW a \in Alarm, NEW t \in Int
    PROVE  /\ [a EXCEPT !.ts = t] \in Alarm
           /\ [a EXCEPT !.ts = t].ts = t
BY DEF Alarm

\* The rows purge_past_alarms looks at are a table of the same length.
LEMMA AdvancedType ==
    ASSUME NEW lst \in Seq(Alarm), NEW now \in Int
    PROVE  /\ Advanced(lst, now) \in Seq(Alarm)
           /\ Len(Advanced(lst, now)) = Len(lst)
           /\ DOMAIN Advanced(lst, now) = DOMAIN lst
<1>1. Len(lst) \in Nat /\ DOMAIN lst = 1..Len(lst)
  BY LenProperties
<1>2. ASSUME NEW i \in 1..Len(lst)
      PROVE  Advanced(lst, now)[i] \in Alarm
  <2>1. lst[i] \in Alarm /\ lst[i].ts \in Int
    BY <1>1, RowType
  <2>2. AdvanceRepeatToFuture(lst[i].ts, now) \in Int
    BY <2>1, AdvanceIsNextOccurrence
  <2>3. [lst[i] EXCEPT !.ts = AdvanceRepeatToFuture(@, now)]
           = [lst[i] EXCEPT !.ts = AdvanceRepeatToFuture(lst[i].ts, now)]
    OBVIOUS
  <2> QED BY <1>1, <2>1, <2>2, <2>3, MovedRow DEF Advanced
<1>3. Advanced(lst, now) \in [1..Len(lst) -> Alarm]
  BY <1>1, <1>2 DEF Advanced
<1>4. Advanced(lst, now) \in Seq(Alarm)
  BY <1>1, <1>3, SeqDef
<1> QED BY <1>1, <1>3, <1>4, LenProperties

\* After a purge every row is in the future, the table is sorted if it was
\* and no row of it was made up.
THEOREM PurgeLeavesFuture ==
    ASSUME NEW lst \in Seq(Alarm), NEW now \in Int
    PROVE  LET t == PurgePastAlarms(lst, now)
           IN  /\ t \in Seq(Alarm)
               /\ \A p \in DOMAIN t : t[p].ts > now
               /\ IsSortedByTime(lst) => IsSortedByTime(t)
               /\ \A i \in DOMAIN lst :
                     lst[i].does_repeat \/ lst[i].ts > now =>
                       \E p \in DOMAIN t : t[p] = Advanced(lst, now)[i]
<1> DEFINE moved == Advanced(lst, now)
           K == Future(moved, now)
           t == ByTime(moved, K)
<1>1. moved \in Seq(Alarm) /\ DOMAIN moved = DOMAIN lst
  BY AdvancedType
<1>2. K \in SUBSET DOMAIN moved /\ \A i \in K : moved[i].ts > now
  BY DEF Future
<1>3. \A i \in DOMAIN lst : lst[i] \in Alarm /\ lst[i].ts \in Int
  BY RowType
<1>4. ASSUME NEW i \in DOMAIN lst, lst[i].does_repeat \/ lst[i].ts > now
      PROVE  i \in K
  <2>1. CASE lst[i].does_repeat
    <3>1. moved[i] = [lst[i] EXCEPT !.ts = AdvanceRepeatToFuture(lst[i].ts, now)]
      BY <2>1 DEF Advanced
    <3>2. moved[i].ts > now
      BY <1>3, <3>1, MovedRow, AdvanceIsNextOccurrence
    <3> QED BY <1>1, <3>2 DEF Future
  <2>2. CASE ~ lst[i].does_repeat
    <3>1. moved[i] = lst[i]
      BY <2>2 DEF Advanced
    <3> QED BY <1>1, <1>4, <2>2, <3>1 DEF Future
  <2> QED BY <2>1, <2>2
<1> HIDE DEF moved, K
<1>5. /\ t \in Seq(Alarm)
      /\ \A p \in DOMAIN t : \E i \in K : t[p] = moved[i]
      /\ \A i \in K : \E p \in DOMAIN t : t[p] = moved[i]
      /\ IsSortedByTime(t)
  BY <1>1, <1>2, ByTimeProperties
<1>6. CASE Due(lst, now) = {}
  <2>1. PurgePastAlarms(lst, now) = lst
    BY <1>6 DEF PurgePastAlarms
  <2>2. \A i \in DOMAIN lst : lst[i].ts > now
    BY <1>3, <1>6 DEF Due
  <2>3. ASSUME NEW i \in DOMAIN lst PROVE moved[i] = lst[i]
    <3>1. ~ (lst[i].ts <= now)
      BY <1>3, <2>2
    <3>2. AdvanceRepeatToFuture(lst[i].ts, now) = lst[i].ts
      BY <3>1 DEF AdvanceRepeatToFuture
    <3>3. [lst[i] EXCEPT !.ts = lst[i].ts] = lst[i]
      BY <1>3 DEF Alarm
    <3> QED BY <3>2, <3>3 DEF Advanced, moved
  <2> QED BY <2>1, <2>2, <2>3 DEF moved
<1>7. CASE Due(lst, now) # {}
  <2>1. PurgePastAlarms(lst, now) = t
    BY <1>7 DEF PurgePastAlarms, moved, K
  <2>2. \A p \in DOMAIN t : t[p].ts > now
    BY <1>2, <1>5
  <2>3. \A i \in DOMAIN lst : lst[i].does_repeat \/ lst[i].ts > now =>
              \E p \in DOMAIN t : t[p] = moved[i]
    BY <1>4, <1>5
  <2> HIDE DEF t
  <2> QED BY <1>5, <2>1, <2>2, <2>3 DEF moved
<1> QED BY <1>6, <1>7

\* Taking one row out of a table leaves a table, one row shorter.
LEMMA RemoveAtType ==
    ASSUME NEW lst \in Seq(Alarm), NEW i \in 1..Len(lst)
    PROVE  /\ RemoveAt(lst, i) \in Seq(Alarm)
           /\ Len(RemoveAt(lst, i)) = Len(lst) - 1
<1> DEFINE n == Len(lst)
           l == SubSeq(lst, 1, i-1)
           r == SubSeq(lst, i+1, n)
<1>1. n \in Nat /\ \A q \in 1..n : lst[q] \in Alarm
  BY LenProperties, ElementOfSeq
<1>2. l \in Seq(Alarm) /\ Len(l) = i-1
  <2>1. \A q \in 1..i-1 : lst[q] \in Alarm
    BY <1>1
  <2> QED BY <1>1, <2>1, SubSeqProperties
<1>3. r \in Seq(Alarm) /\ Len(r) = n-i
  <2>1. \A q \in i+1..n : lst[q] \in Alarm
    BY <1>1
  <2> QED BY <1>1, <2>1, SubSeqProperties
<1> HIDE DEF l, r
<1>4. l \o r \in Seq(Alarm) /\ Len(l \o r) = Len(l) + Len(r)
  BY <1>2, <1>3, ConcatProperties
<1>5. RemoveAt(lst, i) = l \o r
  BY DEF RemoveAt, l, r
<1>6. Len(l) + Len(r) = n - 1
  BY <1>1, <1>2, <1>3
<1> QED BY <1>4, <1>5, <1>6, Zenon

\* advance_repeat_alarm leaves a table: the row, a week later, is put back
\* somewhere.
LEMMA AdvanceRepeatAlarmType ==
    ASSUME NEW lst \in Seq(Alarm), NEW idx \in DOMAIN lst
    PROVE  /\ AdvanceRepeatAlarm(lst, idx) \in Seq(Alarm)
           /\ \E j \in 1..Len(lst) :
                 AdvanceRepeatAlarm(lst, idx) =
                     InsertAt(RemoveAt(lst, idx), j,
                              [lst[idx] EXCEPT !.ts = lst[idx].ts + Week])
<1> DEFINE n == Len(lst)
           moved == [lst[idx] EXCEPT !.ts = NextWeeklyOccurrence(@)]
           Stop(j) == /\ \A q \in idx+1..j : lst[q].ts < moved.ts
                      /\ j < n => lst[j+1].ts >= moved.ts
           j == CHOOSE j \in idx..n : Stop(j)
<1>1. n \in Nat /\ idx \in 1..n /\ DOMAIN lst = 1..n
  BY LenProperties
<1>2. moved \in Alarm /\ moved.ts \in Int
  <2>1. lst[idx] \in Alarm /\ lst[idx].ts + Week \in Int
    BY RowType, WeekAssumption
  <2>2. moved = [lst[idx] EXCEPT !.ts = lst[idx].ts + Week]
    BY DEF NextWeeklyOccurrence
  <2> QED BY <2>1, <2>2, MovedRow
<1>3. \A q \in 1..n : lst[q].ts \in Int
  BY <1>1, RowType
<1>8. n \in Nat /\ idx \in 1..n
  BY <1>1
<1> HIDE DEF moved, n
<1>4. \E k \in idx..n : Stop(k)
  <2> DEFINE S == {k \in idx..n : k = n \/ lst[k+1].ts >= moved.ts}
  <2>1. PICK m \in S : \A k \in S : m <= k
    <3>1. S \in SUBSET Nat /\ n \in S
      BY <1>8
    <3> HIDE DEF S
    <3> QED BY <3>1, LeastOf
  <2>4. m \in idx..n /\ (m = n \/ lst[m+1].ts >= moved.ts)
    BY <2>1
  <2>6. m \in Nat /\ m <= n /\ idx <= m /\ idx \in Nat
    BY <1>8, <2>4
  <2>5. \A k \in idx..n : lst[k+1].ts >= moved.ts => m <= k
    BY <2>1
  <2> HIDE DEF S
  <2>2. ASSUME NEW q \in idx+1..m PROVE lst[q].ts < moved.ts
    <3>1. q-1 \in idx..n /\ ~ (m <= q-1) /\ q \in 1..n /\ (q-1)+1 = q
      BY <1>8, <2>6
    <3>2. ~ (lst[q].ts >= moved.ts)
      BY <2>5, <3>1
    <3> QED BY <1>2, <1>3, <3>1, <3>2
  <2>3. m < n => lst[m+1].ts >= moved.ts
    BY <1>8, <2>4
  <2> QED BY <2>2, <2>3, <2>4
<1>5. j \in idx..n
  BY <1>4
<1> HIDE DEF j
<1>6. /\ RemoveAt(lst, idx) \in Seq(Alarm)
      /\ j \in 1..Len(RemoveAt(lst, idx)) + 1
  BY <1>1, <1>5, RemoveAtType DEF n
<1>7. InsertAt(RemoveAt(lst, idx), j, moved) \in Seq(Alarm)
  BY <1>2, <1>6, InsertAtProperties DEF IsInsertion
<1>9. AdvanceRepeatAlarm(lst, idx) = InsertAt(RemoveAt(lst, idx), j, moved)
  BY DEF AdvanceRepeatAlarm, j, moved, n
<1>10. j \in 1..Len(lst)
  BY <1>5, <1>8 DEF n
<1>11. moved = [lst[idx] EXCEPT !.ts = lst[idx].ts + Week]
  BY DEF moved, NextWeeklyOccurrence
<1> QED BY <1>7, <1>9, <1>10, <1>11

-----------------------------------------------------------------------------
(* Which rows the operations leave                                         *)

\* The rows of two tables end to end are the rows of both.
LEMMA ConcatRows ==
    ASSUME NEW s \in Seq(Alarm), NEW t \in Seq(Alarm)
    PROVE  /\ s \o t \in Seq(Alarm)
           /\ ToSet(s \o t) \subseteq ToSet(s) \cup ToSet(t)
<1>1. Len(s) \in Nat /\ DOMAIN s = 1..Len(s) /\ Len(t) \in Nat /\ DOMAIN t = 1..Len(t)
  BY LenProperties
<1>2. /\ s \o t \in Seq(Alarm) /\ Len(s \o t) = Len(s) + Len(t)
      /\ \A i \in 1..Len(s)+Len(t) :
            (s \o t)[i] = IF i <= Len(s) THEN s[i] ELSE t[i - Len(s)]
  BY ConcatProperties
<1>3. ASSUME NEW i \in 1..Len(s)+Len(t)
      PROVE  (s \o t)[i] \in ToSet(s) \cup ToSet(t)
  <2>1. CASE i <= Len(s)
    BY <1>1, <1>2, <2>1 DEF ToSet
  <2>2. CASE ~ (i <= Len(s))
    <3>1. i - Len(s) \in DOMAIN t
      BY <1>1, <2>2
    <3> QED BY <1>2, <2>2, <3>1 DEF ToSet
  <2> QED BY <2>1, <2>2
<1>4. DOMAIN (s \o t) = 1..Len(s)+Len(t)
  BY <1>2, LenProperties
<1> QED BY <1>2, <1>3, <1>4 DEF ToSet

\* A part of a table has rows of the table.
LEMMA SubSeqRows ==
    ASSUME NEW s \in Seq(Alarm), NEW m \in Nat \ {0}, NEW n \in 0..Len(s)
    PROVE  /\ SubSeq(s, m, n) \in Seq(Alarm)
           /\ ToSet(SubSeq(s, m, n)) \subseteq ToSet(s)
<1>1. Len(s) \in Nat /\ DOMAIN s = 1..Len(s) /\ \A q \in 1..Len(s) : s[q] \in Alarm
  BY LenProperties, ElementOfSeq
<1>2. \A q \in m..n : s[q] \in Alarm
  BY <1>1
<1>3. /\ SubSeq(s, m, n) \in Seq(Alarm)
      /\ Len(SubSeq(s, m, n)) = IF m <= n THEN n-m+1 ELSE 0
      /\ \A q \in 1..n-m+1 : SubSeq(s, m, n)[q] = s[m+q-1]
  BY <1>1, <1>2, SubSeqProperties
<1>4. DOMAIN SubSeq(s, m, n) = 1..Len(SubSeq(s, m, n))
  BY <1>3, LenProperties
<1>5. ASSUME NEW q \in DOMAIN SubSeq(s, m, n)
      PROVE  SubSeq(s, m, n)[q] \in ToSet(s)
  <2>1. q \in 1..n-m+1
    BY <1>1, <1>3, <1>4
  <2>2. m+q-1 \in DOMAIN s
    BY <1>1, <2>1
  <2> QED BY <1>3, <2>1, <2>2 DEF ToSet
<1> QED BY <1>3, <1>5 DEF ToSet

\* A row appended is one row more.
LEMMA AppendRows ==
    ASSUME NEW s \in Seq(Alarm), NEW r \in Alarm
    PROVE  ToSet(Append(s, r)) = ToSet(s) \cup {r}
<1>1. /\ Len(s) \in Nat /\ DOMAIN s = 1..Len(s)
      /\ Append(s, r) \in Seq(Alarm) /\ Len(Append(s, r)) = Len(s) + 1
      /\ \A i \in 1..Len(s) : Append(s, r)[i] = s[i]
      /\ Append(s, r)[Len(s) + 1] = r
  BY LenProperties, AppendProperties
<1>2. DOMAIN Append(s, r) = 1..Len(s)+1
  BY <1>1, LenProperties
<1>3. 1..Len(s)+1 = (1..Len(s)) \cup {Len(s) + 1}
  BY <1>1
<1> QED BY <1>1, <1>2, <1>3 DEF ToSet

\* Sorting leaves the chosen rows.
LEMMA ByTimeRows ==
    ASSUME NEW s \in Seq(Alarm), NEW K \in SUBSET DOMAIN s
    PROVE  ToSet(ByTime(s, K)) = {s[i] : i \in K}
BY ByTimeProperties DEF ToSet

\* Pushing adds rows of the items only.
LEMMA PushAllRows ==
    ASSUME NEW lst \in Seq(Alarm), NEW items \in Seq(Alarm)
    PROVE  ToSet(PushAll(lst, items)) \subseteq ToSet(lst) \cup ToSet(items)
<1> DEFINE s == lst \o items
           K == {i \in DOMAIN s : i <= MaxRows}
<1>1. s \in Seq(Alarm) /\ ToSet(s) \subseteq ToSet(lst) \cup ToSet(items)
  BY ConcatRows
<1>2. K \in SUBSET DOMAIN s
  OBVIOUS
<1>3. PushAll(lst, items) = ByTime(s, K)
  BY DEF PushAll
<1> HIDE DEF s
<1>4. {s[i] : i \in K} \subseteq ToSet(s)
  BY <1>2 DEF ToSet
<1> HIDE DEF K
<1> QED BY <1>1, <1>2, <1>3, <1>4, ByTimeRows

\* Removing a task leaves rows of the table.
LEMMA TaskRemoveAllRows ==
    ASSUME NEW lst \in Seq(Alarm), NEW t
    PROVE  ToSet(TaskRemoveAll(lst, t)) \subseteq ToSet(lst)
<1>1. DOMAIN lst \ RowsOf(lst, t) \in SUBSET DOMAIN lst
  OBVIOUS
<1> QED BY <1>1, ByTimeRows DEF TaskRemoveAll, ToSet

\* A purged table has rows after `now`: rows of the table, and weekly rows
\* that were due, moved to their next occurrence.
LEMMA PurgeRows ==
    ASSUME NEW lst \in Seq(Alarm), NEW now \in Int,
           NEW r \in ToSet(PurgePastAlarms(lst, now))
    PROVE  /\ r \in Alarm /\ r.ts > now
           /\ \/ r \in ToSet(lst)
              \/ \E o \in ToSet(lst) :
                    /\ o \in Alarm /\ o.does_repeat /\ o.ts <= now
                    /\ r = [o EXCEPT !.ts = AdvanceRepeatToFuture(o.ts, now)]
<1> DEFINE moved == Advanced(lst, now)
           K == Future(moved, now)
<1>1. moved \in Seq(Alarm) /\ DOMAIN moved = DOMAIN lst
  BY AdvancedType
<1>2. K \in SUBSET DOMAIN moved
  BY DEF Future
<1>3. PurgePastAlarms(lst, now) \in Seq(Alarm) /\ r \in Alarm /\ r.ts > now
  <2> DEFINE t == PurgePastAlarms(lst, now)
  <2>1. t \in Seq(Alarm) /\ \A p \in DOMAIN t : t[p].ts > now
    BY PurgeLeavesFuture
  <2> HIDE DEF t
  <2>2. PICK p \in DOMAIN t : r = t[p]
    BY DEF t, ToSet
  <2>3. t[p] \in Alarm
    BY <2>1, RowType
  <2> QED BY <2>1, <2>2, <2>3 DEF t
<1>4. PurgePastAlarms(lst, now) = IF Due(lst, now) = {} THEN lst ELSE ByTime(moved, K)
  BY DEF PurgePastAlarms
<1>5. ASSUME r \notin ToSet(lst)
      PROVE  \E o \in ToSet(lst) :
                    /\ o \in Alarm /\ o.does_repeat /\ o.ts <= now
                    /\ r = [o EXCEPT !.ts = AdvanceRepeatToFuture(o.ts, now)]
  <2> HIDE DEF moved, K
  <2>1. PICK i \in K : r = moved[i]
    BY <1>1, <1>2, <1>4, <1>5, ByTimeRows
  <2>2. /\ i \in DOMAIN lst /\ lst[i] \in ToSet(lst)
        /\ lst[i] \in Alarm /\ lst[i].ts \in Int
    BY <1>1, <1>2, <2>1, RowType DEF ToSet
  <2>3. lst[i].does_repeat
    BY <1>5, <2>1, <2>2 DEF moved, Advanced
  <2>4. r = [lst[i] EXCEPT !.ts = AdvanceRepeatToFuture(lst[i].ts, now)]
    BY <2>1, <2>2, <2>3 DEF moved, Advanced
  <2>5. lst[i].ts <= now
    <3>1. SUFFICES ASSUME ~ (lst[i].ts <= now) PROVE FALSE
      OBVIOUS
    <3>2. r = [lst[i] EXCEPT !.ts = lst[i].ts]
      BY <2>4, <3>1 DEF AdvanceRepeatToFuture
    <3>3. r = lst[i]
      BY <2>2, <3>2 DEF Alarm
    <3> QED BY <1>5, <2>2, <3>3
  <2> QED BY <2>2, <2>3, <2>4, <2>5
<1> QED BY <1>3, <1>5

\* Advancing a row leaves the others, and the row a week later.
LEMMA AdvanceRows ==
    ASSUME NEW lst \in Seq(Alarm), NEW idx \in DOMAIN lst
    PROVE  ToSet(AdvanceRepeatAlarm(lst, idx)) \subseteq
               ToSet(lst) \cup {[lst[idx] EXCEPT !.ts = lst[idx].ts + Week]}
<1> DEFINE n == Len(lst)
           moved == [lst[idx] EXCEPT !.ts = lst[idx].ts + Week]
           rest == RemoveAt(lst, idx)
<1>1. n \in Nat /\ idx \in 1..n /\ DOMAIN lst = 1..n
  BY LenProperties
<1>2. lst[idx] \in Alarm /\ lst[idx].ts + Week \in Int
  BY RowType, WeekAssumption
<1>3. moved \in Alarm
  BY <1>2, MovedRow
<1>4. rest \in Seq(Alarm) /\ ToSet(rest) \subseteq ToSet(lst) /\ Len(rest) = n - 1
  <2>1. idx-1 \in 0..n /\ n \in 0..n /\ idx+1 \in Nat \ {0} /\ 1 \in Nat \ {0}
    BY <1>1
  <2> DEFINE l == SubSeq(lst, 1, idx-1)
             k == SubSeq(lst, idx+1, n)
  <2>2. /\ l \in Seq(Alarm) /\ ToSet(l) \subseteq ToSet(lst)
        /\ k \in Seq(Alarm) /\ ToSet(k) \subseteq ToSet(lst)
    BY <2>1, SubSeqRows
  <2>3. rest = l \o k
    BY DEF RemoveAt
  <2>4. rest \in Seq(Alarm) /\ Len(rest) = n - 1
    BY <1>1, RemoveAtType
  <2> HIDE DEF rest, l, k
  <2>5. ToSet(rest) \subseteq ToSet(lst)
    BY <2>2, <2>3, ConcatRows
  <2> QED BY <2>4, <2>5
<1>5. PICK j \in 1..n : AdvanceRepeatAlarm(lst, idx) = InsertAt(rest, j, moved)
  BY AdvanceRepeatAlarmType
<1> HIDE DEF moved, rest, n
<1>6. /\ SubSeq(rest, 1, j-1) \in Seq(Alarm)
      /\ ToSet(SubSeq(rest, 1, j-1)) \subseteq ToSet(lst)
      /\ SubSeq(rest, j, Len(rest)) \in Seq(Alarm)
      /\ ToSet(SubSeq(rest, j, Len(rest))) \subseteq ToSet(lst)
  <2>1. /\ j-1 \in 0..Len(rest) /\ j \in Nat \ {0} /\ 1 \in Nat \ {0}
        /\ Len(rest) \in 0..Len(rest)
    BY <1>1, <1>4
  <2> QED BY <1>4, <2>1, SubSeqRows
<1>7. <<moved>> \in Seq(Alarm) /\ ToSet(<<moved>>) \subseteq {moved}
  BY <1>3 DEF ToSet
<1>8. ToSet(InsertAt(rest, j, moved)) \subseteq ToSet(lst) \cup {moved}
  <2>1. /\ SubSeq(rest, 1, j-1) \o <<moved>> \in Seq(Alarm)
        /\ ToSet(SubSeq(rest, 1, j-1) \o <<moved>>) \subseteq ToSet(lst) \cup {moved}
    BY <1>6, <1>7, ConcatRows
  <2>2. InsertAt(rest, j, moved) =
            (SubSeq(rest, 1, j-1) \o <<moved>>) \o SubSeq(rest, j, Len(rest))
    BY DEF InsertAt
  <2> QED BY <1>6, <2>1, <2>2, ConcatRows
<1> QED BY <1>5, <1>8 DEF moved

-----------------------------------------------------------------------------
(* Tables that sort alike                                                  *)

\* Row r of the chosen ones stands at its rank.
LEMMA RowAtRank ==
    ASSUME NEW s \in Seq(Alarm), NEW K \in SUBSET DOMAIN s, NEW r \in K
    PROVE  /\ Rank(s, K, r) \in 1..Cardinality(K)
           /\ ByTime(s, K)[Rank(s, K, r)] = s[r]
<1> DEFINE n == Cardinality(K)
           at(p) == CHOOSE i \in K : Rank(s, K, i) = p
<1>1. n \in Nat /\ \A i \in K : Rank(s, K, i) \in 1..n
  BY RankOrder
<1>2. ByTime(s, K) = [p \in 1..n |-> s[at(p)]]
  BY DEF ByTime
<1>3. at(Rank(s, K, r)) = r
  BY <1>1, RankUnique
<1> HIDE DEF n, at
<1> QED BY <1>1, <1>2, <1>3 DEF n

\* Only one table has every row at its rank.
LEMMA ByTimeIs ==
    ASSUME NEW s \in Seq(Alarm), NEW K \in SUBSET DOMAIN s,
           NEW u \in Seq(Alarm), Len(u) = Cardinality(K),
           \A r \in K : u[Rank(s, K, r)] = s[r]
    PROVE  u = ByTime(s, K)
<1> DEFINE v == ByTime(s, K)
<1>1. v \in Seq(Alarm) /\ Len(v) = Cardinality(K)
  BY ByTimeProperties
<1>2. ASSUME NEW p \in 1..Len(u) PROVE u[p] = v[p]
  <2>1. p \in 1..Cardinality(K)
    BY <1>2
  <2>2. PICK r \in K : Rank(s, K, r) = p
    BY <2>1, RankUnique
  <2>3. v[p] = s[r]
    BY <2>2, RowAtRank
  <2> QED BY <2>2, <2>3
<1> HIDE DEF v
<1>3. u = v
  BY <1>1, <1>2, SeqEqual
<1> QED BY <1>3 DEF v

\* Rows that are renumbered without a change of their order sort alike.
LEMMA SortAlike ==
    ASSUME NEW s \in Seq(Alarm), NEW K \in SUBSET DOMAIN s,
           NEW u \in Seq(Alarm), NEW J \in SUBSET DOMAIN u,
           NEW f \in Bijection(K, J), \A r \in K : u[f[r]] = s[r],
           \A q, r \in K : Precedes(u, f[q], f[r]) <=> Precedes(s, q, r)
    PROVE  ByTime(u, J) = ByTime(s, K)
<1>1. /\ f \in [K -> J]
      /\ \A q, r \in K : f[q] = f[r] => q = r
      /\ \A p \in J : \E q \in K : f[q] = p
  BY DEF Bijection, Injection, Surjection, IsInjective
<1>2. IsFiniteSet(K)
  BY RankOrder
<1>3. Cardinality(J) = Cardinality(K)
  <2>1. ExistsBijection(K, J)
    BY DEF ExistsBijection
  <2> QED BY <1>2, <2>1, FS_Bijection
<1>4. ASSUME NEW r \in K PROVE Rank(u, J, f[r]) = Rank(s, K, r)
  <2> DEFINE A == {q \in K : Precedes(s, q, r)}
             B == {p \in J : Precedes(u, p, f[r])}
             g == [q \in A |-> f[q]]
  <2>1. g \in [A -> B]
    BY <1>1
  <2>2. \A p, q \in A : g[p] = g[q] => p = q
    BY <1>1
  <2>3. \A p \in B : \E q \in A : g[q] = p
    <3> SUFFICES ASSUME NEW p \in B PROVE \E q \in A : g[q] = p
      OBVIOUS
    <3>1. PICK q \in K : f[q] = p
      BY <1>1
    <3>2. q \in A
      BY <3>1
    <3> QED BY <3>1, <3>2
  <2>4. IsFiniteSet(A)
    BY <1>2, FS_Subset
  <2> HIDE DEF A, B, g
  <2>5. ExistsBijection(A, B)
    BY <2>1, <2>2, <2>3 DEF ExistsBijection, Bijection, Injection, Surjection, IsInjective
  <2>6. Cardinality(B) = Cardinality(A)
    BY <2>4, <2>5, FS_Bijection
  <2> QED BY <2>6 DEF Rank, A, B
<1>5. ByTime(u, J) \in Seq(Alarm) /\ Len(ByTime(u, J)) = Cardinality(K)
  BY <1>3, ByTimeProperties
<1>6. ASSUME NEW r \in K PROVE ByTime(u, J)[Rank(s, K, r)] = s[r]
  <2>1. f[r] \in J
    BY <1>1
  <2>2. ByTime(u, J)[Rank(u, J, f[r])] = u[f[r]]
    BY <2>1, RowAtRank
  <2> QED BY <1>4, <2>2
<1> HIDE DEF Bijection
<1> QED BY <1>5, <1>6, ByTimeIs

\* Sorting looks at the chosen rows only.
LEMMA SortLocal ==
    ASSUME NEW s \in Seq(Alarm), NEW K \in SUBSET DOMAIN s,
           NEW u \in Seq(Alarm), K \subseteq DOMAIN u,
           \A r \in K : u[r] = s[r]
    PROVE  ByTime(u, K) = ByTime(s, K)
<1> DEFINE f == [r \in K |-> r]
<1>1. f \in Bijection(K, K)
  BY DEF Bijection, Injection, Surjection, IsInjective
<1>2. /\ \A r \in K : u[f[r]] = s[r]
      /\ \A q, r \in K : Precedes(u, f[q], f[r]) <=> Precedes(s, q, r)
  BY DEF Precedes
<1> HIDE DEF f
<1> QED BY <1>1, <1>2, SortAlike

\* Exchanging a row and an earlier one behind it is a step of sorting.
LEMMA SortSwap ==
    ASSUME NEW s \in Seq(Alarm), NEW K \in SUBSET DOMAIN s,
           NEW u \in Seq(Alarm), DOMAIN u = DOMAIN s,
           NEW i \in K, i + 1 \in K, s[i].ts > s[i+1].ts,
           u[i] = s[i+1], u[i+1] = s[i],
           \A r \in K \ {i, i+1} : u[r] = s[r]
    PROVE  ByTime(u, K) = ByTime(s, K)
<1> DEFINE f == [r \in K |-> IF r = i THEN i + 1 ELSE IF r = i + 1 THEN i ELSE r]
<1>1. \A r \in K : r \in Nat /\ s[r].ts \in Int
  BY RowType
<1>2. f \in Bijection(K, K)
  <2>1. f \in [K -> K]
    OBVIOUS
  <2>2. \A r \in K : f[f[r]] = r
    BY <1>1
  <2> HIDE DEF f
  <2> QED BY <2>1, <2>2 DEF Bijection, Injection, Surjection, IsInjective
<1>3. \A r \in K : u[f[r]] = s[r]
  BY <1>1
<1>4. ASSUME NEW q \in K, NEW r \in K
      PROVE  Precedes(u, f[q], f[r]) <=> Precedes(s, q, r)
  <2>1. u[f[q]] = s[q] /\ u[f[r]] = s[r]
    BY <1>3
  <2>2. s[q].ts = s[r].ts => (f[q] <= f[r] <=> q <= r)
    BY <1>1
  <2> QED BY <2>1, <2>2 DEF Precedes
<1> HIDE DEF f
<1> QED BY <1>2, <1>3, <1>4, SortAlike

\* The row of a table from which row i has been taken.
LEMMA RemoveAtRows ==
    ASSUME NEW lst \in Seq(Alarm), NEW i \in 1..Len(lst)
    PROVE  /\ RemoveAt(lst, i) \in Seq(Alarm)
           /\ Len(RemoveAt(lst, i)) = Len(lst) - 1
           /\ \A q \in 1..Len(lst)-1 :
                 RemoveAt(lst, i)[q] = IF q < i THEN lst[q] ELSE lst[q+1]
<1> DEFINE n == Len(lst)
           l == SubSeq(lst, 1, i-1)
           r == SubSeq(lst, i+1, n)
<1>1. n \in Nat /\ \A q \in 1..n : lst[q] \in Alarm
  BY LenProperties, ElementOfSeq
<1>2. /\ l \in Seq(Alarm) /\ Len(l) = i-1
      /\ \A q \in 1..i-1 : l[q] = lst[q]
  <2>1. \A q \in 1..i-1 : lst[q] \in Alarm
    BY <1>1
  <2> QED BY <1>1, <2>1, SubSeqProperties
<1>3. /\ r \in Seq(Alarm) /\ Len(r) = n-i
      /\ \A q \in 1..n-i : r[q] = lst[i+q]
  <2>1. \A q \in i+1..n : lst[q] \in Alarm
    BY <1>1
  <2>2. /\ r \in Seq(Alarm) /\ Len(r) = IF i+1 <= n THEN n-(i+1)+1 ELSE 0
        /\ \A q \in 1..n-(i+1)+1 : r[q] = lst[(i+1)+q-1]
    BY <1>1, <2>1, SubSeqProperties
  <2> QED BY <1>1, <2>2
<1> HIDE DEF l, r
<1>4. \A q \in 1..Len(l)+Len(r) : (l \o r)[q] = IF q <= Len(l) THEN l[q] ELSE r[q - Len(l)]
  BY <1>2, <1>3, ConcatProperties
<1>5. RemoveAt(lst, i) = l \o r
  BY DEF RemoveAt, l, r
<1>6. ASSUME NEW q \in 1..n-1
      PROVE  (l \o r)[q] = IF q < i THEN lst[q] ELSE lst[q+1]
  <2>1. q \in 1..Len(l)+Len(r)
    BY <1>1, <1>2, <1>3
  <2>2. (l \o r)[q] = IF q <= i-1 THEN l[q] ELSE r[q - (i-1)]
    BY <1>2, <1>4, <2>1
  <2>3. CASE q < i
    BY <1>2, <2>2, <2>3
  <2>4. CASE ~ (q < i)
    <3>1. q - (i-1) \in 1..n-i /\ i + (q - (i-1)) = q + 1
      BY <1>1, <2>4
    <3> QED BY <1>3, <2>2, <2>4, <3>1
  <2> QED BY <2>3, <2>4
<1> QED BY <1>5, <1>6, RemoveAtType

\* Where the rows of K are when row i, not one of them, has been taken out.
WithoutRow(K, i) == {IF k < i THEN k ELSE k - 1 : k \in K}

\* Taking out a row that is not chosen does not matter.
LEMMA SortWithout ==
    ASSUME NEW s \in Seq(Alarm), NEW K \in SUBSET DOMAIN s,
           NEW i \in DOMAIN s, i \notin K
    PROVE  /\ WithoutRow(K, i) \in SUBSET DOMAIN RemoveAt(s, i)
           /\ ByTime(RemoveAt(s, i), WithoutRow(K, i)) = ByTime(s, K)
<1> DEFINE u == RemoveAt(s, i)
           J == WithoutRow(K, i)
           f == [k \in K |-> IF k < i THEN k ELSE k - 1]
<1>1. DOMAIN s = 1..Len(s) /\ Len(s) \in Nat
  BY LenProperties
<1>2. /\ u \in Seq(Alarm) /\ Len(u) = Len(s) - 1
      /\ \A q \in 1..Len(s)-1 : u[q] = IF q < i THEN s[q] ELSE s[q+1]
  BY <1>1, RemoveAtRows
<1>3. DOMAIN u = 1..Len(s)-1
  BY <1>2, LenProperties
<1>4. i \in Nat /\ \A k \in K : k \in 1..Len(s) /\ k # i
  BY <1>1
<1> HIDE DEF u
<1>5. \A k \in K : f[k] \in 1..Len(s)-1 /\ u[f[k]] = s[k]
  <2> SUFFICES ASSUME NEW k \in K PROVE f[k] \in 1..Len(s)-1 /\ u[f[k]] = s[k]
    OBVIOUS
  <2>1. CASE k < i
    BY <1>1, <1>2, <1>4, <2>1
  <2>2. CASE ~ (k < i)
    <3>1. f[k] = k-1 /\ k-1 \in 1..Len(s)-1 /\ ~ (k-1 < i) /\ (k-1)+1 = k
      BY <1>1, <1>4, <2>2
    <3> QED BY <1>2, <3>1
  <2> QED BY <2>1, <2>2
<1>6. J = {f[k] : k \in K}
  BY DEF WithoutRow
<1>7. \A q, r \in K : f[q] <= f[r] <=> q <= r
  BY <1>1, <1>4
<1>8. J \in SUBSET DOMAIN u
  BY <1>3, <1>5, <1>6
<1>9. f \in Bijection(K, J)
  <2>1. f \in [K -> J]
    BY <1>6
  <2>2. \A q, r \in K : f[q] = f[r] => q = r
    BY <1>1, <1>4
  <2> HIDE DEF f, J
  <2> QED BY <1>6, <2>1, <2>2 DEF Bijection, Injection, Surjection, IsInjective
<1>10. \A q, r \in K : Precedes(u, f[q], f[r]) <=> Precedes(s, q, r)
  BY <1>5, <1>7 DEF Precedes
<1> HIDE DEF f, J
<1>11. ByTime(u, J) = ByTime(s, K)
  BY <1>2, <1>5, <1>8, <1>9, <1>10, SortAlike
<1> QED BY <1>8, <1>11 DEF u, J

\* A beginning that is in order is left as it is.
LEMMA InOrder ==
    ASSUME NEW s \in Seq(Alarm), IsSortedByTime(s)
    PROVE  ByTime(s, DOMAIN s) = s
<1> DEFINE n == Len(s)
<1>1. DOMAIN s = 1..n /\ n \in Nat
  BY LenProperties
<1>2. \A q \in 1..n : q \in Int /\ s[q].ts \in Int
  BY <1>1, RowType
<1>3. ASSUME NEW r \in Nat PROVE Cardinality(1..r) = r
  <2>1. r \in Int /\ 1 \in Int
    OBVIOUS
  <2>2. Cardinality(1..r) = IF 1 > r THEN 0 ELSE r-1+1
    BY <2>1, FS_Interval
  <2> QED BY <2>2
<1>4. ASSUME NEW r \in 1..n PROVE Rank(s, 1..n, r) = r
  <2>1. \A p, q \in 1..n : p < q => s[p].ts <= s[q].ts
    BY <1>1 DEF IsSortedByTime
  <2>2. \A q \in 1..n : Precedes(s, q, r) <=> q <= r
    BY <1>2, <2>1 DEF Precedes
  <2> HIDE DEF n
  <2>3. {q \in 1..n : Precedes(s, q, r)} = 1..r
    <3> DEFINE P(q) == Precedes(s, q, r)
    <3>1. \A q \in 1..n : P(q) <=> q <= r
      BY <2>2
    <3> HIDE DEF P
    <3>2. {q \in 1..n : P(q)} = 1..r
      BY <1>1, <3>1
    <3> QED BY <3>2 DEF P
  <2>4. r \in Nat
    BY <1>1
  <2> QED BY <1>3, <2>3, <2>4 DEF Rank
<1>5. Cardinality(1..n) = n
  BY <1>1, <1>3
<1> HIDE DEF n
<1>6. \A r \in DOMAIN s : s[Rank(s, DOMAIN s, r)] = s[r]
  BY <1>1, <1>4
<1>7. Len(s) = Cardinality(DOMAIN s)
  BY <1>1, <1>5 DEF n
<1> QED BY <1>6, <1>7, ByTimeIs

-----------------------------------------------------------------------------
(* What the rest of a loop still has to do                                 *)

\* Taking out a row behind which the others close up leaves the order.
LEMMA WithoutSorted ==
    ASSUME NEW s \in Seq(Alarm), IsSortedByTime(s), NEW i \in 1..Len(s)
    PROVE  IsSortedByTime(RemoveAt(s, i))
<1> DEFINE u == RemoveAt(s, i)
<1>1. DOMAIN s = 1..Len(s) /\ Len(s) \in Nat
  BY LenProperties
<1>2. /\ u \in Seq(Alarm) /\ Len(u) = Len(s) - 1
      /\ \A q \in 1..Len(s)-1 : u[q] = IF q < i THEN s[q] ELSE s[q+1]
  BY RemoveAtRows
<1> HIDE DEF u
<1>3. DOMAIN u = 1..Len(s)-1
  BY <1>2, LenProperties
<1>4. \A p, q \in 1..Len(s) : p < q => s[p].ts <= s[q].ts
  BY <1>1 DEF IsSortedByTime
<1>5. ASSUME NEW p \in 1..Len(s)-1, NEW q \in 1..Len(s)-1, p < q
      PROVE  u[p].ts <= u[q].ts
  <2>1. /\ p \in 1..Len(s) /\ p+1 \in 1..Len(s) /\ q \in 1..Len(s) /\ q+1 \in 1..Len(s)
        /\ p < q+1 /\ p+1 < q+1
    BY <1>1, <1>5
  <2>2. CASE q < i
    BY <1>2, <1>4, <1>5, <2>1, <2>2
  <2>3. CASE ~ (q < i)
    <3>1. u[q] = s[q+1]
      BY <1>2, <2>3
    <3>2. u[p] = s[p] \/ u[p] = s[p+1]
      BY <1>2
    <3> QED BY <1>4, <2>1, <3>1, <3>2
  <2> QED BY <2>2, <2>3
<1> QED BY <1>3, <1>5 DEF IsSortedByTime, u

\* Taking out a row of the task is a step of todox_task_remove_all.
LEMMA RemoveAllStep ==
    ASSUME NEW s \in Seq(Alarm), NEW t \in Tasks, NEW i \in RowsOf(s, t)
    PROVE  /\ TaskRemoveAll(RemoveAt(s, i), t) = TaskRemoveAll(s, t)
           /\ Cardinality(RowsOf(RemoveAt(s, i), t)) = Cardinality(RowsOf(s, t)) - 1
<1> DEFINE u == RemoveAt(s, i)
           S == RowsOf(s, t)
           K == DOMAIN s \ S
           R == S \ {i}
<1>1. DOMAIN s = 1..Len(s) /\ Len(s) \in Nat /\ i \in 1..Len(s)
  BY LenProperties DEF RowsOf
<1>2. /\ u \in Seq(Alarm) /\ Len(u) = Len(s) - 1
      /\ \A q \in 1..Len(s)-1 : u[q] = IF q < i THEN s[q] ELSE s[q+1]
  BY <1>1, RemoveAtRows
<1> HIDE DEF u
<1>3. DOMAIN u = 1..Len(s)-1
  BY <1>2, LenProperties
<1>4. /\ S \in SUBSET DOMAIN s /\ \A q \in DOMAIN s : q \in S <=> s[q].task = t
      /\ i \in S
  BY DEF RowsOf
<1>5. \A q \in DOMAIN u : q \in RowsOf(u, t) <=> u[q].task = t
  BY DEF RowsOf
<1>6. RowsOf(u, t) \in SUBSET DOMAIN u
  BY DEF RowsOf
<1> HIDE DEF S
<1>7. ASSUME NEW q \in DOMAIN u
      PROVE  /\ q \in RowsOf(u, t) <=> q \in WithoutRow(R, i)
             /\ q \in DOMAIN u \ RowsOf(u, t) <=> q \in WithoutRow(K, i)
  <2> DEFINE b == IF q < i THEN q ELSE q+1
  <2>1. b \in DOMAIN s /\ b # i /\ u[q] = s[b] /\ q = IF b < i THEN b ELSE b-1
    BY <1>1, <1>2, <1>3
  <2>2. \A k \in DOMAIN s : k # i /\ q = (IF k < i THEN k ELSE k-1) => k = b
    BY <1>1, <1>3
  <2> HIDE DEF b
  <2>3. q \in WithoutRow(R, i) <=> b \in R
    BY <1>4, <2>1, <2>2 DEF WithoutRow
  <2>4. i \notin K /\ K \subseteq DOMAIN s
    BY <1>4
  <2>5. q \in WithoutRow(K, i) <=> b \in K
    BY <2>1, <2>2, <2>4 DEF WithoutRow
  <2> QED BY <1>4, <1>5, <2>1, <2>3, <2>5
<1>8. i \in S /\ K \in SUBSET DOMAIN s /\ i \notin K /\ R \in SUBSET DOMAIN s /\ i \notin R
  BY <1>4
<1>9. i \in DOMAIN s
  BY <1>1
<1> HIDE DEF K, R
<1>10. /\ WithoutRow(R, i) \in SUBSET DOMAIN u /\ ByTime(u, WithoutRow(R, i)) = ByTime(s, R)
       /\ WithoutRow(K, i) \in SUBSET DOMAIN u /\ ByTime(u, WithoutRow(K, i)) = ByTime(s, K)
  BY <1>8, <1>9, SortWithout DEF u
<1>11. RowsOf(u, t) = WithoutRow(R, i) /\ DOMAIN u \ RowsOf(u, t) = WithoutRow(K, i)
  BY <1>6, <1>7, <1>10
<1>12. TaskRemoveAll(u, t) = TaskRemoveAll(s, t)
  BY <1>10, <1>11 DEF TaskRemoveAll, K, S
<1>13. Cardinality(WithoutRow(R, i)) = Cardinality(R)
  <2>1. Len(ByTime(u, WithoutRow(R, i))) = Cardinality(WithoutRow(R, i))
    BY <1>2, <1>10, ByTimeProperties
  <2>2. Len(ByTime(s, R)) = Cardinality(R)
    BY <1>8, ByTimeProperties
  <2> QED BY <1>10, <2>1, <2>2
<1>14. Cardinality(R) = Cardinality(S) - 1
  <2>1. IsFiniteSet(S)
    BY <1>4, RankOrder
  <2> QED BY <1>8, <2>1, FS_RemoveElement DEF R
<1> QED BY <1>11, <1>12, <1>13, <1>14 DEF u, S

\* WithoutRow a row of the task there is nothing to remove.
LEMMA RemoveAllDone ==
    ASSUME NEW s \in Seq(Alarm), NEW t \in Tasks, IsSortedByTime(s), RowsOf(s, t) = {}
    PROVE  TaskRemoveAll(s, t) = s /\ Cardinality(RowsOf(s, t)) = 0
<1>1. DOMAIN s \ RowsOf(s, t) = DOMAIN s
  OBVIOUS
<1> QED BY <1>1, InOrder, FS_EmptySet DEF TaskRemoveAll

\* todox_task_find gives the first row of the task.
LEMMA FindIs ==
    ASSUME NEW s \in Seq(Alarm), NEW t, NEW i \in RowsOf(s, t),
           \A q \in 1..i-1 : s[q].task # t
    PROVE  TaskFind(s, t) = i
<1> DEFINE I == RowsOf(s, t)
<1>1. DOMAIN s = 1..Len(s) /\ Len(s) \in Nat
  BY LenProperties
<1>2. I = {q \in 1..Len(s) : s[q].task = t} /\ I \in SUBSET Nat
  BY <1>1 DEF RowsOf
<1>3. TaskFind(s, t) = IF I # {} THEN Min(I) ELSE 0
  BY <1>2 DEF TaskFind, SelectInSeq
<1>4. \A q \in I : i <= q
  BY <1>1, <1>2
<1>5. Min(I) \in I /\ \A q \in I : Min(I) <= q
  <2>1. I # {}
    OBVIOUS
  <2> HIDE DEF I
  <2> QED BY <1>2, <2>1, LeastOf DEF Min
<1>6. i \in I /\ i \in Nat /\ Min(I) \in Nat
  BY <1>2, <1>5
<1> HIDE DEF I
<1> QED BY <1>3, <1>4, <1>5, <1>6

\* What a purge leaves of s, whether a row was due or not.
Purged(s, now) == ByTime(Advanced(s, now), Future(Advanced(s, now), now))

\* Dropping a one-shot row that is due is a step of the purge.
LEMMA PurgeDrops ==
    ASSUME NEW s \in Seq(Alarm), NEW now \in Int, NEW i \in DOMAIN s,
           s[i].ts <= now, ~ s[i].does_repeat
    PROVE  Purged(RemoveAt(s, i), now) = Purged(s, now)
<1> DEFINE u == RemoveAt(s, i)
           a == Advanced(s, now)
           b == Advanced(u, now)
           K == Future(a, now)
<1>1. DOMAIN s = 1..Len(s) /\ Len(s) \in Nat /\ i \in 1..Len(s)
  BY LenProperties
<1>2. /\ u \in Seq(Alarm) /\ Len(u) = Len(s) - 1
      /\ \A q \in 1..Len(s)-1 : u[q] = IF q < i THEN s[q] ELSE s[q+1]
  BY <1>1, RemoveAtRows
<1> HIDE DEF u
<1>3. DOMAIN u = 1..Len(s)-1
  BY <1>2, LenProperties
<1>4. /\ a \in Seq(Alarm) /\ Len(a) = Len(s) /\ DOMAIN a = 1..Len(s)
      /\ b \in Seq(Alarm) /\ Len(b) = Len(u) /\ DOMAIN b = 1..Len(s)-1
  BY <1>1, <1>2, <1>3, AdvancedType
<1>5. /\ RemoveAt(a, i) \in Seq(Alarm) /\ Len(RemoveAt(a, i)) = Len(s) - 1
      /\ \A q \in 1..Len(s)-1 : RemoveAt(a, i)[q] = IF q < i THEN a[q] ELSE a[q+1]
  <2> HIDE DEF a, b
  <2> QED BY <1>1, <1>4, RemoveAtRows
<1>6. \A q \in 1..Len(s)-1 :
         b[q] = IF u[q].does_repeat
                THEN [u[q] EXCEPT !.ts = AdvanceRepeatToFuture(@, now)] ELSE u[q]
  BY <1>3 DEF Advanced
<1>7. \A q \in 1..Len(s) :
         a[q] = IF s[q].does_repeat
                THEN [s[q] EXCEPT !.ts = AdvanceRepeatToFuture(@, now)] ELSE s[q]
  BY <1>1 DEF Advanced
<1>8. a[i] = s[i]
  BY <1>1, <1>7
<1> HIDE DEF a, b
<1>9. \A q \in 1..Len(s)-1 : b[q] = RemoveAt(a, i)[q]
  <2> SUFFICES ASSUME NEW q \in 1..Len(s)-1 PROVE b[q] = RemoveAt(a, i)[q]
    OBVIOUS
  <2>1. q \in 1..Len(s) /\ q+1 \in 1..Len(s)
    BY <1>1
  <2>2. CASE q < i
    <3>1. u[q] = s[q] /\ RemoveAt(a, i)[q] = a[q]
      BY <1>2, <1>5, <2>2
    <3> QED BY ONLY <1>6, <1>7, <2>1, <3>1
  <2>3. CASE ~ (q < i)
    <3>1. u[q] = s[q+1] /\ RemoveAt(a, i)[q] = a[q+1]
      BY <1>2, <1>5, <2>3
    <3> QED BY ONLY <1>6, <1>7, <2>1, <3>1
  <2> QED BY <2>2, <2>3
<1>10. b = RemoveAt(a, i)
  BY <1>2, <1>4, <1>5, <1>9, SeqEqual
<1>11. i \in DOMAIN a /\ a[i].ts \in Int
  BY <1>1, <1>4, RowType
<1>12. K \in SUBSET DOMAIN a /\ \A q \in DOMAIN a : q \in K <=> a[q].ts > now
  BY DEF Future
<1>13. i \notin K
  BY <1>8, <1>11, <1>12
<1> HIDE DEF K
<1>14. /\ WithoutRow(K, i) \in SUBSET DOMAIN b
       /\ ByTime(b, WithoutRow(K, i)) = ByTime(a, K)
  BY <1>4, <1>10, <1>11, <1>12, <1>13, SortWithout
<1>15. Future(b, now) = WithoutRow(K, i)
  <2>1. ASSUME NEW q \in DOMAIN b
        PROVE  q \in Future(b, now) <=> q \in WithoutRow(K, i)
    <3> DEFINE c == IF q < i THEN q ELSE q+1
    <3>1. c \in 1..Len(s) /\ c # i /\ q = IF c < i THEN c ELSE c-1
      BY <1>1, <1>4
    <3>2. b[q] = a[c]
      BY <1>4, <1>5, <1>9
    <3>3. \A k \in 1..Len(s) : k # i /\ q = (IF k < i THEN k ELSE k-1) => k = c
      BY <1>1, <1>4
    <3> HIDE DEF c
    <3>4. q \in WithoutRow(K, i) <=> c \in K
      BY <1>4, <1>12, <1>13, <3>1, <3>3 DEF WithoutRow
    <3> QED BY <1>4, <1>12, <3>1, <3>2, <3>4 DEF Future
  <2>2. Future(b, now) \subseteq DOMAIN b
    BY DEF Future
  <2> QED BY <1>14, <2>1, <2>2
<1> QED BY <1>14, <1>15 DEF Purged, a, b, K, u

\* A quotient is bounded on both sides by what is divided.
LEMMA SameQuotient ==
    ASSUME NEW x \in Nat, NEW w \in Nat \ {0}, NEW p \in Nat, NEW q \in Nat,
           w * p <= x, x < w * p + w, w * q <= x, x < w * q + w
    PROVE  p = q
<1>1. w * p \in Int /\ w * q \in Int /\ w * (q - p) = w * q - w * p
  OBVIOUS
<1>2. CASE q - p >= 1
  <2>1. w * (q - p) >= w
    BY <1>2
  <2> QED BY <1>1, <2>1
<1>3. CASE q - p <= -1
  <2>1. w * (q - p) <= - w
    BY <1>3
  <2> QED BY <1>1, <2>1
<1> QED BY <1>2, <1>3

\* A weekly row that is due may move a week at a time.
LEMMA WeekByWeek ==
    ASSUME NEW t \in Int, NEW now \in Int
    PROVE  /\ t <= now => AdvanceRepeatToFuture(NextWeeklyOccurrence(t), now)
                             = AdvanceRepeatToFuture(t, now)
           /\ t > now => AdvanceRepeatToFuture(t, now) = t
           /\ NextWeeklyOccurrence(t) \in Int
<1>1. Week \in Nat \ {0}
  BY WeekAssumption
<1>2. CASE t <= now
  <2> DEFINE x == now - t
             q == x \div Week
  <2>1. x \in Nat /\ q \in Nat /\ Week * q <= x /\ x < Week * q + Week
    BY <1>1, <1>2, DivisionProperties
  <2>2. AdvanceRepeatToFuture(t, now) = t + Week * (q + 1)
    BY <1>2 DEF AdvanceRepeatToFuture
  <2>3. CASE t + Week <= now
    <3> DEFINE y == now - (t + Week)
               r == y \div Week
    <3>1. y \in Nat /\ r \in Nat /\ Week * r <= y /\ y < Week * r + Week
      BY <1>1, <2>3, DivisionProperties
    <3>2. AdvanceRepeatToFuture(t + Week, now) = (t + Week) + Week * (r + 1)
      BY <2>3 DEF AdvanceRepeatToFuture
    <3>3. y = x - Week
      BY <1>1
    <3> HIDE DEF x, y, q, r
    <3>4. Week * r + Week = Week * (r + 1) /\ Week * (r+1) + Week = Week * (r + 2)
      BY <1>1, <3>1
    <3>5. q = r + 1
      <4>1. Week * (r + 1) <= x /\ x < Week * (r + 1) + Week
        BY <1>1, <2>1, <3>1, <3>3, <3>4
      <4>2. r + 1 \in Nat
        BY <3>1
      <4> QED BY <1>1, <2>1, <4>1, <4>2, SameQuotient, Zenon
    <3>6. q + 1 = r + 2 /\ Week * (r + 1) \in Int
      BY <1>1, <3>1, <3>5
    <3>7. AdvanceRepeatToFuture(t + Week, now) = AdvanceRepeatToFuture(t, now)
      BY <1>1, <2>2, <3>2, <3>4, <3>6
    <3> QED BY <1>1, <1>2, <3>7 DEF NextWeeklyOccurrence
  <2>4. CASE t + Week > now
    <3>1. AdvanceRepeatToFuture(t + Week, now) = t + Week
      BY <1>1, <2>4 DEF AdvanceRepeatToFuture
    <3>2. q = 0
      <4>1. Week * 0 <= x /\ x < Week * 0 + Week
        BY <1>1, <1>2, <2>4
      <4> HIDE DEF q, x
      <4> QED BY <1>1, <2>1, <4>1, SameQuotient
    <3> QED BY <1>1, <2>2, <3>1, <3>2 DEF NextWeeklyOccurrence
  <2> QED BY <1>1, <2>3, <2>4
<1>3. CASE t > now
  BY <1>1, <1>3 DEF AdvanceRepeatToFuture, NextWeeklyOccurrence
<1> QED BY <1>1, <1>2, <1>3 DEF NextWeeklyOccurrence

\* Moving a weekly row on by weeks is a step of the purge.
LEMMA PurgeMoves ==
    ASSUME NEW s \in Seq(Alarm), NEW now \in Int, NEW i \in 1..Len(s), NEW v \in Int,
           s[i].does_repeat,
           AdvanceRepeatToFuture(v, now) = AdvanceRepeatToFuture(s[i].ts, now),
           NEW u \in Seq(Alarm), Len(u) = Len(s), u[i] = [s[i] EXCEPT !.ts = v],
           \A q \in 1..Len(s) : q # i => u[q] = s[q]
    PROVE  Purged(u, now) = Purged(s, now)
<1>0. DOMAIN s = 1..Len(s) /\ DOMAIN u = DOMAIN s
  BY LenProperties
<1>1. s[i] \in Alarm
  BY <1>0, RowType
<1>2. u[i].does_repeat /\ u[i].ts = v
  BY <1>1 DEF Alarm
<1>3. [u[i] EXCEPT !.ts = AdvanceRepeatToFuture(@, now)]
         = [s[i] EXCEPT !.ts = AdvanceRepeatToFuture(@, now)]
  BY <1>1, <1>2 DEF Alarm
<1>4. Advanced(u, now) = Advanced(s, now)
  BY <1>0, <1>2, <1>3 DEF Advanced
<1> QED BY <1>4 DEF Purged

\* What is left of a purge when every row is in the future is the sort.
LEMMA PurgeSorts ==
    ASSUME NEW s \in Seq(Alarm), NEW now \in Int, \A q \in DOMAIN s : s[q].ts > now
    PROVE  Purged(s, now) = ByTime(s, DOMAIN s)
<1> DEFINE a == Advanced(s, now)
<1>1. a \in Seq(Alarm) /\ Len(a) = Len(s) /\ DOMAIN a = DOMAIN s
  BY AdvancedType
<1>2. ASSUME NEW q \in DOMAIN s PROVE a[q] = s[q]
  <2>1. s[q] \in Alarm /\ s[q].ts \in Int /\ s[q].ts > now
    BY RowType
  <2>2. AdvanceRepeatToFuture(s[q].ts, now) = s[q].ts
    BY <2>1, WeekByWeek
  <2>3. [s[q] EXCEPT !.ts = AdvanceRepeatToFuture(@, now)] = s[q]
    BY <2>1, <2>2 DEF Alarm
  <2> QED BY <2>3 DEF Advanced
<1>3. \A q \in 1..Len(a) : a[q] = s[q]
  BY <1>1, <1>2, LenProperties
<1> HIDE DEF a
<1>4. a = s
  BY <1>1, <1>3, SeqEqual
<1>5. Future(s, now) = DOMAIN s
  BY DEF Future
<1> QED BY <1>4, <1>5 DEF Purged, a

\* The rows of two tables end to end.
LEMMA ConcatIs ==
    ASSUME NEW s \in Seq(Alarm), NEW t \in Seq(Alarm)
    PROVE  /\ s \o t \in Seq(Alarm) /\ DOMAIN (s \o t) = 1..Len(s)+Len(t)
           /\ Len(s) \in Nat /\ Len(t) \in Nat
           /\ \A q \in 1..Len(s) : (s \o t)[q] = s[q]
           /\ \A q \in 1..Len(t) : (s \o t)[Len(s)+q] = t[q]
<1>1. Len(s) \in Nat /\ Len(t) \in Nat
  BY LenProperties
<1>2. /\ s \o t \in Seq(Alarm) /\ Len(s \o t) = Len(s) + Len(t)
      /\ \A i \in 1..Len(s)+Len(t) :
            (s \o t)[i] = IF i <= Len(s) THEN s[i] ELSE t[i - Len(s)]
  BY ConcatProperties
<1>3. DOMAIN (s \o t) = 1..Len(s)+Len(t)
  BY <1>2, LenProperties
<1>4. \A q \in 1..Len(s) : (s \o t)[q] = s[q]
  BY <1>1, <1>2
<1>5. \A q \in 1..Len(t) : (s \o t)[Len(s)+q] = t[q]
  <2> SUFFICES ASSUME NEW q \in 1..Len(t) PROVE (s \o t)[Len(s)+q] = t[q]
    OBVIOUS
  <2>1. Len(s)+q \in 1..Len(s)+Len(t) /\ ~ (Len(s)+q <= Len(s)) /\ (Len(s)+q)-Len(s) = q
    BY <1>1
  <2> QED BY <1>2, <2>1
<1> QED BY <1>1, <1>2, <1>3, <1>4, <1>5

\* Pushing begins with the first row.
LEMMA PushOn ==
    ASSUME NEW s \in Seq(Alarm), NEW items \in Seq(Alarm), NEW k \in 1..Len(items)
    PROVE  PushAll(Append(s, items[k]), SubSeq(items, k+1, Len(items)))
               = PushAll(s, SubSeq(items, k, Len(items)))
<1> DEFINE n == Len(items)
           t == Append(s, items[k])
           a == SubSeq(items, k+1, n)
           b == SubSeq(items, k, n)
<1>1. n \in Nat /\ \A q \in 1..n : items[q] \in Alarm
  BY LenProperties, ElementOfSeq
<1>2. /\ t \in Seq(Alarm) /\ Len(t) = Len(s) + 1
      /\ \A q \in 1..Len(s) : t[q] = s[q]
      /\ t[Len(s)+1] = items[k]
  BY <1>1, AppendProperties
<1>3. /\ a \in Seq(Alarm) /\ Len(a) = n - k
      /\ \A q \in 1..n-k : a[q] = items[k+q]
  <2>1. \A q \in k+1..n : items[q] \in Alarm
    BY <1>1
  <2>2. /\ a \in Seq(Alarm) /\ Len(a) = IF k+1 <= n THEN n-(k+1)+1 ELSE 0
        /\ \A q \in 1..n-(k+1)+1 : a[q] = items[(k+1)+q-1]
    BY <1>1, <2>1, SubSeqProperties
  <2> QED BY <1>1, <2>2
<1>4. /\ b \in Seq(Alarm) /\ Len(b) = n - k + 1
      /\ \A q \in 1..n-k+1 : b[q] = items[k+q-1]
  <2>1. \A q \in k..n : items[q] \in Alarm
    BY <1>1
  <2>2. /\ b \in Seq(Alarm) /\ Len(b) = IF k <= n THEN n-k+1 ELSE 0
        /\ \A q \in 1..n-k+1 : b[q] = items[k+q-1]
    BY <1>1, <2>1, SubSeqProperties
  <2> QED BY <1>1, <2>2
<1> HIDE DEF t, a, b
<1>5. /\ t \o a \in Seq(Alarm) /\ DOMAIN (t \o a) = 1..Len(t)+Len(a)
      /\ Len(t) \in Nat /\ Len(a) \in Nat
      /\ \A q \in 1..Len(t) : (t \o a)[q] = t[q]
      /\ \A q \in 1..Len(a) : (t \o a)[Len(t)+q] = a[q]
  BY <1>2, <1>3, ConcatIs
<1>6. /\ s \o b \in Seq(Alarm) /\ DOMAIN (s \o b) = 1..Len(s)+Len(b)
      /\ Len(s) \in Nat /\ Len(b) \in Nat
      /\ \A q \in 1..Len(s) : (s \o b)[q] = s[q]
      /\ \A q \in 1..Len(b) : (s \o b)[Len(s)+q] = b[q]
  BY <1>4, ConcatIs
<1> HIDE DEF n
<1>7. ASSUME NEW q \in 1..Len(s)+Len(b) PROVE (t \o a)[q] = (s \o b)[q]
  <2>1. CASE q \in 1..Len(s)
    BY <1>2, <1>5, <1>6, <2>1
  <2>2. CASE q = Len(s) + 1
    <3>1. 1 \in 1..Len(b) /\ q \in 1..Len(t) /\ 1 \in 1..n-k+1 /\ k+1-1 = k
      BY <1>1, <1>2, <1>4, <1>6, <2>2
    <3>2. (s \o b)[q] = b[1] /\ b[1] = items[k]
      BY <1>4, <1>6, <2>2, <3>1
    <3> QED BY <1>2, <1>5, <2>2, <3>1, <3>2
  <2>3. CASE q > Len(s) + 1
    <3> DEFINE j == q - Len(s) - 1
    <3>1. /\ j \in 1..Len(a) /\ j + 1 \in 1..Len(b) /\ j \in 1..n-k /\ j + 1 \in 1..n-k+1
          /\ q = Len(t) + j /\ q = Len(s) + (j + 1) /\ k + (j+1) - 1 = k + j
      BY <1>1, <1>2, <1>3, <1>4, <1>6, <2>3, SMTT(30)
    <3> HIDE DEF j
    <3>2. (s \o b)[q] = b[j+1] /\ b[j+1] = items[k+j]
      BY <1>4, <1>6, <3>1
    <3>3. (t \o a)[q] = a[j] /\ a[j] = items[k+j]
      BY <1>3, <1>5, <3>1
    <3> QED BY <3>2, <3>3
  <2>4. q \in Nat /\ q >= 1 /\ Len(s) \in Nat
    BY <1>6
  <2>5. q \in 1..Len(s) \/ q = Len(s) + 1 \/ q > Len(s) + 1
    BY <2>4
  <2> QED BY <2>1, <2>2, <2>3, <2>5, Zenon
<1>8. Len(t \o a) = Len(s) + Len(b) /\ Len(s \o b) = Len(s) + Len(b)
  <2>1. Len(t) + Len(a) = Len(s) + Len(b)
    BY <1>1, <1>2, <1>3, <1>4, <1>6
  <2>2. Len(t \o a) = Len(t) + Len(a) /\ Len(s \o b) = Len(s) + Len(b)
    BY <1>2, <1>3, <1>4, ConcatProperties
  <2> QED BY <2>1, <2>2
<1>9. t \o a = s \o b
  BY <1>5, <1>6, <1>7, <1>8, SeqEqual
<1> QED BY <1>9 DEF PushAll, t, a, b, n

\* A full table is left as it is.
LEMMA PushFull ==
    ASSUME NEW s \in Seq(Alarm), Len(s) >= MaxRows,
           NEW a \in Seq(Alarm), NEW b \in Seq(Alarm)
    PROVE  PushAll(s, a) = PushAll(s, b)
<1>1. /\ s \o a \in Seq(Alarm) /\ DOMAIN (s \o a) = 1..Len(s)+Len(a)
      /\ Len(s) \in Nat /\ Len(a) \in Nat
      /\ \A q \in 1..Len(s) : (s \o a)[q] = s[q]
  BY ConcatIs
<1>2. /\ s \o b \in Seq(Alarm) /\ DOMAIN (s \o b) = 1..Len(s)+Len(b)
      /\ Len(s) \in Nat /\ Len(b) \in Nat
      /\ \A q \in 1..Len(s) : (s \o b)[q] = s[q]
  BY ConcatIs
<1>3. MaxRows \in Nat
  BY MaxRowsAssumption
<1> DEFINE K == {i \in DOMAIN (s \o a) : i <= MaxRows}
           J == {i \in DOMAIN (s \o b) : i <= MaxRows}
<1>4. K = 1..MaxRows /\ J = 1..MaxRows
  BY <1>1, <1>2, <1>3
<1>5. /\ 1..MaxRows \in SUBSET DOMAIN (s \o a) /\ 1..MaxRows \in SUBSET DOMAIN (s \o b)
      /\ \A q \in 1..MaxRows : (s \o a)[q] = (s \o b)[q]
  BY <1>1, <1>2, <1>3
<1>6. ByTime(s \o a, 1..MaxRows) = ByTime(s \o b, 1..MaxRows)
  BY <1>1, <1>2, <1>5, SortLocal
<1> QED BY <1>4, <1>6 DEF PushAll

\* Nothing more to push.
LEMMA PushNone ==
    ASSUME NEW s \in Seq(Alarm), IsSortedByTime(s), Len(s) <= MaxRows
    PROVE  PushAll(s, <<>>) = s
<1>1. s \o <<>> = s
  BY ConcatEmptySeq
<1>2. DOMAIN s = 1..Len(s) /\ Len(s) \in Nat /\ MaxRows \in Nat
  BY LenProperties, MaxRowsAssumption
<1>3. {i \in DOMAIN s : i <= MaxRows} = DOMAIN s
  BY <1>2
<1> QED BY <1>1, <1>3, InOrder DEF PushAll

\* A row passes a later one in front of it.
LEMMA PushSwap ==
    ASSUME NEW s \in Seq(Alarm), NEW u \in Seq(Alarm), NEW items \in Seq(Alarm),
           Len(u) = Len(s), Len(s) <= MaxRows,
           NEW i \in Nat \ {0}, i + 1 <= Len(s), s[i].ts > s[i+1].ts,
           u[i] = s[i+1], u[i+1] = s[i],
           \A q \in 1..Len(s) : q # i /\ q # i+1 => u[q] = s[q]
    PROVE  PushAll(u, items) = PushAll(s, items)
<1> DEFINE a == s \o items
           b == u \o items
           K == {q \in DOMAIN a : q <= MaxRows}
<1>1. /\ a \in Seq(Alarm) /\ DOMAIN a = 1..Len(s)+Len(items)
      /\ Len(s) \in Nat /\ Len(items) \in Nat
      /\ \A q \in 1..Len(s) : a[q] = s[q]
      /\ \A q \in 1..Len(items) : a[Len(s)+q] = items[q]
  BY ConcatIs
<1>2. /\ b \in Seq(Alarm) /\ DOMAIN b = 1..Len(s)+Len(items)
      /\ \A q \in 1..Len(s) : b[q] = u[q]
      /\ \A q \in 1..Len(items) : b[Len(s)+q] = items[q]
  <2>1. /\ b \in Seq(Alarm) /\ DOMAIN b = 1..Len(u)+Len(items)
        /\ \A q \in 1..Len(u) : b[q] = u[q]
        /\ \A q \in 1..Len(items) : b[Len(u)+q] = items[q]
    BY ConcatIs
  <2> HIDE DEF b
  <2> QED BY <2>1
<1>3. MaxRows \in Nat
  BY MaxRowsAssumption
<1> HIDE DEF a, b
<1>4. /\ i \in K /\ i+1 \in K /\ K \in SUBSET DOMAIN a
      /\ i \in 1..Len(s) /\ i+1 \in 1..Len(s)
  BY <1>1, <1>3
<1>5. ASSUME NEW q \in K \ {i, i+1} PROVE b[q] = a[q]
  <2>1. CASE q <= Len(s)
    <3>1. q \in 1..Len(s)
      BY <1>1, <2>1
    <3> QED BY <1>1, <1>2, <3>1
  <2>2. CASE q > Len(s)
    <3> DEFINE j == q - Len(s)
    <3>1. j \in 1..Len(items) /\ q = Len(s) + j
      BY <1>1, <2>2
    <3> HIDE DEF j
    <3>2. b[q] = items[j] /\ a[q] = items[j]
      BY <1>1, <1>2, <3>1
    <3> QED BY <3>2
  <2>3. q \in Int /\ Len(s) \in Int
    BY <1>1
  <2> QED BY <2>1, <2>2, <2>3
<1>6. K = {q \in DOMAIN b : q <= MaxRows}
  BY <1>1, <1>2
<1> HIDE DEF K
<1>7. /\ a[i].ts > a[i+1].ts /\ b[i] = a[i+1] /\ b[i+1] = a[i]
  BY <1>1, <1>2, <1>4
<1>8. DOMAIN b = DOMAIN a
  BY <1>1, <1>2
<1>9. ByTime(b, K) = ByTime(a, K)
  BY <1>1, <1>2, <1>4, <1>5, <1>7, <1>8, SortSwap
<1> QED BY <1>6, <1>9 DEF PushAll, a, b, K

\* The row stops where the one behind it is not earlier.
LEMMA AdvanceIs ==
    ASSUME NEW lst \in Seq(Alarm), NEW i \in DOMAIN lst, NEW j \in i..Len(lst),
           NEW u \in Seq(Alarm), Len(u) = Len(lst), u[j] \in Alarm,
           u[j] = [lst[i] EXCEPT !.ts = NextWeeklyOccurrence(@)],
           \A q \in i+1..j : lst[q].ts < u[j].ts,
           j < Len(lst) => lst[j+1].ts >= u[j].ts,
           \A q \in 1..Len(lst) : i <= q /\ q < j => u[q] = lst[q+1],
           \A q \in 1..Len(lst) : q < i \/ q > j => u[q] = lst[q]
    PROVE  AdvanceRepeatAlarm(lst, i) = u
<1> DEFINE moved == u[j]
<1> DEFINE n == Len(lst)
           Stop(k) == /\ \A q \in i+1..k : lst[q].ts < moved.ts
                      /\ k < n => lst[k+1].ts >= moved.ts
           c == CHOOSE k \in i..n : Stop(k)
           w == RemoveAt(lst, i)
           v == InsertAt(w, j, moved)
<1>1. n \in Nat /\ i \in 1..n /\ DOMAIN lst = 1..n
  BY LenProperties
<1>0. /\ moved \in Alarm /\ moved = [lst[i] EXCEPT !.ts = NextWeeklyOccurrence(@)]
      /\ u[j] = moved
      /\ \A q \in 1..n : q # j => u[q] = IF i <= q /\ q < j THEN lst[q+1] ELSE lst[q]
  BY <1>1
<1>2. moved.ts \in Int /\ \A q \in 1..n : lst[q].ts \in Int
  BY <1>1, RowType DEF Alarm
<1>3. ASSUME NEW k \in i..n, Stop(k) PROVE k = j
  <2>1. j \in Int /\ k \in Int
    BY <1>1
  <2>2. CASE k < j
    <3>1. k+1 \in i+1..j /\ k+1 \in 1..n /\ k < n
      BY <1>1, <2>2
    <3> QED BY <1>2, <1>3, <3>1
  <2>3. CASE j < k
    <3>1. j+1 \in i+1..k /\ j+1 \in 1..n /\ j < n
      BY <1>1, <2>3
    <3> QED BY <1>2, <1>3, <3>1
  <2> QED BY <2>1, <2>2, <2>3
<1>4. c = j
  BY <1>3
<1>5. /\ w \in Seq(Alarm) /\ Len(w) = n - 1
      /\ \A q \in 1..n-1 : w[q] = IF q < i THEN lst[q] ELSE lst[q+1]
  BY <1>1, RemoveAtRows
<1> HIDE DEF w
<1>6. j \in 1..Len(w) + 1
  BY <1>1, <1>5
<1>7. IsInsertion(v, w, j, moved)
  BY <1>5, <1>6, InsertAtProperties
<1> HIDE DEF v
<1>8. /\ v \in Seq(Alarm) /\ Len(v) = n
      /\ \A q \in 1..n : v[q] = IF q < j THEN w[q] ELSE IF q = j THEN moved ELSE w[q-1]
  <2>1. /\ v \in Seq(Alarm) /\ Len(v) = Len(w) + 1
        /\ \A q \in 1..Len(w)+1 : v[q] = IF q < j THEN w[q] ELSE IF q = j THEN moved ELSE w[q-1]
    BY <1>7 DEF IsInsertion
  <2>2. Len(w) + 1 = n
    BY <1>1, <1>5
  <2> QED BY <2>1, <2>2, Zenon
<1>9. ASSUME NEW q \in 1..n PROVE v[q] = u[q]
  <2>1. CASE q = j
    <3>1. ~ (q < j)
      BY <1>1, <2>1
    <3>2. v[q] = moved
      BY <1>8, <2>1, <3>1, Zenon
    <3> QED BY <2>1, <3>2, Zenon
  <2>2. CASE q < j
    <3>1. q \in 1..n-1 /\ q # j
      BY <1>1, <2>2
    <3>2. v[q] = IF q < i THEN lst[q] ELSE lst[q+1]
      BY <1>5, <1>8, <2>2, <3>1
    <3> QED BY <1>1, <2>2, <3>1, <3>2
  <2>3. CASE q > j
    <3>1. q-1 \in 1..n-1 /\ q # j /\ ~ (q < j) /\ ~ (q-1 < i) /\ (q-1)+1 = q
      BY <1>1, <2>3
    <3>2. v[q] = lst[q]
      BY <1>5, <1>8, <3>1
    <3> QED BY <1>1, <2>3, <3>1, <3>2
  <2> QED BY <1>1, <2>1, <2>2, <2>3
<1>10. v = u
  BY <1>1, <1>8, <1>9, SeqEqual
<1>11. AdvanceRepeatAlarm(lst, i) = InsertAt(w, c, moved)
  BY DEF AdvanceRepeatAlarm, c, w, n
<1> QED BY <1>4, <1>10, <1>11 DEF v

\* todox_task_find gives a row of the task, if there is one.
LEMMA FirstOfTask ==
    ASSUME NEW lst \in Seq(Alarm), NEW t
    PROVE  /\ RowsOf(lst, t) # {} => TaskFind(lst, t) \in RowsOf(lst, t)
           /\ RowsOf(lst, t) = {} => TaskFind(lst, t) = 0
<1> DEFINE I == RowsOf(lst, t)
<1>1. DOMAIN lst = 1..Len(lst) /\ Len(lst) \in Nat
  BY LenProperties
<1>2. I = {i \in 1..Len(lst) : lst[i].task = t} /\ I \in SUBSET Nat
  BY <1>1 DEF RowsOf
<1>3. TaskFind(lst, t) = IF I # {} THEN Min(I) ELSE 0
  BY <1>2 DEF TaskFind, SelectInSeq
<1>4. I # {} => Min(I) \in I
  <2> HIDE DEF I
  <2> QED BY <1>2, LeastOf DEF Min
<1> QED BY <1>3, <1>4
=============================================================================
