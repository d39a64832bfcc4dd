-------------------------- MODULE DatasetRowProofs ---------------------------
(***************************************************************************)
(* Theorems about DatasetRow, for every set of datasets and their types.   *)
(***************************************************************************)
EXTENDS DatasetRow, SequenceTheorems, TLAPS

\* There are six keys, no two of them the same.
LEMMA KeyFacts ==
  /\ Len(Keys) = 6
  /\ \A i \in 1 .. 6 : Keys[i] \in KeySet
  /\ \A i, j \in 1 .. 6 : Keys[i] = Keys[j] => i = j
<1>1. Len(Keys) = 6
  BY DEF Keys
<1>2. \A i \in 1 .. 6 : Keys[i] \in KeySet
  BY <1>1 DEF KeySet
<1>3. /\ Keys[1] = "used" /\ Keys[2] = "available" /\ Keys[3] = "referenced"
      /\ Keys[4] = "mountpoint" /\ Keys[5] = "creation" /\ Keys[6] = "compressratio"
  BY DEF Keys
<1>4. ASSUME NEW i \in 1 .. 6, NEW j \in 1 .. 6, Keys[i] = Keys[j] PROVE i = j
  <2>1. i \in {1, 2, 3, 4, 5, 6} /\ j \in {1, 2, 3, 4, 5, 6}
    OBVIOUS
  <2> QED
    BY <1>3, <1>4, <2>1
<1> QED
  BY <1>1, <1>2, <1>4

LEMMA TypeNameType == \A type : TypeName(type) \in TypeNames
  BY DEF TypeName, TypeNames

\* A new row is a row, with no property, and so is one given a property more.
LEMMA NewRowType ==
  ASSUME NEW d \in Datasets
  PROVE  NewRow(d) \in Rows /\ OwnRow(NewRow(d), d, {})
<1>1. TypeName(TypeOf[d]) \in TypeNames
  BY TypeNameType
<1> QED
  BY <1>1 DEF NewRow, Rows, OwnRow

LEMMA WithOwn ==
  ASSUME NEW d \in Datasets, NEW r \in Rows, NEW K \in SUBSET KeySet,
         NEW key \in KeySet, OwnRow(r, d, K)
  PROVE  /\ With(r, key, Value(d, key)) \in Rows
         /\ OwnRow(With(r, key, Value(d, key)), d, K \cup {key})
<1> DEFINE v == Value(d, key)
<1> DEFINE s == With(r, key, v)
<1>1. v \in Values
  BY DEF Value, Values
<1>2. r.props \in [KeySet -> Values \cup {Absent}]
  BY DEF Rows
<1>3. s.name = r.name /\ s.type = r.type /\ s.props = [r.props EXCEPT ![key] = v]
  BY DEF With, Rows
<1>4. s \in Rows
  BY <1>1 DEF With, Rows
<1>5. s.props = [k \in KeySet |-> IF k \in K \cup {key} THEN Value(d, k) ELSE Absent]
  BY <1>2, <1>3 DEF OwnRow
<1> QED
  BY <1>3, <1>4, <1>5 DEF OwnRow

\* What changing the last element of a sequence, or adding one, returns.
LEMMA LastOfGot ==
  ASSUME NEW K \in SUBSET KeySet, got \in Seq(SUBSET KeySet), got # <<>>,
         NEW g, g = [got EXCEPT ![Len(got)] = K]
  PROVE  /\ g \in Seq(SUBSET KeySet)
         /\ Len(g) = Len(got)
         /\ \A i \in 1 .. Len(got) - 1 : g[i] = got[i]
         /\ g[Len(got)] = K
<1>1. Len(got) \in 1 .. Len(got)
  BY EmptySeq
<1> QED
  BY <1>1, ExceptSeq

RInv == TypeOK /\ RowInv

LEMMA GarbageType == Garbage \in Values
<1>1. "used" \in KeySet
  BY KeyFacts DEF Keys
<1> QED
  BY <1>1 DEF Garbage, Value, Values

LEMMA RInvInit == Init => RInv
<1> SUFFICES ASSUME Init PROVE RInv
  OBVIOUS
<1>1. <<>> \in Seq(Rows) /\ <<>> \in Seq(SUBSET KeySet) /\ Len(<<>>) = 0
  BY EmptySeq
<1>2. Garbage \in Values
  BY GarbageType
<1>3. row \in Rows
  BY NewRowType DEF Init
<1>4. next \in 1 .. Len(Keys) + 1
  BY KeyFacts DEF Init
<1>5. TypeOK
  BY <1>1, <1>2, <1>3, <1>4 DEF Init, TypeOK
<1>6. RowInv
  BY <1>1 DEF Init, RowInv, RowsTruthful
<1> QED
  BY <1>5, <1>6 DEF RInv

\* Visiting a dataset keeps the rows there are and starts a truthful one,
\* whether it is in the array already or not.
LEMMA RInvVisit == ASSUME RInv, NEW d \in Datasets, Visit(d) PROVE RInv'
<1> USE DEF RInv
<1>a. /\ TypeOK
      /\ Len(table) \in Nat /\ Len(got) \in Nat
  BY LenProperties DEF TypeOK
<1>b. Garbage \in Values
  BY GarbageType
<1>1. /\ got' = Append(got, {}) /\ table' = table /\ pc' = "inside" /\ ds' = d
      /\ row' = NewRow(d) /\ next' = 1 /\ buf' \in {buf, Garbage}
      /\ pc = "outside"
  BY DEF Visit
<1>2. {} \in SUBSET KeySet
  OBVIOUS
<1>3. /\ got' \in Seq(SUBSET KeySet)
      /\ Len(got') = Len(got) + 1
      /\ \A i \in 1 .. Len(got) : got'[i] = got[i]
      /\ got'[Len(got')] = {}
  BY <1>a, <1>1, <1>2, AppendProperties DEF TypeOK
<1>4. TypeOK'
  BY <1>a, <1>b, <1>1, <1>3, NewRowType, KeyFacts DEF TypeOK
<1>5. Len(got) = Len(table)
  BY <1>1 DEF TypeOK
<1>6. RowsTruthful'
  BY <1>1, <1>3, <1>5 DEF RowInv, RowsTruthful
<1>7. OwnRow(row', d, {})
  BY <1>1, NewRowType
<1>8. RowInv'
  BY <1>1, <1>3, <1>6, <1>7 DEF RowInv, Current
<1> QED
  BY <1>4, <1>8

LEMMA RInvStep == RInv /\ [Next]_vars => RInv'
<1> SUFFICES ASSUME RInv, [Next]_vars PROVE RInv'
  OBVIOUS
<1> USE DEF RInv
<1>0. /\ TypeOK
      /\ Len(table) \in Nat /\ Len(got) \in Nat
      /\ <<>> \in Seq(Rows) /\ <<>> \in Seq(SUBSET KeySet) /\ Len(<<>>) = 0
  BY EmptySeq, LenProperties DEF TypeOK
<1>1. Garbage \in Values
  BY GarbageType
<1>2. CASE Begin \/ Discard
  <2>0. table' = <<>> /\ got' = <<>> /\ pc' = "outside" /\ UNCHANGED <<ds, next, buf, row>>
    BY <1>2 DEF Begin, Discard
  <2>1. TypeOK'
    BY <1>0, <2>0 DEF TypeOK
  <2>2. RowInv'
    BY <1>0, <2>0 DEF RowInv, RowsTruthful
  <2> QED
    BY <2>1, <2>2
<1>3. ASSUME NEW d \in Datasets, Enter(d) PROVE RInv'
  BY <1>3, RInvVisit DEF Enter
<1>4. CASE Get
  <2> DEFINE key == Keys[next]
  <2>1. /\ pc = "inside" /\ next <= 6 /\ next \in 1 .. 6 /\ key \in KeySet
        /\ buf' = Value(ds, key)
        /\ row' = With(row, key, Value(ds, key))
        /\ got' = [got EXCEPT ![Len(got)] = Current \cup {key}]
        /\ next' = next + 1 /\ table' = table /\ pc' = pc /\ ds' = ds
    BY <1>4, KeyFacts DEF Get, Reading, TypeOK, Current
  <2>2. Len(got) = Len(table) + 1 /\ got # <<>>
    BY <1>0, <2>1 DEF TypeOK
  <2>3. /\ Current \in SUBSET KeySet /\ row \in Rows /\ ds \in Datasets
        /\ OwnRow(row, ds, Current) /\ Current \subseteq {Keys[i] : i \in 1 .. next - 1}
    <3>1. Len(got) \in 1 .. Len(got)
      BY <1>0, <2>2
    <3>2. Current \in SUBSET KeySet
      BY <3>1, ElementOfSeq DEF Current, TypeOK
    <3> QED
      BY <2>1, <3>2 DEF TypeOK, RowInv
  <2>4. /\ got' \in Seq(SUBSET KeySet)
        /\ Len(got') = Len(got)
        /\ \A i \in 1 .. Len(got) - 1 : got'[i] = got[i]
        /\ got'[Len(got)] = Current \cup {key}
    <3>1. Current \cup {key} \in SUBSET KeySet
      BY <2>1, <2>3
    <3> HIDE DEF key
    <3> QED
      BY <2>1, <2>2, <3>1, LastOfGot DEF TypeOK
  <2>5. row' \in Rows /\ OwnRow(row', ds, Current \cup {key})
    BY <2>1, <2>3, WithOwn
  <2>6. buf' \in Values
    BY <2>1, <2>3 DEF Value, Values
  <2>7. TypeOK'
    BY <1>0, <2>1, <2>2, <2>4, <2>5, <2>6, KeyFacts DEF TypeOK
  <2>8. RowsTruthful'
    BY <1>0, <2>1, <2>2, <2>4 DEF RowInv, RowsTruthful
  <2>9. Current \cup {key} \subseteq {Keys[i] : i \in 1 .. next}
    <3>1. next \in 1 .. next /\ \A i \in 1 .. next - 1 : i \in 1 .. next
      BY <2>1
    <3> QED
      BY <2>3, <3>1
  <2>10. RowInv'
    <3>1. Current' = Current \cup {key}
      BY <2>4 DEF Current
    <3>2. next' - 1 = next
      BY <2>1
    <3> QED
      BY <2>1, <2>5, <2>8, <2>9, <3>1, <3>2 DEF RowInv
  <2> QED
    BY <2>7, <2>10
<1>5. CASE GetFails
  <2>1. /\ next \in 1 .. 6 /\ buf' \in Values /\ next' = next + 1
        /\ UNCHANGED <<table, pc, ds, row, got>>
    BY <1>1, <1>5, KeyFacts DEF GetFails, Reading, TypeOK
  <2>2. TypeOK'
    BY <1>0, <2>1, KeyFacts DEF TypeOK
  <2>3. \A i \in 1 .. next - 1 : i \in 1 .. next' - 1
    BY <2>1
  <2>4. RowInv'
    BY <2>1, <2>3 DEF RowInv, RowsTruthful, Current
  <2> QED
    BY <2>2, <2>4
<1>6. CASE Add
  <2>1. /\ pc = "inside" /\ pc' = "outside" /\ table' = Append(table, row)
        /\ UNCHANGED <<ds, next, buf, row, got>>
    BY <1>6 DEF Add
  <2>2. /\ table' \in Seq(Rows)
        /\ Len(table') = Len(table) + 1
        /\ \A i \in 1 .. Len(table) : table'[i] = table[i]
        /\ table'[Len(table) + 1] = row
    BY <2>1, AppendProperties DEF TypeOK
  <2>3. Len(got) = Len(table) + 1
    BY <2>1 DEF TypeOK
  <2>4. TypeOK'
    BY <1>0, <2>1, <2>2, <2>3 DEF TypeOK
  <2>5. OwnRow(row, row.name, got[Len(table) + 1])
    BY <2>1, <2>3 DEF RowInv, OwnRow, Current
  <2>6. RowsTruthful'
    <3> SUFFICES ASSUME NEW i \in 1 .. Len(table) + 1
                 PROVE  OwnRow(table'[i], table'[i].name, got[i])
      BY <2>1, <2>2 DEF RowsTruthful
    <3>1. i \in 1 .. Len(table) \/ i = Len(table) + 1
      BY <1>0
    <3> QED
      BY <2>2, <2>5, <3>1 DEF RowInv, RowsTruthful
  <2> QED
    BY <2>1, <2>4, <2>6 DEF RowInv
<1>7. CASE UNCHANGED vars
  BY <1>7 DEF vars, TypeOK, RowInv, RowsTruthful, Current
<1> QED
  BY <1>2, <1>3, <1>4, <1>5, <1>6, <1>7 DEF Next

LEMMA RInvAlways == Spec => []RInv
  BY RInvInit, RInvStep, PTL DEF Spec

\* Every variable keeps its type: a row has the keys of zfs_list.c and a text
\* for each key set, and the callback reads six properties and no more.
THEOREM TypeCorrect == Spec => []TypeOK
<1>1. RInv => TypeOK
  BY DEF RInv
<1> QED
  BY <1>1, RInvAlways, PTL

\* Every row is its own dataset's, whatever the buffer held when a read
\* failed: the return value of each zfs_prop_get() is looked at before the
\* buffer is (zfs_list.c:59-92).
THEOREM RowsAreTruthful == Spec => []RowsTruthful
<1>1. RInv => RowsTruthful
  BY DEF RInv, RowInv
<1> QED
  BY <1>1, RInvAlways, PTL
=============================================================================
