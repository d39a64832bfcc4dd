---------------------------- MODULE PoolWalkProofs ---------------------------
(***************************************************************************)
(* Theorems about PoolWalk, for every set of pools and order of the list.  *)
(***************************************************************************)
EXTENDS PoolWalk, SequenceTheorems, FiniteSetTheorems,
        WellFoundedInduction, TLAPS

\* A place belongs to one pool, and is positive.
LEMMA PosFacts ==
  ASSUME NEW p \in Pools
  PROVE  /\ Pos[p] \in Nat \ {0}
         /\ \A q \in Pools : Pos[p] = Pos[q] => p = q
  BY PoolAssumption

\* Adding a row lists its pool, and no other.
LEMMA AppendRow ==
  ASSUME rows \in Seq(Pools), NEW p \in Pools
  PROVE  /\ Append(rows, p) \in Seq(Pools)
         /\ Len(rows) \in Nat
         /\ Len(Append(rows, p)) = Len(rows) + 1
         /\ \A i \in 1 .. Len(rows) : Append(rows, p)[i] = rows[i] /\ rows[i] \in Listed
         /\ Append(rows, p)[Len(rows) + 1] = p
         /\ Range(Append(rows, p)) = Listed \cup {p}
<1>1. /\ Append(rows, p) \in Seq(Pools)
      /\ Len(Append(rows, p)) = Len(rows) + 1
      /\ \A i \in 1 .. Len(rows) : Append(rows, p)[i] = rows[i]
      /\ Append(rows, p)[Len(rows) + 1] = p
  BY AppendProperties
<1>2. /\ Len(rows) \in Nat
      /\ DOMAIN rows = 1 .. Len(rows)
      /\ DOMAIN Append(rows, p) = 1 .. Len(rows) + 1
  BY <1>1, LenProperties
<1>3. Range(Append(rows, p)) = Listed \cup {p}
  BY <1>1, <1>2 DEF Range, Listed
<1>4. \A i \in 1 .. Len(rows) : rows[i] \in Listed
  BY <1>2 DEF Range, Listed
<1> QED
  BY <1>1, <1>2, <1>3, <1>4

\* With no rows nothing is listed.
LEMMA NoRows == Range(<<>>) = {} /\ Len(<<>>) = 0 /\ <<>> \in Seq(Pools)
  BY EmptySeq DEF Range
-----------------------------------------------------------------------------
(***************************************************************************)
(* Types and what is open.                                                 *)
(***************************************************************************)

Base == TypeOK /\ HandlesAccounted

LEMMA BaseInit == Init => Base
<1> SUFFICES ASSUME Init PROVE Base
  OBVIOUS
<1>1. [p \in Pools |-> 0] \in [Pools -> Nat] /\ 0 \in 0 .. MaxBailouts
  BY PoolAssumption
<1>2. TypeOK
  BY <1>1, NoRows DEF Init, TypeOK
<1>3. HandlesAccounted
  BY DEF Init, HandlesAccounted, InCallback, Walking
<1> QED
  BY <1>2, <1>3 DEF Base

LEMMA BaseStep == Base /\ [Next]_vars => Base'
<1> SUFFICES ASSUME Base, [Next]_vars PROVE Base'
  OBVIOUS
<1> USE DEF Base
<1>0. TypeOK
  OBVIOUS
<1>1. ASSUME NEW p \in Pools, Import(p) \/ Export(p) PROVE Base'
  BY <1>1 DEF Import, Export, callVars, TypeOK, HandlesAccounted, InCallback, Walking
<1>2. CASE Begin
  <2>a. list' \in SUBSET Pools /\ walks' \in Nat /\ pc' = "library"
    BY <1>2 DEF Begin, TypeOK
  <2>b. rows' \in Seq(Pools) /\ rows' = <<>>
    BY <1>2, NoRows DEF Begin, Enter
  <2>c. /\ cur' = 0 /\ result' = "none" /\ warned' = FALSE
        /\ passed' = {} /\ steady' = live
        /\ UNCHANGED <<live, open, bailouts, leaked>>
    BY <1>2 DEF Begin, Enter
  <2>1. TypeOK'
    BY <2>a, <2>b, <2>c DEF TypeOK
  <2>2. HandlesAccounted'
    BY <1>2 DEF Begin, Enter, TypeOK, HandlesAccounted, InCallback, Walking
  <2> QED
    BY <2>1, <2>2
<1>3. CASE BeginFails
  <2>1. TypeOK'
    BY <1>3, NoRows DEF BeginFails, Enter, TypeOK
  <2>2. HandlesAccounted'
    BY <1>3 DEF BeginFails, Enter, TypeOK, HandlesAccounted, InCallback, Walking
  <2> QED
    BY <2>1, <2>2
<1>4. ASSUME NEW p \in Pools, OpenNext(p) PROVE Base'
  <2>1. /\ pc = "library" /\ pc' = "callback" /\ cur' = Pos[p]
        /\ open' = [open EXCEPT ![p] = open[p] + 1]
        /\ UNCHANGED <<live, steady, list, walks, rows, result, warned, bailouts, leaked, passed>>
    BY <1>4 DEF OpenNext
  <2>2. open \in [Pools -> Nat] /\ open' \in [Pools -> Nat]
    BY <2>1 DEF TypeOK
  <2>3. TypeOK'
    BY <2>1, <2>2, PosFacts DEF TypeOK
  <2>4. \A q \in Pools : ~ InCallback(q) /\ (InCallback(q)' <=> q = p)
    BY <2>1, PosFacts DEF InCallback
  <2>5. HandlesAccounted'
    BY <2>1, <2>2, <2>4 DEF TypeOK, HandlesAccounted, Walking
  <2> QED
    BY <2>3, <2>5
<1>5. ASSUME NEW p \in Pools, SkipNext(p) PROVE Base'
  BY <1>5, PosFacts DEF SkipNext, TypeOK, HandlesAccounted, InCallback, Walking
<1>6. ASSUME NEW p \in Pools, AddRow(p) PROVE Base'
  <2>1. /\ pc = "callback" /\ Pos[p] = cur /\ pc' = "library" /\ cur' = cur
        /\ rows' = Append(rows, p)
        /\ open' = [open EXCEPT ![p] = open[p] - 1]
        /\ UNCHANGED <<live, steady, list, walks, result, warned, bailouts, leaked, passed>>
    BY <1>6 DEF AddRow, InCallback
  <2>2. \A q \in Pools : ~ InCallback(q)' /\ (InCallback(q) <=> q = p)
    BY <2>1, PosFacts DEF InCallback
  <2>3. open[p] = leaked[p] + 1 /\ leaked[p] \in Nat
    BY <2>2 DEF HandlesAccounted, TypeOK
  <2>4. open \in [Pools -> Nat] /\ open' \in [Pools -> Nat]
    BY <2>1, <2>3 DEF TypeOK
  <2>5. rows' \in Seq(Pools)
    BY <2>1, AppendRow DEF TypeOK
  <2>6. TypeOK'
    BY <2>1, <2>4, <2>5 DEF TypeOK
  <2>7. HandlesAccounted'
    BY <2>1, <2>2, <2>3, <2>4 DEF TypeOK, HandlesAccounted, Walking
  <2> QED
    BY <2>6, <2>7
<1>7. CASE WalkFails \/ Done
  <2>1. /\ pc = "library" /\ pc' \in {"failed", "idle"} /\ walks' = walks - 1
        /\ result' \in {"none", "array", "false"}
        /\ UNCHANGED <<live, steady, list, cur, rows, open, warned, bailouts, leaked, passed>>
    BY <1>7 DEF WalkFails, Done, TypeOK
  <2>2. walks = bailouts + 1 /\ bailouts \in Nat /\ walks \in Nat
    BY <2>1 DEF HandlesAccounted, Walking, TypeOK
  <2>3. TypeOK'
    BY <2>1, <2>2 DEF TypeOK
  <2>4. HandlesAccounted'
    BY <2>1, <2>2 DEF HandlesAccounted, InCallback, Walking
  <2> QED
    BY <2>3, <2>4
<1>8. CASE Bailout
  <2>1. bailouts' \in 0 .. MaxBailouts /\ bailouts \in Nat
    BY <1>8, PoolAssumption DEF Bailout, TypeOK
  <2>2. TypeOK'
    BY <1>8, <2>1, NoRows DEF Bailout, TypeOK
  <2>3. HandlesAccounted'
    BY <1>8, <2>1 DEF Bailout, TypeOK, HandlesAccounted, InCallback, Walking
  <2> QED
    BY <2>2, <2>3
<1>9. CASE Warn \/ ReturnFalse \/ AbandonInHandler
  <2>1. TypeOK'
    BY <1>9, NoRows DEF Warn, ReturnFalse, AbandonInHandler, TypeOK
  <2>2. HandlesAccounted'
    BY <1>9 DEF Warn, ReturnFalse, AbandonInHandler, HandlesAccounted, InCallback, Walking
  <2> QED
    BY <2>1, <2>2
<1>10. CASE UNCHANGED vars
  BY <1>10 DEF vars, callVars, TypeOK, HandlesAccounted, InCallback, Walking
<1>11. CASE LoadForZfsList
  BY <1>11 DEF LoadForZfsList, TypeOK, HandlesAccounted, InCallback, Walking
<1> QED
  BY <1>1, <1>2, <1>3, <1>4, <1>5, <1>6, <1>7, <1>8, <1>9, <1>10, <1>11
     DEF Next, World, CallStep

LEMMA BaseInv == Spec => []Base
  BY BaseInit, BaseStep, PTL DEF Spec

\* Every variable keeps its type: above all the handle's count of walks, which
\* zpool_iter() counts down as well as up, is never negative.
THEOREM TypeCorrect == Spec => []TypeOK
<1>1. Base => TypeOK
  BY DEF Base
<1> QED
  BY <1>1, BaseInv, PTL

\* Every handle a call opens it closes, and every walk it starts it ends,
\* unless the engine aborted it.
THEOREM HandlesClosed == Spec => []HandlesAccounted
<1>1. Base => HandlesAccounted
  BY DEF Base
<1> QED
  BY <1>1, BaseInv, PTL
-----------------------------------------------------------------------------
(***************************************************************************)
(* What is listed.                                                         *)
(***************************************************************************)

Lists == RowsBehind /\ InOrder

LEMMA ListsInit == Init => Lists
  BY NoRows DEF Init, Lists, RowsBehind, InOrder, Walking

LEMMA ListsAddRow ==
  ASSUME Base, Lists, NEW p \in Pools, AddRow(p)
  PROVE  Lists'
<1>1. /\ pc = "callback" /\ Pos[p] = cur /\ pc' = "library" /\ cur' = cur
      /\ rows' = Append(rows, p)
  BY DEF AddRow, InCallback
<1>2. /\ Len(rows) \in Nat /\ Len(rows') = Len(rows) + 1
      /\ \A i \in 1 .. Len(rows) : rows'[i] = rows[i] /\ rows[i] \in Listed
      /\ rows'[Len(rows) + 1] = p
      /\ Listed' = Listed \cup {p}
  BY <1>1, AppendRow DEF Base, TypeOK, Listed
<1>3. \A q \in Listed : q \in Pools /\ Pos[q] < Pos[p]
  <2> TAKE q \in Listed
  <2>1. q \in Pools
    BY RangeOfSeq DEF Base, TypeOK, Listed, Range
  <2>2. Pos[q] <= cur /\ Pos[q] # cur
    BY <1>1 DEF Lists, RowsBehind, Walking, InCallback
  <2> QED
    BY <1>1, <2>1, <2>2, PosFacts
<1>4. RowsBehind'
  BY <1>1, <1>2, <1>3, PosFacts DEF RowsBehind, Walking, InCallback
<1>5. InOrder'
  <2> SUFFICES ASSUME NEW i \in 1 .. Len(rows) + 1, NEW j \in 1 .. Len(rows) + 1, i < j
               PROVE  Pos[rows'[i]] < Pos[rows'[j]]
    BY <1>2 DEF InOrder
  <2>1. i \in 1 .. Len(rows) /\ (j \in 1 .. Len(rows) \/ j = Len(rows) + 1)
    BY <1>2
  <2>2. CASE j \in 1 .. Len(rows)
    BY <1>2, <2>1, <2>2 DEF Lists, InOrder
  <2>3. CASE j = Len(rows) + 1
    BY <1>2, <1>3, <2>1, <2>3
  <2> QED
    BY <2>1, <2>2, <2>3
<1> QED
  BY <1>4, <1>5 DEF Lists

LEMMA ListsStep == Base /\ Lists /\ [Next]_vars => Lists'
<1> SUFFICES ASSUME Base, Lists, [Next]_vars PROVE Lists'
  OBVIOUS
<1> USE DEF Lists
<1>1. CASE World \/ LoadForZfsList \/ UNCHANGED vars
  <2>1. UNCHANGED <<pc, cur, rows>>
    BY <1>1 DEF World, Import, Export, LoadForZfsList, vars, callVars
  <2> QED
    BY <2>1 DEF RowsBehind, InOrder, Walking, InCallback, Listed
<1>2. CASE Begin \/ BeginFails \/ Bailout \/ ReturnFalse \/ AbandonInHandler
  <2>1. rows' = <<>> /\ pc' # "callback"
    BY <1>2 DEF Begin, BeginFails, Enter, Bailout, ReturnFalse, AbandonInHandler
  <2> QED
    BY <2>1, NoRows DEF RowsBehind, InOrder, Listed
<1>3. ASSUME NEW p \in Pools, OpenNext(p) \/ SkipNext(p) PROVE Lists'
  <2>1. /\ pc = "library" /\ cur' = Pos[p] /\ cur < Pos[p] /\ rows' = rows
        /\ cur \in Nat /\ Pos[p] \in Nat
    BY <1>3, PosFacts DEF OpenNext, SkipNext, IsNext, Ahead, Base, TypeOK
  <2>2. \A q \in Listed : Pos[q] <= cur /\ Pos[q] \in Nat
    <3> TAKE q \in Listed
    <3>1. q \in Pools
      BY RangeOfSeq DEF Base, TypeOK, Listed, Range
    <3> QED
      BY <2>1, <3>1, PosFacts DEF RowsBehind, Walking
  <2>3. RowsBehind'
    BY <1>3, <2>1, <2>2 DEF RowsBehind, Walking, InCallback, Listed, OpenNext, SkipNext
  <2> QED
    BY <2>1, <2>3 DEF InOrder
<1>4. ASSUME NEW p \in Pools, AddRow(p) PROVE Lists'
  BY <1>4, ListsAddRow
<1>5. CASE WalkFails \/ Done \/ Warn
  <2>1. rows' = rows /\ ~ Walking'
    BY <1>5 DEF WalkFails, Done, Warn, Walking
  <2> QED
    BY <2>1 DEF RowsBehind, InOrder, Walking
<1> QED
  BY <1>1, <1>2, <1>3, <1>4, <1>5 DEF Next, CallStep

LEMMA ListsInv == Spec => []Lists
  BY BaseInv, ListsInit, ListsStep, PTL DEF Spec

\* The rows come in the order of the library's list, and no pool twice.
THEOREM ListedInOrder == Spec => []InOrder
<1>1. Lists => InOrder
  BY DEF Lists
<1> QED
  BY <1>1, ListsInv, PTL
-----------------------------------------------------------------------------
(***************************************************************************)
(* What is not missed, and what is answered.                               *)
(***************************************************************************)

Whole == StillAhead /\ AnswerPending /\ Complete

LEMMA WholeInit == Init => Whole
  BY DEF Init, Whole, StillAhead, AnswerPending, Complete, Walking

LEMMA WholeStep == Base /\ Whole /\ [Next]_vars => Whole'
<1> SUFFICES ASSUME Base, Whole, [Next]_vars PROVE Whole'
  OBVIOUS
<1> USE DEF Whole
<1>1. CASE World \/ UNCHANGED vars
  <2>1. UNCHANGED callVars /\ steady' \subseteq steady
    BY <1>1 DEF World, Import, Export, vars
  <2> QED
    BY <2>1 DEF callVars, StillAhead, AnswerPending, Complete, Walking, InCallback, Listed
<1>2. CASE Begin
  <2>1. /\ pc' = "library" /\ result' = "none" /\ warned' = FALSE /\ cur' = 0
        /\ steady' = live /\ list' = (IF walks = 0 THEN live ELSE list) /\ bailouts' = bailouts
        /\ pc = "idle"
    BY <1>2 DEF Begin, Enter
  <2>2. bailouts = 0 => walks = 0
    BY <2>1 DEF Base, HandlesAccounted, Walking
  <2>3. StillAhead'
    <3>1. \A p \in live : 0 < Pos[p]
      BY PosFacts DEF Base, TypeOK
    <3> QED
      BY <2>1, <2>2, <3>1 DEF StillAhead, Walking
  <2> QED
    BY <2>1, <2>3 DEF AnswerPending, Complete
<1>3. CASE BeginFails
  BY <1>3 DEF BeginFails, Enter, StillAhead, AnswerPending, Complete, Walking
<1>4. ASSUME NEW p \in Pools, OpenNext(p) \/ SkipNext(p) PROVE Whole'
  <2>1. /\ pc = "library" /\ cur' = Pos[p] /\ IsNext(p)
        /\ pc' = "callback" \/ (pc' = "library" /\ passed' = passed \cup {p})
        /\ passed \subseteq passed'
        /\ UNCHANGED <<steady, list, rows, result, warned, bailouts>>
    BY <1>4 DEF OpenNext, SkipNext
  <2>2. StillAhead'
    <3> SUFFICES ASSUME bailouts = 0
                 PROVE  /\ steady \subseteq list
                        /\ \A q \in steady \ passed' :
                             q \in Listed \/ Pos[p] < Pos[q] \/ InCallback(q)'
      BY <2>1 DEF StillAhead, Walking, Listed
    <3>1. /\ steady \subseteq list
          /\ \A q \in steady \ passed : q \in Listed \/ cur < Pos[q]
      BY <2>1 DEF StillAhead, Walking, InCallback
    <3>2. ASSUME NEW q \in steady \ passed', q \notin Listed
          PROVE  Pos[p] < Pos[q] \/ InCallback(q)'
      <4>1. q \in Ahead /\ q \in Pools
        BY <2>1, <3>1, <3>2 DEF Ahead, Base, TypeOK
      <4>2. Pos[p] <= Pos[q] /\ Pos[p] \in Nat /\ Pos[q] \in Nat
        BY <2>1, <4>1, PosFacts DEF IsNext
      <4>3. CASE q = p
        BY <2>1, <3>2, <4>3 DEF InCallback
      <4>4. CASE q # p
        BY <4>1, <4>2, <4>4, PosFacts
      <4> QED
        BY <4>3, <4>4
    <3> QED
      BY <3>1, <3>2
  <2>3. AnswerPending' /\ Complete'
    BY <2>1 DEF AnswerPending, Complete
  <2> QED
    BY <2>2, <2>3
<1>5. ASSUME NEW p \in Pools, AddRow(p) PROVE Whole'
  <2>1. /\ pc = "callback" /\ Pos[p] = cur /\ pc' = "library" /\ cur' = cur
        /\ rows' = Append(rows, p)
        /\ UNCHANGED <<steady, list, result, warned, bailouts, passed>>
    BY <1>5 DEF AddRow, InCallback
  <2>2. Listed' = Listed \cup {p}
    BY <2>1, AppendRow DEF Base, TypeOK, Listed
  <2>3. \A q \in Pools : InCallback(q) => q = p
    BY <2>1, PosFacts DEF InCallback
  <2>4. steady \subseteq Pools
    BY DEF Base, TypeOK
  <2>5. StillAhead'
    BY <2>1, <2>2, <2>3, <2>4 DEF StillAhead, Walking
  <2> QED
    BY <2>1, <2>5 DEF AnswerPending, Complete
<1>6. CASE Done
  <2>1. /\ pc = "library" /\ pc' = "idle" /\ Ahead = {}
        /\ UNCHANGED <<steady, list, rows, bailouts, passed>>
    BY <1>6 DEF Done
  <2>2. ASSUME bailouts = 0, NEW p \in steady \ passed PROVE p \in Listed
    BY <2>1, <2>2 DEF StillAhead, Walking, InCallback, Ahead
  <2>3. Complete'
    BY <2>1, <2>2 DEF Complete, Listed
  <2> QED
    BY <2>1, <2>3 DEF StillAhead, AnswerPending, Walking
<1>7. CASE WalkFails \/ Warn
  BY <1>7 DEF WalkFails, Warn, StillAhead, AnswerPending, Complete, Walking
<1>8. CASE Bailout \/ ReturnFalse \/ AbandonInHandler
  <2>1. pc' = "idle" /\ result' # "array"
    BY <1>8 DEF Bailout, ReturnFalse, AbandonInHandler, AnswerPending
  <2> QED
    BY <2>1 DEF StillAhead, AnswerPending, Complete, Walking
<1>9. CASE LoadForZfsList
  <2>1. ~ Walking' /\ UNCHANGED <<pc, rows, steady, passed, result, warned, bailouts>>
    BY <1>9 DEF LoadForZfsList, Walking
  <2> QED
    BY <2>1 DEF StillAhead, AnswerPending, Complete, Listed
<1> QED
  BY <1>1, <1>2, <1>3, <1>4, <1>5, <1>6, <1>7, <1>8, <1>9 DEF Next, CallStep

LEMMA WholeInv == Spec => []Whole
  BY BaseInv, WholeInit, WholeStep, PTL DEF Spec

\* Until a call is aborted, no pool that was there all along is missed.
THEOREM NothingMissed == Spec => []Complete
<1>1. Whole => Complete
  BY DEF Whole
<1> QED
  BY <1>1, WholeInv, PTL

LEMMA CallInit == Init => Call!Init
  BY DEF Init, Call!Init

LEMMA CallNext == Base /\ Whole /\ [Next]_vars => [Call!Next]_(Call!callVars)
<1> SUFFICES ASSUME Base, Whole, [Next]_vars PROVE [Call!Next]_(Call!callVars)
  OBVIOUS
<1> USE DEF Call!callVars
<1>1. CASE World \/ LoadForZfsList \/ UNCHANGED vars
  BY <1>1 DEF World, Import, Export, LoadForZfsList, vars, callVars
<1>2. CASE Begin \/ BeginFails
  BY <1>2 DEF Begin, BeginFails, Enter, Call!Next, Call!Begin
<1>3. CASE \/ \E p \in Pools : OpenNext(p) \/ SkipNext(p) \/ AddRow(p)
           \/ WalkFails
  BY <1>3 DEF OpenNext, SkipNext, AddRow, WalkFails, InCallback
<1>4. CASE Bailout
  BY <1>4 DEF Bailout, Whole, AnswerPending, Call!Next, Call!Abandon
<1>5. CASE Done
  BY <1>5 DEF Done, Whole, AnswerPending, Call!Next, Call!ReturnArray
<1>6. CASE Warn
  BY <1>6 DEF Warn, Whole, AnswerPending, Call!Next, Call!Warn
<1>7. CASE ReturnFalse
  BY <1>7 DEF ReturnFalse, Whole, AnswerPending, Call!Next, Call!ReturnFalse
<1>8. CASE AbandonInHandler
  BY <1>8 DEF AbandonInHandler, Call!Next, Call!Abandon
<1> QED
  BY <1>1, <1>2, <1>3, <1>4, <1>5, <1>6, <1>7, <1>8 DEF Next, CallStep

\* An array and no warning, or one warning and then false, or the engine's end.
THEOREM KeepsContract == Spec => Contract
  BY BaseInv, WholeInv, CallInit, CallNext, PTL DEF Spec, Contract, Call!Spec
-----------------------------------------------------------------------------
(***************************************************************************)
(* A call comes to its end.                                                *)
(***************************************************************************)

\* Of finitely many pools finitely many are ahead, and fewer once the walk has
\* moved on to the next.
LEMMA AheadShrinks ==
  ASSUME IsFiniteSet(Pools), TypeOK
  PROVE  /\ Cardinality(Ahead) \in Nat
         /\ \A p \in Pools :
              IsNext(p) /\ cur' = Pos[p] /\ list' = list =>
                /\ Cardinality(Ahead') \in Nat
                /\ Cardinality(Ahead') < Cardinality(Ahead)
<1>1. IsFiniteSet(Ahead) /\ Cardinality(Ahead) \in Nat
  <2>1. Ahead \in SUBSET Pools
    BY DEF Ahead, TypeOK
  <2>2. IsFiniteSet(Ahead)
    BY <2>1, FS_Subset
  <2> QED
    BY <2>2, FS_CardinalityType
<1>2. ASSUME NEW p \in Pools, IsNext(p), cur' = Pos[p], list' = list
      PROVE  /\ Cardinality(Ahead') \in Nat
             /\ Cardinality(Ahead') < Cardinality(Ahead)
  <2>1. p \in Ahead /\ Ahead' \in SUBSET (Ahead \ {p})
    <3>1. p \in Ahead /\ cur < Pos[p] /\ cur \in Nat /\ list \in SUBSET Pools
      BY <1>2 DEF IsNext, Ahead, TypeOK
    <3>2. \A q \in Pools : Pos[p] < Pos[q] => cur < Pos[q] /\ q # p
      BY <3>1, PosFacts
    <3> QED
      BY <1>2, <3>1, <3>2 DEF Ahead
  <2>2. /\ IsFiniteSet(Ahead \ {p})
        /\ Cardinality(Ahead \ {p}) = Cardinality(Ahead) - 1
    BY <1>1, <2>1, FS_RemoveElement
  <2>3. IsFiniteSet(Ahead') /\ Cardinality(Ahead') <= Cardinality(Ahead \ {p})
    BY <2>1, <2>2, FS_Subset
  <2>4. Cardinality(Ahead') \in Nat
    BY <2>3, FS_CardinalityType
  <2> QED
    BY <1>1, <2>2, <2>3, <2>4
<1> QED
  BY <1>1, <1>2

LEMMA EndStep ==
  ASSUME IsFiniteSet(Pools), Base, [Next]_vars, pc # "idle"
  PROVE  StepsLeft' < StepsLeft \/ (StepsLeft' = StepsLeft /\ UNCHANGED <<pc, cur>>)
<1> DEFINE a == Cardinality(Ahead)
<1>0. TypeOK /\ a \in Nat
  BY AheadShrinks DEF Base
<1>1. CASE World \/ UNCHANGED vars
  <2>1. UNCHANGED callVars
    BY <1>1 DEF World, Import, Export, vars
  <2> QED
    BY <2>1 DEF callVars, StepsLeft, Ahead
<1>2. CASE LoadForZfsList
  BY <1>2 DEF LoadForZfsList, StepsLeft
<1>3. ASSUME NEW p \in Pools, OpenNext(p) \/ SkipNext(p) PROVE StepsLeft' < StepsLeft
  <2>1. /\ pc = "library" /\ pc' \in {"callback", "library"}
        /\ IsNext(p) /\ cur' = Pos[p] /\ list' = list
    BY <1>3 DEF OpenNext, SkipNext
  <2>2. Cardinality(Ahead') \in Nat /\ Cardinality(Ahead') < a
    BY <1>0, <2>1, AheadShrinks
  <2>3. /\ StepsLeft = 1 + 2 * a
        /\ StepsLeft' \in {1 + 2 * Cardinality(Ahead'), 2 + 2 * Cardinality(Ahead')}
    BY <2>1 DEF StepsLeft
  <2> HIDE DEF a
  <2> QED
    BY <1>0, <2>2, <2>3
<1>4. ASSUME NEW p \in Pools, AddRow(p) PROVE StepsLeft' < StepsLeft
  <2>1. pc = "callback" /\ pc' = "library" /\ Ahead' = Ahead
    BY <1>4 DEF AddRow, InCallback, Ahead
  <2>2. StepsLeft = 2 + 2 * a /\ StepsLeft' = 1 + 2 * a
    BY <2>1 DEF StepsLeft
  <2> HIDE DEF a
  <2> QED
    BY <1>0, <2>2
<1>5. CASE WalkFails
  <2>1. pc = "library" /\ pc' = "failed" /\ Ahead # {}
    BY <1>5 DEF WalkFails
  <2>2. a # 0
    <3>1. IsFiniteSet(Ahead)
      BY <1>0, FS_Subset DEF Ahead, TypeOK
    <3> QED
      BY <2>1, <3>1, FS_EmptySet
  <2>3. StepsLeft = 1 + 2 * a /\ StepsLeft' = 2
    BY <2>1 DEF StepsLeft
  <2> HIDE DEF a
  <2> QED
    BY <1>0, <2>2, <2>3
<1>6. CASE Done \/ Bailout \/ Warn \/ ReturnFalse \/ AbandonInHandler
  <2>1. \/ pc \in {"library", "callback", "refused"} /\ pc' = "idle"
        \/ pc = "failed" /\ pc' = "refused"
    BY <1>6 DEF Done, Bailout, Warn, ReturnFalse, AbandonInHandler
  <2>2. \/ StepsLeft \in {1 + 2 * a, 2 + 2 * a, 1} /\ StepsLeft' = 0
        \/ StepsLeft = 2 /\ StepsLeft' = 1
    BY <2>1 DEF StepsLeft
  <2> HIDE DEF a
  <2> QED
    BY <1>0, <2>2
<1>7. CASE Begin \/ BeginFails
  BY <1>7 DEF Begin, BeginFails, Enter
<1> QED
  BY <1>1, <1>2, <1>3, <1>4, <1>5, <1>6, <1>7 DEF Next, CallStep

\* Of finitely many pools, a call that has begun takes no more steps than were
\* left to it at the start, whatever happens around it.
THEOREM CallIsBounded == ASSUME IsFiniteSet(Pools) PROVE Spec => EndDrawsNear
<1>1. Base /\ [Next]_vars =>
        [pc # "idle" =>
           StepsLeft' < StepsLeft \/ (StepsLeft' = StepsLeft /\ UNCHANGED <<pc, cur>>)]_vars
  BY EndStep
<1> QED
  BY <1>1, BaseInv, PTL DEF Spec, EndDrawsNear

\* Of the pools ahead one comes first.
LEMMA OneIsNext ==
  ASSUME TypeOK, Ahead # {}
  PROVE  \E p \in Pools : IsNext(p)
<1> DEFINE T == {Pos[p] : p \in Ahead}
<1>1. T \subseteq Nat /\ T # {} /\ Ahead \subseteq Pools
  <2>1. Ahead \subseteq Pools
    BY DEF Ahead, TypeOK
  <2>2. \A p \in Ahead : Pos[p] \in Nat
    BY <2>1, PosFacts
  <2> QED
    BY <2>1, <2>2
<1>2. PICK x \in T : \A y \in T : ~ (<<y, x>> \in OpToRel(<, Nat))
  <2> HIDE DEF T
  <2> QED
    BY <1>1, NatLessThanWellFounded, WFMin
<1>3. \A y \in T : ~ (y < x)
  BY <1>1, <1>2 DEF OpToRel
<1>4. PICK p \in Ahead : x = Pos[p]
  OBVIOUS
<1>5. \A q \in Ahead : Pos[q] \in T /\ Pos[q] \in Nat /\ Pos[p] \in Nat /\ ~ (Pos[q] < Pos[p])
  BY <1>1, <1>3, <1>4
<1> QED
  BY <1>1, <1>5 DEF IsNext

\* The guards of the steps that take a call on, whatever may fail besides.
MayGoOn ==
  \/ pc = "library" /\ (Ahead = {} \/ \E p \in Pools : IsNext(p))
  \/ \E p \in Pools : InCallback(p)
  \/ pc \in {"failed", "refused"}

\* A call that has begun is never stuck: there is always a pool to open or to
\* pass over, a row to add, or an answer to give.  With CallIsBounded: it ends.
THEOREM NeverStuck == Spec => [](pc # "idle" => MayGoOn)
<1>1. Base /\ Lists => (pc # "idle" => MayGoOn)
  BY OneIsNext DEF Base, TypeOK, Lists, RowsBehind, MayGoOn
<1> QED
  BY <1>1, BaseInv, ListsInv, PTL
=============================================================================
