---------------------------- MODULE PoolRowProofs ----------------------------
(***************************************************************************)
(* Theorems about PoolRow, for words of every width and every space.       *)
(***************************************************************************)
EXTENDS PoolRow, TLAPS

\* Division of natural numbers, by its remainder.
LEMMA DivFacts ==
  ASSUME NEW x \in Nat, NEW s \in Nat, s > 0
  PROVE  /\ x \div s \in Nat
         /\ (x \div s) * s <= x
         /\ x < (x \div s + 1) * s
  BY Z3

\* A wrapped number is no larger, and the same if it did not wrap.
LEMMA ModFacts ==
  ASSUME NEW x \in Nat, NEW m \in Nat, m > 0
  PROVE  /\ x % m \in Nat
         /\ x % m <= x
         /\ x < m => x % m = x
  BY Z3

\* A quotient is at most q if the dividend is at most q times the divisor.
LEMMA QuotientBound ==
  ASSUME NEW x \in Nat, NEW s \in Nat, s > 0, NEW q \in Nat, x <= q * s
  PROVE  x \div s <= q
  BY Z3

\* A number up to half the width is its own signed reading.
LEMMA SignedSmall ==
  ASSUME NEW v \in Nat, NEW mod \in Nat, 2 * v < mod
  PROVE  Signed(v, mod) = v
<1>1. v < mod /\ mod > 0
  OBVIOUS
<1>2. v % mod = v
  BY <1>1, ModFacts
<1> QED
  BY <1>2 DEF Signed

\* A capacity is a percentage, and the right one if the product fits.
LEMMA CapacityRange ==
  ASSUME NEW s \in 0 .. UMod - 1, NEW a \in 0 .. s
  PROVE  Capacity(a, s) \in 0 .. 100
<1> USE WidthAssumption
<1>1. CASE s = 0
  BY <1>1 DEF Capacity
<1>2. CASE s > 0
  <2> DEFINE x == (a * 100) % UMod
  <2> DEFINE q == x \div s
  <2>1. s \in Nat /\ a \in Nat /\ a * 100 \in Nat /\ a * 100 <= 100 * s
    BY <1>2
  <2>2. x \in Nat /\ x <= a * 100
    BY <2>1, ModFacts
  <2> HIDE DEF x
  <2>3. q \in Nat /\ q <= 100
    BY <1>2, <2>1, <2>2, DivFacts, QuotientBound
  <2> HIDE DEF q
  <2>4. Signed(q, IMod) = q
    <3>1. q \in Nat /\ IMod \in Nat /\ 2 * q < IMod
      BY <2>3
    <3> QED
      BY <3>1, SignedSmall
  <2>5. Capacity(a, s) = Signed(q, IMod)
    BY <1>2 DEF Capacity, q, x
  <2> QED
    BY <2>3, <2>4, <2>5
<1> QED
  BY <1>1, <1>2

LEMMA CapacityFloor ==
  ASSUME NEW s \in 0 .. UMod - 1, NEW a \in 0 .. s, a * 100 < UMod
  PROVE  /\ Capacity(a, s) * s <= a * 100
         /\ s > 0 => a * 100 < (Capacity(a, s) + 1) * s
<1> USE WidthAssumption
<1>1. CASE s = 0
  <2>1. Capacity(a, s) = 0 /\ a = 0
    BY <1>1 DEF Capacity
  <2> QED
    BY <1>1, <2>1
<1>2. CASE s > 0
  <2> DEFINE q == (a * 100) \div s
  <2>1. s \in Nat /\ a \in Nat /\ a * 100 \in Nat /\ a * 100 <= 100 * s
    BY <1>2
  <2>2. (a * 100) % UMod = a * 100
    BY <2>1, ModFacts
  <2>3. q \in Nat /\ q <= 100 /\ q * s <= a * 100 /\ a * 100 < (q + 1) * s
    BY <1>2, <2>1, DivFacts, QuotientBound
  <2> HIDE DEF q
  <2>4. Signed(q, IMod) = q
    <3>1. q \in Nat /\ IMod \in Nat /\ 2 * q < IMod
      BY <2>3
    <3> QED
      BY <3>1, SignedSmall
  <2>5. Capacity(a, s) = q
    BY <1>2, <2>2, <2>4 DEF Capacity, q
  <2> QED
    BY <2>3, <2>5
<1> QED
  BY <1>1, <1>2

\* A pool's sizes are 64-bit numbers, and so is what is free.
LEMMA SpaceTypes ==
  ASSUME NEW s \in Spaces
  PROVE  /\ s.size \in 0 .. UMod - 1 /\ s.alloc \in 0 .. UMod - 1
         /\ s.alloc <= s.size /\ s.size - s.alloc \in 0 .. UMod - 1
         /\ s.size \in Nat /\ s.alloc \in Nat
<1>1. s.size \in 0 .. UMod - 1 /\ s.alloc \in 0 .. s.size /\ UMod \in Nat
  BY SpaceAssumption, WidthAssumption
<1> QED
  BY <1>1

LEMMA SignedType ==
  ASSUME NEW v \in Int, NEW mod \in Nat, mod > 0
  PROVE  Signed(v, mod) \in Int
<1>1. v % mod \in Int
  BY Z3
<1> QED
  BY <1>1 DEF Signed
LEMMA SignedWord ==
  ASSUME NEW v \in 0 .. UMod - 1
  PROVE  Signed(v, LMod) \in Int
<1>1. v \in Int /\ LMod \in Nat /\ LMod > 0
  BY WidthAssumption
<1> QED
  BY <1>1, SignedType

\* The reading of a number as a signed one is a signed one.
LEMMA SignedFits ==
  ASSUME NEW v \in Int, NEW mod \in Nat, mod > 0
  PROVE  Fits(Signed(v, mod), mod)
<1>1. v % mod \in 0 .. mod - 1
  BY Z3
<1> DEFINE m == v % mod
<1>2. m \in Int /\ 0 <= m /\ m < mod
  BY <1>1
<1>3. Signed(v, mod) = IF 2 * m < mod THEN m ELSE m - mod
  BY DEF Signed
<1> HIDE DEF m
<1> QED
  BY <1>2, <1>3 DEF Fits

\* And it differs from the number by a multiple of how many there are.
LEMMA SignedCongruent ==
  ASSUME NEW v \in Nat, NEW mod \in Nat, mod > 0
  PROVE  \E k \in Int : v - Signed(v, mod) = k * mod
<1>1. v \div mod \in Nat /\ v % mod \in Nat /\ v = (v \div mod) * mod + (v % mod)
  BY Z3
<1> DEFINE m == v % mod
<1> DEFINE q == v \div mod
<1>2. Signed(v, mod) = IF 2 * m < mod THEN m ELSE m - mod
  BY DEF Signed
<1>3. m \in Nat /\ q \in Nat /\ v = q * mod + m
  BY <1>1
<1> HIDE DEF m, q
<1>4. CASE 2 * m < mod
  <2>1. v - Signed(v, mod) = q * mod
    BY <1>2, <1>3, <1>4
  <2> QED
    BY <1>3, <2>1
<1>5. CASE ~ (2 * m < mod)
  <2>1. v - Signed(v, mod) = q * mod + mod
    BY <1>2, <1>3, <1>5
  <2>2. q * mod + mod = (q + 1) * mod /\ q + 1 \in Int
    BY <1>3
  <2> QED
    BY <2>1, <2>2
<1> QED
  BY <1>4, <1>5

\* A multiple of mod leaves no remainder.
LEMMA MultipleMod ==
  ASSUME NEW k \in Int, NEW mod \in Nat, mod > 0
  PROVE  (k * mod) % mod = 0
<1> DEFINE x == k * mod
<1> DEFINE q == x \div mod
<1> DEFINE r == x % mod
<1>1. x \in Int
  OBVIOUS
<1>2. q \in Int /\ r \in Int /\ 0 <= r /\ r < mod /\ x = q * mod + r
  <2> HIDE DEF x
  <2> QED
    BY <1>1, Z3
<1> HIDE DEF q, r
<1>3. r = (k - q) * mod
  BY <1>2
<1> DEFINE d == k - q
<1>4. d \in Int /\ r = d * mod
  BY <1>2, <1>3
<1> HIDE DEF d
<1>5. ~ (d >= 1)
  <2> SUFFICES ASSUME d >= 1 PROVE FALSE
    OBVIOUS
  <2>1. d * mod >= mod
    BY <1>4
  <2> QED
    BY <1>2, <1>4, <2>1
<1>6. ~ (d <= -1)
  <2> SUFFICES ASSUME d <= -1 PROVE FALSE
    OBVIOUS
  <2>1. d * mod <= -mod
    BY <1>4
  <2> QED
    BY <1>2, <1>4, <2>1
<1>7. d = 0
  BY <1>4, <1>5, <1>6
<1> QED
  BY <1>4, <1>7 DEF r

\* Cut to any width, the two parts of a number add up to it but for multiples
\* of that width.
LEMMA CutPartsAddUp ==
  ASSUME NEW u \in Nat, NEW v \in Nat, v <= u, NEW mod \in Nat, mod > 0
  PROVE  (Signed(u, mod) - Signed(v, mod) - Signed(u - v, mod)) % mod = 0
<1> DEFINE a == Signed(u, mod)
<1> DEFINE b == Signed(v, mod)
<1> DEFINE c == Signed(u - v, mod)
<1>0. u - v \in Nat
  OBVIOUS
<1>1. a \in Int /\ b \in Int /\ c \in Int
  BY <1>0, SignedType
<1>2. PICK i \in Int : u - a = i * mod
  BY SignedCongruent
<1>3. PICK j \in Int : v - b = j * mod
  BY SignedCongruent
<1>4. PICK k \in Int : (u - v) - c = k * mod
  BY <1>0, SignedCongruent
<1> HIDE DEF a, b, c
<1>5. a - b - c = (j + k - i) * mod /\ j + k - i \in Int
  <2>1. a - b - c = j * mod + k * mod - i * mod
    BY <1>1, <1>2, <1>3, <1>4
  <2> QED
    BY <2>1
<1>6. (a - b - c) % mod = 0
  BY <1>5, MultipleMod
<1> QED
  BY <1>6 DEF a, b, c

LEMMA WidthFits ==
  ASSUME NEW v \in 0 .. UMod - 1
  PROVE  Fits(Signed(v, LMod), LMod)
<1>1. v \in Int /\ LMod \in Nat /\ LMod > 0
  BY WidthAssumption
<1> QED
  BY <1>1, SignedFits

\* Whatever the numbers are it is computed from, a capacity is an int.
LEMMA CapacityType ==
  ASSUME NEW a \in 0 .. UMod - 1, NEW s \in 0 .. UMod - 1
  PROVE  Capacity(a, s) \in Int /\ Fits(Capacity(a, s), IMod)
<1>0. IMod \in Nat /\ IMod > 0
  BY WidthAssumption
<1>1. CASE s > 0
  <2> DEFINE q == ((a * 100) % UMod) \div s
  <2>1. a * 100 \in Nat /\ s \in Nat
    BY WidthAssumption
  <2>2. (a * 100) % UMod \in Nat
    BY <2>1, ModFacts, WidthAssumption
  <2>3. q \in Int
    BY <1>1, <2>1, <2>2, DivFacts
  <2>4. Capacity(a, s) = Signed(q, IMod)
    BY <1>1 DEF Capacity
  <2> HIDE DEF q
  <2> QED
    BY <1>0, <2>3, <2>4, SignedType, SignedFits
<1>2. CASE ~ (s > 0)
  BY <1>0, <1>2 DEF Capacity, Fits
<1> QED
  BY <1>1, <1>2
-----------------------------------------------------------------------------
(***************************************************************************)
(* Types.                                                                  *)
(***************************************************************************)

LEMMA TextFacts ==
  /\ TextSet = {"version", "bootfs", "altroot"}
  /\ \A k \in TextSet : After[k] \in {"bootfs", "altroot", "add"}
<1>1. TextSet = {"version", "bootfs", "altroot"}
  <2>1. TextKeys[1] = "version" /\ TextKeys[2] = "bootfs" /\ TextKeys[3] = "altroot"
    BY DEF TextKeys
  <2>2. 1 .. 3 = {1, 2, 3}
    OBVIOUS
  <2> QED
    BY <2>1, <2>2 DEF TextSet
<1> QED
  BY <1>1 DEF After

RowType ==
  [size : Int, allocated : Int, free : Int, capacity : Int,
   health : Statuses \cup {"ONLINE"},
   text : [TextSet -> Texts \cup {Absent}]]

\* What one read of an integer property returns and does to the handle.
LEMMA PropIntTypes ==
  ASSUME TypeOK, NEW key \in {"size", "allocated", "free"}, NEW v, v \in Values(key)
  PROVE  /\ v \in 0 .. UMod - 1
         /\ PropInt(key, v) =>
              /\ props' \in SUBSET Spaces /\ seen' \in SUBSET Spaces
              /\ failed' \in SUBSET {"size", "allocated", "free"}
<1>1. Fetched \in SUBSET Spaces
  BY DEF Fetched, TypeOK
<1>2. \A s \in Fetched : Part(key, s) \in 0 .. UMod - 1
  BY <1>1, SpaceTypes DEF Part
<1>3. v \in 0 .. UMod - 1
  BY <1>2, WidthAssumption DEF Values
<1>4. PropInt(key, v) =>
        /\ props' \in SUBSET Spaces /\ seen' \in SUBSET Spaces
        /\ failed' \in SUBSET {"size", "allocated", "free"}
  BY <1>1 DEF PropInt, TypeOK
<1> QED
  BY <1>3, <1>4

\* Every number of the row goes through its cast before it gets there.
LEMMA FitsStep == TypeOK /\ [Next]_vars => RowFits'
<1> SUFFICES ASSUME TypeOK, [Next]_vars PROVE RowFits'
  OBVIOUS
<1> USE DEF RowFits
<1>0. row \in RowType /\ RowFits
  BY DEF TypeOK, RowType
<1>1. ASSUME NEW st \in Statuses, Enter(st) PROVE RowFits'
  <2>1. Fits(0, LMod) /\ Fits(0, IMod)
    BY WidthAssumption DEF Fits
  <2> QED
    BY <1>1, <2>1 DEF Enter, EmptyRow
<1>2. CASE ReadSize
  <2>1. size' \in 0 .. UMod - 1
    BY <1>2, PropIntTypes DEF ReadSize
  <2>2. Fits(Signed(size', LMod), LMod)
    BY <2>1, WidthFits
  <2> QED
    BY <1>0, <1>2, <2>2 DEF ReadSize, RowType
<1>3. CASE ReadAllocated
  <2>1. allocated' \in 0 .. UMod - 1
    BY <1>3, PropIntTypes DEF ReadAllocated
  <2>2. Fits(Signed(allocated', LMod), LMod)
    BY <2>1, WidthFits
  <2> QED
    BY <1>0, <1>3, <2>2 DEF ReadAllocated, RowType
<1>4. CASE ReadFree
  <2>1. PICK free \in Values("free") : row' = [row EXCEPT !.free = Signed(free, LMod)]
    BY <1>4 DEF ReadFree
  <2>2. free \in 0 .. UMod - 1
    BY PropIntTypes
  <2>3. Fits(Signed(free, LMod), LMod)
    BY <2>2, WidthFits
  <2> QED
    BY <1>0, <2>1, <2>3 DEF RowType
<1>5. CASE Judge
  <2>1. allocated \in 0 .. UMod - 1 /\ size \in 0 .. UMod - 1
    BY DEF TypeOK
  <2>2. Fits(Capacity(allocated, size), IMod)
    BY <2>1, CapacityType
  <2> QED
    BY <1>0, <1>5, <2>2 DEF Judge, RowType
<1>6. CASE ReadText
  BY <1>0, <1>6 DEF ReadText, RowType
<1>7. CASE UNCHANGED row
  BY <1>0, <1>7
<1> QED
  BY <1>1, <1>2, <1>3, <1>4, <1>5, <1>6, <1>7
     DEF Next, Write, ReadTextFails, Add, vars

LEMMA TypeInit == Init => TypeOK
<1>1. 0 \in 0 .. UMod - 1
  BY WidthAssumption
<1>2. Init => RowFits
  BY WidthAssumption DEF Init, EmptyRow, RowFits, Fits
<1> QED
  BY <1>1, <1>2 DEF Init, TypeOK, EmptyRow, Texts, Statuses

LEMMA TypeStep == TypeOK /\ [Next]_vars => TypeOK'
<1> SUFFICES ASSUME TypeOK, [Next]_vars PROVE TypeOK'
  OBVIOUS
<1>f. RowFits'
  BY FitsStep
<1> USE <1>f
<1>0. row \in RowType
  BY DEF TypeOK, RowType
<1>1. ASSUME NEW s \in Spaces, Write(s) PROVE TypeOK'
  BY <1>1 DEF Write, TypeOK
<1>2. ASSUME NEW st \in Statuses, Enter(st) PROVE TypeOK'
  <2>1. EmptyRow \in RowType
    BY DEF EmptyRow, RowType
  <2> QED
    BY <1>2, <2>1 DEF Enter, TypeOK, Texts, RowType
<1>3. CASE ReadSize
  <2>1. /\ size' \in 0 .. UMod - 1
        /\ props' \in SUBSET Spaces /\ seen' \in SUBSET Spaces
        /\ failed' \in SUBSET {"size", "allocated", "free"}
    BY <1>3, PropIntTypes DEF ReadSize
  <2>2. Signed(size', LMod) \in Int
    BY <2>1, SignedWord
  <2>3. row' \in RowType
    BY <1>0, <1>3, <2>2 DEF ReadSize, RowType
  <2> QED
    BY <1>3, <2>1, <2>3 DEF ReadSize, TypeOK, RowType
<1>4. CASE ReadAllocated
  <2>1. /\ allocated' \in 0 .. UMod - 1
        /\ props' \in SUBSET Spaces /\ seen' \in SUBSET Spaces
        /\ failed' \in SUBSET {"size", "allocated", "free"}
    BY <1>4, PropIntTypes DEF ReadAllocated
  <2>2. Signed(allocated', LMod) \in Int
    BY <2>1, SignedWord
  <2>3. row' \in RowType
    BY <1>0, <1>4, <2>2 DEF ReadAllocated, RowType
  <2> QED
    BY <1>4, <2>1, <2>3 DEF ReadAllocated, TypeOK, RowType
<1>5. CASE ReadFree
  <2>1. PICK free \in Values("free") :
          PropInt("free", free) /\ row' = [row EXCEPT !.free = Signed(free, LMod)]
    BY <1>5 DEF ReadFree
  <2>2. /\ free \in 0 .. UMod - 1
        /\ props' \in SUBSET Spaces /\ seen' \in SUBSET Spaces
        /\ failed' \in SUBSET {"size", "allocated", "free"}
    BY <2>1, PropIntTypes
  <2>3. Signed(free, LMod) \in Int
    BY <2>2, SignedWord
  <2>4. row' \in RowType
    BY <1>0, <2>1, <2>3 DEF RowType
  <2> QED
    BY <1>5, <2>2, <2>4 DEF ReadFree, TypeOK, RowType
<1>6. CASE Judge
  <2>1. Health(status) \in Statuses \cup {"ONLINE"}
    BY DEF Health, TypeOK
  <2>2. Capacity(allocated, size) \in Int
    <3>1. allocated \in 0 .. UMod - 1 /\ size \in 0 .. UMod - 1
      BY DEF TypeOK
    <3> QED
      BY <3>1, CapacityType
  <2>3. row' \in RowType
    BY <1>0, <1>6, <2>1, <2>2 DEF Judge, RowType
  <2> QED
    BY <1>6, <2>3, TextFacts DEF Judge, TypeOK, RowType
<1>7. CASE ReadText
  <2>1. buf' \in Texts /\ pc \in TextSet
    BY <1>7 DEF ReadText, Texts
  <2>2. row' \in RowType
    BY <1>0, <1>7, <2>1 DEF ReadText, RowType
  <2> QED
    BY <1>7, <2>1, <2>2, TextFacts DEF ReadText, TypeOK, RowType
<1>8. CASE ReadTextFails
  BY <1>8, TextFacts DEF ReadTextFails, TypeOK, Texts
<1>9. CASE Add
  BY <1>9 DEF Add, TypeOK
<1>10. CASE UNCHANGED vars
  BY <1>10 DEF vars, TypeOK
<1> QED
  BY <1>1, <1>2, <1>3, <1>4, <1>5, <1>6, <1>7, <1>8, <1>9, <1>10 DEF Next

\* Every variable keeps its type: the locals stay 64-bit values and the row is
\* one the callback can build, however wide the integers are.
THEOREM TypeCorrect == Spec => []TypeOK
  BY TypeInit, TypeStep, PTL DEF Spec
-----------------------------------------------------------------------------
(***************************************************************************)
(* The invariant.                                                          *)
(***************************************************************************)

\* A read of an integer property either sees the one fetch there is by then,
\* or fails, is zero, and is not the first to fail to see one.
LEMMA PropIntFetch ==
  ASSUME TypeOK, OneFetch, pc # "outside", NEW key, NEW v, PropInt(key, v)
  PROVE  /\ props' = seen' /\ (\A s, t \in seen' : s = t)
         /\ seen' # {} \/ failed' # {}
         /\ \/ /\ failed' = failed /\ seen \subseteq seen'
               /\ \E s \in seen' : v = Part(key, s)
            \/ failed' # {} /\ v = 0 /\ seen' = seen /\ seen = {}
<1>1. props = seen /\ (\A s, t \in seen : s = t)
  BY DEF OneFetch
<1>2. CASE props = {} /\ v = 0 /\ failed' = failed \cup {key} /\ UNCHANGED <<props, seen>>
  BY <1>1, <1>2
<1>3. CASE /\ \E s \in Fetched : v = Part(key, s)
           /\ props' = Fetched /\ seen' = seen \cup Fetched /\ failed' = failed
  <2>1. seen' = Fetched
    BY <1>1, <1>3 DEF Fetched
  <2>2. \A s, t \in Fetched : s = t
    BY <1>1 DEF Fetched
  <2>3. Fetched # {} /\ seen \subseteq seen'
    BY <1>3 DEF Fetched
  <2> QED
    BY <1>3, <2>1, <2>2, <2>3
<1> QED
  BY <1>2, <1>3 DEF PropInt

LEMMA IInvInit == Init => IInv
  BY DEF Init, IInv, OneFetch, PartsRead, LocalsAgree, CapacityComputed, TextsOwn,
         Begun, EmptyRow

LEMMA IInvSize == ASSUME TypeOK, IInv, ReadSize PROVE IInv'
<1>1. row \in RowType
  BY DEF TypeOK, RowType
<1>2. /\ pc = "size" /\ pc' = "allocated" /\ PropInt("size", size')
      /\ row' = [row EXCEPT !.size = Signed(size', LMod)]
  BY DEF ReadSize
<1>3. seen = {} /\ failed = {}
  BY <1>2 DEF IInv, OneFetch, Begun
<1>4. /\ props' = seen' /\ (\A s, t \in seen' : s = t)
      /\ seen' # {} \/ failed' # {}
      /\ \/ failed' = {} /\ \E s \in seen' : size' = s.size
         \/ failed' # {} /\ size' = 0
  BY <1>2, <1>3, PropIntFetch DEF IInv, Part
<1>5. row'.size = Signed(size', LMod) /\ row'.text = row.text
  BY <1>1, <1>2 DEF RowType
<1>6. OneFetch'
  BY <1>2, <1>4 DEF OneFetch, Begun
<1>7. PartsRead'
  BY <1>2, <1>4, <1>5 DEF PartsRead
<1>8. LocalsAgree' /\ CapacityComputed'
  BY <1>2, <1>4 DEF LocalsAgree, CapacityComputed
<1>9. TextsOwn'
  BY <1>5 DEF IInv, TextsOwn
<1> QED
  BY <1>6, <1>7, <1>8, <1>9 DEF IInv

LEMMA IInvAllocated == ASSUME TypeOK, IInv, ReadAllocated PROVE IInv'
<1>1. row \in RowType
  BY DEF TypeOK, RowType
<1>2. /\ pc = "allocated" /\ pc' = "free" /\ PropInt("allocated", allocated')
      /\ row' = [row EXCEPT !.allocated = Signed(allocated', LMod)]
      /\ size' = size
  BY DEF ReadAllocated
<1>3. Begun /\ (\A s, t \in seen : s = t)
  BY <1>2 DEF IInv, OneFetch
<1>4. /\ props' = seen' /\ (\A s, t \in seen' : s = t)
      /\ seen' # {} \/ failed' # {}
      /\ \/ failed' = failed /\ seen \subseteq seen' /\ \E s \in seen' : allocated' = s.alloc
         \/ failed' # {} /\ seen = {}
  BY <1>2, PropIntFetch DEF IInv, Part
<1>5. /\ row'.size = row.size /\ row'.allocated = Signed(allocated', LMod)
      /\ row'.text = row.text
  BY <1>1, <1>2 DEF RowType
<1>6. OneFetch'
  BY <1>2, <1>4 DEF OneFetch, Begun
<1>7. PartsRead'
  <2> SUFFICES ASSUME failed' = {}
               PROVE  \E s \in seen' :
                        /\ size' = s.size /\ row'.size = Signed(s.size, LMod)
                        /\ allocated' = s.alloc /\ row'.allocated = Signed(s.alloc, LMod)
    BY <1>2 DEF PartsRead
  <2>1. failed = {} /\ seen \subseteq seen' /\ \E s \in seen' : allocated' = s.alloc
    BY <1>4
  <2>2. PICK s \in seen : size = s.size /\ row.size = Signed(s.size, LMod)
    BY <1>3, <2>1 DEF IInv, PartsRead
  <2>3. s \in seen' /\ allocated' = s.alloc
    BY <1>4, <2>1, <2>2
  <2> QED
    BY <1>2, <1>5, <2>2, <2>3
<1>8. LocalsAgree'
  <2> SUFFICES ASSUME size > 0
               PROVE  \E s \in seen' : size = s.size /\ allocated' = s.alloc
    BY <1>2 DEF LocalsAgree
  <2>1. PICK s \in seen : size = s.size
    BY <1>3 DEF IInv, LocalsAgree
  <2>2. s \in seen' /\ allocated' = s.alloc
    BY <1>4, <2>1
  <2> QED
    BY <2>1, <2>2
<1>9. CapacityComputed' /\ TextsOwn'
  BY <1>2, <1>5 DEF IInv, CapacityComputed, TextsOwn
<1> QED
  BY <1>6, <1>7, <1>8, <1>9 DEF IInv

LEMMA IInvFree == ASSUME TypeOK, IInv, ReadFree PROVE IInv'
<1>1. row \in RowType
  BY DEF TypeOK, RowType
<1>2. PICK free :
        /\ pc = "free" /\ pc' = "judge" /\ PropInt("free", free)
        /\ row' = [row EXCEPT !.free = Signed(free, LMod)]
        /\ size' = size /\ allocated' = allocated
  BY DEF ReadFree
<1>3. Begun /\ (\A s, t \in seen : s = t)
  BY <1>2 DEF IInv, OneFetch
<1>4. /\ props' = seen' /\ (\A s, t \in seen' : s = t)
      /\ seen' # {} \/ failed' # {}
      /\ \/ failed' = failed /\ seen \subseteq seen' /\ \E s \in seen' : free = s.size - s.alloc
         \/ failed' # {} /\ seen = {}
  BY <1>2, PropIntFetch DEF IInv, Part
<1>5. /\ row'.size = row.size /\ row'.allocated = row.allocated
      /\ row'.free = Signed(free, LMod) /\ row'.text = row.text
  BY <1>1, <1>2 DEF RowType
<1>6. OneFetch'
  BY <1>2, <1>4 DEF OneFetch, Begun
<1>7. PartsRead'
  <2> SUFFICES ASSUME failed' = {}
               PROVE  \E s \in seen' :
                        /\ size' = s.size /\ row'.size = Signed(s.size, LMod)
                        /\ allocated' = s.alloc /\ row'.allocated = Signed(s.alloc, LMod)
                        /\ row'.free = Signed(s.size - s.alloc, LMod)
    BY <1>2 DEF PartsRead
  <2>1. failed = {} /\ seen \subseteq seen' /\ \E s \in seen' : free = s.size - s.alloc
    BY <1>4
  <2>2. PICK s \in seen :
          /\ size = s.size /\ row.size = Signed(s.size, LMod)
          /\ allocated = s.alloc /\ row.allocated = Signed(s.alloc, LMod)
    BY <1>2, <1>3, <2>1 DEF IInv, PartsRead
  <2>3. s \in seen' /\ free = s.size - s.alloc
    BY <1>4, <2>1, <2>2
  <2> QED
    BY <1>2, <1>5, <2>2, <2>3
<1>8. LocalsAgree'
  <2> SUFFICES ASSUME size > 0
               PROVE  \E s \in seen' : size = s.size /\ allocated = s.alloc
    BY <1>2 DEF LocalsAgree
  <2>1. PICK s \in seen : size = s.size /\ allocated = s.alloc
    BY <1>2, <1>3 DEF IInv, LocalsAgree
  <2> QED
    BY <1>4, <2>1
<1>9. CapacityComputed' /\ TextsOwn'
  BY <1>2, <1>5 DEF IInv, CapacityComputed, TextsOwn
<1> QED
  BY <1>6, <1>7, <1>8, <1>9 DEF IInv

LEMMA IInvStep == TypeOK /\ IInv /\ [Next]_vars => IInv'
<1> SUFFICES ASSUME TypeOK, IInv, [Next]_vars PROVE IInv'
  OBVIOUS
<1> USE DEF IInv
<1>0. row \in RowType
  BY DEF TypeOK, RowType
<1>1. CASE UNCHANGED <<props, pc, size, allocated, buf, row, status, seen, failed>>
  BY <1>1 DEF OneFetch, PartsRead, LocalsAgree, CapacityComputed, TextsOwn, Begun
<1>2. ASSUME NEW st \in Statuses, Enter(st) PROVE IInv'
  BY <1>2 DEF Enter, OneFetch, PartsRead, LocalsAgree, CapacityComputed, TextsOwn,
              Begun, EmptyRow
<1>3. CASE ReadSize
  BY <1>3, IInvSize
<1>4. CASE ReadAllocated
  BY <1>4, IInvAllocated
<1>5. CASE ReadFree
  BY <1>5, IInvFree
<1>6. CASE Judge
  <2>1. /\ pc = "judge" /\ pc' = "version"
        /\ UNCHANGED <<props, size, allocated, seen, failed>>
        /\ row'.size = row.size /\ row'.allocated = row.allocated /\ row'.free = row.free
        /\ row'.text = row.text /\ row'.capacity = Capacity(allocated, size)
    BY <1>0, <1>6 DEF Judge, RowType
  <2> QED
    BY <2>1 DEF OneFetch, PartsRead, LocalsAgree, CapacityComputed, TextsOwn, Begun
<1>7. CASE ReadText \/ ReadTextFails
  <2>1. /\ pc \in {"version", "bootfs", "altroot"} /\ pc' \in {"bootfs", "altroot", "add"}
        /\ UNCHANGED <<props, size, allocated, seen, failed>>
        /\ row'.size = row.size /\ row'.allocated = row.allocated /\ row'.free = row.free
        /\ row'.capacity = row.capacity
    BY <1>0, <1>7, TextFacts DEF ReadText, ReadTextFails, RowType
  <2>2. \A key \in TextSet : row'.text[key] \in {key, row.text[key]}
    BY <1>0, <1>7 DEF ReadText, ReadTextFails, RowType
  <2>3. TextsOwn'
    BY <2>2 DEF TextsOwn
  <2>4. OneFetch' /\ LocalsAgree' /\ CapacityComputed'
    BY <2>1 DEF OneFetch, LocalsAgree, CapacityComputed, Begun
  <2>5. PartsRead'
    BY <2>1 DEF PartsRead, Begun
  <2> QED
    BY <2>3, <2>4, <2>5
<1>8. CASE Add
  <2>1. /\ pc = "add" /\ pc' = "outside"
        /\ UNCHANGED <<size, allocated, row, seen, failed>>
    BY <1>8 DEF Add
  <2> QED
    BY <2>1 DEF OneFetch, PartsRead, LocalsAgree, CapacityComputed, TextsOwn, Begun
<1>9. ASSUME NEW s \in Spaces, Write(s) PROVE IInv'
  BY <1>1, <1>9 DEF Write
<1>10. CASE UNCHANGED vars
  BY <1>1, <1>10 DEF vars
<1> QED
  BY <1>2, <1>3, <1>4, <1>5, <1>6, <1>7, <1>8, <1>9, <1>10 DEF Next

LEMMA IInvAlways == Spec => [](TypeOK /\ IInv)
  BY TypeCorrect, IInvInit, IInvStep, PTL DEF Spec

\* The capacity of every row is a percentage: the two numbers it is computed
\* from are of one fetch, or the divisor is zero and not divided by.
THEOREM CapacityIsBounded == Spec => []CapacityBounded
<1>1. TypeOK /\ IInv => CapacityBounded
  <2> SUFFICES ASSUME TypeOK, IInv, Added PROVE row.capacity \in 0 .. 100
    BY DEF CapacityBounded
  <2>1. Begun /\ row.capacity = Capacity(allocated, size) /\ size \in Nat
    BY DEF Added, IInv, CapacityComputed, TypeOK
  <2>2. CASE size = 0
    BY <2>1, <2>2 DEF Capacity
  <2>3. CASE size # 0
    <3>1. PICK s \in seen : size = s.size /\ allocated = s.alloc
      BY <2>1, <2>3 DEF IInv, LocalsAgree, Added
    <3>2. s \in Spaces
      BY <3>1 DEF TypeOK
    <3>3. size \in 0 .. UMod - 1 /\ allocated \in 0 .. size
      BY <3>1, <3>2, SpaceTypes
    <3> QED
      BY <2>1, <3>3, CapacityRange
  <2> QED
    BY <2>2, <2>3
<1> QED
  BY <1>1, IInvAlways, PTL

\* It is the exact one, rounded down, while the product fits its word.
THEOREM CapacityIsExact == Spec => []CapacityExact
<1>1. TypeOK /\ IInv => CapacityExact
  <2> SUFFICES ASSUME TypeOK, IInv, Added, failed = {},
                      NEW s \in seen, s.alloc * 100 < UMod
               PROVE  /\ row.capacity * s.size <= s.alloc * 100
                      /\ s.size > 0 => s.alloc * 100 < (row.capacity + 1) * s.size
    BY DEF CapacityExact
  <2>1. row.capacity = Capacity(allocated, size)
    BY DEF Added, IInv, CapacityComputed
  <2>2. size = s.size /\ allocated = s.alloc
    BY DEF Added, IInv, PartsRead, OneFetch
  <2>3. s.size \in 0 .. UMod - 1 /\ s.alloc \in 0 .. s.size
    BY SpaceTypes DEF TypeOK
  <2> QED
    BY <2>1, <2>2, <2>3, CapacityFloor
<1> QED
  BY <1>1, IInvAlways, PTL

\* The three sizes of a row are those of the pool at one instant.
THEOREM SizesDoAgree == Spec => []SizesAgree
<1>1. TypeOK /\ IInv => SizesAgree
  <2> SUFFICES ASSUME TypeOK, IInv, Added, failed = {}
               PROVE  \E s \in seen :
                        /\ 2 * s.size < LMod =>
                             row.size = s.size /\ row.allocated = s.alloc
                               /\ row.free = s.size - s.alloc
                        /\ (row.size - row.allocated - row.free) % LMod = 0
    BY DEF SizesAgree
  <2>1. PICK s \in seen :
          /\ row.size = Signed(s.size, LMod) /\ row.allocated = Signed(s.alloc, LMod)
          /\ row.free = Signed(s.size - s.alloc, LMod)
    BY DEF Added, IInv, PartsRead
  <2>2. /\ s.size \in Nat /\ s.alloc \in Nat /\ s.alloc <= s.size
        /\ s.size - s.alloc \in Nat /\ LMod \in Nat
    BY <2>1, SpaceTypes, WidthAssumption DEF TypeOK
  <2>3. ASSUME 2 * s.size < LMod
        PROVE  row.size = s.size /\ row.allocated = s.alloc /\ row.free = s.size - s.alloc
    <3>1. 2 * s.alloc < LMod /\ 2 * (s.size - s.alloc) < LMod
      BY <2>2, <2>3
    <3> QED
      BY <2>1, <2>2, <2>3, <3>1, SignedSmall
  <2>4. (row.size - row.allocated - row.free) % LMod = 0
    <3>1. LMod > 0
      BY WidthAssumption
    <3> QED
      BY <2>1, <2>2, <3>1, CutPartsAddUp
  <2> QED
    BY <2>1, <2>3, <2>4
<1> QED
  BY <1>1, IInvAlways, PTL

\* Every text of a row is the one its key names.
THEOREM TextsAreTruthful == Spec => []TextsTruthful
<1>1. IInv => TextsTruthful
  BY DEF IInv, TextsOwn, TextsTruthful
<1> QED
  BY <1>1, IInvAlways, PTL
=============================================================================
