------------------------- MODULE DatasetWalkProofs --------------------------
(***************************************************************************)
(* Theorems about DatasetWalk, for every tree of names.  Each layer of the *)
(* inductive invariant is proved on top of the ones before it.             *)
(***************************************************************************)
EXTENDS DatasetWalk, SequenceTheorems, FiniteSetTheorems,
        WellFoundedInduction, TLAPS

(***************************************************************************)
(* What the three changes of the stack return.                             *)
(***************************************************************************)

\* A length is zero, one, or the last of 2, 3, ...
LEMMA LengthCases ==
  ASSUME NEW k \in Nat, k # 0
  PROVE  k = 1 \/ (k \in 2 .. k /\ k - 1 \in 1 .. k - 1)
  OBVIOUS

\* A name's place is a positive number and its parent is a node.
LEMMA TreeTypes ==
  ASSUME NEW n \in Names
  PROVE  /\ n # Root /\ n \in Nodes
         /\ Parent[n] \in Nodes
         /\ Depth[n] \in Nat
         /\ Pos[n] \in Nat \ {0}
  BY TreeAssumption DEF Nodes

\* Moving the innermost iteration on changes its cookie and nothing else.
LEMMA AdvanceFrames ==
  ASSUME stack \in Seq(Frames), stack # <<>>, NEW n \in Names
  PROVE  /\ AdvanceTo(n) \in Seq(Frames)
         /\ Len(AdvanceTo(n)) = Len(stack)
         /\ \A i \in 1 .. Len(stack) - 1 : AdvanceTo(n)[i] = stack[i]
         /\ AdvanceTo(n)[Len(stack)].ds = Top.ds
         /\ AdvanceTo(n)[Len(stack)].cur = Pos[n]
<1>1. Len(stack) \in 1 .. Len(stack) /\ Len(stack) \in Nat \ {0}
  BY EmptySeq, LenProperties
<1>2. stack[Len(stack)] \in Frames
  BY <1>1, ElementOfSeq
<1> DEFINE e == [stack[Len(stack)] EXCEPT !.cur = Pos[n]]
<1>3. e \in Frames /\ e.ds = Top.ds /\ e.cur = Pos[n]
  BY <1>2, TreeTypes DEF Frames, Top
<1>4. AdvanceTo(n) = [stack EXCEPT ![Len(stack)] = e]
  BY DEF AdvanceTo
<1> HIDE DEF e
<1>5. /\ AdvanceTo(n) \in Seq(Frames)
      /\ Len(AdvanceTo(n)) = Len(stack)
      /\ \A j \in 1 .. Len(stack) : AdvanceTo(n)[j] = IF j = Len(stack) THEN e ELSE stack[j]
  BY <1>1, <1>3, <1>4, ExceptSeq
<1> QED
  BY <1>1, <1>3, <1>5

\* Entering a callback pushes the dataset's own iteration, at its start.
LEMMA PushFrame ==
  ASSUME stack \in Seq(Frames), stack # <<>>, NEW n \in Names
  PROVE  LET s == Append(AdvanceTo(n), [ds |-> n, cur |-> 0])
         IN  /\ s \in Seq(Frames)
             /\ Len(s) = Len(stack) + 1
             /\ \A i \in 1 .. Len(stack) - 1 : s[i] = stack[i]
             /\ s[Len(stack)].ds = Top.ds
             /\ s[Len(stack)].cur = Pos[n]
             /\ s[Len(stack) + 1].ds = n
             /\ s[Len(stack) + 1].cur = 0
<1> DEFINE f == [ds |-> n, cur |-> 0]
<1>1. f \in Frames /\ f.ds = n /\ f.cur = 0
  BY TreeTypes DEF Frames
<1> HIDE DEF f
<1>2. Len(stack) \in Nat \ {0}
  BY EmptySeq
<1>3. /\ Append(AdvanceTo(n), f) \in Seq(Frames)
      /\ Len(Append(AdvanceTo(n), f)) = Len(stack) + 1
      /\ \A i \in 1 .. Len(stack) : Append(AdvanceTo(n), f)[i] = AdvanceTo(n)[i]
      /\ Append(AdvanceTo(n), f)[Len(stack) + 1] = f
  BY <1>1, AdvanceFrames, AppendProperties
<1> QED
  BY <1>1, <1>2, <1>3, AdvanceFrames DEF f

\* Leaving a callback uncovers the iteration that made it, as it was.
LEMMA PopFrame ==
  ASSUME stack \in Seq(Frames), stack # <<>>
  PROVE  LET s == SubSeq(stack, 1, Len(stack) - 1)
         IN  /\ s \in Seq(Frames)
             /\ Len(s) = Len(stack) - 1
             /\ \A i \in 1 .. Len(stack) - 1 : s[i] = stack[i]
<1>1. Len(stack) \in Nat \ {0}
  BY EmptySeq
<1> DEFINE k == Len(stack) - 1
<1>2. 1 \in Int /\ k \in Int /\ \A i \in 1 .. k : stack[i] \in Frames
  BY <1>1, ElementOfSeq
<1> HIDE DEF k
<1>3. /\ SubSeq(stack, 1, k) \in Seq(Frames)
      /\ Len(SubSeq(stack, 1, k)) = IF 1 <= k THEN k - 1 + 1 ELSE 0
      /\ \A i \in 1 .. k - 1 + 1 : SubSeq(stack, 1, k)[i] = stack[1 + i - 1]
  BY <1>2, SubSeqProperties
<1> DEFINE t == SubSeq(stack, 1, k)
<1> HIDE DEF t
<1>4. k \in Nat /\ k - 1 + 1 = k /\ \A i \in 1 .. k : 1 + i - 1 = i
  BY <1>1 DEF k
<1>5. t \in Seq(Frames) /\ Len(t) = k
  BY <1>3, <1>4 DEF t
<1>6. \A i \in 1 .. k : t[i] = stack[i]
  BY <1>3, <1>4 DEF t
<1> QED
  BY <1>5, <1>6 DEF t, k

\* Adding a row lists its dataset, and no other.
LEMMA AppendRow ==
  ASSUME rows \in Seq(Names), NEW n \in Names
  PROVE  /\ Append(rows, n) \in Seq(Names)
         /\ Len(Append(rows, n)) = Len(rows) + 1
         /\ \A i \in 1 .. Len(rows) : Append(rows, n)[i] = rows[i]
         /\ Append(rows, n)[Len(rows) + 1] = n
         /\ Range(Append(rows, n)) = Range(rows) \cup {n}
<1>1. /\ Append(rows, n) \in Seq(Names)
      /\ Len(Append(rows, n)) = Len(rows) + 1
      /\ \A i \in 1 .. Len(rows) : Append(rows, n)[i] = rows[i]
      /\ Append(rows, n)[Len(rows) + 1] = n
  BY AppendProperties
<1>2. /\ Len(rows) \in Nat
      /\ DOMAIN rows = 1 .. Len(rows)
      /\ DOMAIN Append(rows, n) = 1 .. Len(rows) + 1
  BY <1>1, LenProperties
<1>3. Range(Append(rows, n)) = Range(rows) \cup {n}
  BY <1>1, <1>2 DEF Range
<1> QED
  BY <1>1, <1>3
-----------------------------------------------------------------------------
(***************************************************************************)
(* Layer 1: types, the path on the stack and the handles open for it.      *)
(***************************************************************************)

Base == TypeOK /\ StackIsPath /\ HandlesAccounted

\* A node has at most one iteration in progress.
LEMMA OnceOnStack ==
  ASSUME Base, NEW i \in 1 .. Len(stack), NEW j \in 1 .. Len(stack),
         stack[i].ds = stack[j].ds
  PROVE  i = j
<1>1. Len(stack) \in Nat /\ stack # <<>>
  BY LenProperties, EmptySeq DEF Base, TypeOK
<1>2. \A k \in 2 .. Len(stack) : stack[k].ds # Root /\ Depth[stack[k].ds] = k - 1
  BY TreeAssumption DEF Base, StackIsPath
<1>3. stack[1].ds = Root
  BY <1>1 DEF Base, StackIsPath
<1> QED
  BY <1>1, <1>2, <1>3

\* The dataset an iteration offers next is one level below the innermost
\* frame, ahead of its cookie, and not being visited already.
LEMMA NextIsNew ==
  ASSUME Base, stack # <<>>, NEW n \in Names, IsNext(n, Top)
  PROVE  /\ Parent[n] = Top.ds
         /\ Top.cur < Pos[n]
         /\ Kind[n] # "bookmark"
         /\ Depth[n] = Len(stack)
         /\ ~ OnStack(n)
<1>1. Len(stack) \in Nat \ {0} /\ Top = stack[Len(stack)]
  BY EmptySeq DEF Base, TypeOK, Top
<1>2. Parent[n] = Top.ds /\ Top.cur < Pos[n] /\ Kind[n] # "bookmark"
  BY DEF IsNext, Ahead, Offered
<1>3. \A k \in 2 .. Len(stack) :
        stack[k].ds \in Names /\ stack[k].ds # Root /\ Depth[stack[k].ds] = k - 1
  BY TreeAssumption DEF Base, StackIsPath
<1>4. stack[1].ds = Root
  BY DEF Base, StackIsPath
<1>5. Depth[n] = Len(stack)
  <2>1. CASE Len(stack) = 1
    BY <1>1, <1>2, <1>4, <2>1, TreeAssumption
  <2>2. CASE Len(stack) # 1
    <3>1. Len(stack) \in 2 .. Len(stack)
      BY <1>1, <2>2, LengthCases
    <3>2. Parent[n] # Root /\ Depth[Parent[n]] = Len(stack) - 1
      BY <1>1, <1>2, <1>3, <3>1
    <3>3. Depth[n] = Depth[Parent[n]] + 1
      BY <3>2, TreeAssumption
    <3> QED
      BY <1>1, <3>2, <3>3
  <2> QED
    BY <2>1, <2>2
<1>6. ~ OnStack(n)
  <2> SUFFICES ASSUME NEW k \in 1 .. Len(stack), stack[k].ds = n
               PROVE  FALSE
    BY DEF OnStack
  <2>1. k # 1
    BY <1>4, TreeTypes
  <2>2. Depth[n] = k - 1
    BY <1>1, <1>3, <2>1
  <2> QED
    BY <1>1, <1>5, <2>2
<1> QED
  BY <1>2, <1>5, <1>6

\* Init establishes the layer.
LEMMA BaseInit == Init => Base
<1> SUFFICES ASSUME Init PROVE Base
  OBVIOUS
<1>1. <<>> \in Seq(Frames) /\ <<>> \in Seq(Names) /\ Len(<<>>) = 0
  BY EmptySeq
<1>2. TypeOK
  <2>1. live \in SUBSET Names /\ 0 \in 0 .. MaxBailouts
    BY TreeAssumption DEF Init
  <2>2. [n \in Names |-> 0] \in [Names -> Nat]
    OBVIOUS
  <2>3. open \in [Names -> Nat] /\ leaked \in [Names -> Nat]
    BY <2>2 DEF Init
  <2>4. stack \in Seq(Frames) /\ rows \in Seq(Names) /\ bailouts \in 0 .. MaxBailouts
    BY <1>1, <2>1 DEF Init
  <2> QED
    BY <2>1, <2>3, <2>4 DEF Init, TypeOK
<1>3. StackIsPath
  BY <1>1 DEF Init, StackIsPath
<1>4. HandlesAccounted
  BY <1>1 DEF Init, HandlesAccounted, OnStack
<1> QED
  BY <1>2, <1>3, <1>4 DEF Base

\* Steps that leave the stack alone keep the layer.
LEMMA BaseSameStack ==
  ASSUME Base, TypeOK', stack' = stack, open' = open, leaked' = leaked,
         pc' = pc \/ (pc = "callback" /\ pc' = "library")
  PROVE  Base'
<1>1. StackIsPath'
  BY DEF Base, StackIsPath, Top
<1>2. HandlesAccounted'
  BY DEF Base, HandlesAccounted, OnStack
<1> QED
  BY <1>1, <1>2 DEF Base

\* A call that ends, or fails, at the root has closed what it opened.
LEMMA BaseAtRoot ==
  ASSUME Base, TypeOK', AtRoot, stack' = <<>>, open' = open, leaked' = leaked,
         pc' \in {"idle", "failed"}
  PROVE  Base'
<1>1. Len(stack) \in Nat \ {0} /\ Len(<<>>) = 0
  BY EmptySeq DEF Base, TypeOK, AtRoot, InLibrary
<1>2. Len(stack) = 1
  <2>1. Len(stack) \in 2 .. Len(stack) => FALSE
    BY TreeAssumption DEF Base, StackIsPath, AtRoot, Top
  <2> QED
    BY <1>1, <2>1, LengthCases
<1>3. \A n \in Names : ~ OnStack(n)
  BY <1>2, TreeAssumption DEF OnStack, AtRoot, Top
<1>4. HandlesAccounted'
  BY <1>1, <1>3 DEF Base, HandlesAccounted, OnStack
<1>5. StackIsPath'
  BY <1>1 DEF StackIsPath
<1> QED
  BY <1>4, <1>5 DEF Base

\* Leaving a callback closes the handle of the dataset it was called with.
LEMMA BaseClose ==
  ASSUME Base, InLibrary, Top.ds # Root, CloseTop, pc' = pc, leaked' = leaked
  PROVE  /\ stack' \in Seq(Frames)
         /\ Len(stack') = Len(stack) - 1
         /\ Len(stack) >= 2
         /\ \A i \in 1 .. Len(stack') : stack'[i] = stack[i]
         /\ open' \in [Names -> Nat]
         /\ StackIsPath'
         /\ HandlesAccounted'
<1> DEFINE k == Len(stack)
<1>1. k \in Nat \ {0} /\ stack \in Seq(Frames) /\ stack # <<>>
  BY EmptySeq DEF Base, TypeOK, InLibrary
<1>2. stack[1].ds = Root /\ k # 1
  BY <1>1 DEF Base, StackIsPath, Top
<1>3. /\ stack' \in Seq(Frames)
      /\ Len(stack') = k - 1
      /\ \A i \in 1 .. k - 1 : stack'[i] = stack[i]
  BY <1>1, PopFrame DEF CloseTop
<1>4. Top.ds \in Names /\ Top = stack[k] /\ OnStack(Top.ds)
  BY <1>1, <1>2 DEF Base, StackIsPath, Top, OnStack
<1>5. open[Top.ds] >= 1 /\ open \in [Names -> Nat] /\ leaked \in [Names -> Nat]
  BY <1>4 DEF Base, HandlesAccounted, TypeOK
<1>6. open' = [open EXCEPT ![Top.ds] = open[Top.ds] - 1]
  BY DEF CloseTop
<1>7. open' \in [Names -> Nat]
  BY <1>4, <1>5, <1>6
<1>8. \A n \in Names : OnStack(n)' <=> OnStack(n) /\ n # Top.ds
  <2> TAKE n \in Names
  <2>1. ASSUME OnStack(n)' PROVE OnStack(n) /\ n # Top.ds
    <3>1. PICK i \in 1 .. k - 1 : stack'[i].ds = n
      BY <1>3, <2>1 DEF OnStack
    <3>2. stack[i].ds = n /\ i \in 1 .. k /\ k \in 1 .. k /\ i # k
      BY <1>1, <1>3, <3>1
    <3> QED
      BY <1>4, <3>2, OnceOnStack DEF OnStack
  <2>2. ASSUME OnStack(n), n # Top.ds PROVE OnStack(n)'
    <3>1. PICK i \in 1 .. k : stack[i].ds = n
      BY <2>2 DEF OnStack
    <3>2. i \in 1 .. k - 1
      BY <1>1, <1>4, <2>2, <3>1
    <3> QED
      BY <1>3, <3>1, <3>2 DEF OnStack
  <2> QED
    BY <2>1, <2>2
<1>9. HandlesAccounted'
  <2> SUFFICES ASSUME NEW n \in Names
               PROVE  open'[n] = leaked'[n] + (IF OnStack(n)' THEN 1 ELSE 0)
    BY DEF HandlesAccounted
  <2>1. open[n] = leaked[n] + (IF OnStack(n) THEN 1 ELSE 0)
    BY DEF Base, HandlesAccounted
  <2> QED
    BY <1>4, <1>5, <1>6, <1>8, <2>1
<1>10. StackIsPath'
  <2>1. stack' # <<>> /\ pc' = "library"
    BY <1>1, <1>2, <1>3, EmptySeq DEF InLibrary
  <2>2. stack'[1].ds = Root
    BY <1>1, <1>2, <1>3
  <2>3. ASSUME NEW i \in 2 .. Len(stack')
        PROVE  /\ stack'[i].ds \in Names
               /\ Parent[stack'[i].ds] = stack'[i - 1].ds
               /\ Pos[stack'[i].ds] = stack'[i - 1].cur
               /\ Depth[stack'[i].ds] = i - 1
    <3>1. i \in 2 .. k /\ i \in 1 .. k - 1 /\ i - 1 \in 1 .. k - 1
      BY <1>1, <1>3
    <3>2. stack'[i] = stack[i] /\ stack'[i - 1] = stack[i - 1]
      BY <1>3, <3>1
    <3> QED
      BY <3>1, <3>2 DEF Base, StackIsPath
  <2> QED
    BY <2>1, <2>2, <2>3 DEF StackIsPath
<1> QED
  BY <1>1, <1>2, <1>3, <1>7, <1>9, <1>10

\* Entering a callback opens the handle of the dataset it is called with.
LEMMA BaseOpen ==
  ASSUME Base, NEW n \in Names, OpenNext(n)
  PROVE  Base'
<1> DEFINE k == Len(stack)
<1>1. k \in Nat /\ k # 0 /\ stack \in Seq(Frames) /\ stack # <<>> /\ pc = "library"
  BY EmptySeq DEF Base, TypeOK, OpenNext, InLibrary
<1>2. /\ stack' \in Seq(Frames)
      /\ Len(stack') = k + 1
      /\ \A i \in 1 .. k - 1 : stack'[i] = stack[i]
      /\ stack'[k].ds = stack[k].ds
      /\ stack'[k].cur = Pos[n]
      /\ stack'[k + 1].ds = n
      /\ stack'[k + 1].cur = 0
  BY <1>1, PushFrame DEF OpenNext, Top
<1>3. /\ Parent[n] = stack[k].ds
      /\ Depth[n] = k
      /\ ~ OnStack(n)
  BY <1>1, NextIsNew DEF OpenNext, Top
<1>4. \A i \in 1 .. k : stack'[i].ds = stack[i].ds
  BY <1>1, <1>2
<1>5. open' \in [Names -> Nat]
  BY DEF OpenNext, Base, TypeOK
<1>6. TypeOK'
  BY <1>2, <1>5 DEF OpenNext, Base, TypeOK, worldVars
<1>7. HandlesAccounted'
  <2> SUFFICES ASSUME NEW m \in Names
               PROVE  open'[m] = leaked'[m] + (IF OnStack(m)' THEN 1 ELSE 0)
    BY DEF HandlesAccounted
  <2>1. OnStack(m)' <=> OnStack(m) \/ m = n
    <3>1. ASSUME NEW i \in 1 .. k + 1, stack'[i].ds = m
          PROVE  OnStack(m) \/ m = n
      <4>1. i \in 1 .. k \/ i = k + 1
        BY <1>1
      <4> QED
        BY <1>2, <1>4, <3>1, <4>1 DEF OnStack
    <3>2. ASSUME NEW i \in 1 .. k, stack[i].ds = m
          PROVE  OnStack(m)'
      <4>1. i \in 1 .. k + 1 /\ stack'[i].ds = m
        BY <1>1, <1>4, <3>2
      <4> QED
        BY <1>2, <4>1 DEF OnStack
    <3>3. ASSUME m = n PROVE OnStack(m)'
      <4>1. k + 1 \in 1 .. k + 1
        BY <1>1
      <4> QED
        BY <1>2, <3>3, <4>1 DEF OnStack
    <3> QED
      BY <1>2, <3>1, <3>2, <3>3 DEF OnStack
  <2>2. open[m] = leaked[m] + (IF OnStack(m) THEN 1 ELSE 0)
    BY DEF Base, HandlesAccounted
  <2>3. leaked'[m] = leaked[m] /\ leaked[m] \in Nat
    BY DEF OpenNext, Base, TypeOK
  <2>4. open'[m] = IF m = n THEN open[n] + 1 ELSE open[m]
    BY DEF OpenNext, Base, TypeOK
  <2> QED
    BY <1>3, <2>1, <2>2, <2>3, <2>4
<1>8. StackIsPath'
  <2>1. stack' # <<>> /\ pc' = "callback" /\ Len(stack') >= 2
    BY <1>1, <1>2, EmptySeq DEF OpenNext
  <2>2. stack'[1].ds = Root
    <3>1. 1 \in 1 .. k
      BY <1>1
    <3> QED
      BY <1>1, <1>4, <3>1 DEF Base, StackIsPath
  <2>3. ASSUME NEW i \in 2 .. Len(stack')
        PROVE  /\ stack'[i].ds \in Names
               /\ Parent[stack'[i].ds] = stack'[i - 1].ds
               /\ Pos[stack'[i].ds] = stack'[i - 1].cur
               /\ Depth[stack'[i].ds] = i - 1
    <3>1. CASE i = k + 1
      BY <1>1, <1>2, <1>3, <3>1
    <3>2. CASE i # k + 1
      <4>1. i \in 2 .. k /\ i \in 1 .. k /\ i - 1 \in 1 .. k - 1 /\ i - 1 \in 1 .. k
        BY <1>1, <1>2, <3>2
      <4>2. stack'[i].ds = stack[i].ds /\ stack'[i - 1] = stack[i - 1]
        BY <1>2, <1>4, <4>1
      <4> QED
        BY <4>1, <4>2 DEF Base, StackIsPath
    <3> QED
      BY <3>1, <3>2
  <2>4. Top'.cur = 0
    BY <1>2 DEF Top
  <2> QED
    BY <2>1, <2>2, <2>3, <2>4 DEF StackIsPath
<1> QED
  BY <1>6, <1>7, <1>8 DEF Base

\* Passing over a dataset moves the innermost cookie and opens nothing.
LEMMA BaseSkip ==
  ASSUME Base, NEW n \in Names, SkipNext(n)
  PROVE  Base'
<1> DEFINE k == Len(stack)
<1>1. k \in Nat /\ k # 0 /\ stack \in Seq(Frames) /\ stack # <<>> /\ pc = "library"
  BY EmptySeq DEF Base, TypeOK, SkipNext, InLibrary
<1>2. /\ stack' \in Seq(Frames)
      /\ Len(stack') = k
      /\ \A i \in 1 .. k - 1 : stack'[i] = stack[i]
      /\ stack'[k].ds = stack[k].ds
  BY <1>1, AdvanceFrames DEF SkipNext, Top
<1>3. \A i \in 1 .. k : stack'[i].ds = stack[i].ds
  BY <1>1, <1>2
<1>4. TypeOK'
  BY <1>2 DEF SkipNext, Base, TypeOK, worldVars
<1>5. HandlesAccounted'
  BY <1>2, <1>3 DEF SkipNext, Base, HandlesAccounted, OnStack
<1>6. StackIsPath'
  <2>1. stack' # <<>> /\ pc' = "library"
    BY <1>1, <1>2, EmptySeq DEF SkipNext
  <2>2. stack'[1].ds = Root
    <3>1. 1 \in 1 .. k
      BY <1>1
    <3> QED
      BY <1>1, <1>3, <3>1 DEF Base, StackIsPath
  <2>3. ASSUME NEW i \in 2 .. Len(stack')
        PROVE  /\ stack'[i].ds \in Names
               /\ Parent[stack'[i].ds] = stack'[i - 1].ds
               /\ Pos[stack'[i].ds] = stack'[i - 1].cur
               /\ Depth[stack'[i].ds] = i - 1
    <3>1. i \in 2 .. k /\ i \in 1 .. k /\ i - 1 \in 1 .. k - 1
      BY <1>1, <1>2
    <3>2. stack'[i].ds = stack[i].ds /\ stack'[i - 1] = stack[i - 1]
      BY <1>2, <1>3, <3>1
    <3> QED
      BY <3>1, <3>2 DEF Base, StackIsPath
  <2> QED
    BY <2>1, <2>2, <2>3 DEF StackIsPath
<1> QED
  BY <1>4, <1>5, <1>6 DEF Base

\* The layer is inductive.
LEMMA BaseStep == Base /\ [Next]_vars => Base'
<1> SUFFICES ASSUME Base, [Next]_vars
             PROVE  Base'
  OBVIOUS
<1>0. TypeOK
  BY DEF Base
<1>1. ASSUME NEW n \in Names, Create(n)
      PROVE  Base'
  <2>1. TypeOK'
    BY <1>0, <1>1 DEF TypeOK, Create, callVars
  <2> QED
    BY <1>1, <2>1, BaseSameStack DEF Create, callVars
<1>2. ASSUME NEW n \in Names, Destroy(n)
      PROVE  Base'
  <2>1. TypeOK'
    BY <1>0, <1>2 DEF TypeOK, Destroy, callVars
  <2> QED
    BY <1>2, <2>1, BaseSameStack DEF Destroy, callVars
<1>3. CASE Begin
  <2> DEFINE f == [ds |-> Root, cur |-> 0]
  <2>1. f \in Frames /\ f.ds = Root
    BY DEF Frames, Nodes
  <2> HIDE DEF f
  <2>2. /\ <<f>> \in Seq(Frames) /\ <<f>> # <<>> /\ Len(<<f>>) = 1 /\ <<f>>[1] = f
        /\ <<>> \in Seq(Names)
    BY <2>1
  <2>3. stack' = <<f>> /\ pc' = "library"
    BY <1>3 DEF Begin, f
  <2>4. TypeOK'
    BY <1>0, <1>3, <2>2, <2>3 DEF TypeOK, Begin
  <2>5. StackIsPath'
    BY <2>1, <2>2, <2>3 DEF StackIsPath
  <2>6. \A n \in Names : ~ OnStack(n)
    BY <1>0, <1>3, EmptySeq DEF Base, StackIsPath, Begin, OnStack
  <2>7. \A n \in Names : ~ OnStack(n)'
    BY <2>1, <2>2, <2>3, TreeAssumption DEF OnStack
  <2>8. HandlesAccounted'
    BY <1>3, <2>6, <2>7 DEF Base, HandlesAccounted, Begin
  <2> QED
    BY <2>4, <2>5, <2>8 DEF Base
<1>4. ASSUME NEW n \in Names, OpenNext(n)
      PROVE  Base'
  BY <1>4, BaseOpen
<1>5. ASSUME NEW n \in Names, SkipNext(n)
      PROVE  Base'
  BY <1>5, BaseSkip
<1>6. CASE AddRow
  <2>1. Len(stack) \in 2 .. Len(stack) /\ Top.ds \in Names
    <3>1. Len(stack) \in Nat /\ Len(stack) >= 2
      BY <1>0, <1>6, LenProperties DEF Base, StackIsPath, TypeOK, AddRow
    <3>2. Len(stack) \in 2 .. Len(stack)
      BY <3>1
    <3> QED
      BY <3>2 DEF Base, StackIsPath, Top
  <2>2. rows' \in Seq(Names)
    BY <1>0, <1>6, <2>1, AppendRow DEF TypeOK, AddRow
  <2>3. TypeOK'
    BY <1>0, <1>6, <2>2 DEF TypeOK, AddRow, worldVars
  <2> QED
    BY <1>6, <2>3, BaseSameStack DEF AddRow
<1>7. CASE ChildrenDone
  <2>1. /\ stack' \in Seq(Frames) /\ open' \in [Names -> Nat]
        /\ StackIsPath' /\ HandlesAccounted'
    BY <1>7, BaseClose DEF ChildrenDone
  <2>2. TypeOK'
    BY <1>0, <1>7, <2>1 DEF TypeOK, ChildrenDone, worldVars
  <2> QED
    BY <2>1, <2>2 DEF Base
<1>8. CASE ChildrenFail
  <2>1. /\ stack' \in Seq(Frames) /\ open' \in [Names -> Nat]
        /\ StackIsPath' /\ HandlesAccounted'
    BY <1>8, BaseClose DEF ChildrenFail
  <2>2. Top.ds \in Names
    <3>1. Len(stack) \in Nat /\ Len(stack) # 0 /\ stack[Len(stack)] \in Frames
      BY <1>0, <1>8, EmptySeq, ElementOfSeq DEF TypeOK, ChildrenFail, InLibrary
    <3> QED
      BY <1>8, <3>1 DEF ChildrenFail, Top, Frames, Nodes
  <2>3. cut' \in SUBSET Names
    BY <1>0, <1>8, <2>2 DEF TypeOK, ChildrenFail
  <2>4. TypeOK'
    BY <1>0, <1>8, <2>1, <2>3 DEF TypeOK, ChildrenFail, worldVars
  <2> QED
    BY <2>1, <2>4 DEF Base
<1>9. CASE Bailout
  <2>1. /\ <<>> \in Seq(Frames) /\ <<>> \in Seq(Names) /\ Len(<<>>) = 0
    BY EmptySeq
  <2>2. bailouts' \in 0 .. MaxBailouts
    BY <1>0, <1>9, TreeAssumption DEF TypeOK, Bailout
  <2>3. TypeOK'
    BY <1>0, <1>9, <2>1, <2>2 DEF TypeOK, Bailout, worldVars
  <2>4. StackIsPath'
    BY <1>9, <2>1 DEF StackIsPath, Bailout
  <2>5. HandlesAccounted'
    BY <1>0, <1>9, <2>1 DEF HandlesAccounted, Bailout, OnStack, TypeOK
  <2> QED
    BY <2>3, <2>4, <2>5 DEF Base
<1>10. CASE RootDone
  <2>1. TypeOK'
    BY <1>0, <1>10, EmptySeq DEF TypeOK, RootDone, worldVars
  <2> QED
    BY <1>10, <2>1, BaseAtRoot DEF RootDone
<1>11. CASE RootFail
  <2>1. TypeOK'
    BY <1>0, <1>11, EmptySeq DEF TypeOK, RootFail, worldVars
  <2> QED
    BY <1>11, <2>1, BaseAtRoot DEF RootFail
<1>12. CASE Warn
  <2>1. TypeOK'
    BY <1>0, <1>12 DEF TypeOK, Warn, worldVars
  <2>2. StackIsPath' /\ HandlesAccounted'
    BY <1>12 DEF Base, StackIsPath, HandlesAccounted, OnStack, Warn
  <2> QED
    BY <2>1, <2>2 DEF Base
<1>13. CASE ReturnFalse \/ AbandonInHandler
  <2>1. TypeOK'
    BY <1>0, <1>13, EmptySeq DEF TypeOK, ReturnFalse, AbandonInHandler, worldVars
  <2>2. StackIsPath' /\ HandlesAccounted'
    BY <1>13 DEF Base, StackIsPath, HandlesAccounted, OnStack, ReturnFalse, AbandonInHandler
  <2> QED
    BY <2>1, <2>2 DEF Base
<1>14. CASE UNCHANGED vars
  <2>1. TypeOK' /\ StackIsPath' /\ HandlesAccounted'
    BY <1>14 DEF Base, TypeOK, StackIsPath, HandlesAccounted, OnStack, Top, vars, worldVars, callVars
  <2> QED
    BY <2>1 DEF Base
<1> QED
  BY <1>1, <1>2, <1>3, <1>4, <1>5, <1>6, <1>7, <1>8, <1>9, <1>10, <1>11, <1>12,
     <1>13, <1>14 DEF Next, World, CallStep

LEMMA BaseInv == Spec => []Base
  BY BaseInit, BaseStep, PTL DEF Spec

\* Every variable keeps its type: what zfs_list_callback() recurses on is a
\* sequence of frames, and no handle is closed more often than opened.
THEOREM TypeCorrect == Spec => []TypeOK
<1>1. Base => TypeOK
  BY DEF Base
<1> QED
  BY <1>1, BaseInv, PTL

\* Every handle the walk opens is closed by the call that opened it, unless a
\* fatal error of the engine aborted that call (zfs_list.c:97-100).
THEOREM HandlesClosed == Spec => []HandlesAccounted
<1>1. Base => HandlesAccounted
  BY DEF Base
<1> QED
  BY <1>1, BaseInv, PTL

\* However the tree changes under it, the walk recurses no deeper than the
\* dataset it is at: the C stack is bounded by the depth of the names.
THEOREM RecursionIsBounded == Spec => []RecursionBounded
<1>1. ASSUME Base, Len(stack) > 1 PROVE \E n \in Names : Len(stack) <= Depth[n] + 1
  <2>1. Len(stack) \in Nat
    BY LenProperties DEF Base, TypeOK
  <2>2. Len(stack) \in 2 .. Len(stack)
    BY <1>1, <2>1
  <2>3. stack[Len(stack)].ds \in Names /\ Depth[stack[Len(stack)].ds] = Len(stack) - 1
    BY <1>1, <2>2 DEF Base, StackIsPath
  <2> QED
    BY <2>1, <2>3
<1>2. Base => RecursionBounded
  BY <1>1 DEF RecursionBounded
<1> QED
  BY <1>2, BaseInv, PTL
-----------------------------------------------------------------------------
(***************************************************************************)
(* Layer 2: no dataset is listed twice.                                    *)
(***************************************************************************)

Once == StackListed /\ RowsBehind /\ NoDuplicates

\* A frame is a node and a cookie.
LEMMA FrameTypes ==
  ASSUME Base, NEW i \in 1 .. Len(stack)
  PROVE  stack[i].ds \in Nodes /\ stack[i].cur \in Nat
<1>1. stack \in Seq(Frames)
  BY DEF Base, TypeOK
<1>2. stack[i] \in Frames
  BY <1>1, ElementOfSeq
<1> QED
  BY <1>2 DEF Frames

\* What the stack looks like around the opening of n.
LEMMA OpenShape ==
  ASSUME Base, NEW n \in Names, OpenNext(n)
  PROVE  /\ Len(stack) \in Nat /\ Len(stack) # 0 /\ stack # <<>> /\ pc = "library"
         /\ Len(stack') = Len(stack) + 1
         /\ \A i \in 1 .. Len(stack) - 1 : stack'[i] = stack[i]
         /\ \A i \in 1 .. Len(stack) : stack'[i].ds = stack[i].ds
         /\ stack'[Len(stack)].cur = Pos[n]
         /\ stack'[Len(stack) + 1].ds = n
         /\ stack'[Len(stack) + 1].cur = 0
<1> DEFINE k == Len(stack)
<1>1. k \in Nat /\ k # 0 /\ stack \in Seq(Frames) /\ stack # <<>> /\ pc = "library"
  BY EmptySeq DEF Base, TypeOK, OpenNext, InLibrary
<1>2. /\ Len(stack') = k + 1
      /\ \A i \in 1 .. k - 1 : stack'[i] = stack[i]
      /\ stack'[k].ds = stack[k].ds
      /\ stack'[k].cur = Pos[n]
      /\ stack'[k + 1].ds = n
      /\ stack'[k + 1].cur = 0
  BY <1>1, PushFrame DEF OpenNext, Top
<1>3. \A i \in 1 .. k : stack'[i].ds = stack[i].ds
  BY <1>1, <1>2
<1> QED
  BY <1>1, <1>2, <1>3

\* What the stack looks like around the passing over of n.
LEMMA SkipShape ==
  ASSUME Base, NEW n \in Names, SkipNext(n)
  PROVE  /\ Len(stack) \in Nat /\ Len(stack) # 0 /\ stack # <<>> /\ pc = "library"
         /\ Len(stack') = Len(stack)
         /\ \A i \in 1 .. Len(stack) - 1 : stack'[i] = stack[i]
         /\ \A i \in 1 .. Len(stack) : stack'[i].ds = stack[i].ds
         /\ stack'[Len(stack)].cur = Pos[n]
<1> DEFINE k == Len(stack)
<1>1. k \in Nat /\ k # 0 /\ stack \in Seq(Frames) /\ stack # <<>> /\ pc = "library"
  BY EmptySeq DEF Base, TypeOK, SkipNext, InLibrary
<1>2. /\ Len(stack') = k
      /\ \A i \in 1 .. k - 1 : stack'[i] = stack[i]
      /\ stack'[k].ds = stack[k].ds
      /\ stack'[k].cur = Pos[n]
  BY <1>1, AdvanceFrames DEF SkipNext, Top
<1>3. \A i \in 1 .. k : stack'[i].ds = stack[i].ds
  BY <1>1, <1>2
<1> QED
  BY <1>1, <1>2, <1>3

\* Frames keep their cookies or move on to Pos[n]: what an iteration was past
\* it is still past.
LEMMA CookiesGrow ==
  ASSUME Base, NEW n \in Names, OpenNext(n) \/ SkipNext(n),
         NEW i \in 1 .. Len(stack)
  PROVE  /\ i \in 1 .. Len(stack')
         /\ stack'[i].ds = stack[i].ds
         /\ stack[i].cur \in Nat /\ stack'[i].cur \in Nat
         /\ stack[i].cur <= stack'[i].cur
<1>1. /\ Len(stack) \in Nat /\ Len(stack) # 0 /\ stack # <<>>
      /\ Len(stack') = Len(stack) \/ Len(stack') = Len(stack) + 1
      /\ \A j \in 1 .. Len(stack) - 1 : stack'[j] = stack[j]
      /\ stack'[i].ds = stack[i].ds
      /\ stack'[Len(stack)].cur = Pos[n]
  BY OpenShape, SkipShape
<1>2. stack[i].cur \in Nat
  BY FrameTypes
<1>3. IsNext(n, Top)
  BY DEF OpenNext, SkipNext
<1>4. Top.cur < Pos[n] /\ Top = stack[Len(stack)] /\ Pos[n] \in Nat
  BY <1>1, <1>3, NextIsNew, TreeTypes DEF Top
<1>5. i \in 1 .. Len(stack')
  BY <1>1
<1>6. CASE i = Len(stack)
  BY <1>1, <1>2, <1>4, <1>5, <1>6
<1>7. CASE i # Len(stack)
  <2>1. i \in 1 .. Len(stack) - 1
    BY <1>1, <1>7
  <2> QED
    BY <1>1, <1>2, <1>5, <2>1
<1> QED
  BY <1>6, <1>7

\* A dataset that is offered has not been listed in this call.
LEMMA NextNotListed ==
  ASSUME Base, Once, stack # <<>>, NEW n \in Names, IsNext(n, Top)
  PROVE  n \notin Listed
<1>1. Len(stack) \in 1 .. Len(stack) /\ Len(stack) \in Nat /\ Top = stack[Len(stack)]
  BY EmptySeq DEF Base, TypeOK, Top
<1>2. Parent[n] = Top.ds /\ Top.cur < Pos[n]
  BY NextIsNew
<1>3. Top.cur \in Nat /\ Pos[n] \in Nat
  BY <1>1, FrameTypes, TreeTypes
<1>4. SUFFICES ASSUME n \in Listed PROVE FALSE
  OBVIOUS
<1>5. OnStack(Parent[n])
  BY <1>1, <1>2 DEF OnStack
<1>6. PICK i \in 1 .. Len(stack) : stack[i].ds = Parent[n] /\ Pos[n] <= stack[i].cur
  BY <1>4, <1>5 DEF Once, RowsBehind
<1>7. i = Len(stack)
  BY <1>1, <1>2, <1>6, OnceOnStack
<1> QED
  BY <1>1, <1>2, <1>3, <1>6, <1>7

\* Leaving a callback keeps the layer: what hung on the closed dataset's
\* iteration hangs on its row now.
LEMMA OnceClose ==
  ASSUME Base, Once, InLibrary, Top.ds # Root, CloseTop,
         pc' = pc, leaked' = leaked, rows' = rows
  PROVE  Once'
<1> DEFINE k == Len(stack)
<1>1. /\ k \in Nat /\ k >= 2 /\ Len(stack') = k - 1 /\ stack # <<>>
      /\ \A i \in 1 .. k - 1 : stack'[i] = stack[i]
  BY BaseClose, LenProperties DEF Base, TypeOK, InLibrary
<1>2. Listed' = Listed
  BY DEF Listed
<1>3. Top = stack[k] /\ Top.ds \in Listed
  <2>1. k \in 2 .. k
    BY <1>1
  <2> QED
    BY <2>1 DEF Once, StackListed, Top, InLibrary
<1>4. StackListed'
  BY <1>1, <1>2 DEF Once, StackListed, InLibrary
<1>5. RowsBehind'
  <2> SUFFICES ASSUME NEW m \in Listed
               PROVE  \/ \E i \in 1 .. Len(stack') :
                           stack'[i].ds = Parent[m] /\ Pos[m] <= stack'[i].cur
                      \/ Parent[m] \in Listed /\ ~ OnStack(Parent[m])'
    BY <1>2 DEF RowsBehind
  <2>1. CASE Parent[m] = Top.ds
    <3>1. ASSUME NEW i \in 1 .. k - 1, stack'[i].ds = Top.ds
          PROVE  FALSE
      <4>1. i \in 1 .. k /\ k \in 1 .. k /\ i # k /\ stack[i].ds = stack[k].ds
        BY <1>1, <1>3, <3>1
      <4> QED
        BY <4>1, OnceOnStack
    <3>2. ~ OnStack(Parent[m])'
      BY <1>1, <2>1, <3>1 DEF OnStack
    <3> QED
      BY <1>3, <2>1, <3>2
  <2>2. CASE Parent[m] # Top.ds
    <3>1. CASE \E i \in 1 .. k : stack[i].ds = Parent[m] /\ Pos[m] <= stack[i].cur
      <4>1. PICK i \in 1 .. k : stack[i].ds = Parent[m] /\ Pos[m] <= stack[i].cur
        BY <3>1
      <4>2. i \in 1 .. k - 1
        BY <1>1, <1>3, <2>2, <4>1
      <4> QED
        BY <1>1, <4>1, <4>2
    <3>2. CASE Parent[m] \in Listed /\ ~ OnStack(Parent[m])
      <4>1. \A i \in 1 .. k - 1 : i \in 1 .. k
        BY <1>1
      <4>2. ~ OnStack(Parent[m])'
        BY <1>1, <3>2, <4>1 DEF OnStack
      <4> QED
        BY <3>2, <4>2
    <3> QED
      BY <1>1, <3>1, <3>2 DEF Once, RowsBehind
  <2> QED
    BY <2>1, <2>2
<1>6. NoDuplicates'
  BY DEF Once, NoDuplicates
<1> QED
  BY <1>4, <1>5, <1>6 DEF Once

\* Once an iteration is past a dataset, nothing it offers later is that one.
LEMMA OnceOpen ==
  ASSUME Base, Once, NEW n \in Names, OpenNext(n)
  PROVE  Once'
<1> DEFINE k == Len(stack)
<1>1. /\ k \in Nat /\ k # 0 /\ stack # <<>> /\ pc = "library"
      /\ Len(stack') = k + 1
      /\ \A i \in 1 .. k : stack'[i].ds = stack[i].ds
      /\ stack'[k + 1].ds = n
  BY OpenShape
<1>2. rows' = rows /\ pc' = "callback" /\ IsNext(n, Top)
  BY DEF OpenNext
<1>3. Listed' = Listed
  BY <1>2 DEF Listed
<1>4. n \notin Listed
  BY <1>1, <1>2, NextNotListed
<1>5. StackListed'
  <2> SUFFICES ASSUME NEW i \in 2 .. k + 1
               PROVE  stack'[i].ds \in Listed <=> i # k + 1
    BY <1>1, <1>2, <1>3 DEF StackListed
  <2>1. CASE i = k + 1
    BY <1>1, <1>4, <2>1
  <2>2. CASE i # k + 1
    <3>1. i \in 2 .. k /\ i \in 1 .. k
      BY <1>1, <2>2
    <3> QED
      BY <1>1, <2>2, <3>1 DEF Once, StackListed
  <2> QED
    BY <2>1, <2>2
<1>6. RowsBehind'
  <2> SUFFICES ASSUME NEW m \in Listed
               PROVE  \/ \E i \in 1 .. Len(stack') :
                           stack'[i].ds = Parent[m] /\ Pos[m] <= stack'[i].cur
                      \/ Parent[m] \in Listed /\ ~ OnStack(Parent[m])'
    BY <1>3 DEF RowsBehind
  <2>1. CASE \E i \in 1 .. k : stack[i].ds = Parent[m] /\ Pos[m] <= stack[i].cur
    <3>1. PICK i \in 1 .. k : stack[i].ds = Parent[m] /\ Pos[m] <= stack[i].cur
      BY <2>1
    <3>2. /\ i \in 1 .. Len(stack') /\ stack'[i].ds = stack[i].ds
          /\ stack[i].cur \in Nat /\ stack'[i].cur \in Nat /\ stack[i].cur <= stack'[i].cur
      BY CookiesGrow
    <3>3. m \in Names
      BY RangeOfSeq DEF Base, TypeOK, Listed, Range
    <3> QED
      BY <3>1, <3>2, <3>3, TreeTypes
  <2>2. CASE Parent[m] \in Listed /\ ~ OnStack(Parent[m])
    <3>1. ASSUME NEW i \in 1 .. k + 1, stack'[i].ds = Parent[m]
          PROVE  FALSE
      <4>1. i \in 1 .. k \/ i = k + 1
        BY <1>1
      <4> QED
        BY <1>1, <1>4, <2>2, <3>1, <4>1 DEF OnStack
    <3> QED
      BY <1>1, <2>2, <3>1 DEF OnStack
  <2> QED
    BY <1>1, <2>1, <2>2 DEF Once, RowsBehind
<1>7. NoDuplicates'
  BY <1>2 DEF Once, NoDuplicates
<1> QED
  BY <1>5, <1>6, <1>7 DEF Once

LEMMA OnceSkip ==
  ASSUME Base, Once, NEW n \in Names, SkipNext(n)
  PROVE  Once'
<1> DEFINE k == Len(stack)
<1>1. /\ k \in Nat /\ k # 0 /\ stack # <<>> /\ pc = "library"
      /\ Len(stack') = k
      /\ \A i \in 1 .. k : stack'[i].ds = stack[i].ds
  BY SkipShape
<1>2. rows' = rows /\ pc' = pc
  BY DEF SkipNext
<1>3. Listed' = Listed
  BY <1>2 DEF Listed
<1>4. StackListed'
  <2>1. \A i \in 2 .. k : i \in 1 .. k
    BY <1>1
  <2> QED
    BY <1>1, <1>2, <1>3, <2>1 DEF Once, StackListed
<1>5. RowsBehind'
  <2> SUFFICES ASSUME NEW m \in Listed
               PROVE  \/ \E i \in 1 .. Len(stack') :
                           stack'[i].ds = Parent[m] /\ Pos[m] <= stack'[i].cur
                      \/ Parent[m] \in Listed /\ ~ OnStack(Parent[m])'
    BY <1>3 DEF RowsBehind
  <2>1. CASE \E i \in 1 .. k : stack[i].ds = Parent[m] /\ Pos[m] <= stack[i].cur
    <3>1. PICK i \in 1 .. k : stack[i].ds = Parent[m] /\ Pos[m] <= stack[i].cur
      BY <2>1
    <3>2. /\ i \in 1 .. Len(stack') /\ stack'[i].ds = stack[i].ds
          /\ stack[i].cur \in Nat /\ stack'[i].cur \in Nat /\ stack[i].cur <= stack'[i].cur
      BY CookiesGrow
    <3>3. m \in Names
      BY RangeOfSeq DEF Base, TypeOK, Listed, Range
    <3> QED
      BY <3>1, <3>2, <3>3, TreeTypes
  <2>2. CASE Parent[m] \in Listed /\ ~ OnStack(Parent[m])
    BY <1>1, <2>2 DEF OnStack
  <2> QED
    BY <1>1, <2>1, <2>2 DEF Once, RowsBehind
<1>6. NoDuplicates'
  BY <1>2 DEF Once, NoDuplicates
<1> QED
  BY <1>4, <1>5, <1>6 DEF Once

\* The row that is added is new, and its siblings' iteration stands at it.
LEMMA OnceAddRow ==
  ASSUME Base, Once, AddRow
  PROVE  Once'
<1> DEFINE k == Len(stack)
<1> DEFINE d == Top.ds
<1>1. k \in Nat /\ k >= 2 /\ stack # <<>> /\ pc = "callback"
  BY EmptySeq DEF Base, StackIsPath, TypeOK, AddRow
<1>2. k \in 2 .. k /\ k \in 1 .. k /\ k - 1 \in 1 .. k /\ Top = stack[k]
  BY <1>1 DEF Top
<1>3. /\ d \in Names
      /\ Parent[d] = stack[k - 1].ds
      /\ Pos[d] = stack[k - 1].cur
      /\ Pos[d] \in Nat
  BY <1>2, TreeTypes DEF Base, StackIsPath
<1>4. d \notin Listed
  BY <1>1, <1>2 DEF Once, StackListed
<1>5. /\ stack' = stack /\ pc' = "library"
      /\ rows' = Append(rows, d)
      /\ Len(rows) \in Nat
      /\ Len(rows') = Len(rows) + 1
      /\ \A i \in 1 .. Len(rows) : rows'[i] = rows[i]
      /\ rows'[Len(rows) + 1] = d
      /\ Listed' = Listed \cup {d}
  BY <1>3, AppendRow, LenProperties DEF AddRow, Base, TypeOK, Listed
<1>6. StackListed'
  <2> SUFFICES ASSUME NEW i \in 2 .. k
               PROVE  stack[i].ds \in Listed \cup {d}
    BY <1>5 DEF StackListed
  <2>1. CASE i = k
    BY <1>2, <2>1
  <2>2. CASE i # k
    BY <2>2 DEF Once, StackListed
  <2> QED
    BY <2>1, <2>2
<1>7. RowsBehind'
  <2> SUFFICES ASSUME NEW m \in Listed \cup {d}
               PROVE  \/ \E i \in 1 .. k : stack[i].ds = Parent[m] /\ Pos[m] <= stack[i].cur
                      \/ Parent[m] \in Listed \cup {d} /\ ~ OnStack(Parent[m])
    BY <1>5 DEF RowsBehind, OnStack
  <2>1. CASE m = d
    BY <1>2, <1>3, <2>1
  <2>2. CASE m \in Listed
    BY <1>1, <2>2 DEF Once, RowsBehind
  <2> QED
    BY <2>1, <2>2
<1>8. NoDuplicates'
  <2> SUFFICES ASSUME NEW i \in 1 .. Len(rows) + 1, NEW j \in 1 .. Len(rows) + 1,
                      rows'[i] = rows'[j]
               PROVE  i = j
    BY <1>5 DEF NoDuplicates
  <2>1. \A x \in 1 .. Len(rows) : rows[x] \in Listed
    BY <1>5, LenProperties DEF Listed, Range, Base, TypeOK
  <2>2. \A x \in 1 .. Len(rows) : rows'[x] # d
    BY <1>4, <1>5, <2>1
  <2>3. /\ i \in 1 .. Len(rows) \/ i = Len(rows) + 1
        /\ j \in 1 .. Len(rows) \/ j = Len(rows) + 1
    BY <1>5
  <2> QED
    BY <1>5, <2>2, <2>3 DEF Once, NoDuplicates
<1> QED
  BY <1>6, <1>7, <1>8 DEF Once

\* With at most the root's iteration in progress, the layer is about rows.
LEMMA OnceFlat ==
  ASSUME Len(stack') = 0 \/ (Len(stack') = 1 /\ rows' = <<>>),
         stack' = <<>> \/ rows' = <<>>,
         rows' = <<>> \/ (rows' = rows /\ Once)
  PROVE  Once'
<1>1. Len(<<>>) = 0 /\ Range(<<>>) = {}
  BY EmptySeq DEF Range
<1>2. \A i \in 2 .. Len(stack') : FALSE
  <2>1. \A k \in {0, 1} : \A i \in 2 .. k : FALSE
    OBVIOUS
  <2>2. Len(stack') \in {0, 1}
    OBVIOUS
  <2> QED
    BY <2>1, <2>2
<1>3. StackListed'
  BY <1>2 DEF StackListed
<1>4. RowsBehind'
  BY <1>1 DEF RowsBehind, Listed
<1>5. NoDuplicates'
  BY <1>1 DEF Once, NoDuplicates
<1> QED
  BY <1>3, <1>4, <1>5 DEF Once

LEMMA OnceInit == Init => Once
<1> SUFFICES ASSUME Init PROVE Once
  OBVIOUS
<1>1. Len(<<>>) = 0
  BY EmptySeq
<1>2. \A i \in 2 .. 0 : FALSE
  OBVIOUS
<1> QED
  BY <1>1, <1>2 DEF Init, Once, StackListed, RowsBehind, NoDuplicates

LEMMA OnceStep == Base /\ Once /\ [Next]_vars => Once'
<1> SUFFICES ASSUME Base, Once, [Next]_vars PROVE Once'
  OBVIOUS
<1>0. Len(<<>>) = 0 /\ Len(<<[ds |-> Root, cur |-> 0]>>) = 1
  BY EmptySeq
<1>1. CASE World \/ UNCHANGED vars
  <2>1. stack' = stack /\ rows' = rows /\ pc' = pc
    BY <1>1 DEF World, Create, Destroy, vars, callVars
  <2>2. StackListed' /\ RowsBehind' /\ NoDuplicates'
    BY <2>1 DEF Once, StackListed, RowsBehind, NoDuplicates, Listed, OnStack
  <2> QED
    BY <2>2 DEF Once
<1>2. CASE Begin
  BY <1>0, <1>2, OnceFlat DEF Begin
<1>3. ASSUME NEW n \in Names, OpenNext(n) PROVE Once'
  BY <1>3, OnceOpen
<1>4. ASSUME NEW n \in Names, SkipNext(n) PROVE Once'
  BY <1>4, OnceSkip
<1>5. CASE AddRow
  BY <1>5, OnceAddRow
<1>6. CASE ChildrenDone
  BY <1>6, OnceClose DEF ChildrenDone
<1>7. CASE ChildrenFail
  BY <1>7, OnceClose DEF ChildrenFail
<1>8. CASE Bailout
  BY <1>0, <1>8, OnceFlat DEF Bailout
<1>9. CASE RootDone
  BY <1>0, <1>9, OnceFlat DEF RootDone
<1>10. CASE RootFail
  BY <1>0, <1>10, OnceFlat DEF RootFail
<1>11. CASE Warn
  <2>1. stack' = <<>> /\ rows' = rows
    BY <1>11 DEF Warn, Base, StackIsPath
  <2> QED
    BY <1>0, <2>1, OnceFlat
<1>12. CASE ReturnFalse \/ AbandonInHandler
  <2>1. stack' = <<>> /\ rows' = <<>>
    BY <1>12 DEF ReturnFalse, AbandonInHandler, Base, StackIsPath
  <2> QED
    BY <1>0, <2>1, OnceFlat
<1> QED
  BY <1>1, <1>2, <1>3, <1>4, <1>5, <1>6, <1>7, <1>8, <1>9, <1>10, <1>11, <1>12
     DEF Next, CallStep

LEMMA OnceInv == Spec => []Once
  BY BaseInv, OnceInit, OnceStep, PTL DEF Spec

\* No dataset is listed twice, whatever is created and destroyed, again and
\* again, below an iteration in progress.
THEOREM ListedOnce == Spec => []NoDuplicates
<1>1. Once => NoDuplicates
  BY DEF Once
<1> QED
  BY <1>1, OnceInv, PTL
-----------------------------------------------------------------------------
(***************************************************************************)
(* Layer 3: the array is a depth-first outline of the tree.                *)
(***************************************************************************)

Outline == OutlineOpen /\ DepthFirst

\* A dataset is one level below its parent, so when its row comes all the
\* frames under its own are of shallower datasets.
LEMMA OutlineAddRow ==
  ASSUME Base, Outline, AddRow
  PROVE  Outline'
<1> DEFINE k == Len(stack)
<1> DEFINE d == Top.ds
<1>1. k \in Nat /\ k >= 2 /\ stack # <<>> /\ pc = "callback"
  BY EmptySeq DEF Base, StackIsPath, TypeOK, AddRow
<1>2. k \in 2 .. k /\ Top = stack[k]
  BY <1>1 DEF Top
<1>3. d \in Names /\ Parent[d] = stack[k - 1].ds /\ Depth[d] = k - 1
  BY <1>2 DEF Base, StackIsPath
<1>4. /\ stack' = stack /\ pc' = "library"
      /\ Len(rows) \in Nat
      /\ Len(rows') = Len(rows) + 1
      /\ \A i \in 1 .. Len(rows) : rows'[i] = rows[i]
      /\ rows'[Len(rows) + 1] = d
  BY <1>3, AppendRow, LenProperties DEF AddRow, Base, TypeOK
<1>5. ASSUME NEW s \in 2 .. k - 1
      PROVE  /\ Depth[stack[s].ds] < Depth[d]
             /\ \E i \in 1 .. Len(rows) :
                  /\ rows[i] = stack[s].ds
                  /\ \A j \in i + 1 .. Len(rows) + 1 : Depth[rows'[i]] < Depth[rows'[j]]
  <2>1. s \in 2 .. k /\ s # k /\ s < k
    BY <1>1
  <2>2. Depth[stack[s].ds] = s - 1
    BY <2>1 DEF Base, StackIsPath
  <2>3. Depth[stack[s].ds] < Depth[d]
    BY <1>1, <1>3, <2>1, <2>2
  <2>4. PICK i \in 1 .. Len(rows) :
          /\ rows[i] = stack[s].ds
          /\ \A j \in i + 1 .. Len(rows) : Depth[rows[i]] < Depth[rows[j]]
    BY <2>1 DEF Outline, OutlineOpen
  <2>5. ASSUME NEW j \in i + 1 .. Len(rows) + 1
        PROVE  Depth[rows'[i]] < Depth[rows'[j]]
    <3>1. CASE j = Len(rows) + 1
      BY <1>4, <2>3, <2>4, <3>1
    <3>2. CASE j # Len(rows) + 1
      <4>1. j \in i + 1 .. Len(rows) /\ j \in 1 .. Len(rows)
        BY <1>4, <3>2
      <4> QED
        BY <1>4, <2>4, <4>1
    <3> QED
      BY <3>1, <3>2
  <2> QED
    BY <2>3, <2>4, <2>5
<1>6. OutlineOpen'
  <2> SUFFICES ASSUME NEW s \in 2 .. k
               PROVE  \E i \in 1 .. Len(rows) + 1 :
                        /\ rows'[i] = stack[s].ds
                        /\ \A j \in i + 1 .. Len(rows) + 1 : Depth[rows'[i]] < Depth[rows'[j]]
    BY <1>4 DEF OutlineOpen
  <2>1. CASE s = k
    <3>1. Len(rows) + 1 \in 1 .. Len(rows) + 1 /\ \A j \in Len(rows) + 1 + 1 .. Len(rows) + 1 : FALSE
      BY <1>4
    <3> QED
      BY <1>2, <1>4, <2>1, <3>1
  <2>2. CASE s # k
    <3>1. s \in 2 .. k - 1
      BY <1>1, <2>2
    <3>2. PICK i \in 1 .. Len(rows) :
            /\ rows[i] = stack[s].ds
            /\ \A j \in i + 1 .. Len(rows) + 1 : Depth[rows'[i]] < Depth[rows'[j]]
      BY <1>5, <3>1
    <3>3. i \in 1 .. Len(rows) + 1 /\ rows'[i] = stack[s].ds
      BY <1>4, <3>2
    <3> QED
      BY <3>2, <3>3
  <2> QED
    BY <2>1, <2>2
<1>7. DepthFirst'
  <2> SUFFICES ASSUME NEW m \in 1 .. Len(rows) + 1
               PROVE  \/ Parent[rows'[m]] = Root
                      \/ \E i \in 1 .. m - 1 :
                           /\ rows'[i] = Parent[rows'[m]]
                           /\ \A j \in i + 1 .. m - 1 : Depth[rows'[i]] < Depth[rows'[j]]
    BY <1>4 DEF DepthFirst
  <2>1. CASE m = Len(rows) + 1
    <3>1. CASE k - 1 = 1
      BY <1>1, <1>3, <1>4, <2>1, <3>1 DEF Base, StackIsPath
    <3>2. CASE k - 1 # 1
      <4>1. k - 1 \in 2 .. k - 1
        <5>1. \A x \in Nat : x >= 2 /\ x - 1 # 1 => x - 1 \in 2 .. x - 1
          OBVIOUS
        <5> QED
          BY <1>1, <3>2, <5>1
      <4>2. PICK i \in 1 .. Len(rows) :
              /\ rows[i] = stack[k - 1].ds
              /\ \A j \in i + 1 .. Len(rows) + 1 : Depth[rows'[i]] < Depth[rows'[j]]
        BY <1>5, <4>1
      <4>3. /\ i \in 1 .. m - 1 /\ rows'[i] = Parent[rows'[m]]
            /\ \A j \in i + 1 .. m - 1 : j \in i + 1 .. Len(rows) + 1
        BY <1>3, <1>4, <2>1, <4>2
      <4> QED
        BY <4>2, <4>3
    <3> QED
      BY <3>1, <3>2
  <2>2. CASE m # Len(rows) + 1
    <3>1. m \in 1 .. Len(rows) /\ \A x \in 1 .. m - 1 : x \in 1 .. Len(rows)
      BY <1>4, <2>2
    <3>2. rows'[m] = rows[m] /\ \A x \in 1 .. m - 1 : rows'[x] = rows[x]
      BY <1>4, <3>1
    <3>3. \/ Parent[rows[m]] = Root
          \/ \E i \in 1 .. m - 1 :
               /\ rows[i] = Parent[rows[m]]
               /\ \A j \in i + 1 .. m - 1 : Depth[rows[i]] < Depth[rows[j]]
      BY <3>1 DEF Outline, DepthFirst
    <3>4. \A i \in 1 .. m - 1 : \A j \in i + 1 .. m - 1 : j \in 1 .. m - 1
      OBVIOUS
    <3> QED
      BY <3>2, <3>3, <3>4
  <2> QED
    BY <2>1, <2>2
<1> QED
  BY <1>6, <1>7 DEF Outline

\* Steps that keep the rows keep the outline, if the frames of datasets
\* whose row is in were there before.
LEMMA OutlineSameRows ==
  ASSUME Outline, rows' = rows,
         \A s \in 2 .. Len(stack') :
           \/ pc' = "callback" /\ s = Len(stack')
           \/ /\ s \in 2 .. Len(stack)
              /\ stack'[s].ds = stack[s].ds
              /\ ~ (pc = "callback" /\ s = Len(stack))
  PROVE  Outline'
<1>1. OutlineOpen'
  BY DEF Outline, OutlineOpen
<1>2. DepthFirst'
  BY DEF Outline, DepthFirst
<1> QED
  BY <1>1, <1>2 DEF Outline

\* With no rows and at most the root's iteration there is nothing to show.
LEMMA OutlineNoRows ==
  ASSUME rows' = <<>>, Len(stack') \in {0, 1}
  PROVE  Outline'
<1>1. Len(<<>>) = 0
  BY EmptySeq
<1>2. \A k \in {0, 1} : \A i \in 2 .. k : FALSE
  OBVIOUS
<1>3. \A i \in 2 .. Len(stack') : FALSE
  BY <1>2
<1> QED
  BY <1>1, <1>3 DEF Outline, OutlineOpen, DepthFirst

LEMMA OutlineInit == Init => Outline
<1> SUFFICES ASSUME Init PROVE Outline
  OBVIOUS
<1>1. Len(<<>>) = 0 /\ \A i \in 2 .. 0 : FALSE
  BY EmptySeq
<1> QED
  BY <1>1 DEF Init, Outline, OutlineOpen, DepthFirst

LEMMA OutlineStep == Base /\ Outline /\ [Next]_vars => Outline'
<1> SUFFICES ASSUME Base, Outline, [Next]_vars PROVE Outline'
  OBVIOUS
<1>0. /\ Len(<<>>) = 0 /\ Len(<<[ds |-> Root, cur |-> 0]>>) = 1
      /\ \A i \in 2 .. 0 : FALSE
  BY EmptySeq
<1>1. CASE World \/ UNCHANGED vars
  <2>1. stack' = stack /\ rows' = rows /\ pc' = pc
    BY <1>1 DEF World, Create, Destroy, vars, callVars
  <2> QED
    BY <2>1, OutlineSameRows
<1>2. CASE Begin
  BY <1>0, <1>2, OutlineNoRows DEF Begin
<1>3. ASSUME NEW n \in Names, OpenNext(n) PROVE Outline'
  <2>1. /\ Len(stack) \in Nat /\ pc = "library" /\ pc' = "callback"
        /\ Len(stack') = Len(stack) + 1
        /\ \A i \in 1 .. Len(stack) : stack'[i].ds = stack[i].ds
        /\ rows' = rows
    BY <1>3, OpenShape DEF OpenNext
  <2>2. ASSUME NEW s \in 2 .. Len(stack'), s # Len(stack')
        PROVE  s \in 2 .. Len(stack) /\ s \in 1 .. Len(stack)
    BY <2>1, <2>2
  <2> QED
    BY <2>1, <2>2, OutlineSameRows
<1>4. ASSUME NEW n \in Names, SkipNext(n) PROVE Outline'
  <2>1. /\ Len(stack) \in Nat /\ pc = "library"
        /\ Len(stack') = Len(stack)
        /\ \A i \in 1 .. Len(stack) : stack'[i].ds = stack[i].ds
        /\ rows' = rows
    BY <1>4, SkipShape DEF SkipNext
  <2>2. \A s \in 2 .. Len(stack) : s \in 1 .. Len(stack)
    BY <2>1
  <2> QED
    BY <2>1, <2>2, OutlineSameRows
<1>5. CASE AddRow
  BY <1>5, OutlineAddRow
<1>6. CASE ChildrenDone \/ ChildrenFail
  <2>1. InLibrary /\ Top.ds # Root /\ CloseTop /\ pc' = pc /\ leaked' = leaked /\ rows' = rows
    BY <1>6 DEF ChildrenDone, ChildrenFail
  <2>2. /\ Len(stack) \in Nat /\ pc = "library"
        /\ Len(stack') = Len(stack) - 1
        /\ \A i \in 1 .. Len(stack') : stack'[i] = stack[i]
    BY <2>1, BaseClose, LenProperties DEF Base, TypeOK, InLibrary
  <2>3. \A s \in 2 .. Len(stack') : s \in 2 .. Len(stack) /\ s \in 1 .. Len(stack')
    BY <2>2
  <2> QED
    BY <2>1, <2>2, <2>3, OutlineSameRows
<1>7. CASE Bailout
  BY <1>0, <1>7, OutlineNoRows DEF Bailout
<1>8. CASE RootDone \/ RootFail
  <2>1. stack' = <<>> /\ rows' = rows
    BY <1>8 DEF RootDone, RootFail
  <2> QED
    BY <1>0, <2>1, OutlineSameRows
<1>9. CASE Warn
  <2>1. stack' = <<>> /\ rows' = rows
    BY <1>9 DEF Warn, Base, StackIsPath
  <2> QED
    BY <1>0, <2>1, OutlineSameRows
<1>10. CASE ReturnFalse \/ AbandonInHandler
  <2>1. stack' = <<>> /\ rows' = <<>>
    BY <1>10 DEF ReturnFalse, AbandonInHandler, Base, StackIsPath
  <2> QED
    BY <1>0, <2>1, OutlineNoRows
<1> QED
  BY <1>1, <1>2, <1>3, <1>4, <1>5, <1>6, <1>7, <1>8, <1>9, <1>10 DEF Next, CallStep

LEMMA OutlineInv == Spec => []Outline
  BY BaseInv, OutlineInit, OutlineStep, PTL DEF Spec

\* The array lists a dataset after its parent with nothing but the parent's
\* descendants in between, in every state of every call.
THEOREM ListedDepthFirst == Spec => []DepthFirst
<1>1. Outline => DepthFirst
  BY DEF Outline
<1> QED
  BY <1>1, OutlineInv, PTL
-----------------------------------------------------------------------------
(***************************************************************************)
(* Layer 4: no answer before its time, and every row is of a dataset that  *)
(* existed during the call.                                                *)
(***************************************************************************)

Seen == AnswerPending /\ WorldSeen /\ ListedExisted

LEMMA SeenInit == Init => Seen
<1>1. Range(<<>>) = {}
  BY EmptySeq DEF Range
<1> QED
  BY <1>1 DEF Init, Seen, AnswerPending, WorldSeen, ListedExisted, Listed

LEMMA SeenStep == Base /\ Seen /\ [Next]_vars => Seen'
<1> SUFFICES ASSUME Base, Seen, [Next]_vars PROVE Seen'
  OBVIOUS
<1> USE DEF Seen
<1>0. Range(<<>>) = {}
  BY EmptySeq DEF Range
<1>1. ASSUME NEW n \in Names, Create(n) PROVE Seen'
  BY <1>1 DEF Create, callVars, AnswerPending, WorldSeen, ListedExisted, Listed, Top
<1>2. ASSUME NEW n \in Names, Destroy(n) PROVE Seen'
  BY <1>2 DEF Destroy, callVars, AnswerPending, WorldSeen, ListedExisted, Listed, Top
<1>3. CASE Begin
  <2>1. /\ pc' = "library" /\ result' = "none" /\ warned' = FALSE /\ rows' = <<>>
        /\ steady' = live /\ born' = live /\ live' = live
        /\ pools' = {n \in live : Parent[n] = Root}
    BY <1>3 DEF Begin
  <2>2. AnswerPending'
    BY <2>1 DEF AnswerPending
  <2>3. WorldSeen'
    BY <2>1 DEF WorldSeen
  <2>4. ListedExisted'
    BY <1>0, <2>1 DEF ListedExisted, Listed
  <2> QED
    BY <2>2, <2>3, <2>4
<1>4. ASSUME NEW n \in Names, OpenNext(n) PROVE Seen'
  <2>1. /\ pc = "library" /\ pc' = "callback" /\ n \in live /\ rows' = rows
        /\ stack # <<>> /\ result' = result /\ warned' = warned /\ pools' = pools
        /\ live' = live /\ steady' = steady /\ born' = born
    BY <1>4 DEF OpenNext, InLibrary, worldVars
  <2>2. Top'.ds = n
    BY <1>4, OpenShape DEF Top
  <2>3. AnswerPending'
    BY <2>1 DEF AnswerPending
  <2>4. WorldSeen'
    BY <2>1, <2>2 DEF WorldSeen
  <2>5. ListedExisted'
    BY <2>1 DEF ListedExisted, Listed
  <2> QED
    BY <2>3, <2>4, <2>5
<1>5. CASE AddRow
  <2>1. /\ pc = "callback" /\ pc' = "library"
        /\ rows' = Append(rows, Top.ds) /\ stack' = stack
        /\ result' = result /\ warned' = warned /\ pools' = pools
        /\ live' = live /\ steady' = steady /\ born' = born
    BY <1>5 DEF AddRow, worldVars
  <2>2. Top.ds \in Names
    <3>1. Len(stack) \in Nat /\ Len(stack) >= 2
      BY <2>1, LenProperties DEF Base, StackIsPath, TypeOK
    <3>2. Len(stack) \in 2 .. Len(stack)
      BY <3>1
    <3> QED
      BY <3>2 DEF Base, StackIsPath, Top
  <2>3. Listed' = Listed \cup {Top.ds}
    BY <2>1, <2>2, AppendRow DEF Listed, Base, TypeOK
  <2>4. AnswerPending' /\ WorldSeen'
    BY <2>1 DEF AnswerPending, WorldSeen
  <2>5. ListedExisted'
    BY <2>1, <2>3 DEF WorldSeen, ListedExisted
  <2> QED
    BY <2>4, <2>5
<1>6. CASE \/ \E n \in Names : SkipNext(n)
           \/ ChildrenDone \/ ChildrenFail
  <2>1. /\ pc' = "library" /\ pc = "library" /\ rows' = rows
        /\ stack # <<>> /\ result' = result /\ warned' = warned /\ pools' = pools
        /\ live' = live /\ steady' = steady /\ born' = born
    BY <1>6 DEF SkipNext, ChildrenDone, ChildrenFail, InLibrary, worldVars
  <2> QED
    BY <2>1 DEF AnswerPending, WorldSeen, ListedExisted, Listed
<1>7. CASE Bailout \/ ReturnFalse \/ AbandonInHandler
  <2>1. pc' = "idle" /\ rows' = <<>> /\ born' = born /\ stack' = <<>>
    BY <1>7 DEF Bailout, ReturnFalse, AbandonInHandler, worldVars, Base, StackIsPath
  <2> QED
    BY <1>0, <2>1 DEF AnswerPending, WorldSeen, ListedExisted, Listed
<1>8. CASE RootDone
  <2>1. pc' = "idle" /\ rows' = rows /\ born' = born /\ stack' = <<>>
    BY <1>8 DEF RootDone, worldVars
  <2> QED
    BY <2>1 DEF AnswerPending, WorldSeen, ListedExisted, Listed
<1>9. CASE RootFail \/ Warn
  <2>1. /\ pc \in {"library", "failed"} /\ rows' = rows /\ stack' = <<>>
        /\ live' = live /\ steady' = steady /\ born' = born /\ result' = result
        /\ \/ pc = "library" /\ pc' = "failed" /\ warned' = warned
           \/ pc' = "refused" /\ warned' = TRUE
    BY <1>9 DEF RootFail, Warn, AtRoot, InLibrary, worldVars, Base, StackIsPath
  <2> QED
    BY <2>1 DEF AnswerPending, WorldSeen, ListedExisted, Listed
<1>10. CASE UNCHANGED vars
  BY <1>10 DEF vars, worldVars, callVars, AnswerPending, WorldSeen, ListedExisted, Listed, Top
<1> QED
  BY <1>1, <1>2, <1>3, <1>4, <1>5, <1>6, <1>7, <1>8, <1>9, <1>10 DEF Next, World, CallStep

LEMMA SeenInv == Spec => []Seen
  BY BaseInv, SeenInit, SeenStep, PTL DEF Spec

\* Every row of the array is of a dataset that existed at some time between
\* the call's beginning and the row, however stale the library's lists are.
THEOREM RowsExisted == Spec => []ListedExisted
<1>1. Seen => ListedExisted
  BY DEF Seen
<1> QED
  BY <1>1, SeenInv, PTL
-----------------------------------------------------------------------------
(***************************************************************************)
(* Layer 5: a returned array is complete.                                  *)
(***************************************************************************)

Whole == StillAhead /\ Complete

\* The datasets the array is to contain: named here for the proofs.
Due(n) ==
  /\ n \in steady \ passed
  /\ Kind[n] # "bookmark"
  /\ Parent[n] \in {Root} \cup (Listed \ cut)

\* A dataset that is due and ahead of the innermost iteration is offered by it.
LEMMA DueIsAhead ==
  ASSUME Base, Seen, pc = "library", stack # <<>>,
         NEW n, Due(n), Parent[n] = Top.ds, Top.cur < Pos[n]
  PROVE  n \in Names /\ n \in Ahead(Top)
<1>1. n \in Names /\ n \in steady /\ steady \subseteq live /\ live \subseteq Names
  BY DEF Due, Seen, WorldSeen, Base, TypeOK
<1>2. Parent[n] = Root => n \in pools
  BY <1>1 DEF Seen, WorldSeen
<1>3. n \in Offered(Top.ds)
  BY <1>1, <1>2 DEF Offered, Due
<1> QED
  BY <1>1, <1>3 DEF Ahead

\* Moving on to n leaves everything else that is due where it was, or ahead.
LEMMA AdvanceKeepsDue ==
  ASSUME Base, Seen, NEW n \in Names, OpenNext(n) \/ SkipNext(n),
         NEW m, Due(m), m # n,
         NEW i \in 1 .. Len(stack),
         stack[i].ds = Parent[m], stack[i].cur < Pos[m]
  PROVE  stack'[i].ds = Parent[m] /\ stack'[i].cur < Pos[m]
<1> DEFINE k == Len(stack)
<1>1. /\ k \in Nat /\ k # 0 /\ stack # <<>> /\ pc = "library"
      /\ \A j \in 1 .. k - 1 : stack'[j] = stack[j]
      /\ \A j \in 1 .. k : stack'[j].ds = stack[j].ds
      /\ stack'[k].cur = Pos[n]
  BY OpenShape, SkipShape
<1>2. CASE i = k
  <2>1. Top = stack[k] /\ IsNext(n, Top)
    BY DEF Top, OpenNext, SkipNext
  <2>2. m \in Names /\ m \in Ahead(Top)
    BY <1>1, <1>2, <2>1, DueIsAhead
  <2>3. Pos[n] <= Pos[m] /\ Parent[n] = Parent[m]
    BY <1>1, <1>2, <2>1, <2>2, NextIsNew DEF IsNext
  <2>4. Pos[n] # Pos[m] /\ Pos[n] \in Nat /\ Pos[m] \in Nat
    BY <2>2, <2>3, TreeAssumption
  <2> QED
    BY <1>1, <1>2, <2>3, <2>4
<1>3. CASE i # k
  <2>1. i \in 1 .. k - 1
    BY <1>1, <1>3
  <2> QED
    BY <1>1, <2>1
<1> QED
  BY <1>2, <1>3

\* Opening, passing over, adding a row and leaving a callback keep the layer.
LEMMA WholeOpen ==
  ASSUME Base, Seen, Whole, NEW n \in Names, OpenNext(n)
  PROVE  StillAhead'
<1>1. /\ pc = "library" /\ pc' = "callback" /\ stack # <<>>
      /\ steady' = steady /\ passed' = passed /\ cut' = cut /\ Listed' = Listed
  BY OpenShape DEF OpenNext, worldVars, Listed
<1>2. Top'.ds = n
  BY OpenShape DEF Top
<1> SUFFICES ASSUME NEW m, Due(m)
             PROVE  \/ m \in Listed
                    \/ \E i \in 1 .. Len(stack') : stack'[i].ds = Parent[m] /\ stack'[i].cur < Pos[m]
                    \/ Top'.ds = m
  BY <1>1 DEF StillAhead, Due
<1>3. CASE m = n
  BY <1>2, <1>3
<1>4. CASE m \in Listed
  BY <1>4
<1>5. CASE m # n /\ \E i \in 1 .. Len(stack) : stack[i].ds = Parent[m] /\ stack[i].cur < Pos[m]
  <2>1. PICK i \in 1 .. Len(stack) : stack[i].ds = Parent[m] /\ stack[i].cur < Pos[m]
    BY <1>5
  <2>2. stack'[i].ds = Parent[m] /\ stack'[i].cur < Pos[m]
    BY <1>5, <2>1, AdvanceKeepsDue
  <2>3. i \in 1 .. Len(stack')
    BY CookiesGrow
  <2> QED
    BY <2>2, <2>3
<1> QED
  BY <1>1, <1>3, <1>4, <1>5 DEF Whole, StillAhead, Due

LEMMA WholeSkip ==
  ASSUME Base, Seen, Whole, NEW n \in Names, SkipNext(n)
  PROVE  StillAhead'
<1>1. /\ pc = "library" /\ pc' = pc /\ stack # <<>>
      /\ steady' = steady /\ passed' = passed \cup {n} /\ cut' = cut /\ Listed' = Listed
  BY SkipShape DEF SkipNext, worldVars, Listed
<1> SUFFICES ASSUME NEW m, Due(m), m # n
             PROVE  \/ m \in Listed
                    \/ \E i \in 1 .. Len(stack') : stack'[i].ds = Parent[m] /\ stack'[i].cur < Pos[m]
  BY <1>1 DEF StillAhead, Due
<1>2. CASE \E i \in 1 .. Len(stack) : stack[i].ds = Parent[m] /\ stack[i].cur < Pos[m]
  <2>1. PICK i \in 1 .. Len(stack) : stack[i].ds = Parent[m] /\ stack[i].cur < Pos[m]
    BY <1>2
  <2>2. stack'[i].ds = Parent[m] /\ stack'[i].cur < Pos[m]
    BY <2>1, AdvanceKeepsDue
  <2>3. i \in 1 .. Len(stack')
    BY CookiesGrow
  <2> QED
    BY <2>2, <2>3
<1> QED
  BY <1>1, <1>2 DEF Whole, StillAhead, Due

LEMMA WholeAddRow ==
  ASSUME Base, Seen, Whole, AddRow
  PROVE  StillAhead'
<1> DEFINE k == Len(stack)
<1>1. k \in Nat /\ k >= 2 /\ stack # <<>> /\ pc = "callback" /\ Top.cur = 0
  BY EmptySeq DEF Base, StackIsPath, TypeOK, AddRow
<1>2. k \in 2 .. k /\ k \in 1 .. k /\ Top = stack[k]
  BY <1>1 DEF Top
<1>3. Top.ds \in Names
  BY <1>2 DEF Base, StackIsPath
<1>4. /\ pc' = "library" /\ stack' = stack
      /\ steady' = steady /\ passed' = passed /\ cut' = cut
      /\ Listed' = Listed \cup {Top.ds}
  BY <1>3, AppendRow DEF AddRow, worldVars, Listed, Base, TypeOK
<1> SUFFICES ASSUME NEW m \in steady \ passed, Kind[m] # "bookmark",
                    Parent[m] \in {Root} \cup ((Listed \cup {Top.ds}) \ cut)
             PROVE  \/ m \in Listed \cup {Top.ds}
                    \/ \E i \in 1 .. k : stack[i].ds = Parent[m] /\ stack[i].cur < Pos[m]
  BY <1>4 DEF StillAhead
<1>5. CASE Parent[m] = Top.ds
  <2>1. m \in Names
    BY DEF Base, TypeOK
  <2>2. Top.cur < Pos[m]
    BY <1>1, <2>1, TreeTypes
  <2> QED
    BY <1>2, <1>5, <2>2
<1>6. CASE Parent[m] # Top.ds
  BY <1>1, <1>6 DEF Whole, StillAhead
<1> QED
  BY <1>5, <1>6

LEMMA WholeClose ==
  ASSUME Base, Seen, Whole, ChildrenDone \/ ChildrenFail
  PROVE  StillAhead'
<1> DEFINE k == Len(stack)
<1>1. /\ InLibrary /\ Top.ds # Root /\ CloseTop /\ pc' = pc /\ leaked' = leaked
      /\ steady' = steady /\ passed' = passed /\ rows' = rows
      /\ \/ Ahead(Top) = {} /\ cut' = cut
         \/ cut' = cut \cup {Top.ds}
  BY DEF ChildrenDone, ChildrenFail, worldVars
<1>2. /\ k \in Nat /\ k >= 2 /\ Len(stack') = k - 1 /\ stack # <<>> /\ pc = "library"
      /\ \A i \in 1 .. k - 1 : stack'[i] = stack[i]
  BY <1>1, BaseClose, LenProperties DEF Base, TypeOK, InLibrary
<1>3. Listed' = Listed /\ Top = stack[k]
  BY <1>1 DEF Listed, Top
<1> SUFFICES ASSUME NEW m, Due(m), Parent[m] \in {Root} \cup (Listed \ cut')
             PROVE  \/ m \in Listed
                    \/ \E i \in 1 .. k - 1 : stack'[i].ds = Parent[m] /\ stack'[i].cur < Pos[m]
  BY <1>1, <1>2, <1>3 DEF StillAhead, Due
<1>4. ASSUME NEW i \in 1 .. k, stack[i].ds = Parent[m], stack[i].cur < Pos[m]
      PROVE  \E j \in 1 .. k - 1 : stack'[j].ds = Parent[m] /\ stack'[j].cur < Pos[m]
  <2>1. CASE i = k
    <3>1. Ahead(Top) = {}
      BY <1>1, <1>3, <1>4, <2>1
    <3>2. m \in Ahead(Top)
      BY <1>2, <1>3, <1>4, <2>1, DueIsAhead
    <3> QED
      BY <3>1, <3>2
  <2>2. CASE i # k
    <3>1. i \in 1 .. k - 1
      BY <1>2, <2>2
    <3> QED
      BY <1>2, <1>4, <3>1
  <2> QED
    BY <2>1, <2>2
<1> QED
  BY <1>2, <1>4 DEF Whole, StillAhead, Due

\* When the root's iteration has nothing ahead, everything due is listed.
LEMMA WholeDone ==
  ASSUME Base, Seen, Whole, RootDone
  PROVE  Complete'
<1>1. /\ pc = "library" /\ stack # <<>> /\ Top.ds = Root /\ Ahead(Top) = {}
      /\ steady' = steady /\ passed' = passed /\ cut' = cut /\ rows' = rows
  BY DEF RootDone, AtRoot, InLibrary, worldVars
<1>2. Listed' = Listed
  BY <1>1 DEF Listed
<1>3. Len(stack) = 1
  <2>1. Len(stack) \in Nat /\ Len(stack) # 0
    BY <1>1, EmptySeq DEF Base, TypeOK
  <2>2. Len(stack) \in 2 .. Len(stack) => FALSE
    BY <1>1, TreeAssumption DEF Base, StackIsPath, Top
  <2> QED
    BY <2>1, <2>2, LengthCases
<1>4. ASSUME NEW n, Due(n) PROVE n \in Listed
  <2>1. \/ n \in Listed
        \/ \E i \in 1 .. Len(stack) : stack[i].ds = Parent[n] /\ stack[i].cur < Pos[n]
    BY <1>1, <1>4 DEF Whole, StillAhead, Due
  <2>2. ASSUME NEW i \in 1 .. Len(stack), stack[i].ds = Parent[n], stack[i].cur < Pos[n]
        PROVE  FALSE
    <3>1. Top = stack[i]
      BY <1>3 DEF Top
    <3> QED
      BY <1>1, <1>4, <2>2, <3>1, DueIsAhead
  <2> QED
    BY <2>1, <2>2
<1> QED
  BY <1>1, <1>2, <1>4 DEF Complete, Due

LEMMA WholeInit == Init => Whole
  BY DEF Init, Whole, StillAhead, Complete

LEMMA WholeStep == Base /\ Seen /\ Whole /\ [Next]_vars => Whole'
<1> SUFFICES ASSUME Base, Seen, Whole, [Next]_vars PROVE Whole'
  OBVIOUS
<1> USE DEF Whole
<1>1. ASSUME NEW n \in Names, Create(n) \/ Destroy(n) PROVE Whole'
  <2>1. /\ steady' \subseteq steady /\ passed' = passed /\ cut' = cut /\ rows' = rows
        /\ stack' = stack /\ pc' = pc /\ result' = result
    BY <1>1 DEF Create, Destroy, callVars
  <2>2. StillAhead' /\ Complete'
    BY <2>1 DEF StillAhead, Complete, Listed, Top
  <2> QED
    BY <2>2
<1>2. CASE Begin
  <2>1. /\ pc' = "library" /\ pools' = {n \in live : Parent[n] = Root}
        /\ stack' = <<[ds |-> Root, cur |-> 0]>> /\ rows' = <<>>
        /\ cut' = {} /\ passed' = {} /\ steady' = live
    BY <1>2 DEF Begin
  <2>2. Listed' = {}
    BY <2>1, EmptySeq DEF Listed, Range
  <2>3. Len(stack') = 1 /\ stack'[1].ds = Root /\ stack'[1].cur = 0
    BY <2>1
  <2>4. 1 \in 1 .. 1 /\ live \subseteq Names
    BY DEF Base, TypeOK
  <2>5. StillAhead'
    BY <2>1, <2>2, <2>3, <2>4, TreeTypes DEF StillAhead
  <2>6. Complete'
    BY <2>1 DEF Complete
  <2> QED
    BY <2>5, <2>6
<1>3. ASSUME NEW n \in Names, OpenNext(n) \/ SkipNext(n) PROVE Whole'
  <2>1. pc' # "idle"
    BY <1>3 DEF OpenNext, SkipNext, InLibrary
  <2>2. StillAhead'
    BY <1>3, WholeOpen, WholeSkip
  <2> QED
    BY <2>1, <2>2 DEF Complete
<1>4. CASE AddRow
  <2>1. pc' # "idle"
    BY <1>4 DEF AddRow
  <2> QED
    BY <1>4, <2>1, WholeAddRow DEF Complete
<1>5. CASE ChildrenDone \/ ChildrenFail
  <2>1. pc' # "idle"
    BY <1>5 DEF ChildrenDone, ChildrenFail, InLibrary
  <2> QED
    BY <1>5, <2>1, WholeClose DEF Complete
<1>6. CASE Bailout \/ ReturnFalse \/ AbandonInHandler
  <2>1. stack' = <<>>
    BY <1>6 DEF Bailout, ReturnFalse, AbandonInHandler, Base, StackIsPath
  <2>2. result' # "array"
    BY <1>6 DEF Bailout, ReturnFalse, AbandonInHandler, Seen, AnswerPending
  <2> QED
    BY <2>1, <2>2 DEF StillAhead, Complete
<1>7. CASE RootDone
  <2>1. stack' = <<>>
    BY <1>7 DEF RootDone
  <2>2. Complete'
    BY <1>7, WholeDone
  <2> QED
    BY <2>1, <2>2 DEF StillAhead
<1>8. CASE RootFail \/ Warn
  <2>1. stack' = <<>> /\ pc' # "idle"
    BY <1>8 DEF RootFail, Warn, Base, StackIsPath
  <2> QED
    BY <2>1 DEF StillAhead, Complete
<1>9. CASE UNCHANGED vars
  BY <1>9 DEF vars, worldVars, callVars, StillAhead, Complete, Listed, Top
<1> QED
  BY <1>1, <1>2, <1>3, <1>4, <1>5, <1>6, <1>7, <1>8, <1>9 DEF Next, World, CallStep

LEMMA WholeInv == Spec => []Whole
  BY BaseInv, SeenInv, WholeInit, WholeStep, PTL DEF Spec

\* A returned array misses no dataset that was there all along, save below an
\* iteration that failed or one the library could not open.
THEOREM NothingMissed == Spec => []Complete
<1>1. Whole => Complete
  BY DEF Whole
<1> QED
  BY <1>1, WholeInv, PTL
-----------------------------------------------------------------------------
(***************************************************************************)
(* The walk keeps the contract of a call.                                  *)
(***************************************************************************)

LEMMA CallInit == Init => Call!Init
  BY DEF Init, Call!Init

LEMMA CallNext == Base /\ Seen /\ [Next]_vars => [Call!Next]_(Call!callVars)
<1> SUFFICES ASSUME Base, Seen, [Next]_vars PROVE [Call!Next]_(Call!callVars)
  OBVIOUS
<1> USE DEF Call!callVars
<1>1. CASE World \/ UNCHANGED vars
  BY <1>1 DEF World, Create, Destroy, vars, callVars
<1>2. CASE Begin
  BY <1>2 DEF Begin, Call!Next, Call!Begin
<1>3. CASE \/ \E n \in Names : OpenNext(n) \/ SkipNext(n)
           \/ AddRow \/ ChildrenDone \/ ChildrenFail
  BY <1>3 DEF OpenNext, SkipNext, AddRow, ChildrenDone, ChildrenFail, InLibrary
<1>4. CASE Bailout
  BY <1>4 DEF Bailout, Seen, AnswerPending, Call!Next, Call!Abandon
<1>5. CASE RootDone
  BY <1>5 DEF RootDone, AtRoot, InLibrary, Seen, AnswerPending, Call!Next, Call!ReturnArray
<1>6. CASE RootFail
  BY <1>6 DEF RootFail, AtRoot, InLibrary
<1>7. CASE Warn
  BY <1>7 DEF Warn, Seen, AnswerPending, Call!Next, Call!Warn
<1>8. CASE ReturnFalse
  BY <1>8 DEF ReturnFalse, Seen, AnswerPending, Call!Next, Call!ReturnFalse
<1>9. CASE AbandonInHandler
  BY <1>9 DEF AbandonInHandler, Call!Next, Call!Abandon
<1> QED
  BY <1>1, <1>2, <1>3, <1>4, <1>5, <1>6, <1>7, <1>8, <1>9 DEF Next, CallStep

\* Whatever the library and other processes do, the script gets an array and
\* no warning, or one warning and then false, or is ended by the engine.
THEOREM KeepsContract == Spec => Contract
  BY BaseInv, SeenInv, CallInit, CallNext, PTL DEF Spec, Contract, Call!Spec
-----------------------------------------------------------------------------
(***************************************************************************)
(* A call comes to its end.                                                *)
(***************************************************************************)

\* A dataset is under itself, and under what its parent is under.
LEMMA UnderSelf ==
  ASSUME NEW n \in Names
  PROVE  Under(n, n)
  BY DEF Under

LEMMA UnderParent ==
  ASSUME NEW n \in Names, Parent[n] \in Names
  PROVE  Under(n, Parent[n])
  BY DEF Under

LEMMA UnderTransitive ==
  ASSUME NEW n \in Names, NEW k \in Names, NEW m \in Names, Under(n, k), Under(k, m)
  PROVE  Under(n, m)
<1> SUFFICES ASSUME NEW S \in SUBSET Names, m \in S,
                    \A j \in Names : Parent[j] \in S => j \in S
             PROVE  n \in S
  BY DEF Under
<1>1. k \in S
  BY DEF Under
<1> QED
  BY <1>1 DEF Under

\* The parent of a dataset on the stack is on the stack.
LEMMA ParentOnStack ==
  ASSUME Base, NEW k \in Names, OnStack(k)
  PROVE  OnStack(Parent[k])
<1>1. PICK j \in 1 .. Len(stack) : stack[j].ds = k
  BY DEF OnStack
<1>2. Len(stack) \in Nat /\ stack # <<>>
  BY <1>1, LenProperties, EmptySeq DEF Base, TypeOK
<1>3. j # 1
  BY <1>1, <1>2, TreeTypes DEF Base, StackIsPath
<1>4. j \in 2 .. Len(stack) /\ j - 1 \in 1 .. Len(stack)
  BY <1>2, <1>3
<1> QED
  BY <1>1, <1>4 DEF Base, StackIsPath, OnStack

\* A place ahead of an iteration in progress is unvisited.
LEMMA HangsUnvisited ==
  ASSUME NEW i \in 1 .. Len(stack), NEW m \in Names, NEW n \in Names,
         Parent[m] = stack[i].ds, stack[i].cur < Pos[m], Under(n, m)
  PROVE  n \in Unvisited
  BY DEF Unvisited

\* What is on the stack has been come to.
LEMMA StackVisited ==
  ASSUME Base, NEW n \in Unvisited
  PROVE  n \in Names /\ ~ OnStack(n)
<1> DEFINE S == {x \in Names : ~ OnStack(x)}
<1>1. PICK i \in 1 .. Len(stack), m \in Names :
        Parent[m] = stack[i].ds /\ stack[i].cur < Pos[m] /\ Under(n, m)
  BY DEF Unvisited
<1>2. m \in S
  <2> SUFFICES ASSUME NEW j \in 1 .. Len(stack), stack[j].ds = m
               PROVE  FALSE
    BY DEF OnStack
  <2>1. Len(stack) \in Nat /\ stack # <<>>
    BY LenProperties, EmptySeq DEF Base, TypeOK
  <2>2. j # 1
    BY <2>1, TreeTypes DEF Base, StackIsPath
  <2>3. j \in 2 .. Len(stack) /\ j - 1 \in 1 .. Len(stack)
    BY <2>1, <2>2
  <2>4. Parent[m] = stack[j - 1].ds /\ Pos[m] = stack[j - 1].cur
    BY <2>3 DEF Base, StackIsPath
  <2>5. i = j - 1
    BY <1>1, <2>3, <2>4, OnceOnStack
  <2>6. stack[i].cur \in Nat
    BY FrameTypes
  <2> QED
    BY <1>1, <2>4, <2>5, <2>6
<1>3. \A k \in Names : Parent[k] \in S => k \in S
  BY ParentOnStack
<1>4. S \in SUBSET Names /\ n \in Names
  BY DEF Unvisited
<1> HIDE DEF S
<1>5. n \in S
  BY <1>1, <1>2, <1>3, <1>4 DEF Under
<1> QED
  BY <1>5 DEF S

\* So it is in every state, and
Visited ==
  /\ \A n \in Unvisited : n \in Names /\ ~ OnStack(n)
  /\ \A k \in Names : OnStack(k) => OnStack(Parent[k])

LEMMA VisitedAlways == Base => Visited
  BY StackVisited, ParentOnStack DEF Visited

\* in every next one.
LEMMA VisitedNext == Base' => Visited'
  BY VisitedAlways, PTL

\* Moving on to n, the walk comes to n for good, and to nothing it was past.
LEMMA MovingVisits ==
  ASSUME Base, Base', NEW n \in Names, OpenNext(n) \/ SkipNext(n)
  PROVE  n \in Unvisited /\ Unvisited' \subseteq Unvisited \ {n}
<1> DEFINE k == Len(stack)
<1>1. /\ k \in Nat /\ k # 0 /\ k \in 1 .. k /\ stack # <<>> /\ Top = stack[k]
      /\ \A i \in 1 .. k : stack'[i].ds = stack[i].ds
      /\ stack'[k].cur = Pos[n]
      /\ \/ Len(stack') = k
         \/ Len(stack') = k + 1 /\ stack'[k + 1].ds = n /\ stack'[k + 1].cur = 0 /\ OpenNext(n)
      /\ OpenNext(n) => Len(stack') = k + 1
  BY OpenShape, SkipShape DEF Top
<1>2. Parent[n] = Top.ds /\ Top.cur < Pos[n]
  <2>1. IsNext(n, Top)
    BY DEF OpenNext, SkipNext
  <2> QED
    BY <1>1, <2>1, NextIsNew
<1>3. \A d \in Names : Under(d, n) => d \in Unvisited
  BY <1>1, <1>2, HangsUnvisited
<1>4. ASSUME NEW d \in Unvisited' PROVE d \in Unvisited
  <2>1. PICK i \in 1 .. Len(stack'), m \in Names :
          Parent[m] = stack'[i].ds /\ stack'[i].cur < Pos[m] /\ Under(d, m)
    BY <1>4 DEF Unvisited, Under
  <2>2. d \in Names
    BY <1>4 DEF Unvisited
  <2>3. CASE i \in 1 .. k
    <3>1. stack[i].cur \in Nat /\ stack'[i].cur \in Nat /\ stack[i].cur <= stack'[i].cur
      BY <2>3, CookiesGrow
    <3>2. stack[i].cur < Pos[m] /\ Parent[m] = stack[i].ds
      BY <1>1, <2>1, <2>3, <3>1, TreeTypes
    <3> QED
      BY <2>1, <2>2, <2>3, <3>2, HangsUnvisited
  <2>4. CASE i \notin 1 .. k
    <3>1. i = k + 1 /\ Parent[m] = n
      BY <1>1, <2>1, <2>4
    <3>2. Under(m, n)
      BY <3>1, UnderParent
    <3> QED
      BY <1>3, <2>1, <2>2, <3>2, UnderTransitive
  <2> QED
    BY <2>3, <2>4
<1>5. n \notin Unvisited'
  <2>1. CASE OnStack(n)'
    BY <2>1, VisitedNext DEF Visited
  <2>2. CASE ~ OnStack(n)'
    <3> SUFFICES ASSUME NEW i \in 1 .. Len(stack'), NEW m \in Names,
                        Parent[m] = stack'[i].ds, stack'[i].cur < Pos[m], Under(n, m)
                 PROVE  FALSE
      BY DEF Unvisited, Under
    <3> DEFINE S == {x \in Names : x # n /\ ~ OnStack(x)'}
    <3>1. Len(stack') = k /\ Parent[n] = stack'[k].ds /\ OnStack(Parent[n])'
      BY <1>1, <1>2, <2>2 DEF OnStack
    <3>2. m # n
      <4> SUFFICES ASSUME m = n PROVE FALSE
        OBVIOUS
      <4>1. i = k
        BY <1>1, <3>1, OnceOnStack
      <4> QED
        BY <1>1, <4>1, TreeTypes
    <3>3. m \in S
      <4>1. m \in Unvisited'
        BY UnderSelf DEF Unvisited, Under
      <4> QED
        BY <3>2, <4>1, VisitedNext DEF Visited
    <3>4. \A j \in Names : Parent[j] \in S => j \in S
      <4> SUFFICES ASSUME NEW j \in Names, Parent[j] \in S PROVE j \in S
        OBVIOUS
      <4>1. j # n
        BY <3>1
      <4>2. ~ OnStack(j)'
        BY VisitedNext DEF Visited
      <4> QED
        BY <4>1, <4>2
    <3> HIDE DEF S
    <3>5. S \in SUBSET Names /\ n \notin S
      BY DEF S
    <3> QED
      BY <3>3, <3>4, <3>5 DEF Under
  <2> QED
    BY <2>1, <2>2
<1> QED
  BY <1>3, <1>4, <1>5, UnderSelf

\* An iteration that is over leaves less to come to.
LEMMA PoppingVisits ==
  ASSUME Len(stack) \in Nat, Len(stack') \in Nat, Len(stack') <= Len(stack),
         \A i \in 1 .. Len(stack') : stack'[i] = stack[i]
  PROVE  Unvisited' \subseteq Unvisited
<1> SUFFICES ASSUME NEW d \in Unvisited' PROVE d \in Unvisited
  OBVIOUS
<1>1. PICK i \in 1 .. Len(stack'), m \in Names :
        Parent[m] = stack'[i].ds /\ stack'[i].cur < Pos[m] /\ Under(d, m)
  BY DEF Unvisited, Under
<1>2. i \in 1 .. Len(stack) /\ stack'[i] = stack[i] /\ d \in Names
  BY DEF Unvisited
<1> QED
  BY <1>1, <1>2, HangsUnvisited

\* Of finitely many names finitely many are unvisited.
LEMMA UnvisitedFinite ==
  ASSUME IsFiniteSet(Names)
  PROVE  /\ IsFiniteSet(Unvisited) /\ Cardinality(Unvisited) \in Nat
         /\ \A T : T \subseteq Unvisited =>
              Cardinality(T) \in Nat /\ Cardinality(T) <= Cardinality(Unvisited)
         /\ \A n \in Unvisited : \A T : T \subseteq Unvisited \ {n} =>
              Cardinality(T) \in Nat /\ Cardinality(T) <= Cardinality(Unvisited) - 1
<1> DEFINE U == Unvisited
<1>1. IsFiniteSet(U) /\ Cardinality(U) \in Nat
  <2>1. U \in SUBSET Names
    BY DEF Unvisited
  <2> HIDE DEF U
  <2> QED
    BY <2>1, FS_Subset, FS_CardinalityType
<1> HIDE DEF U
<1>2. ASSUME NEW T, T \subseteq U
      PROVE  Cardinality(T) \in Nat /\ Cardinality(T) <= Cardinality(U)
  BY <1>1, <1>2, FS_Subset, FS_CardinalityType
<1>3. ASSUME NEW n \in U, NEW T, T \subseteq U \ {n}
      PROVE  Cardinality(T) \in Nat /\ Cardinality(T) <= Cardinality(U) - 1
  <2>1. IsFiniteSet(U \ {n}) /\ Cardinality(U \ {n}) = Cardinality(U) - 1
    BY <1>1, FS_RemoveElement
  <2> QED
    BY <1>3, <2>1, FS_Subset, FS_CardinalityType
<1> QED
  BY <1>1, <1>2, <1>3 DEF U

LEMMA EndStep ==
  ASSUME IsFiniteSet(Names), Base, Base', [Next]_vars, pc # "idle"
  PROVE  StepsLeft' < StepsLeft \/ (StepsLeft' = StepsLeft /\ UNCHANGED <<pc, stack>>)
<1> DEFINE u == Cardinality(Unvisited)
           k == Len(stack)
<1>0. u \in Nat /\ k \in Nat
  BY UnvisitedFinite, LenProperties DEF Base, TypeOK
<1>1. CASE World \/ UNCHANGED vars
  <2>1. UNCHANGED <<pc, stack>>
    BY <1>1 DEF World, Create, Destroy, vars, callVars
  <2> QED
    BY <2>1 DEF StepsLeft, Unvisited, Under
<1>2. ASSUME NEW n \in Names, OpenNext(n) \/ SkipNext(n) PROVE StepsLeft' < StepsLeft
  <2>1. /\ pc = "library"
        /\ \/ pc' = "callback" /\ Len(stack') = k + 1
           \/ pc' = "library" /\ Len(stack') = k
    BY <1>2, OpenShape, SkipShape DEF OpenNext, SkipNext
  <2>2. Cardinality(Unvisited') \in Nat /\ Cardinality(Unvisited') <= u - 1
    BY <1>2, MovingVisits, UnvisitedFinite
  <2>3. /\ StepsLeft = 2 + k + 3 * u
        /\ StepsLeft' \in {3 + (k + 1) + 3 * Cardinality(Unvisited'),
                           2 + k + 3 * Cardinality(Unvisited')}
    BY <2>1 DEF StepsLeft
  <2> HIDE DEF u, k
  <2> QED
    BY <1>0, <2>2, <2>3
<1>3. CASE AddRow
  <2>1. pc = "callback" /\ pc' = "library" /\ stack' = stack
    BY <1>3 DEF AddRow
  <2>2. Unvisited' = Unvisited
    BY <2>1 DEF Unvisited, Under
  <2>3. StepsLeft = 3 + k + 3 * u /\ StepsLeft' = 2 + k + 3 * u
    BY <2>1, <2>2 DEF StepsLeft
  <2> HIDE DEF u, k
  <2> QED
    BY <1>0, <2>3
<1>4. CASE ChildrenDone \/ ChildrenFail
  <2>1. pc = "library" /\ pc' = "library" /\ Len(stack') = k - 1 /\ k >= 2
    BY <1>4, BaseClose DEF ChildrenDone, ChildrenFail, InLibrary
  <2>2. \A i \in 1 .. Len(stack') : stack'[i] = stack[i]
    BY <1>4, BaseClose DEF ChildrenDone, ChildrenFail
  <2>3. Len(stack') \in Nat /\ Len(stack') <= k
    <3> HIDE DEF k
    <3> QED
      BY <1>0, <2>1
  <2>4. Cardinality(Unvisited') \in Nat /\ Cardinality(Unvisited') <= u
    BY <1>0, <2>2, <2>3, PoppingVisits, UnvisitedFinite
  <2>5. StepsLeft = 2 + k + 3 * u /\ StepsLeft' = 2 + (k - 1) + 3 * Cardinality(Unvisited')
    BY <2>1 DEF StepsLeft
  <2> HIDE DEF u, k
  <2> QED
    BY <1>0, <2>4, <2>5
<1>5. CASE \/ Bailout \/ RootDone \/ RootFail
           \/ Warn \/ ReturnFalse \/ AbandonInHandler
  <2>1. \/ pc \in {"library", "callback"} /\ pc' \in {"idle", "failed"} /\ k # 0
        \/ pc = "failed" /\ pc' = "refused"
        \/ pc = "refused" /\ pc' = "idle"
    BY <1>5, EmptySeq DEF Bailout, RootDone, RootFail, Warn, ReturnFalse, AbandonInHandler,
                          AtRoot, InLibrary, Base, TypeOK, StackIsPath
  <2>2. \/ StepsLeft \in {2 + k + 3 * u, 3 + k + 3 * u} /\ StepsLeft' \in {0, 2} /\ k # 0
        \/ StepsLeft = 2 /\ StepsLeft' = 1
        \/ StepsLeft = 1 /\ StepsLeft' = 0
    BY <2>1 DEF StepsLeft
  <2> HIDE DEF u, k
  <2> QED
    BY <1>0, <2>2
<1>6. CASE Begin
  BY <1>6 DEF Begin
<1> QED
  BY <1>1, <1>2, <1>3, <1>4, <1>5, <1>6 DEF Next, CallStep

\* Of finitely many names, a call that has begun takes no more steps than were
\* left to it at the start, however the tree changes.
THEOREM CallIsBounded == ASSUME IsFiniteSet(Names) PROVE Spec => EndDrawsNear
<1>1. Base /\ Base' /\ [Next]_vars =>
        [pc # "idle" =>
           StepsLeft' < StepsLeft \/ (StepsLeft' = StepsLeft /\ UNCHANGED <<pc, stack>>)]_vars
  BY EndStep
<1> QED
  BY <1>1, BaseInv, PTL DEF Spec, EndDrawsNear

\* Of the children ahead of an iteration one comes first.
LEMMA OneIsNext ==
  ASSUME NEW f, Ahead(f) # {}, live \subseteq Names, pools \subseteq Names
  PROVE  \E n \in Names : IsNext(n, f)
<1> DEFINE T == {Pos[n] : n \in Ahead(f)}
<1>1. T \subseteq Nat /\ T # {} /\ Ahead(f) \subseteq Names
  <2>1. Ahead(f) \subseteq Names
    BY DEF Ahead, Offered
  <2>2. \A n \in Ahead(f) : Pos[n] \in Nat
    BY <2>1, TreeTypes
  <2> QED
    BY <2>1, <2>2
<1>2. PICK x \in T : \A y \in T : ~ (<<y, x>> \in OpToRel(<, Nat))
  <2> HIDE DEF T
  <2> QED
    BY <1>1, NatLessThanWellFounded, WFMin
<1>3. \A y \in T : ~ (y < x)
  BY <1>1, <1>2 DEF OpToRel
<1>4. PICK n \in Ahead(f) : x = Pos[n]
  OBVIOUS
<1>5. \A m \in Ahead(f) : Pos[m] \in Nat /\ Pos[n] \in Nat /\ ~ (Pos[m] < Pos[n])
  BY <1>1, <1>3, <1>4
<1> QED
  BY <1>1, <1>5 DEF IsNext

\* The guards of the steps that take a call on, whatever may fail besides.
MayGoOn ==
  \/ InLibrary /\ (Ahead(Top) = {} \/ \E n \in Names : IsNext(n, Top))
  \/ pc \in {"callback", "failed", "refused"}

\* A call that has begun is never stuck: there is always a dataset to open or
\* to pass over, a row to add, an iteration to leave, or an answer to give.
\* With CallIsBounded: it ends.
THEOREM NeverStuck == Spec => [](pc # "idle" => MayGoOn)
<1>1. Base => (pc # "idle" => MayGoOn)
  BY OneIsNext DEF Base, TypeOK, StackIsPath, InLibrary, MayGoOn
<1> QED
  BY <1>1, BaseInv, PTL
=============================================================================
