-------------------------- MODULE DatasetListProofs --------------------------
(***************************************************************************)
(* Theorems about DatasetList: it implements DatasetWalk and DatasetRow,   *)
(* so that what is proved of either holds of the array with its rows.      *)
(***************************************************************************)
EXTENDS DatasetList, DatasetRowProofs

WP == INSTANCE DatasetWalkProofs WITH
        Names <- Datasets, Kind <- KindOf, pc <- at, rows <- NamesOf

LEMMA WalkAssumptions == WP!TreeAssumption
  BY TreeAssumption DEF W!TreeAssumption, WP!TreeAssumption, W!Kinds, WP!Kinds

\* The walk as DatasetWalkProofs has it is the walk that DatasetList is made of.
LEMMA WalkInit == W!Init => WP!Init
  BY DEF W!Init, WP!Init, W!Rooted, WP!Rooted

LEMMA WalkNext == [W!Next]_(W!vars) => [WP!Next]_(WP!vars)
  BY DEF W!Next, WP!Next, W!World, WP!World, W!Create, WP!Create, W!Destroy, WP!Destroy, W!Begin,
     WP!Begin, W!CallStep, WP!CallStep, W!OpenNext, WP!OpenNext, W!SkipNext, WP!SkipNext,
     W!AddRow, WP!AddRow, W!ChildrenDone, WP!ChildrenDone, W!ChildrenFail, WP!ChildrenFail,
     W!Bailout, WP!Bailout, W!RootDone, WP!RootDone, W!RootFail, WP!RootFail, W!Warn, WP!Warn,
     W!ReturnFalse, WP!ReturnFalse, W!AbandonInHandler, WP!AbandonInHandler, W!InLibrary,
     WP!InLibrary, W!AtRoot, WP!AtRoot, W!CloseTop, WP!CloseTop, W!IsNext, WP!IsNext, W!Ahead,
     WP!Ahead, W!Offered, WP!Offered, W!AdvanceTo, WP!AdvanceTo, W!Top, WP!Top, W!worldVars,
     WP!worldVars, W!callVars, WP!callVars, W!vars, WP!vars

LEMMA WalkOpens ==
  ASSUME NEW d, W!OpenNext(d)
  PROVE  WP!OpenNext(d)
  BY DEF W!OpenNext, WP!OpenNext, W!InLibrary, WP!InLibrary, W!IsNext, WP!IsNext, W!Ahead,
     WP!Ahead, W!Offered, WP!Offered, W!AdvanceTo, WP!AdvanceTo, W!Top, WP!Top, W!worldVars,
     WP!worldVars
-----------------------------------------------------------------------------
(***************************************************************************)
(* The names of the rows.                                                  *)
(***************************************************************************)

Names(t) == [i \in 1 .. Len(t) |-> t[i].name]

LEMMA NamesType ==
  ASSUME NEW t \in Seq(Rows)
  PROVE  /\ Names(t) \in Seq(Datasets)
         /\ Len(Names(t)) = Len(t)
         /\ \A i \in 1 .. Len(t) : Names(t)[i] = t[i].name
<1>1. Len(t) \in Nat /\ \A i \in 1 .. Len(t) : t[i] \in Rows
  BY LenProperties, ElementOfSeq
<1>2. Names(t) \in [1 .. Len(t) -> Datasets]
  BY <1>1 DEF Names, Rows
<1>3. Names(t) \in Seq(Datasets)
  BY <1>1, <1>2, SeqDef
<1>4. Len(Names(t)) \in Nat /\ DOMAIN Names(t) = 1 .. Len(Names(t))
  BY <1>3, LenProperties
<1>5. 1 .. Len(Names(t)) = 1 .. Len(t)
  BY <1>2, <1>4
<1>6. Len(Names(t)) = Len(t)
  BY <1>1, <1>4, <1>5
<1> QED
  BY <1>3, <1>6 DEF Names

\* A row more is a name more.
LEMMA NamesAppend ==
  ASSUME NEW t \in Seq(Rows), NEW r \in Rows
  PROVE  Names(Append(t, r)) = Append(Names(t), r.name)
<1> DEFINE u == Append(t, r)
<1> DEFINE a == Names(u)
<1> DEFINE b == Append(Names(t), r.name)
<1>1. Len(t) \in Nat /\ r.name \in Datasets
  BY LenProperties DEF Rows
<1>2. /\ u \in Seq(Rows) /\ Len(u) = Len(t) + 1
      /\ \A i \in 1 .. Len(t) : u[i] = t[i]
      /\ u[Len(t) + 1] = r
  BY AppendProperties
<1>3. /\ a \in Seq(Datasets) /\ Len(a) = Len(t) + 1
      /\ \A i \in 1 .. Len(t) + 1 : a[i] = u[i].name
  <2> HIDE DEF u
  <2> QED
    BY <1>2, NamesType
<1>4. /\ b \in Seq(Datasets) /\ Len(b) = Len(t) + 1
      /\ \A i \in 1 .. Len(t) : b[i] = t[i].name
      /\ b[Len(t) + 1] = r.name
  <2>1. /\ Names(t) \in Seq(Datasets) /\ Len(Names(t)) = Len(t)
        /\ \A i \in 1 .. Len(t) : Names(t)[i] = t[i].name
    BY NamesType
  <2> HIDE DEF Names
  <2> QED
    BY <1>1, <2>1, AppendProperties
<1> HIDE DEF a, b, u
<1>5. \A i \in 1 .. Len(t) + 1 : i \in 1 .. Len(t) \/ i = Len(t) + 1
  BY <1>1
<1>6. \A i \in 1 .. Len(a) : a[i] = b[i]
  BY <1>2, <1>3, <1>4, <1>5
<1>7. a = b
  BY <1>3, <1>4, <1>6, SeqEqual
<1> QED
  BY <1>7 DEF a, b, u

LEMMA NamesEmpty == Names(<<>>) = <<>>
<1>1. <<>> \in Seq(Rows) /\ Len(<<>>) = 0
  BY EmptySeq
<1>2. Names(<<>>) \in Seq(Datasets) /\ Len(Names(<<>>)) = 0
  BY <1>1, NamesType
<1> QED
  BY <1>2, EmptySeq
-----------------------------------------------------------------------------
(***************************************************************************)
(* The rows and the walk keep in step.                                     *)
(***************************************************************************)

\* A row is being built exactly while the callback is at it, and it is the row
\* of the innermost frame's dataset.
Linked ==
  /\ pc = "inside" <=> at = "callback"
  /\ pc = "inside" => stack[Len(stack)].ds = ds

Joint == RInv /\ WP!Base /\ Linked

\* While a row is built its name is there, and it is the dataset's.
LEMMA RowNamed ==
  ASSUME RInv, pc = "inside"
  PROVE  row.name = ds /\ row \in Rows /\ table \in Seq(Rows)
  BY DEF RInv, RowInv, OwnRow, TypeOK

\* The array as the walk knows it: unless a row is added or the array goes, it
\* is what it was.
LEMMA NamesSteps ==
  ASSUME RInv
  PROVE  /\ UNCHANGED table => NamesOf' = NamesOf
         /\ table' = <<>> => NamesOf' = <<>>
         /\ Add => NamesOf' = Append(NamesOf, ds)
<1>1. NamesOf = Names(table) /\ NamesOf' = Names(table')
  BY DEF NamesOf, Names
<1>2. Add => pc = "inside" /\ table' = Append(table, row)
  BY DEF Add
<1> QED
  BY <1>1, <1>2, NamesEmpty, NamesAppend, RowNamed

LEMMA JointInit == ListInit => Joint
<1> SUFFICES ASSUME ListInit PROVE Joint
  OBVIOUS
<1>1. RInv
  BY RInvInit DEF ListInit
<1>2. WP!Base
  BY WalkInit, WalkAssumptions, WP!BaseInit DEF ListInit
<1>3. Linked
  BY DEF ListInit, Init, W!Init, Linked
<1> QED
  BY <1>1, <1>2, <1>3 DEF Joint

\* Every step is one of DatasetWalk, or changes nothing it knows of.
LEMMA WalkStep == Joint /\ [ListNext]_listVars => [W!Next]_(W!vars)
<1> SUFFICES ASSUME Joint, [ListNext]_listVars PROVE [W!Next]_(W!vars)
  OBVIOUS
<1>0. RInv /\ Linked
  BY DEF Joint
<1>1. CASE OtherProcesses
  BY <1>1 DEF OtherProcesses, W!Next
<1>2. CASE ListBegins
  BY <1>2 DEF ListBegins, W!Next
<1>3. ASSUME NEW d \in Datasets, Open(d) \/ Skip(d) PROVE W!Next
  BY <1>3 DEF Open, Skip, W!Next, W!CallStep
<1>4. CASE Read
  <2>1. UNCHANGED <<table, walkVars>>
    BY <1>4 DEF Read, Get, GetFails
  <2>2. NamesOf' = NamesOf
    BY <1>0, <2>1, NamesSteps
  <2> QED
    BY <2>1, <2>2 DEF walkVars, W!vars, W!worldVars, W!callVars
<1>5. CASE AddRow
  <2>1. pc = "inside" /\ Add /\ Descend
    BY <1>5 DEF AddRow, Add
  <2>2. NamesOf' = Append(NamesOf, W!Top.ds)
    BY <1>0, <2>1, NamesSteps DEF Linked, W!Top
  <2>3. W!AddRow
    BY <1>0, <2>1, <2>2 DEF Linked, Descend, W!AddRow, W!worldVars
  <2> QED
    BY <2>3 DEF W!Next, W!CallStep
<1>6. CASE Ascend
  BY <1>6 DEF Ascend, W!Next, W!CallStep
<1>7. CASE Lose
  BY <1>7 DEF Lose, W!Next, W!CallStep
<1>8. CASE UNCHANGED listVars
  <2>1. UNCHANGED <<table, walkVars>>
    BY <1>8 DEF listVars, vars
  <2>2. NamesOf' = NamesOf
    BY <1>0, <2>1, NamesSteps
  <2> QED
    BY <2>1, <2>2 DEF walkVars, W!vars, W!worldVars, W!callVars
<1> QED
  BY <1>1, <1>2, <1>3, <1>4, <1>5, <1>6, <1>7, <1>8 DEF ListNext

LEMMA LinkedStep == Joint /\ [ListNext]_listVars => Linked'
<1> SUFFICES ASSUME Joint, [ListNext]_listVars PROVE Linked'
  OBVIOUS
<1>0. RInv /\ Linked /\ WP!Base
  BY DEF Joint
<1>1. CASE OtherProcesses
  BY <1>0, <1>1 DEF OtherProcesses, W!World, W!Create, W!Destroy, W!callVars, vars, Linked
<1>2. CASE ListBegins
  BY <1>2 DEF ListBegins, Begin, W!Begin, Linked
<1>3. ASSUME NEW d \in Datasets, Open(d) PROVE Linked'
  <2>1. /\ pc' = "inside" /\ ds' = d /\ at' = "callback"
        /\ WP!OpenNext(d)
    BY <1>3, WalkOpens DEF Open, Visit, W!OpenNext
  <2>2. /\ Len(stack') = Len(stack) + 1
        /\ stack'[Len(stack) + 1].ds = d
    BY <1>0, <2>1, WalkAssumptions, WP!OpenShape
  <2> QED
    BY <2>1, <2>2 DEF Linked
<1>4. ASSUME NEW d \in Datasets, Skip(d) PROVE Linked'
  BY <1>0, <1>4 DEF Skip, W!SkipNext, W!InLibrary, vars, Linked
<1>5. CASE Read
  BY <1>0, <1>5 DEF Read, Get, GetFails, walkVars, Linked
<1>6. CASE AddRow
  BY <1>6 DEF AddRow, Add, Descend, Linked
<1>7. CASE Ascend
  BY <1>0, <1>7 DEF Ascend, vars, Linked, W!ChildrenDone, W!ChildrenFail, W!RootDone, W!RootFail,
     W!Warn, W!InLibrary, W!AtRoot
<1>8. CASE Lose
  BY <1>8 DEF Lose, Discard, W!Bailout, W!ReturnFalse, W!AbandonInHandler, Linked
<1>9. CASE UNCHANGED listVars
  BY <1>0, <1>9 DEF listVars, vars, walkVars, Linked
<1> QED
  BY <1>1, <1>2, <1>3, <1>4, <1>5, <1>6, <1>7, <1>8, <1>9 DEF ListNext

\* Every step is one of DatasetRow, but for its guard on what is visited.
LEMMA RowStep ==
  ASSUME [ListNext]_listVars
  PROVE  [Next]_vars \/ \E d \in Datasets : Open(d)
<1>1. ASSUME NEW d \in Datasets, Skip(d) PROVE UNCHANGED vars
  BY <1>1 DEF Skip
<1> QED
  BY <1>1 DEF ListNext, OtherProcesses, ListBegins, Read, AddRow, Ascend, Lose, listVars, Next

LEMMA JointStep == Joint /\ [ListNext]_listVars => Joint'
<1> SUFFICES ASSUME Joint, [ListNext]_listVars PROVE Joint'
  OBVIOUS
<1>1. RInv'
  BY RowStep, RInvStep, RInvVisit DEF Joint, Open
<1>2. WP!Base'
  BY WalkStep, WalkNext, WalkAssumptions, WP!BaseStep DEF Joint
<1> QED
  BY <1>1, <1>2, LinkedStep DEF Joint

LEMMA JointInv == ListSpec => []Joint
  BY JointInit, JointStep, PTL DEF ListSpec
-----------------------------------------------------------------------------
(***************************************************************************)
(* The two refinements.                                                    *)
(***************************************************************************)

\* zfs_list() with its rows walks as DatasetWalk has it, whose one step for a
\* row stands for all of the row's: a failed read, or an abort in the middle of
\* a row, does nothing to the walk that DatasetWalk does not know of.
THEOREM WalkKept == ListSpec => KeepsWalk
<1>1. ListInit => W!Init
  BY DEF ListInit
<1> QED
  BY <1>1, JointInv, WalkStep, PTL DEF ListSpec, KeepsWalk, W!Spec

LEMMA WalkRuns == ListSpec => WP!Spec
<1>1. ListInit => WP!Init
  BY WalkInit DEF ListInit
<1>2. Joint /\ [ListNext]_listVars => [WP!Next]_(WP!vars)
  BY WalkStep, WalkNext
<1> QED
  BY <1>1, <1>2, JointInv, PTL DEF ListSpec, WP!Spec

\* The library never hands the callback a dataset that has a row: its iterations
\* only move forward, and DatasetWalk's invariants say they are past those.
LEMMA OpensNew ==
  ASSUME Joint, WP!Once, NEW d \in Datasets, Open(d)
  PROVE  Enter(d)
<1>1. WP!OpenNext(d)
  BY WalkOpens DEF Open
<1>2. stack # <<>> /\ WP!IsNext(d, WP!Top)
  BY <1>1 DEF WP!OpenNext, WP!InLibrary
<1>3. d \notin WP!Listed
  BY <1>2, WalkAssumptions, WP!NextNotListed DEF Joint
<1>4. \A i \in 1 .. Len(table) : table[i].name \in WP!Listed
  BY DEF WP!Listed, WP!Range, NamesOf
<1>5. \A i \in 1 .. Len(table) : table[i].name # d
  BY <1>3, <1>4
<1> QED
  BY <1>5 DEF Open, Enter

\* The rows are built as DatasetRow has them, and no dataset gets a second one.
THEOREM RowsKept == ListSpec => KeepsRows
<1>1. ListSpec => []WP!Once
  BY WalkRuns, WalkAssumptions, WP!OnceInv, PTL
<1>2. Joint /\ WP!Once /\ [ListNext]_listVars => [Next]_vars
  BY RowStep, OpensNew DEF Next
<1>3. ListInit => Init
  BY DEF ListInit
<1> QED
  BY <1>1, <1>2, <1>3, JointInv, PTL DEF ListSpec, KeepsRows, Spec

\* The variables of the rows keep their types, and those of the walk.
THEOREM ListTypeCorrect == ListSpec => [](TypeOK /\ W!TypeOK)
<1>1. Joint => TypeOK /\ WP!TypeOK
  BY DEF Joint, RInv, WP!Base
<1>2. WP!TypeOK => W!TypeOK
  BY DEF WP!TypeOK, W!TypeOK, WP!Frames, W!Frames, WP!Nodes, W!Nodes
<1> QED
  BY <1>1, <1>2, JointInv, PTL

\* The six reads are made on a handle that is open, for every tree and however
\* calls before were aborted: the row is its frame's, and the frame's handle is
\* closed with the frame.
THEOREM HandleOpenForRow == ListSpec => []ReadsOpenHandle
<1>1. ASSUME Joint, pc = "inside" PROVE open[ds] = leaked[ds] + 1
  <2>1. ds \in Datasets /\ stack[Len(stack)].ds = ds
    BY <1>1 DEF Joint, Linked, RInv, TypeOK
  <2>2. Len(stack) \in 1 .. Len(stack)
    <3>1. stack \in Seq(WP!Frames) /\ stack # <<>>
      BY <1>1 DEF Joint, Linked, WP!Base, WP!TypeOK, WP!StackIsPath
    <3> QED
      BY <3>1, EmptySeq
  <2>3. WP!OnStack(ds)
    BY <2>1, <2>2 DEF WP!OnStack
  <2> QED
    BY <1>1, <2>1, <2>3 DEF Joint, WP!Base, WP!HandlesAccounted
<1>2. Joint => ReadsOpenHandle
  BY <1>1 DEF ReadsOpenHandle
<1> QED
  BY <1>2, JointInv, PTL

\* In every state of every call the array is right, in its rows and as a whole,
\* however the tree changes while a row is read and whichever reads fail.
THEOREM ListedRight == ListSpec => []ArrayIsRight
<1>1. ListSpec => [](/\ WP!NoDuplicates /\ WP!DepthFirst
                     /\ WP!ListedExisted /\ WP!Complete)
  BY WalkRuns, WalkAssumptions, WP!ListedOnce, WP!ListedDepthFirst, WP!RowsExisted,
     WP!NothingMissed, PTL
<1>2. W!Listed = WP!Listed
  BY DEF W!Listed, WP!Listed, W!Range, WP!Range
<1>3. WP!NoDuplicates /\ WP!DepthFirst => W!NoDuplicates /\ W!DepthFirst
  BY DEF W!NoDuplicates, WP!NoDuplicates, W!DepthFirst, WP!DepthFirst
<1>4. WP!ListedExisted /\ WP!Complete => W!ListedExisted /\ W!Complete
  BY <1>2 DEF W!ListedExisted, WP!ListedExisted, W!Complete, WP!Complete
<1>5. Joint => RowsTruthful
  BY DEF Joint, RInv, RowInv
<1> QED
  BY <1>1, <1>3, <1>4, <1>5, JointInv, PTL DEF ArrayIsRight
=============================================================================
