---------------------------- MODULE DatasetList ------------------------------
(***************************************************************************)
(* zfs_list() with its rows: DatasetWalk and DatasetRow put together.      *)
(*                                                                         *)
(* Where DatasetWalk adds a name to the array in one step, the callback    *)
(* builds a row in many, with the tree changing in between and the memory  *)
(* limit waiting; where DatasetRow visits any dataset that is not in the   *)
(* array, the walk goes by the library's iterations and knows nothing of   *)
(* the array.  Here one array holds the rows, and its names are what       *)
(* DatasetWalk lists; that this implements both modules is a result.       *)
(***************************************************************************)
EXTENDS DatasetRow

CONSTANTS
  Root, Parent, Depth, Pos, MaxBailouts   \* the tree: see DatasetWalk

VARIABLES
  at,   \* where the call is: the pc of DatasetWalk
  live, pools, stack, open, result, warned, bailouts,   \* see DatasetWalk
  leaked, cut, passed, steady, born

walkVars ==
  <<at, live, pools, stack, open, result, warned, bailouts, leaked, cut, passed, steady, born>>
listVars == <<vars, walkVars>>

KindOf == [d \in Datasets |-> TypeName(TypeOf[d])]

\* What a script sees of the array at first: the names, in order.
NamesOf == [i \in 1 .. Len(table) |-> table[i].name]

W == INSTANCE DatasetWalk WITH
       Names <- Datasets, Kind <- KindOf, pc <- at, rows <- NamesOf

\* The library iterates over datasets of the types that have a name.
ASSUME TreeAssumption == W!TreeAssumption

ListInit == Init /\ W!Init
-----------------------------------------------------------------------------
\* Datasets come and go while a row is built as at any other time.
OtherProcesses == UNCHANGED vars /\ W!World

ListBegins == Begin /\ W!Begin

\* The library opens a dataset and calls zfs_list_callback() with it.
Open(d) == Visit(d) /\ W!OpenNext(d)

Skip(d) == UNCHANGED vars /\ W!SkipNext(d)

\* Slip: a read that fails closes the handle, and the callback goes on.
ReadClosesOnFailure ==
  /\ UNCHANGED <<at, live, pools, stack, result, warned, bailouts, leaked, cut, passed,
                 steady, born>>
  /\ \/ Get /\ UNCHANGED open
     \/ GetFails /\ open' = [open EXCEPT ![ds] = @ - 1]

\* zfs_prop_get(), which may fail, and nothing of the walk.
Read == (Get \/ GetFails) /\ UNCHANGED walkVars

\* zfs_iter_children() is entered, next to the array and not through it.
Descend ==
  /\ at' = "library"
  /\ UNCHANGED <<live, pools, stack, open, result, warned, bailouts, leaked, cut, passed,
                 steady, born>>

\* Slip: a row that lacks a property is left out.
AddIfComplete ==
  /\ pc = "inside" /\ next = Len(Keys) + 1
  /\ \/ Current = KeySet /\ Add
     \/ /\ Current # KeySet
        /\ pc' = "outside"
        /\ got' = SubSeq(got, 1, Len(got) - 1)
        /\ UNCHANGED <<table, ds, next, buf, row>>
  /\ Descend

\* The row is added, and the callback goes on to the dataset's children.
AddRow == Add /\ Descend

\* The iterations end or fail, and so does the call; the array stays.
Ascend ==
  /\ UNCHANGED vars
  /\ W!ChildrenDone \/ W!ChildrenFail \/ W!RootDone \/ W!RootFail \/ W!Warn

\* The request is aborted, wherever the row is, or false is the answer.
Lose == Discard /\ (W!Bailout \/ W!ReturnFalse \/ W!AbandonInHandler)

ListNext ==
  \/ OtherProcesses
  \/ ListBegins
  \/ \E d \in Datasets : Open(d) \/ Skip(d)
  \/ Read
  \/ AddRow
  \/ Ascend
  \/ Lose

ListSpec == ListInit /\ [][ListNext]_listVars
-----------------------------------------------------------------------------
\* The names in the array are listed as DatasetWalk lists them, though a row
\* takes many steps, some of which may fail: so the results on their order, on
\* duplicates and on what is missing are results on the array (zfs_list.c:94-98).
KeepsWalk == W!Spec

\* The rows are built as DatasetRow builds them: above all, the callback is
\* entered with no dataset that has a row already, although the tree changes
\* and the walk never looks at the array (zfs_list.c:30-95).
KeepsRows == Spec

\* As long as a row is built the dataset's handle is open, once: it is not closed
\* by a read that fails, and is closed only after the children (zfs_list.c:59-100).
ReadsOpenHandle == pc = "inside" => open[ds] = leaked[ds] + 1

\* What a script may rely on, of each row and of all together, in an array that
\* is returned or still being filled: every row is its own dataset's, no two are
\* of one dataset, the rows are a depth-first outline, each is of a dataset that
\* existed during the call, and a returned array lacks none that it could have
\* had, whichever reads failed (zfs_list.c:59-98).
ArrayIsRight ==
  /\ RowsTruthful
  /\ W!NoDuplicates /\ W!DepthFirst /\ W!ListedExisted /\ W!Complete
=============================================================================
