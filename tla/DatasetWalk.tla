---------------------------- MODULE DatasetWalk -----------------------------
(***************************************************************************)
(* zfs_list(): the depth-first walk of zfs_list.c over a dataset tree that *)
(* other processes change underneath it.                                   *)
(*                                                                         *)
(* zfs_list_datasets() hands zfs_list_callback() to zfs_iter_root(), which *)
(* calls it once per pool; the callback adds its dataset to the array,     *)
(* hands itself to zfs_iter_children() for the dataset's own children and  *)
(* closes the dataset's handle when that returns.  The C recursion is the  *)
(* variable stack, one frame per iteration in progress.                    *)
(*                                                                         *)
(* The library is not part of the repository.  It appears as the code uses *)
(* it: an iteration offers the children of a dataset in the order of a     *)
(* cookie (Pos), each with an open handle the callback must close; it can  *)
(* fail part way with a nonzero return, and it passes over a dataset it    *)
(* cannot open.                                                            *)
(***************************************************************************)
EXTENDS Naturals, Sequences, FiniteSets, Functions

CONSTANTS
  Names,        \* every dataset name that can exist during the behaviour
  Root,         \* the parent of the pools' root datasets; not a dataset
  Parent,       \* the name a dataset's name extends: [Names -> Names \cup {Root}]
  Depth,        \* how many names deep a dataset is; a pool's root dataset is at 1
  Kind,         \* filesystem, volume, snapshot or bookmark
  Pos,          \* the place of a name in the order its parent is iterated in
  MaxBailouts   \* bound: how many walks the memory limit may abort

Kinds == {"filesystem", "volume", "snapshot", "bookmark"}

ASSUME TreeAssumption ==
  /\ Root \notin Names
  /\ Parent \in [Names -> Names \cup {Root}]
  /\ Depth \in [Names -> Nat]
  /\ \A n \in Names :
       Depth[n] = IF Parent[n] = Root THEN 1 ELSE Depth[Parent[n]] + 1
  /\ Kind \in [Names -> Kinds]
  /\ Pos \in [Names -> Nat \ {0}]
  /\ \A m, n \in Names : Parent[m] = Parent[n] /\ Pos[m] = Pos[n] => m = n
  /\ MaxBailouts \in Nat

VARIABLES
  live,      \* the datasets that exist now
  pools,     \* the pool list zfs_iter_root() walks; {} while it does not run
  pc,        \* where the call is: see TypeOK
  stack,     \* iterations in progress, outermost first: dataset and cookie
  rows,      \* the dataset names in return_value, in order
  open,      \* how many zfs_handle_t are open on each dataset
  result,    \* what the last call returned to the script
  warned,    \* php_zfs_error() was called in this call
  bailouts,  \* how many walks were aborted by the memory limit
  \* history, read by the properties only
  leaked,    \* handles an aborted call left open
  cut,       \* datasets of this call whose zfs_iter_children() failed
  passed,    \* datasets of this call the library offered to nobody
  steady,    \* datasets that existed throughout this call so far
  born       \* datasets that existed at some time in this call

worldVars == <<live, steady, born>>
callVars  == <<pc, stack, rows, open, result, warned, bailouts, leaked, cut, passed, pools>>
vars      == <<worldVars, callVars>>

Nodes  == Names \cup {Root}
Frames == [ds : Nodes, cur : Nat]
Top    == stack[Len(stack)]
Listed == Range(rows)

TypeOK ==
  /\ live \in SUBSET Names
  /\ pools \in SUBSET Names
  /\ pc \in {"idle",       \* no call in progress
             "library",    \* zfs_iter_root() or zfs_iter_children() is running
             "callback",   \* zfs_list_callback() has just been entered
             "failed",     \* zfs_iter_root() returned nonzero
             "refused"}    \* zfs_list_datasets() returned -1
  /\ stack \in Seq(Frames)
  /\ rows \in Seq(Names)
  /\ open \in [Names -> Nat]
  /\ leaked \in [Names -> Nat]
  /\ result \in {"none", "array", "false"}
  /\ warned \in BOOLEAN
  /\ bailouts \in 0 .. MaxBailouts
  /\ cut \in SUBSET Names
  /\ passed \in SUBSET Names
  /\ steady \in SUBSET Names
  /\ born \in SUBSET Names

Rooted(S) == \A n \in S : Parent[n] \in S \cup {Root}

Init ==
  /\ live \in {S \in SUBSET Names : Rooted(S)}
  /\ pc = "idle"
  /\ stack = <<>>
  /\ pools = {}
  /\ rows = <<>>
  /\ open = [n \in Names |-> 0]
  /\ leaked = [n \in Names |-> 0]
  /\ result = "none"
  /\ warned = FALSE
  /\ bailouts = 0
  /\ cut = {}
  /\ passed = {}
  /\ steady = {}
  /\ born = {}
-----------------------------------------------------------------------------
(***************************************************************************)
(* Other processes: zfs create, zfs snapshot, zfs destroy, at any time.    *)
(***************************************************************************)

Create(n) ==
  /\ n \notin live
  /\ Parent[n] \in live \cup {Root}
  /\ live' = live \cup {n}
  /\ born' = IF pc = "idle" THEN born ELSE born \cup {n}
  /\ UNCHANGED <<steady, callVars>>

Destroy(n) ==
  /\ n \in live
  /\ \A m \in live : Parent[m] # n
  /\ live' = live \ {n}
  /\ steady' = IF pc = "idle" THEN steady ELSE steady \ {n}
  /\ UNCHANGED <<born, callVars>>
-----------------------------------------------------------------------------
(***************************************************************************)
(* The iteration of the library.                                           *)
(***************************************************************************)

\* What an iteration over d ranges over: zfs_iter_root() over the pool list
\* it loaded, zfs_iter_children() over the snapshots, filesystems and volumes
\* there are now.  Bookmarks have an iterator of their own, never called.
Offered(d) ==
  {n \in (IF d = Root THEN pools ELSE live) : Parent[n] = d /\ Kind[n] # "bookmark"}

Ahead(f) == {n \in Offered(f.ds) : f.cur < Pos[n]}

IsNext(n, f) == n \in Ahead(f) /\ \A m \in Ahead(f) : Pos[n] <= Pos[m]

AdvanceTo(n) == [stack EXCEPT ![Len(stack)].cur = Pos[n]]

InLibrary == pc = "library" /\ stack # <<>>

\* The library opens the next dataset and calls zfs_list_callback() with it.
OpenNext(n) ==
  /\ InLibrary
  /\ IsNext(n, Top)
  /\ n \in live
  /\ open' = [open EXCEPT ![n] = @ + 1]
  /\ stack' = Append(AdvanceTo(n), [ds |-> n, cur |-> 0])
  /\ pc' = "callback"
  /\ UNCHANGED <<worldVars, rows, result, warned, bailouts, leaked, cut, passed, pools>>

\* The next dataset cannot be opened, or is gone since the pool list was
\* loaded: nothing is added and the iteration moves on (zhp == NULL).
SkipNext(n) ==
  /\ InLibrary
  /\ IsNext(n, Top)
  /\ stack' = AdvanceTo(n)
  /\ passed' = passed \cup {n}
  /\ UNCHANGED <<worldVars, pc, rows, open, result, warned, bailouts, leaked, cut, pools>>
-----------------------------------------------------------------------------
(***************************************************************************)
(* zfs_list_callback().                                                    *)
(***************************************************************************)

\* Slip: the row goes to the front of the array.
AddRowInFront ==
  /\ pc = "callback"
  /\ rows' = <<Top.ds>> \o rows
  /\ pc' = "library"
  /\ UNCHANGED <<worldVars, stack, open, result, warned, bailouts, leaked, cut, passed, pools>>

\* Slip: the callback is handed to zfs_iter_root() here as well.
AddRowFromRoot ==
  /\ pc = "callback"
  /\ rows' = Append(rows, Top.ds)
  /\ stack' = [stack EXCEPT ![Len(stack)].ds = Root]
  /\ pc' = "library"
  /\ UNCHANGED <<worldVars, open, result, warned, bailouts, leaked, cut, passed, pools>>

\* The dataset's row is built and added, and zfs_iter_children() is entered.
AddRow ==
  /\ pc = "callback"
  /\ rows' = Append(rows, Top.ds)
  /\ pc' = "library"
  /\ UNCHANGED <<worldVars, stack, open, result, warned, bailouts, leaked, cut, passed, pools>>

\* Slip: the handle is closed by the callback and by its caller.
CloseTopTwice ==
  /\ open' = [open EXCEPT ![Top.ds] = @ - 2]
  /\ stack' = SubSeq(stack, 1, Len(stack) - 1)

\* zfs_close() and return 0 to the iteration that made the call.
CloseTop ==
  /\ open' = [open EXCEPT ![Top.ds] = @ - 1]
  /\ stack' = SubSeq(stack, 1, Len(stack) - 1)

\* zfs_iter_children() has no further child.
ChildrenDone ==
  /\ InLibrary
  /\ Top.ds # Root
  /\ Ahead(Top) = {}
  /\ CloseTop
  /\ UNCHANGED <<worldVars, pc, rows, result, warned, bailouts, leaked, cut, passed, pools>>

\* Slip: the callback returns the failure before it reaches zfs_close().
ChildrenFailLeaks ==
  /\ InLibrary
  /\ Top.ds # Root
  /\ stack' = SubSeq(stack, 1, Len(stack) - 1)
  /\ cut' = cut \cup {Top.ds}
  /\ UNCHANGED <<worldVars, pc, rows, open, result, warned, bailouts, leaked, passed, pools>>

\* Slip: an iteration that failed is started again, once per dataset.
ChildrenFailRetries ==
  /\ InLibrary
  /\ Top.ds \notin {Root} \cup cut
  /\ stack' = [stack EXCEPT ![Len(stack)].cur = 0]
  /\ cut' = cut \cup {Top.ds}
  /\ UNCHANGED <<worldVars, pc, rows, open, result, warned, bailouts, leaked, passed, pools>>

\* zfs_iter_children() fails part way; its return value is not looked at.
ChildrenFail ==
  /\ InLibrary
  /\ Top.ds # Root
  /\ CloseTop
  /\ cut' = cut \cup {Top.ds}
  /\ UNCHANGED <<worldVars, pc, rows, result, warned, bailouts, leaked, passed, pools>>

\* The row does not fit the request's memory limit: PHP unwinds the request
\* past every zfs_list_callback() frame, so none of them reaches zfs_close().
\* The array dies with the request; libzfs and its handles do not.
Bailout ==
  /\ pc = "callback"
  /\ bailouts < MaxBailouts
  /\ bailouts' = bailouts + 1
  /\ leaked' = open
  /\ stack' = <<>>
  /\ pools' = {}
  /\ rows' = <<>>
  /\ pc' = "idle"
  /\ UNCHANGED <<worldVars, open, result, warned, cut, passed>>
-----------------------------------------------------------------------------
(***************************************************************************)
(* PHP_FUNCTION(zfs_list) and zfs_list_datasets().                         *)
(***************************************************************************)

\* Slip: the array of the previous call is added to.
BeginWithoutInit ==
  /\ pc = "idle"
  /\ stack' = <<[ds |-> Root, cur |-> 0]>>
  /\ pools' = {n \in live : Parent[n] = Root}
  /\ pc' = "library"
  /\ result' = "none"
  /\ warned' = FALSE
  /\ cut' = {}
  /\ passed' = {}
  /\ steady' = live
  /\ born' = live
  /\ UNCHANGED <<live, rows, open, bailouts, leaked>>

\* array_init(return_value) and zfs_iter_root() begins.
Begin ==
  /\ pc = "idle"
  /\ stack' = <<[ds |-> Root, cur |-> 0]>>
  /\ pools' = {n \in live : Parent[n] = Root}
  /\ rows' = <<>>
  /\ pc' = "library"
  /\ result' = "none"
  /\ warned' = FALSE
  /\ cut' = {}
  /\ passed' = {}
  /\ steady' = live
  /\ born' = live
  /\ UNCHANGED <<live, open, bailouts, leaked>>

AtRoot == InLibrary /\ Top.ds = Root

\* Slip: the walk ends with the first pool that was walked.
RootDoneEarly ==
  /\ AtRoot
  /\ rows # <<>>
  /\ stack' = <<>>
  /\ pools' = {}
  /\ pc' = "idle"
  /\ result' = "array"
  /\ UNCHANGED <<worldVars, rows, open, warned, bailouts, leaked, cut, passed>>

\* zfs_iter_root() returns 0: the array is the answer.
RootDone ==
  /\ AtRoot
  /\ Ahead(Top) = {}
  /\ stack' = <<>>
  /\ pools' = {}
  /\ pc' = "idle"
  /\ result' = "array"
  /\ UNCHANGED <<worldVars, rows, open, warned, bailouts, leaked, cut, passed>>

\* Slip: a walk that failed is started again, as often as it fails.
RootFailRetries ==
  /\ AtRoot
  /\ stack' = <<[ds |-> Root, cur |-> 0]>>
  /\ rows' = <<>>
  /\ UNCHANGED <<worldVars, pc, open, result, warned, bailouts, leaked, cut, passed, pools>>

\* zfs_iter_root() returns nonzero, with whatever rows it got to.
RootFail ==
  /\ AtRoot
  /\ stack' = <<>>
  /\ pools' = {}
  /\ pc' = "failed"
  /\ UNCHANGED <<worldVars, rows, open, result, warned, bailouts, leaked, cut, passed>>

\* Slip: -1 is returned without a word.
WarnNobody ==
  /\ pc = "failed"
  /\ pc' = "refused"
  /\ UNCHANGED <<worldVars, stack, rows, open, result, warned, bailouts, leaked, cut, passed, pools>>

\* php_zfs_error() with the library's description; zfs_list_datasets() returns -1.
Warn ==
  /\ pc = "failed"
  /\ warned' = TRUE
  /\ pc' = "refused"
  /\ UNCHANGED <<worldVars, stack, rows, open, result, bailouts, leaked, cut, passed, pools>>

\* zval_dtor() drops the partial array; RETURN_FALSE.
ReturnFalse ==
  /\ pc = "refused"
  /\ rows' = <<>>
  /\ result' = "false"
  /\ pc' = "idle"
  /\ UNCHANGED <<worldVars, stack, open, warned, bailouts, leaked, cut, passed, pools>>

\* What the script's error handler does with the warning does not fit the
\* memory limit: PHP unwinds the request out of php_zfs_error().
AbandonInHandler ==
  /\ pc = "refused"
  /\ rows' = <<>>
  /\ pc' = "idle"
  /\ UNCHANGED <<worldVars, stack, open, result, warned, bailouts, leaked, cut, passed, pools>>
-----------------------------------------------------------------------------
World == \E n \in Names : Create(n) \/ Destroy(n)

\* The steps of a call once it has begun.
CallStep ==
  \/ \E n \in Names : OpenNext(n) \/ SkipNext(n)
  \/ AddRow
  \/ ChildrenDone
  \/ ChildrenFail
  \/ Bailout
  \/ RootDone
  \/ RootFail
  \/ Warn
  \/ ReturnFalse
  \/ AbandonInHandler

Next == World \/ Begin \/ CallStep

Spec == Init /\ [][Next]_vars

\* The C function runs to completion on its thread; scripts need not call it
\* and other processes need not change anything.
FairSpec == Spec /\ WF_vars(CallStep)
-----------------------------------------------------------------------------
(***************************************************************************)
(* Properties.                                                             *)
(***************************************************************************)

OnStack(n) == \E i \in 1 .. Len(stack) : stack[i].ds = n

\* The handles open on a dataset are the one of the callback running for it,
\* if there is one, and those an aborted call leaked.  So a parent stays open
\* while its children are visited (zfs_list.c:97), an iteration that fails
\* closes what it opened, and between calls nothing is open but leaks.
HandlesAccounted ==
  \A n \in Names : open[n] = leaked[n] + (IF OnStack(n) THEN 1 ELSE 0)

\* Each level of the tree is a frame of C with a buffer of its own and an open
\* handle: there are never more than the tree is deep, however the tree changes
\* (zfs_list.c:21, 98), and the frame of zfs_list_datasets().
RecursionBounded ==
  Len(stack) > 1 => \E n \in Names : Len(stack) <= Depth[n] + 1

\* No dataset is listed twice, though datasets are destroyed and created
\* again, parents included, while zfs_list_callback() is below them.
NoDuplicates ==
  \A i, j \in 1 .. Len(rows) : rows[i] = rows[j] => i = j

\* The array is a depth-first outline: the row of a dataset's parent comes
\* earlier, and only rows deeper than the parent stand between the two, so a
\* script can draw the tree from the array alone (zfs_list.c:94-98).
DepthFirst ==
  \A k \in 1 .. Len(rows) :
    \/ Parent[rows[k]] = Root
    \/ \E i \in 1 .. k - 1 :
         /\ rows[i] = Parent[rows[k]]
         /\ \A j \in i + 1 .. k - 1 : Depth[rows[i]] < Depth[rows[j]]

\* Every dataset listed existed at some time during the call.
ListedExisted == Listed \subseteq born

\* A returned array misses nothing it could have had: a dataset that existed
\* throughout the call is listed if its parent is, unless its parent's
\* iteration failed, the library passed over it, or it is a bookmark.
Complete ==
  pc = "idle" /\ result = "array" =>
    \A n \in steady \ passed :
      /\ Kind[n] # "bookmark"
      /\ Parent[n] \in {Root} \cup (Listed \ cut)
      => n \in Listed

\* A dataset is among the descendants of another, or the same.
Under(n, m) ==
  \A S \in SUBSET Names :
    m \in S /\ (\A k \in Names : Parent[k] \in S => k \in S) => n \in S

\* The datasets the walk may still come to, whether they exist yet or not.
Unvisited ==
  {n \in Names :
     \E i \in 1 .. Len(stack) : \E m \in Names :
       Parent[m] = stack[i].ds /\ stack[i].cur < Pos[m] /\ Under(n, m)}

\* How many steps a call may still take.
StepsLeft ==
  CASE pc = "idle"     -> 0
    [] pc = "refused"  -> 1
    [] pc = "failed"   -> 2
    [] pc = "library"  -> 2 + Len(stack) + 3 * Cardinality(Unvisited)
    [] pc = "callback" -> 3 + Len(stack) + 3 * Cardinality(Unvisited)

\* A call is over after a number of steps that is fixed when it begins: the
\* recursion of zfs_list_callback() never comes to a place a second time, and
\* datasets created while it runs, and destroyed and created again, only take
\* places that were counted (zfs_list.c:98, 122).
EndDrawsNear ==
  [][pc # "idle" =>
       StepsLeft' < StepsLeft \/ (StepsLeft' = StepsLeft /\ UNCHANGED <<pc, stack>>)]_vars

\* "Both functions return `false` on error" (README.md:133): no error keeps a
\* dataset out of an array that is returned.  It is Complete without the exception
\* of a dataset whose zfs_iter_children() failed (zfs_list.c:98).
ArrayMeansNoError ==
  pc = "idle" /\ result = "array" =>
    \A n \in steady \ passed :
      /\ Kind[n] # "bookmark"
      /\ Parent[n] \in {Root} \cup Listed
      => n \in Listed
-----------------------------------------------------------------------------
(***************************************************************************)
(* The inductive invariant behind the properties, in the layers it is      *)
(* proved in (DatasetWalkProofs).                                          *)
(***************************************************************************)

\* The iterations in progress are those of a path of the tree, from the pool
\* list down; each stands at the child whose callback made the next one.
StackIsPath ==
  /\ stack # <<>> <=> pc \in {"library", "callback"}
  /\ stack # <<>> => stack[1].ds = Root
  /\ \A i \in 2 .. Len(stack) :
       /\ stack[i].ds \in Names
       /\ Parent[stack[i].ds] = stack[i - 1].ds
       /\ Pos[stack[i].ds] = stack[i - 1].cur
       /\ Depth[stack[i].ds] = i - 1
  /\ pc = "callback" => Len(stack) >= 2 /\ Top.cur = 0

\* A dataset on the stack is listed once its callback has added the row.
StackListed ==
  \A i \in 2 .. Len(stack) :
    stack[i].ds \in Listed <=> ~ (pc = "callback" /\ i = Len(stack))

\* The iteration over a listed dataset's siblings is past it, or over.
RowsBehind ==
  stack # <<>> =>
    \A n \in Listed :
      \/ \E i \in 1 .. Len(stack) : stack[i].ds = Parent[n] /\ Pos[n] <= stack[i].cur
      \/ Parent[n] \in Listed /\ ~ OnStack(Parent[n])

\* Since the row of a dataset on the stack, only its descendants' were added.
OutlineOpen ==
  \A s \in 2 .. Len(stack) :
    \/ pc = "callback" /\ s = Len(stack)
    \/ \E i \in 1 .. Len(rows) :
         /\ rows[i] = stack[s].ds
         /\ \A j \in i + 1 .. Len(rows) : Depth[rows[i]] < Depth[rows[j]]

\* No answer before the call is over, and the warning only on the way to false.
AnswerPending ==
  pc # "idle" => result = "none" /\ (warned <=> pc = "refused")

\* What exists now, what existed throughout, and what did at some time.
WorldSeen ==
  /\ pc # "idle" => steady \subseteq live /\ live \subseteq born
  /\ pc = "callback" => Top.ds \in born
  /\ stack # <<>> => \A n \in steady : Parent[n] = Root => n \in pools

\* What the array is to contain is in it, or ahead of an iteration.
StillAhead ==
  stack # <<>> =>
    \A n \in steady \ passed :
      /\ Kind[n] # "bookmark"
      /\ Parent[n] \in {Root} \cup (Listed \ cut)
      => \/ n \in Listed
         \/ \E i \in 1 .. Len(stack) : stack[i].ds = Parent[n] /\ stack[i].cur < Pos[n]
         \/ pc = "callback" /\ Top.ds = n

IInv ==
  /\ StackIsPath
  /\ StackListed
  /\ RowsBehind
  /\ OutlineOpen
  /\ AnswerPending
  /\ WorldSeen
  /\ StillAhead
-----------------------------------------------------------------------------
\* The call keeps the contract of ListCall, and always comes back: however
\* often the tree changes, each iteration only moves forward.
Call == INSTANCE ListCall WITH
          phase  <- IF pc = "idle" THEN "idle" ELSE "busy",
          answer <- result

Contract     == Call!Spec
FairContract == Call!FairSpec
=============================================================================
