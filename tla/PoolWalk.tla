------------------------------ MODULE PoolWalk -------------------------------
(***************************************************************************)
(* zpool_list(): the walk of zpool_list.c over the pools, while other      *)
(* processes import and export them.                                       *)
(*                                                                         *)
(* The library, as the code uses it: zpool_iter() walks a list of pools    *)
(* that belongs to the handle.  It loads the list first, unless a walk of  *)
(* that list is in progress, which loading would pull it from under; a     *)
(* walk counts itself in when it starts and out when it returns.  It gives *)
(* zpool_list_callback() an open handle per pool, passes over a pool that  *)
(* is gone, and fails part way if a pool cannot be asked about.  The       *)
(* handle, its list and its count live as long as the PHP process.         *)
(***************************************************************************)
EXTENDS Naturals, Sequences, FiniteSets, Functions

CONSTANTS
  Pools,        \* every pool that can exist during the behaviour
  Pos,          \* the place of a pool in the order of the library's list
  MaxBailouts   \* bound: how many walks the memory limit may abort

ASSUME PoolAssumption ==
  /\ Pos \in [Pools -> Nat \ {0}]
  /\ \A p, q \in Pools : Pos[p] = Pos[q] => p = q
  /\ MaxBailouts \in Nat

VARIABLES
  live,      \* the pools that are imported now
  list,      \* the handle's list of pools
  walks,     \* how many walks of the list the handle counts
  pc,        \* where the call is: see TypeOK
  cur,       \* the place the walk of this call has reached
  rows,      \* the pools in return_value, in order
  open,      \* how many zpool_handle_t are open on each pool
  result,    \* what the last call returned to the script
  warned,    \* php_zfs_error() was called in this call
  bailouts,  \* how many walks were aborted by the memory limit
  \* history, read by the properties only
  leaked,    \* handles an aborted call left open
  passed,    \* pools of this call the library passed over
  steady     \* pools that were imported throughout this call so far

callVars == <<list, walks, pc, cur, rows, open, result, warned, bailouts, leaked, passed>>
vars     == <<live, steady, callVars>>

Listed == Range(rows)

TypeOK ==
  /\ live \in SUBSET Pools
  /\ list \in SUBSET Pools
  /\ walks \in Nat
  /\ pc \in {"idle",       \* no call in progress
             "library",    \* zpool_iter() is running
             "callback",   \* zpool_list_callback() has been entered
             "failed",     \* zpool_iter() returned nonzero
             "refused"}    \* zpool_list_pools() returned -1
  /\ cur \in Nat
  /\ rows \in Seq(Pools)
  /\ open \in [Pools -> Nat]
  /\ leaked \in [Pools -> Nat]
  /\ result \in {"none", "array", "false"}
  /\ warned \in BOOLEAN
  /\ bailouts \in 0 .. MaxBailouts
  /\ passed \in SUBSET Pools
  /\ steady \in SUBSET Pools

Init ==
  /\ live \in SUBSET Pools
  /\ list = {}
  /\ walks = 0
  /\ pc = "idle"
  /\ cur = 0
  /\ rows = <<>>
  /\ open = [p \in Pools |-> 0]
  /\ leaked = [p \in Pools |-> 0]
  /\ result = "none"
  /\ warned = FALSE
  /\ bailouts = 0
  /\ passed = {}
  /\ steady = {}
-----------------------------------------------------------------------------
(***************************************************************************)
(* Other processes: zpool create or import, zpool destroy or export.       *)
(***************************************************************************)

Import(p) ==
  /\ p \notin live
  /\ live' = live \cup {p}
  /\ UNCHANGED <<steady, callVars>>

Export(p) ==
  /\ p \in live
  /\ live' = live \ {p}
  /\ steady' = IF pc = "idle" THEN steady ELSE steady \ {p}
  /\ UNCHANGED callVars

\* zfs_list() is called, by the script or by its error handler, and loads the
\* list for itself; never while zpool_iter() walks it, as SharedHandle shows.
LoadForZfsList ==
  /\ pc \in {"idle", "refused"}
  /\ list' = live
  /\ UNCHANGED <<live, steady, walks, pc, cur, rows, open, result, warned, bailouts, leaked, passed>>
-----------------------------------------------------------------------------
(***************************************************************************)
(* PHP_FUNCTION(zpool_list) and zpool_list_pools(), up to zpool_iter().    *)
(***************************************************************************)

Enter ==
  /\ pc = "idle"
  /\ cur' = 0
  /\ rows' = <<>>
  /\ result' = "none"
  /\ warned' = FALSE
  /\ passed' = {}
  /\ steady' = live
  /\ UNCHANGED <<live, open, bailouts, leaked>>

\* Slip: the array of the previous call is added to.
BeginWithoutInit ==
  /\ pc = "idle"
  /\ cur' = 0
  /\ result' = "none"
  /\ warned' = FALSE
  /\ passed' = {}
  /\ steady' = live
  /\ list' = IF walks = 0 THEN live ELSE list
  /\ walks' = walks + 1
  /\ pc' = "library"
  /\ UNCHANGED <<live, rows, open, bailouts, leaked>>

\* array_init(return_value) and zpool_iter() begins, with a list loaded for it
\* if the handle counts no walk.
Begin ==
  /\ Enter
  /\ list' = IF walks = 0 THEN live ELSE list
  /\ walks' = walks + 1
  /\ pc' = "library"

\* The list cannot be loaded: zpool_iter() returns nonzero.
BeginFails ==
  /\ Enter
  /\ walks = 0
  /\ pc' = "failed"
  /\ UNCHANGED <<list, walks>>
-----------------------------------------------------------------------------
(***************************************************************************)
(* The walk of the library.                                                *)
(***************************************************************************)

Ahead == {p \in list : cur < Pos[p]}

IsNext(p) == p \in Ahead /\ \A q \in Ahead : Pos[p] <= Pos[q]

\* The library opens the next pool and calls zpool_list_callback() with it.
OpenNext(p) ==
  /\ pc = "library"
  /\ IsNext(p)
  /\ p \in live
  /\ cur' = Pos[p]
  /\ open' = [open EXCEPT ![p] = @ + 1]
  /\ pc' = "callback"
  /\ UNCHANGED <<live, steady, list, walks, rows, result, warned, bailouts, leaked, passed>>

\* The next pool is gone, or not to be opened: the walk moves on (zhp == NULL).
SkipNext(p) ==
  /\ pc = "library"
  /\ IsNext(p)
  /\ cur' = Pos[p]
  /\ passed' = passed \cup {p}
  /\ UNCHANGED <<live, steady, list, walks, pc, rows, open, result, warned, bailouts, leaked>>

\* Slip: a walk that failed is started again, as often as it fails.
WalkFailsRetries ==
  /\ pc = "library"
  /\ Ahead # {}
  /\ cur' = 0
  /\ rows' = <<>>
  /\ UNCHANGED <<live, steady, list, walks, pc, open, result, warned, bailouts, leaked, passed>>

\* A pool on the list cannot be asked about: zpool_iter() returns nonzero,
\* with whatever rows it got to.
WalkFails ==
  /\ pc = "library"
  /\ Ahead # {}
  /\ walks' = walks - 1
  /\ pc' = "failed"
  /\ UNCHANGED <<live, steady, list, cur, rows, open, result, warned, bailouts, leaked, passed>>

\* Slip: the walk ends before the last pool.
DoneEarly ==
  /\ pc = "library"
  /\ \A p, q \in Ahead : p = q
  /\ walks' = walks - 1
  /\ result' = "array"
  /\ pc' = "idle"
  /\ UNCHANGED <<live, steady, list, cur, rows, open, warned, bailouts, leaked, passed>>

\* zpool_iter() returns 0: the array is the answer.
Done ==
  /\ pc = "library"
  /\ Ahead = {}
  /\ walks' = walks - 1
  /\ result' = "array"
  /\ pc' = "idle"
  /\ UNCHANGED <<live, steady, list, cur, rows, open, warned, bailouts, leaked, passed>>
-----------------------------------------------------------------------------
(***************************************************************************)
(* zpool_list_callback(), and what is done with its return value.          *)
(***************************************************************************)

InCallback(p) == pc = "callback" /\ Pos[p] = cur

\* Slip: the callback forgets zpool_close().
AddRowLeaks(p) ==
  /\ InCallback(p)
  /\ rows' = Append(rows, p)
  /\ pc' = "library"
  /\ UNCHANGED <<live, steady, list, walks, cur, open, result, warned, bailouts, leaked, passed>>

\* Slip: zpool_close() after zpool_close().
AddRowClosesTwice(p) ==
  /\ InCallback(p)
  /\ rows' = Append(rows, p)
  /\ open' = [open EXCEPT ![p] = @ - 2]
  /\ pc' = "library"
  /\ UNCHANGED <<live, steady, list, walks, cur, result, warned, bailouts, leaked, passed>>

\* The pool's row is built (PoolRow) and added, and the handle closed.
AddRow(p) ==
  /\ InCallback(p)
  /\ rows' = Append(rows, p)
  /\ open' = [open EXCEPT ![p] = @ - 1]
  /\ pc' = "library"
  /\ UNCHANGED <<live, steady, list, walks, cur, result, warned, bailouts, leaked, passed>>

\* The row does not fit the request's memory limit: PHP unwinds the request
\* past zpool_list_callback(), which does not close its handle, and past
\* zpool_iter(), which does not count itself out.
Bailout ==
  /\ pc = "callback"
  /\ bailouts < MaxBailouts
  /\ bailouts' = bailouts + 1
  /\ leaked' = open
  /\ rows' = <<>>
  /\ pc' = "idle"
  /\ UNCHANGED <<live, steady, list, walks, cur, open, result, warned, passed>>

\* Slip: -1 is returned without a word.
WarnNobody ==
  /\ pc = "failed"
  /\ pc' = "refused"
  /\ UNCHANGED <<live, steady, list, walks, cur, rows, open, result, warned, bailouts, leaked, passed>>

\* php_zfs_error() with the library's description; zpool_list_pools() returns -1.
Warn ==
  /\ pc = "failed"
  /\ warned' = TRUE
  /\ pc' = "refused"
  /\ UNCHANGED <<live, steady, list, walks, cur, rows, open, result, bailouts, leaked, passed>>

\* zval_dtor() drops the partial array; RETURN_FALSE.
ReturnFalse ==
  /\ pc = "refused"
  /\ rows' = <<>>
  /\ result' = "false"
  /\ pc' = "idle"
  /\ UNCHANGED <<live, steady, list, walks, cur, open, warned, bailouts, leaked, passed>>

\* What the script's error handler does with the warning does not fit the
\* memory limit: PHP unwinds the request out of php_zfs_error().
AbandonInHandler ==
  /\ pc = "refused"
  /\ rows' = <<>>
  /\ pc' = "idle"
  /\ UNCHANGED <<live, steady, list, walks, cur, open, result, warned, bailouts, leaked, passed>>
-----------------------------------------------------------------------------
World == \E p \in Pools : Import(p) \/ Export(p)

\* The steps of a call once it has begun.
CallStep ==
  \/ \E p \in Pools : OpenNext(p) \/ SkipNext(p) \/ AddRow(p)
  \/ WalkFails
  \/ Done
  \/ Bailout
  \/ Warn
  \/ ReturnFalse
  \/ AbandonInHandler

Next == World \/ LoadForZfsList \/ Begin \/ BeginFails \/ CallStep

Spec == Init /\ [][Next]_vars

\* The C function runs to completion on its thread; scripts need not call it
\* and other processes need not change anything.
FairSpec == Spec /\ WF_vars(CallStep)
-----------------------------------------------------------------------------
(***************************************************************************)
(* Properties.                                                             *)
(***************************************************************************)

Walking == pc \in {"library", "callback"}

\* A pool's handle is open while its callback runs, or was leaked by a call
\* that was aborted; and the handle's count of walks is the walk of this call
\* and those of the aborted ones, which it never gets rid of.
HandlesAccounted ==
  /\ \A p \in Pools : open[p] = leaked[p] + (IF InCallback(p) THEN 1 ELSE 0)
  /\ walks = bailouts + (IF Walking THEN 1 ELSE 0)

\* The rows are in the order of the library's list, no pool twice, whether the
\* list was loaded for this call or is that of an aborted one.
InOrder == \A i, j \in 1 .. Len(rows) : i < j => Pos[rows[i]] < Pos[rows[j]]

\* While no walk was aborted, a returned array has every pool that was
\* imported throughout the call and not passed over.
Complete ==
  pc = "idle" /\ result = "array" /\ bailouts = 0 => steady \ passed \subseteq Listed

\* How many steps a call may still take.
StepsLeft ==
  CASE pc = "idle"     -> 0
    [] pc = "refused"  -> 1
    [] pc = "failed"   -> 2
    [] pc = "library"  -> 1 + 2 * Cardinality(Ahead)
    [] pc = "callback" -> 2 + 2 * Cardinality(Ahead)

\* A call is over after a number of steps that is fixed when it begins: no step
\* of the call but brings it nearer to its end, and whatever other processes
\* import and whoever loads the list, nothing puts the end off (zpool_list.c:182).
EndDrawsNear ==
  [][pc # "idle" =>
       StepsLeft' < StepsLeft \/ (StepsLeft' = StepsLeft /\ UNCHANGED <<pc, cur>>)]_vars
-----------------------------------------------------------------------------
(***************************************************************************)
(* The inductive invariant behind the properties (PoolWalkProofs).         *)
(***************************************************************************)

\* The walk is past what is listed, and at the pool in the callback.
RowsBehind ==
  /\ Walking => \A p \in Listed : Pos[p] <= cur /\ ~ InCallback(p)
  /\ pc = "callback" => \E p \in Pools : InCallback(p)

\* Of the pools imported throughout, those not listed are ahead.
StillAhead ==
  Walking /\ bailouts = 0 =>
    /\ steady \subseteq list
    /\ \A p \in steady \ passed : p \in Listed \/ cur < Pos[p] \/ InCallback(p)

\* No answer before the call is over, and the warning only on the way to false.
AnswerPending ==
  pc # "idle" => result = "none" /\ (warned <=> pc = "refused")

IInv == RowsBehind /\ StillAhead /\ AnswerPending

\* The call keeps the contract of ListCall, and always comes back.
Call == INSTANCE ListCall WITH
          phase  <- IF pc = "idle" THEN "idle" ELSE "busy",
          answer <- result

Contract     == Call!Spec
FairContract == Call!FairSpec
=============================================================================
