---------------------------- MODULE SharedHandle ----------------------------
(***************************************************************************)
(* zfs_list() and zpool_list() of one thread over the one handle of zfs.c: *)
(* DatasetWalk and PoolWalk put together.  Either may be called while the  *)
(* other is in progress, by the error handler its warning runs, so calls   *)
(* nest: the C stack lets only the innermost take a step.                  *)
(*                                                                         *)
(* The two walks share the handle's list of pools, which zfs_iter_root()   *)
(* always loads anew and zpool_iter() if it counts no walk, and the        *)
(* description of the last error, which a call that failed reads for its   *)
(* warning.  Each walk was specified and proved for itself, on the         *)
(* assumption that nobody loads the list while it walks it.  Here that is  *)
(* a result: the composition implements both, and it implements ZfsExt,    *)
(* which knows of a walk only its beginning and its end.                   *)
(***************************************************************************)
EXTENDS Naturals, Sequences

CONSTANTS
  Names, Root, Parent, Level, Kind, Pos,   \* the tree: see DatasetWalk; Level is its Depth
  MaxBailouts,   \* bound: how many walks of either kind may be aborted
  None           \* in the place of an error: there is none

VARIABLES
  live, list, walks, desc,   \* the datasets there are; what the handle holds
  calls,    \* the calls in progress, outermost first
  outer,    \* the function of the last call no other was in progress for
  \* zfs_list(): see DatasetWalk
  dpc, stack, drows, dopen, dresult, dwarned, dbailouts, dleaked, cut, dpassed, dsteady, born,
  \* zpool_list(): see PoolWalk
  ppc, cur, prows, popen, presult, pwarned, pbailouts, pleaked, ppassed, psteady

datasetVars ==
  <<dpc, stack, drows, dopen, dresult, dwarned, dbailouts, dleaked, cut, dpassed, dsteady, born>>
poolVars ==
  <<ppc, cur, prows, popen, presult, pwarned, pbailouts, pleaked, ppassed, psteady>>
handleVars == <<list, walks, desc>>
vars == <<live, handleVars, calls, outer, datasetVars, poolVars>>

Pools == {n \in Names : Parent[n] = Root}

\* zfs_iter_root() ranges over the handle's list while it runs.
D == INSTANCE DatasetWalk WITH
       Depth <- Level,
       pools <- IF stack = <<>> THEN {} ELSE list,
       pc <- dpc, rows <- drows, open <- dopen, result <- dresult, warned <- dwarned,
       bailouts <- dbailouts, leaked <- dleaked, passed <- dpassed, steady <- dsteady

P == INSTANCE PoolWalk WITH
       Pos <- [p \in Pools |-> Pos[p]], live <- live \cap Pools,
       pc <- ppc, rows <- prows, open <- popen, result <- presult, warned <- pwarned,
       bailouts <- pbailouts, leaked <- pleaked, passed <- ppassed, steady <- psteady

\* An error is named for the call it is of, as in ZfsExt.
Error(in) == [thread |-> "script", depth |-> Len(calls), in |-> in]
Errors    == [thread : {"script"}, depth : 1 .. 2, in : {"walk", "child"}]

ASSUME HandleAssumption == D!TreeAssumption /\ None \notin Errors

Functions == {"zfs_list", "zpool_list"}
Pc(fn)    == IF fn = "zfs_list" THEN dpc ELSE ppc

TypeOK ==
  /\ D!TypeOK
  /\ P!TypeOK
  /\ calls \in Seq([fn : Functions, buffer : Errors \cup {None}])
  /\ outer \in Functions
  /\ desc \in Errors \cup {None}

Init ==
  /\ D!Init
  /\ P!Init
  /\ desc = None
  /\ calls = <<>>
  /\ outer = "zfs_list"
-----------------------------------------------------------------------------
(***************************************************************************)
(* Other processes.                                                        *)
(***************************************************************************)

Create(n) ==
  /\ UNCHANGED <<handleVars, calls, outer>>
  /\ D!Create(n)
  /\ IF n \in Pools THEN P!Import(n) ELSE UNCHANGED poolVars

Destroy(n) ==
  /\ UNCHANGED <<handleVars, calls, outer>>
  /\ D!Destroy(n)
  /\ IF n \in Pools THEN P!Export(n) ELSE UNCHANGED poolVars
-----------------------------------------------------------------------------
(***************************************************************************)
(* The nesting of the calls.                                               *)
(***************************************************************************)

Inner     == calls[Len(calls)]
Runs(fn)  == calls # <<>> /\ Inner.fn = fn

\* Slip: a call may begin from within the callback of the other.
MayCallAnytime(fn) == \A i \in 1 .. Len(calls) : calls[i].fn # fn

\* A script may call if it runs, or its error handler: then the innermost call
\* is in php_zfs_error().  The handler calls the other function.
MayCall(fn) ==
  /\ \A i \in 1 .. Len(calls) : calls[i].fn # fn
  /\ calls # <<>> => Pc(Inner.fn) = "refused"

Enter(fn) ==
  /\ calls' = Append(calls, [fn |-> fn, buffer |-> None])
  /\ outer' = IF calls = <<>> THEN fn ELSE outer

\* Slip: the call that returns is not the one that was called last.
ReturnOutermost == calls' = Tail(calls) /\ UNCHANGED outer

Return == calls' = SubSeq(calls, 1, Len(calls) - 1) /\ UNCHANGED outer

\* Slip: php_zfs_error() has a static buffer.
DescribeStatic ==
  calls' = [i \in 1 .. Len(calls) |-> [calls[i] EXCEPT !.buffer = desc]] /\ UNCHANGED outer

\* php_zfs_error(): the description goes into the buffer of the innermost call.
Describe == calls' = [calls EXCEPT ![Len(calls)].buffer = desc] /\ UNCHANGED outer

Stays == UNCHANGED <<calls, outer>>
-----------------------------------------------------------------------------
(***************************************************************************)
(* zfs_list().                                                             *)
(***************************************************************************)

ZfsListBegins ==
  /\ MayCall("zfs_list")
  /\ list' = live \cap Pools
  /\ D!Begin
  /\ Enter("zfs_list")
  /\ UNCHANGED <<walks, desc, poolVars>>

ZfsListRuns ==
  /\ Runs("zfs_list")
  /\ UNCHANGED <<list, walks, poolVars>>
  /\ \/ (\E n \in Names : D!OpenNext(n) \/ D!SkipNext(n)) /\ Stays /\ UNCHANGED desc
     \/ (D!AddRow \/ D!ChildrenDone) /\ Stays /\ UNCHANGED desc
     \/ D!ChildrenFail /\ Stays /\ desc' = Error("child")
     \/ D!RootDone /\ Return /\ UNCHANGED desc
     \/ D!RootFail /\ Stays /\ desc' = Error("walk")
     \/ D!Warn /\ Describe /\ UNCHANGED desc
     \/ D!ReturnFalse /\ Return /\ UNCHANGED desc
-----------------------------------------------------------------------------
(***************************************************************************)
(* zpool_list().                                                           *)
(***************************************************************************)

ZpoolListBegins ==
  /\ MayCall("zpool_list")
  /\ UNCHANGED <<live, datasetVars>>
  /\ \/ P!Begin /\ UNCHANGED desc
     \/ P!BeginFails /\ desc' = [Error("walk") EXCEPT !.depth = Len(calls) + 1]
  /\ Enter("zpool_list")

ZpoolListRuns ==
  /\ Runs("zpool_list")
  /\ UNCHANGED <<live, datasetVars>>
  /\ \/ (\E p \in Pools : P!OpenNext(p) \/ P!SkipNext(p) \/ P!AddRow(p)) /\ Stays /\ UNCHANGED desc
     \/ P!Done /\ Return /\ UNCHANGED desc
     \/ P!WalkFails /\ Stays /\ desc' = Error("walk")
     \/ P!Warn /\ Describe /\ UNCHANGED desc
     \/ P!ReturnFalse /\ Return /\ UNCHANGED desc
-----------------------------------------------------------------------------
\* PHP abandons the request, with every call in progress: the innermost out of
\* a callback or a handler, the one around it out of its handler.
Abandon ==
  /\ calls # <<>>
  /\ UNCHANGED <<live, handleVars, outer>>
  /\ calls' = <<>>
  /\ IF dpc = "idle" THEN UNCHANGED datasetVars ELSE D!Bailout \/ D!AbandonInHandler
  /\ IF ppc = "idle" THEN UNCHANGED poolVars ELSE P!Bailout \/ P!AbandonInHandler

Next ==
  \/ \E n \in Names : Create(n) \/ Destroy(n)
  \/ ZfsListBegins
  \/ ZfsListRuns
  \/ ZpoolListBegins
  \/ ZpoolListRuns
  \/ Abandon

Spec == Init /\ [][Next]_vars
-----------------------------------------------------------------------------
(***************************************************************************)
(* Properties.                                                             *)
(***************************************************************************)

\* Only the innermost call is anywhere but in its warning, and a walk is in
\* progress exactly if its call is on the C stack.
OnlyInnermostRuns ==
  /\ Len(calls) <= 2
  /\ Len(calls) = 2 => calls[1].fn # calls[2].fn /\ Pc(calls[1].fn) = "refused"
  /\ \A fn \in Functions :
       Pc(fn) = "idle" <=> \A i \in 1 .. Len(calls) : calls[i].fn # fn

\* A call holds no handle and no walk but while it is the innermost, aborted ones
\* apart: above all, the script's error handler never runs over a zfs_handle_t or
\* zpool_handle_t of the call that warns (zfs_list.c:124, zpool_list.c:184).
HeldOnlyByInnermost ==
  /\ ~ Runs("zfs_list") => dopen = dleaked
  /\ ~ Runs("zpool_list") => popen = pleaked /\ walks = pbailouts

\* Whatever the other function does with the handle, each walk takes only steps
\* of its own specification; so all that is proved of it holds of it here.
KeepsDatasetWalk == D!Spec
KeepsPoolWalk    == P!Spec

\* The calls as ZfsExt sees them, on a started module.
Abstract(c) ==
  LET pc == Pc(c.fn) IN
    [fn     |-> c.fn,
     pc     |-> IF pc = "failed" THEN "failed" ELSE IF pc = "refused" THEN "report" ELSE "walk",
     list   |-> IF pc \in {"failed", "refused"} THEN "none" ELSE "held",
     buffer |-> c.buffer]

E == INSTANCE ZfsExt WITH
       Threads <- {"script"}, MaxDepth <- 2, MaxBailouts <- 2 * MaxBailouts,
       g_zfs <- "open", loaded <- TRUE, handles <- 1,
       calls <- [t \in {"script"} |-> [i \in 1 .. Len(calls) |-> Abstract(calls[i])]],
       answer <- [t \in {"script"} |-> IF outer = "zfs_list" THEN dresult ELSE presult],
       warned <- [t \in {"script"} |-> IF outer = "zfs_list" THEN dwarned ELSE pwarned],
       bailouts <- dbailouts + pbailouts

\* Once the module is started, every step is one of ZfsExt or none to it: the
\* walks begin, fail, describe and end as ZfsExt has them, and with it goes that
\* a warning has the details of its own call.
KeepsZfsExt == [][E!Next]_(E!vars)

\* So every warning has the details of its own call's failed walk, although the
\* walks describe the failures of children as well and overtake one another's
\* descriptions (zfs.c:104-114), and
WarningsAreOwn == E!OwnDetails

\* the call the script made keeps the contract of ListCall, whatever calls of the
\* other function its error handler makes.
OuterContract == E!Contract
=============================================================================
