------------------------------- MODULE ZfsExt --------------------------------
(***************************************************************************)
(* The extension as a whole (zfs.c): module startup and shutdown around    *)
(* one libzfs handle in a static variable, and the calls that share it.    *)
(*                                                                         *)
(* A thread's calls nest: the E_WARNING of php_zfs_error() may run an      *)
(* error handler of the script, which may call zfs_list() or zpool_list()  *)
(* again before the first call has returned.  Threads > 1 is a build of    *)
(* PHP with ZTS, where every thread uses the same static handle.           *)
(*                                                                         *)
(* What the calls share through the handle, as the code uses the library:  *)
(* the description of the last error, and the list of pools an iteration   *)
(* walks.  zfs_iter_root() loads that list; zpool_iter() does unless a     *)
(* walk of zpool_iter() is counted; loading replaces the list, under       *)
(* whoever is walking it.  The walks themselves are DatasetWalk and        *)
(* PoolWalk.                                                               *)
(***************************************************************************)
EXTENDS Naturals, Sequences, FiniteSets

CONSTANTS
  Threads,      \* the threads of the process that run scripts
  MaxDepth,     \* bound: how deep calls nest through error handlers
  MaxBailouts,  \* bound: how many walks the memory limit may abort
  None          \* in the place of an error: there is none

\* An error is named for the call it is of, and for what failed in that call.
Errors == [thread : Threads, depth : 1 .. MaxDepth, in : {"walk", "child"}]

Error(t, d, in) == [thread |-> t, depth |-> d, in |-> in]

ASSUME BoundAssumption ==
  /\ MaxDepth \in Nat \ {0}
  /\ MaxBailouts \in Nat
  /\ None \notin Errors

VARIABLES
  g_zfs,     \* the static handle: "null" or "open"
  loaded,    \* PHP has the module's functions registered
  desc,      \* in the handle: the error libzfs_error_description() describes
  walks,     \* in the handle: how many walks of zpool_iter() are counted
  calls,     \* the calls in progress on each thread, outermost first
  answer,    \* what the last outermost call of each thread returned
  warned,    \* the outermost call of each thread raised its warning
  bailouts,  \* how many walks were aborted by the memory limit
  handles    \* history: how many handles libzfs_init() made and fini did not end

handleVars == <<g_zfs, loaded, handles>>
vars == <<handleVars, desc, walks, calls, answer, warned, bailouts>>

PhpFunctions == {"zfs_list", "zpool_list"}

Call ==
  [fn     : PhpFunctions,
   pc     : {"walk",      \* the iteration of the library is running
             "failed",    \* it returned nonzero
             "report"},   \* in php_error_docref(), which may run a script
   list   : {"none", "held", "lost"},   \* the pool list the iteration walks
   buffer : Errors \cup {None}]         \* in php_zfs_error(): the text

CallsOK ==
  /\ calls \in [Threads -> Seq(Call)]
  /\ \A t \in Threads : Len(calls[t]) <= MaxDepth

TypeOK ==
  /\ g_zfs \in {"null", "open"}
  /\ loaded \in BOOLEAN
  /\ desc \in Errors \cup {None}
  /\ walks \in Nat
  /\ CallsOK
  /\ answer \in [Threads -> {"none", "array", "false"}]
  /\ warned \in [Threads -> BOOLEAN]
  /\ bailouts \in 0 .. MaxBailouts
  /\ handles \in Nat

Init ==
  /\ g_zfs = "null"
  /\ loaded = FALSE
  /\ desc = None
  /\ walks = 0
  /\ calls = [t \in Threads |-> <<>>]
  /\ answer = [t \in Threads |-> "none"]
  /\ warned = [t \in Threads |-> FALSE]
  /\ bailouts = 0
  /\ handles = 0
-----------------------------------------------------------------------------
(***************************************************************************)
(* PHP_MINIT_FUNCTION and PHP_MSHUTDOWN_FUNCTION.  A web server starts and *)
(* stops its modules again when it is reloaded.                            *)
(***************************************************************************)

ModuleStart ==
  /\ ~ loaded
  /\ g_zfs' = "open"
  /\ handles' = handles + 1
  /\ loaded' = TRUE
  /\ UNCHANGED <<desc, walks, calls, answer, warned, bailouts>>

\* Slip: SUCCESS is returned although libzfs_init() returned NULL.
ModuleStartsAnyway ==
  /\ ~ loaded
  /\ g_zfs' = "null"
  /\ loaded' = TRUE
  /\ UNCHANGED <<handles, desc, walks, calls, answer, warned, bailouts>>

\* libzfs_init() returns NULL: FAILURE, and PHP offers scripts no function of
\* the module.  Whether it gives up then or starts the module again is open.
ModuleStartFails ==
  /\ ~ loaded
  /\ g_zfs' = "null"
  /\ UNCHANGED <<loaded, handles, desc, walks, calls, answer, warned, bailouts>>

\* Slip: libzfs_fini() is called whatever g_zfs is.
ModuleShutdownUnchecked ==
  /\ \A t \in Threads : calls[t] = <<>>
  /\ handles' = handles - 1
  /\ g_zfs' = "null"
  /\ loaded' = FALSE
  /\ desc' = None
  /\ walks' = 0
  /\ UNCHANGED <<calls, answer, warned, bailouts>>

\* Slip: the handle is ended with a request, whoever else is using it.
ModuleShutdownWithRequest ==
  /\ \E t \in Threads : calls[t] = <<>>
  /\ handles' = IF g_zfs = "open" THEN handles - 1 ELSE handles
  /\ g_zfs' = "null"
  /\ loaded' = FALSE
  /\ desc' = None
  /\ walks' = 0
  /\ UNCHANGED <<calls, answer, warned, bailouts>>

\* PHP stops a module when no script is running, one that could not start
\* included.  libzfs_fini() ends the handle, and what it held with it.
ModuleShutdown ==
  /\ \A t \in Threads : calls[t] = <<>>
  /\ handles' = IF g_zfs = "open" THEN handles - 1 ELSE handles
  /\ g_zfs' = "null"
  /\ loaded' = FALSE
  /\ desc' = None
  /\ walks' = 0
  /\ UNCHANGED <<calls, answer, warned, bailouts>>
-----------------------------------------------------------------------------
(***************************************************************************)
(* PHP_FUNCTION(zfs_list), PHP_FUNCTION(zpool_list) and what they call.    *)
(***************************************************************************)

Depth(t)  == Len(calls[t])
Top(t)    == calls[t][Depth(t)]
Return(t) == calls' = [calls EXCEPT ![t] = SubSeq(@, 1, Len(@) - 1)]

SetTop(t, c) == calls' = [calls EXCEPT ![t][Depth(t)] = c]

InTop(t, pc) == calls[t] # <<>> /\ Top(t).pc = pc

\* A script may call: it is running, or its error handler is.
MayCall(t) ==
  /\ loaded
  /\ calls[t] # <<>> => Top(t).pc = "report"
  /\ Depth(t) < MaxDepth

\* The first call of a thread is the one the script waits for.
Outermost(t) ==
  /\ answer' = IF calls[t] = <<>> THEN [answer EXCEPT ![t] = "none"] ELSE answer
  /\ warned' = IF calls[t] = <<>> THEN [warned EXCEPT ![t] = FALSE] ELSE warned

\* zend_parse_parameters_none() fails: PHP complains of the arguments, RETURN_FALSE.
Misuse(t) ==
  /\ MayCall(t)
  /\ IF calls[t] = <<>> THEN /\ answer' = [answer EXCEPT ![t] = "false"]
                             /\ warned' = [warned EXCEPT ![t] = TRUE]
                        ELSE UNCHANGED <<answer, warned>>
  /\ UNCHANGED <<handleVars, desc, walks, calls, bailouts>>

Loads(fn) == fn = "zfs_list" \/ walks = 0

\* Every list held is lost: the pools have changed and the list is loaded anew.
Replaced ==
  [t \in Threads |->
    [i \in 1 .. Len(calls[t]) |->
      IF calls[t][i].list = "held" THEN [calls[t][i] EXCEPT !.list = "lost"]
                                   ELSE calls[t][i]]]

NewCall(fn, pc, list) == [fn |-> fn, pc |-> pc, list |-> list, buffer |-> None]

\* get_libzfs_handle(), array_init() and the iterator begins.
Begin(t, fn) ==
  /\ MayCall(t)
  /\ \E others \in {calls} \cup (IF Loads(fn) THEN {Replaced} ELSE {}) :
       calls' = [others EXCEPT ![t] = Append(@, NewCall(fn, "walk", "held"))]
  /\ walks' = IF fn = "zpool_list" THEN walks + 1 ELSE walks
  /\ Outermost(t)
  /\ UNCHANGED <<handleVars, desc, bailouts>>

\* The list cannot be loaded: the iterator returns nonzero at once.
BeginFails(t, fn) ==
  /\ MayCall(t)
  /\ Loads(fn)
  /\ calls' = [calls EXCEPT ![t] = Append(@, NewCall(fn, "failed", "none"))]
  /\ desc' = Error(t, Depth(t) + 1, "walk")
  /\ Outermost(t)
  /\ UNCHANGED <<handleVars, walks, bailouts>>

\* Slip: the failure is reported from within zfs_list_callback().
ChildFailsReports(t) ==
  /\ InTop(t, "walk")
  /\ Top(t).fn = "zfs_list"
  /\ desc' = Error(t, Depth(t), "child")
  /\ SetTop(t, [Top(t) EXCEPT !.pc = "report", !.buffer = desc'])
  /\ UNCHANGED <<handleVars, walks, answer, warned, bailouts>>

\* zfs_iter_children() fails inside the walk; zfs_list_callback() goes on.
ChildFails(t) ==
  /\ InTop(t, "walk")
  /\ Top(t).fn = "zfs_list"
  /\ desc' = Error(t, Depth(t), "child")
  /\ UNCHANGED <<handleVars, walks, calls, answer, warned, bailouts>>

Uncounted(t) == IF Top(t).fn = "zpool_list" THEN walks - 1 ELSE walks

\* The iterator returns nonzero; it has described why.
WalkFails(t) ==
  /\ InTop(t, "walk")
  /\ desc' = Error(t, Depth(t), "walk")
  /\ SetTop(t, [Top(t) EXCEPT !.pc = "failed", !.list = "none"])
  /\ walks' = Uncounted(t)
  /\ UNCHANGED <<handleVars, answer, warned, bailouts>>

\* The iterator returns 0, and the call the array.
WalkDone(t) ==
  /\ InTop(t, "walk")
  /\ Return(t)
  /\ walks' = Uncounted(t)
  /\ answer' = IF Depth(t) = 1 THEN [answer EXCEPT ![t] = "array"] ELSE answer
  /\ UNCHANGED <<handleVars, desc, warned, bailouts>>

\* Slip: php_zfs_error() has a static buffer.
DescribeStatic(t) ==
  /\ InTop(t, "failed")
  /\ calls' = [calls EXCEPT ![t] = [i \in 1 .. Len(@) |->
                 [@[i] EXCEPT !.pc = "report", !.buffer = desc]]]
  /\ warned' = IF Depth(t) = 1 THEN [warned EXCEPT ![t] = TRUE] ELSE warned
  /\ UNCHANGED <<handleVars, desc, walks, answer, bailouts>>

\* Slip: nothing is reported; the call only prepares to return.
DescribeNothing(t) ==
  /\ InTop(t, "failed")
  /\ SetTop(t, [Top(t) EXCEPT !.pc = "report", !.buffer = desc])
  /\ UNCHANGED <<handleVars, desc, walks, answer, warned, bailouts>>

\* php_zfs_error(): the handle's description goes into a local buffer, and the
\* buffer to php_error_docref().
Describe(t) ==
  /\ InTop(t, "failed")
  /\ SetTop(t, [Top(t) EXCEPT !.pc = "report", !.buffer = desc])
  /\ warned' = IF Depth(t) = 1 THEN [warned EXCEPT ![t] = TRUE] ELSE warned
  /\ UNCHANGED <<handleVars, desc, walks, answer, bailouts>>

\* php_error_docref() returns; zval_dtor() and RETURN_FALSE.
ReturnFalse(t) ==
  /\ InTop(t, "report")
  /\ Return(t)
  /\ answer' = IF Depth(t) = 1 THEN [answer EXCEPT ![t] = "false"] ELSE answer
  /\ UNCHANGED <<handleVars, desc, walks, warned, bailouts>>

\* A row, or what the error handler does, does not fit the memory limit: PHP
\* abandons the request, with it the calls in progress on its thread, and with
\* them the walk of the innermost, which is never counted out.
Bailout(t) ==
  /\ \/ InTop(t, "walk") /\ bailouts < MaxBailouts /\ bailouts' = bailouts + 1
     \/ InTop(t, "report") /\ UNCHANGED bailouts
  /\ calls' = [calls EXCEPT ![t] = <<>>]
  /\ UNCHANGED <<handleVars, desc, walks, answer, warned>>
-----------------------------------------------------------------------------
Module == ModuleStart \/ ModuleStartFails \/ ModuleShutdown

Next ==
  \/ Module
  \/ \E t \in Threads :
       \/ Misuse(t)
       \/ \E fn \in PhpFunctions : Begin(t, fn) \/ BeginFails(t, fn)
       \/ ChildFails(t)
       \/ WalkFails(t)
       \/ WalkDone(t)
       \/ Describe(t)
       \/ ReturnFalse(t)
       \/ Bailout(t)

Spec == Init /\ [][Next]_vars
-----------------------------------------------------------------------------
(***************************************************************************)
(* Properties.                                                             *)
(***************************************************************************)

\* A call finds the handle open, which is why no call ever takes the way out
\* for a NULL handle (zfs.c:126); and however often the module is started, in
\* vain or not, and shut down, no handle is left behind (zfs.c:56-75).
HandleLive ==
  /\ \A t \in Threads : calls[t] # <<>> => g_zfs = "open"
  /\ handles = IF g_zfs = "open" THEN 1 ELSE 0

\* The list of pools an iteration walks is not replaced under it, although an
\* error handler may begin a walk of its own inside a call: a call warns only
\* when its iteration is over (zfs_list.c:122-127, zpool_list.c:182-186).  It
\* is a property of one thread: two threads share the handle and no lock.
WalkedListIntact ==
  \A t \in Threads : \A i \in 1 .. Depth(t) : calls[t][i].list # "lost"

\* "PHP warnings will be generated with error details" (README.md:133): the
\* details in a call's warning are of that call's own failed walk, and stay so
\* while calls of the error handler fail in turn (zfs.c:104-114).
OwnDetails ==
  \A t \in Threads : \A i \in 1 .. Depth(t) :
    calls[t][i].pc = "report" => calls[t][i].buffer = Error(t, i, "walk")

\* The threads that are in zpool_iter().
Walkers == {t \in Threads : InTop(t, "walk") /\ Top(t).fn = "zpool_list"}

\* The handle counts every walk of zpool_iter() that is in progress, on whatever
\* thread, and beyond them none but walks that were aborted.  So a zpool_list()
\* that begins has its list loaded afresh unless another is walking it or one
\* was once aborted, and never while another is (zpool_list.c:182, zfs.c:69).
WalksCounted ==
  /\ Cardinality(Walkers) <= walks
  /\ walks <= Cardinality(Walkers) + bailouts

\* On every thread the outermost call keeps the contract of ListCall, whatever
\* the calls of its error handler and of other threads do.
Outer(t) == INSTANCE ListCall WITH
              phase  <- IF calls[t] = <<>> THEN "idle" ELSE "busy",
              answer <- answer[t],
              warned <- warned[t]

Contract ==
  /\ \A t \in Threads : Outer(t)!Init
  /\ [][\A t \in Threads : [Outer(t)!Next]_(Outer(t)!callVars)]_vars
-----------------------------------------------------------------------------
(***************************************************************************)
(* The inductive invariant behind the properties (ZfsExtProofs).           *)
(***************************************************************************)

\* Only the innermost call of a thread is not yet reporting, and only a call
\* that walks holds a list.
OnlyTopWalks ==
  \A t \in Threads : \A i \in 1 .. Depth(t) :
    /\ i < Depth(t) => calls[t][i].pc = "report"
    /\ calls[t][i].list = "none" <=> calls[t][i].pc # "walk"

\* The functions are there when the handle is, and calls when the functions are.
Lifecycle ==
  /\ loaded <=> g_zfs = "open"
  /\ \A t \in Threads : calls[t] # <<>> => loaded
  /\ handles = IF g_zfs = "open" THEN 1 ELSE 0

\* No answer before the outermost call is over; its warning is what it reports.
AnswerPending ==
  \A t \in Threads :
    calls[t] # <<>> =>
      answer[t] = "none" /\ (warned[t] <=> calls[t][1].pc = "report")

\* Of one thread: from a failed walk to its report nobody writes to the handle.
FailureDescribed ==
  \A t \in Threads : InTop(t, "failed") => desc = Error(t, Depth(t), "walk")

IInv == OnlyTopWalks /\ Lifecycle /\ AnswerPending
=============================================================================
