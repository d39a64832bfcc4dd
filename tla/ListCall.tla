------------------------------ MODULE ListCall ------------------------------
(***************************************************************************)
(* What a PHP script is promised by one call of zfs_list() or              *)
(* zpool_list(), whatever the library does underneath: the call answers    *)
(* with an array and no warning, or raises exactly one warning and then    *)
(* answers false.  The third way out is a fatal error of the PHP engine    *)
(* (the request's memory limit), which unwinds the whole request and       *)
(* leaves no answer at all.                                                *)
(*                                                                         *)
(* DatasetWalk, PoolWalk and ZfsExt are shown to implement this module.    *)
(***************************************************************************)

VARIABLES
  phase,   \* "idle" between calls, "busy" while the C function runs
  answer,  \* what the last finished call returned; "none" until it does
  warned   \* the current (or last) call has raised its warning, or PHP for it

callVars == <<phase, answer, warned>>

TypeOK ==
  /\ phase \in {"idle", "busy"}
  /\ answer \in {"none", "array", "false"}
  /\ warned \in BOOLEAN

Init == phase = "idle" /\ answer = "none" /\ warned = FALSE

\* PHP_FUNCTION(zfs_list) or PHP_FUNCTION(zpool_list) is entered.
Begin ==
  /\ phase = "idle"
  /\ phase' = "busy" /\ answer' = "none" /\ warned' = FALSE

\* php_zfs_error() raises the E_WARNING of a failed call, once.
Warn ==
  /\ phase = "busy" /\ ~warned
  /\ warned' = TRUE
  /\ UNCHANGED <<phase, answer>>

\* The array is handed to the script; no warning was raised for it.
ReturnArray ==
  /\ phase = "busy" /\ ~warned
  /\ phase' = "idle" /\ answer' = "array"
  /\ UNCHANGED warned

\* RETURN_FALSE, never silently: the warning came first.
ReturnFalse ==
  /\ phase = "busy" /\ warned
  /\ phase' = "idle" /\ answer' = "false"
  /\ UNCHANGED warned

\* The engine abandons the request from inside the call, or from inside the
\* error handler the call's warning is given to.
Abandon ==
  /\ phase = "busy"
  /\ phase' = "idle"
  /\ UNCHANGED <<answer, warned>>

\* Called with arguments, which it does not take: PHP complains, and the call is
\* over before it did anything.
Misuse ==
  /\ phase = "idle"
  /\ answer' = "false" /\ warned' = TRUE
  /\ UNCHANGED phase

Next == Misuse \/ Begin \/ Warn \/ ReturnArray \/ ReturnFalse \/ Abandon

Spec == Init /\ [][Next]_callVars

\* Every call that was entered comes back.
FairSpec == Spec /\ WF_callVars(Warn \/ ReturnArray \/ ReturnFalse \/ Abandon)
=============================================================================
