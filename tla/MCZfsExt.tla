------------------------------ MODULE MCZfsExt -------------------------------
(***************************************************************************)
(* The constants are given by the configurations: one thread whose calls   *)
(* nest three deep, or two threads.                                        *)
(***************************************************************************)
EXTENDS ZfsExt

CONSTANTS t1, t2
=============================================================================
