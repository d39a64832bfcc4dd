--------------------------- MODULE MCSharedHandle ---------------------------
(***************************************************************************)
(* One pool, which comes and goes, with one child: each walk can fail      *)
(* before the pool, at it and, for zfs_list(), inside it.                  *)
(***************************************************************************)
EXTENDS SharedHandle

MCNames  == {"tank", "tank/a"}
MCParent == [n \in MCNames |-> IF n = "tank" THEN Root ELSE "tank"]
MCLevel  == [n \in MCNames |-> IF n = "tank" THEN 1 ELSE 2]
MCKind   == [n \in MCNames |-> "filesystem"]
MCPos    == [n \in MCNames |-> 1]
=============================================================================
