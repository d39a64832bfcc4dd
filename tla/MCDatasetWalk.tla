--------------------------- MODULE MCDatasetWalk ----------------------------
(***************************************************************************)
(* Two trees of datasets for TLC, one per configuration.                   *)
(***************************************************************************)
EXTENDS DatasetWalk, TLC

(***************************************************************************)
(* Two pools, one of them three levels deep with siblings below the first: *)
(* a filesystem with a snapshot, and after it a volume.                    *)
(***************************************************************************)
MCNames == {"tank", "tank/a", "tank/a@s", "tank/v", "dozer"}

MCParent ==
  "tank" :> Root @@ "dozer" :> Root @@ "tank/a" :> "tank"
  @@ "tank/v" :> "tank" @@ "tank/a@s" :> "tank/a"

MCDepth ==
  "tank" :> 1 @@ "dozer" :> 1 @@ "tank/a" :> 2 @@ "tank/v" :> 2 @@ "tank/a@s" :> 3

MCKind ==
  "tank" :> "filesystem" @@ "dozer" :> "filesystem" @@ "tank/a" :> "filesystem"
  @@ "tank/v" :> "volume" @@ "tank/a@s" :> "snapshot"

MCPos ==
  "tank" :> 1 @@ "dozer" :> 2 @@ "tank/a" :> 1 @@ "tank/v" :> 2 @@ "tank/a@s" :> 1

(***************************************************************************)
(* One pool whose root dataset has a snapshot, iterated first, a child     *)
(* filesystem and a bookmark.                                              *)
(***************************************************************************)
OneNames  == {"tank", "tank@s", "tank/a", "tank#b"}
OneParent == [n \in OneNames |-> IF n = "tank" THEN Root ELSE "tank"]
OneDepth  == [n \in OneNames |-> IF n = "tank" THEN 1 ELSE 2]
OneKind   ==
  "tank" :> "filesystem" @@ "tank@s" :> "snapshot" @@ "tank/a" :> "filesystem"
  @@ "tank#b" :> "bookmark"
OnePos    == "tank" :> 1 @@ "tank@s" :> 1 @@ "tank/a" :> 2 @@ "tank#b" :> 3
=============================================================================
