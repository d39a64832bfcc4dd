--------------------------- MODULE MCDatasetList ----------------------------
(***************************************************************************)
(* A pool whose root dataset has a snapshot, iterated first, and a child   *)
(* volume.  The first read of a row may fail, when the buffer holds what   *)
(* the stack does, and the last, when it holds a value of the row.         *)
(***************************************************************************)
EXTENDS DatasetList, TLC

MCDatasets   == {"tank", "tank@s", "tank/v"}
MCTypeOf     == "tank" :> "FILESYSTEM" @@ "tank@s" :> "SNAPSHOT" @@ "tank/v" :> "VOLUME"
MCUnreadable == {"used", "compressratio"}
MCParent     == [d \in MCDatasets |-> IF d = "tank" THEN Root ELSE "tank"]
MCDepth      == [d \in MCDatasets |-> IF d = "tank" THEN 1 ELSE 2]
MCPos        == "tank" :> 1 @@ "tank@s" :> 1 @@ "tank/v" :> 2
=============================================================================
