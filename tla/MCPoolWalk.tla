----------------------------- MODULE MCPoolWalk ------------------------------
(***************************************************************************)
(* Three pools: with two listed and one being visited, or two ahead, or    *)
(* one imported behind the walk's back.                                    *)
(***************************************************************************)
EXTENDS PoolWalk, TLC

MCPools == {"dozer", "tank", "zroot"}
MCPos   == "dozer" :> 1 @@ "tank" :> 2 @@ "zroot" :> 3
=============================================================================
