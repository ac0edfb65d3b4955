---------------------------- MODULE MCPipeline ----------------------------
(***************************************************************************)
(* A small remote for TLC: three keys, a fourth code to map to, three      *)
(* button maps (none, one that sends two keys to one code, one that swaps  *)
(* two keys), dyadic scroll speeds around one click.                       *)
(***************************************************************************)
EXTENDS Pipeline, TLC

CONSTANTS k1, k2, k3, v1

MCKeys == {k1, k2, k3}
MCCodes == {k1, k2, k3, v1}
MCMaps == { << >>, k1 :> v1 @@ k2 :> v1, k1 :> k2 @@ k2 :> k1 }
MCSpeeds == {0, 3, 5}
MCDetents == {-1, 0, 2}
=============================================================================
