---------------------------- MODULE MCGracefulStop ----------------------------
(***************************************************************************)
(* An instance of GracefulStop for TLC.                                    *)
(***************************************************************************)
EXTENDS GracefulStop

CONSTANTS t1, t2, t3, c1, c2
=============================================================================
