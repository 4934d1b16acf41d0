-------------------------------- MODULE MCSeeder --------------------------------
(***************************************************************************)
(* Two incoming connections for one regular slot, and a file of one piece; two  *)
(* blocks at most go to each connection.                                       *)
(***************************************************************************)
EXTENDS Seeder, TLC

ConnSymmetry == Permutations(Conn)
================================================================================
