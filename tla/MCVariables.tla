------------------------------ MODULE MCVariables -----------------------------
(* Small programs: see the bounds in the configurations. *)
EXTENDS Variables
===============================================================================
