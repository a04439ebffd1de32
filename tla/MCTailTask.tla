------------------------------ MODULE MCTailTask ------------------------------
(* Model-checking instance of TailTask: the windows of the code, scaled down. *)
EXTENDS TailTask
=============================================================================
