------------------------------ MODULE MCExplorer ------------------------------
(***************************************************************************)
(* Model-checking instance of Explorer and of the Screen drawn from it.  A *)
(* block of two transactions; one is listed in the mempool too and has     *)
(* inputs to follow.                                                       *)
(***************************************************************************)
EXTENDS Screen

MCTxid == {"a", "b"}
MCPool == {"a"}
MCBlockTxs == <<<<"a", "b">>>>
MCHitLists == {<<"a", "b">>, <<"b">>}
MCInputs == [t \in MCTxid |-> IF t = "b" THEN 0 ELSE 1]

=============================================================================
