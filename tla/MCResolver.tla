------------------------------ MODULE MCResolver ------------------------------
(***************************************************************************)
(* Model-checking instance of Resolver.  A mempool parent p, a child that  *)
(* spends it and a confirmed funder f, and a second spender d of f.        *)
(***************************************************************************)
EXTENDS Resolver

MCTxid == {"p", "c", "d", "f"}
MCPool == {"p", "c", "d"}
MCConfirmed == {"f"}

Out(t, i) == [txid |-> t, index |-> i]

MCVouts == [t \in MCTxid |-> CASE t = "p" -> <<5>> [] t = "f" -> <<3, 4>> [] OTHER -> <<>>]
MCPrevouts ==
  [t \in MCTxid |-> CASE t = "c" -> <<Out("p", 1), Out("f", 1)>>
                      [] t = "d" -> <<Out("f", 2)>>
                      [] OTHER   -> <<>>]
MCFeeBase == [t \in MCTxid |-> 0 - 2]

\* Where only c has inputs to follow, in each cycle anew.
MCOneChild == [MCPrevouts EXCEPT !["d"] = <<>>]

=============================================================================
