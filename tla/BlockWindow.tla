---------------------------- MODULE BlockWindow ----------------------------
(***************************************************************************)
(* What the explorer's block tail promises, without positions.  The tail   *)
(* is a SET of rows.  Inserting a block takes the live row of its height   *)
(* away, adds a fresh row, and when the window overflows gives up the      *)
(* oldest row.  A reorg dims rows and never drops one.                     *)
(*                                                                         *)
(* BlockRing, which is written from the deque arithmetic of insert_block,  *)
(* implements this specification.                                          *)
(***************************************************************************)
EXTENDS Integers, FiniteSets

CONSTANTS
  Block,       \* the compact blocks an indexer can hand over
  MaxBlocks    \* how many rows the window keeps

VARIABLES
  rows,        \* the rows in the window
  nextSeq      \* the seq the next inserted row gets

windowVars == <<rows, nextSeq>>

\* Newest first: the higher block, and of two rows of a height the later one.
Newer(r, s) ==
  \/ r.block.height > s.block.height
  \/ r.block.height = s.block.height /\ r.seq > s.seq

Oldest(S) == CHOOSE r \in S : \A s \in S \ {r} : Newer(s, r)

WindowInit == rows = {} /\ nextSeq = 0

Insert(b) ==
  LET new  == [block |-> b, seq |-> nextSeq, reorged |-> FALSE]
      kept == {r \in rows : r.block.height = b.height => r.reorged}
      all  == kept \union {new}
  IN  /\ rows' = IF Cardinality(all) > MaxBlocks THEN all \ {Oldest(all)} ELSE all
      /\ nextSeq' = nextSeq + 1

Dim(at) ==
  /\ rows' = {[r EXCEPT !.reorged = @ \/ r.block.height >= at] : r \in rows}
  /\ UNCHANGED nextSeq

WindowNext ==
  \/ \E b \in Block : Insert(b)
  \/ \E b \in Block : Dim(b.height)

WindowSpec == WindowInit /\ [][WindowNext]_windowVars

=============================================================================
