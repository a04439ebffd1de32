------------------------------ MODULE BlockRing ------------------------------
(***************************************************************************)
(* The block tail of the explorer as the App keeps it: a deque of rows,    *)
(* newest at the front, and the cadence clock that chain health is read    *)
(* from.  Written from insert_block, push_block_time and the Reorg arm of  *)
(* apply in tools/tui/src/app.rs.                                          *)
(*                                                                         *)
(* A fill, a reorg refetch and a block search all insert through the same  *)
(* function, so a block may arrive at any height, more than once, with a   *)
(* time older than the newest row's.                                       *)
(***************************************************************************)
EXTENDS Integers, Sequences, SequencesExt

CONSTANTS
  Block,          \* the compact blocks an indexer can hand over
  MaxBlocks,      \* MAX_BLOCKS, the rows the tail keeps
  MaxBlockTimes,  \* MAX_BLOCK_TIMES, the times the cadence clock keeps
  MaxInserts      \* bound on the insertions of one behaviour

ASSUME RingAssumption ==
  /\ \A b \in Block : b.height \in Nat /\ b.time \in Nat
  /\ MaxBlocks \in Nat \ {0}
  /\ MaxBlockTimes \in Nat \ {0}

VARIABLES
  blocks,         \* the rows, newest first
  nextBlockSeq,   \* the seq insert_block assigns next
  blockTimes      \* recent block times, newest last

ringVars == <<blocks, nextBlockSeq, blockTimes>>

Row == [block : Block, seq : Nat, reorged : BOOLEAN]

\* The type of the tail; both deques stay within their caps.
RingTypeOK ==
  /\ blocks \in Seq(Row)
  /\ Len(blocks) <= MaxBlocks
  /\ nextBlockSeq \in Nat
  /\ blockTimes \in Seq(Nat)
  /\ Len(blockTimes) <= MaxBlockTimes

-----------------------------------------------------------------------------
(* The deque arithmetic of insert_block.  Positions count from 1.  An      *)
(* operator whose name starts with Bug is a slip one could make in the one *)
(* after it; no specification uses it.                                     *)

BugInsertPos(s, h) ==
  LET i == SelectInSeq(s, LAMBDA r : r.block.height < h)
  IN  IF i = 0 THEN Len(s) + 1 ELSE i

\* The first row that is no higher than h, or one past the end.
InsertPos(s, h) ==
  LET i == SelectInSeq(s, LAMBDA r : r.block.height <= h)
  IN  IF i = 0 THEN Len(s) + 1 ELSE i

BugLivePos(s, h) == SelectInSeq(s, LAMBDA r : r.block.height = h)

\* The live row of height h, or 0.
LivePos(s, h) == SelectInSeq(s, LAMBDA r : r.block.height = h /\ ~r.reorged)

BugDropLive(s, h) == s

\* s without its live row of height h: the idempotent re-fill.
DropLive(s, h) ==
  LET i == LivePos(s, h)
  IN  IF i = 0 THEN s ELSE RemoveAt(s, i)

\* s with the row inserted.  The position is found before the live row of the
\* same height is dropped, so it is capped to the deque that is left.
Place(s, row) ==
  LET pos  == InsertPos(s, row.block.height)
      kept == DropLive(s, row.block.height)
  IN  InsertAt(kept, IF pos <= Len(kept) THEN pos ELSE Len(kept) + 1, row)

BugTruncate(s) == s

Truncate(s) == SubSeq(s, 1, IF Len(s) <= MaxBlocks THEN Len(s) ELSE MaxBlocks)

\* push_block_time: append, then drop from the front down to the cap.
PushTime(times, t) ==
  LET all == Append(times, t)
  IN  SubSeq(all, IF Len(all) <= MaxBlockTimes THEN 1 ELSE Len(all) - MaxBlockTimes + 1,
             Len(all))

BugFeedClock(times, t) == PushTime(times, t)

\* The clock is fed unless the block is older than the newest time it holds.
FeedClock(times, t) ==
  IF times = <<>> \/ t >= times[Len(times)] THEN PushTime(times, t) ELSE times

-----------------------------------------------------------------------------
InsertBlock(b) ==
  /\ nextBlockSeq' = nextBlockSeq + 1
  /\ blockTimes' = FeedClock(blockTimes, b.time)
  /\ blocks' = Truncate(Place(blocks, [block |-> b, seq |-> nextBlockSeq, reorged |-> FALSE]))

\* Update::Reorg: rows at or above the height are dimmed, none is dropped.
MarkReorged(at) ==
  /\ blocks' = [i \in DOMAIN blocks |->
                  [blocks[i] EXCEPT !.reorged = @ \/ blocks[i].block.height >= at]]
  /\ UNCHANGED <<nextBlockSeq, blockTimes>>

RingInit ==
  /\ blocks = <<>>
  /\ nextBlockSeq = 0
  /\ blockTimes = <<>>

RingNext ==
  \/ \E b \in Block : nextBlockSeq < MaxInserts /\ InsertBlock(b)
  \/ \E b \in Block : MarkReorged(b.height)

RingSpec == RingInit /\ [][RingNext]_ringVars

-----------------------------------------------------------------------------
(* Properties                                                              *)

\* The tail reads newest first whatever order blocks arrive in: heights never
\* rise going down the list, and of two rows of one height the one inserted
\* later, the one on the current chain, is above.  insert_block finds its
\* position before it removes the row it replaces, so this is not a given.
NewestFirst ==
  \A i, j \in 1..Len(blocks) : i < j =>
    \/ blocks[i].block.height > blocks[j].block.height
    \/ /\ blocks[i].block.height = blocks[j].block.height
       /\ blocks[i].seq > blocks[j].seq

\* A height shows at most one block of the current chain; every other row of
\* that height is dimmed.  A search, a fill and a refetch may all bring the
\* same height.
OneLivePerHeight ==
  \A i, j \in 1..Len(blocks) :
    (/\ blocks[i].block.height = blocks[j].block.height
     /\ ~blocks[i].reorged
     /\ ~blocks[j].reorged) => i = j

\* The seq a selection binds to is never reused by a later row.
SeqsBelowNext == \A i \in 1..Len(blocks) : blocks[i].seq < nextBlockSeq

\* A backfilled, searched or reorged older block never puts a negative
\* interval into the cadence clock.
ClockNeverRunsBack ==
  \A i, j \in 1..Len(blockTimes) : i < j => blockTimes[i] <= blockTimes[j]

Window == INSTANCE BlockWindow WITH rows <- Range(blocks), nextSeq <- nextBlockSeq

\* The deque implements the set-based window: whatever the positions do, an
\* insertion replaces the current row of its height, gives up the oldest row
\* when the window is full and loses no other, and a reorg drops none.
ImplementsWindow == Window!WindowSpec

=============================================================================
