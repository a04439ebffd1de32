--------------------------- MODULE DashboardProofs ---------------------------
(***************************************************************************)
(* Proofs about the explorer's lists: the highlight of the tail stays on   *)
(* the block the user put it on, and "stalled" is never shown over a       *)
(* recent block, for every window size, clock size and set of blocks.      *)
(*                                                                         *)
(* The argument: a seq is given to one row only, so that every row which   *)
(* carries the highlighted seq carries the picked block (SeqNamesBlock,    *)
(* HighlightKept), and every row that enters the tail feeds the cadence    *)
(* clock, which refuses it only when it already holds a newer time         *)
(* (ClockCoversRows).                                                      *)
(***************************************************************************)
EXTENDS Dashboard, BlockRingProofs

DashSpec == DashInit /\ [][DashNext]_dashVars

\* A seq names one block, even when a row is dimmed or moved.
SeqNamesBlock ==
  \A i, j \in 1..Len(blocks) : blocks[i].seq = blocks[j].seq => blocks[i].block = blocks[j].block

\* The highlight names no row still to come, and only rows of the picked block.
HighlightKept ==
  /\ selectedBlock \in Int /\ selectedBlock < nextBlockSeq
  /\ \A i \in 1..Len(blocks) : blocks[i].seq = selectedBlock => blocks[i].block = picked

\* The newest time of the clock is no older than any row.
ClockCoversRows ==
  \A i \in 1..Len(blocks) :
    blockTimes # <<>> /\ blocks[i].block.time <= blockTimes[Len(blockTimes)]

DashInv ==
  /\ RingInv
  /\ SeqNamesBlock
  /\ HighlightKept
  /\ ClockCoversRows

-----------------------------------------------------------------------------
(* The clock.                                                              *)

\* An insertion leaves the clock no older than the block, and never older than
\* it was.
LEMMA InsertFeedsClock ==
  ASSUME RingAssumption, RingInv, NEW b \in Block, InsertBlock(b)
  PROVE  /\ blockTimes' # <<>> /\ blockTimes'[Len(blockTimes')] \in Nat
         /\ b.time <= blockTimes'[Len(blockTimes')]
         /\ blockTimes # <<>> =>
              /\ blockTimes[Len(blockTimes)] \in Nat
              /\ blockTimes[Len(blockTimes)] <= blockTimes'[Len(blockTimes')]
<1> DEFINE all == Append(blockTimes, b.time)
           lo == IF Len(all) <= MaxBlockTimes THEN 1 ELSE Len(all) - MaxBlockTimes + 1
<1>1. /\ blockTimes \in Seq(Nat) /\ Len(blockTimes) \in Nat /\ b.time \in Nat
      /\ \A k \in 1..Len(blockTimes) : blockTimes[k] \in Nat
      /\ MaxBlockTimes \in Nat \ {0}
  BY LenProperties, ElementOfSeq DEF RingInv, RingTypeOK, RingAssumption
<1>2. blockTimes # <<>> => blockTimes[Len(blockTimes)] \in Nat
  BY <1>1, EmptySeq
<1>3. CASE ~(blockTimes = <<>> \/ b.time >= blockTimes[Len(blockTimes)])
  <2>1. blockTimes' = blockTimes
    BY <1>3 DEF InsertBlock, FeedClock
  <2> QED
    BY <1>1, <1>2, <1>3, <2>1
<1>4. CASE blockTimes = <<>> \/ b.time >= blockTimes[Len(blockTimes)]
  <2>1. blockTimes' = SubSeq(all, lo, Len(all))
    BY <1>4 DEF InsertBlock, FeedClock, PushTime
  <2>2. /\ all \in Seq(Nat) /\ Len(all) = Len(blockTimes) + 1
        /\ all[Len(all)] = b.time
        /\ \A k \in 1..Len(all) : all[k] \in Nat
    BY <1>1, AppendProperties, ElementOfSeq
  <2> HIDE DEF all
  <2>3. lo \in 1..Len(all)
    BY <1>1, <2>2
  <2> HIDE DEF lo
  <2>4. /\ SubSeq(all, lo, Len(all)) \in Seq(Nat)
        /\ Len(SubSeq(all, lo, Len(all))) = Len(all) - lo + 1
        /\ \A k \in 1..(Len(all) - lo + 1) : SubSeq(all, lo, Len(all))[k] = all[lo + k - 1]
    <3>1. \A k \in lo..Len(all) : all[k] \in Nat
      BY <2>2, <2>3
    <3> QED
      BY <1>1, <2>2, <2>3, <3>1, SubSeqProperties
  <2>5. Len(blockTimes') = Len(all) - lo + 1 /\ Len(all) - lo + 1 \in 1..(Len(all) - lo + 1)
    BY <1>1, <2>1, <2>2, <2>3, <2>4
  <2>6. blockTimes'[Len(blockTimes')] = all[lo + (Len(all) - lo + 1) - 1]
    BY <2>1, <2>4, <2>5
  <2>7. lo + (Len(all) - lo + 1) - 1 = Len(all)
    BY <1>1, <2>2, <2>3
  <2>8. blockTimes'[Len(blockTimes')] = b.time
    BY <2>2, <2>6, <2>7
  <2>9. blockTimes' # <<>>
    <3>1. Len(blockTimes') >= 1
      BY <1>1, <2>2, <2>3, <2>5
    <3> QED
      BY <3>1
  <2> QED
    BY <1>1, <1>2, <1>4, <2>8, <2>9
<1> QED
  BY <1>3, <1>4

-----------------------------------------------------------------------------
(* Where a highlight stands.                                               *)

\* IndexOf finds a row of the seq if there is one.
LEMMA IndexOfShape ==
  ASSUME NEW S, NEW s \in Seq(S), NEW seq
  PROVE  /\ IndexOf(s, seq) \in 0..Len(s)
         /\ IndexOf(s, seq) # 0 => s[IndexOf(s, seq)].seq = seq
         /\ IndexOf(s, seq) = 0 => \A k \in 1..Len(s) : s[k].seq # seq
<1> DEFINE I == {i \in 1..Len(s) : s[i].seq = seq}
<1>0. Len(s) \in Nat
  BY LenProperties
<1>1. IndexOf(s, seq) = IF I # {} THEN Min(I) ELSE 0
  BY DEF IndexOf, SelectInSeq
<1>2. I \in SUBSET Nat
  BY <1>0
<1>3. CASE I = {}
  BY <1>0, <1>1, <1>3
<1>4. CASE I # {}
  <2>1. Min(I) \in I
    BY <1>2, <1>4, MinIsLeast
  <2> QED
    BY <1>0, <1>1, <1>4, <2>1
<1> QED
  BY <1>3, <1>4

\* A step of a highlight ends on a row, unless there is none.
LEMMA MovedIsRow ==
  ASSUME NEW S, NEW s \in Seq(S), s # <<>>, NEW seq, NEW delta \in {-1, 1}
  PROVE  \E k \in 1..Len(s) : Moved(s, seq, delta) = s[k].seq
<1> DEFINE i == IndexOf(s, seq)
<1>1. i \in 0..Len(s) /\ Len(s) \in Nat /\ Len(s) >= 1
  BY IndexOfShape, EmptySeq, LenProperties
<1> HIDE DEF i
<1>2. CASE i = 0 \/ i + delta < 1
  <2>1. Moved(s, seq, delta) = s[1].seq
    BY <1>1, <1>2 DEF Moved, i
  <2> QED
    BY <1>1, <2>1
<1>3. CASE ~(i = 0 \/ i + delta < 1) /\ i + delta > Len(s)
  <2>1. Moved(s, seq, delta) = s[Len(s)].seq
    BY <1>1, <1>3 DEF Moved, i
  <2> QED
    BY <1>1, <2>1
<1>4. CASE ~(i = 0 \/ i + delta < 1) /\ ~(i + delta > Len(s))
  <2>1. Moved(s, seq, delta) = s[i + delta].seq
    BY <1>1, <1>4 DEF Moved, i
  <2>2. i + delta \in 1..Len(s)
    BY <1>1, <1>4
  <2> QED
    BY <2>1, <2>2
<1> QED
  BY <1>2, <1>3, <1>4

-----------------------------------------------------------------------------
(* The inductive invariant.                                                *)

\* What an insertion leaves of the invariant, the highlight aside.
LEMMA InsertKeepsDash ==
  ASSUME RingAssumption, DashInv, NEW b \in Block, InsertBlock(b)
  PROVE  /\ RingInv' /\ SeqNamesBlock' /\ ClockCoversRows'
         /\ nextBlockSeq \in Nat /\ nextBlockSeq' = nextBlockSeq + 1
<1> DEFINE row == [block |-> b, seq |-> nextBlockSeq, reorged |-> FALSE]
<1>1. nextBlockSeq \in Nat /\ nextBlockSeq' = nextBlockSeq + 1 /\ RingInv
  BY DEF InsertBlock, DashInv, RingInv, RingTypeOK
<1>2. RingInv'
  BY <1>1, InsertKeepsRows, InsertKeepsClock DEF RingInv, RingTypeOK
<1>3. \A k \in 1..Len(blocks') : blocks'[k] = row \/ \E j \in 1..Len(blocks) : blocks'[k] = blocks[j]
  BY <1>1, InsertedRows
<1>4. row.block = b /\ row.seq = nextBlockSeq
  OBVIOUS
<1>5. \A j \in 1..Len(blocks) : blocks[j].seq < nextBlockSeq /\ blocks[j].seq \in Nat
                                /\ blocks[j].block \in Block
  BY RowFields DEF DashInv, RingInv, RingTypeOK, SeqsBelowNext
<1> HIDE DEF row
<1>6. SeqNamesBlock'
  <2> SUFFICES ASSUME NEW i \in 1..Len(blocks'), NEW j \in 1..Len(blocks'),
                      blocks'[i].seq = blocks'[j].seq
               PROVE  blocks'[i].block = blocks'[j].block
    BY DEF SeqNamesBlock
  <2>1. CASE blocks'[i] = row /\ blocks'[j] = row
    BY <2>1
  <2>2. CASE blocks'[i] = row /\ blocks'[j] # row
    BY <1>1, <1>3, <1>4, <1>5, <2>2
  <2>3. CASE blocks'[i] # row /\ blocks'[j] = row
    BY <1>1, <1>3, <1>4, <1>5, <2>3
  <2>4. CASE blocks'[i] # row /\ blocks'[j] # row
    <3>1. PICK p \in 1..Len(blocks), q \in 1..Len(blocks) :
            blocks'[i] = blocks[p] /\ blocks'[j] = blocks[q]
      BY <1>3, <2>4
    <3>2. blocks[p].seq = blocks[q].seq => blocks[p].block = blocks[q].block
      BY DEF DashInv, SeqNamesBlock
    <3> QED
      BY <3>1, <3>2
  <2> QED
    BY <2>1, <2>2, <2>3, <2>4
<1>7. ClockCoversRows'
  <2> SUFFICES ASSUME NEW k \in 1..Len(blocks')
               PROVE  blockTimes' # <<>> /\ blocks'[k].block.time <= blockTimes'[Len(blockTimes')]
    BY DEF ClockCoversRows
  <2>1. /\ blockTimes' # <<>> /\ blockTimes'[Len(blockTimes')] \in Nat
        /\ b.time <= blockTimes'[Len(blockTimes')]
        /\ blockTimes # <<>> => /\ blockTimes[Len(blockTimes)] \in Nat
                                /\ blockTimes[Len(blockTimes)] <= blockTimes'[Len(blockTimes')]
    BY <1>1, InsertFeedsClock
  <2>2. CASE blocks'[k] = row
    BY <1>4, <2>1, <2>2
  <2>3. CASE blocks'[k] # row
    <3>1. PICK j \in 1..Len(blocks) : blocks'[k] = blocks[j]
      BY <1>3, <2>3
    <3>2. blockTimes # <<>> /\ blocks[j].block.time <= blockTimes[Len(blockTimes)]
      BY <3>1 DEF DashInv, ClockCoversRows
    <3>3. blocks[j].block.time \in Nat
      BY <1>5 DEF RingAssumption
    <3> QED
      BY <2>1, <3>1, <3>2, <3>3
  <2> QED
    BY <2>2, <2>3
<1> QED
  BY <1>1, <1>2, <1>6, <1>7

\* A row that enters or stays never takes the seq of the highlight.
LEMMA TailUpdateKeepsDash ==
  ASSUME RingAssumption, DashInv, TailUpdate
  PROVE  DashInv'
<1>1. selectedBlock' = selectedBlock /\ picked' = picked /\ RingNext /\ RingInv
  BY DEF TailUpdate, DashInv
<1>2. ASSUME NEW b \in Block, InsertBlock(b) PROVE DashInv'
  <2>1. /\ RingInv' /\ SeqNamesBlock' /\ ClockCoversRows'
        /\ nextBlockSeq \in Nat /\ nextBlockSeq' = nextBlockSeq + 1
    BY <1>2, InsertKeepsDash
  <2>2. HighlightKept'
    <3>1. selectedBlock \in Int /\ selectedBlock < nextBlockSeq
      BY DEF DashInv, HighlightKept
    <3>2. ASSUME NEW k \in 1..Len(blocks'), blocks'[k].seq = selectedBlock
          PROVE  blocks'[k].block = picked
      <4>1. \/ blocks'[k] = [block |-> b, seq |-> nextBlockSeq, reorged |-> FALSE]
            \/ \E j \in 1..Len(blocks) : blocks'[k] = blocks[j]
        BY <1>1, <1>2, InsertedRows
      <4>2. blocks'[k].seq # nextBlockSeq
        BY <2>1, <3>1, <3>2
      <4>3. \E j \in 1..Len(blocks) : blocks'[k] = blocks[j]
        BY <4>1, <4>2
      <4> QED
        BY <3>2, <4>3 DEF DashInv, HighlightKept
    <3> QED
      BY <1>1, <2>1, <3>1, <3>2 DEF HighlightKept
  <2> QED
    BY <2>1, <2>2 DEF DashInv
<1>3. ASSUME NEW b \in Block, MarkReorged(b.height) PROVE DashInv'
  <2>1. b.height \in Nat
    BY RingAssumption DEF RingAssumption
  <2>2. RingInv'
    BY <1>1, <1>3, <2>1, MarkKeepsInv
  <2>3. /\ Len(blocks') = Len(blocks)
        /\ \A k \in 1..Len(blocks) : blocks'[k].block = blocks[k].block /\ blocks'[k].seq = blocks[k].seq
    BY <1>1, <1>3, <2>1, MarkedRows
  <2>4. nextBlockSeq' = nextBlockSeq /\ blockTimes' = blockTimes
    BY <1>3 DEF MarkReorged
  <2>5. SeqNamesBlock'
    BY <2>3 DEF DashInv, SeqNamesBlock
  <2>6. HighlightKept'
    BY <1>1, <2>3, <2>4 DEF DashInv, HighlightKept
  <2>7. ClockCoversRows'
    BY <2>3, <2>4 DEF DashInv, ClockCoversRows
  <2> QED
    BY <2>2, <2>5, <2>6, <2>7 DEF DashInv
<1> QED
  BY <1>1, <1>2, <1>3 DEF RingNext

\* A found block takes the highlight, or, when it fell off the end, nothing has
\* it.
LEMMA FindBlockKeepsDash ==
  ASSUME RingAssumption, DashInv, FindBlock
  PROVE  DashInv'
<1>1. PICK b \in Block : InsertBlock(b) /\ selectedBlock' = LiveSeq(blocks', b.height) /\ picked' = b
  BY DEF FindBlock
<1>2. /\ RingInv' /\ SeqNamesBlock' /\ ClockCoversRows'
      /\ nextBlockSeq \in Nat /\ nextBlockSeq' = nextBlockSeq + 1
  BY <1>1, InsertKeepsDash
<1>3. /\ b.height \in Nat /\ blocks' \in Seq(Row)
      /\ \A k \in 1..Len(blocks') : blocks'[k].seq \in Nat
  <2>1. b.height \in Nat /\ blocks' \in Seq(Row)
    BY <1>2 DEF RingInv, RingTypeOK, RingAssumption
  <2> QED
    BY <2>1, RowFields
<1> DEFINE i == LivePos(blocks', b.height)
<1>4. /\ i \in 0..Len(blocks')
      /\ i # 0 => blocks'[i].block.height = b.height /\ ~blocks'[i].reorged
  BY <1>3, LivePosShape
<1>5. selectedBlock' = IF i = 0 THEN NoSeq ELSE blocks'[i].seq
  BY <1>1 DEF LiveSeq
<1> HIDE DEF i
<1>6. CASE i = 0
  BY <1>2, <1>3, <1>5, <1>6 DEF DashInv, HighlightKept, NoSeq
<1>7. CASE i # 0
  <2>1. i \in 1..Len(blocks')
    <3>1. Len(blocks') \in Nat
      BY <1>3, LenProperties
    <3> QED
      BY <1>4, <1>7, <3>1
  <2>2. blocks'[i] = [block |-> b, seq |-> nextBlockSeq, reorged |-> FALSE]
    <3>1. RingInv
      BY DEF DashInv
    <3> QED
      BY <1>1, <1>4, <1>7, <2>1, <3>1, InsertedRows
  <2>3. selectedBlock' = nextBlockSeq /\ blocks'[i].seq = nextBlockSeq /\ blocks'[i].block = b
    BY <1>5, <1>7, <2>2
  <2>4. \A k \in 1..Len(blocks') : blocks'[k].seq = nextBlockSeq => blocks'[k].block = b
    BY <1>2, <2>1, <2>3 DEF SeqNamesBlock
  <2>5. HighlightKept'
    BY <1>1, <1>2, <2>3, <2>4 DEF HighlightKept
  <2> QED
    BY <1>2, <2>5 DEF DashInv
<1> QED
  BY <1>6, <1>7

\* A key puts the highlight on a row, whose block becomes the picked one.
LEMMA MoveInTailKeepsDash ==
  ASSUME RingAssumption, DashInv, MoveInTail
  PROVE  DashInv'
<1>1. PICK delta \in {-1, 1} : selectedBlock' = Moved(blocks, selectedBlock, delta)
  BY DEF MoveInTail
<1>2. /\ UNCHANGED ringVars
      /\ picked' = IF blocks = <<>> THEN picked ELSE blocks[IndexOf(blocks, selectedBlock')].block
  BY DEF MoveInTail
<1>3. blocks' = blocks /\ nextBlockSeq' = nextBlockSeq /\ blockTimes' = blockTimes
  BY <1>2 DEF ringVars
<1>4. RingInv' /\ SeqNamesBlock' /\ ClockCoversRows'
  BY <1>3 DEF DashInv, RingInv, RingTypeOK, NewestFirst, OneLivePerHeight, SeqsBelowNext,
              ClockNeverRunsBack, SeqNamesBlock, ClockCoversRows
<1>5. /\ blocks \in Seq(Row) /\ Len(blocks) \in Nat /\ nextBlockSeq \in Nat
      /\ \A k \in 1..Len(blocks) : blocks[k].seq \in Nat /\ blocks[k].seq < nextBlockSeq
  BY RowFields DEF DashInv, RingInv, RingTypeOK, SeqsBelowNext
<1>6. CASE blocks = <<>>
  <2>1. selectedBlock' = NoSeq
    BY <1>1, <1>6 DEF Moved
  <2>2. Len(blocks) = 0
    BY <1>6
  <2> QED
    BY <1>3, <1>4, <1>5, <2>1, <2>2 DEF DashInv, HighlightKept, NoSeq
<1>7. CASE blocks # <<>>
  <2> DEFINE i == IndexOf(blocks, selectedBlock')
  <2>1. PICK k \in 1..Len(blocks) : selectedBlock' = blocks[k].seq
    BY <1>1, <1>5, <1>7, MovedIsRow
  <2>2. /\ i \in 0..Len(blocks)
        /\ i # 0 => blocks[i].seq = selectedBlock'
        /\ i = 0 => \A j \in 1..Len(blocks) : blocks[j].seq # selectedBlock'
    BY <1>5, IndexOfShape
  <2>3. picked' = blocks[i].block
    BY <1>2, <1>7
  <2> HIDE DEF i
  <2>4. i \in 1..Len(blocks) /\ blocks[i].seq = selectedBlock'
    BY <1>5, <2>1, <2>2
  <2>5. HighlightKept'
    <3>1. selectedBlock' \in Int /\ selectedBlock' < nextBlockSeq
      BY <1>5, <2>1
    <3>2. \A j \in 1..Len(blocks) : blocks[j].seq = selectedBlock' => blocks[j].block = picked'
      BY <2>3, <2>4 DEF DashInv, SeqNamesBlock
    <3> QED
      BY <1>3, <3>1, <3>2 DEF HighlightKept
  <2> QED
    BY <1>4, <2>5 DEF DashInv
<1> QED
  BY <1>6, <1>7

\* The invariant holds in every state.
LEMMA DashInvariant == DashSpec => []DashInv
<1>1. DashInit => DashInv
  BY RingAssumption
     DEF DashInit, RingInit, DashInv, RingInv, RingTypeOK, NewestFirst, OneLivePerHeight,
         SeqsBelowNext, ClockNeverRunsBack, SeqNamesBlock, HighlightKept, ClockCoversRows, NoSeq,
         RingAssumption
<1>2. ASSUME DashInv, UNCHANGED <<ringVars, selectedBlock, picked>>
      PROVE  DashInv'
  BY <1>2 DEF ringVars, DashInv, RingInv, RingTypeOK, NewestFirst, OneLivePerHeight,
              SeqsBelowNext, ClockNeverRunsBack, SeqNamesBlock, HighlightKept, ClockCoversRows
<1>3. DashInv /\ [DashNext]_dashVars => DashInv'
  <2> SUFFICES ASSUME DashInv, [DashNext]_dashVars PROVE DashInv'
    OBVIOUS
  <2>1. CASE TailUpdate
    BY <2>1, RingAssumption, TailUpdateKeepsDash
  <2>2. CASE FindBlock
    BY <2>2, RingAssumption, FindBlockKeepsDash
  <2>3. CASE MoveInTail
    BY <2>3, RingAssumption, MoveInTailKeepsDash
  <2>4. CASE ShowTx \/ NewBoundary \/ CycleList \/ MoveInPool \/ OpenNewest \/ SampleHeights
             \/ UNCHANGED dashVars
    BY <1>2, <2>4 DEF ShowTx, NewBoundary, CycleList, MoveInPool, OpenNewest, SampleHeights,
                      dashVars
  <2> QED
    BY <2>1, <2>2, <2>3, <2>4 DEF DashNext, TailNext, PoolNext, HeaderNext
<1> QED
  BY <1>1, <1>3, PTL DEF DashSpec

-----------------------------------------------------------------------------
(* The theorems.                                                           *)

\* The highlight of the tail is on the block it was put on, or nowhere, whatever
\* fills, searches and reorgs do to the rows under it.
THEOREM HighlightStaysPicked == DashSpec => []HighlightIsPicked
<1>1. DashInv => HighlightIsPicked
  <2> SUFFICES ASSUME DashInv PROVE HighlightIsPicked
    OBVIOUS
  <2> DEFINE i == IndexOf(blocks, selectedBlock)
  <2>1. blocks \in Seq(Row) /\ Len(blocks) \in Nat
    BY LenProperties DEF DashInv, RingInv, RingTypeOK
  <2>2. i \in 0..Len(blocks) /\ (i # 0 => blocks[i].seq = selectedBlock)
    BY <2>1, IndexOfShape
  <2>3. i # 0 => blocks[i].block = picked
    <3> HIDE DEF i
    <3>1. i # 0 => i \in 1..Len(blocks)
      BY <2>1, <2>2
    <3> QED
      BY <2>2, <3>1 DEF DashInv, HighlightKept
  <2> QED
    BY <2>3 DEF HighlightIsPicked
<1> QED
  BY <1>1, DashInvariant, PTL

\* The header says "stalled" only when every row of the tail is older than four
\* target spacings, however the cadence clock was fed.
THEOREM StalledAlwaysMeansOld == DashSpec => []StalledMeansOld
<1>1. DashInv => StalledMeansOld
  <2> SUFFICES ASSUME DashInv, blocks # <<>> PROVE StalledMeansOld
    BY DEF StalledMeansOld
  <2> DEFINE times == {blocks[i].block.time : i \in DOMAIN blocks}
             newest == CHOOSE t \in times : \A i \in DOMAIN blocks : blocks[i].block.time <= t
             latest == blockTimes[Len(blockTimes)]
             ages == {latest - t : t \in times}
  <2>1. /\ Len(blocks) \in Nat /\ DOMAIN blocks = 1..Len(blocks) /\ 1 \in DOMAIN blocks
        /\ \A i \in DOMAIN blocks : blocks[i].block.time \in Nat
    BY RingAssumption, RowFields DEF DashInv, RingInv, RingTypeOK
  <2>2. /\ blockTimes # <<>> /\ \A i \in DOMAIN blocks : blocks[i].block.time <= latest
        /\ latest \in Nat
    <3>1. blockTimes # <<>> /\ \A i \in DOMAIN blocks : blocks[i].block.time <= latest
      BY <2>1 DEF DashInv, ClockCoversRows
    <3>2. Len(blockTimes) \in 1..Len(blockTimes) /\ blockTimes \in Seq(Nat)
      BY <3>1, LenProperties, EmptySeq DEF DashInv, RingInv, RingTypeOK
    <3> QED
      BY <3>1, <3>2, ElementOfSeq
  <2> HIDE DEF latest
  <2>3. newest \in times /\ newest \in Nat /\ newest <= latest
    <3>1. ages \in SUBSET Nat /\ ages # {}
      BY <2>1, <2>2
    <3>2. Min(ages) \in ages /\ \A a \in ages : Min(ages) <= a
      BY <3>1, MinIsLeast
    <3>3. PICK m \in DOMAIN blocks : Min(ages) = latest - blocks[m].block.time
      BY <3>2
    <3>4. ASSUME NEW i \in DOMAIN blocks PROVE blocks[i].block.time <= blocks[m].block.time
      <4>1. latest - blocks[i].block.time \in ages
        OBVIOUS
      <4>2. latest - blocks[m].block.time <= latest - blocks[i].block.time
        BY <3>2, <3>3, <4>1
      <4> QED
        BY <2>1, <2>2, <4>2
    <3>5. newest \in times
      BY <3>4
    <3> HIDE DEF newest
    <3> QED
      BY <2>1, <2>2, <3>5
  <2>4. ASSUME NEW now \in newest..(newest + 4 * TargetSpacing)
        PROVE  Health(now) # "Stalled"
    <3> HIDE DEF newest
    <3>1. LastBlockTime = latest
      BY <2>2 DEF LastBlockTime, latest
    <3>2. TargetSpacing \in Nat
      BY DashboardAssumption DEF DashboardAssumption
    <3>3. ~Stale(latest, now)
      BY <2>2, <2>3, <3>2 DEF Stale
    <3>4. ~(LastBlockTime # NoTime /\ Stale(LastBlockTime, now))
      BY <3>1, <3>3
    <3> QED
      BY <3>4, Zenon DEF Health
  <2> QED
    BY <2>4 DEF StalledMeansOld
<1> QED
  BY <1>1, DashInvariant, PTL
==============================================================================
