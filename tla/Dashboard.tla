------------------------------ MODULE Dashboard ------------------------------
(***************************************************************************)
(* What the explorer's lists show and where their highlights stand: the    *)
(* App's block tail (BlockRing) and mempool rows with the updates of the   *)
(* tail task, the answers that insert a searched block, and the keys that  *)
(* move a highlight (tools/tui/src/app.rs), and the chain health that the  *)
(* header reads from them at any moment (tools/tui/src/health.rs).         *)
(*                                                                         *)
(* A highlight is kept as the seq of a row, while the rows under it come,  *)
(* move, are replaced by a refill and fall off the end.                    *)
(***************************************************************************)
EXTENDS BlockRing

CONSTANTS
  MaxRows,        \* MAX_ROWS, the mempool rows the App keeps
  MaxTxs,         \* bound on the transactions of one behaviour
  Boundaries,     \* the block boundaries that may be announced
  HeightSamples,  \* the GetLightdInfo samples: block and estimated height
  TargetSpacing,  \* target_spacing, in seconds
  CadenceWindow   \* CADENCE_WINDOW, the intervals the median is taken over

ASSUME DashboardAssumption ==
  /\ MaxRows \in Nat \ {0}
  /\ TargetSpacing \in Nat /\ CadenceWindow \in Nat \ {0}

VARIABLES
  poolRows,       \* the mempool rows, newest first
  nextTxSeq,      \* the seq the network side gives the next row
  view,           \* the list shown
  selectedRow,    \* the highlighted mempool row, by seq
  selectedBlock,  \* the highlighted block, by seq
  boundary,       \* tip and tip_mined_unix
  info,           \* the last sample of heights
  picked          \* history: the block the user last put the highlight on

listVars == <<poolRows, nextTxSeq, selectedRow>>
headerVars == <<boundary, info>>
dashVars == <<ringVars, listVars, headerVars, view, selectedBlock, picked>>

NoSeq == -1
NoSample == [blockHeight |-> 0, estimatedHeight |-> -1]
NoTime == -1
NoPick == [height |-> 0, time |-> 0]

-----------------------------------------------------------------------------
(* Health, a function of the state and the time.                           *)

\* Successive differences, oldest first, saturating at zero.
Intervals(times) ==
  [i \in 1..(Len(times) - 1) |->
     IF times[i + 1] > times[i] THEN times[i + 1] - times[i] ELSE 0]

\* The median of the last intervals; of an even number the upper one.
Median(intervals) ==
  LET n      == Len(intervals)
      window == SubSeq(intervals, IF n > CadenceWindow THEN n - CadenceWindow + 1 ELSE 1, n)
  IN  SortSeq(window, <)[Len(window) \div 2 + 1]

CadenceSyncing ==
  /\ Len(blockTimes) > 1
  /\ Median(Intervals(blockTimes)) < TargetSpacing \div 3

\* Without a sample the heights are the tip and an unknown estimate.
HeightSyncing ==
  /\ info # NoSample
  /\ info.estimatedHeight > 0
  /\ info.estimatedHeight > info.blockHeight + 2

\* The newest time the clock holds, else the time of the tip, if known.
LastBlockTime == IF blockTimes = <<>> THEN boundary.mined ELSE blockTimes[Len(blockTimes)]

Stale(time, now) == now > time /\ now - time > 4 * TargetSpacing

Health(now) ==
  IF HeightSyncing \/ CadenceSyncing THEN "Syncing"
  ELSE IF LastBlockTime # NoTime /\ Stale(LastBlockTime, now) THEN "Stalled" ELSE "Healthy"

-----------------------------------------------------------------------------
(* Highlights.  An operator whose name starts with Bug is a slip one could *)
(* make in the one after it; no specification uses it.                     *)

BugIndexOf(s, seq) == SelectInSeq(s, LAMBDA r : r.seq <= seq)

\* selected_index: where the row of a seq stands now, or 0.
IndexOf(s, seq) == SelectInSeq(s, LAMBDA r : r.seq = seq)

\* move_selection: the seq of the row one step from the highlight, held at the
\* ends; with no row highlighted it is the first one.
Moved(s, seq, delta) ==
  LET i == IndexOf(s, seq)
  IN  CASE s = <<>> -> NoSeq
        [] s # <<>> /\ (i = 0 \/ i + delta < 1) -> s[1].seq
        [] s # <<>> /\ i + delta > Len(s) -> s[Len(s)].seq
        [] OTHER -> s[i + delta].seq

\* The seq of the live row of a height, or none.
LiveSeq(s, height) ==
  LET i == LivePos(s, height)
  IN  IF i = 0 THEN NoSeq ELSE s[i].seq

-----------------------------------------------------------------------------
(* The updates.                                                            *)

\* Update::Tx.
ShowTx ==
  /\ nextTxSeq < MaxTxs
  /\ nextTxSeq' = nextTxSeq + 1
  /\ LET all == <<[seq |-> nextTxSeq]>> \o poolRows
     IN  poolRows' = SubSeq(all, 1, IF Len(all) > MaxRows THEN MaxRows ELSE Len(all))
  /\ UNCHANGED <<ringVars, headerVars, view, selectedRow, selectedBlock, picked>>

\* Update::Block.
NewBoundary ==
  /\ boundary' \in Boundaries
  /\ poolRows' = <<>>
  /\ selectedRow' = NoSeq
  /\ UNCHANGED <<ringVars, nextTxSeq, view, selectedBlock, info, picked>>

\* Update::Info.
SampleHeights ==
  /\ info' \in HeightSamples
  /\ UNCHANGED <<ringVars, listVars, boundary, view, selectedBlock, picked>>

\* Update::MinedBlock and Update::Reorg.
TailUpdate ==
  /\ RingNext
  /\ UNCHANGED <<listVars, headerVars, view, selectedBlock, picked>>

\* Update::SearchBlock: a found block, or the context of an open transaction,
\* goes into the tail and takes the highlight if the window has room for it.
FindBlock ==
  /\ nextBlockSeq < MaxInserts
  /\ \E b \in Block :
       /\ InsertBlock(b)
       /\ selectedBlock' = LiveSeq(blocks', b.height)
       /\ picked' = b
  /\ view' = "Blocks"
  /\ UNCHANGED <<listVars, headerVars>>

-----------------------------------------------------------------------------
(* The keys of the lists.                                                  *)

CycleList ==
  /\ view' = IF view = "Mempool" THEN "Blocks" ELSE "Mempool"
  /\ UNCHANGED <<ringVars, listVars, headerVars, selectedBlock, picked>>

MoveInPool ==
  /\ view = "Mempool"
  /\ \E delta \in {-1, 1} : selectedRow' = Moved(poolRows, selectedRow, delta)
  /\ UNCHANGED <<ringVars, poolRows, nextTxSeq, headerVars, view, selectedBlock, picked>>

MoveInTail ==
  /\ view = "Blocks"
  /\ \E delta \in {-1, 1} : selectedBlock' = Moved(blocks, selectedBlock, delta)
  /\ picked' = IF blocks = <<>> THEN picked ELSE blocks[IndexOf(blocks, selectedBlock')].block
  /\ UNCHANGED <<ringVars, listVars, headerVars, view>>

\* Enter on the mempool with nothing selected takes the newest row.
OpenNewest ==
  /\ view = "Mempool" /\ selectedRow = NoSeq /\ poolRows # <<>>
  /\ selectedRow' = poolRows[1].seq
  /\ UNCHANGED <<ringVars, poolRows, nextTxSeq, headerVars, view, selectedBlock, picked>>

-----------------------------------------------------------------------------
DashInit ==
  /\ RingInit
  /\ poolRows = <<>> /\ nextTxSeq = 0
  /\ view = "Blocks"
  /\ selectedRow = NoSeq /\ selectedBlock = NoSeq
  /\ boundary = [tip |-> 0, mined |-> NoTime]
  /\ info = NoSample
  /\ picked = NoPick

TailNext == TailUpdate \/ FindBlock \/ MoveInTail
PoolNext == ShowTx \/ NewBoundary \/ CycleList \/ MoveInPool \/ OpenNewest
HeaderNext == TailUpdate \/ NewBoundary \/ SampleHeights

DashNext == TailNext \/ PoolNext \/ HeaderNext

-----------------------------------------------------------------------------
(* Properties                                                              *)

\* The highlight of the tail is on the block the user put it on, or nowhere:
\* no insertion, refill, reorg or truncation slides it to another block, and
\* a search highlights the block it found, never a dimmed one of its height.
HighlightIsPicked ==
  LET i == IndexOf(blocks, selectedBlock)
  IN  i # 0 => blocks[i].block = picked

\* "stalled" is never shown over a tail that has a recent block: whatever the
\* order in which fills, refetches and searches fed the cadence clock, the
\* time it holds last is no older than any row.
StalledMeansOld ==
  LET newest == IF blocks = <<>> THEN 0
                ELSE CHOOSE t \in {blocks[i].block.time : i \in DOMAIN blocks} :
                       \A i \in DOMAIN blocks : blocks[i].block.time <= t
  IN  \A now \in newest..(newest + 4 * TargetSpacing) :
        blocks # <<>> => Health(now) # "Stalled"

=============================================================================
