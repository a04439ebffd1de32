------------------------------- MODULE TailTask -------------------------------
(***************************************************************************)
(* The tail task of the explorer (run, cycle and fill_range in             *)
(* tools/tui/src/net.rs) and the App that applies its updates              *)
(* (tools/tui/src/app.rs), against a server whose chain grows and forks    *)
(* while the task is between two of its requests.                          *)
(*                                                                         *)
(* A cycle connects, reads the tip, fills the gap since the last cycle,    *)
(* announces the tip, and listens to the mempool until the server ends     *)
(* that stream at the next block.  Each request is a step of its own, so   *)
(* the chain may move between any two.  What one request returns is one    *)
(* snapshot, and the updates a cycle sends between two requests are one    *)
(* step: they enter an unbounded FIFO channel that the App drains later.   *)
(*                                                                         *)
(* A chain is the sequence of the fork labels of its blocks, the genesis   *)
(* block left out.  The block of height h is named by the first h labels,  *)
(* its hash, so a block's parent is its hash less the last label.          *)
(***************************************************************************)
EXTENDS Integers, Sequences, SequencesExt

CONSTANTS
  MaxBlocks,     \* MAX_BLOCKS of both files
  ReorgDepth,    \* REORG_DEPTH, how far below the old tip a reorg refetches
  MaxHeight,     \* bound on the chain's height
  MaxReorgs,     \* bound on the server's reorgs
  MaxForkDepth,  \* the deepest fork below the tail's tip a reorg may start at
  MaxPending,    \* bound on the updates left over when a cycle starts
  MaxErrors,     \* bound on failed requests
  MaxTipErrors   \* bound on failed tip requests, which the tail ignores

ASSUME TailAssumption ==
  /\ MaxBlocks \in Nat \ {0} /\ ReorgDepth \in Nat
  /\ MaxHeight \in Nat \ {0} /\ MaxReorgs \in Nat
  /\ MaxForkDepth \in Nat /\ MaxPending \in Nat /\ MaxErrors \in Nat /\ MaxTipErrors \in Nat

VARIABLES
  \* the server
  chain,         \* its best chain
  abandoned,     \* the chain it left at its last reorg
  reorgs,        \* how many reorgs it made
  errors,        \* failed requests left
  tipErrors,     \* failed tip requests left
  \* the tail task
  pc,            \* the request it is about to make
  boundary,      \* block_boundary: the last cycle ended with its stream
  last,          \* the hash of the block last filled, or NoBlock
  tip,           \* the tip this cycle read, 0 when that request failed
  openedAt,      \* the chain the open mempool stream was opened at
  owed,          \* history: the heights a Reorg dimmed and no fill sent again
  \* the channel and the App
  updates,       \* updates sent and not yet applied, oldest first
  phase, appTip, \* the App's phase and tip
  blocks, nextBlockSeq, blockTimes

serverVars == <<chain, abandoned, reorgs>>
cycleVars  == <<pc, boundary, last, tip, openedAt, owed>>
ringVars   == <<blocks, nextBlockSeq, blockTimes>>
appVars    == <<phase, appTip, ringVars>>
vars == <<serverVars, errors, tipErrors, cycleVars, updates, appVars>>

\* No fill has delivered yet; a delivered block is never the genesis block.
NoBlock == <<>>

ChainBlock == [height : Nat, time : Nat, hash : Seq(Nat)]

Ring == INSTANCE BlockRing WITH Block <- ChainBlock, MaxBlockTimes <- 1, MaxInserts <- 0

-----------------------------------------------------------------------------
(* The chain and the requests.  An operator whose name starts with Bug is  *)
(* a slip one could make in the one after it; no specification uses it.    *)

BugSat(a, b) == a - b
Sat(a, b) == IF a > b THEN a - b ELSE 0
AtLeast(a, b) == IF a >= b THEN a ELSE b

BlockAt(c, h) == [height |-> h, time |-> h, hash |-> SubSeq(c, 1, h)]
PrevHash(b) == Front(b.hash)

\* block_range_pools: the blocks from lo to hi, oldest first.  A server fails
\* a request for a height it does not have.
CanServe(hi) == hi <= Len(chain)
BlockRange(lo, hi) == [i \in 1..(hi - lo + 1) |-> BlockAt(chain, lo + i - 1)]

Mined(bs) == [i \in 1..Len(bs) |-> [type |-> "MinedBlock", block |-> bs[i]]]

BugFloor == Sat(tip, MaxBlocks - 2)

\* The first height of the window that ends at the tip.
Floor == Sat(tip, MaxBlocks - 1)

Init ==
  /\ chain = <<0>>
  /\ abandoned = chain
  /\ reorgs = 0
  /\ errors = MaxErrors
  /\ tipErrors = MaxTipErrors
  /\ pc = "connect"
  /\ boundary = FALSE
  /\ last = NoBlock
  /\ tip = 0
  /\ openedAt = <<>>
  /\ owed = {}
  /\ updates = <<>>
  /\ phase = "Connecting"
  /\ appTip = 0
  /\ Ring!RingInit

-----------------------------------------------------------------------------
(* The server.                                                             *)

ServerMine ==
  /\ Len(chain) < MaxHeight
  /\ chain' = Append(chain, chain[Len(chain)])
  /\ UNCHANGED <<abandoned, reorgs, errors, tipErrors, cycleVars, updates, appVars>>

\* The tail's tip and a chain part no deeper than MaxForkDepth.
ForkIsShallow(c) ==
  last = NoBlock \/ IsPrefix(SubSeq(last, 1, Sat(Len(last), MaxForkDepth)), c)

\* n new blocks on the first keep of a chain.
Branch(c, keep, n) == SubSeq(c, 1, keep) \o [i \in 1..n |-> reorgs + 1]

\* The chains that may win: a branch of the current one, up to a block longer
\* or shorter, or the one left at the last reorg, by itself or a block longer.
Contenders ==
  {Branch(chain, keep, n) : keep \in 1..(Len(chain) - 1), n \in 1..2}
    \union {Branch(abandoned, Len(abandoned), n) : n \in 0..1}

ServerReorg ==
  \E c \in Contenders :
    /\ reorgs < MaxReorgs
    /\ Len(c) <= MaxHeight
    /\ Len(c) - Len(chain) \in -1..1
    /\ ~IsPrefix(chain, c)
    /\ ForkIsShallow(c)
    /\ chain' = c
    /\ abandoned' = chain
    /\ reorgs' = reorgs + 1
    /\ UNCHANGED <<errors, tipErrors, cycleVars, updates, appVars>>

-----------------------------------------------------------------------------
(* The tail task.                                                          *)

Send(s) == updates' = updates \o s

PhaseUpdate(p) == [type |-> "Phase", phase |-> p]

\* Err out of cycle: announce it and back off.
Fail(sent) ==
  /\ errors > 0
  /\ errors' = errors - 1
  /\ pc' = "backoff"
  /\ Send(Append(sent, PhaseUpdate("Reconnecting")))

\* The top of run's loop, then connect and the chain parameters, which no
\* later step here depends on.
ConnectSends == IF boundary THEN <<>> ELSE <<PhaseUpdate("Connecting")>>

Connect ==
  /\ pc = "connect"
  /\ Len(updates) <= MaxPending
  /\ boundary' = FALSE
  /\ \/ Fail(ConnectSends)
     \/ pc' = "tip" /\ Send(ConnectSends) /\ UNCHANGED errors
  /\ UNCHANGED <<serverVars, tipErrors, last, tip, openedAt, owed, appVars>>

BugReadTip ==
  /\ pc = "tip"
  /\ \/ tip' = Len(chain) /\ UNCHANGED tipErrors
     \/ tipErrors > 0 /\ tipErrors' = tipErrors - 1 /\ tip' = 0
  /\ Send(<<[type |-> "Block", tip |-> tip']>>)
  /\ pc' = IF tip' > 0 THEN "fill" ELSE "announce"
  /\ UNCHANGED <<serverVars, errors, boundary, last, openedAt, owed, appVars>>

\* latest_height().await.unwrap_or(0): a failed request reads as height 0,
\* and a height of 0 skips the fill.
ReadTip ==
  /\ pc = "tip"
  /\ \/ tip' = Len(chain) /\ UNCHANGED tipErrors
     \/ tipErrors > 0 /\ tipErrors' = tipErrors - 1 /\ tip' = 0
  /\ pc' = IF tip' > 0 THEN "fill" ELSE "announce"
  /\ UNCHANGED <<serverVars, errors, boundary, last, openedAt, owed, updates, appVars>>

\* What a fill asks for: the whole window on a cold start, else the gap above
\* the block last filled.
FillStart == IF last = NoBlock THEN Floor ELSE AtLeast(Floor, Len(last) + 1)

\* A gap-fill that starts right after the old tip must chain onto it.
Reorged(bs) ==
  last # NoBlock /\ FillStart = Len(last) + 1 /\ PrevHash(bs[1]) # last

\* The cycle sends the blocks of a fill, from lo to the tip, and remembers the
\* newest.  They replace what was dimmed at their heights; a whole window
\* replaces all.
Deliver(lo) ==
  LET bs == BlockRange(lo, tip)
  IN  /\ Send(Mined(bs))
      /\ last' = bs[Len(bs)].hash
      /\ owed' = {h \in owed : h < lo /\ lo # Floor}
      /\ pc' = "announce"

BugRefetchFrom == AtLeast(Len(last) + 1, Floor)
RefetchFrom == AtLeast(Sat(Len(last), ReorgDepth), Floor)

BugStartRefetch ==
  /\ Send(<<[type |-> "Reorg", at |-> RefetchFrom]>>)
  /\ owed' = owed \union (RefetchFrom..Len(last))
  /\ pc' = "refetch"
  /\ last' = SubSeq(chain, 1, tip)

\* The rows a reorg orphans are announced before their replacements are asked
\* for.
StartRefetch ==
  /\ Send(<<[type |-> "Reorg", at |-> RefetchFrom]>>)
  /\ owed' = owed \union (RefetchFrom..Len(last))
  /\ pc' = "refetch"
  /\ UNCHANGED last

BugNothingNew == last # NoBlock /\ tip <= Len(last) + 1
NothingNew == last # NoBlock /\ tip <= Len(last)

Fill ==
  /\ pc = "fill"
  /\ \/ /\ NothingNew
        /\ pc' = "announce"
        /\ UNCHANGED <<errors, last, owed, updates>>
     \/ /\ ~NothingNew
        /\ \/ /\ CanServe(tip)
              /\ UNCHANGED errors
              /\ IF Reorged(BlockRange(FillStart, tip))
                 THEN StartRefetch
                 ELSE Deliver(FillStart)
           \/ Fail(<<>>) /\ UNCHANGED <<last, owed>>
  /\ UNCHANGED <<serverVars, tipErrors, boundary, tip, openedAt, appVars>>

\* The second request of a reorg.  It may fail after the Reorg is out.
Refetch ==
  /\ pc = "refetch"
  /\ \/ /\ CanServe(tip)
        /\ Deliver(RefetchFrom)
        /\ UNCHANGED errors
     \/ Fail(<<>>) /\ UNCHANGED <<last, owed>>
  /\ UNCHANGED <<serverVars, tipErrors, boundary, tip, openedAt, appVars>>

\* A server that lost the tip since it was read fails the request.
LoseTip ==
  /\ pc \in {"fill", "refetch"} /\ ~CanServe(tip)
  /\ pc = "fill" => ~NothingNew
  /\ pc' = "backoff"
  /\ Send(<<PhaseUpdate("Reconnecting")>>)
  /\ UNCHANGED <<serverVars, errors, tipErrors, boundary, last, tip, openedAt, owed, appVars>>

BugAnnounceSends == <<[type |-> "Block", tip |-> tip]>>
AnnounceSends == <<[type |-> "Block", tip |-> tip], PhaseUpdate("Live")>>

\* The health sample and the tip's time change nothing modelled here.
Announce ==
  /\ pc = "announce"
  /\ Send(AnnounceSends)
  /\ pc' = "open"
  /\ tip' = 0          \* a local of the cycle, not read again
  /\ UNCHANGED <<serverVars, errors, tipErrors, boundary, last, openedAt, owed, appVars>>

OpenMempool ==
  /\ pc = "open"
  /\ \/ pc' = "stream" /\ openedAt' = chain /\ UNCHANGED <<errors, updates>>
     \/ Fail(<<>>) /\ UNCHANGED openedAt
  /\ UNCHANGED <<serverVars, tipErrors, boundary, last, tip, owed, appVars>>

BugNextBoundary == FALSE
NextBoundary == TRUE

\* The server ends the stream when its best chain moves: a block boundary.
StreamEnds ==
  /\ pc = "stream" /\ chain # openedAt
  /\ boundary' = NextBoundary
  /\ pc' = "connect"
  /\ openedAt' = <<>>
  /\ UNCHANGED <<serverVars, errors, tipErrors, last, tip, owed, updates, appVars>>

StreamFails ==
  /\ pc = "stream"
  /\ Fail(<<>>)
  /\ openedAt' = <<>>
  /\ UNCHANGED <<serverVars, tipErrors, boundary, last, tip, owed, appVars>>

BackoffOver ==
  /\ pc = "backoff"
  /\ pc' = "connect"
  /\ UNCHANGED <<serverVars, errors, tipErrors, boundary, last, tip, openedAt, owed,
                 updates, appVars>>

-----------------------------------------------------------------------------
(* The App: apply, one update at a time.                                   *)

Apply ==
  /\ updates # <<>>
  /\ updates' = Tail(updates)
  /\ LET u == Head(updates)
     IN  CASE u.type = "MinedBlock" -> Ring!InsertBlock(u.block) /\ UNCHANGED <<phase, appTip>>
           [] u.type = "Reorg"      -> Ring!MarkReorged(u.at) /\ UNCHANGED <<phase, appTip>>
           [] u.type = "Block"      -> appTip' = u.tip /\ UNCHANGED <<phase, ringVars>>
           [] u.type = "Phase"      -> phase' = u.phase /\ UNCHANGED <<appTip, ringVars>>
  /\ UNCHANGED <<serverVars, errors, tipErrors, cycleVars>>

Server == ServerMine \/ ServerReorg
Cycle ==
  \/ Connect \/ ReadTip \/ Fill \/ Refetch \/ LoseTip \/ Announce
  \/ OpenMempool \/ StreamEnds \/ StreamFails \/ BackoffOver

Next == Server \/ Cycle \/ Apply

Spec == Init /\ [][Next]_vars

\* The task runs on until a request is pending; a request is answered, and
\* the server ends the stream at a block.  Nothing forces a request to fail.
CycleStep ==
  \/ Connect \/ ReadTip \/ Fill \/ Refetch \/ LoseTip \/ Announce
  \/ OpenMempool \/ StreamEnds \/ BackoffOver

\* The App drains the channel at every frame it is not paused.
FairSpec == Spec /\ WF_vars(CycleStep) /\ WF_vars(Apply)

-----------------------------------------------------------------------------
(* Properties                                                              *)

UpdateSet ==
  [type : {"MinedBlock"}, block : ChainBlock]
    \union [type : {"Reorg"}, at : Nat]
    \union [type : {"Block"}, tip : Nat]
    \union [type : {"Phase"}, phase : {"Connecting", "Live", "Reconnecting"}]

\* The type of the state, of the updates on their way among it.
TailTypeOK ==
  /\ chain \in Seq(Nat) /\ abandoned \in Seq(Nat)
  /\ pc \in {"connect", "tip", "fill", "refetch", "announce", "open", "stream", "backoff"}
  /\ boundary \in BOOLEAN /\ owed \in SUBSET Nat
  /\ last \in Seq(Nat)
  /\ tip \in Nat /\ appTip \in Nat
  /\ openedAt \in Seq(Nat)
  /\ \A i \in 1..Len(updates) : updates[i] \in UpdateSet
  /\ phase \in {"Connecting", "Live", "Reconnecting"}
  /\ Ring!RingTypeOK

Live == {i \in 1..Len(blocks) : ~blocks[i].reorged}
Settled == updates = <<>>

\* Once the App has caught up, every row it shows as current lies on the one
\* chain the tail last filled from: a reorg found at the fill boundary leaves
\* no undimmed row of the old branch, whatever failed in between.
LiveRowsOnOneChain ==
  Settled => \A i \in Live : last # NoBlock /\ IsPrefix(blocks[i].block.hash, last)

\* Once the App has caught up, the rows it shows as current have no gap, up to
\* the block last filled, but the heights a reorg dimmed whose blocks were not
\* sent again.
NoGapInTail ==
  Settled /\ last # NoBlock =>
    \A h \in blocks[Len(blocks)].block.height..Len(last) :
      h \in owed \/ \E i \in Live : blocks[i].block.height = h

\* The header never names a tip above the newest row: the blocks of a cycle
\* are sent before its tip is announced.
TipIsShown == appTip > 0 => blocks # <<>> /\ blocks[1].block.height >= appTip

\* Only a failed request takes the header from live: a block boundary reopens
\* the stream without the phase flapping.
LiveEndsByError == [][phase = "Live" /\ phase' # "Live" => phase' = "Reconnecting"]_vars

\* Once the chain grows above what an open mempool stream was opened at, the
\* new block gets a live row, at its height or above, unless the chain falls
\* back below it.  A block mined between the read of the tip and the opening of
\* the stream is part of what it was opened at: nothing tells the task of it
\* until the next one comes, and its row comes with that one's.
MinedBlockIsShown ==
  \A h \in 1..MaxHeight :
    (pc = "stream" /\ Len(openedAt) < h /\ h <= Len(chain)) ~>
      (Len(chain) < h \/ \E i \in Live : blocks[i].block.height >= h)

\* A reorg whose refetch failed is repaired by a later cycle, unless the
\* chain returns to the branch of the newest row or to no more than its height.
OwedBlocksArrive ==
  (owed # {}) ~> \/ owed = {}
                 \/ /\ blocks # <<>>
                    /\ \/ Len(chain) <= blocks[1].block.height
                       \/ IsPrefix(blocks[1].block.hash, chain)

\* A lost connection comes back.
ReconnectsToLive == (phase = "Reconnecting") ~> (phase = "Live")

\* "rows at or above it orphan" because others replaced them (app.rs:174): at
\* the mempool stream, every dimmed row has a current row of its height.
DimmedRowsAreReplaced ==
  Settled /\ pc = "stream" =>
    \A i \in 1..Len(blocks) : blocks[i].reorged =>
      \E j \in Live : blocks[j].block.height = blocks[i].block.height

=============================================================================
