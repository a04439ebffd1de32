---------------------------- MODULE TailTaskProofs ----------------------------
(***************************************************************************)
(* Proofs about the tail task and the App that applies its updates, for    *)
(* every size of the deque, reorg depth, server and number of failures.    *)
(*                                                                         *)
(* What the App shows once it has caught up depends on the updates still   *)
(* on their way, so the invariants speak of both.  A block stands when it  *)
(* has a current row, or one on its way, that no reorg on its way dims; a  *)
(* height is pushed out when the deque is, or will be, full of newer rows. *)
(* The inductive invariants, each proved from the ones before it:          *)
(*   Shape          the types, with what the server and each step of the   *)
(*                  task know of the tip that step works from;             *)
(*   Newest, NoHole a block stands at every height between one that shows  *)
(*                  and the last filled, but owed or pushed out ones;      *)
(*   TipsComing     a tip on its way to the header follows its block;      *)
(*   OnChain        a block that stands lies on the last filled chain,     *)
(*                  or, while the task refetches, below where it does;     *)
(*   PhasesInOrder  Connecting is only sent after what ended Live.         *)
(***************************************************************************)
EXTENDS TailTask, SequenceTheorems, FiniteSetTheorems, TLAPS

\* The facts about the deque, for the blocks of a chain.
RP == INSTANCE BlockRingProofs WITH Block <- ChainBlock, MaxBlockTimes <- 1, MaxInserts <- 0

-----------------------------------------------------------------------------
(* Prefixes.                                                               *)

\* A prefix agrees with the sequence at each of its indices.
LEMMA PrefixIs ==
  ASSUME NEW s \in Seq(Nat), NEW t \in Seq(Nat)
  PROVE  IsPrefix(s, t) <=> Len(s) <= Len(t) /\ \A i \in 1..Len(s) : s[i] = t[i]
<1>1. Len(s) \in Nat /\ Len(t) \in Nat /\ \A i \in 1..Len(t) : t[i] \in Nat
  BY LenProperties, ElementOfSeq
<1>2. SubSeq(s, 1, Len(s)) = s
  <2>1. \A i \in 1..Len(s) : s[i] \in Nat
    BY ElementOfSeq
  <2>2. /\ SubSeq(s, 1, Len(s)) \in Seq(Nat)
        /\ Len(SubSeq(s, 1, Len(s))) = Len(s)
        /\ \A i \in 1..Len(s) : SubSeq(s, 1, Len(s))[i] = s[i]
    BY <1>1, <2>1, SubSeqProperties
  <2> QED
    BY <2>2, SeqEqual
<1>3. CASE ~(Len(s) <= Len(t))
  BY <1>3 DEF IsPrefix
<1>4. CASE Len(s) <= Len(t)
  <2>1. /\ SubSeq(t, 1, Len(s)) \in Seq(Nat)
        /\ Len(SubSeq(t, 1, Len(s))) = Len(s)
        /\ \A i \in 1..Len(s) : SubSeq(t, 1, Len(s))[i] = t[i]
    <3>1. \A i \in 1..Len(s) : t[i] \in Nat
      BY <1>1, <1>4
    <3> QED
      BY <1>1, <1>4, <3>1, SubSeqProperties
  <2>2. s = SubSeq(t, 1, Len(s)) <=> \A i \in 1..Len(s) : s[i] = t[i]
    BY <2>1, SeqEqual
  <2> QED
    BY <1>2, <1>4, <2>2, Zenon DEF IsPrefix
<1> QED
  BY <1>3, <1>4

\* The first n elements of a sequence.
LEMMA FirstN ==
  ASSUME NEW t \in Seq(Nat), NEW n \in Nat, n <= Len(t)
  PROVE  /\ SubSeq(t, 1, n) \in Seq(Nat) /\ Len(SubSeq(t, 1, n)) = n
         /\ \A i \in 1..n : SubSeq(t, 1, n)[i] = t[i]
<1>1. Len(t) \in Nat /\ \A i \in 1..Len(t) : t[i] \in Nat
  BY LenProperties, ElementOfSeq
<1>2. \A i \in 1..n : t[i] \in Nat
  BY <1>1
<1> QED
  BY <1>1, <1>2, SubSeqProperties

\* A prefix of a prefix is a prefix.
LEMMA PrefixTransitive ==
  ASSUME NEW r \in Seq(Nat), NEW s \in Seq(Nat), NEW t \in Seq(Nat), IsPrefix(r, s), IsPrefix(s, t)
  PROVE  IsPrefix(r, t)
<1>1. Len(r) \in Nat /\ Len(s) \in Nat /\ Len(t) \in Nat
  BY LenProperties
<1>2. /\ Len(r) <= Len(s) /\ \A i \in 1..Len(r) : r[i] = s[i]
      /\ Len(s) <= Len(t) /\ \A i \in 1..Len(s) : s[i] = t[i]
  BY PrefixIs
<1>3. Len(r) <= Len(t) /\ \A i \in 1..Len(r) : r[i] = t[i]
  BY <1>1, <1>2
<1> QED
  BY <1>3, PrefixIs

\* Of two prefixes of a sequence the shorter is a prefix of the longer.
LEMMA PrefixOfFirstN ==
  ASSUME NEW s \in Seq(Nat), NEW t \in Seq(Nat), IsPrefix(s, t), NEW n \in Nat,
         Len(s) <= n, n <= Len(t)
  PROVE  IsPrefix(s, SubSeq(t, 1, n))
<1>1. Len(s) \in Nat /\ Len(t) \in Nat
  BY LenProperties
<1>2. Len(s) <= Len(t) /\ \A i \in 1..Len(s) : s[i] = t[i]
  BY PrefixIs
<1>3. /\ SubSeq(t, 1, n) \in Seq(Nat) /\ Len(SubSeq(t, 1, n)) = n
      /\ \A i \in 1..n : SubSeq(t, 1, n)[i] = t[i]
  BY FirstN
<1>4. \A i \in 1..Len(s) : s[i] = SubSeq(t, 1, n)[i]
  BY <1>1, <1>2, <1>3
<1> QED
  BY <1>3, <1>4, PrefixIs

\* The first items of a chain are a prefix of it.
LEMMA FirstNIsPrefix ==
  ASSUME NEW t \in Seq(Nat), NEW n \in Nat, n <= Len(t)
  PROVE  IsPrefix(SubSeq(t, 1, n), t)
<1>1. /\ SubSeq(t, 1, n) \in Seq(Nat) /\ Len(SubSeq(t, 1, n)) = n
      /\ \A i \in 1..n : SubSeq(t, 1, n)[i] = t[i]
  BY FirstN
<1> QED
  BY <1>1, PrefixIs

-----------------------------------------------------------------------------
(* The updates.                                                            *)

\* What each kind of update carries.
LEMMA UpdateKinds ==
  ASSUME NEW u \in UpdateSet
  PROVE  /\ u.type \in {"MinedBlock", "Reorg", "Block", "Phase"}
         /\ u.type = "MinedBlock" => u.block \in ChainBlock
         /\ u.type = "Reorg" => u.at \in Nat
         /\ u.type = "Block" => u.tip \in Nat
         /\ u.type = "Phase" => u.phase \in {"Connecting", "Live", "Reconnecting"}
BY DEF UpdateSet

\* The blocks of a request, oldest first, and the updates that carry them.
LEMMA RangeShape ==
  ASSUME chain \in Seq(Nat), NEW lo \in Nat, NEW hi \in Nat, lo <= hi, hi <= Len(chain)
  PROVE  LET bs == BlockRange(lo, hi)
         IN  /\ bs \in Seq(ChainBlock) /\ Len(bs) = hi - lo + 1
             /\ \A i \in 1..Len(bs) : bs[i] = BlockAt(chain, lo + i - 1)
             /\ bs[Len(bs)].hash = SubSeq(chain, 1, hi)
             /\ Mined(bs) \in Seq(UpdateSet) /\ Len(Mined(bs)) = Len(bs)
             /\ \A i \in 1..Len(bs) : Mined(bs)[i] = [type |-> "MinedBlock", block |-> bs[i]]
<1> DEFINE bs == BlockRange(lo, hi)
           n == hi - lo + 1
<1>1. n \in Nat /\ n >= 1 /\ \A i \in 1..n : lo + i - 1 \in Nat /\ lo + i - 1 <= Len(chain)
  BY LenProperties
<1>2. \A h \in Nat : h <= Len(chain) => BlockAt(chain, h) \in ChainBlock
  BY FirstN DEF BlockAt, ChainBlock
<1>3. bs \in [1..n -> ChainBlock] /\ \A i \in 1..n : bs[i] = BlockAt(chain, lo + i - 1)
  BY <1>1, <1>2 DEF BlockRange
<1> HIDE DEF n, bs
<1>4. bs \in Seq(ChainBlock) /\ Len(bs) = n
  BY <1>1, <1>3, IsASeq, LenProperties
<1>5. bs[n].hash = SubSeq(chain, 1, hi)
  <2>1. n \in 1..n /\ lo + n - 1 = hi
    BY <1>1 DEF n
  <2> QED
    BY <1>3, <2>1 DEF BlockAt
<1>6. \A i \in 1..n : [type |-> "MinedBlock", block |-> bs[i]] \in UpdateSet
  BY <1>3 DEF UpdateSet
<1>7. /\ Mined(bs) \in [1..n -> UpdateSet]
      /\ \A i \in 1..n : Mined(bs)[i] = [type |-> "MinedBlock", block |-> bs[i]]
  BY <1>4, <1>6 DEF Mined
<1>8. Mined(bs) \in Seq(UpdateSet) /\ Len(Mined(bs)) = n
  <2> DEFINE S == UpdateSet
             m == Mined(bs)
  <2>1. m \in [1..n -> S]
    BY <1>7
  <2> HIDE DEF S, m
  <2>2. m \in Seq(S) /\ Len(m) = n
    BY <1>1, <2>1, IsASeq, LenProperties
  <2> QED
    BY <2>2 DEF S, m
<1> QED
  BY <1>3, <1>4, <1>5, <1>7, <1>8 DEF n, bs

\* What a fill asks for: never below the window, never past the tip, and either
\* the whole window or the blocks right above the last.
LEMMA WindowShape ==
  ASSUME MaxBlocks \in Nat \ {0}, ReorgDepth \in Nat, last \in Seq(Nat), tip \in Nat, tip > 0,
         last # NoBlock => tip > Len(last)
  PROVE  /\ Floor \in Nat /\ Floor <= tip
         /\ Floor > 0 => Floor + MaxBlocks - 1 = tip
         /\ FillStart \in Nat /\ Floor <= FillStart /\ FillStart <= tip
         /\ last = NoBlock => FillStart = Floor
         /\ last # NoBlock => FillStart = Len(last) + 1 \/ (FillStart = Floor /\ Floor > Len(last) + 1)
         /\ last # NoBlock /\ Floor <= Len(last) + 1 =>
              /\ RefetchFrom \in Nat /\ Floor <= RefetchFrom /\ RefetchFrom <= tip
              /\ RefetchFrom <= Len(last) + 1
              /\ RefetchFrom # Floor => RefetchFrom + ReorgDepth = Len(last)
<1>1. Len(last) \in Nat
  BY LenProperties
<1>2. Floor \in Nat /\ Floor <= tip /\ (Floor > 0 => Floor + MaxBlocks - 1 = tip)
  BY DEF Floor, Sat
<1>3. last = NoBlock => FillStart = Floor
  BY DEF FillStart
<1> HIDE DEF Floor
<1>4. last # NoBlock => /\ FillStart \in Nat /\ Floor <= FillStart /\ FillStart <= tip
                        /\ FillStart = Len(last) + 1 \/ (FillStart = Floor /\ Floor > Len(last) + 1)
  BY <1>1, <1>2 DEF FillStart, AtLeast
<1>5. last # NoBlock /\ Floor <= Len(last) + 1 =>
        /\ RefetchFrom \in Nat /\ Floor <= RefetchFrom /\ RefetchFrom <= tip
        /\ RefetchFrom <= Len(last) + 1
        /\ RefetchFrom # Floor => RefetchFrom + ReorgDepth = Len(last)
  BY <1>1, <1>2 DEF RefetchFrom, AtLeast, Sat
<1> QED
  BY <1>2, <1>3, <1>4, <1>5

-----------------------------------------------------------------------------
(* The deque.  Its operators are those of the instance the model uses.     *)

\* An insertion of the model's deque is one of the deque the proofs are about.
LEMMA SameInsert ==
  ASSUME NEW b \in ChainBlock, Ring!InsertBlock(b)
  PROVE  RP!InsertBlock(b)
BY Zenon DEF Ring!InsertBlock, RP!InsertBlock, Ring!FeedClock, RP!FeedClock, Ring!PushTime,
  RP!PushTime, Ring!Truncate, RP!Truncate, Ring!Place, RP!Place, Ring!DropLive, RP!DropLive,
  Ring!LivePos, RP!LivePos, Ring!InsertPos, RP!InsertPos, Ring!SelectInSeq, RP!SelectInSeq,
  Ring!Min, RP!Min, Ring!InsertAt, RP!InsertAt, Ring!RemoveAt, RP!RemoveAt

\* So is a reorg,
LEMMA SameMark ==
  ASSUME NEW at, Ring!MarkReorged(at)
  PROVE  RP!MarkReorged(at)
BY Zenon DEF Ring!MarkReorged, RP!MarkReorged

\* the type of the deque,
LEMMA SameType == RP!RingTypeOK <=> Ring!RingTypeOK
BY DEF Ring!RingTypeOK, RP!RingTypeOK, Ring!Row, RP!Row

\* and the assumption on its constants.
LEMMA SameAssumption == RP!RingAssumption
BY TailAssumption DEF TailAssumption, RP!RingAssumption, ChainBlock

\* A deque nothing touches keeps its invariants.
LEMMA RingStays ==
  ASSUME RP!RingInv, RP!LiveOnTop,
         blocks' = blocks, nextBlockSeq' = nextBlockSeq, blockTimes' = blockTimes
  PROVE  RP!RingInv' /\ RP!LiveOnTop'
<1>1. RP!RingTypeOK'
  BY DEF RP!RingInv, RP!RingTypeOK
<1>2. RP!NewestFirst'
  BY DEF RP!RingInv, RP!NewestFirst
<1>3. RP!OneLivePerHeight'
  BY DEF RP!RingInv, RP!OneLivePerHeight
<1>4. RP!ClockNeverRunsBack' /\ RP!SeqsBelowNext'
  BY DEF RP!RingInv, RP!ClockNeverRunsBack, RP!SeqsBelowNext
<1>5. RP!LiveOnTop'
  BY DEF RP!LiveOnTop
<1> QED
  BY <1>1, <1>2, <1>3, <1>4, <1>5 DEF RP!RingInv

-----------------------------------------------------------------------------
(* The shape of the state.                                                 *)

Shape ==
  /\ TailTypeOK
  /\ updates \in Seq(UpdateSet)
  /\ RP!RingInv /\ RP!LiveOnTop
  /\ chain # <<>> /\ abandoned # <<>> /\ reorgs \in Nat
  /\ \A i \in 1..Len(blocks) : Len(blocks[i].block.hash) = blocks[i].block.height
  /\ \A k \in 1..Len(updates) :
       updates[k].type = "MinedBlock" => Len(updates[k].block.hash) = updates[k].block.height
  /\ pc \in {"fill", "refetch"} => tip > 0
  /\ pc = "announce" => tip <= Len(last)
  /\ pc = "refetch" => last # NoBlock /\ tip > Len(last) /\ Floor <= Len(last) + 1

\* The parts of Shape that a step of the cycle can change.
ChannelShape ==
  /\ updates \in Seq(UpdateSet)
  /\ \A k \in 1..Len(updates) :
       updates[k].type = "MinedBlock" => Len(updates[k].block.hash) = updates[k].block.height

\* What is sent comes after what was.
LEMMA Sent ==
  ASSUME updates \in Seq(UpdateSet), NEW s \in Seq(UpdateSet), updates' = updates \o s
  PROVE  /\ updates' \in Seq(UpdateSet) /\ Len(updates) \in Nat /\ Len(s) \in Nat
         /\ Len(updates') = Len(updates) + Len(s)
         /\ \A k \in 1..Len(updates) : updates'[k] = updates[k] /\ updates[k] \in UpdateSet
         /\ \A k \in 1..Len(s) : updates'[Len(updates) + k] = s[k] /\ s[k] \in UpdateSet
         /\ \A k \in 1..Len(updates') :
              k \in 1..Len(updates) \/ \E i \in 1..Len(s) : k = Len(updates) + i
<1> DEFINE S == UpdateSet
<1>1. updates \in Seq(S) /\ s \in Seq(S)
  OBVIOUS
<1> HIDE DEF S
<1>2. /\ Len(updates) \in Nat /\ Len(s) \in Nat
      /\ \A k \in 1..Len(updates) : updates[k] \in S
      /\ \A k \in 1..Len(s) : s[k] \in S
  BY <1>1, LenProperties, ElementOfSeq
<1>3. /\ updates' \in Seq(S) /\ Len(updates') = Len(updates) + Len(s)
      /\ \A k \in 1..(Len(updates) + Len(s)) :
           updates'[k] = IF k <= Len(updates) THEN updates[k] ELSE s[k - Len(updates)]
  BY <1>1, ConcatProperties
<1>4. \A k \in 1..Len(updates) : updates'[k] = updates[k]
  BY <1>2, <1>3
<1>5. \A k \in 1..Len(s) : updates'[Len(updates) + k] = s[k]
  <2> TAKE k \in 1..Len(s)
  <2>1. /\ Len(updates) + k \in 1..(Len(updates) + Len(s)) /\ ~(Len(updates) + k <= Len(updates))
        /\ Len(updates) + k - Len(updates) = k
    BY <1>2
  <2> QED
    BY <1>3, <2>1
<1>6. \A k \in 1..Len(updates') :
        k \in 1..Len(updates) \/ \E i \in 1..Len(s) : k = Len(updates) + i
  <2> TAKE k \in 1..Len(updates')
  <2>1. CASE k <= Len(updates)
    BY <1>2, <1>3, <2>1
  <2>2. CASE ~(k <= Len(updates))
    <3>1. k - Len(updates) \in 1..Len(s) /\ k = Len(updates) + (k - Len(updates))
      BY <1>2, <1>3, <2>2
    <3> QED
      BY <3>1
  <2> QED
    BY <2>1, <2>2
<1> QED
  BY <1>2, <1>3, <1>4, <1>5, <1>6 DEF S

\* Updates whose blocks are named by their hashes keep the channel's shape.
LEMMA SentKeepsChannel ==
  ASSUME ChannelShape, NEW s \in Seq(UpdateSet), updates' = updates \o s,
         \A i \in 1..Len(s) : s[i].type = "MinedBlock" => Len(s[i].block.hash) = s[i].block.height
  PROVE  ChannelShape'
<1>1. /\ updates \in Seq(UpdateSet)
      /\ \A k \in 1..Len(updates) :
           updates[k].type = "MinedBlock" => Len(updates[k].block.hash) = updates[k].block.height
  BY DEF ChannelShape
<1>2. /\ updates' \in Seq(UpdateSet)
      /\ \A k \in 1..Len(updates) : updates'[k] = updates[k]
      /\ \A k \in 1..Len(s) : updates'[Len(updates) + k] = s[k]
      /\ \A k \in 1..Len(updates') :
           k \in 1..Len(updates) \/ \E i \in 1..Len(s) : k = Len(updates) + i
  BY <1>1, Sent
<1>3. ASSUME NEW k \in 1..Len(updates'), updates'[k].type = "MinedBlock"
      PROVE  Len(updates'[k].block.hash) = updates'[k].block.height
  <2>1. CASE k \in 1..Len(updates)
    BY <1>1, <1>2, <1>3, <2>1
  <2>2. CASE \E i \in 1..Len(s) : k = Len(updates) + i
    <3>1. PICK i \in 1..Len(s) : k = Len(updates) + i
      BY <2>2
    <3>2. updates'[k] = s[i]
      BY <1>2, <3>1
    <3> QED
      BY <1>3, <3>2
  <2> QED
    BY <1>2, <2>1, <2>2
<1> QED
  BY <1>2, <1>3 DEF ChannelShape

\* A delivery keeps it, and its last block is the first tip labels of the chain.
LEMMA DeliverShape ==
  ASSUME ChannelShape, chain \in Seq(Nat), tip \in Nat, NEW lo \in Nat, lo <= tip, CanServe(tip),
         Deliver(lo)
  PROVE  /\ ChannelShape' /\ last' = SubSeq(chain, 1, tip)
         /\ last' \in Seq(Nat) /\ Len(last') = tip
<1> DEFINE bs == BlockRange(lo, tip)
<1>1. tip <= Len(chain)
  BY DEF CanServe
<1>2. /\ bs \in Seq(ChainBlock) /\ Len(bs) = tip - lo + 1
      /\ \A i \in 1..Len(bs) : bs[i] = BlockAt(chain, lo + i - 1)
      /\ bs[Len(bs)].hash = SubSeq(chain, 1, tip)
      /\ Mined(bs) \in Seq(UpdateSet) /\ Len(Mined(bs)) = Len(bs)
      /\ \A i \in 1..Len(bs) : Mined(bs)[i] = [type |-> "MinedBlock", block |-> bs[i]]
  BY <1>1, RangeShape
<1>3. last' = SubSeq(chain, 1, tip) /\ updates' = updates \o Mined(bs)
  BY <1>2 DEF Deliver, Send
<1>4. \A i \in 1..Len(Mined(bs)) : Len(Mined(bs)[i].block.hash) = Mined(bs)[i].block.height
  <2> TAKE i \in 1..Len(Mined(bs))
  <2> HIDE DEF bs
  <2>1. i \in 1..Len(bs)
    BY <1>2
  <2>2. Mined(bs)[i].block = BlockAt(chain, lo + i - 1)
    <3>1. Mined(bs)[i] = [type |-> "MinedBlock", block |-> bs[i]] /\ bs[i] = BlockAt(chain, lo + i - 1)
      BY <1>2, <2>1, Zenon
    <3> QED
      BY <3>1
  <2>3. Len(chain) \in Nat
    BY LenProperties
  <2>4. lo + i - 1 \in Nat /\ lo + i - 1 <= Len(chain)
    <3>1. Len(bs) = tip - lo + 1
      BY <1>2
    <3> QED
      BY <1>1, <2>1, <2>3, <3>1
  <2> QED
    BY <2>2, <2>4, FirstN DEF BlockAt
<1> HIDE DEF bs
<1>5. ChannelShape'
  BY <1>2, <1>3, <1>4, SentKeepsChannel
<1> QED
  BY <1>1, <1>3, <1>5, FirstN

\* The App applies the oldest update.
LEMMA ApplyKeepsShape ==
  ASSUME Shape, Apply
  PROVE  Shape'
<1> DEFINE S == UpdateSet
           u == Head(updates)
<1>1. /\ updates \in Seq(S) /\ updates # <<>> /\ updates' = Tail(updates)
      /\ UNCHANGED <<serverVars, errors, tipErrors, cycleVars>>
  BY DEF Apply, Shape
<1> HIDE DEF S
<1>2. /\ Len(updates) \in Nat /\ Len(updates) >= 1
      /\ updates' \in Seq(S) /\ Len(updates') = Len(updates) - 1
      /\ u = updates[1] /\ u \in S
      /\ \A k \in 1..Len(updates') : updates'[k] = updates[k + 1]
      /\ \A k \in 1..Len(updates) : updates[k] \in S
  BY <1>1, HeadTailProperties, ElementOfSeq, LenProperties, EmptySeq
<1>3. /\ \A k \in 1..Len(updates') : k + 1 \in 1..Len(updates)
      /\ 1 \in 1..Len(updates)
  BY <1>2
<1>4. ChannelShape'
  BY <1>2, <1>3 DEF ChannelShape, Shape, S
<1>5. /\ u \in UpdateSet
      /\ u.type = "MinedBlock" => Len(u.block.hash) = u.block.height
  BY <1>2, <1>3 DEF Shape, S
<1> HIDE DEF u
<1>6. /\ u.type \in {"MinedBlock", "Reorg", "Block", "Phase"}
      /\ u.type = "MinedBlock" => u.block \in ChainBlock
      /\ u.type = "Reorg" => u.at \in Nat
      /\ u.type = "Block" => u.tip \in Nat
      /\ u.type = "Phase" => u.phase \in {"Connecting", "Live", "Reconnecting"}
  BY <1>5, UpdateKinds
<1>7. /\ u.type = "MinedBlock" => Ring!InsertBlock(u.block) /\ UNCHANGED <<phase, appTip>>
      /\ u.type = "Reorg" => Ring!MarkReorged(u.at) /\ UNCHANGED <<phase, appTip>>
      /\ u.type = "Block" => appTip' = u.tip /\ UNCHANGED <<phase, ringVars>>
      /\ u.type = "Phase" => phase' = u.phase /\ UNCHANGED <<appTip, ringVars>>
  BY DEF Apply, u
<1>8. /\ RP!RingInv' /\ RP!LiveOnTop'
      /\ \A i \in 1..Len(blocks') : Len(blocks'[i].block.hash) = blocks'[i].block.height
      /\ appTip' \in Nat /\ phase' \in {"Connecting", "Live", "Reconnecting"}
  <2>0. /\ RP!RingInv /\ RP!LiveOnTop
        /\ \A i \in 1..Len(blocks) : Len(blocks[i].block.hash) = blocks[i].block.height
        /\ appTip \in Nat /\ phase \in {"Connecting", "Live", "Reconnecting"}
    BY DEF Shape, TailTypeOK
  <2>1. CASE u.type = "MinedBlock"
    <3>1. RP!InsertBlock(u.block) /\ u.block \in ChainBlock /\ UNCHANGED <<phase, appTip>>
      BY <1>6, <1>7, <2>1, SameInsert
    <3>2. /\ blocks' \in Seq(RP!Row) /\ Len(blocks') <= MaxBlocks
          /\ RP!NewestFirst' /\ RP!OneLivePerHeight' /\ RP!SeqsBelowNext'
      BY <2>0, <3>1, SameAssumption, RP!InsertKeepsRows
    <3>3. /\ blockTimes' \in Seq(Nat) /\ Len(blockTimes') <= 1
          /\ RP!ClockNeverRunsBack'
      BY <2>0, <3>1, SameAssumption, RP!InsertKeepsClock
    <3>4. nextBlockSeq' \in Nat
      BY <2>0, <3>1 DEF RP!InsertBlock, RP!RingInv, RP!RingTypeOK
    <3>5. RP!RingInv'
      BY <3>2, <3>3, <3>4 DEF RP!RingInv, RP!RingTypeOK
    <3>6. RP!LiveOnTop'
      BY <2>0, <3>1, SameAssumption, RP!InsertKeepsTop
    <3>7. ASSUME NEW i \in 1..Len(blocks')
          PROVE  Len(blocks'[i].block.hash) = blocks'[i].block.height
      <4>1. \/ blocks'[i] = [block |-> u.block, seq |-> nextBlockSeq, reorged |-> FALSE]
            \/ \E j \in 1..Len(blocks) : blocks'[i] = blocks[j]
        BY <2>0, <3>1, SameAssumption, RP!InsertedRows
      <4> QED
        BY <1>5, <2>0, <2>1, <4>1
    <3> QED
      BY <2>0, <3>1, <3>5, <3>6, <3>7
  <2>2. CASE u.type = "Reorg"
    <3>1. RP!MarkReorged(u.at) /\ u.at \in Nat /\ UNCHANGED <<phase, appTip>>
      BY <1>6, <1>7, <2>2, SameMark
    <3>2. RP!RingInv' /\ RP!LiveOnTop'
      BY <2>0, <3>1, SameAssumption, RP!MarkKeepsInv, RP!MarkKeepsTop
    <3>3. /\ Len(blocks') = Len(blocks)
          /\ \A k \in 1..Len(blocks) : blocks'[k].block = blocks[k].block
      BY <2>0, <3>1, SameAssumption, RP!MarkedRows
    <3> QED
      BY <2>0, <3>1, <3>2, <3>3
  <2>3. CASE u.type \in {"Block", "Phase"}
    <3>1. blocks' = blocks /\ nextBlockSeq' = nextBlockSeq /\ blockTimes' = blockTimes
      BY <1>7, <2>3 DEF ringVars
    <3>2. RP!RingInv' /\ RP!LiveOnTop'
      BY <2>0, <3>1, RingStays
    <3>3. appTip' \in Nat /\ phase' \in {"Connecting", "Live", "Reconnecting"}
      BY <1>6, <1>7, <2>0, <2>3
    <3> QED
      BY <2>0, <3>1, <3>2, <3>3
  <2> QED
    BY <1>6, <2>1, <2>2, <2>3
<1>9. Ring!RingTypeOK'
  <2>1. RP!RingTypeOK'
    BY <1>8 DEF RP!RingInv
  <2> QED
    BY <2>1 DEF Ring!RingTypeOK, RP!RingTypeOK, Ring!Row, RP!Row
<1>10. /\ chain' = chain /\ abandoned' = abandoned /\ pc' = pc /\ boundary' = boundary
       /\ last' = last /\ tip' = tip /\ openedAt' = openedAt /\ owed' = owed
       /\ Floor' = Floor /\ reorgs' = reorgs
  BY <1>1 DEF serverVars, cycleVars, Floor, Sat
<1>11. \A i \in 1..Len(updates') : updates'[i] \in UpdateSet
  BY <1>2, <1>3 DEF S
<1>12. TailTypeOK'
  BY <1>8, <1>9, <1>10, <1>11 DEF Shape, TailTypeOK
<1> QED
  BY <1>4, <1>8, <1>10, <1>12 DEF Shape, ChannelShape

\* What a step sends besides blocks and reorgs: it names no tip above the block
\* last filled.
Quiet == {u \in UpdateSet : u.type = "Phase" \/ (u.type = "Block" /\ u.tip <= Len(last))}

\* A phase is quiet, alone or in a sequence.
LEMMA PhaseIsQuiet ==
  ASSUME NEW p \in {"Connecting", "Live", "Reconnecting"}
  PROVE  PhaseUpdate(p) \in Quiet /\ <<PhaseUpdate(p)>> \in Seq(Quiet)
BY DEF PhaseUpdate, Quiet, UpdateSet

\* Quiet updates bring no block and no reorg, and no tip the task has not filled.
LEMMA QuietSeq ==
  ASSUME NEW s \in Seq(Quiet)
  PROVE  /\ s \in Seq(UpdateSet)
         /\ \A i \in 1..Len(s) : /\ s[i].type \in {"Block", "Phase"}
                                 /\ s[i].type = "Block" => s[i].tip <= Len(last)
<1> DEFINE Q == Quiet
           U == UpdateSet
<1>1. s \in Seq(Q) /\ Q \subseteq U 
      /\ \A u \in Q : u.type \in {"Block", "Phase"} /\ (u.type = "Block" => u.tip <= Len(last))
  BY DEF Quiet
<1> HIDE DEF Q, U
<1>2. /\ s \in Seq(U)
      /\ \A i \in 1..Len(s) : s[i] \in Q
  BY <1>1, SeqMonotonic, ElementOfSeq
<1> QED
  BY <1>1, <1>2 DEF U

\* A step that sends no block and no reorg and leaves the rest of what the
\* properties are about alone.
Calm ==
  /\ \E s \in Seq(Quiet) : updates' = updates \o s
  /\ UNCHANGED <<serverVars, last, owed, appVars>>
  /\ pc' \in {"connect", "tip", "fill", "announce", "open", "stream", "backoff"}
  /\ boundary' \in BOOLEAN /\ openedAt' \in Seq(Nat) /\ tip' \in Nat
  /\ pc' = "fill" => tip' > 0
  /\ pc' = "announce" => tip' <= Len(last)

\* A failure announces itself after what was sent before it.
LEMMA FailIsQuiet ==
  ASSUME NEW sent \in Seq(Quiet), Fail(sent)
  PROVE  pc' = "backoff" /\ \E s \in Seq(Quiet) : updates' = updates \o s
<1> DEFINE Q == Quiet
           r == PhaseUpdate("Reconnecting")
<1>1. r \in Q /\ sent \in Seq(Q)
  BY PhaseIsQuiet
<1>2. pc' = "backoff" /\ updates' = updates \o Append(sent, r)
  BY DEF Fail, Send
<1> HIDE DEF Q, r
<1>3. Append(sent, r) \in Seq(Q)
  BY <1>1, AppendProperties
<1> QED
  BY <1>2, <1>3 DEF Q

\* A step that sends nothing sends only quiet updates.
LEMMA NothingSentIsQuiet ==
  ASSUME updates \in Seq(UpdateSet), updates' = updates
  PROVE  \E s \in Seq(Quiet) : updates' = updates \o s
<1> DEFINE U == UpdateSet
<1>1. updates \in Seq(U)
  OBVIOUS
<1> HIDE DEF U
<1>2. updates = updates \o <<>>
  BY <1>1, ConcatEmptySeq
<1>3. <<>> \in Seq(Quiet)
  OBVIOUS
<1> QED
  BY <1>2, <1>3

\* The steps of the tail task and the server, by what they do to the App's
\* future: nothing, a reorg, or a delivery.
StartsReorg ==
  /\ pc = "fill" /\ ~NothingNew /\ CanServe(tip) /\ Reorged(BlockRange(FillStart, tip))
  /\ StartRefetch
  /\ UNCHANGED <<serverVars, boundary, tip, openedAt, appVars>>

FillDelivers ==
  /\ pc = "fill" /\ ~NothingNew /\ CanServe(tip) /\ ~Reorged(BlockRange(FillStart, tip))
  /\ Deliver(FillStart)
  /\ UNCHANGED <<serverVars, boundary, tip, openedAt, appVars>>

RefetchDelivers ==
  /\ pc = "refetch" /\ CanServe(tip)
  /\ Deliver(RefetchFrom)
  /\ UNCHANGED <<serverVars, boundary, tip, openedAt, appVars>>

\* The server's steps keep a chain.
LEMMA ServerKeepsChain ==
  ASSUME Shape, Server
  PROVE  /\ chain' \in Seq(Nat) /\ chain' # <<>> /\ abandoned' \in Seq(Nat) /\ abandoned' # <<>>
         /\ reorgs' \in Nat
         /\ UNCHANGED <<cycleVars, updates, appVars>>
<1>1. /\ chain \in Seq(Nat) /\ abandoned \in Seq(Nat) /\ chain # <<>> /\ abandoned # <<>>
      /\ Len(chain) \in Nat /\ Len(abandoned) \in Nat /\ reorgs \in Nat
  BY LenProperties DEF Shape, TailTypeOK
<1>2. CASE ServerMine
  <2>1. chain[Len(chain)] \in Nat
    BY <1>1, ElementOfSeq, EmptySeq
  <2> QED
    BY <1>1, <1>2, <2>1, AppendProperties DEF ServerMine
<1>3. CASE ServerReorg
  <2>1. PICK c \in Contenders : /\ chain' = c /\ abandoned' = chain /\ reorgs' = reorgs + 1
                                /\ UNCHANGED <<cycleVars, updates, appVars>>
    BY <1>3 DEF ServerReorg
  <2>2. ASSUME NEW s \in Seq(Nat), NEW keep \in 1..Len(s), NEW n \in 0..2
        PROVE  Branch(s, keep, n) \in Seq(Nat) /\ Branch(s, keep, n) # <<>>
    <3>1. SubSeq(s, 1, keep) \in Seq(Nat) /\ Len(SubSeq(s, 1, keep)) = keep
      BY <2>2, LenProperties, FirstN
    <3>2. [i \in 1..n |-> reorgs + 1] \in Seq(Nat) /\ Len([i \in 1..n |-> reorgs + 1]) = n
      <4>1. [i \in 1..n |-> reorgs + 1] \in [1..n -> Nat] /\ n \in Nat
        BY <1>1, <2>2
      <4> QED
        BY <4>1, IsASeq, LenProperties
    <3>3. /\ Branch(s, keep, n) \in Seq(Nat)
          /\ Len(Branch(s, keep, n)) = keep + n
      BY <3>1, <3>2, ConcatProperties DEF Branch
    <3> QED
      BY <3>3, EmptySeq
  <2>3. CASE \E keep \in 1..(Len(chain) - 1), n \in 1..2 : c = Branch(chain, keep, n)
    <3>1. PICK keep \in 1..(Len(chain) - 1), n \in 1..2 : c = Branch(chain, keep, n)
      BY <2>3
    <3>2. keep \in 1..Len(chain) /\ n \in 0..2
      BY <1>1, <3>1
    <3>3. chain' \in Seq(Nat) /\ chain' # <<>>
      BY <1>1, <2>1, <2>2, <3>1, <3>2
    <3> QED
      BY <1>1, <2>1, <3>3
  <2>4. CASE \E n \in 0..1 : c = Branch(abandoned, Len(abandoned), n)
    <3>1. PICK n \in 0..1 : c = Branch(abandoned, Len(abandoned), n)
      BY <2>4
    <3>2. Len(abandoned) \in 1..Len(abandoned) /\ n \in 0..2
      BY <1>1, <3>1, EmptySeq
    <3>3. chain' \in Seq(Nat) /\ chain' # <<>>
      BY <1>1, <2>1, <2>2, <3>1, <3>2
    <3> QED
      BY <1>1, <2>1, <3>3
  <2> QED
    BY <2>3, <2>4 DEF Contenders
<1> QED
  BY <1>2, <1>3 DEF Server

\* Every step is one of six kinds.
LEMMA StepKinds ==
  ASSUME Shape, Next
  PROVE  Apply \/ StartsReorg \/ FillDelivers \/ RefetchDelivers \/ Server \/ Calm
<1>0. /\ updates \in Seq(UpdateSet) /\ boundary \in BOOLEAN /\ openedAt \in Seq(Nat)
      /\ tip \in Nat /\ Len(chain) \in Nat /\ Len(last) \in Nat
      /\ <<>> \in Seq(Nat) /\ chain \in Seq(Nat)
  BY LenProperties DEF Shape, TailTypeOK
<1>1. ASSUME updates' = updates PROVE \E s \in Seq(Quiet) : updates' = updates \o s
  BY <1>0, <1>1, NothingSentIsQuiet
<1>2. <<>> \in Seq(Quiet)
  OBVIOUS
<1>3. CASE Connect
  <2>1. ConnectSends \in Seq(Quiet)
    BY <1>2, PhaseIsQuiet DEF ConnectSends
  <2>2. /\ \E s \in Seq(Quiet) : updates' = updates \o s
        /\ pc' \in {"backoff", "tip"}
    BY <1>3, <2>1, FailIsQuiet DEF Connect, Send
  <2> QED
    BY <1>0, <1>3, <2>2 DEF Connect, Calm
<1>4. CASE ReadTip
  <2>1. tip' \in Nat /\ pc' = (IF tip' > 0 THEN "fill" ELSE "announce")
    BY <1>0, <1>4 DEF ReadTip
  <2>2. pc' \in {"fill", "announce"} /\ (pc' = "fill" => tip' > 0)
        /\ (pc' = "announce" => tip' <= Len(last))
    BY <1>0, <2>1
  <2> QED
    BY <1>0, <1>1, <1>4, <2>1, <2>2 DEF ReadTip, Calm
<1>5. CASE Fill
  <2>1. CASE NothingNew /\ pc' = "announce" /\ UNCHANGED <<errors, last, owed, updates>>
    BY <1>0, <1>1, <1>5, <2>1 DEF Fill, Calm, NothingNew
  <2>2. CASE Fail(<<>>) /\ UNCHANGED <<last, owed>>
    BY <1>0, <1>2, <1>5, <2>2, FailIsQuiet DEF Fill, Calm
  <2>3. CASE /\ ~NothingNew /\ CanServe(tip)
             /\ IF Reorged(BlockRange(FillStart, tip)) THEN StartRefetch ELSE Deliver(FillStart)
    BY <1>5, <2>3 DEF Fill, StartsReorg, FillDelivers
  <2> QED
    BY <1>5, <2>1, <2>2, <2>3 DEF Fill
<1>6. CASE Refetch
  <2>1. CASE Fail(<<>>) /\ UNCHANGED <<last, owed>>
    BY <1>0, <1>2, <1>6, <2>1, FailIsQuiet DEF Refetch, Calm
  <2>2. CASE CanServe(tip) /\ Deliver(RefetchFrom)
    BY <1>6, <2>2 DEF Refetch, RefetchDelivers
  <2> QED
    BY <1>6, <2>1, <2>2 DEF Refetch
<1>7. CASE LoseTip
  BY <1>0, <1>7, PhaseIsQuiet DEF LoseTip, Send, Calm
<1>8. CASE Announce
  <2>1. AnnounceSends \in Seq(Quiet)
    <3>1. [type |-> "Block", tip |-> tip] \in Quiet
      BY <1>0, <1>8 DEF Quiet, UpdateSet, Shape, Announce
    <3> QED
      BY <3>1, PhaseIsQuiet DEF AnnounceSends
  <2> QED
    BY <1>0, <1>8, <2>1 DEF Announce, Send, Calm
<1>9. CASE OpenMempool
  <2>1. \E s \in Seq(Quiet) : updates' = updates \o s
    BY <1>1, <1>2, <1>9, FailIsQuiet DEF OpenMempool
  <2>2. pc' \in {"stream", "backoff"} /\ openedAt' \in Seq(Nat)
    BY <1>0, <1>2, <1>9, FailIsQuiet DEF OpenMempool
  <2> QED
    BY <1>0, <1>9, <2>1, <2>2 DEF OpenMempool, Calm
<1>10. CASE StreamEnds
  BY <1>0, <1>1, <1>10 DEF StreamEnds, Calm, NextBoundary
<1>11. CASE StreamFails
  <2>1. pc' = "backoff" /\ \E s \in Seq(Quiet) : updates' = updates \o s
    BY <1>2, <1>11, FailIsQuiet DEF StreamFails
  <2> QED
    BY <1>0, <1>11, <2>1 DEF StreamFails, Calm
<1>12. CASE BackoffOver
  BY <1>0, <1>1, <1>12 DEF BackoffOver, Calm
<1> QED
  BY <1>3, <1>4, <1>5, <1>6, <1>7, <1>8, <1>9, <1>10, <1>11, <1>12 DEF Next, Cycle

\* A reorg is only found right above the block last filled.
LEMMA ReorgShape ==
  ASSUME Shape, TailAssumption, StartsReorg
  PROVE  /\ last # NoBlock /\ tip > Len(last) /\ tip > 0 /\ FillStart = Len(last) + 1
         /\ PrevHash(BlockRange(FillStart, tip)[1]) # last
         /\ Floor <= Len(last) + 1
         /\ RefetchFrom \in Nat /\ Floor <= RefetchFrom /\ RefetchFrom <= Len(last) + 1
         /\ updates' = updates \o <<[type |-> "Reorg", at |-> RefetchFrom]>>
         /\ owed' = owed \union (RefetchFrom..Len(last))
         /\ pc' = "refetch" /\ UNCHANGED <<serverVars, boundary, last, tip, openedAt, appVars>>
<1>1. Len(last) \in Nat /\ tip \in Nat /\ tip > 0 /\ last \in Seq(Nat)
  BY LenProperties DEF Shape, TailTypeOK, StartsReorg
<1>2. /\ last # NoBlock /\ FillStart = Len(last) + 1
      /\ PrevHash(BlockRange(FillStart, tip)[1]) # last
      /\ tip > Len(last)
  BY <1>1 DEF StartsReorg, Reorged, NothingNew
<1>3. /\ Floor \in Nat /\ Floor <= FillStart
      /\ last # NoBlock /\ Floor <= Len(last) + 1 =>
              /\ RefetchFrom \in Nat /\ Floor <= RefetchFrom /\ RefetchFrom <= tip
              /\ RefetchFrom <= Len(last) + 1
  BY <1>1, <1>2, WindowShape DEF TailAssumption
<1> HIDE DEF Floor, FillStart, RefetchFrom
<1>4. Floor <= Len(last) + 1
  BY <1>1, <1>2, <1>3
<1> QED
  BY <1>1, <1>2, <1>3, <1>4 DEF StartsReorg, StartRefetch, Send

\* A delivery from a height inside the window.
DeliversFrom(lo) ==
  /\ lo \in Nat /\ Floor <= lo /\ lo <= tip /\ tip > 0 /\ CanServe(tip)
  /\ last # NoBlock => tip > Len(last) /\ lo <= AtLeast(Floor, Len(last) + 1)
  /\ Deliver(lo)
  /\ UNCHANGED <<serverVars, boundary, tip, openedAt, appVars>>

\* A fill delivers the whole window, or the blocks that chain onto the last.
LEMMA FillShape ==
  ASSUME Shape, TailAssumption, FillDelivers
  PROVE  /\ DeliversFrom(FillStart) /\ Len(last) \in Nat /\ Floor \in Nat
         /\ last = NoBlock => FillStart = Floor
         /\ last # NoBlock =>
              \/ FillStart = Len(last) + 1 /\ PrevHash(BlockRange(FillStart, tip)[1]) = last
              \/ FillStart = Floor /\ Floor > Len(last) + 1
<1>1. Len(last) \in Nat /\ tip \in Nat /\ tip > 0 /\ last \in Seq(Nat)
  BY LenProperties DEF Shape, TailTypeOK, FillDelivers
<1>2. /\ last # NoBlock => tip > Len(last)
      /\ last # NoBlock /\ FillStart = Len(last) + 1 => PrevHash(BlockRange(FillStart, tip)[1]) = last
  BY <1>1 DEF FillDelivers, Reorged, NothingNew
<1>3. /\ Floor \in Nat /\ FillStart \in Nat /\ Floor <= FillStart /\ FillStart <= tip
      /\ last = NoBlock => FillStart = Floor
      /\ last # NoBlock => FillStart = Len(last) + 1 \/ (FillStart = Floor /\ Floor > Len(last) + 1)
  BY <1>1, <1>2, WindowShape DEF TailAssumption
<1> HIDE DEF Floor
<1>4. last # NoBlock => FillStart <= AtLeast(Floor, Len(last) + 1)
  BY <1>1, <1>3 DEF FillStart, AtLeast
<1> HIDE DEF FillStart
<1> QED
  BY <1>1, <1>2, <1>3, <1>4 DEF FillDelivers, DeliversFrom

\* A refetch delivers from a height no higher than the one right above the old tip.
LEMMA RefetchShape ==
  ASSUME Shape, TailAssumption, RefetchDelivers
  PROVE  /\ DeliversFrom(RefetchFrom) /\ Len(last) \in Nat /\ Floor \in Nat
         /\ last # NoBlock /\ RefetchFrom <= Len(last) + 1
         /\ RefetchFrom # Floor => RefetchFrom + ReorgDepth = Len(last)
<1>1. /\ Len(last) \in Nat /\ tip \in Nat /\ tip > 0 /\ last \in Seq(Nat)
      /\ last # NoBlock /\ tip > Len(last) /\ Floor <= Len(last) + 1
  BY LenProperties DEF Shape, TailTypeOK, RefetchDelivers
<1>2. /\ Floor \in Nat
      /\ last # NoBlock /\ Floor <= Len(last) + 1 =>
              /\ RefetchFrom \in Nat /\ Floor <= RefetchFrom /\ RefetchFrom <= tip
              /\ RefetchFrom <= Len(last) + 1
              /\ RefetchFrom # Floor => RefetchFrom + ReorgDepth = Len(last)
  BY <1>1, WindowShape DEF TailAssumption
<1> HIDE DEF Floor, RefetchFrom
<1>3. RefetchFrom <= AtLeast(Floor, Len(last) + 1)
  BY <1>1, <1>2 DEF AtLeast
<1> QED
  BY <1>1, <1>2, <1>3 DEF RefetchDelivers, DeliversFrom

\* Every step keeps the shape.
LEMMA ShapeKept ==
  ASSUME Shape, TailAssumption, [Next]_vars
  PROVE  Shape'
<1>0. ChannelShape /\ chain \in Seq(Nat) /\ tip \in Nat /\ last \in Seq(Nat)
  BY DEF Shape, ChannelShape, TailTypeOK
<1>1. CASE Apply
  BY <1>1, ApplyKeepsShape
\* The App's part of the shape moves with the App's variables alone.
<1>2. ASSUME UNCHANGED appVars
      PROVE  /\ RP!RingInv' /\ RP!LiveOnTop' /\ Ring!RingTypeOK'
             /\ appTip' \in Nat /\ phase' \in {"Connecting", "Live", "Reconnecting"}
             /\ \A i \in 1..Len(blocks') : Len(blocks'[i].block.hash) = blocks'[i].block.height
  <2>1. blocks' = blocks /\ nextBlockSeq' = nextBlockSeq /\ blockTimes' = blockTimes
        /\ appTip' = appTip /\ phase' = phase
    BY <1>2 DEF appVars, ringVars
  <2>2. RP!RingInv' /\ RP!LiveOnTop'
    BY <2>1, RingStays DEF Shape
  <2>3. Ring!RingTypeOK'
    BY <2>1 DEF Shape, TailTypeOK, Ring!RingTypeOK
  <2>4. appTip' \in Nat /\ phase' \in {"Connecting", "Live", "Reconnecting"}
    BY <2>1 DEF Shape, TailTypeOK
  <2>5. \A i \in 1..Len(blocks') : Len(blocks'[i].block.hash) = blocks'[i].block.height
    BY <2>1 DEF Shape
  <2> QED
    BY <2>2, <2>3, <2>4, <2>5
<1>3. ASSUME ChannelShape' PROVE \A i \in 1..Len(updates') : updates'[i] \in UpdateSet
  <2> DEFINE S == UpdateSet
  <2>1. updates' \in Seq(S)
    BY <1>3 DEF ChannelShape
  <2> HIDE DEF S
  <2>2. \A i \in 1..Len(updates') : updates'[i] \in S
    BY <2>1, ElementOfSeq
  <2> QED
    BY <2>2 DEF S
<1>4. CASE Server
  <2>1. /\ chain' \in Seq(Nat) /\ chain' # <<>> /\ abandoned' \in Seq(Nat) /\ abandoned' # <<>>
        /\ reorgs' \in Nat
        /\ UNCHANGED <<cycleVars, updates, appVars>>
    BY <1>4, ServerKeepsChain
  <2>2. /\ pc' = pc /\ boundary' = boundary /\ last' = last /\ tip' = tip
        /\ openedAt' = openedAt /\ owed' = owed /\ updates' = updates /\ Floor' = Floor
    BY <2>1 DEF cycleVars, Floor, Sat
  <2>3. TailTypeOK'
    BY <1>2, <2>1, <2>2 DEF Shape, TailTypeOK
  <2> QED
    BY <1>2, <2>1, <2>2, <2>3 DEF Shape
<1>5. CASE Calm
  <2>1. ChannelShape'
    <3>1. PICK s \in Seq(Quiet) : updates' = updates \o s
      BY <1>5 DEF Calm
    <3>2. /\ s \in Seq(UpdateSet)
          /\ \A i \in 1..Len(s) : s[i].type # "MinedBlock"
      BY QuietSeq
    <3> QED
      BY <1>0, <3>1, <3>2, SentKeepsChannel
  <2>2. /\ chain' = chain /\ abandoned' = abandoned /\ reorgs' = reorgs
        /\ last' = last /\ owed' = owed /\ UNCHANGED appVars
        /\ pc' \in {"connect", "tip", "fill", "announce", "open", "stream", "backoff"}
        /\ boundary' \in BOOLEAN /\ openedAt' \in Seq(Nat) /\ tip' \in Nat
        /\ pc' = "fill" => tip' > 0
        /\ pc' = "announce" => tip' <= Len(last)
    BY <1>5 DEF Calm, serverVars
  <2>3. TailTypeOK'
    BY <1>2, <1>3, <2>1, <2>2 DEF Shape, TailTypeOK
  <2> QED
    BY <1>2, <2>1, <2>2, <2>3 DEF Shape, ChannelShape
<1>6. CASE StartsReorg
  <2>1. /\ last # NoBlock /\ tip > Len(last) /\ tip > 0
        /\ Floor <= Len(last) + 1 /\ RefetchFrom \in Nat
        /\ updates' = updates \o <<[type |-> "Reorg", at |-> RefetchFrom]>>
        /\ owed' = owed \union (RefetchFrom..Len(last))
        /\ pc' = "refetch" /\ UNCHANGED <<serverVars, boundary, last, tip, openedAt, appVars>>
    BY <1>6, ReorgShape
  <2>2. ChannelShape'
    <3> DEFINE r == [type |-> "Reorg", at |-> RefetchFrom]
               S == UpdateSet
    <3>1. r \in S /\ r.type # "MinedBlock"
      BY <2>1 DEF UpdateSet
    <3>2. updates' = updates \o <<r>>
      BY <2>1
    <3> HIDE DEF r, S
    <3>3. <<r>> \in Seq(S) /\ Len(<<r>>) = 1 /\ <<r>>[1] = r
      BY <3>1
    <3>4. \A i \in 1..Len(<<r>>) : <<r>>[i].type # "MinedBlock"
      BY <3>1, <3>3
    <3> QED
      BY <1>0, <3>2, <3>3, <3>4, SentKeepsChannel DEF S
  <2>3. /\ chain' = chain /\ abandoned' = abandoned /\ reorgs' = reorgs
        /\ last' = last /\ boundary' = boundary /\ tip' = tip /\ openedAt' = openedAt
        /\ UNCHANGED appVars
        /\ Floor' = Floor
    BY <2>1 DEF serverVars, Floor, Sat
  <2>4. owed' \in SUBSET Nat
    <3>1. owed \in SUBSET Nat /\ Len(last) \in Nat
      BY <1>0, LenProperties DEF Shape, TailTypeOK
    <3>2. \A h \in RefetchFrom..Len(last) : h \in Nat
      BY <2>1, <3>1
    <3> QED
      BY <2>1, <3>1, <3>2
  <2>5. TailTypeOK'
    BY <1>2, <1>3, <2>1, <2>2, <2>3, <2>4 DEF Shape, TailTypeOK
  <2> QED
    BY <1>2, <2>1, <2>2, <2>3, <2>5 DEF Shape, ChannelShape
<1>7. ASSUME NEW lo, DeliversFrom(lo)
      PROVE  Shape'
  <2>1. /\ lo \in Nat /\ lo <= tip /\ CanServe(tip) /\ Deliver(lo)
        /\ UNCHANGED <<serverVars, boundary, tip, openedAt, appVars>>
    BY <1>7 DEF DeliversFrom
  <2>2. /\ ChannelShape' /\ last' = SubSeq(chain, 1, tip)
        /\ last' \in Seq(Nat) /\ Len(last') = tip
    BY <1>0, <2>1, DeliverShape
  <2>3. /\ chain' = chain /\ abandoned' = abandoned /\ reorgs' = reorgs
        /\ boundary' = boundary /\ tip' = tip /\ openedAt' = openedAt
        /\ UNCHANGED appVars
    BY <2>1 DEF serverVars
  <2>4. pc' = "announce" /\ owed' \in SUBSET Nat
    BY <2>1 DEF Deliver, Shape, TailTypeOK
  <2>5. TailTypeOK'
    BY <1>2, <1>3, <2>2, <2>3, <2>4 DEF Shape, TailTypeOK
  <2>6. tip' <= Len(last')
    BY <1>0, <2>2, <2>3
  <2> QED
    BY <1>2, <2>2, <2>3, <2>4, <2>5, <2>6 DEF Shape, ChannelShape
<1>8. CASE FillDelivers
  BY <1>7, <1>8, FillShape
<1>9. CASE RefetchDelivers
  BY <1>7, <1>9, RefetchShape
<1>10. CASE UNCHANGED vars
  <2>1. /\ UNCHANGED <<serverVars, cycleVars, updates, appVars>>
        /\ chain' = chain /\ abandoned' = abandoned /\ reorgs' = reorgs
        /\ pc' = pc /\ boundary' = boundary /\ last' = last /\ tip' = tip
        /\ openedAt' = openedAt /\ owed' = owed /\ updates' = updates /\ Floor' = Floor
    BY <1>10 DEF vars, serverVars, cycleVars, Floor, Sat
  <2>2. TailTypeOK'
    BY <1>2, <2>1 DEF Shape, TailTypeOK
  <2> QED
    BY <1>2, <2>1, <2>2 DEF Shape
<1> QED
  BY <1>1, <1>4, <1>5, <1>6, <1>8, <1>9, <1>10, StepKinds

\* The task and the App start in shape.
LEMMA ShapeAtStart ==
  ASSUME Init, TailAssumption
  PROVE  Shape
<1>1. /\ chain = <<0>> /\ abandoned = <<0>> /\ reorgs = 0 /\ pc = "connect" /\ boundary = FALSE
      /\ last = <<>> /\ tip = 0 /\ openedAt = <<>> /\ owed = {} /\ updates = <<>>
      /\ phase = "Connecting" /\ appTip = 0
      /\ blocks = <<>> /\ nextBlockSeq = 0 /\ blockTimes = <<>>
  BY DEF Init, NoBlock, Ring!RingInit
<1>2. /\ Len(updates) = 0 /\ Len(blocks) = 0 /\ Len(blockTimes) = 0
      /\ updates \in Seq(UpdateSet) /\ blocks \in Seq(RP!Row) /\ blocks \in Seq(Ring!Row)
      /\ blockTimes \in Seq(Nat)
      /\ chain \in Seq(Nat) /\ chain # <<>>
  BY <1>1
<1>3. RP!RingInv /\ RP!LiveOnTop /\ Ring!RingTypeOK
  BY <1>1, <1>2 DEF TailAssumption, RP!RingInv, RP!RingTypeOK, Ring!RingTypeOK, RP!NewestFirst,
    RP!OneLivePerHeight, RP!SeqsBelowNext, RP!ClockNeverRunsBack, RP!LiveOnTop
<1>4. TailTypeOK
  <2>1. /\ abandoned \in Seq(Nat) /\ last \in Seq(Nat) /\ openedAt \in Seq(Nat)
        /\ \A i \in 1..Len(updates) : FALSE
    BY <1>1, <1>2
  <2> QED
    BY <1>1, <1>2, <1>3, <2>1 DEF TailTypeOK
<1> QED
  BY <1>1, <1>2, <1>3, <1>4 DEF Shape

\* The task, the server and the App keep their shape.
LEMMA ShapeInvariant == Spec => []Shape
<1>1. Init => Shape
  BY ShapeAtStart, TailAssumption
<1>2. Shape /\ [Next]_vars => Shape'
  BY ShapeKept, TailAssumption
<1> QED
  BY <1>1, <1>2, PTL DEF Spec

\* The state of the task, of the channel and of the App keeps its type
\* (TailTypeOK): in particular the deque never outgrows its cap, whatever the
\* server does between two requests.
THEOREM TailTypeCorrect == Spec => []TailTypeOK
<1>1. Shape => TailTypeOK
  BY DEF Shape
<1> QED
  BY <1>1, ShapeInvariant, PTL

-----------------------------------------------------------------------------
(* What the App will show.                                                 *)

\* The updates that carry a block.
Pending == {k \in 1..Len(updates) : updates[k].type = "MinedBlock"}

\* No reorg after the k-th update reaches down to height h.
Spared(h, k) == \A j \in (k + 1)..Len(updates) : updates[j].type = "Reorg" => updates[j].at > h

\* Block b has a current row that will not be dimmed, or will get one, unless
\* newer rows take its place.
Stands(b) ==
  \/ \E i \in Live : blocks[i].block = b /\ Spared(b.height, 0)
  \/ \E k \in Pending : updates[k].block = b /\ Spared(b.height, k)

\* Height h has a row or a block on its way.
Shows(h) ==
  \/ \E i \in 1..Len(blocks) : blocks[i].block.height = h
  \/ \E k \in Pending : updates[k].block.height = h

\* The deque has no room for a row of height h, or will not have once the
\* updates are applied.
Full(h) == Len(blocks) = MaxBlocks /\ \A i \in 1..Len(blocks) : blocks[i].block.height > h
Covered(h) == \E lo \in Nat : lo > h /\ \A x \in lo..(lo + MaxBlocks - 1) : Shows(x)
PushedOut(h) == Full(h) \/ Covered(h)

\* Rows and blocks on their way are blocks with the height their hash has.
LEMMA StandingBlocks ==
  ASSUME Shape, TailAssumption
  PROVE  /\ Len(updates) \in Nat /\ Len(blocks) \in Nat
         /\ \A i \in 1..Len(blocks) :
              /\ blocks[i].block \in ChainBlock /\ blocks[i].block.height \in Nat
              /\ blocks[i].seq \in Nat
         /\ \A k \in 1..Len(updates) : updates[k] \in UpdateSet
         /\ \A k \in Pending : updates[k].block \in ChainBlock /\ updates[k].block.height \in Nat
         /\ \A b : Stands(b) => /\ b \in ChainBlock /\ b.height \in Nat /\ b.hash \in Seq(Nat)
                                /\ Len(b.hash) = b.height /\ Shows(b.height)
         /\ \A h : Shows(h) => h \in Nat
<1> DEFINE S == UpdateSet
<1>1. updates \in Seq(S) /\ blocks \in Seq(RP!Row)
  BY DEF Shape, RP!RingInv, RP!RingTypeOK
<1> HIDE DEF S
<1>2. Len(updates) \in Nat /\ \A k \in 1..Len(updates) : updates[k] \in S
  BY <1>1, LenProperties, ElementOfSeq
<1>3. /\ Len(blocks) \in Nat
      /\ \A i \in 1..Len(blocks) : blocks[i].block \in ChainBlock /\ blocks[i].block.height \in Nat
                                   /\ blocks[i].seq \in Nat
  BY <1>1, SameAssumption, RP!RowFields
<1>4. \A k \in Pending : updates[k].block \in ChainBlock
  BY <1>2, UpdateKinds DEF Pending, S
<1>5. \A b \in ChainBlock : b.height \in Nat /\ b.hash \in Seq(Nat)
  BY DEF ChainBlock
<1>6. ASSUME NEW b, Stands(b)
      PROVE  b \in ChainBlock /\ Len(b.hash) = b.height /\ Shows(b.height)
  <2>1. CASE \E i \in Live : blocks[i].block = b
    BY <1>3, <2>1 DEF Shape, Live, Shows
  <2>2. CASE \E k \in Pending : updates[k].block = b
    BY <1>4, <2>2 DEF Shape, Pending, Shows
  <2> QED
    BY <1>6, <2>1, <2>2 DEF Stands
<1>7. ASSUME NEW h, Shows(h) PROVE h \in Nat
  BY <1>3, <1>4, <1>5, <1>7 DEF Shows
<1> QED
  BY <1>2, <1>3, <1>4, <1>5, <1>6, <1>7 DEF S

\* What is sent spares a height when each reorg in it does.
LEMMA SentSpares ==
  ASSUME updates \in Seq(UpdateSet), NEW s \in Seq(UpdateSet), updates' = updates \o s, NEW h
  PROVE  /\ \A k \in 0..Len(updates) :
              Spared(h, k)' <=> /\ Spared(h, k)
                                /\ \A j \in 1..Len(s) : s[j].type = "Reorg" => s[j].at > h
         /\ (\A j \in 1..Len(s) : s[j].type # "Reorg") =>
               \A k \in 1..Len(s), m \in Nat : m = Len(updates) + k => Spared(h, m)'
<1>1. /\ Len(updates) \in Nat /\ Len(s) \in Nat
      /\ Len(updates') = Len(updates) + Len(s)
      /\ \A k \in 1..Len(updates) : updates'[k] = updates[k]
      /\ \A k \in 1..Len(s) : updates'[Len(updates) + k] = s[k]
      /\ \A k \in 1..Len(updates') :
           k \in 1..Len(updates) \/ \E i \in 1..Len(s) : k = Len(updates) + i
  BY Sent
<1>2. ASSUME NEW k \in 0..Len(updates), Spared(h, k)'
      PROVE  Spared(h, k) /\ \A j \in 1..Len(s) : s[j].type = "Reorg" => s[j].at > h
  <2>1. \A j \in (k + 1)..Len(updates') : updates'[j].type = "Reorg" => updates'[j].at > h
    BY <1>2 DEF Spared
  <2>2. \A j \in (k + 1)..Len(updates) : j \in (k + 1)..Len(updates') /\ j \in 1..Len(updates)
    BY <1>1
  <2>3. \A j \in 1..Len(s) : Len(updates) + j \in (k + 1)..Len(updates')
    BY <1>1
  <2> QED
    BY <1>1, <2>1, <2>2, <2>3 DEF Spared
<1>3. ASSUME NEW k \in 0..Len(updates), Spared(h, k),
             \A j \in 1..Len(s) : s[j].type = "Reorg" => s[j].at > h
      PROVE  Spared(h, k)'
  <2>1. SUFFICES ASSUME NEW j \in (k + 1)..Len(updates'), updates'[j].type = "Reorg"
                 PROVE  updates'[j].at > h
    BY DEF Spared
  <2>2. j \in 1..Len(updates') /\ j >= k + 1
    BY <1>1
  <2>3. CASE j \in 1..Len(updates)
    BY <1>1, <1>3, <2>1, <2>2, <2>3 DEF Spared
  <2>4. CASE \E i \in 1..Len(s) : j = Len(updates) + i
    BY <1>1, <1>3, <2>1, <2>4
  <2> QED
    BY <1>1, <2>2, <2>3, <2>4
<1>4. ASSUME NEW k \in 1..Len(s), \A j \in 1..Len(s) : s[j].type # "Reorg",
             NEW m \in Nat, m = Len(updates) + k
      PROVE  Spared(h, m)'
  <2>1. SUFFICES ASSUME NEW j \in (m + 1)..Len(updates'), updates'[j].type = "Reorg"
                 PROVE  FALSE
    BY DEF Spared
  <2>2. j \in 1..Len(updates') /\ j \notin 1..Len(updates)
    BY <1>1, <1>4
  <2>3. PICK i \in 1..Len(s) : j = Len(updates) + i
    BY <1>1, <2>2
  <2> QED
    BY <1>1, <1>4, <2>1, <2>3
<1> QED
  BY <1>2, <1>3, <1>4

\* The pending blocks after a sending: those from before and those sent.
LEMMA SentPending ==
  ASSUME updates \in Seq(UpdateSet), NEW s \in Seq(UpdateSet), updates' = updates \o s
  PROVE  /\ \A k \in Pending : k \in Pending' /\ k \in 0..Len(updates) /\ updates'[k] = updates[k]
         /\ \A k \in 1..Len(s) : s[k].type = "MinedBlock" =>
              Len(updates) + k \in Pending' /\ updates'[Len(updates) + k] = s[k]
         /\ \A k \in Pending' :
              \/ k \in Pending /\ k \in 0..Len(updates) /\ updates'[k] = updates[k]
              \/ \E i \in 1..Len(s) :
                   k = Len(updates) + i /\ s[i].type = "MinedBlock" /\ updates'[k] = s[i]
<1>1. /\ Len(updates) \in Nat /\ Len(s) \in Nat
      /\ Len(updates') = Len(updates) + Len(s)
      /\ \A k \in 1..Len(updates) : updates'[k] = updates[k]
      /\ \A k \in 1..Len(s) : updates'[Len(updates) + k] = s[k]
      /\ \A k \in 1..Len(updates') :
           k \in 1..Len(updates) \/ \E i \in 1..Len(s) : k = Len(updates) + i
  BY Sent
<1>2. \A k \in 1..Len(updates) : k \in 1..Len(updates') /\ k \in 0..Len(updates)
  BY <1>1
<1>3. \A k \in 1..Len(s) : Len(updates) + k \in 1..Len(updates')
  BY <1>1
<1>4. \A k \in Pending : k \in Pending' /\ k \in 0..Len(updates) /\ updates'[k] = updates[k]
  BY <1>1, <1>2 DEF Pending
<1>5. \A k \in 1..Len(s) : s[k].type = "MinedBlock" =>
        Len(updates) + k \in Pending' /\ updates'[Len(updates) + k] = s[k]
  BY <1>1, <1>3 DEF Pending
<1>6. ASSUME NEW k \in Pending'
      PROVE  \/ k \in Pending /\ k \in 0..Len(updates) /\ updates'[k] = updates[k]
             \/ \E i \in 1..Len(s) :
                  k = Len(updates) + i /\ s[i].type = "MinedBlock" /\ updates'[k] = s[i]
  <2>1. k \in 1..Len(updates') /\ updates'[k].type = "MinedBlock"
    BY DEF Pending
  <2>2. CASE k \in 1..Len(updates)
    BY <1>1, <1>2, <2>1, <2>2 DEF Pending
  <2>3. CASE \E i \in 1..Len(s) : k = Len(updates) + i
    BY <1>1, <2>1, <2>3
  <2> QED
    BY <1>1, <2>1, <2>2, <2>3
<1> QED
  BY <1>4, <1>5, <1>6

\* What sending does to what shows and to what is pushed out.
LEMMA SentShows ==
  ASSUME updates \in Seq(UpdateSet), NEW s \in Seq(UpdateSet), updates' = updates \o s,
         blocks' = blocks
  PROVE  /\ \A h : Shows(h)' <=> \/ Shows(h)
                                 \/ \E i \in 1..Len(s) : s[i].type = "MinedBlock" /\ s[i].block.height = h
         /\ \A h : PushedOut(h) => PushedOut(h)'
<1>1. /\ \A k \in Pending : k \in Pending' /\ updates'[k] = updates[k]
      /\ \A k \in 1..Len(s) : s[k].type = "MinedBlock" =>
           Len(updates) + k \in Pending' /\ updates'[Len(updates) + k] = s[k]
      /\ \A k \in Pending' :
           \/ k \in Pending /\ updates'[k] = updates[k]
           \/ \E i \in 1..Len(s) : s[i].type = "MinedBlock" /\ updates'[k] = s[i]
  BY SentPending
<1>2. ASSUME NEW h
      PROVE  Shows(h)' <=> \/ Shows(h)
                           \/ \E i \in 1..Len(s) : s[i].type = "MinedBlock" /\ s[i].block.height = h
  <2>1. ASSUME Shows(h)'
        PROVE  \/ Shows(h)
               \/ \E i \in 1..Len(s) : s[i].type = "MinedBlock" /\ s[i].block.height = h
    <3>1. CASE \E i \in 1..Len(blocks') : blocks'[i].block.height = h
      BY <3>1 DEF Shows
    <3>2. CASE \E k \in Pending' : updates'[k].block.height = h
      <4>1. PICK k \in Pending' : updates'[k].block.height = h
        BY <3>2
      <4>2. CASE k \in Pending /\ updates'[k] = updates[k]
        BY <4>1, <4>2 DEF Shows
      <4>3. CASE \E i \in 1..Len(s) : s[i].type = "MinedBlock" /\ updates'[k] = s[i]
        BY <4>1, <4>3
      <4> QED
        BY <1>1, <4>2, <4>3
    <3> QED
      BY <2>1, <3>1, <3>2 DEF Shows
  <2>2. Shows(h) => Shows(h)'
    BY <1>1 DEF Shows
  <2>3. ASSUME NEW i \in 1..Len(s), s[i].type = "MinedBlock", s[i].block.height = h
        PROVE  Shows(h)'
    BY <1>1, <2>3 DEF Shows
  <2> QED
    BY <2>1, <2>2, <2>3
<1>3. ASSUME NEW h, PushedOut(h) PROVE PushedOut(h)'
  <2>1. Full(h) => Full(h)'
    BY DEF Full
  <2>2. Covered(h) => Covered(h)'
    BY <1>2 DEF Covered
  <2> QED
    BY <1>3, <2>1, <2>2 DEF PushedOut
<1> QED
  BY <1>2, <1>3

\* What sending does to the blocks that stand.
LEMMA SentStands ==
  ASSUME updates \in Seq(UpdateSet), NEW s \in Seq(UpdateSet), updates' = updates \o s,
         blocks' = blocks
  PROVE  /\ \A b : Stands(b)' =>
              \/ Stands(b) /\ \A j \in 1..Len(s) : s[j].type = "Reorg" => s[j].at > b.height
              \/ \E i \in 1..Len(s) : s[i].type = "MinedBlock" /\ s[i].block = b
         /\ \A b : Stands(b) /\ (\A j \in 1..Len(s) : s[j].type = "Reorg" => s[j].at > b.height)
              => Stands(b)'
         /\ (\A j \in 1..Len(s) : s[j].type # "Reorg") =>
              \A i \in 1..Len(s) : s[i].type = "MinedBlock" => Stands(s[i].block)'
<1>1. /\ \A k \in Pending : k \in Pending' /\ k \in 0..Len(updates) /\ updates'[k] = updates[k]
      /\ \A k \in 1..Len(s) : s[k].type = "MinedBlock" =>
           Len(updates) + k \in Pending' /\ updates'[Len(updates) + k] = s[k]
      /\ \A k \in Pending' :
           \/ k \in Pending /\ k \in 0..Len(updates) /\ updates'[k] = updates[k]
           \/ \E i \in 1..Len(s) : s[i].type = "MinedBlock" /\ updates'[k] = s[i]
      /\ 0 \in 0..Len(updates) /\ Live' = Live
  <2>1. 0 \in 0..Len(updates) /\ Live' = Live
    BY Sent DEF Live
  <2> QED
    BY <2>1, SentPending
<1>2. \A h : /\ \A k \in 0..Len(updates) :
                  Spared(h, k)' <=> /\ Spared(h, k)
                                    /\ \A j \in 1..Len(s) : s[j].type = "Reorg" => s[j].at > h
             /\ (\A j \in 1..Len(s) : s[j].type # "Reorg") =>
                  \A k \in 1..Len(s), m \in Nat : m = Len(updates) + k => Spared(h, m)'
  BY SentSpares
<1>3. ASSUME NEW b, Stands(b)'
      PROVE  \/ Stands(b) /\ \A j \in 1..Len(s) : s[j].type = "Reorg" => s[j].at > b.height
             \/ \E i \in 1..Len(s) : s[i].type = "MinedBlock" /\ s[i].block = b
  <2>1. CASE \E i \in Live' : blocks'[i].block = b /\ Spared(b.height, 0)'
    BY <1>1, <1>2, <2>1 DEF Stands
  <2>2. CASE \E k \in Pending' : updates'[k].block = b /\ Spared(b.height, k)'
    <3>1. PICK k \in Pending' : updates'[k].block = b /\ Spared(b.height, k)'
      BY <2>2
    <3>2. CASE k \in Pending /\ k \in 0..Len(updates) /\ updates'[k] = updates[k]
      BY <1>2, <3>1, <3>2 DEF Stands
    <3>3. CASE \E i \in 1..Len(s) : s[i].type = "MinedBlock" /\ updates'[k] = s[i]
      BY <3>1, <3>3
    <3> QED
      BY <1>1, <3>2, <3>3
  <2> QED
    BY <1>3, <2>1, <2>2 DEF Stands
<1>4. ASSUME NEW b, Stands(b), \A j \in 1..Len(s) : s[j].type = "Reorg" => s[j].at > b.height
      PROVE  Stands(b)'
  <2>1. CASE \E i \in Live : blocks[i].block = b /\ Spared(b.height, 0)
    BY <1>1, <1>2, <1>4, <2>1 DEF Stands
  <2>2. CASE \E k \in Pending : updates[k].block = b /\ Spared(b.height, k)
    BY <1>1, <1>2, <1>4, <2>2 DEF Stands
  <2> QED
    BY <1>4, <2>1, <2>2 DEF Stands
<1>5. ASSUME \A j \in 1..Len(s) : s[j].type # "Reorg", NEW i \in 1..Len(s), s[i].type = "MinedBlock"
      PROVE  Stands(s[i].block)'
  <2>1. /\ Len(updates) + i \in Pending' /\ updates'[Len(updates) + i] = s[i]
        /\ Len(updates) + i \in Nat
    BY <1>1, <1>5, Sent
  <2>2. PICK m \in Pending' : updates'[m] = s[i] /\ Spared(s[i].block.height, m)'
    BY <1>2, <1>5, <2>1
  <2>3. updates'[m].block = s[i].block
    BY <2>2
  <2> QED
    BY <2>2, <2>3, Zenon DEF Stands
<1> QED
  BY <1>3, <1>4, <1>5

\* A step that is calm changes nothing of this.
LEMMA CalmKeeps ==
  ASSUME Shape, Calm
  PROVE  /\ \A b : Stands(b)' <=> Stands(b)
         /\ \A h : Shows(h)' <=> Shows(h)
         /\ \A h : PushedOut(h) => PushedOut(h)'
<1>1. PICK s \in Seq(Quiet) : updates' = updates \o s
  BY DEF Calm
<1>2. s \in Seq(UpdateSet) /\ \A i \in 1..Len(s) : s[i].type # "MinedBlock" /\ s[i].type # "Reorg"
  BY QuietSeq
<1>3. blocks' = blocks /\ updates \in Seq(UpdateSet)
  BY DEF Calm, appVars, ringVars, Shape
<1>4. \A b : Stands(b)' <=> Stands(b)
  <2>1. /\ \A b : Stands(b)' =>
              \/ Stands(b) /\ \A j \in 1..Len(s) : s[j].type = "Reorg" => s[j].at > b.height
              \/ \E i \in 1..Len(s) : s[i].type = "MinedBlock" /\ s[i].block = b
        /\ \A b : Stands(b) /\ (\A j \in 1..Len(s) : s[j].type = "Reorg" => s[j].at > b.height)
              => Stands(b)'
    BY <1>1, <1>2, <1>3, SentStands
  <2>2. \A j \in 1..Len(s) : s[j].type # "Reorg" /\ s[j].type # "MinedBlock"
    BY <1>2
  <2> QED
    BY <2>1, <2>2, Zenon
<1>5. \A h : (Shows(h)' <=> Shows(h)) /\ (PushedOut(h) => PushedOut(h)')
  BY <1>1, <1>2, <1>3, SentShows
<1> QED
  BY <1>4, <1>5

\* A reorg takes what stands at its height and above.
LEMMA ReorgClears ==
  ASSUME Shape, TailAssumption, StartsReorg
  PROVE  /\ \A b : Stands(b)' <=> Stands(b) /\ b.height < RefetchFrom
         /\ \A h : Shows(h)' <=> Shows(h)
         /\ \A h : PushedOut(h) => PushedOut(h)'
<1> DEFINE r == [type |-> "Reorg", at |-> RefetchFrom]
           S == UpdateSet
<1>1. /\ updates' = updates \o <<r>> /\ RefetchFrom \in Nat /\ blocks' = blocks
      /\ updates \in Seq(S)
  BY ReorgShape DEF appVars, ringVars, Shape
<1>2. r \in S /\ r.type = "Reorg" /\ r.at = RefetchFrom
  BY <1>1 DEF UpdateSet
<1> HIDE DEF r, S
<1>3. /\ <<r>> \in Seq(S) /\ Len(<<r>>) = 1 /\ <<r>>[1] = r
  BY <1>2
<1>4. \A i \in 1..Len(<<r>>) : <<r>>[i].type = "Reorg" /\ <<r>>[i].at = RefetchFrom
  BY <1>2, <1>3
<1>5. 1 \in 1..Len(<<r>>)
  BY <1>3
<1>6. \A b : Stands(b)' <=> Stands(b) /\ RefetchFrom > b.height
  <2> DEFINE s == <<r>>
  <2>1. /\ s \in Seq(S) /\ updates' = updates \o s
        /\ \A i \in 1..Len(s) : s[i].type = "Reorg" /\ s[i].at = RefetchFrom
        /\ 1 \in 1..Len(s)
    BY <1>1, <1>3, <1>4, <1>5
  <2> HIDE DEF s
  <2>2. /\ \A b : Stands(b)' =>
              \/ Stands(b) /\ \A j \in 1..Len(s) : s[j].type = "Reorg" => s[j].at > b.height
              \/ \E i \in 1..Len(s) : s[i].type = "MinedBlock" /\ s[i].block = b
        /\ \A b : Stands(b) /\ (\A j \in 1..Len(s) : s[j].type = "Reorg" => s[j].at > b.height)
              => Stands(b)'
    BY <1>1, <2>1, SentStands DEF S
  <2> QED
    BY <2>1, <2>2
<1>7. \A b : Stands(b) => b.height \in Nat
  BY StandingBlocks
<1>8. \A b : Stands(b) => (RefetchFrom > b.height <=> b.height < RefetchFrom)
  BY <1>1, <1>7
<1>9. \A h : (Shows(h)' <=> Shows(h)) /\ (PushedOut(h) => PushedOut(h)')
  <2> DEFINE s == <<r>>
  <2>1. /\ s \in Seq(S) /\ updates' = updates \o s
        /\ \A i \in 1..Len(s) : s[i].type # "MinedBlock"
    BY <1>1, <1>3, <1>4
  <2> HIDE DEF s
  <2> QED
    BY <1>1, <2>1, SentShows DEF S
<1> QED
  BY <1>6, <1>8, <1>9

\* A delivery adds the blocks of the chain from its height to the tip.
LEMMA DeliveryAdds ==
  ASSUME Shape, TailAssumption, NEW lo, DeliversFrom(lo)
  PROVE  /\ \A b : Stands(b)' => Stands(b) \/ \E h \in lo..tip : b = BlockAt(chain, h)
         /\ \A b : Stands(b) => Stands(b)'
         /\ \A h \in lo..tip : \E b : Stands(b)' /\ b.height = h
         /\ \A h : Shows(h)' <=> Shows(h) \/ h \in lo..tip
         /\ \A h : PushedOut(h) => PushedOut(h)'
         /\ last' = SubSeq(chain, 1, tip) /\ last' \in Seq(Nat) /\ Len(last') = tip
         /\ owed' = {h \in owed : h < lo /\ lo # Floor}
         /\ tip \in Nat /\ lo \in Nat /\ lo <= tip /\ tip <= Len(chain) /\ Len(chain) \in Nat
         /\ pc' = "announce" /\ chain' = chain /\ appTip' = appTip /\ blocks' = blocks
<1>1. /\ lo \in Nat /\ lo <= tip /\ CanServe(tip) /\ Deliver(lo)
      /\ tip \in Nat /\ Len(chain) \in Nat /\ chain \in Seq(Nat) /\ updates \in Seq(UpdateSet)
      /\ tip <= Len(chain)
      /\ pc' = "announce" /\ chain' = chain /\ appTip' = appTip /\ blocks' = blocks
      /\ owed' = {h \in owed : h < lo /\ lo # Floor}
  BY LenProperties
  DEF DeliversFrom, Deliver, Shape, TailTypeOK, CanServe, serverVars, appVars, ringVars
<1>2. last' = SubSeq(chain, 1, tip) /\ last' \in Seq(Nat) /\ Len(last') = tip
  <2>1. ChannelShape
    BY DEF Shape, ChannelShape
  <2> QED
    BY <1>1, <2>1, DeliverShape
<1>3. PICK bs : bs = BlockRange(lo, tip)
  OBVIOUS
<1>4. PICK s : s = Mined(bs)
  OBVIOUS
<1>5. /\ Len(bs) = tip - lo + 1
      /\ \A i \in 1..Len(bs) : bs[i] = BlockAt(chain, lo + i - 1)
      /\ s \in Seq(UpdateSet) /\ Len(s) = Len(bs)
      /\ \A i \in 1..Len(s) : s[i].type = "MinedBlock" /\ s[i].block = bs[i]
  <2>1. /\ Len(bs) = tip - lo + 1
        /\ \A i \in 1..Len(bs) : bs[i] = BlockAt(chain, lo + i - 1)
        /\ s \in Seq(UpdateSet) /\ Len(s) = Len(bs)
        /\ \A i \in 1..Len(bs) : s[i] = [type |-> "MinedBlock", block |-> bs[i]]
    <3>1. LET cs == BlockRange(lo, tip)
          IN  /\ cs \in Seq(ChainBlock) /\ Len(cs) = tip - lo + 1
              /\ \A i \in 1..Len(cs) : cs[i] = BlockAt(chain, lo + i - 1)
              /\ Mined(cs) \in Seq(UpdateSet) /\ Len(Mined(cs)) = Len(cs)
              /\ \A i \in 1..Len(cs) : Mined(cs)[i] = [type |-> "MinedBlock", block |-> cs[i]]
      BY <1>1, RangeShape
    <3> QED
      BY <1>3, <1>4, <3>1, Zenon
  <2> QED
    BY <2>1
<1>6. updates' = updates \o s
  BY <1>1, <1>3, <1>4 DEF Deliver, Send
<1>7. /\ \A i \in 1..Len(s) : /\ lo + i - 1 \in lo..tip
                              /\ s[i].type = "MinedBlock" /\ s[i].type # "Reorg"
                              /\ s[i].block = BlockAt(chain, lo + i - 1)
                              /\ s[i].block.height = lo + i - 1
      /\ \A h \in lo..tip : h - lo + 1 \in 1..Len(s) /\ h = lo + (h - lo + 1) - 1
  <2>1. /\ lo \in Nat /\ tip \in Nat /\ Len(s) = tip - lo + 1
        /\ \A i \in 1..Len(s) : lo + i - 1 \in lo..tip
        /\ \A h \in lo..tip : h - lo + 1 \in 1..Len(s) /\ h = lo + (h - lo + 1) - 1
    BY <1>1, <1>5
  <2>2. ASSUME NEW i \in 1..Len(s)
        PROVE  /\ s[i].type = "MinedBlock" /\ s[i].block = BlockAt(chain, lo + i - 1)
               /\ s[i].block.height = lo + i - 1
    <3>1. s[i].type = "MinedBlock" /\ s[i].block = BlockAt(chain, lo + i - 1)
      BY <1>5
    <3>2. BlockAt(chain, lo + i - 1).height = lo + i - 1
      BY DEF BlockAt
    <3> QED
      BY <3>1, <3>2
  <2> QED
    BY <2>1, <2>2
<1>8. \A h \in lo..tip : \E i \in 1..Len(s) : s[i].block.height = h
  BY <1>7
<1>9. /\ \A b : Stands(b)' => Stands(b) \/ \E i \in 1..Len(s) : s[i].block = b
      /\ \A b : Stands(b) => Stands(b)'
      /\ \A i \in 1..Len(s) : Stands(s[i].block)'
  <2>1. /\ \A b : Stands(b)' =>
              \/ Stands(b) /\ \A j \in 1..Len(s) : s[j].type = "Reorg" => s[j].at > b.height
              \/ \E i \in 1..Len(s) : s[i].type = "MinedBlock" /\ s[i].block = b
        /\ \A b : Stands(b) /\ (\A j \in 1..Len(s) : s[j].type = "Reorg" => s[j].at > b.height)
              => Stands(b)'
        /\ (\A j \in 1..Len(s) : s[j].type # "Reorg") =>
              \A i \in 1..Len(s) : s[i].type = "MinedBlock" => Stands(s[i].block)'
    BY <1>1, <1>5, <1>6, SentStands
  <2> QED
    BY <1>7, <2>1
<1>10. \A h : /\ Shows(h)' <=> Shows(h) \/ \E i \in 1..Len(s) : s[i].block.height = h
              /\ PushedOut(h) => PushedOut(h)'
  <2>1. /\ \A h : Shows(h)' <=> \/ Shows(h)
                                 \/ \E i \in 1..Len(s) : s[i].type = "MinedBlock" /\ s[i].block.height = h
        /\ \A h : PushedOut(h) => PushedOut(h)'
    BY <1>1, <1>5, <1>6, SentShows
  <2> QED
    BY <1>7, <2>1
<1>11. \A b : Stands(b)' => Stands(b) \/ \E h \in lo..tip : b = BlockAt(chain, h)
  BY <1>7, <1>9
<1>12. \A h \in lo..tip : \E b : Stands(b)' /\ b.height = h
  BY <1>8, <1>9
<1>13. \A h : Shows(h)' <=> Shows(h) \/ h \in lo..tip
  <2>1. \A i \in 1..Len(s) : s[i].block.height \in lo..tip
    BY <1>7
  <2> QED
    BY <1>8, <1>10, <2>1
<1> QED
  BY <1>1, <1>2, <1>9, <1>10, <1>11, <1>12, <1>13

-----------------------------------------------------------------------------
(* What applying an update does to it.                                     *)

\* The update applied leaves the channel; the others move up.
LEMMA Applied ==
  ASSUME Shape, Apply
  PROVE  /\ Len(updates) \in Nat /\ Len(updates) >= 1 /\ 1 \in 1..Len(updates)
         /\ Len(updates') = Len(updates) - 1
         /\ \A k \in 1..Len(updates') : updates'[k] = updates[k + 1] /\ k + 1 \in 1..Len(updates)
         /\ \A k \in 1..Len(updates) : k = 1 \/ (k - 1 \in 1..Len(updates') /\ updates'[k - 1] = updates[k])
         /\ \A k \in Pending' : k + 1 \in Pending /\ updates'[k] = updates[k + 1]
         /\ \A k \in Pending : k = 1 \/ (k - 1 \in Pending' /\ updates'[k - 1] = updates[k])
         /\ \A h : \A k \in Nat : Spared(h, k)' <=> Spared(h, k + 1)
         /\ \A h : Spared(h, 0) <=> (Spared(h, 0)' /\ (updates[1].type = "Reorg" => updates[1].at > h))
         /\ UNCHANGED <<serverVars, errors, tipErrors, cycleVars>>
<1> DEFINE S == UpdateSet
<1>1. /\ updates \in Seq(S) /\ updates # <<>> /\ updates' = Tail(updates)
      /\ UNCHANGED <<serverVars, errors, tipErrors, cycleVars>>
  BY DEF Apply, Shape
<1> HIDE DEF S
<1>2. /\ Len(updates) \in Nat /\ Len(updates) >= 1 /\ 1 \in 1..Len(updates)
      /\ Len(updates') = Len(updates) - 1
      /\ \A k \in 1..Len(updates') : updates'[k] = updates[k + 1]
  BY <1>1, HeadTailProperties, LenProperties, EmptySeq
<1>3. \A k \in 1..Len(updates') : updates'[k] = updates[k + 1] /\ k + 1 \in 1..Len(updates)
  BY <1>2
<1>4. \A k \in 1..Len(updates) :
        k = 1 \/ (k - 1 \in 1..Len(updates') /\ updates'[k - 1] = updates[k])
  <2> SUFFICES ASSUME NEW k \in 1..Len(updates), k # 1
               PROVE  k - 1 \in 1..Len(updates') /\ updates'[k - 1] = updates[k]
    OBVIOUS
  <2>1. k - 1 \in 1..Len(updates') /\ (k - 1) + 1 = k
    BY <1>2
  <2> QED
    BY <1>3, <2>1
<1>5. /\ \A k \in Pending' : k + 1 \in Pending /\ updates'[k] = updates[k + 1]
      /\ \A k \in Pending : k = 1 \/ (k - 1 \in Pending' /\ updates'[k - 1] = updates[k])
  BY <1>3, <1>4 DEF Pending
<1>6. ASSUME NEW h, NEW k \in Nat PROVE Spared(h, k)' <=> Spared(h, k + 1)
  <2>1. ASSUME Spared(h, k)' PROVE Spared(h, k + 1)
    <3>1. SUFFICES ASSUME NEW j \in (k + 1 + 1)..Len(updates), updates[j].type = "Reorg"
                   PROVE  updates[j].at > h
      BY DEF Spared
    <3>2. j - 1 \in (k + 1)..Len(updates') /\ j \in 1..Len(updates) /\ j # 1
      BY <1>2
    <3>3. updates'[j - 1] = updates[j]
      BY <1>4, <3>2
    <3> QED
      BY <2>1, <3>1, <3>2, <3>3 DEF Spared
  <2>2. ASSUME Spared(h, k + 1) PROVE Spared(h, k)'
    <3>1. SUFFICES ASSUME NEW j \in (k + 1)..Len(updates'), updates'[j].type = "Reorg"
                   PROVE  updates'[j].at > h
      BY DEF Spared
    <3>2. j + 1 \in (k + 1 + 1)..Len(updates) /\ j \in 1..Len(updates')
      BY <1>2
    <3> QED
      BY <1>3, <2>2, <3>1, <3>2 DEF Spared
  <2> QED
    BY <2>1, <2>2
<1>7. ASSUME NEW h
      PROVE  Spared(h, 0) <=> (Spared(h, 0)' /\ (updates[1].type = "Reorg" => updates[1].at > h))
  <2>1. Spared(h, 0)' <=> Spared(h, 1)
    BY <1>6
  <2>2. \A j \in 1..Len(updates) : j = 1 \/ j \in 2..Len(updates)
    BY <1>2
  <2>3. \A j \in 2..Len(updates) : j \in 1..Len(updates)
    BY <1>2
  <2>4. /\ Spared(h, 0) <=> \A j \in 1..Len(updates) : updates[j].type = "Reorg" => updates[j].at > h
        /\ Spared(h, 1) <=> \A j \in 2..Len(updates) : updates[j].type = "Reorg" => updates[j].at > h
    BY DEF Spared
  <2> QED
    BY <1>2, <2>1, <2>2, <2>3, <2>4
<1> QED
  BY <1>1, <1>2, <1>3, <1>4, <1>5, <1>6, <1>7

\* What an insertion does to the rows: it adds the current row of its block or
\* the deque is full above it, and it keeps each height and each current row of
\* another height or the deque is full above them.
LEMMA PlacedOrFull ==
  ASSUME Shape, TailAssumption, NEW b \in ChainBlock, Ring!InsertBlock(b)
  PROVE  /\ \A k \in 1..Len(blocks') :
              \/ blocks'[k].block = b
              \/ \E j \in 1..Len(blocks) : blocks'[k] = blocks[j]
         /\ (\E k \in Live' : blocks'[k].block = b) \/ Full(b.height)'
         /\ \A i \in Live, h \in Nat : h = blocks[i].block.height /\ h # b.height =>
              (\E k \in Live' : blocks'[k].block = blocks[i].block) \/ Full(h)'
         /\ \A i \in 1..Len(blocks), h \in Nat : h = blocks[i].block.height =>
              (\E k \in 1..Len(blocks') : blocks'[k].block.height = h) \/ Full(h)'
         /\ \A h \in Nat : Full(h) => Full(h)'
<1>1. /\ RP!RingInv /\ RP!RingAssumption /\ RP!InsertBlock(b) /\ RP!LiveOnTop
      /\ nextBlockSeq \in Nat /\ b.height \in Nat
  BY SameAssumption, SameInsert DEF Shape, RP!RingInv, RP!RingTypeOK, ChainBlock
<1>2. /\ blocks \in Seq(RP!Row) /\ blocks' \in Seq(RP!Row) /\ Len(blocks) \in Nat
      /\ \A i \in 1..Len(blocks) : /\ blocks[i].block.height \in Nat /\ blocks[i].seq \in Nat
                                   /\ blocks[i].seq < nextBlockSeq
  BY <1>1, RP!InsertKeepsRows, RP!RowFields DEF RP!RingInv, RP!RingTypeOK, RP!SeqsBelowNext
<1>3. /\ Len(blocks') \in Nat
      /\ \A k \in 1..Len(blocks') : blocks'[k].block.height \in Nat /\ blocks'[k].seq \in Nat
  BY <1>1, <1>2, RP!RowFields
<1>4. PICK row : row = [block |-> b, seq |-> nextBlockSeq, reorged |-> FALSE]
  OBVIOUS
<1>5. row.block = b /\ row.seq = nextBlockSeq /\ ~row.reorged
  BY <1>4
<1>6. ASSUME NEW k \in 1..Len(blocks')
      PROVE  \/ blocks'[k] = row
             \/ \E j \in 1..Len(blocks) :
                  /\ blocks'[k] = blocks[j]
                  /\ ~(blocks[j].block.height = b.height /\ ~blocks[j].reorged)
  BY <1>1, <1>4, RP!InsertedRows
\* A row that is dropped has newer rows above it; of its own height only if one
\* was inserted later.
<1>7. ASSUME NEW r, \/ r = row
                    \/ \E j \in 1..Len(blocks) :
                         /\ r = blocks[j]
                         /\ ~(blocks[j].block.height = b.height /\ ~blocks[j].reorged)
      PROVE  \/ \E k \in 1..Len(blocks') : blocks'[k] = r
             \/ /\ Len(blocks') = MaxBlocks
                /\ \A k \in 1..Len(blocks') :
                     \/ blocks'[k].block.height > r.block.height
                     \/ blocks'[k].block.height = r.block.height /\ blocks'[k].seq > r.seq
  BY <1>1, <1>4, <1>7, RP!KeptOrDropped
<1>8. (\E k \in Live' : blocks'[k].block = b) \/ Full(b.height)'
  <2>1. CASE \E k \in 1..Len(blocks') : blocks'[k] = row
    BY <1>5, <2>1 DEF Live
  <2>2. CASE /\ Len(blocks') = MaxBlocks
             /\ \A k \in 1..Len(blocks') :
                  \/ blocks'[k].block.height > row.block.height
                  \/ blocks'[k].block.height = row.block.height /\ blocks'[k].seq > row.seq
    <3>1. ASSUME NEW k \in 1..Len(blocks') PROVE blocks'[k].seq <= nextBlockSeq
      <4>1. CASE blocks'[k] = row
        BY <1>1, <1>5, <4>1
      <4>2. CASE \E j \in 1..Len(blocks) : blocks'[k] = blocks[j]
        <5>1. PICK j \in 1..Len(blocks) : blocks'[k] = blocks[j]
          BY <4>2
        <5>2. blocks[j].seq \in Nat /\ blocks[j].seq < nextBlockSeq
          BY <1>2
        <5> QED
          BY <1>1, <5>1, <5>2
      <4> QED
        BY <1>6, <4>1, <4>2
    <3>2. \A k \in 1..Len(blocks') : blocks'[k].block.height > b.height
      BY <1>1, <1>3, <1>5, <2>2, <3>1
    <3> QED
      BY <2>2, <3>2 DEF Full
  <2> QED
    BY <1>7, <2>1, <2>2
<1>9. ASSUME NEW i \in Live, NEW h \in Nat, h = blocks[i].block.height, h # b.height
      PROVE  (\E k \in Live' : blocks'[k].block = blocks[i].block) \/ Full(h)'
  <2>1. i \in 1..Len(blocks) /\ ~blocks[i].reorged
    BY DEF Live
  <2>2. CASE \E k \in 1..Len(blocks') : blocks'[k] = blocks[i]
    BY <2>1, <2>2 DEF Live
  <2>3. CASE /\ Len(blocks') = MaxBlocks
             /\ \A k \in 1..Len(blocks') :
                  \/ blocks'[k].block.height > blocks[i].block.height
                  \/ /\ blocks'[k].block.height = blocks[i].block.height
                     /\ blocks'[k].seq > blocks[i].seq
    <3>1. ASSUME NEW k \in 1..Len(blocks'), blocks'[k].block.height = h PROVE FALSE
      <4>1. PICK j \in 1..Len(blocks) : blocks'[k] = blocks[j]
        BY <1>5, <1>6, <1>9, <3>1
      <4>2. blocks[j].block.height = h /\ blocks[j].seq > blocks[i].seq
        <5>1. blocks'[k].block.height = h /\ blocks[i].block.height = h /\ h \in Nat
          BY <1>9, <3>1
        <5>2. blocks'[k].seq > blocks[i].seq
          BY <2>3, <5>1
        <5> QED
          BY <3>1, <4>1, <5>2
      <4>3. ~(i < j) /\ i # j
        <5>1. /\ blocks[i].block.height = blocks[j].block.height
              /\ blocks[i].seq \in Nat /\ blocks[j].seq \in Nat /\ blocks[j].block.height \in Nat
          BY <1>2, <1>9, <2>1, <4>2
        <5>2. i < j => \/ blocks[i].block.height > blocks[j].block.height
                       \/ blocks[i].seq > blocks[j].seq
          BY <1>1, <2>1 DEF RP!RingInv, RP!NewestFirst
        <5> QED
          BY <4>2, <5>1, <5>2
      <4>4. j < i
        BY <1>2, <2>1, <4>3
      <4> QED
        BY <1>1, <1>9, <2>1, <4>2, <4>4 DEF RP!LiveOnTop
    <3> QED
      BY <1>3, <1>9, <2>3, <3>1 DEF Full
  <2> QED
    BY <1>7, <1>9, <2>1, <2>2, <2>3
<1>10. ASSUME NEW i \in 1..Len(blocks), NEW h \in Nat, h = blocks[i].block.height
       PROVE  (\E k \in 1..Len(blocks') : blocks'[k].block.height = h) \/ Full(h)'
  <2>1. CASE blocks[i].block.height = b.height /\ ~blocks[i].reorged
    BY <1>8, <1>10, <2>1 DEF Live
  <2>2. CASE ~(blocks[i].block.height = b.height /\ ~blocks[i].reorged)
    <3>1. CASE \E k \in 1..Len(blocks') : blocks'[k] = blocks[i]
      BY <1>10, <3>1
    <3>2. CASE /\ Len(blocks') = MaxBlocks
               /\ \A k \in 1..Len(blocks') :
                    \/ blocks'[k].block.height > blocks[i].block.height
                    \/ /\ blocks'[k].block.height = blocks[i].block.height
                       /\ blocks'[k].seq > blocks[i].seq
      BY <1>10, <3>2 DEF Full
    <3> QED
      BY <1>7, <2>2, <3>1, <3>2
  <2> QED
    BY <2>1, <2>2
<1>11. ASSUME NEW h \in Nat, Full(h) PROVE Full(h)'
  BY <1>1, <1>11, RP!FullStaysFull DEF Full
<1> QED
  BY <1>5, <1>6, <1>8, <1>9, <1>10, <1>11

\* Applying an update stands nothing new; what stood keeps a current row of its
\* height to come, every height keeps a row to come, or the deque is full above.
LEMMA ApplyKeeps ==
  ASSUME Shape, TailAssumption, Apply
  PROVE  /\ \A b : Stands(b)' => Stands(b)
         /\ \A b, h : Stands(b) /\ h = b.height => (\E c : Stands(c)' /\ c.height = h) \/ Full(h)'
         /\ \A h : Shows(h)' => Shows(h)
         /\ \A h : Shows(h) => Shows(h)' \/ Full(h)'
         /\ \A h \in Nat : Full(h) => Full(h)'
<1> DEFINE Kept == /\ \A b : Stands(b)' => Stands(b)
                   /\ \A b, h : Stands(b) /\ h = b.height =>
                        (\E c : Stands(c)' /\ c.height = h) \/ Full(h)'
                   /\ \A h : Shows(h)' => Shows(h)
                   /\ \A h : Shows(h) => Shows(h)' \/ Full(h)'
                   /\ \A h \in Nat : Full(h) => Full(h)'
<1>1. /\ Len(updates) \in Nat /\ Len(updates) >= 1 /\ 1 \in 1..Len(updates)
      /\ \A k \in Pending' : k + 1 \in Pending /\ updates'[k] = updates[k + 1]
      /\ \A k \in Pending : k = 1 \/ (k - 1 \in Pending' /\ updates'[k - 1] = updates[k])
      /\ \A h : \A k \in Nat : Spared(h, k)' <=> Spared(h, k + 1)
      /\ \A h : Spared(h, 0) <=> (Spared(h, 0)' /\ (updates[1].type = "Reorg" => updates[1].at > h))
  BY Applied
<1>2. PICK u : u = updates[1]
  OBVIOUS
<1>3. u \in UpdateSet /\ u = Head(updates)
  <2>1. \A k \in 1..Len(updates) : updates[k] \in UpdateSet
    BY StandingBlocks
  <2>2. Head(updates) = updates[1]
    BY HeadTailProperties, <1>1, EmptySeq DEF Shape
  <2> QED
    BY <1>1, <1>2, <2>1, <2>2
<1>4. /\ u.type \in {"MinedBlock", "Reorg", "Block", "Phase"}
      /\ u.type = "MinedBlock" => u.block \in ChainBlock
      /\ u.type = "Reorg" => u.at \in Nat
  BY <1>3, UpdateKinds
<1>5. /\ u.type = "MinedBlock" => Ring!InsertBlock(u.block)
      /\ u.type = "Reorg" => Ring!MarkReorged(u.at)
      /\ u.type \in {"Block", "Phase"} => UNCHANGED ringVars
  BY <1>3 DEF Apply
\* The pending blocks after the first keep their places.
<1>6. /\ \A b : (\E k \in Pending' : updates'[k].block = b /\ Spared(b.height, k)') =>
              \E k \in Pending : updates[k].block = b /\ Spared(b.height, k)
      /\ \A b : (\E k \in Pending : k # 1 /\ updates[k].block = b /\ Spared(b.height, k)) => Stands(b)'
      /\ \A h : (\E k \in Pending' : updates'[k].block.height = h) => Shows(h)
      /\ \A h : (\E k \in Pending : k # 1 /\ updates[k].block.height = h) => Shows(h)'
  <2>1. /\ \A k \in Pending' : k \in Nat
        /\ \A k \in Pending : k \in 1..Len(updates)
    BY DEF Pending
  <2>2. ASSUME NEW b, NEW k \in Pending', updates'[k].block = b, Spared(b.height, k)'
        PROVE  \E m \in Pending : updates[m].block = b /\ Spared(b.height, m)
    BY <1>1, <2>1, <2>2
  <2>3. ASSUME NEW b, NEW k \in Pending, k # 1, updates[k].block = b, Spared(b.height, k)
        PROVE  Stands(b)'
    <3>1. k - 1 \in Pending' /\ updates'[k - 1] = updates[k] /\ k - 1 \in Nat /\ (k - 1) + 1 = k
      BY <1>1, <2>1, <2>3
    <3>2. PICK m \in Pending' : m \in Nat /\ m + 1 = k /\ updates'[m] = updates[k]
      BY <3>1
    <3>3. Spared(b.height, m)'
      BY <1>1, <2>3, <3>2
    <3> QED
      BY <2>3, <3>2, <3>3 DEF Stands
  <2>4. ASSUME NEW h, NEW k \in Pending', updates'[k].block.height = h PROVE Shows(h)
    BY <1>1, <2>4 DEF Shows
  <2>5. ASSUME NEW h, NEW k \in Pending, k # 1, updates[k].block.height = h PROVE Shows(h)'
    BY <1>1, <2>5 DEF Shows
  <2> QED
    BY <2>2, <2>3, <2>4, <2>5
<1>7. CASE u.type = "MinedBlock"
  <2>1. PICK b0 \in ChainBlock : b0 = u.block
    BY <1>4, <1>7
  <2>2. /\ \A k \in 1..Len(blocks') :
              \/ blocks'[k].block = b0
              \/ \E j \in 1..Len(blocks) : blocks'[k] = blocks[j]
        /\ (\E k \in Live' : blocks'[k].block = b0) \/ Full(b0.height)'
        /\ \A i \in Live, h \in Nat : h = blocks[i].block.height /\ h # b0.height =>
              (\E k \in Live' : blocks'[k].block = blocks[i].block) \/ Full(h)'
        /\ \A i \in 1..Len(blocks), h \in Nat : h = blocks[i].block.height =>
              (\E k \in 1..Len(blocks') : blocks'[k].block.height = h) \/ Full(h)'
        /\ \A h \in Nat : Full(h) => Full(h)'
    BY <1>5, <1>7, <2>1, PlacedOrFull
  <2>3. 1 \in Pending /\ updates[1].block = b0
    BY <1>1, <1>2, <1>7, <2>1 DEF Pending
  <2>4. \A h : /\ Spared(h, 0)' <=> Spared(h, 1)
               /\ Spared(h, 0) <=> Spared(h, 0)'
    BY <1>1, <1>2, <1>7
  <2>5. /\ \A i \in 1..Len(blocks) : blocks[i].block.height \in Nat
        /\ b0.height \in Nat
    BY StandingBlocks DEF ChainBlock
  <2>6. ASSUME NEW b, Stands(b)' PROVE Stands(b)
    <3>1. CASE \E k \in Live' : blocks'[k].block = b /\ Spared(b.height, 0)'
      <4>1. PICK k \in Live' : blocks'[k].block = b /\ Spared(b.height, 0)'
        BY <3>1
      <4>2. k \in 1..Len(blocks') /\ ~blocks'[k].reorged
        BY <4>1 DEF Live
      <4>3. CASE b = b0
        BY <2>3, <2>4, <4>1, <4>3 DEF Stands
      <4>4. CASE \E j \in 1..Len(blocks) : blocks'[k] = blocks[j]
        BY <2>4, <4>1, <4>2, <4>4 DEF Stands, Live
      <4> QED
        BY <2>2, <4>1, <4>2, <4>3, <4>4
    <3>2. CASE \E k \in Pending' : updates'[k].block = b /\ Spared(b.height, k)'
      BY <1>6, <3>2 DEF Stands
    <3> QED
      BY <2>6, <3>1, <3>2 DEF Stands
  <2>7. ASSUME NEW h, h = b0.height, Spared(h, 0)'
        PROVE  (\E c : Stands(c)' /\ c.height = h) \/ Full(h)'
    BY <2>2, <2>7 DEF Stands
  <2>8. ASSUME NEW b, NEW h, Stands(b), h = b.height
        PROVE  (\E c : Stands(c)' /\ c.height = h) \/ Full(h)'
    <3>1. CASE \E i \in Live : blocks[i].block = b /\ Spared(b.height, 0)
      <4>1. PICK i \in Live : blocks[i].block = b /\ Spared(b.height, 0)
        BY <3>1
      <4>2. h \in Nat /\ Spared(h, 0)'
        BY <2>4, <2>5, <2>8, <4>1 DEF Live
      <4>3. CASE h = b0.height
        BY <2>7, <4>2, <4>3
      <4>4. CASE h # b0.height
        <5>1. (\E k \in Live' : blocks'[k].block = b) \/ Full(h)'
          BY <2>2, <2>8, <4>1, <4>2, <4>4
        <5>2. CASE \E k \in Live' : blocks'[k].block = b
          BY <2>8, <4>2, <5>2 DEF Stands
        <5> QED
          BY <5>1, <5>2
      <4> QED
        BY <4>3, <4>4
    <3>2. CASE \E k \in Pending : updates[k].block = b /\ Spared(b.height, k)
      <4>1. PICK k \in Pending : updates[k].block = b /\ Spared(b.height, k)
        BY <3>2
      <4>2. CASE k = 1
        BY <2>3, <2>4, <2>7, <2>8, <4>1, <4>2
      <4>3. CASE k # 1
        BY <1>6, <2>8, <4>1, <4>3
      <4> QED
        BY <4>2, <4>3
    <3> QED
      BY <2>8, <3>1, <3>2 DEF Stands
  <2>9. ASSUME NEW h, Shows(h)' PROVE Shows(h)
    <3>1. CASE \E k \in 1..Len(blocks') : blocks'[k].block.height = h
      BY <2>2, <2>3, <3>1 DEF Shows
    <3>2. CASE \E k \in Pending' : updates'[k].block.height = h
      BY <1>6, <3>2
    <3> QED
      BY <2>9, <3>1, <3>2 DEF Shows
  <2>10. ASSUME NEW h, Shows(h) PROVE Shows(h)' \/ Full(h)'
    <3>1. CASE \E i \in 1..Len(blocks) : blocks[i].block.height = h
      BY <2>2, <2>5, <3>1 DEF Shows
    <3>2. CASE \E k \in Pending : updates[k].block.height = h
      <4>1. CASE h = b0.height
        BY <2>2, <4>1 DEF Shows, Live
      <4>2. CASE \E k \in Pending : k # 1 /\ updates[k].block.height = h
        BY <1>6, <4>2
      <4> QED
        BY <2>3, <3>2, <4>1, <4>2
    <3> QED
      BY <2>10, <3>1, <3>2 DEF Shows
  <2> QED
    BY <2>2, <2>6, <2>8, <2>9, <2>10
<1>8. ASSUME Len(blocks') = Len(blocks),
             \A i \in 1..Len(blocks) : blocks'[i].block = blocks[i].block,
             \A h : \A i \in 1..Len(blocks) : h = blocks[i].block.height =>
               (~blocks'[i].reorged /\ Spared(h, 0)' <=> ~blocks[i].reorged /\ Spared(h, 0)),
             u.type # "MinedBlock"
      PROVE  Kept
  <2>1. 1 \notin Pending
    BY <1>2, <1>8 DEF Pending
  <2>2. /\ \A b : (\E i \in Live' : blocks'[i].block = b /\ Spared(b.height, 0)') =>
              \E i \in Live : blocks[i].block = b /\ Spared(b.height, 0)
        /\ \A b : (\E i \in Live : blocks[i].block = b /\ Spared(b.height, 0)) =>
              \E i \in Live' : blocks'[i].block = b /\ Spared(b.height, 0)'
    BY <1>8 DEF Live
  <2>3. \A b : Stands(b)' => Stands(b)
    BY <1>6, <2>2 DEF Stands
  <2>4. \A b : Stands(b) => Stands(b)'
    BY <1>6, <2>1, <2>2 DEF Stands
  <2>5. \A h : (\E i \in 1..Len(blocks') : blocks'[i].block.height = h) <=>
               (\E i \in 1..Len(blocks) : blocks[i].block.height = h)
    BY <1>8
  <2>6. \A h : Shows(h)' => Shows(h)
    BY <1>6, <2>5 DEF Shows
  <2>7. \A h : Shows(h) => Shows(h)'
    BY <1>6, <2>1, <2>5 DEF Shows
  <2>8. \A h \in Nat : Full(h) => Full(h)'
    BY <1>8 DEF Full
  <2> QED
    BY <2>3, <2>4, <2>6, <2>7, <2>8
<1>9. CASE u.type = "Reorg"
  <2>1. /\ Len(blocks') = Len(blocks)
        /\ \A i \in 1..Len(blocks) :
             /\ blocks'[i].block = blocks[i].block
             /\ blocks'[i].reorged <=> (blocks[i].reorged \/ blocks[i].block.height >= u.at)
    BY <1>4, <1>5, <1>9, SameMark, SameAssumption, RP!MarkedRows DEF Shape
  <2>2. ASSUME NEW h, NEW i \in 1..Len(blocks), h = blocks[i].block.height
        PROVE  ~blocks'[i].reorged /\ Spared(h, 0)' <=> ~blocks[i].reorged /\ Spared(h, 0)
    <3>1. h \in Nat /\ u.at \in Nat
      BY <1>4, <1>9, <2>2, StandingBlocks
    <3>2. Spared(h, 0) <=> (Spared(h, 0)' /\ u.at > h)
      BY <1>1, <1>2, <1>9
    <3> QED
      BY <2>1, <2>2, <3>1, <3>2
  <2> QED
    BY <1>8, <1>9, <2>1, <2>2
<1>10. CASE u.type \in {"Block", "Phase"}
  <2>1. blocks' = blocks
    BY <1>5, <1>10 DEF ringVars
  <2>2. \A h : Spared(h, 0) <=> Spared(h, 0)'
    BY <1>1, <1>2, <1>10
  <2> QED
    BY <1>8, <1>10, <2>1, <2>2
<1> QED
  BY <1>4, <1>7, <1>9, <1>10

\* What is pushed out stays so when an update is applied.
LEMMA ApplyKeepsPushed ==
  ASSUME Shape, TailAssumption, Apply, NEW h \in Nat, PushedOut(h)
  PROVE  PushedOut(h)'
<1>1. /\ \A x : Shows(x) => Shows(x)' \/ Full(x)'
      /\ \A x \in Nat : Full(x) => Full(x)'
  BY ApplyKeeps
<1>2. CASE Full(h)
  BY <1>1, <1>2 DEF PushedOut
<1>3. CASE Covered(h)
  <2>1. PICK lo \in Nat : lo > h /\ \A x \in lo..(lo + MaxBlocks - 1) : Shows(x)
    BY <1>3 DEF Covered
  <2>2. CASE \A x \in lo..(lo + MaxBlocks - 1) : Shows(x)'
    BY <2>1, <2>2 DEF Covered, PushedOut
  <2>3. CASE \E x \in lo..(lo + MaxBlocks - 1) : ~Shows(x)'
    <3>1. PICK x \in lo..(lo + MaxBlocks - 1) : Full(x)'
      BY <1>1, <2>1, <2>3
    <3>2. x \in Nat /\ x > h
      BY <2>1 DEF TailAssumption
    <3>3. /\ Len(blocks') = MaxBlocks
          /\ \A i \in 1..Len(blocks') : blocks'[i].block.height > x
      BY <3>1 DEF Full
    <3>4. \A i \in 1..Len(blocks') : blocks'[i].block.height \in Nat
      <4>1. Shape'
        BY ApplyKeepsShape
      <4>2. blocks' \in Seq(RP!Row)
        BY <4>1 DEF Shape, RP!RingInv, RP!RingTypeOK
      <4> QED
        BY <4>2, SameAssumption, RP!RowFields
    <3>5. \A i \in 1..Len(blocks') : blocks'[i].block.height > h
      BY <3>2, <3>3, <3>4
    <3> QED
      BY <3>3, <3>5 DEF Full, PushedOut
  <2> QED
    BY <2>2, <2>3
<1> QED
  BY <1>2, <1>3 DEF PushedOut

\* A step that touches neither the channel nor the deque changes nothing.
LEMMA StillKeeps ==
  ASSUME updates' = updates, blocks' = blocks
  PROVE  /\ \A b : Stands(b)' <=> Stands(b)
         /\ \A h : (Shows(h)' <=> Shows(h)) /\ (PushedOut(h)' <=> PushedOut(h))
<1>1. /\ Pending' = Pending /\ Live' = Live
      /\ \A h, k : Spared(h, k)' <=> Spared(h, k)
  BY DEF Pending, Live, Spared
<1>2. \A b : Stands(b)' <=> Stands(b)
  BY <1>1 DEF Stands
<1>3. \A h : Shows(h)' <=> Shows(h)
  BY <1>1 DEF Shows
<1>4. \A h : Full(h)' <=> Full(h)
  BY DEF Full
<1>5. \A h : Covered(h)' <=> Covered(h)
  BY <1>3 DEF Covered
<1> QED
  BY <1>2, <1>3, <1>4, <1>5 DEF PushedOut

-----------------------------------------------------------------------------
(* No gap: the heights below the block last filled are owed, or a block of *)
(* theirs stands, or the deque has no room for the row a gap would be      *)
(* above of.                                                               *)

Newest ==
  /\ last = NoBlock => \A h : ~Shows(h)
  /\ last # NoBlock => \E h \in Nat : h >= Len(last) /\ Shows(h)

NoHole ==
  last # NoBlock =>
    \A g, h \in Nat : Shows(g) /\ g <= h /\ h <= Len(last) =>
      h \in owed \/ (\E b : Stands(b) /\ b.height = h) \/ PushedOut(g)

\* No step leaves the last height filled above all that shows.
LEMMA NewestKept ==
  ASSUME Shape, TailAssumption, Newest, [Next]_vars
  PROVE  Newest'
<1>0. last \in Seq(Nat) /\ Len(last) \in Nat /\ NoBlock' = NoBlock
  BY LenProperties DEF Shape, TailTypeOK, NoBlock
<1>1. ASSUME last' = last, \A h : Shows(h)' <=> Shows(h)
      PROVE  Newest'
  BY <1>0, <1>1 DEF Newest
<1>2. CASE Apply
  <2>1. /\ \A h : Shows(h)' => Shows(h)
        /\ \A h : Shows(h) => Shows(h)' \/ Full(h)'
        /\ last' = last
    BY <1>2, ApplyKeeps, Applied DEF cycleVars
  <2>2. ASSUME last # NoBlock PROVE \E h \in Nat : h >= Len(last) /\ Shows(h)'
    <3>1. PICK h \in Nat : h >= Len(last) /\ Shows(h)
      BY <2>2 DEF Newest
    <3>2. CASE Full(h)'
      <4>1. 1 \in 1..Len(blocks') /\ blocks'[1].block.height > h
        <5>1. MaxBlocks \in Nat /\ MaxBlocks >= 1 /\ Len(blocks') = MaxBlocks
          BY <3>2 DEF TailAssumption, Full
        <5>2. 1 \in 1..Len(blocks')
          BY <5>1
        <5> QED
          BY <3>2, <5>2 DEF Full
      <4>2. blocks'[1].block.height \in Nat
        <5>1. blocks' \in Seq(RP!Row)
          BY <1>2, ApplyKeepsShape DEF Shape, RP!RingInv, RP!RingTypeOK
        <5> QED
          BY <4>1, <5>1, SameAssumption, RP!RowFields
      <4>3. PICK x \in Nat : x = blocks'[1].block.height
        BY <4>2
      <4>4. Shows(x)' /\ x >= Len(last)
        BY <1>0, <3>1, <4>1, <4>3 DEF Shows
      <4> QED
        BY <4>4
    <3> QED
      BY <2>1, <3>1, <3>2
  <2> QED
    BY <1>0, <2>1, <2>2 DEF Newest
<1>3. CASE StartsReorg
  BY <1>1, <1>3, ReorgClears, ReorgShape
<1>4. CASE Calm
  BY <1>1, <1>4, CalmKeeps DEF Calm
<1>5. ASSUME NEW lo, DeliversFrom(lo) PROVE Newest'
  <2>1. /\ \A h : Shows(h)' <=> Shows(h) \/ h \in lo..tip
        /\ Len(last') = tip /\ tip \in Nat /\ lo \in Nat /\ lo <= tip
    BY <1>5, DeliveryAdds
  <2>3. PICK t \in Nat : t = tip
    BY <2>1
  <2>4. Shows(t)' /\ t >= Len(last')
    BY <2>1, <2>3
  <2>5. last' # NoBlock
    <3>1. tip > 0 /\ Len(last') = tip
      BY <1>5, <2>1 DEF DeliversFrom
    <3> QED
      BY <2>1, <3>1 DEF NoBlock
  <2> QED
    BY <1>0, <2>4, <2>5 DEF Newest
<1>6. CASE FillDelivers
  BY <1>5, <1>6, FillShape
<1>7. CASE RefetchDelivers
  BY <1>5, <1>7, RefetchShape
<1>8. CASE Server
  BY <1>1, <1>8, ServerKeepsChain, StillKeeps DEF cycleVars, appVars, ringVars
<1>9. CASE UNCHANGED vars
  BY <1>1, <1>9, StillKeeps DEF vars, cycleVars, appVars, ringVars
<1> QED
  BY <1>2, <1>3, <1>4, <1>6, <1>7, <1>8, <1>9, StepKinds

\* No step leaves a hole in the heights that stand.
LEMMA NoHoleKept ==
  ASSUME Shape, TailAssumption, Newest, NoHole, [Next]_vars
  PROVE  NoHole'
<1>0. /\ last \in Seq(Nat) /\ Len(last) \in Nat /\ NoBlock' = NoBlock
      /\ \A b : Stands(b) => b.height \in Nat
      /\ \A h : Shows(h) => h \in Nat
  BY LenProperties, StandingBlocks DEF Shape, TailTypeOK, NoBlock
<1>1. ASSUME last' = last, owed' = owed, \A b : Stands(b)' <=> Stands(b),
             \A h : (Shows(h)' <=> Shows(h)) /\ (PushedOut(h) => PushedOut(h)')
      PROVE  NoHole'
  BY <1>0, <1>1 DEF NoHole
<1>2. CASE Apply
  <2>1. /\ \A b, h : Stands(b) /\ h = b.height => (\E c : Stands(c)' /\ c.height = h) \/ Full(h)'
        /\ \A h : Shows(h)' => Shows(h)
        /\ last' = last /\ owed' = owed
    BY <1>2, ApplyKeeps, Applied DEF cycleVars
  <2>2. SUFFICES ASSUME last # NoBlock, NEW g \in Nat, NEW h \in Nat, Shows(g)', g <= h, h <= Len(last)
                 PROVE  h \in owed \/ (\E b : Stands(b)' /\ b.height = h) \/ PushedOut(g)'
    BY <1>0, <2>1 DEF NoHole
  <2>3. h \in owed \/ (\E b : Stands(b) /\ b.height = h) \/ PushedOut(g)
    BY <2>1, <2>2 DEF NoHole
  <2>4. PushedOut(g) => PushedOut(g)'
    BY <1>2, ApplyKeepsPushed
  <2>5. CASE \E b : Stands(b) /\ b.height = h
    <3>1. (\E c : Stands(c)' /\ c.height = h) \/ Full(h)'
      BY <2>1, <2>5
    <3>2. ASSUME Full(h)' PROVE Full(g)'
      <4>1. \A i \in 1..Len(blocks') : blocks'[i].block.height \in Nat
        <5>1. blocks' \in Seq(RP!Row)
          BY <1>2, ApplyKeepsShape DEF Shape, RP!RingInv, RP!RingTypeOK
        <5> QED
          BY <5>1, SameAssumption, RP!RowFields
      <4> QED
        BY <2>2, <3>2, <4>1 DEF Full
    <3> QED
      BY <3>1, <3>2 DEF PushedOut
  <2> QED
    BY <2>3, <2>4, <2>5
<1>3. CASE StartsReorg
  <2>1. /\ \A b : Stands(b)' <=> Stands(b) /\ b.height < RefetchFrom
        /\ \A h : (Shows(h)' <=> Shows(h)) /\ (PushedOut(h) => PushedOut(h)')
        /\ last' = last /\ RefetchFrom \in Nat
        /\ owed' = owed \union (RefetchFrom..Len(last))
    BY <1>3, ReorgClears, ReorgShape
  <2>2. SUFFICES ASSUME last # NoBlock, NEW g \in Nat, NEW h \in Nat, Shows(g), g <= h, h <= Len(last)
                 PROVE  h \in owed' \/ (\E b : Stands(b)' /\ b.height = h) \/ PushedOut(g)'
    BY <1>0, <2>1 DEF NoHole
  <2>3. h \in owed \/ (\E b : Stands(b) /\ b.height = h) \/ PushedOut(g)
    BY <2>2 DEF NoHole
  <2>4. h < RefetchFrom \/ h \in RefetchFrom..Len(last)
    BY <1>0, <2>1, <2>2
  <2> QED
    BY <2>1, <2>3, <2>4
<1>4. CASE Calm
  BY <1>1, <1>4, CalmKeeps DEF Calm
<1>5. ASSUME NEW lo, DeliversFrom(lo) PROVE NoHole'
  <2>1. /\ \A b : Stands(b) => Stands(b)'
        /\ \A h \in lo..tip : \E b : Stands(b)' /\ b.height = h
        /\ \A h : Shows(h)' <=> Shows(h) \/ h \in lo..tip
        /\ \A h : PushedOut(h) => PushedOut(h)'
        /\ Len(last') = tip /\ tip \in Nat /\ lo \in Nat /\ lo <= tip
        /\ owed' = {h \in owed : h < lo /\ lo # Floor}
    BY <1>5, DeliveryAdds
  <2>2. /\ Floor <= lo /\ tip > 0
        /\ last # NoBlock => tip > Len(last) /\ lo <= AtLeast(Floor, Len(last) + 1)
    BY <1>5 DEF DeliversFrom
  <2>3. Floor \in Nat /\ (Floor > 0 => Floor + MaxBlocks - 1 = tip)
    BY <1>0, <2>1, <2>2, WindowShape DEF TailAssumption, Shape, TailTypeOK
  <2> HIDE DEF Floor
  <2>4. SUFFICES ASSUME NEW g \in Nat, NEW h \in Nat, Shows(g)', g <= h, h <= tip
                 PROVE  h \in owed' \/ (\E b : Stands(b)' /\ b.height = h) \/ PushedOut(g)'
    BY <1>0, <2>1 DEF NoHole
  <2>5. CASE h >= lo
    <3>1. h \in lo..tip
      BY <2>1, <2>4, <2>5
    <3> QED
      BY <2>1, <3>1
  <2>6. CASE h < lo
    <3>1. Shows(g) /\ g < lo
      BY <2>1, <2>4, <2>6
    <3>2. last # NoBlock
      BY <3>1 DEF Newest
    <3>3. CASE lo = Floor
      <4>1. \A x \in lo..(lo + MaxBlocks - 1) : Shows(x)'
        BY <2>1, <2>3, <2>4, <3>1, <3>3
      <4>2. Covered(g)'
        BY <2>1, <3>1, <4>1 DEF Covered
      <4> QED
        BY <4>2 DEF PushedOut
    <3>4. CASE lo # Floor
      <4>1. h <= Len(last)
        BY <1>0, <2>1, <2>2, <2>3, <2>4, <2>6, <3>2, <3>4 DEF AtLeast
      <4>2. h \in owed \/ (\E b : Stands(b) /\ b.height = h) \/ PushedOut(g)
        BY <2>4, <3>1, <3>2, <4>1 DEF NoHole
      <4> QED
        BY <2>1, <2>6, <3>4, <4>2
    <3> QED
      BY <3>3, <3>4
  <2> QED
    BY <2>1, <2>4, <2>5, <2>6
<1>6. CASE FillDelivers
  BY <1>5, <1>6, FillShape
<1>7. CASE RefetchDelivers
  BY <1>5, <1>7, RefetchShape
<1>8. CASE Server
  BY <1>1, <1>8, ServerKeepsChain, StillKeeps DEF cycleVars, appVars, ringVars
<1>9. CASE UNCHANGED vars
  BY <1>1, <1>9, StillKeeps DEF vars, cycleVars, appVars, ringVars
<1> QED
  BY <1>2, <1>3, <1>4, <1>6, <1>7, <1>8, <1>9, StepKinds

\* A deque within its cap that has a row of height h is not full above h, and
\* does not cover h.
LEMMA RowIsNotPushedOut ==
  ASSUME Shape, TailAssumption, updates = <<>>, NEW i \in 1..Len(blocks), PushedOut(blocks[i].block.height)
  PROVE  FALSE
<1> DEFINE n == Len(blocks)
           g == blocks[i].block.height
           H == {blocks[k].block.height : k \in 1..n}
<1>1. n \in Nat /\ g \in Nat /\ \A k \in 1..n : blocks[k].block.height \in Nat
  BY StandingBlocks
<1>2. n <= MaxBlocks /\ MaxBlocks \in Nat
  BY DEF Shape, RP!RingInv, RP!RingTypeOK, TailAssumption
<1>3. ~Full(g)
  BY <1>1 DEF Full
<1>4. PICK lo \in Nat : lo > g /\ \A x \in lo..(lo + MaxBlocks - 1) : Shows(x)
  BY <1>3 DEF PushedOut, Covered
<1>5. \A x : Shows(x) => x \in H
  <2>1. Pending = {}
    BY DEF Pending
  <2> QED
    BY <2>1 DEF Shows
<1> DEFINE C == lo..(lo + MaxBlocks - 1)
<1>6. C \cup {g} \subseteq H /\ g \notin C
  <2>1. C \subseteq H
    BY <1>4, <1>5
  <2>2. g \in H
    OBVIOUS
  <2>3. g \notin C
    BY <1>1, <1>4
  <2> HIDE DEF C, H, g
  <2> QED
    BY <2>1, <2>2, <2>3
<1>7. IsFiniteSet(C) /\ Cardinality(C) = MaxBlocks
  <2>1. lo \in Int /\ lo + MaxBlocks - 1 \in Int
    BY <1>2
  <2> DEFINE top == lo + MaxBlocks - 1
  <2>2. IsFiniteSet(lo..top) /\ Cardinality(lo..top) = IF lo > top THEN 0 ELSE top - lo + 1
    BY <2>1, FS_Interval
  <2>3. ~(lo > top) /\ top - lo + 1 = MaxBlocks
    BY <1>2 DEF TailAssumption
  <2> QED
    BY <2>2, <2>3
<1>8. IsFiniteSet(H) /\ Cardinality(H) <= n
  <2> DEFINE f == [k \in 1..n |-> blocks[k].block.height]
  <2>1. f \in [1..n -> H] /\ \A x \in H : \E k \in 1..n : f[k] = x
    OBVIOUS
  <2>2. f \in Surjection(1..n, H)
    BY <2>1 DEF Surjection
  <2>3. IsFiniteSet(1..n) /\ Cardinality(1..n) = n
    <3>1. IsFiniteSet(1..n) /\ Cardinality(1..n) = IF 1 > n THEN 0 ELSE n - 1 + 1
      BY <1>1, FS_Interval
    <3> QED
      BY <1>1, <3>1
  <2> HIDE DEF f, H, n
  <2>4. IsFiniteSet(H) /\ Cardinality(H) <= Cardinality(1..n)
    BY <2>2, <2>3, FS_Surjection
  <2> QED
    BY <2>3, <2>4
<1> HIDE DEF C, H, g, n
<1>9. IsFiniteSet(C \cup {g}) /\ Cardinality(C \cup {g}) = MaxBlocks + 1
  BY <1>6, <1>7, FS_AddElement
<1>10. Cardinality(C \cup {g}) <= Cardinality(H)
  BY <1>6, <1>8, FS_Subset
<1>11. Cardinality(H) \in Nat
  BY <1>8, FS_CardinalityType
<1> QED
  BY <1>1, <1>2, <1>8, <1>9, <1>10, <1>11

\* The heights that stand have no hole in any state.
LEMMA WindowInvariant == Spec => [](Shape /\ Newest /\ NoHole)
<1>1. Init => Newest /\ NoHole
  <2> SUFFICES ASSUME Init PROVE Newest /\ NoHole
    OBVIOUS
  <2>1. last = NoBlock /\ updates = <<>> /\ blocks = <<>>
    BY DEF Init, Ring!RingInit
  <2>2. \A h : ~Shows(h)
    BY <2>1 DEF Shows, Pending
  <2> QED
    BY <2>1, <2>2 DEF Newest, NoHole
<1>2. Shape /\ Newest /\ NoHole /\ [Next]_vars => Newest' /\ NoHole'
  BY NewestKept, NoHoleKept, TailAssumption
<1> QED
  BY <1>1, <1>2, ShapeInvariant, PTL DEF Spec

\* No gap (NoGapInTail): when the App has caught up, the rows it shows as current
\* have no hole from the oldest row up to the block last filled, but the heights
\* whose blocks a reorg dimmed and no fill sent again.
THEOREM NoGapInTailAlways == Spec => []NoGapInTail
<1>1. Shape /\ Newest /\ NoHole => NoGapInTail
  <2> SUFFICES ASSUME Shape, Newest, NoHole, Settled, last # NoBlock,
                      NEW h \in blocks[Len(blocks)].block.height..Len(last)
               PROVE  h \in owed \/ \E i \in Live : blocks[i].block.height = h
    BY DEF NoGapInTail
  <2>1. updates = <<>> /\ Pending = {} /\ TailAssumption /\ Len(last) \in Nat
    BY TailAssumption, LenProperties DEF Settled, Pending, Shape, TailTypeOK
  <2>2. Len(blocks) \in Nat /\ \A i \in 1..Len(blocks) : blocks[i].block.height \in Nat
    BY <2>1, StandingBlocks
  <2>3. Len(blocks) \in 1..Len(blocks)
    BY <2>1, <2>2 DEF Newest, Shows
  <2>4. PICK g \in Nat : g = blocks[Len(blocks)].block.height
    BY <2>2, <2>3
  <2>5. Shows(g) /\ g <= h /\ h <= Len(last) /\ h \in Nat
    BY <2>1, <2>3, <2>4 DEF Shows
  <2>6. ~PushedOut(g)
    BY <2>1, <2>3, <2>4, RowIsNotPushedOut
  <2>7. CASE \E b : Stands(b) /\ b.height = h
    BY <2>1, <2>7 DEF Stands
  <2> QED
    BY <2>5, <2>6, <2>7 DEF NoHole
<1> QED
  BY <1>1, WindowInvariant, PTL

-----------------------------------------------------------------------------
(* The tip in the header.                                                  *)

\* Some row reaches height t.
Reaches(t) == \E i \in 1..Len(blocks) : blocks[i].block.height >= t

\* A tip on its way finds a row that reaches it, or a block that will.
TipsComing ==
  /\ appTip > 0 => Reaches(appTip)
  /\ \A k \in 1..Len(updates) : updates[k].type = "Block" /\ updates[k].tip > 0 =>
       \/ Reaches(updates[k].tip)
       \/ \E j \in Pending : j < k /\ updates[j].block.height >= updates[k].tip

\* The rows never reach less high, and an inserted block is reached.
LEMMA ReachKept ==
  ASSUME Shape, TailAssumption, Apply, NEW t \in Nat,
         Reaches(t) \/ (updates[1].type = "MinedBlock" /\ updates[1].block.height >= t)
  PROVE  Reaches(t)'
<1>1. Shape' /\ MaxBlocks \in Nat /\ MaxBlocks >= 1
  BY ApplyKeepsShape DEF TailAssumption
<1>2. /\ Len(blocks') \in Nat /\ \A i \in 1..Len(blocks') : blocks'[i].block.height \in Nat
  BY <1>1, SameAssumption, RP!RowFields DEF Shape, RP!RingInv, RP!RingTypeOK
<1>3. /\ \A i \in 1..Len(blocks) : blocks[i].block.height \in Nat
      /\ \A k \in 1..Len(updates) : updates[k] \in UpdateSet
  BY StandingBlocks
<1>4. 1 \in 1..Len(updates) /\ updates[1] = Head(updates)
  BY Applied, HeadTailProperties DEF Shape, Apply
<1>5. PICK u \in UpdateSet : u = updates[1]
  BY <1>3, <1>4
<1>6. ASSUME NEW h \in Nat, h >= t, (\E k \in 1..Len(blocks') : blocks'[k].block.height = h) \/ Full(h)'
      PROVE  Reaches(t)'
  <2>1. CASE \E k \in 1..Len(blocks') : blocks'[k].block.height = h
    BY <1>6, <2>1 DEF Reaches
  <2>2. CASE Full(h)'
    <3>1. Len(blocks') = MaxBlocks /\ \A i \in 1..Len(blocks') : blocks'[i].block.height > h
      BY <2>2 DEF Full
    <3>2. 1 \in 1..Len(blocks')
      BY <1>1, <3>1
    <3>3. blocks'[1].block.height >= t
      BY <1>2, <1>6, <3>1, <3>2
    <3> QED
      BY <3>2, <3>3 DEF Reaches
  <2> QED
    BY <1>6, <2>1, <2>2
<1>7. CASE u.type = "MinedBlock"
  <2>1. PICK b \in ChainBlock : b = u.block
    BY <1>7, UpdateKinds
  <2>2. Ring!InsertBlock(b)
    BY <1>4, <1>5, <1>7, <2>1 DEF Apply
  <2>3. /\ (\E k \in Live' : blocks'[k].block = b) \/ Full(b.height)'
        /\ \A i \in 1..Len(blocks), h \in Nat : h = blocks[i].block.height =>
              (\E k \in 1..Len(blocks') : blocks'[k].block.height = h) \/ Full(h)'
        /\ b.height \in Nat
    BY <2>2, PlacedOrFull DEF ChainBlock
  <2>4. CASE Reaches(t)
    <3>1. PICK i \in 1..Len(blocks) : blocks[i].block.height >= t
      BY <2>4 DEF Reaches
    <3>2. PICK h \in Nat : h = blocks[i].block.height
      BY <1>3
    <3> QED
      BY <1>6, <2>3, <3>1, <3>2
  <2>5. CASE updates[1].block.height >= t
    <3>1. b.height >= t
      BY <1>5, <2>1, <2>5
    <3>2. (\E k \in 1..Len(blocks') : blocks'[k].block.height = b.height) \/ Full(b.height)'
      BY <2>3 DEF Live
    <3> QED
      BY <1>6, <2>3, <3>1, <3>2
  <2> QED
    BY <2>4, <2>5
<1>8. CASE u.type # "MinedBlock"
  <2>1. u.type \in {"Reorg", "Block", "Phase"} /\ (u.type = "Reorg" => u.at \in Nat)
    BY <1>8, UpdateKinds
  <2>2. /\ Len(blocks') = Len(blocks)
        /\ \A i \in 1..Len(blocks) : blocks'[i].block = blocks[i].block
    <3>1. CASE u.type = "Reorg"
      <4>1. RP!MarkReorged(u.at) /\ u.at \in Nat
        BY <1>4, <1>5, <2>1, <3>1, SameMark DEF Apply
      <4> QED
        BY <4>1, SameAssumption, RP!MarkedRows DEF Shape
    <3>2. CASE u.type \in {"Block", "Phase"}
      BY <1>4, <1>5, <3>2 DEF Apply, ringVars
    <3> QED
      BY <2>1, <3>1, <3>2
  <2> QED
    BY <1>5, <1>8, <2>2 DEF Reaches
<1> QED
  BY <1>7, <1>8

\* No step sends a tip ahead of its block.
LEMMA TipsComingKept ==
  ASSUME Shape, TailAssumption, Newest, TipsComing, [Next]_vars
  PROVE  TipsComing'
<1>0. /\ Len(updates) \in Nat /\ updates \in Seq(UpdateSet) /\ last \in Seq(Nat) /\ Len(last) \in Nat
      /\ \A k \in 1..Len(updates) : updates[k] \in UpdateSet
      /\ \A k \in Pending : updates[k].block.height \in Nat
      /\ \A i \in 1..Len(blocks) : blocks[i].block.height \in Nat
  BY StandingBlocks, LenProperties DEF Shape, TailTypeOK
\* What is sent names only tips the rows or the blocks before it reach.
<1>1. ASSUME NEW s \in Seq(UpdateSet), updates' = updates \o s, appTip' = appTip, blocks' = blocks,
             \A i \in 1..Len(s) : s[i].type = "Block" => s[i].tip <= Len(last)
      PROVE  TipsComing'
  <2>1. /\ Len(s) \in Nat
        /\ \A k \in 1..Len(updates) : updates'[k] = updates[k]
        /\ \A k \in 1..Len(s) : updates'[Len(updates) + k] = s[k] /\ s[k] \in UpdateSet
        /\ \A k \in 1..Len(updates') :
             k \in 1..Len(updates) \/ \E i \in 1..Len(s) : k = Len(updates) + i
    BY <1>0, <1>1, Sent
  <2>2. \A k \in Pending : k \in Pending' /\ updates'[k] = updates[k] /\ k \in 1..Len(updates)
    BY <1>0, <1>1, SentPending DEF Pending
  <2>3. \A t : Reaches(t)' <=> Reaches(t)
    BY <1>1 DEF Reaches
  <2>4. appTip' > 0 => Reaches(appTip)'
    BY <1>1, <2>3 DEF TipsComing
  <2>5. ASSUME NEW k \in 1..Len(updates'), updates'[k].type = "Block", updates'[k].tip > 0,
               NEW t, t = updates'[k].tip
        PROVE  \/ Reaches(t)'
               \/ \E j \in Pending' : j < k /\ updates'[j].block.height >= t
    <3>1. CASE k \in 1..Len(updates)
      <4>1. Reaches(t) \/ \E j \in Pending : j < k /\ updates[j].block.height >= t
        BY <2>1, <2>5, <3>1 DEF TipsComing
      <4> QED
        BY <2>2, <2>3, <4>1
    <3>2. CASE \E i \in 1..Len(s) : k = Len(updates) + i
      <4>1. PICK i \in 1..Len(s) : k = Len(updates) + i
        BY <3>2
      <4>2. s[i].type = "Block" /\ s[i].tip = t /\ t \in Nat /\ t > 0 /\ t <= Len(last)
        BY <1>1, <2>1, <2>5, <4>1, UpdateKinds
      <4>3. last # NoBlock
        BY <1>0, <4>2 DEF NoBlock
      <4>4. PICK h \in Nat : h >= Len(last) /\ Shows(h)
        BY <4>3 DEF Newest
      <4>5. h >= t
        BY <1>0, <4>2, <4>4
      <4>6. CASE \E m \in 1..Len(blocks) : blocks[m].block.height = h
        BY <2>3, <4>5, <4>6 DEF Reaches
      <4>7. CASE \E j \in Pending : updates[j].block.height = h
        <5>1. PICK j \in Pending : updates[j].block.height = h
          BY <4>7
        <5>2. j \in Pending' /\ updates'[j].block.height >= t /\ j < k
          BY <1>0, <2>1, <2>2, <4>1, <4>5, <5>1
        <5> QED
          BY <5>2
      <4> QED
        BY <4>4, <4>6, <4>7 DEF Shows
    <3> QED
      BY <2>1, <3>1, <3>2
  <2>6. ASSUME NEW k \in 1..Len(updates'), updates'[k].type = "Block", updates'[k].tip > 0
        PROVE  \/ Reaches(updates[k].tip)'
               \/ \E j \in Pending' : j < k /\ updates'[j].block.height >= updates'[k].tip
    <3>1. \A t : t = updates'[k].tip =>
            \/ Reaches(t)'
            \/ \E j \in Pending' : j < k /\ updates'[j].block.height >= t
      BY <2>5, <2>6
    <3> QED
      BY <3>1 DEF Reaches
  <2> QED
    BY <2>4, <2>6 DEF TipsComing
<1>2. CASE Apply
  <2>1. /\ Len(updates) >= 1 /\ 1 \in 1..Len(updates)
        /\ Len(updates') = Len(updates) - 1
        /\ \A k \in 1..Len(updates') : updates'[k] = updates[k + 1] /\ k + 1 \in 1..Len(updates)
        /\ \A k \in Pending : k = 1 \/ (k - 1 \in Pending' /\ updates'[k - 1] = updates[k])
        /\ updates[1] = Head(updates)
    <3>1. updates[1] = Head(updates)
      BY <1>0, <1>2, HeadTailProperties DEF Apply
    <3> QED
      BY <1>2, <3>1, Applied
  <2>2. ASSUME NEW t \in Nat,
               Reaches(t) \/ (updates[1].type = "MinedBlock" /\ updates[1].block.height >= t)
        PROVE  Reaches(t)'
    BY <1>2, <2>2, ReachKept
  <2>3. PICK a \in Nat : a = appTip'
    BY <1>2, ApplyKeepsShape DEF Shape, TailTypeOK
  <2>4. ASSUME a > 0 PROVE Reaches(a)'
    <3>1. CASE updates[1].type = "Block"
      <4>1. a = updates[1].tip
        BY <1>2, <2>1, <2>3, <3>1 DEF Apply
      <4>2. Reaches(a) \/ \E j \in Pending : j < 1
        BY <2>1, <2>4, <3>1, <4>1 DEF TipsComing
      <4>3. \A j \in Pending : ~(j < 1)
        BY DEF Pending
      <4> QED
        BY <2>2, <4>2, <4>3
    <3>2. CASE updates[1].type # "Block"
      <4>1. updates[1].type \in {"MinedBlock", "Reorg", "Phase"}
        BY <1>0, <2>1, <3>2, UpdateKinds
      <4>2. appTip' = appTip
        BY <1>2, <2>1, <4>1 DEF Apply
      <4> QED
        BY <2>2, <2>3, <2>4, <4>2 DEF TipsComing
    <3> QED
      BY <3>1, <3>2
  <2>5. ASSUME NEW k \in 1..Len(updates'), updates'[k].type = "Block", updates'[k].tip > 0,
               NEW t, t = updates'[k].tip
        PROVE  \/ Reaches(t)'
               \/ \E j \in Pending' : j < k /\ updates'[j].block.height >= t
    <3>1. k + 1 \in 1..Len(updates) /\ updates[k + 1].type = "Block" /\ updates[k + 1].tip = t /\ t > 0
      BY <2>1, <2>5
    <3>2. t \in Nat
      BY <1>0, <3>1, UpdateKinds
    <3>3. Reaches(t) \/ \E j \in Pending : j < k + 1 /\ updates[j].block.height >= t
      BY <3>1 DEF TipsComing
    <3>4. CASE \E j \in Pending : j < k + 1 /\ updates[j].block.height >= t
      <4>1. PICK j \in Pending : j < k + 1 /\ updates[j].block.height >= t
        BY <3>4
      <4>2. CASE j = 1
        BY <2>2, <3>2, <4>1, <4>2 DEF Pending
      <4>3. CASE j # 1
        <5>1. j - 1 \in Pending' /\ updates'[j - 1] = updates[j]
          BY <2>1, <4>3
        <5>2. j \in Nat /\ k \in Nat
          BY DEF Pending
        <5>3. j - 1 < k
          BY <4>1, <5>2
        <5> QED
          BY <4>1, <5>1, <5>3
      <4> QED
        BY <4>2, <4>3
    <3> QED
      BY <2>2, <3>2, <3>3, <3>4
  <2>6. ASSUME NEW k \in 1..Len(updates'), updates'[k].type = "Block", updates'[k].tip > 0
        PROVE  \/ Reaches(updates[k].tip)'
               \/ \E j \in Pending' : j < k /\ updates'[j].block.height >= updates'[k].tip
    <3>1. \A t : t = updates'[k].tip =>
            \/ Reaches(t)'
            \/ \E j \in Pending' : j < k /\ updates'[j].block.height >= t
      BY <2>5, <2>6
    <3> QED
      BY <3>1 DEF Reaches
  <2>7. appTip' > 0 => Reaches(appTip)'
    BY <2>3, <2>4 DEF Reaches
  <2> QED
    BY <2>6, <2>7 DEF TipsComing
<1>3. CASE StartsReorg
  <2> DEFINE r == [type |-> "Reorg", at |-> RefetchFrom]
             S == UpdateSet
  <2>1. /\ updates' = updates \o <<r>> /\ RefetchFrom \in Nat
        /\ blocks' = blocks /\ appTip' = appTip
    BY <1>3, ReorgShape DEF appVars, ringVars
  <2>2. r \in S /\ r.type # "Block"
    BY <2>1 DEF UpdateSet
  <2> HIDE DEF r, S
  <2>3. PICK s : s = <<r>>
    OBVIOUS
  <2>4. s \in Seq(S) /\ Len(s) = 1 /\ s[1] = r
    BY <2>2, <2>3
  <2>5. \A i \in 1..Len(s) : s[i].type # "Block"
    BY <2>2, <2>4
  <2> QED
    BY <1>1, <2>1, <2>3, <2>4, <2>5 DEF S
<1>4. CASE Calm
  <2>1. PICK s \in Seq(Quiet) : updates' = updates \o s
    BY <1>4 DEF Calm
  <2>2. /\ s \in Seq(UpdateSet) /\ appTip' = appTip /\ blocks' = blocks
        /\ \A i \in 1..Len(s) : s[i].type = "Block" => s[i].tip <= Len(last)
    BY <1>4, QuietSeq DEF Calm, appVars, ringVars
  <2> QED
    BY <1>1, <2>1, <2>2
<1>5. ASSUME NEW lo, DeliversFrom(lo) PROVE TipsComing'
  <2>1. PICK s : s = Mined(BlockRange(lo, tip))
    OBVIOUS
  <2>2. /\ lo \in Nat /\ tip \in Nat /\ lo <= tip /\ tip <= Len(chain) /\ chain \in Seq(Nat)
        /\ appTip' = appTip /\ blocks' = blocks
        /\ updates' = updates \o s
    BY <1>5, <2>1, DeliveryAdds DEF DeliversFrom, Deliver, Send, Shape, TailTypeOK
  <2>3. /\ s \in Seq(UpdateSet)
        /\ \A i \in 1..Len(s) : s[i].type # "Block"
    <3>1. LET cs == BlockRange(lo, tip)
          IN  /\ Mined(cs) \in Seq(UpdateSet) /\ Len(Mined(cs)) = Len(cs)
              /\ \A i \in 1..Len(cs) : Mined(cs)[i] = [type |-> "MinedBlock", block |-> cs[i]]
      BY <2>2, RangeShape
    <3>2. PICK cs : cs = BlockRange(lo, tip)
      OBVIOUS
    <3>3. /\ s \in Seq(UpdateSet) /\ Len(s) = Len(cs)
          /\ \A i \in 1..Len(cs) : s[i] = [type |-> "MinedBlock", block |-> cs[i]]
      BY <2>1, <3>1, <3>2, Zenon
    <3>4. ASSUME NEW i \in 1..Len(s) PROVE s[i].type = "MinedBlock"
      <4>1. s[i] = [type |-> "MinedBlock", block |-> cs[i]]
        BY <3>3, Zenon
      <4> QED
        BY <4>1
    <3> QED
      BY <3>3, <3>4
  <2> QED
    BY <1>1, <2>2, <2>3
<1>6. CASE FillDelivers
  BY <1>5, <1>6, FillShape
<1>7. CASE RefetchDelivers
  BY <1>5, <1>7, RefetchShape
<1>8. ASSUME updates' = updates, blocks' = blocks, appTip' = appTip PROVE TipsComing'
  BY <1>8 DEF TipsComing, Reaches, Pending
<1>9. CASE Server
  BY <1>8, <1>9, ServerKeepsChain DEF appVars, ringVars
<1>10. CASE UNCHANGED vars
  BY <1>8, <1>10 DEF vars, appVars, ringVars
<1> QED
  BY <1>2, <1>3, <1>4, <1>6, <1>7, <1>9, <1>10, StepKinds

\* The header never names a tip above the newest row (TipIsShown): a cycle sends
\* the blocks before it announces their tip, and the App keeps that order.
THEOREM TipIsAlwaysShown == Spec => []TipIsShown
<1>1. Init => TipsComing
  BY DEF Init, TipsComing
<1>2. Shape /\ Newest /\ TipsComing /\ [Next]_vars => TipsComing'
  BY TipsComingKept, TailAssumption
<1>3. Shape /\ TipsComing => TipIsShown
  <2> SUFFICES ASSUME Shape, TipsComing, appTip > 0
               PROVE  blocks # <<>> /\ blocks[1].block.height >= appTip
    BY DEF TipIsShown
  <2>1. PICK i \in 1..Len(blocks) : blocks[i].block.height >= appTip
    BY DEF TipsComing, Reaches
  <2>2. /\ Len(blocks) \in Nat /\ appTip \in Nat
        /\ \A k \in 1..Len(blocks) : blocks[k].block.height \in Nat
    BY StandingBlocks, TailAssumption DEF Shape, TailTypeOK
  <2>3. 1 \in 1..Len(blocks) /\ blocks # <<>>
    BY <2>1, <2>2
  <2>4. blocks[1].block.height >= blocks[i].block.height
    <3>1. CASE i = 1
      BY <2>2, <2>3, <3>1
    <3>2. CASE i # 1
      <4>1. 1 < i
        BY <2>2, <3>2
      <4>2. \/ blocks[1].block.height > blocks[i].block.height
            \/ blocks[1].block.height = blocks[i].block.height
        BY <2>3, <4>1 DEF Shape, RP!RingInv, RP!NewestFirst
      <4> QED
        BY <2>1, <2>2, <2>3, <4>2
    <3> QED
      BY <3>1, <3>2
  <2> QED
    BY <2>1, <2>2, <2>3, <2>4
<1> QED
  BY <1>1, <1>2, <1>3, WindowInvariant, PTL DEF Spec

-----------------------------------------------------------------------------
(* One chain.  A refetch reaches ReorgDepth blocks below the old tip, so a *)
(* fork that starts deeper would leave live rows of the old branch: the    *)
(* theorem asks that the server's forks start no deeper.                   *)

OnChain ==
  /\ ForkIsShallow(chain)
  /\ \A b : Stands(b) => IsPrefix(b.hash, last) \/ PushedOut(b.height)
  /\ pc = "refetch" => \A b : Stands(b) => b.height < RefetchFrom \/ PushedOut(b.height)

\* The chain still starts with the part of the tail's tip no fork reaches.
LEMMA ShallowKept ==
  ASSUME Shape, Server, ForkIsShallow(chain)
  PROVE  ForkIsShallow(chain)'
<1>1. /\ chain \in Seq(Nat) /\ last \in Seq(Nat) /\ Len(last) \in Nat /\ last' = last
      /\ chain' \in Seq(Nat) /\ MaxForkDepth \in Nat /\ chain # <<>>
  BY ServerKeepsChain, LenProperties, TailAssumption
  DEF Shape, TailTypeOK, cycleVars, TailAssumption
<1>2. CASE ServerReorg
  BY <1>1, <1>2 DEF ServerReorg, ForkIsShallow, Sat, NoBlock
<1>3. CASE ServerMine
  <2> DEFINE n == Sat(Len(last), MaxForkDepth)
             p == SubSeq(last, 1, n)
  <2>1. n \in Nat /\ n <= Len(last)
    BY <1>1 DEF Sat
  <2> HIDE DEF n
  <2>2. p \in Seq(Nat)
    BY <1>1, <2>1, FirstN
  <2>3. IsPrefix(chain, chain')
    <3>1. chain[Len(chain)] \in Nat /\ Len(chain) \in Nat
      BY <1>1, ElementOfSeq, EmptySeq, LenProperties
    <3>2. /\ Len(chain') = Len(chain) + 1
          /\ \A i \in 1..Len(chain) : chain'[i] = chain[i]
      BY <1>1, <1>3, <3>1, AppendProperties DEF ServerMine
    <3>3. Len(chain) <= Len(chain')
      BY <3>1, <3>2
    <3> QED
      BY <1>1, <3>2, <3>3, PrefixIs
  <2> HIDE DEF p
  <2>4. last = NoBlock \/ IsPrefix(p, chain)
    BY DEF ForkIsShallow, p, n
  <2>5. last = NoBlock \/ IsPrefix(p, chain')
    BY <1>1, <2>2, <2>3, <2>4, PrefixTransitive
  <2> QED
    BY <1>1, <2>5 DEF ForkIsShallow, p, n, Sat, NoBlock
<1> QED
  BY <1>2, <1>3 DEF Server

\* The block a gap-fill starts with names the first blocks of the chain.
LEMMA ChainsOnto ==
  ASSUME chain \in Seq(Nat), last \in Seq(Nat), tip \in Nat, tip <= Len(chain), Len(last) + 1 <= tip,
         PrevHash(BlockRange(Len(last) + 1, tip)[1]) = last
  PROVE  IsPrefix(last, SubSeq(chain, 1, tip))
<1>1. Len(last) \in Nat /\ Len(chain) \in Nat
  BY LenProperties
<1> DEFINE m == Len(last) + 1
           s == SubSeq(chain, 1, m)
<1>2. BlockRange(m, tip)[1] = BlockAt(chain, m)
  <2>1. 1 \in 1..(tip - m + 1) /\ m + 1 - 1 = m
    BY <1>1
  <2> HIDE DEF m
  <2> QED
    BY <2>1 DEF BlockRange
<1>3. Front(s) = last
  <2>1. BlockAt(chain, m).hash = s
    BY DEF BlockAt
  <2>2. Front(BlockRange(m, tip)[1].hash) = last
    BY DEF PrevHash
  <2> HIDE DEF m, s
  <2> QED
    BY <1>2, <2>1, <2>2
<1>4. m \in Nat /\ m <= Len(chain) /\ m - 1 = Len(last)
  BY <1>1
<1>5. s \in Seq(Nat) /\ Len(s) = m /\ \A i \in 1..m : s[i] = chain[i]
  BY <1>4, FirstN
<1> HIDE DEF s, m
<1>6. last = SubSeq(s, 1, Len(last))
  BY <1>3, <1>4, <1>5 DEF Front
<1>7. \A i \in 1..Len(last) : SubSeq(s, 1, Len(last))[i] = s[i]
  BY <1>1, <1>4, <1>5, FirstN
<1>8. \A i \in 1..Len(last) : last[i] = chain[i]
  <2> TAKE i \in 1..Len(last)
  <2>1. last[i] = s[i]
    BY <1>6, <1>7
  <2>2. i \in 1..m
    BY <1>1, <1>4
  <2> QED
    BY <1>5, <2>1, <2>2
<1>9. IsPrefix(last, chain)
  <2>1. Len(last) <= Len(chain)
    BY <1>1, <1>4
  <2> QED
    BY <1>8, <2>1, PrefixIs
<1> QED
  BY <1>1, <1>9, PrefixOfFirstN

\* No step leaves a block standing that the last filled chain does not hold.
LEMMA OnChainKept ==
  ASSUME MaxForkDepth <= ReorgDepth + 1,
         Shape, TailAssumption, Newest, OnChain, [Next]_vars
  PROVE  OnChain'
<1>0. /\ last \in Seq(Nat) /\ Len(last) \in Nat /\ chain \in Seq(Nat) /\ Len(chain) \in Nat
      /\ MaxForkDepth \in Nat /\ ReorgDepth \in Nat /\ tip \in Nat
      /\ \A b : Stands(b) => /\ b.height \in Nat /\ b.hash \in Seq(Nat)
                             /\ Len(b.hash) = b.height /\ Shows(b.height)
  BY StandingBlocks, LenProperties DEF Shape, TailTypeOK, TailAssumption
\* A step that leaves the chain and the cycle alone and takes what stands away.
<1>1. ASSUME last' = last, ForkIsShallow(chain)', \A b : Stands(b)' => Stands(b),
             \A h \in Nat : PushedOut(h) => PushedOut(h)',
             pc' = "refetch" => pc = "refetch" /\ tip' = tip
      PROVE  OnChain'
  <2>1. ASSUME NEW b, Stands(b)' PROVE IsPrefix(b.hash, last)' \/ PushedOut(b.height)'
    <3>1. Stands(b) /\ b.height \in Nat
      BY <1>0, <1>1, <2>1
    <3>2. IsPrefix(b.hash, last) \/ PushedOut(b.height)
      BY <3>1 DEF OnChain
    <3> QED
      BY <1>1, <3>1, <3>2
  <2>2. ASSUME pc' = "refetch", NEW b, Stands(b)'
        PROVE  b.height < RefetchFrom' \/ PushedOut(b.height)'
    <3>1. Stands(b) /\ b.height \in Nat /\ pc = "refetch" /\ RefetchFrom' = RefetchFrom
      BY <1>0, <1>1, <2>2 DEF RefetchFrom, Floor, Sat, AtLeast
    <3>2. b.height < RefetchFrom \/ PushedOut(b.height)
      BY <3>1 DEF OnChain
    <3> QED
      BY <1>1, <3>1, <3>2
  <2> QED
    BY <1>1, <2>1, <2>2 DEF OnChain
<1>2. ASSUME last' = last, chain' = chain PROVE ForkIsShallow(chain)'
  BY <1>2 DEF OnChain, ForkIsShallow, NoBlock, Sat
<1>3. CASE Apply
  <2>1. /\ \A b : Stands(b)' => Stands(b)
        /\ last' = last /\ chain' = chain /\ pc' = pc /\ tip' = tip
    BY <1>3, ApplyKeeps, Applied DEF cycleVars, serverVars
  <2>2. \A h \in Nat : PushedOut(h) => PushedOut(h)'
    BY <1>3, ApplyKeepsPushed
  <2> QED
    BY <1>1, <1>2, <2>1, <2>2
<1>4. CASE Server
  <2>1. /\ ForkIsShallow(chain)' /\ last' = last /\ pc' = pc /\ tip' = tip
        /\ updates' = updates /\ blocks' = blocks
    BY <1>4, ShallowKept, ServerKeepsChain DEF OnChain, cycleVars, appVars, ringVars
  <2> QED
    BY <1>1, <2>1, StillKeeps
<1>5. CASE UNCHANGED vars
  <2>1. /\ last' = last /\ chain' = chain /\ pc' = pc /\ tip' = tip
        /\ updates' = updates /\ blocks' = blocks
    BY <1>5 DEF vars, serverVars, cycleVars, appVars, ringVars
  <2> QED
    BY <1>1, <1>2, <2>1, StillKeeps
<1>6. CASE Calm
  <2>1. /\ last' = last /\ chain' = chain /\ pc' # "refetch"
        /\ \A b : Stands(b)' <=> Stands(b)
        /\ \A h : PushedOut(h) => PushedOut(h)'
    BY <1>6, CalmKeeps DEF Calm, serverVars
  <2> QED
    BY <1>1, <1>2, <2>1
<1>7. CASE StartsReorg
  <2>1. /\ \A b : Stands(b)' <=> Stands(b) /\ b.height < RefetchFrom
        /\ \A h : PushedOut(h) => PushedOut(h)'
        /\ last' = last /\ chain' = chain /\ tip' = tip
    BY <1>7, ReorgClears, ReorgShape DEF serverVars
  <2>2. ForkIsShallow(chain)' /\ RefetchFrom' = RefetchFrom
    BY <1>2, <2>1 DEF RefetchFrom, Floor, Sat, AtLeast
  <2>3. ASSUME NEW b, Stands(b)'
        PROVE  /\ IsPrefix(b.hash, last)' \/ PushedOut(b.height)'
               /\ b.height < RefetchFrom'
    <3>1. Stands(b) /\ b.height < RefetchFrom
      BY <2>1, <2>3
    <3>2. IsPrefix(b.hash, last) \/ PushedOut(b.height)
      BY <3>1 DEF OnChain
    <3> QED
      BY <2>1, <2>2, <3>1, <3>2
  <2> QED
    BY <2>2, <2>3 DEF OnChain
\* A delivery keeps what stands on the chain when it chains onto the last fill,
\* or replaces or covers what the fork left behind.
<1>8. ASSUME NEW lo, DeliversFrom(lo),
             \A b : Stands(b) => \/ IsPrefix(b.hash, SubSeq(chain, 1, tip))
                                 \/ PushedOut(b.height)
                                 \/ lo = Floor /\ b.height < lo
      PROVE  OnChain'
  <2>1. /\ \A b : Stands(b)' => Stands(b) \/ \E h \in lo..tip : b = BlockAt(chain, h)
        /\ \A h : Shows(h)' <=> Shows(h) \/ h \in lo..tip
        /\ \A h : PushedOut(h) => PushedOut(h)'
        /\ last' = SubSeq(chain, 1, tip) /\ last' \in Seq(Nat) /\ Len(last') = tip
        /\ lo \in Nat /\ lo <= tip /\ tip <= Len(chain)
        /\ pc' = "announce" /\ chain' = chain
    BY <1>8, DeliveryAdds
  <2>2. /\ Floor \in Nat /\ (Floor > 0 => Floor + MaxBlocks - 1 = tip)
    BY <1>0, <1>8, WindowShape DEF TailAssumption, DeliversFrom
  <2> HIDE DEF Floor
  <2>3. ForkIsShallow(chain)'
    <3> DEFINE n == Sat(tip, MaxForkDepth)
    <3>1. n \in Nat /\ n <= tip
      BY <1>0 DEF Sat
    <3> HIDE DEF n
    <3>2. /\ IsPrefix(last', chain)
          /\ SubSeq(last', 1, n) \in Seq(Nat) /\ IsPrefix(SubSeq(last', 1, n), last')
      BY <1>0, <2>1, <3>1, FirstNIsPrefix, FirstN
    <3>3. IsPrefix(SubSeq(last', 1, n), chain)
      BY <1>0, <2>1, <3>2, PrefixTransitive
    <3> QED
      BY <2>1, <3>3 DEF ForkIsShallow, n, Sat, NoBlock
  <2>4. ASSUME NEW b, Stands(b)' PROVE IsPrefix(b.hash, last)' \/ PushedOut(b.height)'
    <3>1. CASE \E h \in lo..tip : b = BlockAt(chain, h)
      <4>1. PICK h \in lo..tip : b.hash = SubSeq(chain, 1, h)
        BY <3>1 DEF BlockAt
      <4>2. h \in Nat /\ h <= tip /\ h <= Len(chain)
        BY <1>0, <2>1
      <4>3. /\ b.hash \in Seq(Nat) /\ Len(b.hash) = h /\ IsPrefix(b.hash, chain)
        BY <1>0, <4>1, <4>2, FirstN, FirstNIsPrefix
      <4>4. IsPrefix(b.hash, SubSeq(chain, 1, tip))
        BY <1>0, <2>1, <4>2, <4>3, PrefixOfFirstN
      <4> QED
        BY <2>1, <4>4
    <3>2. CASE Stands(b)
      <4>1. CASE IsPrefix(b.hash, SubSeq(chain, 1, tip)) \/ PushedOut(b.height)
        BY <2>1, <4>1
      <4>2. CASE lo = Floor /\ b.height < lo
        <5>1. b.height \in Nat
          BY <1>0, <3>2
        <5>2. \A x \in lo..(lo + MaxBlocks - 1) : Shows(x)'
          <6>1. lo + MaxBlocks - 1 = tip
            BY <2>1, <2>2, <4>2, <5>1
          <6> QED
            BY <2>1, <6>1
        <5>3. PICK h \in Nat : h = b.height
          BY <5>1
        <5>4. Covered(h)'
          BY <2>1, <4>2, <5>2, <5>3 DEF Covered
        <5> QED
          BY <5>3, <5>4 DEF PushedOut
      <4> QED
        BY <1>8, <3>2, <4>1, <4>2
    <3> QED
      BY <2>1, <2>4, <3>1, <3>2
  <2> QED
    BY <2>1, <2>3, <2>4 DEF OnChain
<1>9. CASE FillDelivers
  <2>1. /\ DeliversFrom(FillStart) /\ Floor \in Nat
        /\ last = NoBlock => FillStart = Floor
        /\ last # NoBlock =>
              \/ FillStart = Len(last) + 1 /\ PrevHash(BlockRange(FillStart, tip)[1]) = last
              \/ FillStart = Floor /\ Floor > Len(last) + 1
    BY <1>9, FillShape
  <2>2. FillStart <= tip /\ tip <= Len(chain)
    BY <2>1 DEF DeliversFrom, CanServe
  <2> HIDE DEF FillStart, Floor
  <2>3. ASSUME NEW b, Stands(b)
        PROVE  \/ IsPrefix(b.hash, SubSeq(chain, 1, tip))
               \/ PushedOut(b.height)
               \/ FillStart = Floor /\ b.height < FillStart
    <3>1. last # NoBlock /\ (IsPrefix(b.hash, last) \/ PushedOut(b.height))
      BY <1>0, <2>3 DEF Newest, OnChain
    <3>2. ASSUME IsPrefix(b.hash, last) PROVE b.height <= Len(last)
      BY <1>0, <2>3, <3>2, PrefixIs
    <3>3. CASE /\ IsPrefix(b.hash, last) /\ FillStart = Len(last) + 1
               /\ PrevHash(BlockRange(FillStart, tip)[1]) = last
      <4>1. IsPrefix(last, SubSeq(chain, 1, tip)) /\ SubSeq(chain, 1, tip) \in Seq(Nat)
        BY <1>0, <2>2, <3>3, ChainsOnto, FirstN
      <4> QED
        BY <1>0, <2>3, <3>3, <4>1, PrefixTransitive
    <3>4. CASE IsPrefix(b.hash, last) /\ FillStart = Floor /\ Floor > Len(last) + 1
      BY <1>0, <2>1, <2>3, <3>2, <3>4
    <3> QED
      BY <2>1, <3>1, <3>3, <3>4
  <2> QED
    BY <1>8, <2>1, <2>3
<1>10. CASE RefetchDelivers
  <2>1. /\ DeliversFrom(RefetchFrom) /\ Floor \in Nat
        /\ last # NoBlock /\ RefetchFrom <= Len(last) + 1
        /\ RefetchFrom # Floor => RefetchFrom + ReorgDepth = Len(last)
    BY <1>10, RefetchShape
  <2>2. RefetchFrom \in Nat /\ RefetchFrom <= tip /\ tip <= Len(chain) /\ pc = "refetch"
    BY <1>10, <2>1 DEF DeliversFrom, CanServe, RefetchDelivers
  <2> HIDE DEF RefetchFrom, Floor
  <2>3. ASSUME NEW b, Stands(b)
        PROVE  \/ IsPrefix(b.hash, SubSeq(chain, 1, tip))
               \/ PushedOut(b.height)
               \/ RefetchFrom = Floor /\ b.height < RefetchFrom
    <3>1. /\ IsPrefix(b.hash, last) \/ PushedOut(b.height)
          /\ b.height < RefetchFrom \/ PushedOut(b.height)
          /\ b.height \in Nat /\ b.hash \in Seq(Nat) /\ Len(b.hash) = b.height
      BY <1>0, <2>2, <2>3 DEF OnChain
    <3>2. CASE RefetchFrom = Floor
      BY <3>1, <3>2
    <3>3. CASE RefetchFrom # Floor /\ IsPrefix(b.hash, last) /\ b.height < RefetchFrom
      <4> DEFINE n == Sat(Len(last), MaxForkDepth)
      <4>1. n \in Nat /\ n <= Len(last) /\ b.height <= n
        <5>1. b.height < Len(last) - ReorgDepth /\ Len(last) - MaxForkDepth \in Int
          BY <1>0, <2>1, <2>2, <3>1, <3>3
        <5>2. b.height <= Len(last) - MaxForkDepth
          BY <1>0, <3>1, <5>1
        <5> QED
          BY <1>0, <3>1, <5>2 DEF Sat
      <4>2. IsPrefix(SubSeq(last, 1, n), chain)
        BY <2>1 DEF OnChain, ForkIsShallow
      <4> HIDE DEF n
      <4>3. SubSeq(last, 1, n) \in Seq(Nat) /\ IsPrefix(b.hash, SubSeq(last, 1, n))
        BY <1>0, <3>1, <3>3, <4>1, FirstN, PrefixOfFirstN
      <4>4. IsPrefix(b.hash, chain)
        BY <1>0, <3>1, <4>2, <4>3, PrefixTransitive
      <4>5. b.height <= tip
        BY <1>0, <2>2, <3>1, <3>3
      <4> QED
        BY <1>0, <2>2, <3>1, <4>4, <4>5, PrefixOfFirstN
    <3> QED
      BY <3>1, <3>2, <3>3
  <2> QED
    BY <1>8, <2>1, <2>3
<1> QED
  BY <1>3, <1>4, <1>5, <1>6, <1>7, <1>9, <1>10, StepKinds

\* One chain (LiveRowsOnOneChain): when the App has caught up, every row it shows
\* as current lies on the chain the tail last filled from, whatever failed in
\* between, provided a fork starts no deeper below the old tip than the refetch
\* of REORG_DEPTH blocks reaches.
THEOREM LiveRowsAlwaysOnOneChain ==
  ASSUME MaxForkDepth <= ReorgDepth + 1
  PROVE  Spec => []LiveRowsOnOneChain
<1>1. Init => OnChain
  <2> SUFFICES ASSUME Init PROVE OnChain
    OBVIOUS
  <2>1. last = NoBlock /\ updates = <<>> /\ blocks = <<>> /\ pc = "connect"
    BY DEF Init, Ring!RingInit
  <2>2. \A b : ~Stands(b)
    BY <2>1 DEF Stands, Pending, Live
  <2> QED
    BY <2>1, <2>2 DEF OnChain, ForkIsShallow
<1>2. Shape /\ Newest /\ OnChain /\ [Next]_vars => OnChain'
  BY OnChainKept, TailAssumption
<1>3. Shape /\ Newest /\ OnChain => LiveRowsOnOneChain
  <2> SUFFICES ASSUME Shape, Newest, OnChain, Settled, NEW i \in Live
               PROVE  last # NoBlock /\ IsPrefix(blocks[i].block.hash, last)
    BY DEF LiveRowsOnOneChain
  <2>1. i \in 1..Len(blocks) /\ updates = <<>>
    BY DEF Live, Settled
  <2>2. Stands(blocks[i].block) /\ Shows(blocks[i].block.height)
    BY <2>1 DEF Stands, Spared, Shows
  <2>3. ~PushedOut(blocks[i].block.height)
    BY <2>1, RowIsNotPushedOut, TailAssumption
  <2> QED
    BY <2>2, <2>3 DEF Newest, OnChain
<1> QED
  BY <1>1, <1>2, <1>3, WindowInvariant, PTL DEF Spec

-----------------------------------------------------------------------------
(* The phase in the header.                                                *)

SaysLive(u) == u.type = "Phase" /\ u.phase = "Live"
SaysConnecting(u) == u.type = "Phase" /\ u.phase = "Connecting"
SaysNotLive(u) == u.type = "Phase" /\ u.phase # "Live"

\* The App is not live once it has applied the first n updates.
NotLiveAt(n) ==
  \/ phase # "Live" /\ \A j \in 1..n : ~SaysLive(updates[j])
  \/ \E i \in 1..n : SaysNotLive(updates[i]) /\ \A j \in (i + 1)..n : ~SaysLive(updates[j])

\* Connecting is only announced to an App that will not be live by then.
PhasesInOrder ==
  /\ \A k \in 1..Len(updates) : SaysConnecting(updates[k]) => NotLiveAt(k - 1)
  /\ pc = "backoff" \/ (pc = "connect" /\ ~boundary) => NotLiveAt(Len(updates))

\* Sending more changes nothing about the updates sent before.
LEMMA NotLiveKept ==
  ASSUME updates \in Seq(UpdateSet), NEW s \in Seq(UpdateSet), updates' = updates \o s, phase' = phase,
         NEW n \in 0..Len(updates)
  PROVE  NotLiveAt(n)' <=> NotLiveAt(n)
<1>1. Len(updates) \in Nat /\ \A j \in 1..Len(updates) : updates'[j] = updates[j]
  BY Sent
<1>2. \A j \in 1..n : updates'[j] = updates[j]
  BY <1>1
<1>3. ASSUME NEW i \in 1..n PROVE \A j \in (i + 1)..n : updates'[j] = updates[j]
  BY <1>1, <1>2
<1>4. (\A j \in 1..n : ~SaysLive(updates'[j])) <=> (\A j \in 1..n : ~SaysLive(updates[j]))
  BY <1>2
<1>5. ASSUME NEW i \in 1..n
      PROVE  (SaysNotLive(updates'[i]) /\ \A j \in (i + 1)..n : ~SaysLive(updates'[j])) <=>
             (SaysNotLive(updates[i]) /\ \A j \in (i + 1)..n : ~SaysLive(updates[j]))
  BY <1>2, <1>3
<1>6. \A u : (SaysLive(u)' <=> SaysLive(u)) /\ (SaysNotLive(u)' <=> SaysNotLive(u))
  BY DEF SaysLive, SaysNotLive
<1> QED
  BY <1>4, <1>5 DEF NotLiveAt, SaysLive, SaysNotLive

\* A sending keeps the order when it starts with no word of connecting to a live
\* App, and ends with a word that the App is not live when the task backs off.
LEMMA SentInOrder ==
  ASSUME Shape, PhasesInOrder, NEW s \in Seq(UpdateSet), updates' = updates \o s, phase' = phase,
         \A i \in 1..Len(s) : SaysConnecting(s[i]) => i = 1 /\ NotLiveAt(Len(updates)),
         pc' = "backoff" \/ (pc' = "connect" /\ ~boundary') =>
           \/ s = <<>> /\ NotLiveAt(Len(updates))
           \/ Len(s) > 0 /\ SaysNotLive(s[Len(s)])
  PROVE  PhasesInOrder'
<1>0. updates \in Seq(UpdateSet)
  BY DEF Shape
<1>1. /\ Len(updates) \in Nat /\ Len(s) \in Nat
      /\ Len(updates') = Len(updates) + Len(s)
      /\ \A k \in 1..Len(updates) : updates'[k] = updates[k]
      /\ \A k \in 1..Len(s) : updates'[Len(updates) + k] = s[k]
      /\ \A k \in 1..Len(updates') :
           k \in 1..Len(updates) \/ \E i \in 1..Len(s) : k = Len(updates) + i
  BY <1>0, Sent
<1>2. \A n \in 0..Len(updates) : NotLiveAt(n)' <=> NotLiveAt(n)
  BY <1>0, NotLiveKept
<1>3. ASSUME NEW k \in 1..Len(updates'), NEW m, m = k - 1, SaysConnecting(updates'[k])
      PROVE  NotLiveAt(m)'
  <2>1. CASE k \in 1..Len(updates)
    <3>1. m \in 0..Len(updates) /\ NotLiveAt(m)
      BY <1>1, <1>3, <2>1 DEF PhasesInOrder
    <3> QED
      BY <1>2, <3>1
  <2>2. CASE \E i \in 1..Len(s) : k = Len(updates) + i
    <3>1. PICK i \in 1..Len(s) : k = Len(updates) + i
      BY <2>2
    <3>2. SaysConnecting(s[i])
      BY <1>1, <1>3, <3>1
    <3>3. i = 1 /\ NotLiveAt(Len(updates))
      BY <3>2
    <3>4. m = Len(updates)
      BY <1>1, <1>3, <3>1, <3>3
    <3>5. m \in 0..Len(updates) /\ NotLiveAt(m)
      BY <1>1, <3>3, <3>4
    <3> QED
      BY <1>2, <3>5
  <2> QED
    BY <1>1, <2>1, <2>2
<1>4. ASSUME pc' = "backoff" \/ (pc' = "connect" /\ ~boundary'), NEW n, n = Len(updates')
      PROVE  NotLiveAt(n)'
  <2>1. CASE s = <<>> /\ NotLiveAt(Len(updates))
    <3>1. n = Len(updates)
      BY <1>1, <1>4, <2>1
    <3> QED
      BY <1>1, <1>2, <2>1, <3>1
  <2>2. CASE Len(s) > 0 /\ SaysNotLive(s[Len(s)])
    <3>1. n \in 1..n /\ n = Len(updates) + Len(s) /\ Len(s) \in 1..Len(s)
      BY <1>1, <1>4, <2>2
    <3>2. updates'[n] = s[Len(s)]
      BY <1>1, <3>1
    <3>3. SaysNotLive(updates'[n]) /\ \A j \in (n + 1)..n : FALSE
      BY <1>1, <2>2, <3>1, <3>2
    <3> QED
      BY <3>1, <3>3 DEF NotLiveAt, SaysNotLive
  <2> QED
    BY <1>4, <2>1, <2>2
<1>5. ASSUME NEW k \in 1..Len(updates'), SaysConnecting(updates'[k])
      PROVE  NotLiveAt(k - 1)'
  BY <1>3, <1>5
<1>6. (pc' = "backoff" \/ (pc' = "connect" /\ ~boundary')) => NotLiveAt(Len(updates))'
  BY <1>4 DEF NotLiveAt
<1> QED
  BY <1>5, <1>6 DEF PhasesInOrder, SaysConnecting

\* A failure ends with a word that the App is not live.
LEMMA FailureSays ==
  ASSUME NEW sent \in Seq(UpdateSet), Fail(sent)
  PROVE  \E s \in Seq(UpdateSet) :
           /\ updates' = updates \o s /\ Len(s) = Len(sent) + 1 /\ Len(sent) \in Nat
           /\ \A i \in 1..Len(sent) : s[i] = sent[i]
           /\ s[Len(s)] = PhaseUpdate("Reconnecting")
<1> DEFINE S == UpdateSet
           r == PhaseUpdate("Reconnecting")
           s == Append(sent, r)
<1>1. r \in S /\ sent \in Seq(S) /\ updates' = updates \o s
  BY DEF PhaseUpdate, UpdateSet, Fail, Send
<1> HIDE DEF S, r
<1>2. /\ s \in Seq(S) /\ Len(s) = Len(sent) + 1 /\ Len(sent) \in Nat
      /\ s[Len(sent) + 1] = r /\ \A i \in 1..Len(sent) : s[i] = sent[i]
  BY <1>1, AppendProperties, LenProperties
<1> HIDE DEF s
<1>3. s[Len(s)] = r
  BY <1>2
<1> QED
  BY <1>1, <1>2, <1>3 DEF S, r

\* No step sends Connecting straight after Live.
LEMMA PhasesInOrderKept ==
  ASSUME Shape, TailAssumption, PhasesInOrder, [Next]_vars
  PROVE  PhasesInOrder'
<1>0. /\ Len(updates) \in Nat /\ updates \in Seq(UpdateSet) /\ boundary \in BOOLEAN
      /\ \A k \in 1..Len(updates) : updates[k] \in UpdateSet
  BY StandingBlocks DEF Shape, TailTypeOK
<1>c. /\ PhaseUpdate("Reconnecting") \in UpdateSet /\ PhaseUpdate("Connecting") \in UpdateSet
      /\ SaysNotLive(PhaseUpdate("Reconnecting")) /\ ~SaysConnecting(PhaseUpdate("Reconnecting"))
  BY DEF PhaseUpdate, UpdateSet, SaysNotLive, SaysConnecting
\* Nothing is sent, and the task does not come to back off.
<1>1. ASSUME updates' = updates, phase' = phase,
             pc' = "backoff" \/ (pc' = "connect" /\ ~boundary') =>
               pc = "backoff" \/ (pc = "connect" /\ ~boundary)
      PROVE  PhasesInOrder'
  <2>1. \A n : NotLiveAt(n)' <=> NotLiveAt(n)
    BY <1>1 DEF NotLiveAt, SaysLive, SaysNotLive
  <2>2. \A k \in 1..Len(updates) : SaysConnecting(updates[k]) => NotLiveAt(k - 1)'
    BY <2>1 DEF PhasesInOrder
  <2>3. pc' = "backoff" \/ (pc' = "connect" /\ ~boundary') => NotLiveAt(Len(updates))
    BY <1>1 DEF PhasesInOrder
  <2>4. NotLiveAt(Len(updates))' <=> NotLiveAt(Len(updates))
    BY <1>1 DEF NotLiveAt, SaysLive, SaysNotLive
  <2> QED
    BY <1>1, <2>2, <2>3, <2>4 DEF PhasesInOrder, SaysConnecting
\* A failure after a request.
<1>2. ASSUME Fail(<<>>), phase' = phase PROVE PhasesInOrder'
  <2>1. <<>> \in Seq(UpdateSet) /\ Len(<<>>) = 0
    OBVIOUS
  <2>2. PICK s \in Seq(UpdateSet) :
          /\ updates' = updates \o s /\ Len(s) = 1 /\ s[Len(s)] = PhaseUpdate("Reconnecting")
    <3>1. PICK c \in Seq(UpdateSet) : c = <<>> /\ Len(c) = 0
      BY <2>1
    <3>2. PICK s \in Seq(UpdateSet) :
            /\ updates' = updates \o s /\ Len(s) = Len(c) + 1
            /\ s[Len(s)] = PhaseUpdate("Reconnecting")
      BY <1>2, <3>1, FailureSays
    <3>3. Len(c) = 0
      BY <3>1
    <3>4. Len(s) = 1
      BY <3>2, <3>3
    <3> QED
      BY <3>2, <3>4, Zenon
  <2>3. \A i \in 1..Len(s) : s[i] = PhaseUpdate("Reconnecting")
    BY <2>2
  <2>4. Len(s) > 0 /\ SaysNotLive(s[Len(s)]) /\ \A i \in 1..Len(s) : ~SaysConnecting(s[i])
    BY <1>c, <2>2, <2>3
  <2> QED
    BY <1>2, <2>2, <2>4, SentInOrder
\* Something else than a phase is sent, and the task goes on.
<1>3. ASSUME NEW s \in Seq(UpdateSet), updates' = updates \o s, phase' = phase,
             \A i \in 1..Len(s) : ~SaysConnecting(s[i]), pc' \notin {"backoff", "connect"}
      PROVE  PhasesInOrder'
  BY <1>3, SentInOrder
<1>4. CASE Connect
  <2>1. phase' = phase /\ pc = "connect" /\ boundary' = FALSE
    BY <1>4 DEF Connect, appVars
  <2>2. /\ ConnectSends \in Seq(UpdateSet)
        /\ \/ boundary /\ Len(ConnectSends) = 0
           \/ ~boundary /\ Len(ConnectSends) = 1 /\ NotLiveAt(Len(updates))
    BY <1>0, <1>c, <2>1 DEF ConnectSends, PhasesInOrder
  <2>3. PICK c \in Seq(UpdateSet) : c = ConnectSends
    BY <2>2
  <2>4. \A i \in 1..Len(c) : i = 1 /\ NotLiveAt(Len(updates))
    <3>1. CASE Len(c) = 0
      BY <3>1
    <3>2. CASE Len(c) = 1 /\ NotLiveAt(Len(updates))
      BY <3>2
    <3> QED
      BY <2>2, <2>3, <3>1, <3>2
  <2>5. CASE Fail(ConnectSends)
    <3>1. PICK s \in Seq(UpdateSet) :
            /\ updates' = updates \o s /\ Len(s) = Len(c) + 1 /\ Len(c) \in Nat
            /\ \A i \in 1..Len(c) : s[i] = c[i]
            /\ s[Len(s)] = PhaseUpdate("Reconnecting")
      BY <2>3, <2>5, FailureSays
    <3>2. Len(s) > 0 /\ SaysNotLive(s[Len(s)])
      BY <1>c, <3>1
    <3>3. ASSUME NEW i \in 1..Len(s), SaysConnecting(s[i])
          PROVE  i = 1 /\ NotLiveAt(Len(updates))
      <4>1. i # Len(s)
        BY <1>c, <3>1, <3>3
      <4>2. i \in 1..Len(c)
        BY <3>1, <4>1
      <4> QED
        BY <2>4, <4>2
    <3> QED
      BY <2>1, <3>1, <3>2, <3>3, SentInOrder
  <2>6. CASE pc' = "tip" /\ Send(ConnectSends)
    <3>1. updates' = updates \o c
      BY <2>3, <2>6 DEF Send
    <3> QED
      BY <2>1, <2>4, <2>6, <3>1, SentInOrder
  <2> QED
    BY <1>4, <2>5, <2>6 DEF Connect
<1>5. CASE ReadTip
  <2>1. updates' = updates /\ phase' = phase /\ pc' \in {"fill", "announce"}
    BY <1>5 DEF ReadTip, appVars
  <2> QED
    BY <1>1, <2>1
\* A delivery carries blocks alone.
<1>6. ASSUME NEW lo, DeliversFrom(lo) PROVE PhasesInOrder'
  <2>1. PICK s : s = Mined(BlockRange(lo, tip))
    OBVIOUS
  <2>2. /\ lo \in Nat /\ tip \in Nat /\ lo <= tip /\ tip <= Len(chain) /\ chain \in Seq(Nat)
        /\ phase' = phase /\ pc' = "announce" /\ updates' = updates \o s
    BY <1>6, <2>1, DeliveryAdds DEF DeliversFrom, Deliver, Send, Shape, TailTypeOK, appVars
  <2>3. /\ s \in Seq(UpdateSet)
        /\ \A i \in 1..Len(s) : ~SaysConnecting(s[i])
    <3>1. LET cs == BlockRange(lo, tip)
          IN  /\ Mined(cs) \in Seq(UpdateSet) /\ Len(Mined(cs)) = Len(cs)
              /\ \A i \in 1..Len(cs) : Mined(cs)[i] = [type |-> "MinedBlock", block |-> cs[i]]
      BY <2>2, RangeShape
    <3>2. PICK cs : cs = BlockRange(lo, tip)
      OBVIOUS
    <3>3. /\ s \in Seq(UpdateSet) /\ Len(s) = Len(cs)
          /\ \A i \in 1..Len(cs) : s[i] = [type |-> "MinedBlock", block |-> cs[i]]
      BY <2>1, <3>1, <3>2, Zenon
    <3>4. ASSUME NEW i \in 1..Len(s) PROVE s[i].type = "MinedBlock"
      <4>1. s[i] = [type |-> "MinedBlock", block |-> cs[i]]
        BY <3>3, Zenon
      <4> QED
        BY <4>1
    <3> QED
      BY <3>3, <3>4 DEF SaysConnecting
  <2> QED
    BY <1>3, <2>2, <2>3
<1>7. CASE StartsReorg
  <2> DEFINE r == [type |-> "Reorg", at |-> RefetchFrom]
             S == UpdateSet
  <2>1. /\ updates' = updates \o <<r>> /\ RefetchFrom \in Nat
        /\ pc' = "refetch" /\ phase' = phase
    BY <1>7, ReorgShape DEF appVars
  <2>2. r \in S /\ ~SaysConnecting(r)
    BY <2>1 DEF UpdateSet, SaysConnecting
  <2> HIDE DEF r, S
  <2>3. PICK s : s = <<r>>
    OBVIOUS
  <2>4. s \in Seq(S) /\ Len(s) = 1 /\ s[1] = r
    BY <2>2, <2>3
  <2>5. \A i \in 1..Len(s) : ~SaysConnecting(s[i])
    BY <2>2, <2>4
  <2> QED
    BY <1>3, <2>1, <2>3, <2>4, <2>5 DEF S
<1>8. CASE Fill
  <2>1. phase' = phase
    BY <1>8 DEF Fill, appVars
  <2>2. CASE pc' = "announce" /\ UNCHANGED <<errors, last, owed, updates>>
    BY <1>1, <2>1, <2>2
  <2>3. CASE Fail(<<>>)
    BY <1>2, <2>1, <2>3
  <2>4. CASE /\ ~NothingNew /\ CanServe(tip)
             /\ IF Reorged(BlockRange(FillStart, tip)) THEN StartRefetch ELSE Deliver(FillStart)
    <3>1. StartsReorg \/ FillDelivers
      BY <1>8, <2>4 DEF Fill, StartsReorg, FillDelivers
    <3> QED
      BY <1>6, <1>7, <3>1, FillShape
  <2> QED
    BY <1>8, <2>2, <2>3, <2>4 DEF Fill
<1>9. CASE Refetch
  <2>1. phase' = phase
    BY <1>9 DEF Refetch, appVars
  <2>2. CASE Fail(<<>>)
    BY <1>2, <2>1, <2>2
  <2>3. CASE CanServe(tip) /\ Deliver(RefetchFrom)
    <3>1. RefetchDelivers
      BY <1>9, <2>3 DEF Refetch, RefetchDelivers
    <3> QED
      BY <1>6, <3>1, RefetchShape
  <2> QED
    BY <1>9, <2>2, <2>3 DEF Refetch
<1>10. CASE LoseTip
  <2> DEFINE r == PhaseUpdate("Reconnecting")
             S == UpdateSet
  <2>1. updates' = updates \o <<r>> /\ phase' = phase
    BY <1>10 DEF LoseTip, Send, appVars
  <2>2. r \in S /\ ~SaysConnecting(r) /\ SaysNotLive(r)
    BY <1>c
  <2> HIDE DEF r, S
  <2>3. PICK s : s = <<r>>
    OBVIOUS
  <2>4. s \in Seq(S) /\ Len(s) = 1 /\ s[1] = r
    BY <2>2, <2>3
  <2>5. Len(s) > 0 /\ SaysNotLive(s[Len(s)]) /\ \A i \in 1..Len(s) : ~SaysConnecting(s[i])
    BY <2>2, <2>4
  <2> QED
    BY <2>1, <2>3, <2>4, <2>5, SentInOrder DEF S
<1>11. CASE Announce
  <2>1. updates' = updates \o AnnounceSends /\ phase' = phase /\ pc' = "open" /\ tip \in Nat
    BY <1>11 DEF Announce, Send, appVars, Shape, TailTypeOK
  <2> DEFINE p == [type |-> "Block", tip |-> tip]
             q == PhaseUpdate("Live")
             S == UpdateSet
  <2>2. p \in S /\ q \in S /\ ~SaysConnecting(p) /\ ~SaysConnecting(q)
    BY <2>1 DEF UpdateSet, PhaseUpdate, SaysConnecting
  <2>3. PICK s : s = AnnounceSends
    OBVIOUS
  <2>4. s = <<p, q>>
    BY <2>3 DEF AnnounceSends
  <2> HIDE DEF p, q, S
  <2>5. s \in Seq(S) /\ Len(s) = 2 /\ s[1] = p /\ s[2] = q
    BY <2>2, <2>4
  <2>6. \A i \in 1..Len(s) : ~SaysConnecting(s[i])
    <3>1. \A i \in 1..Len(s) : i = 1 \/ i = 2
      BY <2>5
    <3> QED
      BY <2>2, <2>5, <3>1
  <2> QED
    BY <1>3, <2>1, <2>3, <2>5, <2>6 DEF S
<1>12. CASE OpenMempool
  <2>1. phase' = phase
    BY <1>12 DEF OpenMempool, appVars
  <2> QED
    BY <1>1, <1>2, <1>12, <2>1 DEF OpenMempool
<1>13. CASE StreamEnds
  <2>1. updates' = updates /\ phase' = phase /\ pc' = "connect" /\ boundary' = TRUE
    BY <1>13 DEF StreamEnds, NextBoundary, appVars
  <2> QED
    BY <1>1, <2>1
<1>14. CASE StreamFails
  <2>1. phase' = phase /\ Fail(<<>>)
    BY <1>14 DEF StreamFails, appVars
  <2> QED
    BY <1>2, <2>1
<1>15. CASE BackoffOver
  <2>1. updates' = updates /\ phase' = phase /\ pc = "backoff"
    BY <1>15 DEF BackoffOver, appVars
  <2> QED
    BY <1>1, <2>1
<1>16. CASE Server
  <2>1. updates' = updates /\ phase' = phase /\ pc' = pc /\ boundary' = boundary
    BY <1>16, ServerKeepsChain DEF cycleVars, appVars
  <2> QED
    BY <1>1, <2>1
<1>17. CASE UNCHANGED vars
  <2>1. updates' = updates /\ phase' = phase /\ pc' = pc /\ boundary' = boundary
    BY <1>17 DEF vars, cycleVars, appVars
  <2> QED
    BY <1>1, <2>1
<1>18. CASE Apply
  <2>1. /\ Len(updates) >= 1 /\ 1 \in 1..Len(updates)
        /\ Len(updates') = Len(updates) - 1
        /\ \A k \in 1..Len(updates') : updates'[k] = updates[k + 1] /\ k + 1 \in 1..Len(updates)
        /\ \A k \in 1..Len(updates) :
             k = 1 \/ (k - 1 \in 1..Len(updates') /\ updates'[k - 1] = updates[k])
        /\ pc' = pc /\ boundary' = boundary
    BY <1>18, Applied DEF cycleVars
  <2>2. PICK u \in UpdateSet : u = updates[1] /\ u = Head(updates)
    BY <1>0, <1>18, <2>1, HeadTailProperties DEF Apply
  <2>3. /\ u.type = "Phase" => phase' = u.phase
        /\ u.type # "Phase" => phase' = phase
    BY <1>18, <2>2, UpdateKinds DEF Apply
  <2>4. ASSUME NEW n \in Nat, n <= Len(updates'), NEW m, m = n + 1, NotLiveAt(m)
        PROVE  NotLiveAt(n)'
    <3>1. CASE phase # "Live" /\ \A j \in 1..m : ~SaysLive(updates[j])
      <4>1. 1 \in 1..m /\ \A j \in 1..n : j \in 1..Len(updates') /\ j + 1 \in 1..m
        BY <1>0, <2>1, <2>4
      <4>2. phase' # "Live"
        BY <2>2, <2>3, <3>1, <4>1 DEF SaysLive
      <4>3. \A j \in 1..n : ~SaysLive(updates'[j])
        BY <2>1, <3>1, <4>1
      <4> QED
        BY <4>2, <4>3 DEF NotLiveAt, SaysLive
    <3>2. CASE \E i \in 1..m : SaysNotLive(updates[i]) /\ \A j \in (i + 1)..m : ~SaysLive(updates[j])
      <4>1. PICK i \in 1..m : SaysNotLive(updates[i]) /\ \A j \in (i + 1)..m : ~SaysLive(updates[j])
        BY <3>2
      <4>2. CASE i = 1
        <5>1. phase' # "Live"
          BY <2>2, <2>3, <4>1, <4>2 DEF SaysNotLive
        <5>2. \A j \in 1..n : j \in 1..Len(updates') /\ j + 1 \in (i + 1)..m
          BY <1>0, <2>1, <2>4, <4>2
        <5>3. \A j \in 1..n : ~SaysLive(updates'[j])
          BY <2>1, <4>1, <5>2
        <5> QED
          BY <5>1, <5>3 DEF NotLiveAt, SaysLive
      <4>3. CASE i # 1
        <5>1. i - 1 \in 1..n /\ i \in 1..Len(updates)
          BY <1>0, <2>1, <2>4, <4>3
        <5>2. PICK q \in 1..n : q = i - 1 /\ updates'[q] = updates[i]
          BY <2>1, <4>3, <5>1
        <5>3. \A j \in (q + 1)..n : j \in 1..Len(updates') /\ j + 1 \in (i + 1)..m
          BY <1>0, <2>1, <2>4, <5>2
        <5>4. \A j \in (q + 1)..n : ~SaysLive(updates'[j])
          BY <2>1, <4>1, <5>3
        <5>5. SaysNotLive(updates'[q])
          BY <4>1, <5>2
        <5> QED
          BY <5>4, <5>5 DEF NotLiveAt, SaysLive, SaysNotLive
      <4> QED
        BY <4>2, <4>3
    <3> QED
      BY <2>4, <3>1, <3>2 DEF NotLiveAt
  <2>5. ASSUME NEW k \in 1..Len(updates'), SaysConnecting(updates'[k]), NEW n, n = k - 1
        PROVE  NotLiveAt(n)'
    <3>1. k + 1 \in 1..Len(updates) /\ SaysConnecting(updates[k + 1]) /\ (k + 1) - 1 = k
      BY <2>1, <2>5
    <3>2. NotLiveAt(k)
      BY <3>1 DEF PhasesInOrder
    <3>3. n \in Nat /\ n <= Len(updates') /\ k = n + 1
      BY <1>0, <2>1, <2>5
    <3> QED
      BY <2>4, <3>2, <3>3
  <2>6. ASSUME pc = "backoff" \/ (pc = "connect" /\ ~boundary), NEW n, n = Len(updates')
        PROVE  NotLiveAt(n)'
    <3>1. n \in Nat /\ n <= Len(updates') /\ Len(updates) = n + 1
      BY <1>0, <2>1, <2>6
    <3> QED
      BY <2>4, <2>6, <3>1 DEF PhasesInOrder
  <2>7. ASSUME NEW k \in 1..Len(updates'), SaysConnecting(updates'[k]) PROVE NotLiveAt(k - 1)'
    BY <2>5, <2>7
  <2>8. (pc' = "backoff" \/ (pc' = "connect" /\ ~boundary')) => NotLiveAt(Len(updates))'
    BY <2>1, <2>6 DEF NotLiveAt
  <2> QED
    BY <2>7, <2>8 DEF PhasesInOrder, SaysConnecting
<1> QED
  BY <1>4, <1>5, <1>8, <1>9, <1>10, <1>11, <1>12, <1>13, <1>14, <1>15, <1>16, <1>17, <1>18
  DEF Next, Cycle

\* Only an error takes the header from live (LiveEndsByError): of the updates in
\* flight, none announces connecting to an App that is live when it gets there,
\* so a block boundary never makes the phase flap.
THEOREM LiveAlwaysEndsByError == Spec => LiveEndsByError
<1>1. Init => PhasesInOrder
  <2> SUFFICES ASSUME Init PROVE PhasesInOrder
    OBVIOUS
  <2>1. updates = <<>> /\ phase = "Connecting" /\ Len(updates) = 0
    BY DEF Init
  <2> QED
    BY <2>1 DEF PhasesInOrder, NotLiveAt
<1>2. Shape /\ PhasesInOrder /\ [Next]_vars => PhasesInOrder'
  BY PhasesInOrderKept, TailAssumption
<1>3. Shape /\ PhasesInOrder /\ [Next]_vars =>
        [phase = "Live" /\ phase' # "Live" => phase' = "Reconnecting"]_vars
  <2> SUFFICES ASSUME Shape, PhasesInOrder, Next, phase = "Live", phase' # "Live"
               PROVE  phase' = "Reconnecting"
    BY DEF vars, appVars
  <2>1. CASE Apply
    <3>1. updates # <<>> /\ updates \in Seq(UpdateSet)
      BY <2>1 DEF Apply, Shape
    <3>2. 1 \in 1..Len(updates) /\ Head(updates) = updates[1]
      BY <2>1, <3>1, Applied, HeadTailProperties
    <3>3. PICK u \in UpdateSet : u = updates[1] /\ u = Head(updates)
      BY <3>2, StandingBlocks, TailAssumption
    <3>4. u.type = "Phase" /\ phase' = u.phase
      BY <2>1, <3>3, UpdateKinds DEF Apply
    <3>5. ~SaysConnecting(u)
      <4> SUFFICES ASSUME SaysConnecting(u) PROVE FALSE
        OBVIOUS
      <4>1. NotLiveAt(1 - 1)
        BY <3>2, <3>3 DEF PhasesInOrder
      <4> QED
        BY <4>1 DEF NotLiveAt
    <3> QED
      BY <3>4, <3>5, UpdateKinds DEF SaysConnecting
  <2>2. CASE ~Apply
    <3>1. phase' = phase
      BY <2>2, StepKinds, ServerKeepsChain
      DEF StartsReorg, FillDelivers, RefetchDelivers, Calm, appVars
    <3> QED
      BY <3>1
  <2> QED
    BY <2>1, <2>2
<1> QED
  BY <1>1, <1>2, <1>3, ShapeInvariant, PTL DEF Spec, LiveEndsByError
===============================================================================
