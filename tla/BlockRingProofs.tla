--------------------------- MODULE BlockRingProofs ---------------------------
(***************************************************************************)
(* Proofs that the block tail keeps its order, shows one live row per      *)
(* height and feeds its clock forward, and that it implements the          *)
(* set-based window of BlockWindow, for every set of blocks, window size   *)
(* and number of insertions.                                               *)
(*                                                                         *)
(* The argument: insert_block's position splits a sorted deque into rows   *)
(* strictly above the new height and rows at or below it, and the row it   *)
(* replaces lies in the lower part.  So the result is the old deque, less  *)
(* one row, with the new row put between the two parts (PlaceShape), and   *)
(* the new row's seq is above every other (SeqsBelowNext).                 *)
(* A sorted deque has no row twice and its last row is the oldest, so what *)
(* truncate cuts off is what the window gives up.                          *)
(***************************************************************************)
EXTENDS BlockRing, SequenceTheorems, FiniteSetTheorems, FunctionTheorems,
        WellFoundedInduction, TLAPS

(* Sequence helpers of the community modules, index by index.              *)

\* A nonempty set of naturals has its Min.
LEMMA MinIsLeast ==
  ASSUME NEW I \in SUBSET Nat, I # {}
  PROVE  Min(I) \in I /\ \A j \in I : Min(I) <= j
<1> DEFINE R == OpToRel(<, Nat)
<1>1. IsWellFoundedOn(R, Nat)
  BY NatLessThanWellFounded
<1>2. \A a, b \in Nat : a < b => <<a, b>> \in R
  BY DEF OpToRel
<1> HIDE DEF R
<1>3. PICK x \in I : \A y \in I : ~(<<y, x>> \in R)
  BY <1>1, WFMin
<1>4. ASSUME NEW y \in I PROVE x <= y
  <2>1. x \in Nat /\ y \in Nat
    OBVIOUS
  <2>2. ~(y < x)
    BY <1>2, <1>3, <2>1, Zenon
  <2> QED
    BY <2>1, <2>2
<1> QED
  BY <1>4 DEF Min

\* InsertAt puts e at i and shifts the rest up by one.
LEMMA InsertAtShape ==
  ASSUME NEW S, NEW s \in Seq(S), NEW i \in 1..(Len(s) + 1), NEW e \in S
  PROVE  /\ InsertAt(s, i, e) \in Seq(S)
         /\ Len(InsertAt(s, i, e)) = Len(s) + 1
         /\ \A k \in 1..(Len(s) + 1) :
              InsertAt(s, i, e)[k] = IF k < i THEN s[k] ELSE IF k = i THEN e ELSE s[k - 1]
<1> DEFINE lo == SubSeq(s, 1, i - 1)
           hi == SubSeq(s, i, Len(s))
           md == lo \o <<e>>
<1>1. Len(s) \in Nat /\ \A k \in 1..Len(s) : s[k] \in S
  BY LenProperties, ElementOfSeq
<1>2. /\ lo \in Seq(S)
      /\ Len(lo) = i - 1
      /\ \A k \in 1..(i - 1) : lo[k] = s[k]
  <2>1. \A k \in 1..(i - 1) : s[k] \in S
    BY <1>1
  <2> QED
    BY <1>1, <2>1, SubSeqProperties
<1>3. /\ hi \in Seq(S)
      /\ Len(hi) = Len(s) - i + 1
      /\ \A k \in 1..(Len(s) - i + 1) : hi[k] = s[i + k - 1]
  <2>1. \A k \in i..Len(s) : s[k] \in S
    BY <1>1
  <2> QED
    BY <1>1, <2>1, SubSeqProperties
<1>4. <<e>> \in Seq(S) /\ Len(<<e>>) = 1 /\ <<e>>[1] = e
  OBVIOUS
<1> HIDE DEF lo, hi
<1>5. /\ md \in Seq(S)
      /\ Len(md) = i
      /\ \A k \in 1..i : md[k] = IF k < i THEN s[k] ELSE e
  BY <1>1, <1>2, <1>4, ConcatProperties
<1> HIDE DEF md
<1>6. InsertAt(s, i, e) = md \o hi
  BY DEF InsertAt, md, lo, hi
<1>7. /\ md \o hi \in Seq(S)
      /\ Len(md \o hi) = Len(s) + 1
      /\ \A k \in 1..(Len(s) + 1) : (md \o hi)[k] = IF k <= i THEN md[k] ELSE hi[k - i]
  <2>1. /\ md \o hi \in Seq(S)
        /\ Len(md \o hi) = Len(md) + Len(hi)
        /\ \A k \in 1..(Len(md) + Len(hi)) :
             (md \o hi)[k] = IF k <= Len(md) THEN md[k] ELSE hi[k - Len(md)]
    BY <1>3, <1>5, ConcatProperties
  <2>2. Len(md) + Len(hi) = Len(s) + 1
    BY <1>1, <1>3, <1>5
  <2> QED
    BY <1>5, <2>1, <2>2
<1>8. \A k \in 1..(Len(s) + 1) : k > i => hi[k - i] = s[k - 1]
  BY <1>1, <1>3
<1> QED
  BY <1>1, <1>5, <1>6, <1>7, <1>8

\* RemoveAt shifts what follows i down by one.
LEMMA RemoveAtShape ==
  ASSUME NEW S, NEW s \in Seq(S), NEW i \in 1..Len(s)
  PROVE  /\ RemoveAt(s, i) \in Seq(S)
         /\ Len(RemoveAt(s, i)) = Len(s) - 1
         /\ \A k \in 1..(Len(s) - 1) :
              RemoveAt(s, i)[k] = IF k < i THEN s[k] ELSE s[k + 1]
<1> DEFINE lo == SubSeq(s, 1, i - 1)
           hi == SubSeq(s, i + 1, Len(s))
<1>1. Len(s) \in Nat /\ \A k \in 1..Len(s) : s[k] \in S
  BY LenProperties, ElementOfSeq
<1>2. /\ lo \in Seq(S)
      /\ Len(lo) = i - 1
      /\ \A k \in 1..(i - 1) : lo[k] = s[k]
  <2>1. \A k \in 1..(i - 1) : s[k] \in S
    BY <1>1
  <2> QED
    BY <1>1, <2>1, SubSeqProperties
<1>3. /\ hi \in Seq(S)
      /\ Len(hi) = Len(s) - i
      /\ \A k \in 1..(Len(s) - i) : hi[k] = s[i + k]
  <2>1. \A k \in (i + 1)..Len(s) : s[k] \in S
    BY <1>1
  <2> QED
    BY <1>1, <2>1, SubSeqProperties
<1>4. RemoveAt(s, i) = lo \o hi
  BY DEF RemoveAt
<1> HIDE DEF lo, hi
<1>5. /\ lo \o hi \in Seq(S)
      /\ Len(lo \o hi) = Len(s) - 1
      /\ \A k \in 1..(Len(s) - 1) : (lo \o hi)[k] = IF k < i THEN lo[k] ELSE hi[k - (i - 1)]
  <2>1. /\ lo \o hi \in Seq(S)
        /\ Len(lo \o hi) = Len(lo) + Len(hi)
        /\ \A k \in 1..(Len(lo) + Len(hi)) :
             (lo \o hi)[k] = IF k <= Len(lo) THEN lo[k] ELSE hi[k - Len(lo)]
    BY <1>2, <1>3, ConcatProperties
  <2>2. Len(lo) + Len(hi) = Len(s) - 1
    BY <1>1, <1>2, <1>3
  <2>3. \A k \in Nat : k <= Len(lo) <=> k < i
    BY <1>2
  <2> QED
    BY <1>1, <1>2, <2>1, <2>2, <2>3
<1>6. \A k \in 1..(Len(s) - 1) : k >= i => hi[k - (i - 1)] = s[k + 1]
  BY <1>1, <1>3
<1> QED
  BY <1>1, <1>2, <1>4, <1>5, <1>6

-----------------------------------------------------------------------------
(* The positions insert_block computes.                                    *)

\* The insertion position splits the deque: every row above it is strictly
\* higher, and the row at it, if there is one, is not.
LEMMA InsertPosShape ==
  ASSUME NEW s \in Seq(Row), NEW h \in Nat
  PROVE  /\ InsertPos(s, h) \in 1..(Len(s) + 1)
         /\ \A k \in 1..Len(s) : k < InsertPos(s, h) => ~(s[k].block.height <= h)
         /\ InsertPos(s, h) <= Len(s) => s[InsertPos(s, h)].block.height <= h
<1> DEFINE I == {i \in 1..Len(s) : s[i].block.height <= h}
<1>0. Len(s) \in Nat
  BY LenProperties
<1>1. SelectInSeq(s, LAMBDA r : r.block.height <= h) = IF I # {} THEN Min(I) ELSE 0
  BY DEF SelectInSeq
<1>2. InsertPos(s, h) = IF I # {} /\ Min(I) # 0 THEN Min(I) ELSE Len(s) + 1
  BY <1>1 DEF InsertPos
<1>3. I \in SUBSET Nat
  BY <1>0
<1>4. CASE I = {}
  BY <1>0, <1>2, <1>4
<1>5. CASE I # {}
  <2>1. Min(I) \in I /\ \A j \in I : Min(I) <= j
    BY <1>3, <1>5, MinIsLeast
  <2>2. InsertPos(s, h) = Min(I)
    BY <1>0, <1>2, <1>5, <2>1
  <2>3. Min(I) \in 1..Len(s) /\ s[Min(I)].block.height <= h
    BY <2>1
  <2>4. ASSUME NEW k \in 1..Len(s), k < Min(I)
        PROVE  ~(s[k].block.height <= h)
    <3>1. k \notin I
      BY <1>0, <2>1, <2>3, <2>4
    <3> QED
      BY <3>1
  <2> QED
    BY <1>0, <2>2, <2>3, <2>4
<1> QED
  BY <1>4, <1>5

\* LivePos finds the live row of a height if there is one.
LEMMA LivePosShape ==
  ASSUME NEW s \in Seq(Row), NEW h \in Nat
  PROVE  /\ LivePos(s, h) \in 0..Len(s)
         /\ LivePos(s, h) # 0 => /\ s[LivePos(s, h)].block.height = h
                                 /\ ~s[LivePos(s, h)].reorged
         /\ LivePos(s, h) = 0 =>
              \A k \in 1..Len(s) : ~(s[k].block.height = h /\ ~s[k].reorged)
<1> DEFINE I == {i \in 1..Len(s) : s[i].block.height = h /\ ~s[i].reorged}
<1>0. Len(s) \in Nat
  BY LenProperties
<1>1. LivePos(s, h) = IF I # {} THEN Min(I) ELSE 0
  BY DEF LivePos, SelectInSeq
<1>3. I \in SUBSET Nat
  BY <1>0
<1>4. CASE I = {}
  BY <1>0, <1>1, <1>4
<1>5. CASE I # {}
  <2>1. Min(I) \in I
    BY <1>3, <1>5, MinIsLeast
  <2>2. LivePos(s, h) = Min(I)
    BY <1>1, <1>5
  <2>3. /\ LivePos(s, h) \in 1..Len(s)
        /\ s[LivePos(s, h)].block.height = h /\ ~s[LivePos(s, h)].reorged
    BY <2>1, <2>2
  <2>4. LivePos(s, h) \in 0..Len(s) /\ LivePos(s, h) # 0
    BY <1>0, <2>3
  <2> QED
    BY <2>3, <2>4
<1> QED
  BY <1>4, <1>5

-----------------------------------------------------------------------------
(* One insertion into a sorted deque.                                      *)

Sorted(s) ==
  \A i, j \in 1..Len(s) : i < j =>
    \/ s[i].block.height > s[j].block.height
    \/ s[i].block.height = s[j].block.height /\ s[i].seq > s[j].seq

OneLive(s) ==
  \A i, j \in 1..Len(s) :
    (s[i].block.height = s[j].block.height /\ ~s[i].reorged /\ ~s[j].reorged) => i = j

\* Where row k of the result of Place came from: g says which row of s, and
\* the new row is at p, below every higher block and above every other.
PlacedFrom(s, row, t, p, g) ==
  /\ p \in 1..Len(t)
  /\ t[p] = row
  /\ \A k \in 1..Len(t) \ {p} :
       /\ g[k] \in 1..Len(s)
       /\ t[k] = s[g[k]]
       /\ ~(t[k].block.height = row.block.height /\ ~t[k].reorged)
       /\ IF k < p THEN t[k].block.height > row.block.height
                   ELSE t[k].block.height <= row.block.height
  /\ \A j, k \in 1..Len(t) \ {p} : j < k => g[j] < g[k]

\* Place puts the new row where it keeps the order, and takes out the live row of
\* its height.
LEMMA PlaceShape ==
  ASSUME RingAssumption,
         NEW s \in Seq(Row), NEW row \in Row, Sorted(s), OneLive(s)
  PROVE  /\ Place(s, row) \in Seq(Row)
         /\ Len(Place(s, row)) \in {Len(s), Len(s) + 1}
         /\ \E p, g : PlacedFrom(s, row, Place(s, row), p, g)
<1> DEFINE h == row.block.height
           pos == InsertPos(s, h)
           old == LivePos(s, h)
           kept == DropLive(s, h)
           t == Place(s, row)
<1>0. /\ Len(s) \in Nat
      /\ h \in Nat
      /\ \A k \in 1..Len(s) : s[k] \in Row /\ s[k].block.height \in Nat
  <2>1. Len(s) \in Nat /\ \A k \in 1..Len(s) : s[k] \in Row
    BY LenProperties, ElementOfSeq
  <2> QED
    BY <2>1 DEF Row, RingAssumption
<1>1. /\ pos \in 1..(Len(s) + 1)
      /\ \A k \in 1..Len(s) : k < pos => s[k].block.height > h
      /\ pos <= Len(s) => s[pos].block.height <= h
  <2>1. /\ pos \in 1..(Len(s) + 1)
        /\ \A k \in 1..Len(s) : k < pos => ~(s[k].block.height <= h)
        /\ pos <= Len(s) => s[pos].block.height <= h
    <3>1. h \in Nat
      BY <1>0
    <3> HIDE DEF h
    <3> QED
      BY <3>1, InsertPosShape
  <2>2. ASSUME NEW k \in 1..Len(s), k < pos
        PROVE  s[k].block.height > h
    <3>1. s[k].block.height \in Nat /\ h \in Nat /\ ~(s[k].block.height <= h)
      BY <1>0, <2>1, <2>2
    <3> HIDE DEF h
    <3> QED
      BY <3>1
  <2> QED
    BY <2>1, <2>2
<1>3. /\ old \in 0..Len(s)
      /\ old # 0 => s[old].block.height = h /\ ~s[old].reorged
      /\ old = 0 => \A k \in 1..Len(s) : ~(s[k].block.height = h /\ ~s[k].reorged)
  BY <1>0, LivePosShape
<1>t. t = InsertAt(kept, IF pos <= Len(kept) THEN pos ELSE Len(kept) + 1, row)
  BY DEF Place
<1>k. kept = IF old = 0 THEN s ELSE RemoveAt(s, old)
  BY DEF DropLive
<1> HIDE DEF pos, old, kept, t
<1>2. ASSUME NEW k \in 1..Len(s), k >= pos
      PROVE  s[k].block.height <= h
  <2>1. CASE k = pos
    BY <1>0, <1>1, <2>1
  <2>2. CASE k > pos
    <3>1. pos \in 1..Len(s)
      BY <1>0, <1>1, <2>2
    <3>2. s[pos].block.height >= s[k].block.height
      BY <1>0, <2>2, <3>1 DEF Sorted
    <3> QED
      BY <1>0, <1>1, <3>1, <3>2
  <2> QED
    BY <1>0, <1>1, <1>2, <2>1, <2>2
<1>4. ASSUME NEW k \in 1..Len(s), k # old
      PROVE  ~(s[k].block.height = h /\ ~s[k].reorged)
  BY <1>0, <1>3, <1>4 DEF OneLive
<1>5. CASE old = 0
  <2> DEFINE g == [k \in Nat |-> IF k < pos THEN k ELSE k - 1]
  <2>1. kept = s
    BY <1>5, <1>k
  <2>2. t = InsertAt(s, pos, row)
    BY <1>0, <1>1, <1>t, <2>1
  <2>3. /\ t \in Seq(Row)
        /\ Len(t) = Len(s) + 1
        /\ \A k \in 1..(Len(s) + 1) :
             t[k] = IF k < pos THEN s[k] ELSE IF k = pos THEN row ELSE s[k - 1]
    <3>1. row \in Row /\ pos \in 1..(Len(s) + 1)
      BY <1>1
    <3>2. /\ InsertAt(s, pos, row) \in Seq(Row)
          /\ Len(InsertAt(s, pos, row)) = Len(s) + 1
          /\ \A k \in 1..(Len(s) + 1) :
               InsertAt(s, pos, row)[k] =
                 IF k < pos THEN s[k] ELSE IF k = pos THEN row ELSE s[k - 1]
      BY <3>1, InsertAtShape
    <3> QED
      BY <2>2, <3>2, Zenon
  <2>4. ASSUME NEW k \in 1..Len(t) \ {pos}
        PROVE  /\ g[k] \in 1..Len(s)
               /\ t[k] = s[g[k]]
               /\ k < pos => g[k] < pos
               /\ ~(k < pos) => g[k] >= pos
    <3>1. k \in Nat /\ k \in 1..(Len(s) + 1) /\ k # pos /\ pos \in Nat
      BY <1>0, <1>1, <2>3
    <3>2. CASE k < pos
      BY <1>0, <1>1, <2>3, <3>1, <3>2
    <3>3. CASE k > pos
      BY <1>0, <1>1, <2>3, <3>1, <3>3
    <3> QED
      BY <3>1, <3>2, <3>3
  <2>5. ASSUME NEW k \in 1..Len(t) \ {pos}
        PROVE  /\ ~(t[k].block.height = h /\ ~t[k].reorged)
               /\ IF k < pos THEN t[k].block.height > h ELSE t[k].block.height <= h
    <3>0. old \notin 1..Len(s)
      BY <1>5
    <3> HIDE DEF g, h
    <3>2. t[k] = s[g[k]] /\ (k < pos => g[k] < pos) /\ (~(k < pos) => g[k] >= pos)
      BY <2>4
    <3>a. g[k] \in 1..Len(s)
      BY <2>4
    <3>1. g[k] # old /\ g[k] \in 1..Len(s) /\ g[k] \in Nat /\ pos \in Nat
      BY <1>0, <1>1, <3>a, <3>0
    <3>3. ~(s[g[k]].block.height = h /\ ~s[g[k]].reorged)
      BY <1>4, <3>1
    <3>4. g[k] < pos => s[g[k]].block.height > h
      BY <1>1, <3>1
    <3>5. g[k] >= pos => s[g[k]].block.height <= h
      BY <1>2, <3>1
    <3> QED
      BY <3>2, <3>3, <3>4, <3>5
  <2>6. \A j, k \in 1..Len(t) \ {pos} : j < k => g[j] < g[k]
    BY <1>0, <1>1, <2>3
  <2>7. pos \in 1..Len(t) /\ t[pos] = row
    BY <1>0, <1>1, <2>3
  <2>8. PlacedFrom(s, row, t, pos, g)
    <3> HIDE DEF g
    <3> QED
      BY <2>4, <2>5, <2>6, <2>7 DEF PlacedFrom, h
  <2> QED
    BY <2>3, <2>8 DEF t
<1>6. CASE old # 0
  <2> DEFINE g == [k \in Nat |-> IF k < pos THEN k ELSE IF k <= old THEN k - 1 ELSE k]
  <2>0. old \in 1..Len(s) /\ pos <= old
    BY <1>0, <1>1, <1>3, <1>6
  <2>1. kept = RemoveAt(s, old)
    BY <1>6, <1>k
  <2>2. /\ kept \in Seq(Row)
        /\ Len(kept) = Len(s) - 1
        /\ \A k \in 1..(Len(s) - 1) : kept[k] = IF k < old THEN s[k] ELSE s[k + 1]
    BY <2>0, <2>1, RemoveAtShape
  <2>3. t = InsertAt(kept, pos, row) /\ pos \in 1..(Len(kept) + 1)
    <3>1. (IF pos <= Len(kept) THEN pos ELSE Len(kept) + 1) = pos
      BY <1>0, <1>1, <2>0, <2>2
    <3> QED
      BY <1>0, <1>1, <1>t, <2>0, <2>2, <3>1
  <2>4. /\ t \in Seq(Row)
        /\ Len(t) = Len(s)
        /\ \A k \in 1..Len(s) :
             t[k] = IF k < pos THEN kept[k] ELSE IF k = pos THEN row ELSE kept[k - 1]
    <3>1. /\ t \in Seq(Row)
          /\ Len(t) = Len(kept) + 1
          /\ \A k \in 1..(Len(kept) + 1) :
               t[k] = IF k < pos THEN kept[k] ELSE IF k = pos THEN row ELSE kept[k - 1]
      <4>1. row \in Row /\ pos \in 1..(Len(kept) + 1) /\ kept \in Seq(Row)
        BY <2>2, <2>3
      <4>2. /\ InsertAt(kept, pos, row) \in Seq(Row)
            /\ Len(InsertAt(kept, pos, row)) = Len(kept) + 1
            /\ \A k \in 1..(Len(kept) + 1) :
                 InsertAt(kept, pos, row)[k] =
                   IF k < pos THEN kept[k] ELSE IF k = pos THEN row ELSE kept[k - 1]
        BY <4>1, InsertAtShape
      <4> QED
        BY <2>3, <4>2, Zenon
    <3> QED
      BY <1>0, <2>2, <3>1
  <2>5. ASSUME NEW k \in 1..Len(t) \ {pos}
        PROVE  /\ g[k] \in 1..Len(s)
               /\ g[k] # old
               /\ t[k] = s[g[k]]
               /\ k < pos => g[k] < pos
               /\ ~(k < pos) => g[k] >= pos
    <3>1. k \in Nat /\ k \in 1..Len(s) /\ k # pos /\ pos \in Nat /\ old \in Nat
      BY <1>0, <1>1, <2>0, <2>4
    <3>2. CASE k < pos
      <4>1. g[k] = k /\ k < old /\ k \in 1..(Len(s) - 1)
        BY <1>0, <1>1, <2>0, <3>1, <3>2
      <4>2. t[k] = s[k]
        BY <2>2, <2>4, <3>1, <3>2, <4>1
      <4> HIDE DEF g
      <4> QED
        BY <3>1, <3>2, <4>1, <4>2
    <3>3. CASE k > pos /\ k <= old
      <4>1. g[k] = k - 1 /\ k - 1 < old /\ k - 1 \in 1..(Len(s) - 1) /\ k - 1 >= pos
        BY <1>0, <1>1, <2>0, <3>1, <3>3
      <4>2. t[k] = kept[k - 1] /\ kept[k - 1] = s[k - 1]
        BY <2>2, <2>4, <3>1, <3>3, <4>1
      <4> HIDE DEF g
      <4> QED
        BY <1>0, <3>1, <3>3, <4>1, <4>2
    <3>4. CASE k > pos /\ k > old
      <4>1. g[k] = k /\ ~(k - 1 < old) /\ k - 1 \in 1..(Len(s) - 1)
        BY <1>0, <1>1, <2>0, <3>1, <3>4
      <4>2. t[k] = kept[k - 1] /\ kept[k - 1] = s[k - 1 + 1] /\ k - 1 + 1 = k
        BY <2>2, <2>4, <3>1, <3>4, <4>1
      <4> HIDE DEF g
      <4> QED
        BY <1>0, <3>1, <3>4, <4>1, <4>2
    <3>5. (k > pos /\ k <= old) \/ (k > pos /\ k > old) \/ k < pos
      BY <3>1
    <3> HIDE DEF g
    <3> QED
      BY <3>2, <3>3, <3>4, <3>5
  <2>6. ASSUME NEW k \in 1..Len(t) \ {pos}
        PROVE  /\ ~(t[k].block.height = h /\ ~t[k].reorged)
               /\ IF k < pos THEN t[k].block.height > h ELSE t[k].block.height <= h
    <3> HIDE DEF g, h
    <3>2. t[k] = s[g[k]] /\ (k < pos => g[k] < pos) /\ (~(k < pos) => g[k] >= pos)
      BY <2>5
    <3>a. g[k] # old /\ g[k] \in 1..Len(s)
      BY <2>5
    <3>1. g[k] # old /\ g[k] \in 1..Len(s) /\ g[k] \in Nat /\ pos \in Nat
      BY <1>0, <1>1, <3>a
    <3>3. ~(s[g[k]].block.height = h /\ ~s[g[k]].reorged)
      BY <1>4, <3>1
    <3>4. g[k] < pos => s[g[k]].block.height > h
      BY <1>1, <3>1
    <3>5. g[k] >= pos => s[g[k]].block.height <= h
      BY <1>2, <3>1
    <3> QED
      BY <3>2, <3>3, <3>4, <3>5
  <2>7. \A j, k \in 1..Len(t) \ {pos} : j < k => g[j] < g[k]
    BY <1>0, <1>1, <2>0, <2>4
  <2>8. pos \in 1..Len(t) /\ t[pos] = row
    BY <1>0, <1>1, <2>0, <2>4
  <2>9. PlacedFrom(s, row, t, pos, g)
    <3> HIDE DEF g
    <3> QED
      BY <2>5, <2>6, <2>7, <2>8 DEF PlacedFrom, h
  <2> QED
    BY <2>4, <2>9 DEF t
<1> QED
  BY <1>5, <1>6

\* Putting a row that is later than the others in its place keeps the order.
LEMMA PlacedIsSorted ==
  ASSUME RingAssumption,
         NEW s \in Seq(Row), NEW row \in Row, Sorted(s), \A k \in 1..Len(s) : s[k].seq < row.seq,
         NEW t \in Seq(Row), NEW p, NEW g, PlacedFrom(s, row, t, p, g)
  PROVE  Sorted(t)
<1>a. /\ Len(t) \in Nat /\ Len(s) \in Nat
      /\ \A k \in 1..Len(s) : s[k] \in Row
  BY LenProperties, ElementOfSeq
<1>b. /\ \A k \in 1..Len(s) : s[k].block.height \in Nat /\ s[k].seq \in Nat
      /\ row.block.height \in Nat /\ row.seq \in Nat
  BY <1>a DEF Row, RingAssumption
<1> SUFFICES ASSUME NEW i \in 1..Len(t), NEW j \in 1..Len(t), i < j
    PROVE  \/ t[i].block.height > t[j].block.height
           \/ t[i].block.height = t[j].block.height /\ t[i].seq > t[j].seq
  BY DEF Sorted
<1>0. p \in 1..Len(t) /\ t[p] = row
  BY DEF PlacedFrom
<1>1. CASE i = p
  <2>1. j # p /\ ~(j < p) /\ j \in 1..Len(t) \ {p}
    BY <1>a, <1>0, <1>1
  <2>2. /\ t[j].block.height <= row.block.height
        /\ g[j] \in 1..Len(s) /\ t[j] = s[g[j]]
    BY <2>1 DEF PlacedFrom
  <2>3. t[j].seq < row.seq /\ t[j].block.height \in Nat
    BY <1>b, <2>2
  <2>4. t[i] = row
    BY <1>0, <1>1
  <2> QED
    BY <1>b, <2>2, <2>3, <2>4
<1>2. CASE j = p
  <2>1. i < p /\ i \in 1..Len(t) \ {p}
    BY <1>a, <1>0, <1>2
  <2>2. t[i].block.height > row.block.height
    BY <2>1 DEF PlacedFrom
  <2> QED
    BY <1>0, <1>2, <2>2
<1>3. CASE i # p /\ j # p
  <2>1. i \in 1..Len(t) \ {p} /\ j \in 1..Len(t) \ {p}
    BY <1>3
  <2>2. /\ g[i] \in 1..Len(s) /\ t[i] = s[g[i]]
        /\ g[j] \in 1..Len(s) /\ t[j] = s[g[j]]
        /\ g[i] < g[j]
    BY <2>1 DEF PlacedFrom
  <2>3. \/ s[g[i]].block.height > s[g[j]].block.height
        \/ /\ s[g[i]].block.height = s[g[j]].block.height
           /\ s[g[i]].seq > s[g[j]].seq
    BY <2>2 DEF Sorted
  <2> QED
    BY <2>2, <2>3
<1> QED
  BY <1>1, <1>2, <1>3

\* What Place keeps: the rows of the deque less the live one of the new row's
\* height, and the new row.
LEMMA PlaceRange ==
  ASSUME RingAssumption, NEW s \in Seq(Row), NEW row \in Row, OneLive(s)
  PROVE  Range(Place(s, row)) =
           {r \in Range(s) : r.block.height = row.block.height => r.reorged} \cup {row}
<1> DEFINE h == row.block.height
           old == LivePos(s, h)
           kept == DropLive(s, h)
           pos == IF InsertPos(s, h) <= Len(kept) THEN InsertPos(s, h) ELSE Len(kept) + 1
<1>1. /\ Len(s) \in Nat /\ DOMAIN s = 1..Len(s) /\ h \in Nat
      /\ \A k \in 1..Len(s) : s[k] \in Row
  BY LenProperties, ElementOfSeq DEF Row, RingAssumption
<1>2. /\ kept \in Seq(Row)
      /\ Range(kept) = {r \in Range(s) : r.block.height = h => r.reorged}
  <2>1. /\ old \in 0..Len(s)
        /\ old # 0 => s[old].block.height = h /\ ~s[old].reorged
        /\ old = 0 => \A k \in 1..Len(s) : ~(s[k].block.height = h /\ ~s[k].reorged)
    <3>1. h \in Nat
      BY <1>1
    <3> HIDE DEF h
    <3> QED
      BY <3>1, LivePosShape
  <2>2. CASE old = 0
    <3>1. kept = s
      BY <2>2 DEF DropLive
    <3> HIDE DEF h, kept
    <3> QED
      BY <1>1, <2>1, <2>2, <3>1 DEF Range
  <2>3. CASE old # 0
    <3>1. kept = RemoveAt(s, old) /\ old \in 1..Len(s)
      BY <1>1, <2>1, <2>3 DEF DropLive
    <3>2. /\ kept \in Seq(Row) /\ Len(kept) = Len(s) - 1
          /\ \A k \in 1..(Len(s) - 1) : kept[k] = IF k < old THEN s[k] ELSE s[k + 1]
      <4> HIDE DEF kept, old
      <4> QED
        BY <3>1, RemoveAtShape
    <3>3. \A k \in 1..Len(s) : (s[k].block.height = h /\ ~s[k].reorged) <=> k = old
      BY <2>1, <2>3, <3>1 DEF OneLive
    <3> HIDE DEF h, old, kept
    <3>4. DOMAIN kept = 1..(Len(s) - 1)
      BY <3>2, LenProperties
    <3>5. \A k \in 1..(Len(s) - 1) :
            \E m \in 1..Len(s) : m # old /\ kept[k] = s[m]
      <4> TAKE k \in 1..(Len(s) - 1)
      <4>1. CASE k < old
        BY <1>1, <3>1, <3>2, <4>1
      <4>2. CASE ~(k < old)
        <5>1. k + 1 \in 1..Len(s) /\ k + 1 # old
          BY <1>1, <3>1, <4>2
        <5> QED
          BY <3>2, <4>2, <5>1
      <4> QED
        BY <4>1, <4>2
    <3>6. \A m \in 1..Len(s) : m # old => \E k \in 1..(Len(s) - 1) : kept[k] = s[m]
      <4> SUFFICES ASSUME NEW m \in 1..Len(s), m # old
                   PROVE  \E k \in 1..(Len(s) - 1) : kept[k] = s[m]
        OBVIOUS
      <4>1. CASE m < old
        <5>1. m \in 1..(Len(s) - 1)
          BY <1>1, <3>1, <4>1
        <5> QED
          BY <3>2, <4>1, <5>1
      <4>2. CASE m > old
        <5>1. m - 1 \in 1..(Len(s) - 1) /\ ~(m - 1 < old) /\ (m - 1) + 1 = m
          BY <1>1, <3>1, <4>2
        <5> QED
          BY <3>2, <5>1
      <4> QED
        BY <1>1, <3>1, <4>1, <4>2
    <3>7. Range(s) = {s[m] : m \in 1..Len(s)} /\ Range(kept) = {kept[k] : k \in 1..(Len(s) - 1)}
      BY <1>1, <3>4 DEF Range
    <3>8. \A m \in 1..Len(s) : (s[m].block.height = h => s[m].reorged) <=> m # old
      BY <3>3
    <3>9. Range(kept) = {s[m] : m \in 1..Len(s) \ {old}}
      BY <3>5, <3>6, <3>7
    <3>10. {r \in Range(s) : r.block.height = h => r.reorged} = {s[m] : m \in 1..Len(s) \ {old}}
      BY <3>7, <3>8
    <3> QED
      BY <3>2, <3>9, <3>10
  <2> QED
    BY <2>2, <2>3
<1>3. Len(kept) \in Nat /\ DOMAIN kept = 1..Len(kept)
  <2> HIDE DEF kept
  <2> QED
    BY <1>2, LenProperties
<1>4. pos \in 1..(Len(kept) + 1)
  <2>1. InsertPos(s, h) \in 1..(Len(s) + 1)
    <3>1. h \in Nat
      BY <1>1
    <3> HIDE DEF h
    <3> QED
      BY <3>1, InsertPosShape
  <2> HIDE DEF kept, h
  <2> QED
    BY <1>1, <1>3, <2>1
<1>5. Place(s, row) = InsertAt(kept, pos, row)
  BY DEF Place
<1> HIDE DEF h, old, kept, pos
<1> DEFINE t == InsertAt(kept, pos, row)
<1>6. /\ t \in Seq(Row) /\ Len(t) = Len(kept) + 1
      /\ \A k \in 1..(Len(kept) + 1) :
           t[k] = IF k < pos THEN kept[k] ELSE IF k = pos THEN row ELSE kept[k - 1]
  BY <1>2, <1>4, InsertAtShape
<1> HIDE DEF t
<1>7. DOMAIN t = 1..(Len(kept) + 1)
  BY <1>6, LenProperties
<1>8. \A k \in 1..(Len(kept) + 1) : t[k] = row \/ \E m \in 1..Len(kept) : t[k] = kept[m]
  <2> TAKE k \in 1..(Len(kept) + 1)
  <2>1. CASE k < pos
    BY <1>3, <1>4, <1>6, <2>1
  <2>2. CASE k > pos
    <3>1. k - 1 \in 1..Len(kept) /\ t[k] = kept[k - 1]
      BY <1>3, <1>4, <1>6, <2>2
    <3> QED
      BY <3>1
  <2> QED
    BY <1>3, <1>4, <1>6, <2>1, <2>2
<1>9. t[pos] = row /\ \A m \in 1..Len(kept) : \E k \in 1..(Len(kept) + 1) : t[k] = kept[m]
  <2>1. ASSUME NEW m \in 1..Len(kept) PROVE \E k \in 1..(Len(kept) + 1) : t[k] = kept[m]
    <3>1. CASE m < pos
      BY <1>3, <1>4, <1>6, <3>1
    <3>2. CASE ~(m < pos)
      <4>1. /\ m + 1 \in 1..(Len(kept) + 1) /\ ~(m + 1 < pos) /\ m + 1 # pos
            /\ (m + 1) - 1 = m
        BY <1>3, <1>4, <3>2
      <4> QED
        BY <1>6, <4>1
    <3> QED
      BY <3>1, <3>2
  <2> QED
    BY <1>3, <1>4, <1>6, <2>1
<1>10. Range(t) = {t[k] : k \in 1..(Len(kept) + 1)} /\ Range(kept) = {kept[k] : k \in 1..Len(kept)}
  BY <1>3, <1>7 DEF Range
<1>11. Range(t) = Range(kept) \cup {row}
  BY <1>4, <1>8, <1>9, <1>10
<1> QED
  BY <1>2, <1>5, <1>11 DEF t, h

-----------------------------------------------------------------------------
(* The inductive invariant.                                                *)

RingInv ==
  /\ RingTypeOK
  /\ NewestFirst
  /\ OneLivePerHeight
  /\ SeqsBelowNext
  /\ ClockNeverRunsBack

\* insert_block keeps the order, one live row per height and the fresh seq.
LEMMA InsertKeepsRows ==
  ASSUME RingAssumption, RingInv, NEW b \in Block, InsertBlock(b)
  PROVE  /\ blocks' \in Seq(Row) /\ Len(blocks') <= MaxBlocks
         /\ NewestFirst' /\ OneLivePerHeight' /\ SeqsBelowNext'
<1> DEFINE row == [block |-> b, seq |-> nextBlockSeq, reorged |-> FALSE]
           t == Place(blocks, row)
           n == IF Len(t) <= MaxBlocks THEN Len(t) ELSE MaxBlocks
<1>1. /\ row \in Row /\ row.block.height \in Nat /\ row.seq = nextBlockSeq /\ ~row.reorged
      /\ nextBlockSeq \in Nat
  BY DEF RingInv, RingTypeOK, Row, RingAssumption
<1>2. blocks \in Seq(Row) /\ Sorted(blocks) /\ OneLive(blocks)
  BY DEF RingInv, RingTypeOK, NewestFirst, OneLivePerHeight, Sorted, OneLive
<1>3. blocks' = SubSeq(t, 1, n) /\ nextBlockSeq' = nextBlockSeq + 1
  BY DEF InsertBlock, Truncate
<1> HIDE DEF row
<1>4. t \in Seq(Row) /\ \E p, g : PlacedFrom(blocks, row, t, p, g)
  BY <1>1, <1>2, PlaceShape
<1> HIDE DEF t
<1>5. PICK p, g : PlacedFrom(blocks, row, t, p, g)
  BY <1>4
<1>6. /\ Len(t) \in Nat /\ \A k \in 1..Len(t) : t[k] \in Row
      /\ Len(blocks) \in Nat /\ \A k \in 1..Len(blocks) : blocks[k] \in Row
  BY <1>2, <1>4, LenProperties, ElementOfSeq
<1>7. n \in Nat /\ n <= Len(t) /\ n <= MaxBlocks
  BY <1>6 DEF RingAssumption
<1> HIDE DEF n
<1>8. /\ blocks' \in Seq(Row)
      /\ Len(blocks') = n
      /\ \A k \in 1..n : blocks'[k] = t[k]
  <2>1. \A k \in 1..n : t[k] \in Row
    BY <1>6, <1>7
  <2> QED
    BY <1>3, <1>6, <1>7, <2>1, SubSeqProperties
<1>9. \A k \in 1..Len(blocks) : /\ blocks[k].block.height \in Nat
                                /\ blocks[k].seq \in Nat /\ blocks[k].seq < nextBlockSeq
  BY <1>6 DEF RingInv, SeqsBelowNext, Row, RingAssumption
<1>10. \A i, j \in 1..Len(t) : i < j =>
         \/ t[i].block.height > t[j].block.height
         \/ t[i].block.height = t[j].block.height /\ t[i].seq > t[j].seq
  <2>1. Sorted(t)
    BY <1>1, <1>2, <1>4, <1>5, <1>9, PlacedIsSorted
  <2> QED
    BY <2>1 DEF Sorted
<1>11. \A i, j \in 1..Len(t) :
         (t[i].block.height = t[j].block.height /\ ~t[i].reorged /\ ~t[j].reorged) => i = j
  <2> SUFFICES ASSUME NEW i \in 1..Len(t), NEW j \in 1..Len(t),
                      t[i].block.height = t[j].block.height, ~t[i].reorged, ~t[j].reorged
      PROVE  i = j
    OBVIOUS
  <2>0. p \in 1..Len(t) /\ t[p] = row
    BY <1>5 DEF PlacedFrom
  <2>1. CASE i = p /\ j # p
    BY <1>5, <2>0, <2>1 DEF PlacedFrom
  <2>2. CASE j = p /\ i # p
    BY <1>5, <2>0, <2>2 DEF PlacedFrom
  <2>3. CASE i # p /\ j # p
    <3>1. i \in 1..Len(t) \ {p} /\ j \in 1..Len(t) \ {p}
      BY <2>3
    <3>2. /\ g[i] \in 1..Len(blocks) /\ t[i] = blocks[g[i]]
          /\ g[j] \in 1..Len(blocks) /\ t[j] = blocks[g[j]]
          /\ i < j => g[i] < g[j]
          /\ j < i => g[j] < g[i]
      BY <1>5, <3>1 DEF PlacedFrom
    <3>3. g[i] = g[j]
      BY <1>2, <3>2 DEF OneLive
    <3> QED
      BY <1>6, <3>2, <3>3
  <2> QED
    BY <2>1, <2>2, <2>3
<1>12. \A k \in 1..Len(t) : t[k].seq < nextBlockSeq + 1
  <2> TAKE k \in 1..Len(t)
  <2>1. CASE k = p
    BY <1>1, <1>5, <2>1 DEF PlacedFrom
  <2>2. CASE k # p
    <3>1. g[k] \in 1..Len(blocks) /\ t[k] = blocks[g[k]]
      BY <1>5, <2>2 DEF PlacedFrom
    <3> QED
      BY <1>1, <1>9, <3>1
  <2> QED
    BY <2>1, <2>2
<1>13. \A k \in 1..n : k \in 1..Len(t)
  BY <1>6, <1>7
<1>14. NewestFirst'
  BY <1>8, <1>10, <1>13 DEF NewestFirst
<1>15. OneLivePerHeight'
  BY <1>8, <1>11, <1>13 DEF OneLivePerHeight
<1>16. SeqsBelowNext'
  BY <1>3, <1>8, <1>12, <1>13 DEF SeqsBelowNext
<1> QED
  BY <1>7, <1>8, <1>14, <1>15, <1>16

\* A time that is not older than the newest is appended; the oldest makes room.
LEMMA InsertKeepsClock ==
  ASSUME RingAssumption, RingInv, NEW b \in Block, InsertBlock(b)
  PROVE  /\ blockTimes' \in Seq(Nat) /\ Len(blockTimes') <= MaxBlockTimes
         /\ ClockNeverRunsBack'
<1> DEFINE all == Append(blockTimes, b.time)
           lo == IF Len(all) <= MaxBlockTimes THEN 1 ELSE Len(all) - MaxBlockTimes + 1
<1>1. /\ blockTimes \in Seq(Nat) /\ Len(blockTimes) \in Nat /\ b.time \in Nat
      /\ \A k \in 1..Len(blockTimes) : blockTimes[k] \in Nat
      /\ Len(blockTimes) <= MaxBlockTimes /\ MaxBlockTimes \in Nat
  BY LenProperties, ElementOfSeq DEF RingInv, RingTypeOK, RingAssumption
<1>2. CASE blockTimes' = blockTimes
  BY <1>2 DEF RingInv, RingTypeOK, ClockNeverRunsBack
<1>3. CASE /\ blockTimes' = SubSeq(all, lo, Len(all))
           /\ blockTimes = <<>> \/ b.time >= blockTimes[Len(blockTimes)]
  <2>1. /\ all \in Seq(Nat) /\ Len(all) = Len(blockTimes) + 1
        /\ \A k \in 1..Len(all) : all[k] = IF k <= Len(blockTimes) THEN blockTimes[k] ELSE b.time
    BY <1>1, AppendProperties
  <2>2. \A k \in 1..Len(all) : all[k] \in Nat
    BY <2>1, ElementOfSeq
  <2> HIDE DEF all
  <2>3. lo \in 1..Len(all) /\ Len(all) - lo + 1 <= MaxBlockTimes
    BY <1>1, <2>1 DEF RingAssumption
  <2>4. \A i, j \in 1..Len(all) : i < j => all[i] <= all[j]
    <3> SUFFICES ASSUME NEW i \in 1..Len(all), NEW j \in 1..Len(all), i < j
        PROVE  all[i] <= all[j]
      OBVIOUS
    <3>1. i \in 1..Len(blockTimes) /\ all[i] = blockTimes[i]
      BY <1>1, <2>1
    <3>2. CASE j <= Len(blockTimes)
      <4>1. j \in 1..Len(blockTimes) /\ all[j] = blockTimes[j]
        BY <1>1, <2>1, <3>2
      <4>2. blockTimes[i] <= blockTimes[j]
        BY <3>1, <4>1 DEF RingInv, ClockNeverRunsBack
      <4> QED
        BY <3>1, <4>1, <4>2
    <3>3. CASE j > Len(blockTimes)
      <4>1. Len(blockTimes) \in 1..Len(blockTimes) /\ b.time >= blockTimes[Len(blockTimes)]
        BY <1>1, <1>3, <3>1
      <4>2. blockTimes[i] <= blockTimes[Len(blockTimes)]
        BY <1>1, <3>1, <4>1 DEF RingInv, ClockNeverRunsBack
      <4>3. all[j] = b.time
        BY <1>1, <2>1, <3>3
      <4> QED
        BY <1>1, <3>1, <4>1, <4>2, <4>3
    <3> QED
      BY <1>1, <3>2, <3>3
  <2> HIDE DEF lo
  <2>5. /\ SubSeq(all, lo, Len(all)) \in Seq(Nat)
        /\ Len(SubSeq(all, lo, Len(all))) = Len(all) - lo + 1
        /\ \A k \in 1..(Len(all) - lo + 1) : SubSeq(all, lo, Len(all))[k] = all[lo + k - 1]
    <3>1. \A k \in lo..Len(all) : all[k] \in Nat
      BY <2>2, <2>3
    <3> QED
      BY <1>1, <2>1, <2>3, <3>1, SubSeqProperties
  <2>6. \A k \in 1..(Len(all) - lo + 1) : lo + k - 1 \in 1..Len(all)
    BY <1>1, <2>1, <2>3
  <2>7. ClockNeverRunsBack'
    <3> SUFFICES ASSUME NEW i \in 1..Len(blockTimes'), NEW j \in 1..Len(blockTimes'), i < j
        PROVE  blockTimes'[i] <= blockTimes'[j]
      BY DEF ClockNeverRunsBack
    <3>1. i \in 1..(Len(all) - lo + 1) /\ j \in 1..(Len(all) - lo + 1)
      BY <1>3, <2>5
    <3>2. lo + i - 1 < lo + j - 1
      BY <1>1, <2>1, <2>3, <3>1
    <3> QED
      BY <1>3, <2>4, <2>5, <2>6, <3>1, <3>2
  <2> QED
    BY <1>3, <2>3, <2>5, <2>7
<1> QED
  BY <1>2, <1>3 DEF InsertBlock, FeedClock, PushTime

\* Dimming changes neither a height nor a seq and revives no row.
LEMMA MarkKeepsInv ==
  ASSUME RingAssumption, RingInv, NEW at \in Nat, MarkReorged(at)
  PROVE  RingInv'
<1>1. /\ blocks \in Seq(Row) /\ Len(blocks) \in Nat /\ DOMAIN blocks = 1..Len(blocks)
      /\ \A k \in 1..Len(blocks) : blocks[k] \in Row
  BY LenProperties, ElementOfSeq DEF RingInv, RingTypeOK
<1>2. \A k \in 1..Len(blocks) :
        /\ blocks'[k] = [blocks[k] EXCEPT !.reorged = @ \/ blocks[k].block.height >= at]
        /\ blocks'[k] \in Row
        /\ blocks'[k].block = blocks[k].block
        /\ blocks'[k].seq = blocks[k].seq
        /\ blocks[k].reorged => blocks'[k].reorged
  <2> TAKE k \in 1..Len(blocks)
  <2>1. blocks'[k] = [blocks[k] EXCEPT !.reorged = @ \/ blocks[k].block.height >= at]
    BY <1>1 DEF MarkReorged
  <2>2. blocks[k] \in Row
    BY <1>1
  <2> QED
    BY <2>1, <2>2 DEF Row
<1>3. blocks' \in Seq(Row) /\ Len(blocks') = Len(blocks)
  <2>1. blocks' = [i \in 1..Len(blocks) |-> blocks'[i]]
    BY <1>1 DEF MarkReorged
  <2> QED
    BY <1>1, <1>2, <2>1
<1>4. nextBlockSeq' = nextBlockSeq /\ blockTimes' = blockTimes
  BY DEF MarkReorged
<1>5. RingTypeOK'
  BY <1>3, <1>4 DEF RingInv, RingTypeOK
<1>6. NewestFirst'
  <2> SUFFICES ASSUME NEW i \in 1..Len(blocks), NEW j \in 1..Len(blocks), i < j
      PROVE  \/ blocks'[i].block.height > blocks'[j].block.height
             \/ /\ blocks'[i].block.height = blocks'[j].block.height
                /\ blocks'[i].seq > blocks'[j].seq
    BY <1>3 DEF NewestFirst
  <2>1. \/ blocks[i].block.height > blocks[j].block.height
        \/ /\ blocks[i].block.height = blocks[j].block.height
           /\ blocks[i].seq > blocks[j].seq
    BY DEF RingInv, NewestFirst
  <2>2. /\ blocks'[i].block = blocks[i].block /\ blocks'[j].block = blocks[j].block
        /\ blocks'[i].seq = blocks[i].seq /\ blocks'[j].seq = blocks[j].seq
    BY <1>2
  <2> QED
    BY <2>1, <2>2
<1>7. OneLivePerHeight'
  <2> SUFFICES ASSUME NEW i \in 1..Len(blocks), NEW j \in 1..Len(blocks),
                      ~blocks'[i].reorged, ~blocks'[j].reorged,
                      blocks'[i].block.height = blocks'[j].block.height
               PROVE  i = j
    BY <1>3 DEF OneLivePerHeight
  <2>1. /\ blocks'[i].block = blocks[i].block /\ blocks'[j].block = blocks[j].block
        /\ ~blocks[i].reorged /\ ~blocks[j].reorged
    BY <1>2
  <2> QED
    BY <2>1 DEF RingInv, OneLivePerHeight
<1>8. SeqsBelowNext' /\ ClockNeverRunsBack'
  BY <1>2, <1>3, <1>4 DEF RingInv, SeqsBelowNext, ClockNeverRunsBack
<1> QED
  BY <1>5, <1>6, <1>7, <1>8 DEF RingInv

\* The invariant holds in every state.
LEMMA RingInvariant == RingSpec => []RingInv
<1>1. RingInit => RingInv
  BY RingAssumption
     DEF RingAssumption, RingInit, RingInv, RingTypeOK, NewestFirst, OneLivePerHeight, SeqsBelowNext,
         ClockNeverRunsBack
<1>2. RingInv /\ [RingNext]_ringVars => RingInv'
  <2> SUFFICES ASSUME RingInv, [RingNext]_ringVars PROVE RingInv'
    OBVIOUS
  <2>1. ASSUME NEW b \in Block, InsertBlock(b) PROVE RingInv'
    <3>1. nextBlockSeq' \in Nat
      BY <2>1 DEF InsertBlock, RingInv, RingTypeOK
    <3> QED
      BY <2>1, <3>1, RingAssumption, InsertKeepsRows, InsertKeepsClock
         DEF RingInv, RingTypeOK
  <2>2. ASSUME NEW b \in Block, MarkReorged(b.height) PROVE RingInv'
    <3>1. b.height \in Nat
      BY RingAssumption DEF RingAssumption
    <3> QED
      BY <2>2, <3>1, RingAssumption, MarkKeepsInv
  <2>3. CASE UNCHANGED ringVars
    BY <2>3 DEF ringVars, RingInv, RingTypeOK, NewestFirst, OneLivePerHeight, SeqsBelowNext,
                ClockNeverRunsBack
  <2> QED
    BY <2>1, <2>2, <2>3 DEF RingNext
<1> QED
  BY <1>1, <1>2, PTL DEF RingSpec

-----------------------------------------------------------------------------
(* The theorems.                                                           *)

\* The deque holds well-formed rows and never outgrows MAX_BLOCKS, nor the
\* clock MAX_BLOCK_TIMES.
THEOREM RingTypeCorrect == RingSpec => []RingTypeOK
<1>1. RingInv => RingTypeOK
  BY DEF RingInv
<1> QED
  BY <1>1, RingInvariant, PTL

\* insert_block keeps the tail in display order, for every window size and
\* every order of arrival.
THEOREM TailStaysSorted == RingSpec => []NewestFirst
<1>1. RingInv => NewestFirst
  BY DEF RingInv
<1> QED
  BY <1>1, RingInvariant, PTL

\* insert_block never leaves two undimmed rows of one height.
THEOREM TailShowsOneLive == RingSpec => []OneLivePerHeight
<1>1. RingInv => OneLivePerHeight
  BY DEF RingInv
<1> QED
  BY <1>1, RingInvariant, PTL

\* The cadence clock never holds a negative interval, whatever times blocks
\* carry.
THEOREM ClockStaysMonotone == RingSpec => []ClockNeverRunsBack
<1>1. RingInv => ClockNeverRunsBack
  BY DEF RingInv
<1> QED
  BY <1>1, RingInvariant, PTL


-----------------------------------------------------------------------------
(* The deque implements the window.                                        *)

\* In a sorted deque no row occurs twice, and the last one is the oldest.
LEMMA SortedRows ==
  ASSUME RingAssumption, NEW s \in Seq(Row), Sorted(s)
  PROVE  /\ IsFiniteSet(Range(s)) /\ Cardinality(Range(s)) = Len(s)
         /\ s # <<>> => /\ Window!Oldest(Range(s)) = s[Len(s)]
                        /\ \A k \in 1..(Len(s) - 1) : s[k] # s[Len(s)]
<1>1. /\ Len(s) \in Nat /\ DOMAIN s = 1..Len(s)
      /\ \A k \in 1..Len(s) : s[k] \in Row
  BY LenProperties, ElementOfSeq
<1>2. \A k \in 1..Len(s) : s[k].block.height \in Nat /\ s[k].seq \in Nat
  BY <1>1 DEF Row, RingAssumption
<1>3. \A i, j \in 1..Len(s) : i < j => Window!Newer(s[i], s[j]) /\ s[i] # s[j]
  BY <1>2 DEF Sorted, Window!Newer
<1>4. IsFiniteSet(Range(s)) /\ Cardinality(Range(s)) = Len(s)
  <2>1. \A i, j \in 1..Len(s) : s[i] = s[j] => i = j
    BY <1>1, <1>3
  <2>2. Range(s) = {s[i] : i \in 1..Len(s)}
    BY <1>1 DEF Range
  <2>3. s \in Bijection(1..Len(s), Range(s))
    <3>1. s \in [1..Len(s) -> Range(s)]
      BY <1>1, <2>2
    <3> QED
      BY <1>1, <2>1, <2>2, <3>1, Fun_IsBij
  <2>4. IsFiniteSet(1..Len(s)) /\ Cardinality(1..Len(s)) = Len(s)
    <3>1. /\ IsFiniteSet(1..Len(s))
          /\ Cardinality(1..Len(s)) = IF 1 > Len(s) THEN 0 ELSE Len(s) - 1 + 1
      <4>1. 1 \in Int /\ Len(s) \in Int
        BY <1>1
      <4> QED
        BY <4>1, FS_Interval, Zenon
    <3> QED
      BY <1>1, <3>1
  <2>5. ExistsBijection(1..Len(s), Range(s))
    BY <2>3, Zenon DEF ExistsBijection
  <2>6. IsFiniteSet(Range(s)) /\ Cardinality(Range(s)) = Cardinality(1..Len(s))
    BY <2>4, <2>5, FS_Bijection, Zenon
  <2> QED
    BY <2>4, <2>6, Zenon
<1>5. ASSUME s # <<>>
      PROVE  /\ Window!Oldest(Range(s)) = s[Len(s)]
             /\ \A k \in 1..(Len(s) - 1) : s[k] # s[Len(s)]
  <2> DEFINE n == Len(s)
  <2>1. n \in 1..n /\ \A k \in 1..(n - 1) : k \in 1..n /\ k < n
    BY <1>1, <1>5, EmptySeq
  <2>2. Range(s) = {s[i] : i \in 1..n}
    BY <1>1 DEF Range
  <2>3. /\ s[n] \in Range(s)
        /\ \A r \in Range(s) \ {s[n]} : Window!Newer(r, s[n])
    <3>1. ASSUME NEW k \in 1..n, s[k] # s[n] PROVE Window!Newer(s[k], s[n])
      <4>1. k < n
        BY <1>1, <3>1
      <4> QED
        BY <1>3, <2>1, <4>1
    <3> QED
      BY <2>1, <2>2, <3>1
  <2>4. \A r \in Range(s) : (\A q \in Range(s) \ {r} : Window!Newer(q, r)) => r = s[n]
    <3> SUFFICES ASSUME NEW k \in 1..n, \A q \in Range(s) \ {s[k]} : Window!Newer(q, s[k]),
                        s[k] # s[n]
                 PROVE  FALSE
      BY <2>2
    <3>1. Window!Newer(s[n], s[k]) /\ Window!Newer(s[k], s[n])
      BY <2>1, <2>2, <2>3
    <3> QED
      BY <1>2, <2>1, <3>1 DEF Window!Newer
  <2> HIDE DEF n
  <2>5. Window!Oldest(Range(s)) = s[n]
    BY <2>3, <2>4 DEF Window!Oldest
  <2> QED
    BY <1>3, <2>1, <2>5 DEF n
<1> QED
  BY <1>4, <1>5

\* What insert_block does to the deque is what Insert does to the set of its rows.
LEMMA InsertIsWindowInsert ==
  ASSUME RingAssumption, RingInv, NEW b \in Block, InsertBlock(b)
  PROVE  Window!Insert(b)
<1> DEFINE row == [block |-> b, seq |-> nextBlockSeq, reorged |-> FALSE]
           t == Place(blocks, row)
           all == {r \in Range(blocks) : r.block.height = b.height => r.reorged} \cup {row}
<1>1. /\ row \in Row /\ row.block = b /\ row.seq = nextBlockSeq
  BY DEF RingInv, RingTypeOK, Row
<1>2. /\ blocks \in Seq(Row) /\ Sorted(blocks) /\ OneLive(blocks)
      /\ \A k \in 1..Len(blocks) : blocks[k].seq < nextBlockSeq
      /\ Len(blocks) <= MaxBlocks /\ MaxBlocks \in Nat \ {0} /\ Len(blocks) \in Nat
  BY LenProperties
  DEF RingInv, RingTypeOK, NewestFirst, OneLivePerHeight, SeqsBelowNext, Sorted, OneLive,
      RingAssumption
<1>0. MaxBlocks \in Nat \ {0} /\ Len(blocks) \in Nat /\ Len(blocks) <= MaxBlocks
  BY <1>2, Zenon
<1>3. blocks' = SubSeq(t, 1, IF Len(t) <= MaxBlocks THEN Len(t) ELSE MaxBlocks)
      /\ nextBlockSeq' = nextBlockSeq + 1
  BY DEF InsertBlock, Truncate
<1> HIDE DEF row
<1>4. Range(t) = all
  BY <1>1, <1>2, PlaceRange
<1>5. /\ t \in Seq(Row) /\ Len(t) \in {Len(blocks), Len(blocks) + 1}
      /\ \E p, g : PlacedFrom(blocks, row, t, p, g)
  BY <1>1, <1>2, PlaceShape
<1> HIDE DEF t
<1>6. Sorted(t)
  BY <1>1, <1>2, <1>5, PlacedIsSorted
<1>7. /\ Len(t) \in Nat /\ DOMAIN t = 1..Len(t) /\ \A k \in 1..Len(t) : t[k] \in Row
      /\ Range(t) = {t[k] : k \in 1..Len(t)}
  BY <1>5, LenProperties, ElementOfSeq DEF Range
<1>8. Cardinality(Range(t)) = Len(t)
  BY <1>5, <1>6, SortedRows
<1>9. Range(blocks') = IF Cardinality(all) > MaxBlocks THEN all \ {Window!Oldest(all)} ELSE all
  <2>1. CASE Len(t) <= MaxBlocks
    <3>1. /\ SubSeq(t, 1, Len(t)) \in Seq(Row) /\ Len(SubSeq(t, 1, Len(t))) = Len(t)
          /\ \A k \in 1..Len(t) : SubSeq(t, 1, Len(t))[k] = t[k]
      BY <1>7, SubSeqProperties
    <3>2. blocks' = t
      BY <1>3, <1>5, <2>1, <3>1, SeqEqual
    <3> QED
      BY <1>2, <1>4, <1>7, <1>8, <2>1, <3>2
  <2>2. CASE Len(t) > MaxBlocks
    <3>1. Len(t) = MaxBlocks + 1 /\ t # <<>>
      <4>1. Len(t) = Len(blocks) \/ Len(t) = Len(blocks) + 1
        BY <1>5
      <4>2. Len(t) = MaxBlocks + 1
        BY <1>0, <4>1, <2>2
      <4> QED
        BY <1>0, <4>2, EmptySeq
    <3>2. blocks' = SubSeq(t, 1, MaxBlocks)
      <4>1. ~(Len(t) <= MaxBlocks)
        BY <1>0, <1>7, <2>2
      <4> QED
        BY <1>3, <4>1, Zenon
    <3>3. /\ blocks' \in Seq(Row) /\ Len(blocks') = MaxBlocks
          /\ \A k \in 1..MaxBlocks : blocks'[k] = t[k]
      <4>1. \A k \in 1..MaxBlocks : t[k] \in Row
        BY <1>2, <1>7, <3>1
      <4> QED
        BY <1>2, <3>2, <4>1, SubSeqProperties
    <3>4. Range(blocks') = {t[k] : k \in 1..MaxBlocks}
      <4>1. DOMAIN blocks' = 1..MaxBlocks
        BY <3>3, LenProperties
      <4> QED
        BY <3>3, <4>1 DEF Range
    <3>5. /\ Window!Oldest(Range(t)) = t[MaxBlocks + 1]
          /\ \A k \in 1..MaxBlocks : t[k] # t[MaxBlocks + 1]
      <4>1. (MaxBlocks + 1) - 1 = MaxBlocks
        BY <1>2
      <4> QED
        BY <1>5, <1>6, <3>1, <4>1, SortedRows
    <3>6. \A k \in 1..Len(t) : k \in 1..MaxBlocks \/ k = MaxBlocks + 1
      BY <1>2, <3>1
    <3>7. \A k \in 1..MaxBlocks : k \in 1..Len(t)
      BY <1>2, <3>1
    <3>8. Range(blocks') = Range(t) \ {Window!Oldest(Range(t))}
      BY <1>7, <3>4, <3>5, <3>6, <3>7
    <3> QED
      BY <1>2, <1>4, <1>7, <1>8, <2>2, <3>8
  <2> QED
    BY <1>2, <1>7, <2>1, <2>2
<1> QED
  <2>1. Range(blocks)' = Range(blocks')
    BY DEF Range
  <2>2. Range(blocks)' = IF Cardinality(all) > MaxBlocks THEN all \ {Window!Oldest(all)} ELSE all
    BY <1>9, <2>1, Zenon
  <2>3. nextBlockSeq' = nextBlockSeq + 1
    BY <1>3, Zenon
  <2>4. Window!Cardinality(all) = Cardinality(all)
    BY DEF Window!Cardinality, Cardinality
  <2> QED
    BY <2>2, <2>3, <2>4, Zenon DEF Window!Insert, row, all

\* What a Reorg does to the deque is what Dim does to the set of its rows.
LEMMA MarkIsWindowDim ==
  ASSUME RingAssumption, RingInv, NEW at \in Nat, MarkReorged(at)
  PROVE  Window!Dim(at)
<1> DEFINE dim(r) == [r EXCEPT !.reorged = @ \/ r.block.height >= at]
<1>1. DOMAIN blocks' = DOMAIN blocks /\ \A i \in DOMAIN blocks : blocks'[i] = dim(blocks[i])
  BY DEF MarkReorged
<1> HIDE DEF dim
<1>2. Range(blocks') = {dim(r) : r \in Range(blocks)}
  BY <1>1 DEF Range
<1> QED
  BY <1>2 DEF Window!Dim, MarkReorged, dim

\* The deque of insert_block, with its positions, removals and truncation, does
\* what the set-based window promises: it replaces the live row of a height,
\* gives up the oldest row when full and loses no other, and a reorg drops none.
THEOREM RingImplementsWindow == RingSpec => ImplementsWindow
<1>1. RingInit => Window!WindowInit
  BY DEF RingInit, Window!WindowInit, Range
<1>2. RingInv /\ [RingNext]_ringVars => [Window!WindowNext]_Window!windowVars
  <2> SUFFICES ASSUME RingInv, [RingNext]_ringVars
               PROVE  [Window!WindowNext]_Window!windowVars
    OBVIOUS
  <2>1. ASSUME NEW b \in Block, InsertBlock(b) PROVE Window!WindowNext
    BY <2>1, RingAssumption, InsertIsWindowInsert DEF Window!WindowNext
  <2>2. ASSUME NEW b \in Block, MarkReorged(b.height) PROVE Window!WindowNext
    <3>1. b.height \in Nat
      BY RingAssumption
    <3>2. Window!Dim(b.height)
      BY <2>2, <3>1, RingAssumption, MarkIsWindowDim
    <3> QED
      BY <3>2 DEF Window!WindowNext
  <2>3. CASE UNCHANGED ringVars
    BY <2>3 DEF ringVars, Window!windowVars
  <2> QED
    BY <2>1, <2>2, <2>3 DEF RingNext
<1> QED
  BY <1>1, <1>2, RingInvariant, PTL DEF RingSpec, ImplementsWindow, Window!WindowSpec
-----------------------------------------------------------------------------
(* What one step does to the rows, for the modules that use the ring.      *)

\* The fields of a row, and where a deque that is not empty starts and ends.
LEMMA RowFields ==
  ASSUME RingAssumption, NEW s \in Seq(Row)
  PROVE  /\ Len(s) \in Nat /\ DOMAIN s = 1..Len(s)
         /\ s # <<>> => 1 \in 1..Len(s) /\ Len(s) \in 1..Len(s)
         /\ \A k \in 1..Len(s) : /\ s[k].block \in Block /\ s[k].seq \in Nat
                                 /\ s[k].block.height \in Nat /\ s[k].block.time \in Nat
<1>1. Len(s) \in Nat /\ DOMAIN s = 1..Len(s) /\ \A k \in 1..Len(s) : s[k] \in Row
  BY LenProperties, ElementOfSeq
<1>2. s # <<>> => Len(s) # 0
  BY EmptySeq
<1>3. \A r \in Row : /\ r.block \in Block /\ r.seq \in Nat
                    /\ r.block.height \in Nat /\ r.block.time \in Nat
  BY DEF Row, RingAssumption
<1> QED
  BY <1>1, <1>2, <1>3

\* What stands in the tail after an insertion is the new row or an old one
\* that was not the current row of its height.
LEMMA InsertedRows ==
  ASSUME RingAssumption, RingInv, NEW b \in Block, InsertBlock(b), NEW k \in 1..Len(blocks')
  PROVE  \/ blocks'[k] = [block |-> b, seq |-> nextBlockSeq, reorged |-> FALSE]
         \/ \E j \in 1..Len(blocks) :
              /\ blocks'[k] = blocks[j]
              /\ ~(blocks[j].block.height = b.height /\ ~blocks[j].reorged)
<1> DEFINE row == [block |-> b, seq |-> nextBlockSeq, reorged |-> FALSE]
           all == {r \in Range(blocks) : r.block.height = b.height => r.reorged} \cup {row}
<1>1. /\ blocks \in Seq(Row) /\ DOMAIN blocks = 1..Len(blocks)
      /\ blocks' \in Seq(Row) /\ DOMAIN blocks' = 1..Len(blocks')
  BY InsertKeepsRows, LenProperties DEF RingInv, RingTypeOK
<1>2. Range(blocks)' = IF Window!Cardinality(all) > MaxBlocks THEN all \ {Window!Oldest(all)} ELSE all
  BY InsertIsWindowInsert, Zenon DEF Window!Insert
<1>3. blocks'[k] \in Range(blocks)'
  BY <1>1 DEF Range
<1> HIDE DEF row
<1>4. blocks'[k] \in all
  BY <1>2, <1>3
<1>5. CASE blocks'[k] = row
  BY <1>5 DEF row
<1>6. CASE blocks'[k] # row
  <2>1. blocks'[k] \in Range(blocks) /\ (blocks'[k].block.height = b.height => blocks'[k].reorged)
    BY <1>4, <1>6
  <2>2. PICK j \in DOMAIN blocks : blocks'[k] = blocks[j]
    BY <2>1 DEF Range
  <2> QED
    BY <1>1, <2>1, <2>2
<1> QED
  BY <1>5, <1>6

\* A reorg keeps every row where it is, with its block and its seq, and dims the
\* rows at or above its height.
LEMMA MarkedRows ==
  ASSUME RingAssumption, RingInv, NEW at \in Nat, MarkReorged(at)
  PROVE  /\ Len(blocks') = Len(blocks)
         /\ \A k \in 1..Len(blocks) :
              /\ blocks'[k].block = blocks[k].block
              /\ blocks'[k].seq = blocks[k].seq
              /\ blocks'[k].reorged <=> (blocks[k].reorged \/ blocks[k].block.height >= at)
<1>1. /\ blocks \in Seq(Row) /\ Len(blocks) \in Nat /\ DOMAIN blocks = 1..Len(blocks)
      /\ \A k \in 1..Len(blocks) : blocks[k] \in Row
  BY LenProperties, ElementOfSeq DEF RingInv, RingTypeOK
<1>2. blocks' \in Seq(Row) /\ DOMAIN blocks' = 1..Len(blocks')
  BY MarkKeepsInv, LenProperties DEF RingInv, RingTypeOK
<1>3. DOMAIN blocks' = DOMAIN blocks
  BY DEF MarkReorged
<1>4. Len(blocks') = Len(blocks)
  <2>1. Len(blocks') \in Nat /\ 1..Len(blocks') = 1..Len(blocks)
    BY <1>1, <1>2, <1>3, LenProperties
  <2>2. \A m, n \in Nat : 1..m = 1..n => m = n
    <3> SUFFICES ASSUME NEW m \in Nat, NEW n \in Nat, 1..m = 1..n, m < n PROVE FALSE
      OBVIOUS
    <3>1. n \in 1..n /\ n \notin 1..m
      OBVIOUS
    <3> QED
      BY <3>1
  <2> QED
    BY <1>1, <2>1, <2>2
<1>5. ASSUME NEW k \in 1..Len(blocks)
      PROVE  /\ blocks'[k].block = blocks[k].block /\ blocks'[k].seq = blocks[k].seq
             /\ blocks'[k].reorged <=> (blocks[k].reorged \/ blocks[k].block.height >= at)
  <2>1. blocks'[k] = [blocks[k] EXCEPT !.reorged = @ \/ blocks[k].block.height >= at]
    BY <1>1 DEF MarkReorged
  <2> QED
    BY <1>1, <2>1 DEF Row
<1> QED
  BY <1>4, <1>5

\* An insertion never shortens the deque, and puts the new row and every old one
\* but the current row of its height into it; or it drops that row, and then the
\* deque is full of newer rows.
LEMMA KeptOrDropped ==
  ASSUME RingAssumption, RingInv, NEW b \in Block, InsertBlock(b), NEW r,
         \/ r = [block |-> b, seq |-> nextBlockSeq, reorged |-> FALSE]
         \/ \E j \in 1..Len(blocks) :
              /\ r = blocks[j]
              /\ ~(blocks[j].block.height = b.height /\ ~blocks[j].reorged)
  PROVE  \/ \E k \in 1..Len(blocks') : blocks'[k] = r
         \/ /\ Len(blocks') = MaxBlocks
            /\ \A k \in 1..Len(blocks') :
                 \/ blocks'[k].block.height > r.block.height
                 \/ blocks'[k].block.height = r.block.height /\ blocks'[k].seq > r.seq
<1> DEFINE row == [block |-> b, seq |-> nextBlockSeq, reorged |-> FALSE]
           t == Place(blocks, row)
           all == {q \in Range(blocks) : q.block.height = b.height => q.reorged} \cup {row}
<1>1. row \in Row /\ row.block = b /\ row.seq = nextBlockSeq
  BY DEF RingInv, RingTypeOK, Row
<1>2. /\ blocks \in Seq(Row) /\ Sorted(blocks) /\ OneLive(blocks)
      /\ \A k \in 1..Len(blocks) : blocks[k].seq < nextBlockSeq
  BY DEF RingInv, RingTypeOK, NewestFirst, OneLivePerHeight, SeqsBelowNext, Sorted, OneLive
<1>3. blocks' = SubSeq(t, 1, IF Len(t) <= MaxBlocks THEN Len(t) ELSE MaxBlocks)
  BY DEF InsertBlock, Truncate
<1>4. r \in all
  BY <1>2, LenProperties DEF Range
<1> HIDE DEF row
<1>5. Range(t) = all
  BY <1>1, <1>2, PlaceRange
<1>6. /\ t \in Seq(Row) /\ \E p, g : PlacedFrom(blocks, row, t, p, g)
  BY <1>1, <1>2, PlaceShape
<1> HIDE DEF t
<1>7. Sorted(t)
  BY <1>1, <1>2, <1>6, PlacedIsSorted
<1>8. Len(t) \in Nat /\ DOMAIN t = 1..Len(t) /\ \A k \in 1..Len(t) : t[k] \in Row
  BY <1>6, LenProperties, ElementOfSeq
<1>9. PICK m \in 1..Len(t) : t[m] = r
  BY <1>4, <1>5, <1>8 DEF Range
<1> DEFINE n == IF Len(t) <= MaxBlocks THEN Len(t) ELSE MaxBlocks
<1>10. n \in Nat /\ n <= Len(t) /\ (m > n => n = MaxBlocks)
  <2>1. MaxBlocks \in Nat /\ Len(t) \in Nat
    BY <1>8 DEF RingAssumption
  <2>2. CASE Len(t) <= MaxBlocks
    BY <2>1, <2>2
  <2>3. CASE ~(Len(t) <= MaxBlocks)
    BY <2>1, <2>3
  <2> QED
    BY <2>2, <2>3
<1>11. blocks' = SubSeq(t, 1, n)
  BY <1>3
<1> HIDE DEF n
<1>12. Len(blocks') = n /\ \A k \in 1..n : blocks'[k] = t[k]
  <2>1. \A k \in 1..n : t[k] \in Row
    BY <1>8, <1>10
  <2> QED
    BY <1>10, <1>11, <2>1, SubSeqProperties
<1>13. CASE m <= n
  BY <1>9, <1>10, <1>12, <1>13
<1>14. CASE m > n
  <2>1. \A k \in 1..n : k \in 1..Len(t) /\ k < m
    BY <1>9, <1>10, <1>14
  <2>2. \A k \in 1..n : \/ t[k].block.height > t[m].block.height
                        \/ t[k].block.height = t[m].block.height /\ t[k].seq > t[m].seq
    BY <1>7, <1>9, <2>1 DEF Sorted
  <2> QED
    BY <1>9, <1>10, <1>12, <1>14, <2>2
<1> QED
  BY <1>9, <1>10, <1>13, <1>14

\* A deque full of rows above a height stays so: a row below them has no room.
LEMMA FullStaysFull ==
  ASSUME RingAssumption, RingInv, NEW b \in Block, InsertBlock(b), NEW h \in Nat,
         Len(blocks) = MaxBlocks, \A k \in 1..Len(blocks) : blocks[k].block.height > h
  PROVE  Len(blocks') = MaxBlocks /\ \A k \in 1..Len(blocks') : blocks'[k].block.height > h
<1> DEFINE row == [block |-> b, seq |-> nextBlockSeq, reorged |-> FALSE]
           kept == {r \in Range(blocks) : r.block.height = b.height => r.reorged}
           t == Place(blocks, row)
<1>1. row \in Row /\ row.block = b /\ row.seq = nextBlockSeq
  BY DEF RingInv, RingTypeOK, Row
<1>2. /\ blocks \in Seq(Row) /\ Sorted(blocks) /\ OneLive(blocks)
      /\ \A k \in 1..Len(blocks) : blocks[k].seq < nextBlockSeq /\ blocks[k].block.height \in Nat
      /\ nextBlockSeq \in Nat /\ b.height \in Nat /\ MaxBlocks \in Nat \ {0}
  BY RowFields
  DEF RingInv, RingTypeOK, NewestFirst, OneLivePerHeight, SeqsBelowNext, Sorted, OneLive,
      RingAssumption
<1>3. blocks' = SubSeq(t, 1, IF Len(t) <= MaxBlocks THEN Len(t) ELSE MaxBlocks)
  BY DEF InsertBlock, Truncate
<1>r. /\ Range(blocks) = {blocks[k] : k \in 1..Len(blocks)}
      /\ IsFiniteSet(Range(blocks)) /\ Cardinality(Range(blocks)) = Len(blocks)
  BY <1>2, SortedRows, LenProperties DEF Range
<1> HIDE DEF row
<1>5. Range(t) = kept \cup {row}
  BY <1>1, <1>2, PlaceRange
<1>6. /\ t \in Seq(Row) /\ Len(t) \in {Len(blocks), Len(blocks) + 1}
      /\ \E p, g : PlacedFrom(blocks, row, t, p, g)
  BY <1>1, <1>2, PlaceShape
<1> HIDE DEF t
<1>7. Sorted(t) /\ IsFiniteSet(Range(t)) /\ Cardinality(Range(t)) = Len(t)
  BY <1>1, <1>2, <1>6, PlacedIsSorted, SortedRows
<1>8. /\ Len(t) \in Nat /\ DOMAIN t = 1..Len(t)
      /\ \A k \in 1..Len(t) : t[k] \in Row /\ t[k].block.height \in Nat /\ t[k].seq \in Nat
  BY <1>6, RowFields, ElementOfSeq
<1> DEFINE n == IF Len(t) <= MaxBlocks THEN Len(t) ELSE MaxBlocks
<1>9. n = MaxBlocks /\ n <= Len(t) /\ blocks' = SubSeq(t, 1, n)
  BY <1>2, <1>3, <1>6
<1> HIDE DEF n
<1>10. Len(blocks') = n /\ \A k \in 1..n : blocks'[k] = t[k] /\ k \in 1..Len(t)
  <2>1. \A k \in 1..n : k \in 1..Len(t) /\ t[k] \in Row
    BY <1>2, <1>8, <1>9
  <2> QED
    BY <1>2, <1>8, <1>9, <2>1, SubSeqProperties
<1>11. CASE b.height > h
  <2>1. \A r \in kept \cup {row} : r.block.height > h
    BY <1>1, <1>r, <1>11
  <2>2. \A k \in 1..Len(t) : t[k] \in kept \cup {row}
    BY <1>5, <1>8 DEF Range
  <2> QED
    BY <1>9, <1>10, <2>1, <2>2
<1>12. CASE ~(b.height > h)
  <2>1. kept = Range(blocks)
    BY <1>2, <1>r, <1>12
  <2>2. row \notin Range(blocks)
    BY <1>1, <1>2, <1>r
  <2>3. Len(t) = MaxBlocks + 1
    <3>1. Cardinality(Range(blocks) \cup {row}) = Cardinality(Range(blocks)) + 1
      BY <1>r, <2>2, FS_AddElement, Zenon
    <3> QED
      BY <1>2, <1>5, <1>7, <1>r, <2>1, <3>1
  <2>4. ASSUME NEW k \in 1..n PROVE t[k].block.height > h
    <3>1. k \in 1..Len(t) /\ Len(t) \in 1..Len(t) /\ k < Len(t)
      BY <1>2, <1>9, <2>3
    <3>2. CASE t[k] # row
      <4>1. t[k] \in Range(blocks)
        BY <1>5, <1>8, <2>1, <3>1, <3>2 DEF Range
      <4> QED
        BY <1>r, <4>1
    <3>3. CASE t[k] = row
      <4>1. \/ t[k].block.height > t[Len(t)].block.height
            \/ /\ t[k].block.height = t[Len(t)].block.height
               /\ t[k].seq > t[Len(t)].seq
        BY <1>7, <3>1 DEF Sorted
      <4>2. t[Len(t)] # row
        BY <1>8, <3>1, <3>3, <4>1
      <4>3. t[Len(t)] \in Range(blocks)
        BY <1>5, <1>8, <2>1, <3>1, <4>2 DEF Range
      <4>4. t[Len(t)].block.height > h
        BY <1>r, <4>3
      <4> QED
        BY <1>1, <1>2, <1>8, <1>12, <3>1, <3>3, <4>1, <4>4
    <3> QED
      BY <3>2, <3>3
  <2> QED
    BY <1>9, <1>10, <2>4
<1> QED
  BY <1>11, <1>12

-----------------------------------------------------------------------------
(* The live row of a height is the one above the others.                   *)

LiveOnTop ==
  \A i, j \in 1..Len(blocks) :
    i < j /\ blocks[i].block.height = blocks[j].block.height => blocks[j].reorged

\* An inserted row goes above the dimmed rows of its height.
LEMMA InsertKeepsTop ==
  ASSUME RingAssumption, RingInv, LiveOnTop, NEW b \in Block, InsertBlock(b)
  PROVE  LiveOnTop'
<1> DEFINE row == [block |-> b, seq |-> nextBlockSeq, reorged |-> FALSE]
<1> SUFFICES ASSUME NEW i \in 1..Len(blocks'), NEW j \in 1..Len(blocks'), i < j,
                    blocks'[i].block.height = blocks'[j].block.height
             PROVE  blocks'[j].reorged
  BY DEF LiveOnTop
<1>1. /\ blocks \in Seq(Row) /\ blocks' \in Seq(Row) /\ NewestFirst' /\ NewestFirst
      /\ \A k \in 1..Len(blocks) : blocks[k].seq < nextBlockSeq
      /\ nextBlockSeq \in Nat
  BY InsertKeepsRows DEF RingInv, RingTypeOK, SeqsBelowNext
<1>2. /\ \A k \in 1..Len(blocks) : blocks[k].seq \in Nat /\ blocks[k].block.height \in Nat
      /\ \A k \in 1..Len(blocks') : blocks'[k].seq \in Nat /\ blocks'[k].block.height \in Nat
      /\ Len(blocks) \in Nat
  BY <1>1, RowFields
<1>3. blocks'[i].seq > blocks'[j].seq
  BY <1>1, <1>2 DEF NewestFirst
<1>4. row.block = b /\ row.seq = nextBlockSeq
  OBVIOUS
<1> HIDE DEF row
<1>5. \A k \in 1..Len(blocks') :
        \/ blocks'[k] = row
        \/ \E m \in 1..Len(blocks) :
             blocks'[k] = blocks[m] /\ ~(blocks[m].block.height = b.height /\ ~blocks[m].reorged)
  BY InsertedRows DEF row
<1>6. PICK q \in 1..Len(blocks) :
        blocks'[j] = blocks[q] /\ ~(blocks[q].block.height = b.height /\ ~blocks[q].reorged)
  <2>1. blocks'[j] # row
    <3> SUFFICES ASSUME blocks'[j] = row PROVE FALSE
      OBVIOUS
    <3>1. blocks'[i] # row
      BY <1>2, <1>3
    <3>2. \E m \in 1..Len(blocks) : blocks'[i] = blocks[m]
      BY <1>5, <3>1
    <3> QED
      BY <1>1, <1>2, <1>3, <1>4, <3>2
  <2> QED
    BY <1>5, <2>1
<1>7. CASE blocks'[i] = row
  BY <1>4, <1>6, <1>7
<1>8. CASE blocks'[i] # row
  <2>1. PICK p \in 1..Len(blocks) : blocks'[i] = blocks[p]
    BY <1>5, <1>8
  <2>2. p < q
    <3>1. p # q
      BY <1>2, <1>3, <1>6, <2>1
    <3>2. ~(q < p)
      <4>1. /\ blocks'[j] = blocks[q] /\ blocks'[i] = blocks[p]
            /\ blocks[p].block.height = blocks[q].block.height
        BY <1>6, <2>1
      <4>2. q < p => \/ blocks[q].block.height > blocks[p].block.height
                     \/ blocks[q].seq > blocks[p].seq
        BY <1>1 DEF NewestFirst
      <4>3. blocks[p].seq > blocks[q].seq
        BY <1>3, <4>1
      <4>4. /\ blocks[p].seq \in Nat /\ blocks[q].seq \in Nat
            /\ blocks[q].block.height \in Nat
        BY <1>2
      <4> QED
        BY <4>1, <4>2, <4>3, <4>4
    <3> QED
      BY <1>2, <3>1, <3>2
  <2> QED
    BY <1>6, <2>1, <2>2 DEF LiveOnTop
<1> QED
  BY <1>7, <1>8

\* Dimming leaves no live row under a dimmed one of its height.
LEMMA MarkKeepsTop ==
  ASSUME RingAssumption, RingInv, LiveOnTop, NEW at \in Nat, MarkReorged(at)
  PROVE  LiveOnTop'
BY MarkedRows DEF LiveOnTop
==============================================================================
