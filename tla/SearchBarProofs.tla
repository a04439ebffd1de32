--------------------------- MODULE SearchBarProofs ----------------------------
(***************************************************************************)
(* Proofs about the editing of the search bar, for every set of characters *)
(* and texts and histories of any length.                                  *)
(*                                                                         *)
(* The argument: as long as every character typed is of one byte, no byte  *)
(* of the text, nor of a recalled query, is inside a character, so that    *)
(* each index from 0 to the length of the text is a boundary; and no edit  *)
(* takes the cursor out of there (Plain).                                  *)
(***************************************************************************)
EXTENDS SearchBar, SequenceTheorems, WellFoundedInduction, TLAPS

BarSpec == BarInit /\ [][BarNext]_barVars

\* The bytes that start a character.
Byte == STRING \ {"tail"}

Plain ==
  /\ ~panicked
  /\ input \in Seq(Byte) /\ cursor \in 0..Len(input)
  /\ queries \in Seq(Seq(Byte)) /\ recalled \in 0..Len(queries)

BarInv == typedWide \/ Plain

-----------------------------------------------------------------------------
(* Texts of one-byte characters.                                           *)

\* A nonempty set of numbers up to n has its Max.
LEMMA MaxIsGreatest ==
  ASSUME NEW n \in Nat, NEW I \in SUBSET (1..n), I # {}
  PROVE  Max(I) \in I
<1> DEFINE R == OpToRel(<, Nat)
           D == {n - i : i \in I}
<1>1. IsWellFoundedOn(R, Nat)
  BY NatLessThanWellFounded
<1>2. \A x, y \in Nat : x < y => <<x, y>> \in R
  BY DEF OpToRel
<1> HIDE DEF R
<1>3. D \subseteq Nat /\ D # {}
  <2>1. PICK i \in I : TRUE
    OBVIOUS
  <2>2. n - i \in D
    OBVIOUS
  <2>3. \A j \in 1..n : n - j \in Nat
    OBVIOUS
  <2> QED
    BY <2>2, <2>3
<1>4. PICK d \in D : \A y \in D : ~(<<y, d>> \in R)
  BY <1>1, <1>3, WFMin
<1>5. PICK m \in I : d = n - m
  OBVIOUS
<1>6. ASSUME NEW y \in I PROVE m >= y
  <2>1. n - y \in D /\ n - y \in Nat /\ d \in Nat
    BY <1>3
  <2>2. ~(n - y < d)
    BY <1>2, <1>4, <2>1, Zenon
  <2> QED
    BY <1>5, <2>2
<1> QED
  BY <1>6 DEF Max

\* Without the spaces at its end a text is no longer than it was.
LEMMA TrimEndShape ==
  ASSUME NEW s \in Seq(Byte)
  PROVE  TrimEnd(s) \in Seq(Byte) /\ Len(TrimEnd(s)) \in 0..Len(s)
<1> DEFINE I == {i \in 1..Len(s) : s[i] # Space}
<1>1. Len(s) \in Nat /\ \A i \in 1..Len(s) : s[i] \in Byte
  BY LenProperties, ElementOfSeq
<1>2. PICK last : last = IF I # {} THEN Max(I) ELSE 0
  OBVIOUS
<1>3. last \in 0..Len(s)
  <2>1. ASSUME I # {} PROVE Max(I) \in 1..Len(s)
    BY <1>1, <2>1, MaxIsGreatest
  <2> HIDE DEF I
  <2> QED
    BY <1>1, <1>2, <2>1
<1>4. TrimEnd(s) = SubSeq(s, 1, last)
  BY <1>2 DEF TrimEnd, SelectLastInSeq
<1> HIDE DEF I
<1> QED
  BY <1>1, <1>3, <1>4, SubSeqProperties

\* A text backwards is as long.
LEMMA ReverseShape ==
  ASSUME NEW s \in Seq(Byte)
  PROVE  Reverse(s) \in Seq(Byte)
<1>1. Len(s) \in Nat /\ \A i \in 1..Len(s) : s[i] \in Byte
  BY LenProperties, ElementOfSeq
<1>2. \A i \in 1..Len(s) : s[(Len(s) - i) + 1] \in Byte
  BY <1>1
<1> QED
  BY <1>1, <1>2, IsASeq DEF Reverse

\* The word before the cursor starts in the text before it.
LEMMA LastSpaceBefore ==
  ASSUME NEW s \in Seq(Byte)
  PROVE  SelectLastInSeq(s, LAMBDA x : x = Space) \in 0..Len(s)
<1> DEFINE I == {i \in 1..Len(s) : s[i] = Space}
<1>1. Len(s) \in Nat
  BY LenProperties
<1>2. PICK last : last = IF I # {} THEN Max(I) ELSE 0
  OBVIOUS
<1>3. last \in 0..Len(s)
  <2>1. ASSUME I # {} PROVE Max(I) \in 1..Len(s)
    BY <1>1, <2>1, MaxIsGreatest
  <2> HIDE DEF I
  <2> QED
    BY <1>1, <1>2, <2>1
<1>4. SelectLastInSeq(s, LAMBDA x : x = Space) = last
  BY <1>2 DEF SelectLastInSeq
<1> QED
  BY <1>3, <1>4, Zenon

\* In a plain text every index is a boundary, and splits it in two plain ones.
LEMMA PlainSplits ==
  ASSUME Plain, NEW k \in 0..Len(input)
  PROVE  /\ IsBoundary(k) /\ Len(input) \in Nat
         /\ Before(k) \in Seq(Byte) /\ Len(Before(k)) = k
         /\ After(k) \in Seq(Byte) /\ Len(After(k)) = Len(input) - k
<1>1. Len(input) \in Nat /\ \A i \in 1..Len(input) : input[i] \in Byte
  BY LenProperties, ElementOfSeq DEF Plain
<1>2. IsBoundary(k)
  BY <1>1 DEF IsBoundary, Byte
<1>3. Before(k) \in Seq(Byte) /\ Len(Before(k)) = k
  BY <1>1, SubSeqProperties DEF Before
<1>4. After(k) \in Seq(Byte) /\ Len(After(k)) = Len(input) - k
  <2>1. \A i \in (k + 1)..Len(input) : input[i] \in Byte
    BY <1>1
  <2> QED
    BY <1>1, <2>1, SubSeqProperties DEF After
<1> QED
  BY <1>1, <1>2, <1>3, <1>4

\* Two texts in a row.
LEMMA Joined ==
  ASSUME NEW s \in Seq(Byte), NEW t \in Seq(Byte)
  PROVE  s \o t \in Seq(Byte) /\ Len(s \o t) = Len(s) + Len(t)
BY ConcatProperties

\* What is left when the bytes between two indices are cut out.
LEMMA CutOut ==
  ASSUME Plain, NEW k \in 0..Len(input), NEW e \in 0..Len(input)
  PROVE  \E text \in Seq(Byte) :
           text = Before(k) \o After(e) /\ Len(text) = k + (Len(input) - e)
<1>1. PICK b \in Seq(Byte) : b = Before(k) /\ Len(b) = k
  BY PlainSplits
<1>2. PICK a \in Seq(Byte) : a = After(e) /\ Len(a) = Len(input) - e
  BY PlainSplits
<1>3. b \o a \in Seq(Byte) /\ Len(b \o a) = Len(b) + Len(a)
  BY Joined
<1> QED
  BY <1>1, <1>2, <1>3

\* An edit that leaves one-byte characters and the cursor among them.
LEMMA EditKeepsPlain ==
  ASSUME Plain, NEW text \in Seq(Byte), NEW at \in 0..Len(text), Edit(text, at)
  PROVE  Plain'
BY DEF Edit, Plain

\* A sequence of which each element is a byte.
LEMMA SeqIsFrom ==
  ASSUME NEW s \in Seq(STRING), \A i \in 1..Len(s) : s[i] \in Byte
  PROVE  s \in Seq(Byte)
<1>1. Len(s) \in Nat
  BY LenProperties
<1>2. SubSeq(s, 1, Len(s)) = s
  BY SubSeqFull
<1>3. SubSeq(s, 1, Len(s)) \in Seq(Byte)
  BY <1>1, SubSeqProperties
<1> QED
  BY <1>2, <1>3

\* Each key, while only one-byte characters are typed.
LEMMA PlainKept ==
  ASSUME SearchBarAssumption, Plain, BarNext, ~typedWide'
  PROVE  Plain'
<1>0. /\ ~panicked /\ input \in Seq(Byte) /\ cursor \in 0..Len(input) /\ Len(input) \in Nat
      /\ queries \in Seq(Seq(Byte)) /\ recalled \in 0..Len(queries) /\ Len(queries) \in Nat
  BY LenProperties DEF Plain
<1>1. <<>> \in Seq(Byte) /\ Len(<<>>) = 0
  OBVIOUS
<1>2. CASE OpenBar
  BY <1>0, <1>1, <1>2 DEF OpenBar, Plain
<1>3. CASE CloseBar
  BY <1>0, <1>1, <1>3 DEF CloseBar, Plain
<1>4. CASE TypeChar
  <2>1. IsBoundary(cursor)
    BY <1>0, PlainSplits
  <2>2. PICK c \in Chars : /\ Edit(Before(cursor) \o c \o After(cursor), cursor + Len(c))
                           /\ typedWide' = (typedWide \/ Len(c) > 1)
    BY <1>4, <2>1 DEF TypeChar
  <2>3. c \in Seq(Byte) /\ Len(c) = 1
    <3>1. c \in Seq(STRING) /\ Len(c) > 0 /\ c[1] # "tail" /\ ~(Len(c) > 1) /\ Len(c) \in Nat
      BY <2>2, LenProperties DEF SearchBarAssumption
    <3>2. Len(c) = 1 /\ c[1] \in STRING
      <4>1. PICK n \in Nat : n = Len(c) /\ n > 0 /\ ~(n > 1)
        BY <3>1
      <4>2. n = 1 /\ 1 \in 1..n
        BY <4>1
      <4> QED
        BY <3>1, <4>1, <4>2, ElementOfSeq
    <3>3. \A i \in 1..Len(c) : c[i] \in Byte
      BY <3>1, <3>2 DEF Byte
    <3> QED
      BY <3>1, <3>2, <3>3, SeqIsFrom
  <2>4. PICK text \in Seq(Byte) : text = Before(cursor) \o c \o After(cursor)
          /\ Len(text) = Len(input) + 1
    <3>1. /\ Before(cursor) \in Seq(Byte) /\ Len(Before(cursor)) = cursor
          /\ After(cursor) \in Seq(Byte) /\ Len(After(cursor)) = Len(input) - cursor
      BY <1>0, PlainSplits
    <3>2. PICK b \in Seq(Byte) : b = Before(cursor) /\ Len(b) = cursor
      BY <3>1
    <3>3. PICK a \in Seq(Byte) : a = After(cursor) /\ Len(a) = Len(input) - cursor
      BY <3>1
    <3>4. PICK bc \in Seq(Byte) : bc = b \o c /\ Len(bc) = Len(b) + Len(c)
      BY <2>3, Joined
    <3>5. PICK text \in Seq(Byte) : text = bc \o a /\ Len(text) = Len(bc) + Len(a)
      BY Joined
    <3>6. text = Before(cursor) \o c \o After(cursor)
      BY <3>2, <3>3, <3>4, <3>5
    <3>7. Len(text) = Len(input) + 1
      BY <1>0, <2>3, <3>2, <3>3, <3>4, <3>5
    <3> QED
      BY <3>6, <3>7
  <2>5. cursor + Len(c) \in 0..Len(text)
    BY <1>0, <2>3, <2>4
  <2>6. PICK at \in 0..Len(text) : at = cursor + Len(c)
    BY <2>5
  <2> QED
    BY <2>2, <2>4, <2>6, EditKeepsPlain
<1>5. CASE Backspace
  <2>1. PICK k \in 0..Len(input) : k = cursor - 1 /\ k < Len(input)
    BY <1>0, <1>5 DEF Backspace
  <2>2. PICK e \in 0..Len(input) : e = CharEnd(k)
    <3>1. k + 1 \in (k + 1)..Len(input) /\ \A j \in (k + 1)..((k + 1) - 1) : FALSE
      BY <1>0, <2>1
    <3>2. IsBoundary(k + 1)
      BY <1>0, <2>1, PlainSplits
    <3>3. CharEnd(k) \in (k + 1)..Len(input)
      BY <3>1, <3>2 DEF CharEnd
    <3> QED
      BY <1>0, <2>1, <3>3
  <2>3. Edit(Before(k) \o After(e), k)
    BY <1>0, <1>5, <2>1, <2>2, PlainSplits DEF Backspace
  <2>4. PICK text \in Seq(Byte) : text = Before(k) \o After(e) /\ Len(text) = k + (Len(input) - e)
    BY <2>1, <2>2, CutOut
  <2>5. k \in 0..Len(text)
    BY <1>0, <2>1, <2>2, <2>4
  <2> QED
    BY <2>3, <2>4, <2>5, EditKeepsPlain
<1>6. CASE CursorLeft
  <2>1. PICK k \in 0..Len(input) : k = cursor - 1
    BY <1>0, <1>6 DEF CursorLeft
  <2> QED
    BY <1>0, <1>6, <2>1, EditKeepsPlain DEF CursorLeft
<1>7. CASE CursorRight
  <2>1. PICK k : k = IF cursor < Len(input) THEN cursor + 1 ELSE Len(input)
    OBVIOUS
  <2>2. k \in 0..Len(input)
    BY <1>0, <2>1
  <2> QED
    BY <1>0, <1>7, <2>1, <2>2, EditKeepsPlain DEF CursorRight
<1>8. CASE CursorToEnds
  <2>1. PICK k \in {0, Len(input)} : Edit(input, k)
    BY <1>8 DEF CursorToEnds
  <2>2. k \in 0..Len(input)
    BY <1>0
  <2> QED
    BY <1>0, <2>1, <2>2, EditKeepsPlain
<1>9. CASE ClearBar
  <2>1. PICK text \in Seq(Byte) : text = <<>>
    BY <1>1
  <2>2. 0 \in 0..Len(text)
    BY <1>1, <2>1
  <2> QED
    BY <1>9, <2>1, <2>2, EditKeepsPlain DEF ClearBar
<1>10. CASE DeleteWord
  <2>1. PICK cut : cut = SelectLastInSeq(TrimEnd(Before(cursor)), LAMBDA x : x = Space)
    OBVIOUS
  <2>2. cut \in 0..cursor
    <3>1. Before(cursor) \in Seq(Byte) /\ Len(Before(cursor)) = cursor
      BY <1>0, PlainSplits
    <3>2. PICK s \in Seq(Byte) : s = TrimEnd(Before(cursor)) /\ Len(s) \in 0..cursor
      BY <3>1, TrimEndShape
    <3>3. cut \in 0..Len(s)
      BY <2>1, <3>2, LastSpaceBefore
    <3> QED
      BY <1>0, <3>2, <3>3
  <2>3. Edit(Before(cut) \o After(cursor), cut)
    BY <1>0, <1>10, <2>1, PlainSplits DEF DeleteWord
  <2>4. cut \in 0..Len(input)
    BY <1>0, <2>2
  <2>5. PICK text \in Seq(Byte) :
          text = Before(cut) \o After(cursor) /\ Len(text) = cut + (Len(input) - cursor)
    BY <1>0, <2>4, CutOut
  <2>6. cut \in 0..Len(text)
    BY <1>0, <2>2, <2>5
  <2> QED
    BY <2>3, <2>5, <2>6, EditKeepsPlain
<1>11. CASE HistoryStep
  <2>1. /\ recalled' \in {Older, Newer} /\ Len(queries) # 0
        /\ input' = IF recalled' = 0 THEN <<>> ELSE queries[recalled']
        /\ cursor' = Len(input') /\ UNCHANGED <<queries, panicked>>
    BY <1>0, <1>11, EmptySeq DEF HistoryStep, CursorAfter
  <2>2. recalled' \in 0..Len(queries)
    BY <1>0, <2>1 DEF Older, Newer
  <2>3. input' \in Seq(Byte)
    <3>1. PICK n \in 0..Len(queries) : n = recalled'
      BY <2>2
    <3>2. n # 0 => queries[n] \in Seq(Byte)
      BY <1>0, <3>1, ElementOfSeq
    <3> QED
      BY <1>1, <2>1, <3>1, <3>2
  <2>4. cursor' \in 0..Len(input')
    BY <2>1, <2>3, LenProperties
  <2> QED
    BY <1>0, <2>1, <2>2, <2>3, <2>4 DEF Plain
<1>12. CASE Submit
  <2>1. PICK q \in Seq(Byte) : q = Trim(input)
    BY <1>0, TrimEndShape, ReverseShape DEF Trim
  <2>2. queries' = IF q = <<>> THEN queries ELSE Append(queries, q)
    BY <1>12, <2>1 DEF Submit
  <2>3. queries' \in Seq(Seq(Byte)) /\ Len(queries') \in Nat
    BY <1>0, <2>2, AppendProperties, LenProperties
  <2>4. input' = <<>> /\ cursor' = 0 /\ recalled' = 0 /\ UNCHANGED panicked
    BY <1>12 DEF Submit
  <2> QED
    BY <1>0, <1>1, <2>3, <2>4 DEF Plain
<1>13. CASE AnswerTakesFocus
  BY <1>0, <1>13 DEF AnswerTakesFocus, Plain
<1> QED
  BY <1>2, <1>3, <1>4, <1>5, <1>6, <1>7, <1>8, <1>9, <1>10, <1>11, <1>12, <1>13 DEF BarNext

\* A wide character typed stays typed.
LEMMA TypedWideStays ==
  ASSUME BarNext, typedWide
  PROVE  typedWide'
BY DEF BarNext, OpenBar, CloseBar, TypeChar, Backspace, CursorLeft, CursorRight, CursorToEnds,
       ClearBar, DeleteWord, HistoryStep, Submit, AnswerTakesFocus, Same, Panic

\* No sequence of keys makes a string operation panic while every character
\* typed is of one byte (OneByteNeverPanics): whatever is typed, removed, recalled
\* or submitted, the byte index of the cursor stays one the text can be cut at.
THEOREM OneByteTextNeverPanics == BarSpec => []OneByteNeverPanics
<1>1. BarInit => BarInv
  <2> SUFFICES ASSUME BarInit PROVE Plain
    BY DEF BarInv
  <2>1. <<>> \in Seq(Byte) /\ <<>> \in Seq(Seq(Byte)) /\ Len(<<>>) = 0
    OBVIOUS
  <2> QED
    BY <2>1 DEF BarInit, Plain
<1>2. BarInv /\ [BarNext]_barVars => BarInv'
  <2> SUFFICES ASSUME BarInv, [BarNext]_barVars, ~typedWide' PROVE Plain'
    BY DEF BarInv
  <2>1. CASE UNCHANGED barVars
    BY <2>1 DEF BarInv, Plain, barVars
  <2>2. CASE BarNext
    BY <2>2, PlainKept, TypedWideStays, SearchBarAssumption DEF BarInv
  <2> QED
    BY <2>1, <2>2
<1>3. BarInv => OneByteNeverPanics
  BY DEF BarInv, Plain, OneByteNeverPanics
<1> QED
  BY <1>1, <1>2, <1>3, PTL DEF BarSpec

=============================================================================
