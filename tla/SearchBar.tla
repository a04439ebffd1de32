------------------------------ MODULE SearchBar ------------------------------
(***************************************************************************)
(* The editing of the explorer's search bar: its text, its cursor, which   *)
(* is an index into the bytes of the text, and the history of queries      *)
(* (search_key, delete_word, history_step, submit_search and the "/" of    *)
(* list_key in tools/tui/src/app.rs).                                      *)
(*                                                                         *)
(* A text is a sequence of bytes.  A character is the bytes it is encoded  *)
(* in, the second and later ones marked "tail"; a string operation at a    *)
(* byte that is no character boundary panics, as it does in Rust.  Where a *)
(* submitted query goes is in Explorer.                                    *)
(***************************************************************************)
EXTENDS Integers, Sequences, SequencesExt

CONSTANTS
  Chars,          \* the characters that can be typed, as byte sequences
  MaxBytes,       \* bound on the length of the text
  MaxQueries      \* bound on the history

Space == "space"

ASSUME SearchBarAssumption ==
  \A c \in Chars : /\ c \in Seq(STRING) /\ Len(c) > 0 /\ c[1] # "tail"
                   /\ \A i \in 2..Len(c) : c[i] = "tail"

VARIABLES
  searching,      \* the search bar has the focus
  input,          \* search_input
  cursor,         \* search_cursor, in bytes
  queries,        \* search_history, oldest first
  recalled,       \* history_idx, counted from 1; 0 for none
  panicked,       \* a string operation panicked, and with it the program
  typedWide       \* history: a character of several bytes was typed

barVars == <<searching, input, cursor, queries, recalled, panicked, typedWide>>

BarInit ==
  /\ searching = FALSE
  /\ input = <<>> /\ cursor = 0
  /\ queries = <<>> /\ recalled = 0
  /\ panicked = FALSE /\ typedWide = FALSE

-----------------------------------------------------------------------------
\* str::is_char_boundary; an index past the end is none.
IsBoundary(k) == k = Len(input) \/ (k < Len(input) /\ input[k + 1] # "tail")

Before(k) == SubSeq(input, 1, k)
After(k) == SubSeq(input, k + 1, Len(input))

\* The end of the character that starts at byte k.
CharEnd(k) == CHOOSE e \in (k + 1)..Len(input) :
                /\ IsBoundary(e)
                /\ \A j \in (k + 1)..(e - 1) : ~IsBoundary(j)

\* s without the spaces at its end, and at both ends.
TrimEnd(s) == SubSeq(s, 1, SelectLastInSeq(s, LAMBDA x : x # Space))
Trim(s) == Reverse(TrimEnd(Reverse(TrimEnd(s))))

Panic == panicked' = TRUE /\ UNCHANGED <<searching, input, cursor, queries, recalled, typedWide>>

Edit(text, at) ==
  /\ input' = text /\ cursor' = at
  /\ UNCHANGED <<searching, queries, recalled, panicked>>

Key == searching /\ ~panicked
Same == UNCHANGED typedWide

-----------------------------------------------------------------------------
(* The keys.                                                               *)

OpenBar ==
  /\ ~searching /\ ~panicked
  /\ searching' = TRUE
  /\ input' = <<>> /\ cursor' = 0 /\ recalled' = 0
  /\ UNCHANGED <<queries, panicked, typedWide>>

\* Escape keeps the history index; opening the bar resets it.
CloseBar ==
  /\ Key
  /\ searching' = FALSE
  /\ input' = <<>> /\ cursor' = 0
  /\ UNCHANGED <<queries, recalled, panicked, typedWide>>

TypeChar ==
  /\ Key
  /\ \E c \in Chars :
       /\ Len(input) + Len(c) <= MaxBytes
       /\ IF IsBoundary(cursor)
          THEN /\ Edit(Before(cursor) \o c \o After(cursor), cursor + Len(c))
               /\ typedWide' = (typedWide \/ Len(c) > 1)
          ELSE Panic

\* The cursor goes back one byte, and the character there is removed.
Backspace ==
  /\ Key /\ cursor > 0
  /\ LET k == cursor - 1
     IN  IF IsBoundary(k) /\ k < Len(input)
         THEN Edit(Before(k) \o After(CharEnd(k)), k) /\ Same
         ELSE Panic

CursorLeft == Key /\ cursor > 0 /\ Edit(input, cursor - 1) /\ Same

CursorRight ==
  Key /\ Edit(input, IF cursor < Len(input) THEN cursor + 1 ELSE Len(input)) /\ Same

CursorToEnds == Key /\ \E k \in {0, Len(input)} : Edit(input, k) /\ Same

ClearBar == Key /\ Edit(<<>>, 0) /\ Same

\* From the cursor back over spaces and over the word before them.
DeleteWord ==
  /\ Key
  /\ LET cut == SelectLastInSeq(TrimEnd(Before(cursor)), LAMBDA x : x = Space)
     IN  IF IsBoundary(cursor) THEN Edit(Before(cut) \o After(cursor), cut) /\ Same ELSE Panic

-----------------------------------------------------------------------------
(* The history.  BugCursorAfter is a slip; no specification uses it.       *)

\* One query back: from none to the newest, held at the oldest.
Older == IF recalled = 0 THEN Len(queries) ELSE IF recalled = 1 THEN 1 ELSE recalled - 1
\* One query on: past the newest there is none.
Newer == IF recalled = 0 \/ recalled = Len(queries) THEN 0 ELSE recalled + 1

BugCursorAfter(text) == cursor
CursorAfter(text) == Len(text)

HistoryStep ==
  /\ Key /\ queries # <<>>
  /\ recalled' \in {Older, Newer}
  /\ input' = IF recalled' = 0 THEN <<>> ELSE queries[recalled']
  /\ cursor' = CursorAfter(input')
  /\ UNCHANGED <<searching, queries, panicked, typedWide>>

\* submit_search: an empty query is not kept.
Submit ==
  /\ Key
  /\ LET q == Trim(input)
     IN  /\ q # <<>> => Len(queries) < MaxQueries
         /\ queries' = IF q = <<>> THEN queries ELSE Append(queries, q)
  /\ searching' = FALSE
  /\ input' = <<>> /\ cursor' = 0 /\ recalled' = 0
  /\ UNCHANGED <<panicked, typedWide>>

\* A found block or result set takes the focus to its pane; the text stays
\* until the bar is opened again.
AnswerTakesFocus ==
  /\ Key
  /\ searching' = FALSE
  /\ UNCHANGED <<input, cursor, queries, recalled, panicked, typedWide>>

BarNext ==
  \/ OpenBar \/ CloseBar \/ TypeChar \/ Backspace \/ CursorLeft \/ CursorRight
  \/ CursorToEnds \/ ClearBar \/ DeleteWord \/ HistoryStep \/ Submit
  \/ AnswerTakesFocus

-----------------------------------------------------------------------------
(* Properties                                                              *)

\* No sequence of keys makes a string operation panic while every character
\* typed is of one byte: the cursor stays inside the text over recalls, word
\* deletions and removals.
OneByteNeverPanics == panicked => typedWide

\* No sequence of keys makes a string operation panic.  It does not hold: the
\* cursor moves by one byte, also over a character that is wider, and the
\* next insertion, removal or word deletion is inside it.
EditsNeverPanic == ~panicked

=============================================================================
