-------------------------------- MODULE Screen --------------------------------
(***************************************************************************)
(* What a frame of the explorer draws: the columns of the body and the     *)
(* pane in each, which of them are faded, the column the gradient fills,   *)
(* and the path in the header (render_body, render_block_columns,          *)
(* focused_pane and breadcrumb in tools/tui/src/ui.rs).                    *)
(*                                                                         *)
(* A frame is a function of the App and of the terminal's width.  The      *)
(* renderer does not look at the focus alone: whether a block is in        *)
(* context is worked out again, from panes that answers open and close.    *)
(***************************************************************************)
EXTENDS Explorer

\* The widths that are told apart: below 84, below 120, and from there.
Widths == {"narrow", "middle", "wide"}

Pane(name, faded) == [pane |-> name, faded |-> faded]

\* A block is in context from the moment its detail opens until it closes; an
\* overlay or a list that has the focus counts only while its tx is open.
BlockContext ==
  /\ app.block # NoBlock
  /\ \/ app.focus = "Block"
     \/ app.detail.tx # NoTx /\ app.detail.origin = "Block"

-----------------------------------------------------------------------------
(* The body.  BugNarrowPane is a slip; no specification uses it.           *)

BugNarrowPane == IF app.detail.tx # NoTx THEN "Tx" ELSE "Block"

\* One pane that follows the focus.
NarrowPane == IF app.focus = "Tx" /\ app.detail.tx # NoTx THEN "Tx" ELSE "Block"

\* List, block and transaction; as width drops first the list goes.
BlockColumns(w) ==
  LET column(name) == Pane(name, app.focus # name)
  IN  CASE w = "wide"   -> <<column("List"), column("Block"), column("Tx")>>
        [] w = "middle" -> <<column("Block"), column("Tx")>>
        [] w = "narrow" -> <<Pane(NarrowPane, FALSE)>>

\* render_body: the columns of the body, left to right.
Body(w) ==
  CASE BlockContext -> BlockColumns(w)
    [] ~BlockContext /\ app.detail.tx # NoTx -> <<Pane("List", TRUE), Pane("Tx", FALSE)>>
    [] OTHER -> <<Pane("List", FALSE)>>

\* focused_pane: the column, and of how many, that the gradient may fill; the
\* lists of blocks and results have none.
Band(w) ==
  CASE app.focus = "Tx" /\ BlockContext ->
         (CASE w = "wide" -> <<3, 3>> [] w = "middle" -> <<2, 2>> [] OTHER -> <<1, 1>>)
    [] app.focus = "Tx" /\ ~BlockContext -> <<2, 2>>
    [] app.focus = "List" /\ app.view = "Mempool" -> <<1, 1>>
    [] OTHER -> <<0, 0>>

\* breadcrumb: the path to what is open, empty on the plain list.
Crumbs ==
  LET block == IF app.block = NoBlock THEN <<>> ELSE <<app.block.height>>
      tx    == IF app.detail.tx = NoTx THEN <<>> ELSE <<app.detail.tx>>
  IN  IF block \o tx = <<>> THEN <<>> ELSE <<app.view>> \o block \o tx

-----------------------------------------------------------------------------
(* Properties                                                              *)

\* The pane that keys act on; the search bar and the overlays are drawn over
\* any body.
KeysGoTo == IF app.focus \in {"Search", "Help"} THEN {} ELSE {app.focus}

Drawn(w) == {Body(w)[i].pane : i \in DOMAIN Body(w)}

FocusDrawn == \A w \in Widths : KeysGoTo \subseteq Drawn(w)

\* The transaction that has the focus is bright, the path in the header ends
\* in it, and the gradient fills the column it is drawn in.
TxInFront ==
  \A w \in Widths :
    /\ Body(w)[Len(Body(w))] = Pane("Tx", FALSE)
    /\ Band(w) = <<Len(Body(w)), Len(Body(w))>>
    /\ Crumbs[Len(Crumbs)] = app.detail.tx

\* No key of a pane that is drawn leaves the focus on an invisible one, at any
\* width: backing out of a transaction lands on the block it came from, also
\* where there is room for one pane only.  And whenever a transaction has the
\* focus, the layout the gradient works out for itself agrees with the body.
\* (An answer can hide the focus: results that arrive while a transaction of
\* a block is open give the keys to a list that narrower screens do not draw.)
KeysKeepFocusDrawn ==
  [][/\ KeyPress /\ KeysGoTo # {} /\ FocusDrawn => FocusDrawn'
     /\ app'.focus = "Tx" => TxInFront']_vars

=============================================================================
