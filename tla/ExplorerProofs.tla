---------------------------- MODULE ExplorerProofs ----------------------------
(***************************************************************************)
(* Proofs about the explorer's panes, its search task and the frame drawn  *)
(* from them, for every set of transactions and blocks and any number of   *)
(* requests and answers on their way.                                      *)
(*                                                                         *)
(* What a pane needs is a statement about one App (Good), kept by every    *)
(* key and by every answer, whenever it arrives.  That the job of a        *)
(* closed pane ends needs the channel too (JobWanted): while nobody looks  *)
(* at or waits for a transaction, either a CloseTx is on its way with no   *)
(* Transaction behind it, or there is no job and no Transaction to start   *)
(* one.                                                                    *)
(***************************************************************************)
EXTENDS Screen, SequenceTheorems, WellFoundedInduction, TLAPS

-----------------------------------------------------------------------------
(* The invariants.                                                         *)

Request ==
  [type : {"Transaction"}, tx : Txid] \union [type : {"CloseTx", "Taddr"}]
    \union [type : {"Block"}, height : Heights]

Job == [type : {"Taddr"}] \union [type : {"Block"}, height : Heights]

Update ==
  [type : {"SearchTx", "DetailResolved"}, tx : Txid]
    \union [type : {"ResolveProgress"}, tx : Txid, on : BOOLEAN]
    \union [type : {"SearchBlock"}, height : Heights]
    \union [type : {"SearchTaddr"}, hits : HitLists]
    \union [type : {"SearchError"}]

Detail == [tx : Txid \union {NoTx}, origin : {"Standalone", "Block", "Results"},
           progress : BOOLEAN]

BlockPane == [height : Heights \union {0}, sel : Nat \ {0}]

AppType ==
  [view : {"Mempool", "Blocks", "Results"}, focus : {"List", "Block", "Tx", "Search", "Help"},
   ret : {"List", "Block", "Tx"}, detail : Detail, awaiting : {"Nothing", "Standalone", "Block"},
   pendingCtx : Heights \union {0}, block : BlockPane,
   hits : HitLists \union {<<>>}, hit : Nat \ {0}]

\* The pane of a focus is open.
OpenFor(a, f) == (f = "Tx" => a.detail.tx # NoTx) /\ (f = "Block" => a.block # NoBlock)

HasPane(a) == OpenFor(a, IF a.focus = "Help" THEN a.ret ELSE a.focus)

OnRow(a) ==
  /\ TxRows(a.block) # <<>> => a.block.sel \in DOMAIN TxRows(a.block)
  /\ a.hits # <<>> => a.hit \in DOMAIN a.hits

Good(a) == a \in AppType /\ HasPane(a) /\ OnRow(a)

Shape ==
  /\ Good(app)
  /\ reqs \in Seq(Request)
  /\ searcher \in {"connecting", "serving", "gone"}
  /\ txJob \in [tx : Txid \union {NoTx}, stage : {"none", "fetch", "resolve", "fee"}, left : Nat]
  /\ txJob.stage # "none" => txJob.tx \in Txid
  /\ jobs \in Seq(Job)
  /\ updates \in Seq(Update)
  /\ wanted \in Txid \union {NoTx}

\* Only a task that serves has a job, and one that is gone is asked for none.
JobNeedsSearcher ==
  /\ searcher # "serving" => txJob = NoJob
  /\ searcher = "gone" => \A k \in 1..Len(reqs) : reqs[k].type # "Transaction"

\* The user sees a transaction or waits for one.
Cares(a) == a.detail # NoDetail \/ a.awaiting # "Nothing"

NoTransactionAfter(rs, k) == \A j \in (k + 1)..Len(rs) : rs[j].type # "Transaction"

JobWanted ==
  \/ Cares(app)
  \/ \E k \in 1..Len(reqs) : reqs[k].type = "CloseTx" /\ NoTransactionAfter(reqs, k)
  \/ txJob = NoJob /\ NoTransactionAfter(reqs, 0)

-----------------------------------------------------------------------------
(* Messages, rows and cursors.                                             *)

\* What each kind of request is.
LEMMA RequestKinds ==
  /\ \A r \in Request :
       /\ r.type \in {"Transaction", "CloseTx", "Taddr", "Block"}
       /\ r.type = "Transaction" => r.tx \in Txid
       /\ r.type \in {"Taddr", "Block"} => r \in Job
  /\ CloseRequest \in Seq(Request) /\ <<[type |-> "Taddr"]>> \in Seq(Request)
  /\ \A t \in Txid : AskTx(t) \in Seq(Request)
  /\ \A h \in Heights : ContextRequest(h) \in Seq(Request)
BY DEF Request, Job, CloseRequest, AskTx, ContextRequest

\* What each kind of answer carries.
LEMMA UpdateKinds ==
  /\ \A u \in Update :
       /\ u.type \in {"SearchTx", "DetailResolved", "ResolveProgress", "SearchBlock",
                      "SearchTaddr", "SearchError"}
       /\ u.type \in {"SearchTx", "DetailResolved", "ResolveProgress"} => u.tx \in Txid
       /\ u.type = "ResolveProgress" => u.on \in BOOLEAN
       /\ u.type = "SearchBlock" => u.height \in Heights
       /\ u.type = "SearchTaddr" => u.hits \in HitLists
  /\ SearchError \in Seq(Update)
  /\ \A t \in Txid : /\ \A on \in BOOLEAN : Progress(t, on) \in Seq(Update)
                     /\ Resolved(t) \in Seq(Update)
                     /\ <<[type |-> "SearchTx", tx |-> t]>> \in Seq(Update)
  /\ \A h \in Heights : BlockFound(h) \in Seq(Update)
  /\ \A hits \in HitLists : HitsFound(hits) \in Seq(Update)
BY DEF Update, SearchError, Progress, Resolved, BlockFound, HitsFound

\* The rows of an App are sequences of transactions.
LEMMA Rows ==
  ASSUME ExplorerAssumption, NEW a \in AppType
  PROVE  /\ TxRows(a.block) \in Seq(Txid) /\ a.hits \in Seq(Txid)
         /\ Len(TxRows(a.block)) \in Nat /\ DOMAIN TxRows(a.block) = 1..Len(TxRows(a.block))
         /\ Len(a.hits) \in Nat /\ DOMAIN a.hits = 1..Len(a.hits)
         /\ \A i \in DOMAIN a.hits : a.hits[i] \in Txid
         /\ SelectedTx(a.block) \in Txid \union {NoTx}
<1>1. a.block \in BlockPane /\ a.hits \in HitLists \union {<<>>}
  BY DEF AppType
<1>2. TxRows(a.block) \in Seq(Txid) /\ a.hits \in Seq(Txid)
  BY <1>1, EmptySeq DEF TxRows, BlockPane, ExplorerAssumption
<1>3. \A i \in DOMAIN a.hits : a.hits[i] \in Txid
  BY <1>2, LenProperties, ElementOfSeq
<1>4. SelectedTx(a.block) \in Txid \union {NoTx}
  BY <1>2, LenProperties, ElementOfSeq DEF SelectedTx
<1> QED
  BY <1>2, <1>3, <1>4, LenProperties

\* A step of a cursor stays on the list.
LEMMA StepsStay ==
  ASSUME NEW i \in Nat \ {0}, NEW len \in Nat, NEW j \in Steps(i, len)
  PROVE  j \in 1..len
BY DEF Steps, StepIn

\* The block a transaction is mined at is one of the chain.
LEMMA MinedIsHeight == \A t \in Txid : MinedAt(t) # 0 => MinedAt(t) \in Heights
BY DEF MinedAt

\* The position of a transaction in its block is a row, or 0.
LEMMA PositionIsRow ==
  ASSUME NEW s \in Seq(Txid), NEW t
  PROVE  LET I == {i \in 1..Len(s) : s[i] = t}
         IN  (IF I # {} THEN Min(I) ELSE 0) \in 0..Len(s)
<1> DEFINE I == {i \in 1..Len(s) : s[i] = t}
<1>1. Len(s) \in Nat
  BY LenProperties
<1>2. PICK p : p = IF I # {} THEN Min(I) ELSE 0
  OBVIOUS
<1>3. ASSUME I # {} PROVE Min(I) \in I
  <2> DEFINE R == OpToRel(<, Nat)
  <2>1. IsWellFoundedOn(R, Nat)
    BY NatLessThanWellFounded
  <2>0. I \subseteq Nat
    BY <1>1
  <2>2. \A x, y \in Nat : x < y => <<x, y>> \in R
    BY DEF OpToRel
  <2> HIDE DEF R
  <2>3. PICK x \in I : \A y \in I : ~(<<y, x>> \in R)
    BY <1>3, <2>0, <2>1, WFMin
  <2>4. ASSUME NEW y \in I PROVE x <= y
    <3>1. x \in Nat /\ y \in Nat
      BY <2>0
    <3>2. ~(y < x)
      BY <2>2, <2>3, <3>1, Zenon
    <3> QED
      BY <3>1, <3>2
  <2> QED
    BY <2>4 DEF Min
<1>4. ASSUME I # {} PROVE p \in 0..Len(s)
  <2>1. Min(I) \in 1..Len(s)
    BY <1>3, <1>4
  <2> HIDE DEF I
  <2>2. p = Min(I)
    BY <1>2, <1>4
  <2> QED
    BY <1>1, <2>1, <2>2
<1> HIDE DEF I
<1>5. ASSUME I = {} PROVE p \in 0..Len(s)
  BY <1>1, <1>2, <1>5
<1> QED
  BY <1>2, <1>4, <1>5 DEF I

-----------------------------------------------------------------------------
(* What opens and moves a pane keeps an App good.                          *)

\* Opening a transaction gives its pane the focus.
LEMMA OpenDetailGood ==
  ASSUME ExplorerAssumption, NEW a, Good(a), NEW t \in Txid,
         NEW origin \in {"Standalone", "Block", "Results"}
  PROVE  /\ Good(OpenDetail(a, t, origin)) /\ Cares(OpenDetail(a, t, origin))
         /\ OpenDetail(a, t, origin).focus = "Tx"
         /\ OpenDetail(a, t, origin).hits = a.hits
<1> DEFINE b == OpenDetail(a, t, origin)
<1>1. t # NoTx /\ a \in AppType
  BY DEF ExplorerAssumption, Good
<1>2. b \in AppType /\ b.focus = "Tx" /\ b.detail.tx = t /\ b.hits = a.hits /\ b.hit = a.hit
      /\ (b.block = a.block \/ b.block = NoBlock)
  <2>1. PICK d : d = [tx |-> t, origin |-> origin, progress |-> FALSE]
    OBVIOUS
  <2>2. PICK l : l = IF origin = "Block" THEN a.block ELSE NoBlock
    OBVIOUS
  <2>3. d \in Detail /\ d.tx = t
    BY <2>1 DEF Detail
  <2>4. l \in BlockPane /\ (l = a.block \/ l = NoBlock)
    BY <1>1, <2>2 DEF AppType, BlockPane, NoBlock
  <2>5. b = [a EXCEPT !.detail = d, !.block = l, !.focus = "Tx"]
    BY <2>1, <2>2 DEF OpenDetail
  <2> QED
    BY <1>1, <2>3, <2>4, <2>5 DEF AppType
<1>3. OnRow(b)
  <2>1. TxRows(NoBlock) = <<>>
    BY DEF TxRows, NoBlock
  <2> HIDE DEF b
  <2> QED
    BY <1>2, <2>1 DEF OnRow, Good
<1> HIDE DEF b
<1>4. HasPane(b) /\ Cares(b)
  BY <1>1, <1>2 DEF HasPane, OpenFor, Cares, NoDetail
<1> QED
  BY <1>2, <1>3, <1>4 DEF Good, b

\* Opening a hit puts the cursor of the hits on it.
LEMMA OpenHitGood ==
  ASSUME ExplorerAssumption, NEW a, Good(a), NEW i \in DOMAIN a.hits
  PROVE  LET b == [OpenDetail(a, a.hits[i], "Results") EXCEPT !.hit = i]
         IN  Good(b) /\ Cares(b) /\ b.focus = "Tx"
<1>1. a \in AppType /\ a.hits[i] \in Txid /\ i \in Nat \ {0}
  BY Rows DEF Good
<1>2. PICK b : b = OpenDetail(a, a.hits[i], "Results")
  OBVIOUS
<1>3. Good(b) /\ Cares(b) /\ b.focus = "Tx" /\ b.hits = a.hits
  BY <1>1, <1>2, OpenDetailGood
<1>4. PICK c : c = [b EXCEPT !.hit = i]
  OBVIOUS
<1>5. /\ c \in AppType /\ c.focus = b.focus /\ c.detail = b.detail /\ c.awaiting = b.awaiting
      /\ c.ret = b.ret /\ c.block = b.block /\ c.hits = b.hits /\ c.hit = i
  BY <1>1, <1>3, <1>4 DEF Good, AppType
<1>6. Good(c) /\ Cares(c) /\ c.focus = "Tx"
  BY <1>3, <1>5 DEF Good, HasPane, OpenFor, OnRow, Cares
<1> QED
  BY <1>2, <1>4, <1>6

\* A block pane with a row of its block selected, when its pane has the focus or
\* no other is left without.
LEMMA BlockGood ==
  ASSUME ExplorerAssumption, NEW a, Good(a), NEW b \in AppType, b.block.height \in Heights,
         TxRows(b.block) # <<>> => b.block.sel \in DOMAIN TxRows(b.block),
         b.hits = a.hits, b.hit = a.hit, b.detail.tx = a.detail.tx, b.ret = a.ret,
         b.focus \in {a.focus, "Block"}
  PROVE  Good(b)
<1>1. b.block # NoBlock
  BY DEF ExplorerAssumption, NoBlock
<1>2. OnRow(b)
  BY DEF OnRow, Good
<1>3. HasPane(b)
  BY <1>1 DEF HasPane, OpenFor, Good
<1> QED
  BY <1>2, <1>3 DEF Good

\* The pane keeps what is not named by a change of the focus.
LEMMA FocusGood ==
  ASSUME ExplorerAssumption, NEW a, Good(a), NEW b \in AppType, OpenFor(b, b.focus),
         b.focus # "Help", b.block = a.block, b.hits = a.hits, b.hit = a.hit
  PROVE  Good(b)
BY DEF Good, HasPane, OnRow
\* Opening a block selects its first row.
LEMMA ShowBlockGood ==
  ASSUME ExplorerAssumption, Good(app), NEW h \in Heights
  PROVE  /\ Good(ShowBlock(h)) /\ ShowBlock(h).detail = app.detail
         /\ ShowBlock(h).awaiting = app.awaiting
         /\ Good([ShowBlock(h) EXCEPT !.view = "Blocks"])
         /\ [ShowBlock(h) EXCEPT !.view = "Blocks"].detail = app.detail
         /\ [ShowBlock(h) EXCEPT !.view = "Blocks"].awaiting = app.awaiting
<1>1. PICK l : l = [height |-> h, sel |-> 1]
  OBVIOUS
<1>2. l \in BlockPane /\ l.height = h /\ l.sel = 1
  BY <1>1 DEF BlockPane
<1>3. PICK a : a = ShowBlock(h)
  OBVIOUS
<1>4. PICK b : b = [a EXCEPT !.view = "Blocks"]
  OBVIOUS
<1>5. a = [app EXCEPT !.block = l, !.focus = "Block"]
  BY <1>1, <1>3 DEF ShowBlock
<1>6. /\ a \in AppType /\ a.focus = "Block" /\ a.detail = app.detail /\ a.awaiting = app.awaiting
      /\ a.block = l /\ a.hits = app.hits /\ a.hit = app.hit /\ a.ret = app.ret
  BY <1>2, <1>5 DEF Good, AppType
<1>7. /\ b \in AppType /\ b.focus = a.focus /\ b.detail = a.detail /\ b.awaiting = a.awaiting
      /\ b.block = a.block /\ b.hits = a.hits /\ b.hit = a.hit /\ b.ret = a.ret
  BY <1>4, <1>6 DEF AppType
<1>8. TxRows(l) # <<>> => l.sel \in DOMAIN TxRows(l)
  <2>1. TxRows(l) \in Seq(Txid)
    BY <1>2 DEF TxRows, ExplorerAssumption
  <2> QED
    BY <1>2, <2>1, EmptySeq, LenProperties
<1>9. Good(a)
  BY <1>2, <1>6, <1>8, BlockGood
<1>10. Good(b)
  BY <1>7, <1>9 DEF Good, HasPane, OpenFor, OnRow
<1> QED
  BY <1>3, <1>4, <1>6, <1>7, <1>9, <1>10

\* A step in the open block selects one of its rows.
LEMMA StepGood ==
  ASSUME ExplorerAssumption, Good(app),
         NEW i \in Steps(app.block.sel, Len(TxRows(app.block)))
  PROVE  LET a == [app EXCEPT !.block.sel = i]
         IN  Good(a) /\ a.detail = app.detail /\ a.awaiting = app.awaiting /\ a.focus = app.focus
<1>1. PICK n \in Nat : n = Len(TxRows(app.block)) /\ DOMAIN TxRows(app.block) = 1..n
  BY Rows DEF Good
<1>2. app \in AppType /\ app.block \in BlockPane /\ app.block.sel \in Nat \ {0}
  BY DEF Good, AppType, BlockPane
<1>3. i \in 1..n
  BY <1>1, <1>2, StepsStay
<1>4. PICK l : l = [app.block EXCEPT !.sel = i]
  OBVIOUS
<1>5. l \in BlockPane /\ l.height = app.block.height /\ l.sel = i /\ TxRows(l) = TxRows(app.block)
  BY <1>2, <1>3, <1>4 DEF BlockPane, TxRows
<1>6. PICK a : a = [app EXCEPT !.block.sel = i]
  OBVIOUS
<1>7. a = [app EXCEPT !.block = l]
  BY <1>2, <1>4, <1>6 DEF AppType
<1>8. /\ a \in AppType /\ a.focus = app.focus /\ a.detail = app.detail
      /\ a.awaiting = app.awaiting /\ a.block = l /\ a.hits = app.hits /\ a.hit = app.hit
      /\ a.ret = app.ret
  BY <1>2, <1>5, <1>7 DEF AppType
<1>9. l.height \in Heights
  <2>1. TxRows(app.block) # <<>>
    BY <1>1, <1>3
  <2>2. l.height # 0
    BY <1>5, <2>1 DEF TxRows
  <2> QED
    BY <1>5, <2>2 DEF BlockPane
<1>10. Good(a)
  BY <1>1, <1>3, <1>5, <1>8, <1>9, BlockGood
<1> QED
  BY <1>6, <1>8, <1>10

\* Closed panes are panes.
LEMMA Closed == NoDetail \in Detail /\ NoBlock \in BlockPane
BY DEF Detail, BlockPane, NoDetail, NoBlock

-----------------------------------------------------------------------------
(* The keys.                                                               *)

\* What a key leaves: a good App, and requests that the job has no reason to
\* outlive.
KeyKept ==
  /\ Good(app')
  /\ UNCHANGED <<searcher, txJob, jobs, updates>>
  /\ wanted' \in Txid \union {NoTx}
  /\ \E asks \in Seq(Request) :
       /\ reqs' = IF searcher = "gone" THEN reqs ELSE reqs \o asks
       /\ \/ asks = CloseRequest
          \/ Cares(app')
          \/ /\ app'.detail = app.detail /\ app'.awaiting = app.awaiting
             /\ \A k \in 1..Len(asks) : asks[k].type # "Transaction"

\* A key that asks for nothing.
LEMMA QuietKept ==
  ASSUME Shape, NEW a, Quiet(a), Good(a),
         Cares(a) \/ (a.detail = app.detail /\ a.awaiting = app.awaiting)
  PROVE  KeyKept
<1>1. /\ app' = a /\ UNCHANGED <<searcher, txJob, jobs, updates>>
      /\ wanted' \in Txid \union {NoTx}
      /\ reqs' = IF searcher = "gone" THEN reqs ELSE reqs \o <<>>
  BY DEF Quiet, Key, Shape
<1>2. PICK asks \in Seq(Request) : asks = <<>> /\ Len(asks) = 0
  BY EmptySeq
<1>3. \A k \in 1..Len(asks) : asks[k].type # "Transaction"
  BY <1>2
<1>4. Good(app') /\ (Cares(app') \/ (app'.detail = app.detail /\ app'.awaiting = app.awaiting))
  BY <1>1
<1> QED
  BY <1>1, <1>2, <1>3, <1>4 DEF KeyKept

\* A key that asks for something.
LEMMA AskKept ==
  ASSUME Shape, NEW a, NEW asks \in Seq(Request), Key(a, asks), Good(a),
         wanted' \in Txid \union {NoTx},
         \/ asks = CloseRequest
         \/ Cares(a)
         \/ /\ a.detail = app.detail /\ a.awaiting = app.awaiting
            /\ \A k \in 1..Len(asks) : asks[k].type # "Transaction"
  PROVE  KeyKept
<1>1. /\ app' = a /\ UNCHANGED <<searcher, txJob, jobs, updates>>
      /\ reqs' = IF searcher = "gone" THEN reqs ELSE reqs \o asks
  BY DEF Key
<1> QED
  BY <1>1 DEF KeyKept

\* The transaction of the block's row is focused, or asked for.
LEMMA OpenBlockTxKept ==
  ASSUME ExplorerAssumption, Shape, NEW a, OpenBlockTx(a), Good(a), a.focus \in {"Block", "Tx"},
         a.detail = app.detail, a.awaiting = app.awaiting
  PROVE  KeyKept /\ app'.focus \in {"Block", "Tx"}
<1>1. PICK t : t = SelectedTx(a.block)
  OBVIOUS
<1>2. t \in Txid \union {NoTx} /\ a \in AppType
  BY <1>1, Rows DEF Good
<1>3. CASE t = NoTx
  <2>1. Quiet(a)
    BY <1>1, <1>3 DEF OpenBlockTx
  <2> QED
    BY <2>1, QuietKept DEF Quiet, Key
<1>4. CASE t # NoTx /\ a.detail.tx = t
  <2>1. PICK b : b = [a EXCEPT !.focus = "Tx"]
    OBVIOUS
  <2>2. Quiet(b)
    BY <1>1, <1>4, <2>1 DEF OpenBlockTx
  <2>3. b \in AppType /\ b.focus = "Tx" /\ b.block = a.block /\ b.hits = a.hits /\ b.hit = a.hit
        /\ b.detail = a.detail /\ b.awaiting = a.awaiting
    BY <1>2, <2>1 DEF AppType
  <2>4. Good(b)
    BY <1>4, <2>3, FocusGood DEF OpenFor
  <2> QED
    BY <2>2, <2>3, <2>4, QuietKept DEF Quiet, Key
<1>5. CASE t # NoTx /\ a.detail.tx # t
  <2>1. PICK b : b = [a EXCEPT !.awaiting = "Block"]
    OBVIOUS
  <2>2. Key(b, AskTx(t)) /\ wanted' = t
    BY <1>1, <1>5, <2>1 DEF OpenBlockTx
  <2>3. b \in AppType /\ b.focus = a.focus /\ b.block = a.block /\ b.hits = a.hits /\ b.hit = a.hit
        /\ b.detail = a.detail /\ b.ret = a.ret /\ b.awaiting = "Block"
    BY <1>2, <2>1 DEF AppType
  <2>4. Good(b) /\ Cares(b)
    BY <2>3 DEF Good, HasPane, OpenFor, OnRow, Cares
  <2> QED
    BY <1>2, <1>5, <2>2, <2>3, <2>4, AskKept, RequestKinds DEF Key
<1> QED
  BY <1>3, <1>4, <1>5

\* Each key leaves a good App.
LEMMA KeysKeep ==
  ASSUME ExplorerAssumption, Shape, KeyPress
  PROVE  KeyKept
<1>0. Good(app) /\ app \in AppType
  BY DEF Shape, Good
<1>1. CASE OpenHelp
  <2>1. PICK a : a = [app EXCEPT !.ret = app.focus, !.focus = "Help"]
    OBVIOUS
  <2>2. Quiet(a) /\ app.focus \in {"List", "Block", "Tx"}
    BY <1>1, <2>1 DEF OpenHelp
  <2>3. /\ a \in AppType /\ a.focus = "Help" /\ a.ret = app.focus /\ a.detail = app.detail
        /\ a.awaiting = app.awaiting /\ a.block = app.block /\ a.hits = app.hits /\ a.hit = app.hit
    BY <1>0, <2>1, <2>2 DEF AppType
  <2>4. Good(a)
    BY <1>0, <2>2, <2>3 DEF Good, HasPane, OpenFor, OnRow
  <2> QED
    BY <2>2, <2>3, <2>4, QuietKept
<1>2. CASE LeaveHelp
  <2>1. PICK a : a = [app EXCEPT !.focus = app.ret, !.ret = "List"]
    OBVIOUS
  <2>2. Quiet(a) /\ app.focus = "Help"
    BY <1>2, <2>1 DEF LeaveHelp
  <2>3. /\ a \in AppType /\ a.focus = app.ret /\ a.detail = app.detail
        /\ a.awaiting = app.awaiting /\ a.block = app.block /\ a.hits = app.hits /\ a.hit = app.hit
        /\ app.ret \in {"List", "Block", "Tx"}
    BY <1>0, <2>1, <2>2 DEF AppType
  <2>4. Good(a)
    BY <1>0, <2>2, <2>3 DEF Good, HasPane, OpenFor, OnRow
  <2> QED
    BY <2>2, <2>3, <2>4, QuietKept
\* A change of the view, or of the focus to one that needs no pane.
<1>3. ASSUME NEW a, Quiet(a), NEW v \in {"Mempool", "Blocks", "Results"},
             NEW f \in {"List", "Search"}, a = [app EXCEPT !.view = v, !.focus = f]
      PROVE  KeyKept
  <2>1. /\ a \in AppType /\ a.focus = f /\ a.detail = app.detail
        /\ a.awaiting = app.awaiting /\ a.block = app.block /\ a.hits = app.hits /\ a.hit = app.hit
    BY <1>0, <1>3 DEF AppType
  <2>2. Good(a)
    BY <1>0, <1>3, <2>1, FocusGood DEF OpenFor
  <2> QED
    BY <1>3, <2>1, <2>2, QuietKept
<1>4. CASE CycleView
  <2>1. PICK v \in {"Mempool", "Blocks", "Results"} :
          v = IF app.view = "Mempool" THEN "Blocks" ELSE "Mempool"
    OBVIOUS
  <2>2. Quiet([app EXCEPT !.view = v]) /\ app.focus = "List"
    BY <1>4, <2>1 DEF CycleView
  <2>3. [app EXCEPT !.view = v] = [app EXCEPT !.view = v, !.focus = "List"]
    BY <1>0, <2>2 DEF AppType
  <2> QED
    BY <1>3, <2>2, <2>3
<1>5. CASE LeaveResults
  <2>1. Quiet([app EXCEPT !.view = "Blocks"]) /\ app.focus = "List"
    BY <1>5 DEF LeaveResults
  <2>2. [app EXCEPT !.view = "Blocks"] = [app EXCEPT !.view = "Blocks", !.focus = "List"]
    BY <1>0, <2>1 DEF AppType
  <2> QED
    BY <1>3, <2>1, <2>2
<1>6. CASE OpenSearch
  <2>1. Quiet([app EXCEPT !.focus = "Search"]) /\ app.view \in {"Mempool", "Blocks", "Results"}
    BY <1>0, <1>6 DEF OpenSearch, AppType
  <2>2. [app EXCEPT !.focus = "Search"] = [app EXCEPT !.view = app.view, !.focus = "Search"]
    BY <1>0 DEF AppType
  <2> QED
    BY <1>3, <2>1, <2>2
<1>7. CASE OpenSelected
  <2>1. CASE \E t \in Pool : Quiet(OpenDetail(app, t, "Standalone"))
    <3>1. PICK t \in Pool : Quiet(OpenDetail(app, t, "Standalone"))
      BY <2>1
    <3>2. t \in Txid
      BY DEF ExplorerAssumption
    <3> QED
      BY <1>0, <3>1, <3>2, OpenDetailGood, QuietKept
  <2>2. CASE \E i \in DOMAIN app.hits :
               Quiet([OpenDetail(app, app.hits[i], "Results") EXCEPT !.hit = i])
    <3>1. PICK i \in DOMAIN app.hits :
            Quiet([OpenDetail(app, app.hits[i], "Results") EXCEPT !.hit = i])
      BY <2>2
    <3>2. PICK a : a = [OpenDetail(app, app.hits[i], "Results") EXCEPT !.hit = i]
      OBVIOUS
    <3>3. Good(a) /\ Cares(a)
      BY <1>0, <3>2, OpenHitGood
    <3> QED
      BY <3>1, <3>2, <3>3, QuietKept
  <2>3. CASE \E h \in Heights : Quiet(ShowBlock(h))
    <3>1. PICK h \in Heights : Quiet(ShowBlock(h))
      BY <2>3
    <3>2. PICK a : a = ShowBlock(h)
      OBVIOUS
    <3>3. Good(a) /\ a.detail = app.detail /\ a.awaiting = app.awaiting
      BY <3>2, ShowBlockGood, <1>0
    <3> QED
      BY <3>1, <3>2, <3>3, QuietKept
  <2> QED
    BY <1>7, <2>1, <2>2, <2>3 DEF OpenSelected
<1>8. CASE SubmitSearch
  <2>1. PICK a : a = [app EXCEPT !.focus = "List"]
    OBVIOUS
  <2>2. /\ a \in AppType /\ a.focus = "List" /\ a.detail = app.detail
        /\ a.awaiting = app.awaiting /\ a.block = app.block /\ a.hits = app.hits /\ a.hit = app.hit
    BY <1>0, <2>1 DEF AppType
  <2>3. Good(a)
    BY <1>0, <2>2, FocusGood DEF OpenFor
  <2>4. CASE Quiet(a)
    BY <2>2, <2>3, <2>4, QuietKept
  <2>5. CASE \E h \in Heights : Key(a, <<[type |-> "Block", height |-> h]>>) /\ UNCHANGED wanted
    <3>1. PICK h \in Heights : Key(a, ContextRequest(h)) /\ UNCHANGED wanted
      BY <2>5 DEF ContextRequest
    <3>2. PICK asks \in Seq(Request) : asks = ContextRequest(h)
      BY RequestKinds
    <3>3. \A k \in 1..Len(asks) : asks[k].type # "Transaction"
      BY <3>2 DEF ContextRequest
    <3> QED
      BY <2>2, <2>3, <3>1, <3>2, <3>3, AskKept DEF Shape
  <2>6. CASE \E t \in Txid : Key([a EXCEPT !.awaiting = "Standalone"], AskTx(t)) /\ wanted' = t
    <3>1. PICK t \in Txid : Key([a EXCEPT !.awaiting = "Standalone"], AskTx(t)) /\ wanted' = t
      BY <2>6
    <3>2. PICK b : b = [a EXCEPT !.awaiting = "Standalone"]
      OBVIOUS
    <3>3. b \in AppType /\ b.focus = a.focus /\ b.block = a.block /\ b.hits = a.hits
          /\ b.hit = a.hit /\ b.awaiting = "Standalone"
      BY <2>2, <3>2 DEF AppType
    <3>4. Good(b) /\ Cares(b)
      BY <2>2, <2>3, <3>3, FocusGood DEF OpenFor, Cares
    <3> QED
      BY <3>1, <3>2, <3>4, AskKept, RequestKinds
  <2>7. CASE Key(a, <<[type |-> "Taddr"]>>) /\ UNCHANGED wanted
    <3>1. PICK asks \in Seq(Request) : asks = <<[type |-> "Taddr"]>>
      BY RequestKinds
    <3>2. \A k \in 1..Len(asks) : asks[k].type # "Transaction"
      BY <3>1
    <3> QED
      BY <2>2, <2>3, <2>7, <3>1, <3>2, AskKept DEF Shape
  <2> QED
    BY <1>8, <2>1, <2>4, <2>5, <2>6, <2>7 DEF SubmitSearch
<1>9. CASE StepBlockTx
  <2>1. PICK i \in Steps(app.block.sel, Len(TxRows(app.block))) :
          Quiet([app EXCEPT !.block.sel = i])
    BY <1>9 DEF StepBlockTx
  <2>2. PICK a : a = [app EXCEPT !.block.sel = i]
    OBVIOUS
  <2>3. Good(a) /\ a.detail = app.detail /\ a.awaiting = app.awaiting
    BY <1>0, <2>2, StepGood
  <2> QED
    BY <2>1, <2>2, <2>3, QuietKept
<1>10. CASE OpenTxOfBlock
  BY <1>0, <1>10, OpenBlockTxKept DEF OpenTxOfBlock
<1>11. CASE WalkBlockTx
  <2>1. PICK i \in Steps(app.block.sel, Len(TxRows(app.block))) :
          OpenBlockTx([app EXCEPT !.block.sel = i])
    BY <1>11 DEF WalkBlockTx
  <2>2. PICK a : a = [app EXCEPT !.block.sel = i]
    OBVIOUS
  <2>3. Good(a) /\ a.detail = app.detail /\ a.awaiting = app.awaiting /\ a.focus = app.focus
    BY <1>0, <2>2, StepGood
  <2>4. app.focus \in {"Block", "Tx"}
    BY <1>11 DEF WalkBlockTx
  <2> QED
    BY <2>1, <2>2, <2>3, <2>4, OpenBlockTxKept
<1>12. CASE WalkHits
  <2>1. PICK i \in Steps(app.hit, Len(app.hits)) :
          Quiet([OpenDetail(app, app.hits[i], "Results") EXCEPT !.hit = i])
    BY <1>12 DEF WalkHits
  <2>2. app.hit \in Nat \ {0}
    BY <1>0 DEF AppType
  <2>3. i \in DOMAIN app.hits
    BY <1>0, <2>1, <2>2, Rows, StepsStay
  <2>4. PICK a : a = [OpenDetail(app, app.hits[i], "Results") EXCEPT !.hit = i]
    OBVIOUS
  <2>5. Good(a) /\ Cares(a)
    BY <1>0, <2>3, <2>4, OpenHitGood
  <2> QED
    BY <2>1, <2>4, <2>5, QuietKept
\* A pane is closed.
<1>13. ASSUME NEW a \in AppType, a.focus = "List", a.block \in {app.block, NoBlock},
              a.hits = app.hits, a.hit = app.hit, Key(a, CloseRequest), wanted' = NoTx
       PROVE  KeyKept
  <2>1. TxRows(NoBlock) = <<>>
    BY DEF TxRows, NoBlock
  <2>2. Good(a)
    BY <1>0, <1>13, <2>1 DEF Good, HasPane, OpenFor, OnRow
  <2>3. PICK asks \in Seq(Request) : asks = CloseRequest
    BY RequestKinds
  <2> QED
    BY <1>13, <2>2, <2>3, AskKept
<1>14. CASE LeaveBlock
  <2>1. PICK a : a = [app EXCEPT !.block = NoBlock, !.detail = NoDetail, !.awaiting = "Nothing",
                                 !.focus = "List"]
    OBVIOUS
  <2>2. a \in AppType /\ a.focus = "List" /\ a.block = NoBlock /\ a.hits = app.hits
        /\ a.hit = app.hit
    BY <1>0, <2>1, Closed DEF AppType
  <2> QED
    BY <1>13, <1>14, <2>1, <2>2 DEF LeaveBlock
<1>15. CASE LeaveTx
  <2>1. CASE BackToBlock /\ Key([app EXCEPT !.awaiting = "Nothing", !.focus = "Block"], <<>>)
    <3>1. PICK a : a = [app EXCEPT !.awaiting = "Nothing", !.focus = "Block"]
      OBVIOUS
    <3>2. /\ a \in AppType /\ a.focus = "Block" /\ a.detail = app.detail
          /\ a.block = app.block /\ a.hits = app.hits /\ a.hit = app.hit
      BY <1>0, <3>1 DEF AppType
    <3>3. Good(a)
      BY <1>0, <2>1, <3>2, FocusGood DEF OpenFor, BackToBlock
    <3>4. Cares(a)
      BY <1>0, <1>15, <3>2 DEF LeaveTx, Good, HasPane, OpenFor, Cares, NoDetail
    <3>5. PICK asks \in Seq(Request) : asks = <<>>
      BY EmptySeq
    <3>6. wanted' = NoTx
      BY <1>15 DEF LeaveTx
    <3> QED
      BY <2>1, <3>1, <3>3, <3>4, <3>5, <3>6, AskKept
  <2>2. CASE Key([app EXCEPT !.detail = NoDetail, !.awaiting = "Nothing", !.focus = "List"],
                 CloseRequest)
    <3>1. PICK a : a = [app EXCEPT !.detail = NoDetail, !.awaiting = "Nothing", !.focus = "List"]
      OBVIOUS
    <3>2. a \in AppType /\ a.focus = "List" /\ a.block = app.block /\ a.hits = app.hits
          /\ a.hit = app.hit
      BY <1>0, <3>1, Closed DEF AppType
    <3>3. wanted' = NoTx
      BY <1>15 DEF LeaveTx
    <3> QED
      BY <1>13, <2>2, <3>1, <3>2, <3>3
  <2> QED
    BY <1>15, <2>1, <2>2 DEF LeaveTx
<1> QED
  BY <1>1, <1>2, <1>4, <1>5, <1>6, <1>7, <1>8, <1>9, <1>10, <1>11, <1>12, <1>14, <1>15
  DEF KeyPress
-----------------------------------------------------------------------------
(* The answers.                                                            *)

\* What an answer leaves: a good App, what the user sees or waits for, and at
\* most a block asked for.
AnswerKept ==
  /\ Good(app')
  /\ wanted' \in Txid \union {NoTx}
  /\ Cares(app) => Cares(app')
  /\ reqs' = reqs \/ \E h \in Heights : reqs' = reqs \o ContextRequest(h)

\* A transaction that was asked for opens.
LEMMA SearchTxKept ==
  ASSUME ExplorerAssumption, Shape, NEW u \in Update, u.type = "SearchTx", ApplySearchTx(u)
  PROVE  AnswerKept
<1>1. u.tx \in Txid /\ Good(app) /\ app \in AppType
  BY UpdateKinds DEF Shape, Good
<1>2. CASE app.awaiting = "Nothing"
  <2>1. app' = app /\ reqs' = reqs /\ wanted' = NoTx
    BY <1>2 DEF ApplySearchTx
  <2> QED
    BY <1>1, <2>1 DEF AnswerKept
<1>3. CASE app.awaiting # "Nothing"
  <2>1. app.awaiting \in {"Standalone", "Block"}
    BY <1>1, <1>3 DEF AppType
  <2>2. PICK a : a = OpenDetail(app, u.tx, app.awaiting)
    OBVIOUS
  <2>3. Good(a) /\ Cares(a)
    BY <1>1, <2>1, <2>2, OpenDetailGood
  <2>4. a.detail # NoDetail
    BY <1>1, <2>2 DEF OpenDetail, NoDetail, AppType, ExplorerAssumption
  <2>5. PICK b : b = [a EXCEPT !.awaiting = "Nothing"]
    OBVIOUS
  <2>6. /\ b \in AppType /\ b.focus = a.focus /\ b.detail = a.detail /\ b.block = a.block
        /\ b.hits = a.hits /\ b.hit = a.hit /\ b.ret = a.ret
    BY <2>3, <2>5 DEF Good, AppType
  <2>7. Good(b) /\ Cares(b)
    BY <2>3, <2>4, <2>6 DEF Good, HasPane, OpenFor, OnRow, Cares
  <2>8. CASE app.awaiting = "Standalone" /\ MinedAt(u.tx) # 0
    <3>1. PICK h \in Heights : h = MinedAt(u.tx)
      BY <1>1, <2>8, MinedIsHeight
    <3>2. PICK c : c = [b EXCEPT !.pendingCtx = h]
      OBVIOUS
    <3>3. app' = c /\ reqs' = reqs \o ContextRequest(h) /\ wanted' = NoTx
      BY <1>3, <2>2, <2>5, <2>8, <3>1, <3>2 DEF ApplySearchTx
    <3>4. /\ c \in AppType /\ c.focus = b.focus /\ c.detail = b.detail /\ c.block = b.block
          /\ c.hits = b.hits /\ c.hit = b.hit /\ c.ret = b.ret /\ c.awaiting = b.awaiting
      BY <2>6, <3>2 DEF AppType
    <3>5. Good(c) /\ Cares(c)
      BY <2>7, <3>4 DEF Good, HasPane, OpenFor, OnRow, Cares
    <3> QED
      BY <3>3, <3>5 DEF AnswerKept
  <2>9. CASE ~(app.awaiting = "Standalone" /\ MinedAt(u.tx) # 0)
    <3>1. app' = b /\ reqs' = reqs /\ wanted' = NoTx
      BY <1>3, <2>2, <2>5, <2>9 DEF ApplySearchTx
    <3> QED
      BY <2>7, <3>1 DEF AnswerKept
  <2> QED
    BY <2>8, <2>9
<1> QED
  BY <1>2, <1>3

\* The block that a transaction is mined in opens beside it.
LEMMA AttachGood ==
  ASSUME ExplorerAssumption, Good(app), NEW h \in Heights
  PROVE  Good(AttachContext(h)) /\ (Cares(app) => Cares(AttachContext(h)))
<1>0. app \in AppType /\ app.detail \in Detail
  BY DEF Good, AppType
<1>1. PICK p \in 0..Len(BlockTxs[h]) : p = SelectInSeq(BlockTxs[h], LAMBDA t : t = app.detail.tx)
  <2>1. BlockTxs[h] \in Seq(Txid)
    BY DEF ExplorerAssumption
  <2> QED
    BY <2>1, PositionIsRow DEF SelectInSeq
<1>2. PICK l : l = [height |-> h, sel |-> IF p = 0 THEN 1 ELSE p]
  OBVIOUS
<1>3. PICK d : d = [app.detail EXCEPT !.origin = IF app.detail = NoDetail THEN @ ELSE "Block"]
  OBVIOUS
<1>4. BlockTxs[h] \in Seq(Txid) /\ h # 0 /\ h \in Nat
  BY DEF ExplorerAssumption
<1>5. Len(BlockTxs[h]) \in Nat /\ DOMAIN BlockTxs[h] = 1..Len(BlockTxs[h])
      /\ (BlockTxs[h] # <<>> => Len(BlockTxs[h]) # 0)
  BY <1>4, LenProperties, EmptySeq
<1>6. l \in BlockPane /\ l.height = h /\ l.sel = IF p = 0 THEN 1 ELSE p
  BY <1>1, <1>2, <1>5 DEF BlockPane
<1>7. TxRows(l) # <<>> => l.sel \in DOMAIN TxRows(l)
  BY <1>1, <1>4, <1>5, <1>6 DEF TxRows
<1>8. d \in Detail /\ d.tx = app.detail.tx /\ (app.detail # NoDetail => d # NoDetail)
  <2>1. CASE app.detail = NoDetail
    BY <1>0, <1>3, <2>1 DEF Detail
  <2>2. CASE app.detail # NoDetail
    <3>1. d \in Detail /\ d.tx = app.detail.tx /\ d.origin = "Block"
      BY <1>0, <1>3, <2>2 DEF Detail
    <3> QED
      BY <3>1 DEF NoDetail
  <2> QED
    BY <2>1, <2>2
<1>9. PICK a : a = AttachContext(h)
  OBVIOUS
<1>10. a = [app EXCEPT !.pendingCtx = 0, !.view = "Blocks", !.block = l, !.detail = d]
  BY <1>0, <1>1, <1>2, <1>3, <1>9 DEF AttachContext, AppType
<1>11. /\ a \in AppType /\ a.focus = app.focus /\ a.detail = d /\ a.block = l
       /\ a.hits = app.hits /\ a.hit = app.hit /\ a.ret = app.ret /\ a.awaiting = app.awaiting
  BY <1>0, <1>6, <1>8, <1>10 DEF AppType
<1>12. Good(a)
  BY <1>6, <1>7, <1>8, <1>11, BlockGood
<1>13. Cares(app) => Cares(a)
  BY <1>8, <1>11 DEF Cares
<1> QED
  BY <1>9, <1>12, <1>13

\* A report of the job changes at most whether it is shown as going on.
LEMMA ProgressKept ==
  ASSUME ExplorerAssumption, Shape, NEW t \in Txid, NEW on \in BOOLEAN,
         app' = IF app.detail.tx = t THEN [app EXCEPT !.detail.progress = on] ELSE app,
         UNCHANGED <<reqs, wanted>>
  PROVE  AnswerKept
<1>0. Good(app) /\ app \in AppType /\ app.detail \in Detail /\ wanted' \in Txid \union {NoTx}
  BY DEF Shape, Good, AppType
<1>1. CASE app.detail.tx # t
  BY <1>0, <1>1 DEF AnswerKept
<1>2. CASE app.detail.tx = t
  <2>1. PICK d : d = [app.detail EXCEPT !.progress = on]
    OBVIOUS
  <2>2. d \in Detail /\ d.tx = t /\ t # NoTx
    BY <1>0, <1>2, <2>1 DEF Detail, ExplorerAssumption
  <2>3. PICK a : a = [app EXCEPT !.detail.progress = on]
    OBVIOUS
  <2>4. a = [app EXCEPT !.detail = d]
    BY <1>0, <2>1, <2>3 DEF AppType
  <2>5. /\ a \in AppType /\ a.focus = app.focus /\ a.detail = d /\ a.block = app.block
        /\ a.hits = app.hits /\ a.hit = app.hit /\ a.ret = app.ret
    BY <1>0, <2>2, <2>4 DEF AppType
  <2>6. Good(a) /\ Cares(a)
    BY <1>0, <1>2, <2>2, <2>5 DEF Good, HasPane, OpenFor, OnRow, Cares, NoDetail
  <2> QED
    BY <1>0, <1>2, <2>3, <2>6 DEF AnswerKept
<1> QED
  BY <1>1, <1>2

\* Each answer leaves a good App.
LEMMA AnswersKeep ==
  ASSUME ExplorerAssumption, Shape, ApplyAnswer
  PROVE  AnswerKept
<1>1. PICK u \in Update : u = Head(updates)
  BY HeadTailProperties DEF ApplyAnswer, Shape
<1>2. Good(app) /\ app \in AppType /\ wanted \in Txid \union {NoTx}
  BY DEF Shape, Good
<1>3. CASE u.type = "SearchTx"
  BY <1>1, <1>3, SearchTxKept DEF ApplyAnswer
<1>4. CASE u.type = "SearchBlock"
  <2>1. ApplySearchBlock(u) /\ UNCHANGED <<reqs, wanted>> /\ u.height \in Heights
    BY <1>1, <1>4, UpdateKinds DEF ApplyAnswer
  <2>2. CASE app.pendingCtx = u.height
    <3>1. PICK a : a = AttachContext(u.height)
      OBVIOUS
    <3>2. app' = a /\ Good(a) /\ (Cares(app) => Cares(a))
      BY <1>2, <2>1, <2>2, <3>1, AttachGood DEF ApplySearchBlock
    <3> QED
      BY <1>2, <2>1, <3>2 DEF AnswerKept
  <2>3. CASE app.pendingCtx # u.height
    <3>1. PICK a : a = [ShowBlock(u.height) EXCEPT !.view = "Blocks"]
      OBVIOUS
    <3>2. app' = a /\ Good(a) /\ a.detail = app.detail /\ a.awaiting = app.awaiting
      BY <1>2, <2>1, <2>3, <3>1, ShowBlockGood DEF ApplySearchBlock
    <3> QED
      BY <1>2, <2>1, <3>2 DEF AnswerKept, Cares
  <2> QED
    BY <2>2, <2>3
<1>5. CASE u.type = "SearchTaddr"
  <2>1. PICK a : a = [app EXCEPT !.hits = u.hits, !.hit = FirstHit, !.view = "Results",
                                 !.focus = "List"]
    OBVIOUS
  <2>2. app' = a /\ UNCHANGED <<reqs, wanted>> /\ u.hits \in HitLists
    BY <1>1, <1>5, <2>1, UpdateKinds DEF ApplyAnswer
  <2>3. /\ a \in AppType /\ a.focus = "List" /\ a.detail = app.detail /\ a.block = app.block
        /\ a.awaiting = app.awaiting /\ a.hits = u.hits /\ a.hit = 1
    <3>1. PICK hs \in HitLists \union {<<>>} : hs = u.hits
      BY <2>2
    <3>2. PICK one \in Nat \ {0} : one = 1
      OBVIOUS
    <3>3. a = [app EXCEPT !.hits = hs, !.hit = one, !.view = "Results", !.focus = "List"]
      BY <2>1, <3>1, <3>2 DEF FirstHit
    <3>4. /\ a \in AppType /\ a.focus = "List" /\ a.detail = app.detail /\ a.block = app.block
          /\ a.awaiting = app.awaiting /\ a.hits = hs /\ a.hit = one
      BY <1>2, <3>3 DEF AppType
    <3> QED
      BY <3>1, <3>2, <3>4
  <2>4. u.hits # <<>> => 1 \in DOMAIN u.hits
    BY <2>2, EmptySeq, LenProperties DEF ExplorerAssumption
  <2>5. Good(a)
    BY <1>2, <2>3, <2>4 DEF Good, HasPane, OpenFor, OnRow
  <2> QED
    BY <1>2, <2>2, <2>3, <2>5 DEF AnswerKept, Cares
<1>6. CASE u.type = "SearchError"
  <2>1. PICK a : a = [app EXCEPT !.pendingCtx = 0]
    OBVIOUS
  <2>2. app' = a /\ UNCHANGED <<reqs, wanted>>
    BY <1>1, <1>6, <2>1 DEF ApplyAnswer
  <2>3. /\ a \in AppType /\ a.focus = app.focus /\ a.detail = app.detail /\ a.block = app.block
        /\ a.awaiting = app.awaiting /\ a.hits = app.hits /\ a.hit = app.hit /\ a.ret = app.ret
    BY <1>2, <2>1 DEF AppType
  <2>4. Good(a)
    BY <1>2, <2>3 DEF Good, HasPane, OpenFor, OnRow
  <2> QED
    BY <1>2, <2>2, <2>3, <2>4 DEF AnswerKept, Cares
<1>7. CASE u.type = "ResolveProgress"
  <2>1. u.tx \in Txid /\ u.on \in BOOLEAN /\ UNCHANGED <<reqs, wanted>>
        /\ app' = IF app.detail.tx = u.tx THEN [app EXCEPT !.detail.progress = u.on] ELSE app
    BY <1>1, <1>7, UpdateKinds DEF ApplyAnswer
  <2> QED
    BY <2>1, ProgressKept
<1>8. CASE u.type = "DetailResolved"
  <2>1. u.tx \in Txid /\ UNCHANGED <<reqs, wanted>>
        /\ app' = IF app.detail.tx = u.tx THEN [app EXCEPT !.detail.progress = FALSE] ELSE app
    BY <1>1, <1>8, UpdateKinds DEF ApplyAnswer
  <2> QED
    BY <2>1, ProgressKept
<1> QED
  BY <1>3, <1>4, <1>5, <1>6, <1>7, <1>8, UpdateKinds
-----------------------------------------------------------------------------
(* The search task.                                                        *)

\* What is answered comes after what was.
LEMMA Answered ==
  ASSUME updates \in Seq(Update), NEW us \in Seq(Update), Answer(us)
  PROVE  updates' \in Seq(Update)
BY ConcatProperties DEF Answer

\* Two answers in a row.
LEMMA TwoAnswers ==
  ASSUME NEW us \in Seq(Update), NEW ws \in Seq(Update)
  PROVE  us \o ws \in Seq(Update)
BY ConcatProperties

\* A job is removed from where it is.
LEMMA RemoveJob ==
  ASSUME NEW s \in Seq(Job), NEW i \in DOMAIN s
  PROVE  RemoveAt(s, i) \in Seq(Job)
<1>1. /\ Len(s) \in Nat /\ i \in 1..Len(s) /\ i \in Nat
      /\ \A k \in 1..Len(s) : s[k] \in Job
  BY LenProperties, ElementOfSeq
<1>2. SubSeq(s, 1, i - 1) \in Seq(Job)
  <2>1. \A k \in 1..(i - 1) : s[k] \in Job
    BY <1>1
  <2> QED
    BY <1>1, <2>1, SubSeqProperties
<1>3. SubSeq(s, i + 1, Len(s)) \in Seq(Job)
  <2>1. \A k \in (i + 1)..Len(s) : s[k] \in Job
    BY <1>1
  <2> QED
    BY <1>1, <2>1, SubSeqProperties
<1> QED
  BY <1>2, <1>3, ConcatProperties DEF RemoveAt

\* What the search task keeps: the App is not its to change.
LEMMA SearchKeepsShape ==
  ASSUME ExplorerAssumption, Shape, Search
  PROVE  Shape'
<1> DEFINE Stages == {"none", "fetch", "resolve", "fee"}
<1>0. /\ Good(app) /\ reqs \in Seq(Request) /\ jobs \in Seq(Job) /\ updates \in Seq(Update)
      /\ wanted \in Txid \union {NoTx}
      /\ searcher \in {"connecting", "serving", "gone"}
      /\ txJob \in [tx : Txid \union {NoTx}, stage : Stages, left : Nat]
      /\ txJob.stage # "none" => txJob.tx \in Txid
  BY DEF Shape
<1>1. NoJob \in [tx : Txid \union {NoTx}, stage : Stages, left : Nat] /\ NoJob.stage = "none"
  BY DEF NoJob
<1>2. CASE ConnectSearch
  <2>1. reqs' \in Seq(Request) /\ searcher' \in {"connecting", "serving", "gone"}
    BY <1>0, <1>2, EmptySeq DEF ConnectSearch
  <2>2. updates' \in Seq(Update)
    BY <1>0, <1>2, Answered, UpdateKinds DEF ConnectSearch
  <2> QED
    BY <1>0, <1>2, <2>1, <2>2 DEF ConnectSearch, Shape
<1>3. CASE Receive
  <2>1. PICK r \in Request : r = Head(reqs)
    BY <1>0, <1>3, HeadTailProperties DEF Receive
  <2>2. reqs' \in Seq(Request)
    BY <1>0, <1>3, HeadTailProperties DEF Receive
  <2>3. CASE r.type = "Transaction"
    <3>1. r.tx \in Txid /\ Inputs[r.tx] \in Nat
      BY <2>3, RequestKinds DEF ExplorerAssumption
    <3>2. txJob' = [tx |-> r.tx, stage |-> "fetch", left |-> Inputs[r.tx]] /\ jobs' = jobs
      BY <1>3, <2>1, <2>3 DEF Receive
    <3>3. txJob' \in [tx : Txid \union {NoTx}, stage : Stages, left : Nat] /\ txJob'.tx \in Txid
      BY <3>1, <3>2
    <3> QED
      BY <1>0, <1>3, <2>2, <3>2, <3>3 DEF Receive, Shape
  <2>4. CASE r.type = "CloseTx"
    <3>1. txJob' = NoJob /\ jobs' = jobs
      BY <1>3, <2>1, <2>4 DEF Receive
    <3> QED
      BY <1>0, <1>1, <1>3, <2>2, <3>1 DEF Receive, Shape
  <2>5. CASE r.type \in {"Taddr", "Block"}
    <3>1. jobs' = Append(jobs, r) /\ txJob' = txJob /\ r \in Job
      BY <1>3, <2>1, <2>5, RequestKinds DEF Receive
    <3>2. jobs' \in Seq(Job)
      BY <1>0, <3>1, AppendProperties
    <3> QED
      BY <1>0, <1>3, <2>2, <3>1, <3>2 DEF Receive, Shape
  <2> QED
    BY <2>3, <2>4, <2>5, RequestKinds
<1>4. CASE FetchTx
  <2>1. txJob.tx \in Txid
    BY <1>0, <1>4 DEF FetchTx
  <2>2. PICK found \in Seq(Update) : found = <<[type |-> "SearchTx", tx |-> txJob.tx]>>
    BY <2>1, UpdateKinds
  <2>3. PICK more \in Seq(Update) : more = Progress(txJob.tx, TRUE)
    BY <2>1, UpdateKinds
  <2>4. found \o more \in Seq(Update)
    BY TwoAnswers
  <2>5. \/ Answer(SearchError) /\ txJob' = NoJob
        \/ Answer(found) /\ txJob' = NoJob
        \/ Answer(found \o more) /\ txJob' = [txJob EXCEPT !.stage = "resolve"]
    BY <1>4, <2>2, <2>3 DEF FetchTx
  <2>6. updates' \in Seq(Update)
    BY <1>0, <2>4, <2>5, Answered, UpdateKinds
  <2>7. /\ txJob' \in [tx : Txid \union {NoTx}, stage : Stages, left : Nat]
        /\ txJob'.stage # "none" => txJob'.tx \in Txid
    BY <1>0, <1>1, <2>1, <2>5
  <2> QED
    BY <1>0, <1>4, <2>6, <2>7 DEF FetchTx, Shape
<1>5. CASE ReadFunder
  <2>1. txJob.tx \in Txid
    BY <1>0, <1>5 DEF ReadFunder
  <2>2. PICK more \in Seq(Update) : more = Progress(txJob.tx, TRUE)
    BY <2>1, UpdateKinds
  <2>3. PICK done \in Seq(Update) : done = Progress(txJob.tx, FALSE)
    BY <2>1, UpdateKinds
  <2>4. PICK all \in Seq(Update) : all = done \o Resolved(txJob.tx)
    BY <2>1, UpdateKinds, TwoAnswers
  <2>5. \/ txJob.left > 1 /\ Answer(more) /\ txJob' = [txJob EXCEPT !.left = @ - 1]
        \/ Answer(all) /\ txJob' = NoJob
        \/ Answer(done) /\ txJob' = [txJob EXCEPT !.stage = "fee"]
    BY <1>5, <2>2, <2>3, <2>4 DEF ReadFunder
  <2>6. updates' \in Seq(Update)
    BY <1>0, <2>5, Answered
  <2>7. /\ txJob' \in [tx : Txid \union {NoTx}, stage : Stages, left : Nat]
        /\ txJob'.stage # "none" => txJob'.tx \in Txid
    <3>1. CASE txJob.left > 1 /\ txJob' = [txJob EXCEPT !.left = @ - 1]
      <4>1. PICK n \in Nat : n = txJob.left - 1
        BY <1>0, <3>1
      <4>2. txJob' = [txJob EXCEPT !.left = n]
        BY <1>0, <3>1, <4>1
      <4> QED
        BY <1>0, <2>1, <4>2
    <3>2. CASE txJob' = NoJob
      BY <1>1, <3>2
    <3>3. CASE txJob' = [txJob EXCEPT !.stage = "fee"]
      BY <1>0, <2>1, <3>3
    <3> QED
      BY <2>5, <3>1, <3>2, <3>3
  <2> QED
    BY <1>0, <1>5, <2>6, <2>7 DEF ReadFunder, Shape
<1>6. CASE MinedFee
  <2>1. txJob.tx \in Txid /\ Answer(Resolved(txJob.tx)) /\ txJob' = NoJob
    BY <1>0, <1>6 DEF MinedFee
  <2>2. PICK us \in Seq(Update) : us = Resolved(txJob.tx)
    BY <2>1, UpdateKinds
  <2>3. updates' \in Seq(Update)
    BY <1>0, <2>1, <2>2, Answered
  <2> QED
    BY <1>0, <1>1, <1>6, <2>1, <2>3 DEF MinedFee, Shape
<1>7. ASSUME NEW i \in DOMAIN jobs, ServeJob(i) PROVE Shape'
  <2>1. jobs' \in Seq(Job)
    BY <1>0, <1>7, RemoveJob DEF ServeJob
  <2>2. jobs[i] \in Job
    BY <1>0, LenProperties, ElementOfSeq
  <2>3. jobs[i].type = "Block" => jobs[i].height \in Heights
    BY <2>2 DEF Job
  <2>4. \E us \in Seq(Update) : Answer(us)
    BY <1>7, <2>3, UpdateKinds DEF ServeJob
  <2>5. updates' \in Seq(Update)
    BY <1>0, <2>4, Answered
  <2> QED
    BY <1>0, <1>7, <2>1, <2>5 DEF ServeJob, Shape
<1> QED
  BY <1>2, <1>3, <1>4, <1>5, <1>6, <1>7 DEF Search

\* Requests come after those that were.
LEMMA Requested ==
  ASSUME NEW s \in Seq(Request), NEW asks \in Seq(Request)
  PROVE  /\ s \o asks \in Seq(Request)
         /\ Len(s) \in Nat /\ Len(asks) \in Nat /\ Len(s \o asks) = Len(s) + Len(asks)
         /\ \A k \in 1..Len(s) : (s \o asks)[k] = s[k]
         /\ \A k \in 1..Len(asks) : (s \o asks)[Len(s) + k] = asks[k]
         /\ \A k \in (Len(s) + 1)..Len(s \o asks) : \E i \in 1..Len(asks) :
              k = Len(s) + i /\ (s \o asks)[k] = asks[i]
<1>1. /\ Len(s) \in Nat /\ Len(asks) \in Nat
      /\ s \o asks \in Seq(Request) /\ Len(s \o asks) = Len(s) + Len(asks)
      /\ \A k \in 1..(Len(s) + Len(asks)) :
           (s \o asks)[k] = IF k <= Len(s) THEN s[k] ELSE asks[k - Len(s)]
  BY ConcatProperties, LenProperties
<1>2. \A k \in 1..Len(s) : (s \o asks)[k] = s[k]
  BY <1>1
<1>3. ASSUME NEW k \in 1..Len(asks) PROVE (s \o asks)[Len(s) + k] = asks[k]
  <2>1. Len(s) + k \in 1..(Len(s) + Len(asks)) /\ ~(Len(s) + k <= Len(s))
        /\ (Len(s) + k) - Len(s) = k
    BY <1>1
  <2> QED
    BY <1>1, <2>1
<1>4. ASSUME NEW k \in (Len(s) + 1)..Len(s \o asks)
      PROVE  \E i \in 1..Len(asks) : k = Len(s) + i /\ (s \o asks)[k] = asks[i]
  <2>1. k - Len(s) \in 1..Len(asks) /\ k = Len(s) + (k - Len(s))
    BY <1>1
  <2> QED
    BY <1>3, <2>1
<1> QED
  BY <1>1, <1>2, <1>3, <1>4

\* Every step keeps the shape.
LEMMA ShapeKept ==
  ASSUME ExplorerAssumption, Shape, [Next]_vars
  PROVE  Shape'
<1>1. CASE UNCHANGED vars
  BY <1>1 DEF Shape, vars
<1>2. CASE KeyPress
  <2>1. KeyKept
    BY <1>2, KeysKeep
  <2>2. reqs' \in Seq(Request)
    BY <2>1, Requested DEF KeyKept, Shape
  <2> QED
    BY <2>1, <2>2 DEF KeyKept, Shape
<1>3. CASE Search
  BY <1>3, SearchKeepsShape
<1>4. CASE ApplyAnswer
  <2>1. AnswerKept
    BY <1>4, AnswersKeep
  <2>2. reqs' \in Seq(Request)
    <3>1. reqs' = reqs \/ \E asks \in Seq(Request) : reqs' = reqs \o asks
      BY <2>1, RequestKinds DEF AnswerKept
    <3>2. reqs \in Seq(Request)
      BY DEF Shape
    <3>3. CASE \E asks \in Seq(Request) : reqs' = reqs \o asks
      <4>1. PICK asks \in Seq(Request) : reqs' = reqs \o asks
        BY <3>3
      <4> QED
        BY <3>2, <4>1, Requested
    <3> QED
      BY <3>1, <3>2, <3>3
  <2>3. updates' \in Seq(Update) /\ UNCHANGED <<searcher, txJob, jobs>>
    BY <1>4, HeadTailProperties DEF ApplyAnswer, Shape
  <2> QED
    BY <2>1, <2>2, <2>3 DEF AnswerKept, Shape
<1> QED
  BY <1>1, <1>2, <1>3, <1>4 DEF Next
\* Initially nothing is open and nothing is on its way.
LEMMA ShapeAtStart ==
  ASSUME ExplorerAssumption, Init
  PROVE  Shape /\ JobNeedsSearcher /\ JobWanted
<1>1. /\ app.view = "Blocks" /\ app.focus = "List" /\ app.ret = "List" /\ app.detail = NoDetail
      /\ app.awaiting = "Nothing" /\ app.block = NoBlock /\ app.hits = <<>>
  BY DEF Init
<1>2. app \in AppType
  <2>1. PICK d \in Detail : d = NoDetail
    BY Closed
  <2>2. PICK l \in BlockPane : l = NoBlock
    BY Closed
  <2>3. app = [view |-> "Blocks", focus |-> "List", ret |-> "List",
               detail |-> d, awaiting |-> "Nothing", pendingCtx |-> 0,
               block |-> l, hits |-> <<>>, hit |-> 1]
    BY <2>1, <2>2 DEF Init
  <2> QED
    BY <2>3 DEF AppType
<1>3. Good(app)
  BY <1>1, <1>2 DEF Good, HasPane, OpenFor, OnRow, TxRows, NoBlock
<1>4. /\ txJob = NoJob /\ txJob.stage = "none"
      /\ txJob \in [tx : Txid \union {NoTx}, stage : {"none", "fetch", "resolve", "fee"},
                    left : Nat]
  BY DEF Init, NoJob
<1>5. /\ reqs \in Seq(Request) /\ jobs \in Seq(Job) /\ updates \in Seq(Update)
      /\ Len(reqs) = 0 /\ searcher = "connecting" /\ wanted = NoTx
  BY EmptySeq DEF Init
<1>6. Shape
  BY <1>3, <1>4, <1>5 DEF Shape
<1>7. JobNeedsSearcher /\ JobWanted
  BY <1>4, <1>5 DEF JobNeedsSearcher, JobWanted, NoTransactionAfter
<1> QED
  BY <1>6, <1>7

\* The App is good in every state, and what is on its way has its shape.
LEMMA ShapeInvariant == Spec => []Shape
<1>1. Init => Shape
  BY ShapeAtStart, ExplorerAssumption
<1>2. Shape /\ [Next]_vars => Shape'
  BY ShapeKept, ExplorerAssumption
<1> QED
  BY <1>1, <1>2, PTL DEF Spec

\* The panes, the cursors, the jobs and the channels keep their type
\* (ExplorerTypeOK) under any interleaving of keys, requests and answers.
THEOREM ExplorerTypeCorrect == Spec => []ExplorerTypeOK
<1>1. Shape => ExplorerTypeOK
  <2> SUFFICES ASSUME Shape PROVE ExplorerTypeOK
    OBVIOUS
  <2>1. app \in AppType /\ app.block \in BlockPane
    BY DEF Shape, Good, AppType
  <2>2. \A i \in DOMAIN reqs : reqs[i].type \in {"Transaction", "CloseTx", "Block", "Taddr"}
    <3>1. \A i \in DOMAIN reqs : reqs[i] \in Request
      BY LenProperties, ElementOfSeq DEF Shape
    <3> QED
      BY <3>1, RequestKinds
  <2>3. \A i \in DOMAIN jobs : jobs[i].type \in {"Block", "Taddr"}
    <3>1. \A i \in DOMAIN jobs : jobs[i] \in Job
      BY LenProperties, ElementOfSeq DEF Shape
    <3> QED
      BY <3>1 DEF Job
  <2>4. /\ app.view \in {"Mempool", "Blocks", "Results"}
        /\ app.focus \in {"List", "Block", "Tx", "Search", "Help"}
        /\ app.ret \in {"List", "Block", "Tx"} /\ app.detail \in Detail
        /\ app.awaiting \in {"Nothing", "Standalone", "Block"}
        /\ app.pendingCtx \in Heights \union {0} /\ app.block.height \in Heights \union {0}
        /\ app.block.sel \in Nat \ {0} /\ app.hits \in HitLists \union {<<>>}
        /\ app.hit \in Nat \ {0}
    BY <2>1 DEF AppType, BlockPane
  <2>5. /\ txJob.tx \in Txid \union {NoTx} /\ txJob.left \in Nat
        /\ txJob.stage \in {"none", "fetch", "resolve", "fee"}
        /\ searcher \in {"connecting", "serving", "gone"} /\ wanted \in Txid \union {NoTx}
    BY DEF Shape
  <2> QED
    BY <2>2, <2>3, <2>4, <2>5 DEF ExplorerTypeOK, Detail
<1> QED
  BY <1>1, ShapeInvariant, PTL

\* The focused pane is open (FocusHasPane): no answer and no way through the
\* overlays leaves the keys with a pane that has nothing in it.
THEOREM FocusAlwaysHasPane == Spec => []FocusHasPane
<1>1. Shape => FocusHasPane
  BY DEF Shape, Good, HasPane, OpenFor, FocusHasPane
<1> QED
  BY <1>1, ShapeInvariant, PTL

\* A cursor names a row of its list (CursorOnRow), also right after an answer
\* has put other rows under it.
THEOREM CursorAlwaysOnRow == Spec => []CursorOnRow
<1>1. Shape => CursorOnRow
  BY DEF Shape, Good, OnRow, CursorOnRow
<1> QED
  BY <1>1, ShapeInvariant, PTL

-----------------------------------------------------------------------------
(* The job of a closed pane.                                               *)

\* More requests, none a Transaction: the last CloseTx or Transaction is the one
\* it was.
LEMMA NoneAfterAppend ==
  ASSUME NEW s \in Seq(Request), NEW asks \in Seq(Request), NEW k \in Nat, k <= Len(s),
         NoTransactionAfter(s, k), \A j \in 1..Len(asks) : asks[j].type # "Transaction"
  PROVE  NoTransactionAfter(s \o asks, k)
<1> SUFFICES ASSUME NEW j \in (k + 1)..Len(s \o asks)
             PROVE  (s \o asks)[j].type # "Transaction"
  BY DEF NoTransactionAfter
<1>1. CASE j \in 1..Len(s)
  <2>1. (s \o asks)[j] = s[j] /\ j \in (k + 1)..Len(s)
    BY <1>1, Requested
  <2> QED
    BY <2>1 DEF NoTransactionAfter
<1>2. CASE j \in (Len(s) + 1)..Len(s \o asks)
  <2>1. PICK i \in 1..Len(asks) : (s \o asks)[j] = asks[i]
    BY <1>2, Requested
  <2> QED
    BY <2>1
<1>3. Len(s) \in Nat /\ Len(s \o asks) \in Nat
  BY Requested
<1> QED
  BY <1>1, <1>2, <1>3

\* Requests that start no job leave JobWanted to what it was.
LEMMA WantedAfterAsking ==
  ASSUME Shape, JobWanted, ~Cares(app), txJob' = txJob, NEW asks \in Seq(Request),
         \A j \in 1..Len(asks) : asks[j].type # "Transaction", reqs' = reqs \o asks
  PROVE  JobWanted'
<1>1. reqs \in Seq(Request) /\ Len(reqs) \in Nat
  BY LenProperties DEF Shape
<1>2. CASE \E k \in 1..Len(reqs) : reqs[k].type = "CloseTx" /\ NoTransactionAfter(reqs, k)
  <2>1. PICK k \in 1..Len(reqs) : reqs[k].type = "CloseTx" /\ NoTransactionAfter(reqs, k)
    BY <1>2
  <2>2. PICK rs : rs = reqs'
    OBVIOUS
  <2>3. NoTransactionAfter(rs, k)
    <3>1. k \in Nat /\ k <= Len(reqs)
      BY <1>1
    <3>2. NoTransactionAfter(reqs \o asks, k)
      BY <1>1, <2>1, <3>1, NoneAfterAppend
    <3> QED
      BY <2>2, <3>2
  <2>4. k \in 1..Len(rs) /\ rs[k].type = "CloseTx"
    BY <1>1, <2>1, <2>2, Requested
  <2>5. NoTransactionAfter(reqs', k)
    BY <2>2, <2>3
  <2> QED
    BY <2>2, <2>4, <2>5 DEF JobWanted, NoTransactionAfter
<1>3. CASE txJob = NoJob /\ NoTransactionAfter(reqs, 0)
  <2>1. NoTransactionAfter(reqs \o asks, 0)
    BY <1>1, <1>3, NoneAfterAppend
  <2> QED
    BY <1>3, <2>1 DEF JobWanted, NoTransactionAfter
<1> QED
  BY <1>2, <1>3 DEF JobWanted

\* A context request asks for a block.
LEMMA ContextIsNoTransaction ==
  ASSUME NEW h \in Heights
  PROVE  /\ ContextRequest(h) \in Seq(Request)
         /\ \A k \in 1..Len(ContextRequest(h)) : ContextRequest(h)[k].type # "Transaction"
BY RequestKinds DEF ContextRequest

\* The searcher keeps its word.
LEMMA JobNeedsSearcherKept ==
  ASSUME ExplorerAssumption, Shape, JobNeedsSearcher, [Next]_vars
  PROVE  JobNeedsSearcher'
<1>1. CASE UNCHANGED vars
  BY <1>1 DEF JobNeedsSearcher, vars
<1>2. CASE KeyPress
  <2>1. /\ UNCHANGED <<searcher, txJob>>
        /\ searcher = "gone" => reqs' = reqs
    BY <1>2, KeysKeep DEF KeyKept
  <2> QED
    BY <2>1 DEF JobNeedsSearcher
<1>3. CASE ConnectSearch
  <2>1. txJob' = NoJob
    BY <1>3 DEF ConnectSearch, JobNeedsSearcher
  <2>2. searcher' = "gone" => Len(reqs') = 0
    BY <1>3, EmptySeq DEF ConnectSearch
  <2> QED
    BY <2>1, <2>2 DEF JobNeedsSearcher
<1>4. CASE Receive
  BY <1>4 DEF Receive, JobNeedsSearcher
<1>5. CASE FetchTx \/ ReadFunder \/ MinedFee
  <2>1. txJob.stage # "none" /\ UNCHANGED <<searcher, reqs>>
    BY <1>5 DEF FetchTx, ReadFunder, MinedFee
  <2>2. txJob # NoJob
    BY <2>1 DEF NoJob
  <2> QED
    BY <2>1, <2>2 DEF JobNeedsSearcher, Shape
<1>6. CASE \E i \in DOMAIN jobs : ServeJob(i)
  BY <1>6 DEF ServeJob, JobNeedsSearcher
<1>7. CASE ApplyAnswer
  <2>1. UNCHANGED <<searcher, txJob>>
    BY <1>7 DEF ApplyAnswer
  <2>2. CASE reqs' = reqs
    BY <2>1, <2>2 DEF JobNeedsSearcher
  <2>3. CASE \E h \in Heights : reqs' = reqs \o ContextRequest(h)
    <3>1. PICK asks \in Seq(Request) : reqs' = reqs \o asks
            /\ \A k \in 1..Len(asks) : asks[k].type # "Transaction"
      BY <2>3, ContextIsNoTransaction
    <3>2. ASSUME searcher = "gone" PROVE NoTransactionAfter(reqs \o asks, 0)
      BY <3>1, <3>2, NoneAfterAppend, LenProperties DEF JobNeedsSearcher, Shape, NoTransactionAfter
    <3> QED
      BY <2>1, <3>1, <3>2 DEF JobNeedsSearcher, NoTransactionAfter
  <2> QED
    BY <1>7, <2>2, <2>3, AnswersKeep DEF AnswerKept
<1> QED
  BY <1>1, <1>2, <1>3, <1>4, <1>5, <1>6, <1>7 DEF Next, Search
\* The request that is received was the first.
LEMMA Received ==
  ASSUME reqs \in Seq(Request), reqs # <<>>, reqs' = Tail(reqs)
  PROVE  /\ Len(reqs) \in Nat \ {0} /\ Len(reqs') = Len(reqs) - 1
         /\ Head(reqs) = reqs[1] /\ Head(reqs) \in Request
         /\ \A j \in 1..Len(reqs') : reqs'[j] = reqs[j + 1]
         /\ \A j \in 2..Len(reqs) : reqs'[j - 1] = reqs[j]
<1>1. /\ Len(reqs) \in Nat \ {0} /\ Len(reqs') = Len(reqs) - 1
      /\ Head(reqs) \in Request
      /\ \A j \in 1..Len(reqs') : reqs'[j] = reqs[j + 1]
  BY HeadTailProperties, EmptySeq
<1>2. ASSUME NEW j \in 2..Len(reqs) PROVE reqs'[j - 1] = reqs[j]
  <2>1. PICK i \in 1..Len(reqs') : i = j - 1 /\ i + 1 = j
    BY <1>1
  <2> QED
    BY <1>1, <2>1
<1> QED
  BY <1>1, <1>2

\* Every step keeps the job wanted, or a CloseTx on its way to it.
LEMMA JobWantedKept ==
  ASSUME ExplorerAssumption, Shape, JobNeedsSearcher, JobWanted, [Next]_vars
  PROVE  JobWanted'
<1>0. reqs \in Seq(Request) /\ Len(reqs) \in Nat
  BY LenProperties DEF Shape
\* The App, its requests and the job are as they were.
<1>1. ASSUME app' = app, reqs' = reqs, txJob = NoJob => txJob' = NoJob PROVE JobWanted'
  BY <1>1 DEF JobWanted, NoTransactionAfter
<1>2. CASE UNCHANGED vars
  BY <1>1, <1>2 DEF vars
<1>3. CASE KeyPress
  <2>1. KeyKept
    BY <1>3, KeysKeep
  <2>2. txJob' = txJob
    BY <2>1 DEF KeyKept
  <2>3. PICK asks \in Seq(Request) :
          /\ reqs' = IF searcher = "gone" THEN reqs ELSE reqs \o asks
          /\ \/ asks = CloseRequest
             \/ Cares(app')
             \/ /\ app'.detail = app.detail /\ app'.awaiting = app.awaiting
                /\ \A k \in 1..Len(asks) : asks[k].type # "Transaction"
    BY <2>1 DEF KeyKept
  <2>4. CASE Cares(app')
    BY <2>4 DEF JobWanted, Cares
  <2>5. CASE searcher = "gone"
    <3>1. reqs' = reqs /\ txJob' = NoJob /\ NoTransactionAfter(reqs, 0)
      BY <2>2, <2>3, <2>5, <1>0 DEF JobNeedsSearcher, NoTransactionAfter
    <3> QED
      BY <3>1 DEF JobWanted, NoTransactionAfter
  <2>6. CASE searcher # "gone" /\ asks = CloseRequest
    <3>1. PICK k \in Nat : k = Len(reqs) + 1
      BY <1>0
    <3>2. PICK rs \in Seq(Request) : rs = reqs' /\ rs = reqs \o asks
      BY <1>0, <2>3, <2>6, Requested
    <3>3. Len(asks) = 1 /\ asks[1].type = "CloseTx"
      BY <2>6 DEF CloseRequest
    <3>4. Len(rs) = k /\ rs[k] = asks[1]
      <4>1. /\ Len(reqs \o asks) = Len(reqs) + Len(asks)
            /\ \A i \in 1..Len(asks) : (reqs \o asks)[Len(reqs) + i] = asks[i]
        BY <1>0, Requested
      <4>2. 1 \in 1..Len(asks)
        BY <3>3
      <4> QED
        BY <3>1, <3>2, <3>3, <4>1, <4>2
    <3>5. k \in 1..Len(rs) /\ rs[k].type = "CloseTx" /\ NoTransactionAfter(rs, k)
      <4>1. k \in 1..Len(rs)
        BY <1>0, <3>1, <3>4
      <4>2. \A j \in (k + 1)..Len(rs) : FALSE
        BY <3>1, <3>4
      <4> QED
        BY <3>3, <3>4, <4>1, <4>2 DEF NoTransactionAfter
    <3> QED
      BY <3>2, <3>5 DEF JobWanted, NoTransactionAfter
  <2>7. CASE /\ searcher # "gone" /\ ~Cares(app') /\ asks # CloseRequest
    <3>1. ~Cares(app) /\ \A k \in 1..Len(asks) : asks[k].type # "Transaction"
      BY <2>3, <2>7 DEF Cares
    <3> QED
      BY <2>2, <2>3, <2>7, <3>1, WantedAfterAsking
  <2> QED
    BY <2>4, <2>5, <2>6, <2>7
<1>4. CASE ConnectSearch
  <2>1. CASE reqs' = reqs
    BY <1>1, <1>4, <2>1 DEF ConnectSearch
  <2>2. CASE reqs' = <<>>
    <3>1. txJob' = NoJob /\ Len(reqs') = 0
      BY <1>4, <2>2, EmptySeq DEF ConnectSearch, JobNeedsSearcher
    <3> QED
      BY <3>1 DEF JobWanted, NoTransactionAfter
  <2> QED
    BY <1>4, <2>1, <2>2 DEF ConnectSearch
<1>5. CASE Receive
  <2>1. reqs # <<>> /\ reqs' = Tail(reqs) /\ app' = app
    BY <1>5 DEF Receive
  <2>2. /\ Head(reqs).type = "CloseTx" => txJob' = NoJob
        /\ Head(reqs).type \in {"Taddr", "Block"} => txJob' = txJob
    BY <1>5 DEF Receive
  <2>3. Head(reqs) = reqs[1] /\ reqs[1] \in Request
    BY <1>0, <2>1, Received
  <2>4. CASE Cares(app)
    BY <2>1, <2>4 DEF JobWanted
  <2>5. CASE \E k \in 1..Len(reqs) : reqs[k].type = "CloseTx" /\ NoTransactionAfter(reqs, k)
    <3>1. PICK k \in 1..Len(reqs) : reqs[k].type = "CloseTx" /\ NoTransactionAfter(reqs, k)
      BY <2>5
    <3>2. PICK n \in Nat : n = k - 1
      BY <1>0
    <3>3. NoTransactionAfter(reqs, k) => \A j \in (n + 1)..Len(reqs') : reqs'[j].type # "Transaction"
      <4> SUFFICES ASSUME NoTransactionAfter(reqs, k), NEW j \in (n + 1)..Len(reqs')
                   PROVE  reqs'[j].type # "Transaction"
        OBVIOUS
      <4>1. j \in 1..Len(reqs') /\ j + 1 \in (k + 1)..Len(reqs)
        BY <1>0, <2>1, <3>2, Received
      <4> QED
        BY <1>0, <2>1, <4>1, Received DEF NoTransactionAfter
    <3>4. CASE k = 1
      <4>1. txJob' = NoJob
        BY <2>2, <2>3, <3>1, <3>4
      <4>2. \A j \in 1..Len(reqs') : reqs'[j].type # "Transaction"
        BY <3>1, <3>2, <3>3, <3>4
      <4> QED
        BY <4>1, <4>2 DEF JobWanted, NoTransactionAfter
    <3>5. CASE k # 1
      <4>1. n \in 1..Len(reqs') /\ reqs'[n] = reqs[k]
        BY <1>0, <2>1, <3>2, <3>5, Received
      <4>2. \A j \in (n + 1)..Len(reqs') : reqs'[j].type # "Transaction"
        BY <3>1, <3>3
      <4> QED
        BY <3>1, <4>1, <4>2 DEF JobWanted, NoTransactionAfter
    <3> QED
      BY <3>4, <3>5
  <2>6. CASE txJob = NoJob /\ NoTransactionAfter(reqs, 0)
    <3>1. 1 \in 1..Len(reqs)
      BY <1>0, <2>1, Received
    <3>2. reqs[1].type \in {"CloseTx", "Taddr", "Block"}
      BY <2>3, <2>6, <3>1, RequestKinds DEF NoTransactionAfter
    <3>3. txJob' = NoJob
      BY <2>2, <2>3, <2>6, <3>2
    <3>4. ASSUME NEW j \in 1..Len(reqs') PROVE reqs'[j].type # "Transaction"
      <4>1. j + 1 \in 1..Len(reqs) /\ reqs'[j] = reqs[j + 1]
        BY <1>0, <2>1, Received
      <4> QED
        BY <2>6, <4>1 DEF NoTransactionAfter
    <3> QED
      BY <3>3, <3>4 DEF JobWanted, NoTransactionAfter
  <2> QED
    BY <2>4, <2>5, <2>6 DEF JobWanted
<1>6. CASE FetchTx \/ ReadFunder \/ MinedFee
  <2>1. txJob.stage # "none" /\ UNCHANGED <<app, reqs>>
    BY <1>6 DEF FetchTx, ReadFunder, MinedFee
  <2>2. txJob # NoJob
    BY <2>1 DEF NoJob
  <2> QED
    BY <1>1, <2>1, <2>2
<1>7. CASE \E i \in DOMAIN jobs : ServeJob(i)
  BY <1>1, <1>7 DEF ServeJob
<1>8. CASE ApplyAnswer
  <2>1. AnswerKept /\ txJob' = txJob
    BY <1>8, AnswersKeep DEF ApplyAnswer
  <2>2. CASE Cares(app)
    BY <2>1, <2>2 DEF AnswerKept, JobWanted, Cares
  <2>3. CASE ~Cares(app) /\ reqs' = reqs
    BY <2>1, <2>3 DEF JobWanted, NoTransactionAfter
  <2>4. CASE ~Cares(app) /\ \E h \in Heights : reqs' = reqs \o ContextRequest(h)
    <3>1. PICK asks \in Seq(Request) : reqs' = reqs \o asks
            /\ \A k \in 1..Len(asks) : asks[k].type # "Transaction"
      BY <2>4, ContextIsNoTransaction
    <3> QED
      BY <2>1, <2>4, <3>1, WantedAfterAsking
  <2> QED
    BY <2>1, <2>2, <2>3, <2>4 DEF AnswerKept
<1> QED
  BY <1>2, <1>3, <1>4, <1>5, <1>6, <1>7, <1>8 DEF Next, Search

\* The job of a closed pane ends (NoOrphanJob), in whatever order keys, requests
\* and answers come: whoever stops looking at a transaction, or waiting for one,
\* leaves no job behind that nothing will end.
THEOREM NoJobIsOrphan == Spec => []NoOrphanJob
<1>1. Init => Shape /\ JobNeedsSearcher /\ JobWanted
  BY ShapeAtStart, ExplorerAssumption
<1>2. Shape /\ JobNeedsSearcher /\ [Next]_vars => JobNeedsSearcher'
  BY JobNeedsSearcherKept, ExplorerAssumption
<1>3. Shape /\ JobNeedsSearcher /\ JobWanted /\ [Next]_vars => JobWanted'
  BY JobWantedKept, ExplorerAssumption
<1>4. JobWanted => NoOrphanJob
  <2> SUFFICES ASSUME JobWanted, reqs = <<>>, ~Cares(app) PROVE txJob = NoJob
    BY DEF NoOrphanJob, Cares
  <2>1. Len(reqs) = 0
    BY EmptySeq
  <2> QED
    BY <2>1 DEF JobWanted
<1> QED
  BY <1>1, <1>2, <1>3, <1>4, ShapeInvariant, PTL DEF Spec

-----------------------------------------------------------------------------
(* The frame.                                                              *)

\* The focus is drawn at every width unless the list has it and a transaction is
\* open beside its block.
LEMMA DrawnUnlessCovered ==
  ASSUME Shape
  PROVE  FocusDrawn <=> ~(app.focus = "List" /\ BlockContext)
<1>1. app.focus \in {"List", "Block", "Tx", "Search", "Help"}
      /\ (app.focus = "Tx" => app.detail.tx # NoTx) /\ (app.focus = "Block" => app.block # NoBlock)
  BY DEF Shape, Good, AppType, HasPane, OpenFor
<1>2. CASE app.focus \in {"Search", "Help"}
  BY <1>2 DEF FocusDrawn, KeysGoTo
<1>3. CASE app.focus = "Tx"
  BY <1>1, <1>3 DEF FocusDrawn, KeysGoTo, Drawn, Body, BlockColumns, NarrowPane, Pane, Widths
<1>4. CASE app.focus = "Block"
  BY <1>1, <1>4 DEF FocusDrawn, KeysGoTo, Drawn, Body, BlockColumns, NarrowPane, Pane, Widths, BlockContext
<1>5. CASE app.focus = "List"
  BY <1>1, <1>5 DEF FocusDrawn, KeysGoTo, Drawn, Body, BlockColumns, NarrowPane, Pane, Widths
<1> QED
  BY <1>1, <1>2, <1>3, <1>4, <1>5
\* What is put at the end of a path is its end.
LEMMA EndsIn ==
  ASSUME NEW S, NEW s \in Seq(S), NEW t \in S
  PROVE  s \o <<t>> # <<>> /\ (s \o <<t>>)[Len(s \o <<t>>)] = t
<1>1. <<t>> \in Seq(S) /\ Len(<<t>>) = 1 /\ <<t>>[1] = t /\ Len(s) \in Nat
  BY LenProperties
<1>2. /\ Len(s \o <<t>>) = Len(s) + 1
      /\ \A i \in 1..(Len(s) + 1) :
           (s \o <<t>>)[i] = IF i <= Len(s) THEN s[i] ELSE <<t>>[i - Len(s)]
  BY <1>1, ConcatProperties
<1>3. Len(s) + 1 \in 1..(Len(s) + 1) /\ ~(Len(s) + 1 <= Len(s)) /\ (Len(s) + 1) - Len(s) = 1
  BY <1>1
<1>4. (s \o <<t>>)[Len(s) + 1] = t
  BY <1>1, <1>2, <1>3
<1>5. s \o <<t>> # <<>>
  BY <1>1, <1>2, EmptySeq
<1> QED
  BY <1>2, <1>4, <1>5

\* A transaction that has the focus is the last pane of the body, bright, in the
\* column that the gradient fills, and the last of the path.
LEMMA FocusedTxInFront ==
  ASSUME Shape, app.focus = "Tx"
  PROVE  TxInFront
<1>1. app.detail.tx # NoTx
  BY DEF Shape, Good, HasPane, OpenFor
<1>2. ASSUME NEW w \in Widths
      PROVE  /\ Body(w)[Len(Body(w))] = Pane("Tx", FALSE)
             /\ Band(w) = <<Len(Body(w)), Len(Body(w))>>
  <2>1. CASE BlockContext
    BY <1>1, <2>1 DEF Body, BlockColumns, NarrowPane, Band, Pane, Widths
  <2>2. CASE ~BlockContext
    BY <1>1, <2>2 DEF Body, Band, Pane
  <2> QED
    BY <2>1, <2>2
<1>3. Crumbs[Len(Crumbs)] = app.detail.tx
  <2>1. PICK v : v = app.view
    OBVIOUS
  <2>2. PICK t : t = app.detail.tx
    OBVIOUS
  <2>3. PICK block : block = IF app.block = NoBlock THEN <<>> ELSE <<app.block.height>>
    OBVIOUS
  <2>4. PICK S : {v, t, app.block.height} \subseteq S
    OBVIOUS
  <2>5. block \in Seq(S) /\ <<v>> \in Seq(S) /\ t \in S
    BY <2>3, <2>4
  <2>6. block \o <<t>> # <<>>
    BY <2>5, EndsIn
  <2>7. Crumbs = (<<v>> \o block) \o <<t>>
    BY <1>1, <2>1, <2>2, <2>3, <2>6 DEF Crumbs
  <2>8. <<v>> \o block \in Seq(S)
    BY <2>5, ConcatProperties
  <2> QED
    BY <2>2, <2>5, <2>7, <2>8, EndsIn
<1> QED
  BY <1>2, <1>3 DEF TxInFront

\* A key that gives the focus to the list leaves it there, comes back from what
\* is drawn over it, or closes the pane it leaves.
LEMMA BackToList ==
  ASSUME Shape, KeyPress, app'.focus = "List"
  PROVE  \/ app.focus \in {"Search", "Help"}
         \/ app.focus = "List" /\ app'.block = app.block /\ app'.detail = app.detail
         \/ app'.block = NoBlock \/ app'.detail = NoDetail
<1>0. app \in AppType
  BY DEF Shape, Good
<1>1. CASE LeaveHelp \/ SubmitSearch
  BY <1>1 DEF LeaveHelp, SubmitSearch
<1>2. CASE OpenHelp
  <2>1. app'.focus = "Help"
    BY <1>0, <1>2 DEF OpenHelp, Quiet, Key, AppType
  <2> QED
    BY <2>1
<1>3. CASE CycleView \/ LeaveResults
  BY <1>0, <1>3 DEF CycleView, LeaveResults, Quiet, Key, AppType
<1>4. CASE OpenSearch
  <2>1. app'.focus = "Search"
    BY <1>0, <1>4 DEF OpenSearch, Quiet, Key, AppType
  <2> QED
    BY <2>1
<1>5. CASE OpenSelected
  <2>1. CASE \E t \in Pool : Quiet(OpenDetail(app, t, "Standalone"))
    <3>1. app'.focus = "Tx"
      BY <1>0, <2>1 DEF Quiet, Key, OpenDetail, AppType
    <3> QED
      BY <3>1
  <2>2. CASE \E i \in DOMAIN app.hits :
               Quiet([OpenDetail(app, app.hits[i], "Results") EXCEPT !.hit = i])
    <3>1. app'.focus = "Tx"
      BY <1>0, <2>2 DEF Quiet, Key, OpenDetail, AppType
    <3> QED
      BY <3>1
  <2>3. CASE \E h \in Heights : Quiet(ShowBlock(h))
    <3>1. app'.focus = "Block"
      BY <1>0, <2>3 DEF Quiet, Key, ShowBlock, AppType
    <3> QED
      BY <3>1
  <2> QED
    BY <1>5, <2>1, <2>2, <2>3 DEF OpenSelected
<1>6. CASE StepBlockTx
  <2>1. app'.focus = app.focus /\ app.focus = "Block"
    BY <1>0, <1>6 DEF StepBlockTx, Quiet, Key, AppType
  <2> QED
    BY <2>1
<1>7. CASE OpenTxOfBlock
  <2>1. app.focus = "Block" /\ OpenBlockTx(app) /\ Good(app)
    BY <1>7 DEF OpenTxOfBlock, Shape
  <2>2. app'.focus \in {"Block", "Tx"}
    BY <2>1, OpenBlockTxKept, ExplorerAssumption
  <2> QED
    BY <2>2
<1>8. CASE WalkBlockTx
  <2>1. PICK i \in Steps(app.block.sel, Len(TxRows(app.block))) :
          OpenBlockTx([app EXCEPT !.block.sel = i])
    BY <1>8 DEF WalkBlockTx
  <2>2. PICK a : a = [app EXCEPT !.block.sel = i]
    OBVIOUS
  <2>3. Good(a) /\ a.detail = app.detail /\ a.awaiting = app.awaiting /\ a.focus = app.focus
    BY <2>2, StepGood, ExplorerAssumption DEF Shape
  <2>4. app.focus \in {"Block", "Tx"}
    BY <1>8 DEF WalkBlockTx
  <2>5. app'.focus \in {"Block", "Tx"}
    BY <2>1, <2>2, <2>3, <2>4, OpenBlockTxKept, ExplorerAssumption
  <2> QED
    BY <2>5
<1>9. CASE WalkHits
  <2>1. app'.focus = "Tx"
    BY <1>0, <1>9 DEF WalkHits, Quiet, Key, OpenDetail, AppType
  <2> QED
    BY <2>1
<1>10. CASE LeaveBlock
  <2>1. app'.block = NoBlock
    BY <1>0, <1>10 DEF LeaveBlock, Key, AppType
  <2> QED
    BY <2>1
<1>11. CASE LeaveTx
  <2>1. CASE Key([app EXCEPT !.awaiting = "Nothing", !.focus = "Block"], <<>>)
    <3>1. app'.focus = "Block"
      BY <1>0, <2>1 DEF Key, AppType
    <3> QED
      BY <3>1
  <2>2. CASE Key([app EXCEPT !.detail = NoDetail, !.awaiting = "Nothing", !.focus = "List"],
                 CloseRequest)
    <3>1. app'.detail = NoDetail
      BY <1>0, <2>2 DEF Key, AppType
    <3> QED
      BY <3>1
  <2> QED
    BY <1>11, <2>1, <2>2 DEF LeaveTx
<1> QED
  BY <1>1, <1>2, <1>3, <1>4, <1>5, <1>6, <1>7, <1>8, <1>9, <1>10, <1>11 DEF KeyPress

\* A key of a pane that is drawn keeps the focus drawn at every width, and a
\* transaction that has the focus is in front (KeysKeepFocusDrawn): the layout,
\* the gradient and the path, each worked out by itself, agree with the App.
THEOREM KeysAlwaysKeepFocusDrawn == Spec => KeysKeepFocusDrawn
<1>1. Shape => (FocusDrawn <=> ~(app.focus = "List" /\ BlockContext))
  BY DrawnUnlessCovered
<1>2. Shape /\ app.focus = "Tx" => TxInFront
  BY FocusedTxInFront
<1>3. (Shape => (FocusDrawn <=> ~(app.focus = "List" /\ BlockContext)))'
  BY <1>1, PTL
<1>4. (Shape /\ app.focus = "Tx" => TxInFront)'
  BY <1>2, PTL
<1>5. Shape /\ Shape' /\ [Next]_vars =>
        [/\ KeyPress /\ KeysGoTo # {} /\ FocusDrawn => FocusDrawn'
         /\ app'.focus = "Tx" => TxInFront']_vars
  <2> SUFFICES ASSUME Shape, Shape'
               PROVE  /\ KeyPress /\ KeysGoTo # {} /\ FocusDrawn => FocusDrawn'
                      /\ app'.focus = "Tx" => TxInFront'
    OBVIOUS
  <2>1. app'.focus = "Tx" => TxInFront'
    BY <1>4
  <2>2. ASSUME KeyPress, KeysGoTo # {}, FocusDrawn, app'.focus = "List", BlockContext' PROVE FALSE
    <3>1. app.focus \notin {"Search", "Help"}
      BY <2>2 DEF KeysGoTo
    <3>2. app'.block # NoBlock /\ app'.detail.tx # NoTx
      <4>1. app'.focus # "Block"
        BY <2>2
      <4> QED
        BY <2>2, <4>1 DEF BlockContext
    <3>3. app'.detail # NoDetail
      BY <3>2 DEF NoDetail
    <3>4. app.focus = "List" /\ app'.block = app.block /\ app'.detail = app.detail
      BY <2>2, <3>1, <3>2, <3>3, BackToList
    <3>5. BlockContext
      BY <2>2, <3>4 DEF BlockContext
    <3> QED
      BY <1>1, <2>2, <3>4, <3>5
  <2> QED
    BY <1>3, <2>1, <2>2
<1> QED
  BY <1>5, ShapeInvariant, PTL DEF Spec, KeysKeepFocusDrawn

=============================================================================
