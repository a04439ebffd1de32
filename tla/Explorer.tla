------------------------------- MODULE Explorer -------------------------------
(***************************************************************************)
(* The explorer's panes and its search: the App's navigation (on_key and   *)
(* apply in tools/tui/src/app.rs), and the search task that serves its     *)
(* requests (run_search and SearchClient in tools/tui/src/net.rs).         *)
(*                                                                         *)
(* Keys, answers and aborts interleave: a request goes into one FIFO       *)
(* channel, its answer comes back on another, and in between the user may  *)
(* have closed the pane, walked on or searched for something else.  The    *)
(* App drains its channel at a frame unless paused, so an answer may wait  *)
(* any time; pausing needs no state of its own.                            *)
(*                                                                         *)
(* The mempool and the block list are sets here (TailTask and Resolver     *)
(* have their rows and order), and opening a row of a list opens any.  The *)
(* values of a resolved transaction, scrolling, copying and the footer are *)
(* left out: they change no pane.                                          *)
(***************************************************************************)
EXTENDS Integers, Sequences, SequencesExt, FiniteSets

CONSTANTS
  Txid,          \* the transactions there are
  Pool,          \* those listed in the mempool view
  NoTx,          \* no transaction
  BlockTxs,      \* BlockTxs[h]: the transactions of the block at height h
  HitLists,      \* the result sets a t-address search may find
  Inputs,        \* Inputs[t]: the transparent inputs of t left to follow
  MaxReqs,       \* bound on requests not yet received at a key press
  MaxAnswers     \* bound on Block and Taddr jobs and answers on their way then

Heights == DOMAIN BlockTxs

ASSUME ExplorerAssumption ==
  /\ Pool \subseteq Txid /\ NoTx \notin Txid
  /\ Heights \subseteq Nat \ {0}
  /\ \A h \in Heights : BlockTxs[h] \in Seq(Txid)
  /\ HitLists \subseteq Seq(Txid)
  /\ Inputs \in [Txid -> Nat]
  /\ {MaxReqs, MaxAnswers} \subseteq Nat

VARIABLES
  app,           \* the App's fields, below
  reqs,          \* requests not yet received, oldest first
  searcher,      \* run_search: "connecting", "serving" or "gone"
  txJob,         \* the job that serves a Transaction, or NoJob
  jobs,          \* the Block and Taddr jobs, oldest first
  updates,       \* answers not yet applied, oldest first
  wanted         \* history: the transaction last asked for and still awaited

vars == <<app, reqs, searcher, txJob, jobs, updates, wanted>>

\* 0 stands for no block.
MinedAt(t) ==
  IF \E h \in Heights : t \in Range(BlockTxs[h])
  THEN CHOOSE h \in Heights : t \in Range(BlockTxs[h]) ELSE 0

\* The fields of a closed pane: what is left in them is never read.
NoDetail == [tx |-> NoTx, origin |-> "Standalone", progress |-> FALSE]
NoBlock == [height |-> 0, sel |-> 1]
NoJob == [tx |-> NoTx, stage |-> "none", left |-> 0]

Init ==
  /\ app = [view |-> "Blocks", focus |-> "List", ret |-> "List",
            detail |-> NoDetail, awaiting |-> "Nothing", pendingCtx |-> 0,
            block |-> NoBlock, hits |-> <<>>, hit |-> 1]
  /\ reqs = <<>>
  /\ searcher = "connecting"
  /\ txJob = NoJob
  /\ jobs = <<>>
  /\ updates = <<>>
  /\ wanted = NoTx

-----------------------------------------------------------------------------
(* The App's own functions, from one App to the next.  An operator whose   *)
(* name starts with Bug is a slip one could make in the one after it; no   *)
(* specification uses it.                                                  *)

OpenDetail(a, t, origin) ==
  [a EXCEPT !.detail = [tx |-> t, origin |-> origin, progress |-> FALSE],
            !.block = IF origin = "Block" THEN @ ELSE NoBlock, !.focus = "Tx"]

BugCloseRequest == <<>>
\* close_detail empties the pane and tells the search task to stop resolving.
CloseRequest == <<[type |-> "CloseTx"]>>

AskTx(t) == <<[type |-> "Transaction", tx |-> t]>>

\* The transactions of the open block, and the selected one, if any.
TxRows(b) == IF b.height = 0 THEN <<>> ELSE BlockTxs[b.height]
SelectedTx(b) == IF b.sel \in DOMAIN TxRows(b) THEN TxRows(b)[b.sel] ELSE NoTx

BugStepIn(i, len, dir) == IF i + dir > len THEN len ELSE i + dir
\* step: one row up or down, held at the ends.
StepIn(i, len, dir) ==
  IF i + dir < 1 THEN 1 ELSE IF i + dir > len THEN len ELSE i + dir

Steps(i, len) == IF len = 0 THEN {} ELSE {StepIn(i, len, d) : d \in {-1, 1}}

\* A key press: what it makes of the App, and what it asks for.
Key(a, asks) ==
  /\ Len(reqs) <= MaxReqs /\ Len(updates) + Len(jobs) <= MaxAnswers
  /\ app' = a
  /\ reqs' = IF searcher = "gone" THEN reqs ELSE reqs \o asks
  /\ UNCHANGED <<searcher, txJob, jobs, updates>>

Quiet(a) == Key(a, <<>>) /\ UNCHANGED wanted

\* A block opens with its first transaction selected.
ShowBlock(h) == [app EXCEPT !.block = [height |-> h, sel |-> 1], !.focus = "Block"]

\* open_block_tx: focus the transaction if it is the one shown, else ask.
OpenBlockTx(a) ==
  LET t == SelectedTx(a.block)
  IN  IF t = NoTx THEN Quiet(a)
      ELSE IF a.detail.tx = t THEN Quiet([a EXCEPT !.focus = "Tx"])
      ELSE /\ Key([a EXCEPT !.awaiting = "Block"], AskTx(t))
           /\ wanted' = t

-----------------------------------------------------------------------------
(* The keys.                                                               *)

\* "?" and "a" outside the search bar, and the key that leaves their overlay;
\* "Help" stands for both.  ret is not read after that.
OpenHelp ==
  /\ app.focus \in {"List", "Block", "Tx"}
  /\ Quiet([app EXCEPT !.ret = app.focus, !.focus = "Help"])

LeaveHelp ==
  /\ app.focus = "Help"
  /\ Quiet([app EXCEPT !.focus = app.ret, !.ret = "List"])

CycleView ==
  /\ app.focus = "List"
  /\ Quiet([app EXCEPT !.view = IF @ = "Mempool" THEN "Blocks" ELSE "Mempool"])

LeaveResults ==
  /\ app.focus = "List" /\ app.view = "Results"
  /\ Quiet([app EXCEPT !.view = "Blocks"])

OpenSelected ==
  /\ app.focus = "List"
  /\ \/ app.view = "Mempool" /\ \E t \in Pool : Quiet(OpenDetail(app, t, "Standalone"))
     \/ /\ app.view = "Results"
        /\ \E i \in DOMAIN app.hits :
             Quiet([OpenDetail(app, app.hits[i], "Results") EXCEPT !.hit = i])
     \/ /\ app.view = "Blocks"
        /\ \E h \in Heights : Quiet(ShowBlock(h))

OpenSearch == app.focus = "List" /\ Quiet([app EXCEPT !.focus = "Search"])

\* submit_search and route_query; an empty, shielded or unknown query asks
\* for nothing.
SubmitSearch ==
  /\ app.focus = "Search"
  /\ LET a == [app EXCEPT !.focus = "List"]
     IN  \/ Quiet(a)
         \/ /\ \E h \in Heights : Key(a, <<[type |-> "Block", height |-> h]>>)
            /\ UNCHANGED wanted
         \/ \E t \in Txid :
              /\ Key([a EXCEPT !.awaiting = "Standalone"], AskTx(t))
              /\ wanted' = t
         \/ Key(a, <<[type |-> "Taddr"]>>) /\ UNCHANGED wanted

StepBlockTx ==
  /\ app.focus = "Block"
  /\ \E i \in Steps(app.block.sel, Len(TxRows(app.block))) :
       Quiet([app EXCEPT !.block.sel = i])

OpenTxOfBlock == app.focus = "Block" /\ OpenBlockTx(app)

\* n and N in the block, or in a tx detail the block opened.
WalkBlockTx ==
  /\ app.focus = "Block" \/ (app.focus = "Tx" /\ app.detail.origin = "Block")
  /\ \E i \in Steps(app.block.sel, Len(TxRows(app.block))) \ {app.block.sel} :
       OpenBlockTx([app EXCEPT !.block.sel = i])

WalkHits ==
  /\ app.focus = "Tx" /\ app.detail.origin = "Results"
  /\ \E i \in Steps(app.hit, Len(app.hits)) :
       Quiet([OpenDetail(app, app.hits[i], "Results") EXCEPT !.hit = i])

LeaveBlock ==
  /\ app.focus = "Block"
  /\ Key([app EXCEPT !.block = NoBlock, !.detail = NoDetail, !.awaiting = "Nothing",
                     !.focus = "List"], CloseRequest)
  /\ wanted' = NoTx

BugBackToBlock == app.detail.origin = "Block"
BackToBlock == app.detail.origin = "Block" /\ app.block # NoBlock

LeaveTx ==
  /\ app.focus = "Tx"
  /\ \/ BackToBlock /\ Key([app EXCEPT !.awaiting = "Nothing", !.focus = "Block"], <<>>)
     \/ /\ ~BackToBlock
        /\ Key([app EXCEPT !.detail = NoDetail, !.awaiting = "Nothing", !.focus = "List"],
               CloseRequest)
  /\ wanted' = NoTx

-----------------------------------------------------------------------------
(* The search task.                                                        *)

Answer(us) == updates' = updates \o us

SearchError == <<[type |-> "SearchError"]>>
Progress(t, on) == <<[type |-> "ResolveProgress", tx |-> t, on |-> on]>>
Resolved(t) == <<[type |-> "DetailResolved", tx |-> t]>>

\* The clients are built once; a failure ends the task and drops its queue.
ConnectSearch ==
  /\ searcher = "connecting"
  /\ \/ searcher' = "serving" /\ UNCHANGED <<reqs, updates>>
     \/ searcher' = "gone" /\ reqs' = <<>> /\ Answer(SearchError)
  /\ UNCHANGED <<app, txJob, jobs, wanted>>

\* A Transaction replaces the job before it and CloseTx ends it; other jobs
\* run beside it.
Receive ==
  /\ searcher = "serving" /\ reqs # <<>>
  /\ LET r == Head(reqs)
     IN  CASE r.type = "Transaction" ->
                /\ txJob' = [tx |-> r.tx, stage |-> "fetch", left |-> Inputs[r.tx]]
                /\ UNCHANGED jobs
           [] r.type = "CloseTx" -> txJob' = NoJob /\ UNCHANGED jobs
           [] OTHER -> jobs' = Append(jobs, r) /\ UNCHANGED txJob
  /\ reqs' = Tail(reqs)
  /\ UNCHANGED <<app, searcher, updates, wanted>>

\* serve_tx: fetch the transaction and open the pane; a transaction with
\* inputs to follow goes on and reports that it starts.
FetchTx ==
  /\ txJob.stage = "fetch"
  /\ LET found == <<[type |-> "SearchTx", tx |-> txJob.tx]>>
     IN  \/ Answer(SearchError) /\ txJob' = NoJob
         \/ txJob.left = 0 /\ Answer(found) /\ txJob' = NoJob
         \/ /\ txJob.left > 0
            /\ Answer(found \o Progress(txJob.tx, TRUE))
            /\ txJob' = [txJob EXCEPT !.stage = "resolve"]
  /\ UNCHANGED <<app, reqs, searcher, jobs, wanted>>

\* Each funder read reports; the last one's report is cleared at once, and
\* when a funder could not be read the mining block is asked for the fee.
ReadFunder ==
  /\ txJob.stage = "resolve"
  /\ LET more == Progress(txJob.tx, TRUE)
         done == Progress(txJob.tx, FALSE)
     IN  \/ /\ txJob.left > 1
            /\ Answer(more) /\ txJob' = [txJob EXCEPT !.left = @ - 1]
         \/ /\ txJob.left = 1
            /\ Answer(done \o Resolved(txJob.tx)) /\ txJob' = NoJob
         \/ /\ txJob.left = 1 /\ MinedAt(txJob.tx) # 0
            /\ Answer(done) /\ txJob' = [txJob EXCEPT !.stage = "fee"]
  /\ UNCHANGED <<app, reqs, searcher, jobs, wanted>>

MinedFee ==
  /\ txJob.stage = "fee"
  /\ Answer(Resolved(txJob.tx)) /\ txJob' = NoJob
  /\ UNCHANGED <<app, reqs, searcher, jobs, wanted>>

BlockFound(h) == <<[type |-> "SearchBlock", height |-> h]>>
HitsFound(hits) == <<[type |-> "SearchTaddr", hits |-> hits]>>

\* The i-th job ends, with what it found or with an error.
ServeJob(i) ==
  /\ jobs' = RemoveAt(jobs, i)
  /\ \/ Answer(SearchError)
     \/ jobs[i].type = "Block" /\ Answer(BlockFound(jobs[i].height))
     \/ jobs[i].type = "Taddr" /\ \E hits \in HitLists : Answer(HitsFound(hits))
  /\ UNCHANGED <<app, reqs, searcher, txJob, wanted>>

-----------------------------------------------------------------------------
(* The App applies an answer.                                              *)

BugContextRequest(h) == <<>>
ContextRequest(h) == <<[type |-> "Block", height |-> h]>>

\* A standalone hit that is mined also asks for its block.
ApplySearchTx(u) ==
  LET opened == [OpenDetail(app, u.tx, app.awaiting) EXCEPT !.awaiting = "Nothing"]
      ctx == app.awaiting = "Standalone" /\ MinedAt(u.tx) # 0
  IN  /\ app' = CASE app.awaiting = "Nothing" -> app
                  [] ctx -> [opened EXCEPT !.pendingCtx = MinedAt(u.tx)]
                  [] OTHER -> opened
      /\ reqs' = IF ctx THEN reqs \o ContextRequest(MinedAt(u.tx)) ELSE reqs
      /\ wanted' = NoTx

\* attach_ctx_block: the block pane opens beside the open transaction.
AttachContext(h) ==
  LET sel == SelectInSeq(BlockTxs[h], LAMBDA t : t = app.detail.tx)
  IN  [app EXCEPT !.pendingCtx = 0, !.view = "Blocks",
                  !.block = [height |-> h, sel |-> IF sel = 0 THEN 1 ELSE sel],
                  !.detail.origin = IF app.detail = NoDetail THEN @ ELSE "Block"]

ApplySearchBlock(u) ==
  app' = IF app.pendingCtx = u.height THEN AttachContext(u.height)
         ELSE [ShowBlock(u.height) EXCEPT !.view = "Blocks"]

\* The hits of a search are shown from the first.
BugFirstHit == app.hit
FirstHit == 1

ApplyAnswer ==
  /\ updates # <<>>
  /\ updates' = Tail(updates)
  /\ LET u == Head(updates)
     IN  CASE u.type = "SearchTx" -> ApplySearchTx(u)
           [] u.type = "SearchBlock" -> ApplySearchBlock(u) /\ UNCHANGED <<reqs, wanted>>
           [] u.type = "SearchTaddr" ->
                /\ app' = [app EXCEPT !.hits = u.hits, !.hit = FirstHit,
                                      !.view = "Results", !.focus = "List"]
                /\ UNCHANGED <<reqs, wanted>>
           [] u.type = "SearchError" ->
                /\ app' = [app EXCEPT !.pendingCtx = 0]
                /\ UNCHANGED <<reqs, wanted>>
           [] u.type = "ResolveProgress" ->
                /\ app' = IF app.detail.tx = u.tx
                          THEN [app EXCEPT !.detail.progress = u.on] ELSE app
                /\ UNCHANGED <<reqs, wanted>>
           [] u.type = "DetailResolved" ->
                /\ app' = IF app.detail.tx = u.tx
                          THEN [app EXCEPT !.detail.progress = FALSE] ELSE app
                /\ UNCHANGED <<reqs, wanted>>
  /\ UNCHANGED <<searcher, txJob, jobs>>

KeyPress ==
  \/ OpenHelp \/ LeaveHelp \/ CycleView \/ LeaveResults \/ OpenSelected
  \/ OpenSearch \/ SubmitSearch \/ StepBlockTx \/ OpenTxOfBlock \/ WalkBlockTx \/ WalkHits
  \/ LeaveBlock \/ LeaveTx

Search ==
  \/ ConnectSearch \/ Receive \/ FetchTx \/ ReadFunder \/ MinedFee
  \/ \E i \in DOMAIN jobs : ServeJob(i)

Next == KeyPress \/ Search \/ ApplyAnswer

Spec == Init /\ [][Next]_vars

\* The search task is scheduled, each request is answered or fails, and the
\* App drains its channel; nobody has to press a key.
FairSpec ==
  /\ Spec
  /\ WF_vars(ConnectSearch) /\ WF_vars(Receive) /\ WF_vars(ApplyAnswer)
  /\ WF_vars(FetchTx) /\ WF_vars(ReadFunder) /\ WF_vars(MinedFee)
  /\ WF_vars(jobs # <<>> /\ ServeJob(1))

-----------------------------------------------------------------------------
(* Properties.                                                             *)

\* The type of the state, of the panes, cursors and jobs among it.
ExplorerTypeOK ==
  /\ app.view \in {"Mempool", "Blocks", "Results"}
  /\ app.focus \in {"List", "Block", "Tx", "Search", "Help"}
  /\ app.ret \in {"List", "Block", "Tx"}
  /\ app.detail \in [tx : Txid \union {NoTx}, origin : {"Standalone", "Block", "Results"},
                    progress : BOOLEAN]
  /\ app.awaiting \in {"Nothing", "Standalone", "Block"}
  /\ {app.block.height, app.pendingCtx} \subseteq Heights \union {0}
  /\ app.hits \in HitLists \union {<<>>}
  /\ {app.block.sel, app.hit} \subseteq Nat \ {0}
  /\ \A i \in DOMAIN reqs : reqs[i].type \in {"Transaction", "CloseTx", "Block", "Taddr"}
  /\ searcher \in {"connecting", "serving", "gone"}
  /\ txJob.tx \in Txid \union {NoTx} /\ txJob.left \in Nat
  /\ txJob.stage \in {"none", "fetch", "resolve", "fee"}
  /\ \A i \in DOMAIN jobs : jobs[i].type \in {"Block", "Taddr"}
  /\ wanted \in Txid \union {NoTx}

\* The focused pane is open: a key of the transaction pane finds a
\* transaction and a key of the block pane finds a block, also when the
\* focus comes back from the help overlay, whatever answers came meanwhile.
FocusHasPane ==
  LET f == IF app.focus = "Help" THEN app.ret ELSE app.focus
  IN  /\ f = "Tx" => app.detail.tx # NoTx
      /\ f = "Block" => app.block # NoBlock

\* A cursor names a row of the list it is a cursor of: the block's
\* transactions and the search's hits change under it when an answer comes.
CursorOnRow ==
  /\ TxRows(app.block) # <<>> => app.block.sel \in DOMAIN TxRows(app.block)
  /\ app.hits # <<>> => app.hit \in DOMAIN app.hits

\* The job of a closed pane ends: once nothing is on its way and the user
\* neither sees a transaction nor waits for one, none is being resolved.
NoOrphanJob ==
  reqs = <<>> /\ updates = <<>> /\ app.detail = NoDetail /\ app.awaiting = "Nothing"
    => txJob = NoJob

\* The App does not wait for a context block for ever: while it does, a
\* block search of that height would be swallowed.
ContextArrives == \A h \in Heights : app.pendingCtx = h ~> app.pendingCtx # h

\* What awaiting_tx says of itself: it drops stale responses, so the answer
\* that opens the pane is the one to the last request.  It does not hold:
\* the flag does not say which request is awaited.
OnlyWantedTxOpens ==
  [][\A t \in Txid :
       updates # <<>> /\ Head(updates) = [type |-> "SearchTx", tx |-> t]
         /\ updates' = Tail(updates) /\ app.awaiting # "Nothing" => t = wanted]_vars

\* What resolve_progress says of itself: it is empty when nothing is
\* resolving.  It does not hold: a new request aborts the job, and when that
\* request fails the pane, and its progress, stay with no job at all.
ProgressMeansResolving ==
  app.detail.progress /\ reqs = <<>> /\ updates = <<>> => txJob # NoJob

=============================================================================
