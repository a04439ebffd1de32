# A TLA+ model of lightwallet-tools

`lightwallet-tools` is a set of Rust crates and tools that talk to a Zcash
light-wallet indexer (`lightwalletd` or `zaino`). The part with state that several
tasks change at once is the terminal explorer, `tools/tui`: a network task that
follows the chain through reorgs and reconnects, resolver tasks that follow
transparent inputs, a search task, and an App that applies what all of them send
while a user presses keys. Around it stand a command line tool, a client library
with its transports, bindings for apps, and the transaction view both tools print.
This project models all of these, checks them with TLC on small instances, and proves
with TLAPS every safety property that holds of them, for every value of the constants.

## The system

Paths are under `src/`; `net.rs`, `app.rs` and so on are in `tools/tui/src/`.

| component | state | operations | what is hard | what makes it correct |
|---|---|---|---|---|
| Block tail (`app.rs`: `insert_block`, `push_block_time`, the `Reorg` arm) | deque of rows with `seq` and `reorged`, cadence clock | insert, dim from a height | the same height arrives from a fill, a refetch and a search, in any order | sorted, one live row per height, bounded, the clock never runs back |
| Tail task (`net.rs`: `run`, `cycle`, `fill_range`) | `last`, `block_boundary`, the request it is at | connect, read tip, fill, refetch, announce, stream, back off | the chain moves between any two requests; any request fails | live rows are one chain with no gap; a block mined under an open mempool stream is shown; only errors leave Live |
| Mempool rows and resolver (`net.rs`: `cycle`, `spawn_resolve`, `funder_value`; `app.rs`; `ndjson.rs`) | `next_seq`, in-stream map of each cycle, funding cache, permits, rows, NDJSON fee table | stream a transaction, look up a funder, report a total, clear at a boundary | resolvers outlive their cycle and race each other, the row they patch and the boundary that clears it | never a wrong total, gate bound, one transaction per seq, both consumers agree, every resolver reports |
| Search task (`net.rs`: `run_search`, `serve_*`) | job table, one abortable transaction job | serve a block, transaction or address; replace or abort a job | an abort races the answers already sent | no job goes on once no pane is open or awaited, each request is answered or fails |
| Explorer navigation (`app.rs`: `on_key` and the search arms of `apply`) | view, focus, panes, cursors, `awaiting_tx`, `pending_ctx_block` | keys, answers | an answer arrives after the user moved on | focus has a pane, cursors name rows, an answer opens what is wanted |
| Search bar (`app.rs`: `search_key`, `delete_word`, `history_step`, `submit_search`) | text, byte cursor, history | edit keys | characters of several bytes | no operation cuts a character |
| Lists, highlights, health (`app.rs`: `apply`, `move_selection`, `chain_health`; `health.rs`) | selected seqs, boundary, height sample | updates, list keys | rows move, are replaced and fall off under a highlight; the clock is fed out of order | the highlight stays on its block, stalled means old |
| Screen (`ui.rs`: `render_body`, `render_block_columns`, `focused_pane`, `breadcrumb`) | none: a function of the App and the width | draw a frame | the renderer works out the layout from the open panes, twice, and answers open panes | the pane that has the keys is drawn |
| `lwcli` (`tools/cli`) | the txids seen while following, the tip read once | one command | any call fails, streams end at blocks or half way, the reader of stdout goes away | the whole answer or a failure, each transaction once, an identity request alone |
| Transaction view (`tools/txview`) | none | parse, resolve, fee, print | signed pool balances, inputs nobody looked up, bundles that are read and not summed | the fee is exact or absent (it is not for Sprout JoinSplits, see below) |
| Client and identity client (`crates/core`) | none beyond the channel | typed calls, header continuity | errors of the server and of the answer | one request for a call, a txid typed as printed finds its transaction |
| Transports (`crates/core`, `transport-tor`, `transport-nym`) | tokens, channels, circuits | make a channel, dial, redial | a reconnect must stay in its domain | domains share no circuit |
| FFI (`crates/ffi`) | one call's sink | `connect`, `stream_block_range` | callback order, a chain that is replaced between calls | one ending for a call |
| Test support (`mock.rs`) | the server's data and faults | every RPC | - | it is the server the clients are checked against |
| Protocol crates | - | - | - | generated code |

How they interact. The tail task and the search task each own network clients. Both send
`Update`s into one unbounded channel; the App (or the NDJSON writer) is the only reader
and drains it once per frame unless paused. The App sends `Request`s to the search task on
another unbounded channel. Resolver tasks share with the tail task the in-stream map of
their cycle and the funding cache (locked maps, never held across an await), and with the
search task the permits of one semaphore. `lwcli`, a wallet over the client and an app
over the bindings share no state with the explorer or with each other: each has a channel
of its own to a server. Nothing is persisted: a restart is a cold start.

`PROJECT.json` lists, under `hazards`, each place where this can go wrong in a way
a test would hardly reach, with the properties that would show it.

## The modules

    BlockWindow        abstract: the tail as a set of rows
    BlockRing          the deque and the clock, implements BlockWindow
    Dashboard          BlockRing + mempool rows + highlights + header + health
    TailTask           server + tail task + App; its rows are an INSTANCE of BlockRing
    Resolver           mempool stream + resolvers + cache + gate + both consumers
    Explorer           keys + search task + answers
    Screen             what a frame draws of an Explorer state
    SearchBar          the editing of a query
    Endpoint           what a server answers, with its faults
    Indexer            Endpoint + what each client call asks and accepts
    TxView             what a transaction is shown as
    Lwcli              Indexer + TxView + one process
    BlockStream        Indexer + a wallet, or an app over the bindings
    Domains            tokens, channels, circuits
    MC*                the instances TLC checks, one .cfg for each run
    BlockRingProofs, DashboardProofs, TailTaskProofs, ResolverProofs, ExplorerProofs,
    SearchBarProofs, DomainsProofs, ClientProofs (Lwcli, TxView and BlockStream)
                       theorems about the module of that name

An operator whose name starts with `Bug` is a plausible slip in the definition
after it. No specification uses it; it is there to show that the property listed
with it in `PROJECT.json` notices that slip.

### BlockWindow and BlockRing

`BlockWindow` says what the tail promises without positions: inserting replaces
the live row of that height, a full window gives up the oldest row and no other,
and a reorg dims rows and drops none. `BlockRing` has the deque arithmetic as the
code does it. `insert_block` finds the display position *before* it removes the row
it replaces, then caps the position; that this is right is what `NewestFirst` and
`ImplementsWindow` are about. `Range(blocks)` is the refinement mapping.

### TailTask

One action per request of `cycle`, so the server's chain may grow or fork between
any two. A chain is a sequence of fork labels; a block's hash is the prefix that
ends in it, so "chains onto" is prefix comparison and heights start at 1. What is
sent between two requests is one step, since it enters a FIFO channel the App
reads later; `Apply` takes one update at a time.

Assumed of the server: a range request is answered from one snapshot, and fails
when it reaches past the tip; the mempool stream ends when the best chain is not
the one it was opened at. Left out: the UI quitting (a closed channel), a malformed
URL, how long a back-off is, the health sample and the tip's time (neither feeds
anything modelled), and blocks inserted by a search (`BlockRing` covers those: its
insertions come in any order). `owed` is a history variable: the heights a `Reorg`
dimmed whose blocks no fill has sent since.

### Resolver

Resolvers of several cycles run at once. A lookup takes a permit, reads the
in-stream map of *its* cycle and the cache (one step: both locks are taken without
an await between), asks the server if it must, stores the answer and reads it. The
request and its answer are separate steps, so two resolvers may ask for the same
funder. `Report` and `SendRow` are separate steps as well: the resolver is spawned
before its row is sent. Both consumers read the same update, which is how either
binary behaves; they are run together only so as to compare them. The detail pane's
lookups have a cache of their own and meet the others only at the gate, so only
their permits are modelled. Server fixed: `Confirmed` funders can always be read,
others become readable at some moment (`ServerLearns`); any request may fail. `Absent` is an OK
reply that is empty or cannot be parsed, the only answer the code caches as unreadable; an error
status of any kind is `unavailable` and is not cached.

### Explorer

The App is a record; keys map it to the next one and ask for things. `awaiting`
folds `awaiting_tx` and `pending_origin` (read only together). `Help` stands for the
Help and About overlays. Fields of a closed pane are set to `NoDetail`/`NoBlock`
because nothing reads them. Opening a row of a list opens any row; the lists'
own cursors are in Dashboard, those of the block pane and of the results are here. A job that is
aborted in the middle of a poll either sent its answer or did not; both are there,
as the order of `Receive` and the job's step. Each answer is applied by a step of
its own and may wait any time, which also covers a paused App. `wanted` is a history
variable: the transaction last asked for. Left out: editing the query (SearchBar),
scrolling, copying, the footer, per-input values.

### Dashboard

Extends `BlockRing` with the App's other list state; the deque and the clock are its
own, so an insertion is the whole of `insert_block` here too. `ShowTx`, `NewBoundary`,
`SampleHeights`, `TailUpdate` and `FindBlock` are the arms of `apply`; `FindBlock` also covers a
found block that is attached as context. The mempool rows carry no property here: what is in them is
Resolver's subject, and their highlight is looked up by a seq that no other row has; they are in the module because the view and
the keys are shared with the tail. A highlight is a seq, `Moved` is `move_selection`.
`Health(now)` reads the clock, the heights and the time as `evaluate` and `median` do:
the tail's newest fed time, the median of the last intervals, a height lag of more
than two, four spacings without a block. `picked` is a history variable: the block the
user, or a search, last put the highlight on.

### Screen

No state: `Body`, `Band` and `Crumbs` are what `render_body`, `focused_pane` and
`breadcrumb` compute from a state of `Explorer`, at the three widths the code tells
apart. The renderer decides from the open panes, and `focused_pane` decides again for the
gradient, so the property compares the two with each other and with the focus.

### SearchBar

A text is a sequence of bytes; a character is one lead byte and marked tail bytes.
`String::insert`, `remove` and slicing at a byte that is no boundary set `panicked`, as
they panic in Rust. Every arm of `search_key` is an action; `AnswerTakesFocus` is an
answer that moves the focus while one types. `typedWide` is a history variable.

### Endpoint, Indexer, TxView

Operators without state. `Endpoint` is the mock server of `test-support`: for each RPC the
answer it makes of its data, a status in its place (`faults`), or a stream that gives
some items and then an error (`streamFaults`). `Indexer` maps each method of the two
clients to its request and the reply to what the caller gets: conversions that can
fail (a chain name, a branch id, a hash of the wrong length) fail there. A hash has two
bytes instead of 32, which is enough to tell one order of the bytes from the other.
`TxView` has the branch by height, what `parse` reads off a transaction, what `resolve`
adds and the summary and JSON forms. A transaction is the record of what the view
depends on: bundles with values and counts, outputs, a staking action. It has a Sprout bundle,
the JoinSplits of V2 to V4, since `Transaction::read` accepts them; `parse` does not look at it,
neither for the pools it lists nor for the value, and so neither does `Parse`.

`Where`, `ByHeight` and `Sum` are written out, by a recursive function or a choice, where
`SelectSeq`, a sort and a fold of the libraries would do for TLC: the provers cannot
open those.

### Lwcli

A process from its command line to its exit code. `pc` stands at the argument checks, the
connection, the call, the open stream, and `done`. The dispatch of `main` is there for every
command, with the options that change it (variant, transport, output form); the
follow loop of `get-mempool-stream` keeps `seen` and re-subscribes when the server ends the
stream at a block. The server moves only under a follow: a command that reads
once sees any one of the first states. `pipe` is the reader of stdout, which may go away at
any line. Left out: help texts and completions' contents.

The assumptions say what the constants stand for: amounts are whole numbers, a transaction
without inputs spends nothing, and only V2 to V4 have JoinSplits (`RawsAssumption`); a server knows the transactions there are, has
its fields, and serves blocks of rising heights (`ServersAssumption`); a page is asked for by two
numbers (`InvocationsAssumption`).

### BlockStream and Domains

`BlockStream` is a reader that connects, asks for the height and streams a range, again and
again, while the server may replace its chain: either an app, through `stream_block_range` and
its sink, or a wallet over the client that keeps what `is_continuous` accepts. `Domains`
mints tokens, makes channels with a token of their own or a given one, and lets each dial,
drop and redial; which streams share a circuit is Tor's rule (equal tokens), external.
`ChainsAssumption` says that a chain is held from its first block and linked, and that a hash
names one block: header continuity is worth what the hash function is.

## The runs

| run | checks | bounds |
|---|---|---|
| `parts`: lists | `RingTypeOK`, `NewestFirst`, `OneLivePerHeight`, `ClockNeverRunsBack`, `ImplementsWindow`, `HighlightIsPicked`, `StalledMeansOld` | 3 heights x 2 times, 3 rows, 3 clock entries, 4 insertions; 4 transactions in 2 rows; spacing 3, median of 2 |
| `parts`: search bar | `OneByteNeverPanics` | a letter, a space, a letter of two bytes; 3 bytes, 2 queries kept |
| `parts`: lwcli | `WholeAnswer`, `ShownOnce`, `FeeMissesOnlySprout`, `IdentityStandsAlone`, `TypedAsPrinted`, `BranchUntilUpgrade`, `LwcliEnds` | every command, every RPC failing, streams cut after 0 or 1 items; 12 transactions, one with a JoinSplit, height 4, 2 boundaries |
| `parts`: bindings | `OneEnding`, `KeptIsOneChain` | 3 chains that fork or end, 2 calls, streams cut after 0 to 2 blocks |
| `parts`: wallet | `CircuitsStayApart` | 3 tokens, 2 circuits, an endpoint that can be dialled and one that cannot |
| `search_bar` | `EditsNeverPanic`, violated: see below | as above |
| `sprout_fee` | `FeeNeverWrong`, violated: see below | as `parts`: lwcli |
| `tail` | `TailTypeOK`, `LiveRowsOnOneChain`, `NoGapInTail`, `TipIsShown`, `LiveEndsByError` | window 3, refetch depth 1, height 5, 2 reorgs, 1 failed request, 1 failed tip |
| `live` | `MinedBlockIsShown`, `OwedBlocksArrive`, `ReconnectsToLive`; `ContextArrives`, `KeysKeepFocusDrawn` | height 4, 1 reorg, 1 failed request; the block of `explorer`, no result lists |
| `resolver` | `ResolverTypeOK`, `NeverWrongTotal`, `GateHolds`, `NoDuplicateRows`, `SeqNamesOneTx`, `FeedsAgree`, `ConfirmedNeverAbsent`, `ResolversReport` | a child of an unconfirmed parent and of a confirmed funder among three transactions; 2 permits, 2 rows, 2 cycles, 3 seqs |
| `explorer` | `ExplorerTypeOK`, `FocusHasPane`, `CursorOnRow`, `NoOrphanJob` | a block of two transactions, one of them resolving and in the mempool; result lists of one and two |
| `tail_half_reorg`, `resolver_order`, `resolver_stale`, `explorer_stale`, `explorer_progress` | one documented claim each that the code does not keep, see below | as above |

The run `parts` checks those that share no state side by side: `part` picks one at the
start, the others stay as they began, so a state is a state of one of them. The lists are
themselves split in three (`ListNext`): what the tail's properties depend on, the mempool
and its keys, and the header. The parts share no variable but `view`, which only lets the
keys of one list act, and `blockTimes`, which both the tail and the header feed; and
`HighlightIsPicked` and `StalledMeansOld` each read the variables of one. `live` runs the
tail task or the search task, the keys and the frame in the same way (`MCLive`), on instances small
enough for liveness, with the fairness of the one that runs.

Why the bounds are enough. The windows are the code's, scaled down: `MAX_BLOCKS` 256 and
`REORG_DEPTH` 10 become 3 and 1, with the same order between them, so that a gap wider
than the window, a fork at the refetch depth and one block below it all occur within five
heights. Two reorgs let the chain come back to the branch it left. `MaxForkDepth =
ReorgDepth + 1` is an assumption about the environment, and the code's own: a fork deeper
than the refetch leaves rows of the old branch live (`RefetchFrom` has no way of knowing).
`MaxPending` bounds how far the App lags when a cycle *starts*; within a cycle the lag is
free. In `Resolver` two cycles with a late resolver of the first are enough for every race
between a report and a boundary. Only one transaction has inputs, shown once in each
cycle, and the detail pane looks up too: two permits let two lookups race on the cache and
make a third wait. In `Explorer`, `MaxReqs` and `MaxAnswers` bound what is in flight *when
a key is pressed*: a key pressed while an answer is queued commutes with that answer's
arrival for all but the race of an unreceived request, which is kept. In `Dashboard` three
rows and four insertions let a highlighted block be refilled, dimmed and cut off. In
`SearchBar` three bytes hold a word, a space and another, or a wide character beside a
narrow one. In `Lwcli` a boundary after a boundary shows the same mempool three times, and
a mined block in between activates the upgrade of `Schedule`. `CHECK_DEADLOCK FALSE`
stands wherever a bounded model really may come to rest (no more heights, seqs or
failures).

Fairness. `TailTask!FairSpec`: the task runs until its next request and the request
ends in time (`CycleStep`; failing is not fair, so failures may happen and need
not), and the App drains its channel (not paused for ever). No RPC of the tail task
has a timeout of its own, so this assumes that the transport ends a call
sooner or later. A mined block is
shown only if the tip can be read, so the failed tip request is left out of `live`:
with it, a boundary is announced with tip 0 and the block waits for the next one.
`Resolver!FairSpec`: strong fairness of `StartLook`, because tokio's semaphore
is FIFO, and a lookup that sees a permit come free again and again gets one;
weak fairness of the rest. `Explorer!FairSpec`: the search task is scheduled, its oldest job
ends, the App drains; no key has to be pressed. `MCParts!Fairness`: the process of `lwcli` runs
and the server closes the mempool stream at its next block, as lightwalletd does and `--follow`
relies on; the reader of stdout owes nothing.

## Where the code and its comments part

Each has a run that finds the execution; `PROJECT.json` quotes the comment.

- `search_bar`: the cursor is a byte index that Backspace, Left and Right move by one. After
  a letter of two bytes, Backspace removes at a byte inside it and the program panics.
- `sprout_fee`: `parse` reads the Sprout JoinSplits of an old transaction with the rest and sums
  the other pools only. A V4 transaction that leaves Sprout and has no transparent input is shown
  with a fee that misses what the JoinSplits move, often a negative one, as exact. Its moved
  value is read the same way: JoinSplit outputs do not hide it.
- `tail_half_reorg`: `Reorg` goes out before the blocks that replace the dimmed rows are
  fetched. If that request fails and the fork is gone by the next cycle, rows of
  the current chain stay dimmed.
- `resolver_order`: a resolver is spawned before its row is sent, so with everything in
  the cache its total can come first and is lost: the row stays pending.
- `resolver_stale`: a funder whose answer is empty or cannot be parsed is cached as unreadable for
  the life of the process, and stays so once it can be read. (An error status is not cached.)
- `explorer_stale`: `awaiting_tx` does not say which request it awaits, so the answer to a
  superseded one opens the pane and the one wanted is dropped.
- `explorer_progress`: a request that aborts a resolving job and then fails leaves the
  open pane with a progress nothing will clear.

Seen while modelling, with no comment that says otherwise, so no run reports them:

- results that arrive while a transaction of a block is open take the focus to a list that
  screens narrower than 120 columns do not draw, and that a wide one fades
  (`KeysKeepFocusDrawn` is about keys only, and its run has no result lists);
- a block mined between the read of the tip and the opening of the mempool stream is part of what
  the stream is opened at, so its row waits for the next block (`MinedBlockIsShown` starts from a
  stream that is open, and from a block above what it was opened at);
- `NoOrphanJob` is about panes that were closed. A mempool row or a result opened in place of a
  pane (after the results of a search took the focus from it) sends no request, so the
  job of the pane it replaces resolves on, its reports dropped, until the next `Transaction`
  or `CloseTx`;
- each search of the tip block feeds its time to the cadence clock again (`>=`), and a few
  intervals of zero read as syncing;
- the transaction pane opened from a mempool row is a copy: a total that arrives later patches the row
  and the pane stays at "resolving";
- a refill gives a height a new row, so a highlight on the old one is lost, not moved;
- a `BlockSummary` of the bindings has no previous hash, so an app cannot tell that a
  second range is of another chain.

## The proofs

Every safety property of a passing run, invariant or step property, is also a theorem, for
every value of the constants; so is the refinement `ImplementsWindow`. The theorems assume
the named `ASSUME`s of the modules, which TLC evaluates on the instances it checks, and in one
case more: `LiveRowsAlwaysOnOneChain` assumes `MaxForkDepth <= ReorgDepth + 1`, since a deeper fork
does leave rows of the old branch live.

| module | theorems | inductive invariant |
|---|---|---|
| `BlockRingProofs` | `RingTypeCorrect`, `TailStaysSorted`, `TailShowsOneLive`, `ClockStaysMonotone`, `RingImplementsWindow` | `RingInv` |
| `DashboardProofs` | `HighlightStaysPicked`, `StalledAlwaysMeansOld` | `RingInv`, `SeqNamesBlock`, `HighlightKept`, `ClockCoversRows` |
| `TailTaskProofs` | `TailTypeCorrect`, `NoGapInTailAlways`, `TipIsAlwaysShown`, `LiveRowsAlwaysOnOneChain`, `LiveAlwaysEndsByError` | `Shape` (with `RingInv`, `LiveOnTop`), `Newest`, `NoHole`, `TipsComing`, `OnChain`, `PhasesInOrder` |
| `ResolverProofs` | `ResolverTypeCorrect`, `GateAlwaysHolds`, `TotalsNeverWrong`, `SeqsNameOneTx`, `FeedsAlwaysAgree`, `ConfirmedStaysReadable`, `RowsNeverRepeat` | `Shape`, `GateInv`, `NamesInv`, `FeedsAgree`, `RowsInv` |
| `ExplorerProofs` | `ExplorerTypeCorrect`, `FocusAlwaysHasPane`, `CursorAlwaysOnRow`, `NoJobIsOrphan`, `KeysAlwaysKeepFocusDrawn` | `Shape` (with `Good`), `JobNeedsSearcher`, `JobWanted` |
| `SearchBarProofs` | `OneByteTextNeverPanics` | `Plain`, while nothing wide is typed |
| `DomainsProofs` | `CircuitsStayApartAlways` | `TokensBelowMint`, `SharedIsGiven`, `OnItsCircuit` |
| `ClientProofs` | `IdentityAlwaysAlone`, `TransactionsShownOnce`, `AnswerAlwaysWhole`, `TypedAlwaysAsPrinted`, `BranchStaysUntilUpgrade`, `FeeAlwaysMissesOnlySprout`, `KeptAlwaysOneChain`, `AlwaysOneEnding` | `Alone`, `Remembered`, `Answered`, `ShowsKnown`, `Decoded`, `FeesTell`; `Reading`, `Linked`, `Endings` |

Hardly any of the properties is inductive alone. The arguments:

**The tail.** `NewestFirst` needs to know that a fresh `seq` is above
every other, and `OneLivePerHeight` that the row `LivePos` finds is the only one, so
the inductive invariant is

    RingInv == RingTypeOK /\ NewestFirst /\ OneLivePerHeight /\ ClockNeverRunsBack /\ SeqsBelowNext

For an insertion: the position splits the sorted deque into the rows above
the block's height and the rest (`InsertPosShape`); the live row to be replaced, if any,
is in the lower part (`LivePosShape`), so removing it does not move the split, and the
position is right although it was found before (`PlaceShape`); the new row is the highest
of the lower part, and the later of its height because its seq exceeds every other
(`InsertKeepsRows`); truncation drops from the bottom. Dimming changes neither height nor
seq (`MarkKeepsInv`). A sorted deque holds no row twice and its last row is its oldest, so what
`truncate` cuts off is what the abstract window gives up, and every step of the deque is one of
the window or a stutter (`InsertIsWindowInsert`, `MarkIsWindowDim`). That "stalled"
means old rests on the newest time of the clock being no older than any row
(`ClockCoversRows`), and the highlight on a seq never being given to a second block.

**The tail task.** What the App will show depends on the updates still on their way, so the
invariants speak of rows and updates together: a block *stands* when it has a live row, or
one on its way, that no `Reorg` on its way dims. `NoHole`: at every height between one that
shows and the last filled, a block stands, or the height is owed, or the deque has no room
for the row above which the gap would be. `OnChain`: what stands lies on the chain last filled or is pushed
out, and while the task refetches all of it is below the refetch. With nothing on its way these are
`NoGapInTail` and `LiveRowsOnOneChain`. The attempt found the model wrong: `owed` was one Boolean,
cleared by any refetch, and TLC, given a larger window, showed a second and higher refetch that
clears what a first one still owed. It is a set of heights now.

**The resolver.** `GateHolds` counts permits held by lookups of any cycle: the set of
those in flight is finite and a lookup returns only the permit it took. `NamesInv` extends
`SeqNamesOneTx` to the unread updates, where a late report meets the boundary that clears its
row; `NeverWrongTotal` follows because a report carries the total of the transaction its seq
names. `RowsInv` counts what the stream may still send before the next boundary.

**The explorer.** `Good` is a statement about one App, kept by every key and by every
answer whenever it arrives. `NoOrphanJob` needs the channel: while nobody looks at or waits for
a transaction, a `CloseTx` with no `Transaction` behind it is on its way, or there is neither a job
nor a request that would start one (`JobWanted`).

**The client.** Every call returns an error, a message or a stream that is the messages
in their order or the first of them and an error (`CallIsReply`, `StreamOfStreams`). `Answered`
says that what is printed and what is left of the stream are together the answer; `ShowsKnown` that
whatever is printed or left shows txids of transactions there are, and reversing twice gives
the txid back; `FeesTell` that a printed fee is paid by a transaction of the printed txid, but for
what its JoinSplits move, by the arithmetic of `BalanceIsFee`: `FeeMissesOnlySprout` says both how
far the fee can be trusted (a transaction without JoinSplits has its exact one) and by how much
it is off. For the wallet, that each kept block sits on the one before is enough: a hash names one
block, so a block decides every block below it (`Beneath`). For the sink, the blocks still on
their way go on from the last one heard (`Heard`).

Sums, selections and sorted ranges are proved about by induction over a *set* of numbers
(`UpTo_n`, from the well-foundedness of `<`), which needs no operator parameter.

Only model-checked, because liveness under fairness and `ENABLED` are out of the prover's
reach: `MinedBlockIsShown`, `OwedBlocksArrive`, `ReconnectsToLive`, `ResolversReport`,
`ContextArrives`, `LwcliEnds`. The runs that expect a violation have nothing to prove.

## Not modelled, and why

- The protocol crates: generated from the proto files.
- What a frame looks like: text, colours, themes, the animated gradient (`dither.rs`,
  `sphere.rs`), the clipboard escape, the set-up of the terminal. Presentation, with no state
  that anything else reads. Which panes are drawn is in Screen.
- TLS, and the protocols of Tor and nym: other crates'. The SOCKS5 proxy of
  `test-support` relays bytes.
- The decoding of a transaction's bytes: the zcash crates'. `TxView` starts from the fields it yields.
- Two hazards have no property because the data that could tell right from wrong is not in the
  program: a partial answer of `drain_taddr`, and the copy in the transaction pane.

## The plan

Done: BlockWindow, BlockRing with its proofs, TailTask, Resolver, Explorer, in this
order, since the tail is what the explorer shows at all times, the resolver is the most
concurrent part, and navigation has the most states. Then Dashboard, Screen and SearchBar,
which complete the App, and Endpoint, Indexer, TxView, Lwcli, BlockStream and Domains,
which are the rest of the repository.

Proved: every safety property of these, the deque first, since TailTask and Dashboard are
built on it.

Left: the abstract specifications that would say more than the properties do, each with its
refinement proved step by step.

1. The resolver's rows and fees as two folds of one sequence of updates, which Resolver's
   `updates` and consumers implement.
2. The search task as a server that holds at most one transaction request, which
   `txJob`, its aborts and the answers on their way implement.
3. `lwcli` as one read of the server followed by its printing, for every command but the follow.
