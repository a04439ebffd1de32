------------------------------- MODULE Resolver -------------------------------
(***************************************************************************)
(* How a pending transaction gets its transparent input total: the mempool *)
(* stream of the tail's cycle (cycle, net.rs), the resolver tasks it       *)
(* spawns (spawn_resolve, funder_value), the gate and the funding cache    *)
(* they share, and the two consumers of the Update channel, the TUI's rows *)
(* (apply, app.rs) and the NDJSON feed (run, ndjson.rs).  A process has    *)
(* one of the two consumers; the model drives both from the same channel,  *)
(* each as it would run alone.                                             *)
(*                                                                         *)
(* The tasks run on a thread pool, so a spawned task may run before the    *)
(* line after its spawn.  A look at the pending set and the cache is one   *)
(* step, a request is answered in one step and its answer used in another. *)
(***************************************************************************)
EXTENDS Integers, Sequences, SequencesExt, FiniteSets

CONSTANTS
  Txid,          \* the transactions there are
  Vouts,         \* Vouts[t]: the transparent output values of t
  Prevouts,      \* Prevouts[t]: the outpoints t spends, [txid, index]
  FeeBase,       \* FeeBase[t]: the fee_base parse gives t
  Pool,          \* the transactions that may be in the mempool
  Confirmed,     \* the funders every server can read from the start
  GateSize,      \* RESOLVE_CONCURRENCY
  MaxRows,       \* MAX_ROWS
  MaxSeq,        \* bound on the rows of one behaviour
  MaxCycles,     \* bound on the connection cycles
  MaxPending     \* bound on the updates unread when a transaction is taken

ASSUME ResolverAssumption ==
  /\ Pool \subseteq Txid /\ Confirmed \subseteq Txid
  /\ Vouts \in [Txid -> Seq(Nat)]
  /\ \A t \in Txid : Prevouts[t] \in Seq([txid : Txid, index : Nat \ {0}])
  /\ FeeBase \in [Txid -> Int]
  /\ GateSize \in Nat \ {0} /\ MaxRows \in Nat \ {0}
  /\ MaxSeq \in Nat /\ MaxCycles \in Nat /\ MaxPending \in Nat

VARIABLES
  \* the server
  unsent,        \* what the open stream may still send
  known,         \* the transactions GetTransaction can return
  \* the tail's cycle
  cycle,         \* the number of the cycle
  pc,            \* "announce", "stream", or "send" between spawn and send
  cur,           \* the row about to be sent
  nextSeq,
  \* the resolvers
  inStream,      \* inStream[c]: the transactions cycle c offered
  cache,         \* cache[t]: "unknown", "values" or "absent"
  tasks,         \* tasks[s]: the resolver of row s, until it reports
  detailLooks,   \* lookups of the tx detail that hold a permit
  \* the channel and its consumers
  updates,
  rows,          \* the TUI's pending rows, newest first
  feeBase,       \* the NDJSON feed's fee_base: the rows it can finish
  patched        \* the fee the last line patched in, if any, and its transaction

serverVars   == <<unsent, known>>
cycleVars    == <<cycle, pc, cur, nextSeq, inStream>>
consumerVars == <<rows, feeBase, patched>>
vars == <<serverVars, cycleVars, cache, tasks, detailLooks, updates, consumerVars>>

None == -1       \* no value; a value is never negative

NoTx == "none"
NoRow == [seq |-> None, tx |-> NoTx]
NoPatch == [tx |-> NoTx, fee |-> 0]

-----------------------------------------------------------------------------
(* Helpers.  An operator whose name starts with Bug is a slip one could    *)
(* make in the one after it; no specification uses it.                     *)

\* vals.get(idx): nothing past the end.
ValueAt(t, i) == IF i <= Len(Vouts[t]) THEN Vouts[t][i] ELSE None

BugSum(vs) == FoldSeq(LAMBDA v, acc : IF v = None THEN acc ELSE v + acc, 0, vs)

\* sum::<Option<i64>>: nothing if any value is missing.
Sum(vs) ==
  IF \E i \in DOMAIN vs : vs[i] = None THEN None
  ELSE FoldSeq(LAMBDA v, acc : v + acc, 0, vs)

Send(u) == updates' = Append(updates, u)

\* The permits out: lookups that fetch, and those of the tx detail.
Fetching ==
  {x \in UNION {{<<s, i>> : i \in DOMAIN tasks[s].looks} : s \in DOMAIN tasks} :
     tasks[x[1]].looks[x[2]].state \in {"fetching", "answered"}}

BugPermitFree == Cardinality(Fetching) < GateSize
PermitFree == Cardinality(Fetching) + detailLooks < GateSize

Queued == [state |-> "queued", value |-> None]
Asking == [state |-> "fetching", value |-> None]
Found(v) == [state |-> "done", value |-> v]
Answered(kind) == [state |-> "answered", value |-> None, kind |-> kind]

Init ==
  /\ unsent = {}
  /\ known = Confirmed
  /\ cycle = 1 /\ pc = "announce" /\ cur = NoRow /\ nextSeq = 0
  /\ inStream = <<{}>>
  /\ cache = [t \in Txid |-> "unknown"]
  /\ tasks = <<>>
  /\ detailLooks = 0
  /\ updates = <<>>
  /\ rows = <<>> /\ feeBase = {} /\ patched = NoPatch

-----------------------------------------------------------------------------
(* The server.                                                             *)

\* A funder becomes readable: it reaches this server, or is mined.
ServerLearns ==
  \E t \in {op.txid : op \in UNION {Range(Prevouts[q]) : q \in Pool}} \ known :
    /\ known' = known \union {t}
    /\ UNCHANGED <<unsent, cycleVars, cache, tasks, detailLooks, updates, consumerVars>>

-----------------------------------------------------------------------------
(* The tail's cycle, from its announcement to the end of its stream.       *)

Announce ==
  /\ pc = "announce"
  /\ Send([type |-> "Block"])
  /\ pc' = "stream"
  /\ unsent' = Pool
  /\ UNCHANGED <<known, cycle, cur, nextSeq, inStream, cache, tasks, detailLooks,
                 consumerVars>>

Offer(t) ==
  inStream' = IF Vouts[t] = <<>> THEN inStream
              ELSE [inStream EXCEPT ![cycle] = @ \union {t}]

Spawn(s, t) ==
  tasks' = IF Prevouts[t] = <<>> THEN tasks
           ELSE [q \in DOMAIN tasks \union {s} |->
                   IF q = s THEN [tx |-> t, cycle |-> cycle,
                                  looks |-> [i \in DOMAIN Prevouts[t] |-> Queued]]
                   ELSE tasks[q]]

\* A streamed transaction: its outputs are offered, then its resolver runs.
TakeTx ==
  /\ pc = "stream" /\ nextSeq < MaxSeq /\ Len(updates) <= MaxPending
  /\ \E t \in unsent :
       /\ unsent' = unsent \ {t}
       /\ Offer(t)
       /\ Spawn(nextSeq, t)
       /\ cur' = [seq |-> nextSeq, tx |-> t]
  /\ nextSeq' = nextSeq + 1
  /\ pc' = "send"
  /\ UNCHANGED <<known, cycle, cache, detailLooks, updates, consumerVars>>

SendRow ==
  /\ pc = "send"
  /\ Send([type |-> "Tx", seq |-> cur.seq, tx |-> cur.tx])
  /\ cur' = NoRow
  /\ pc' = "stream"
  /\ UNCHANGED <<serverVars, cycle, nextSeq, inStream, cache, tasks, detailLooks,
                 consumerVars>>

BugNextCycleSeq == 0
NextCycleSeq == nextSeq

\* The stream ends, at a block or by an error: the next cycle has a pending
\* set of its own, and its rows go on from the same seq.
EndCycle ==
  /\ pc = "stream" /\ cycle < MaxCycles
  /\ unsent' = {}
  /\ cycle' = cycle + 1
  /\ inStream' = Append(inStream, {})
  /\ nextSeq' = NextCycleSeq
  /\ pc' = "announce"
  /\ UNCHANGED <<known, cur, cache, tasks, detailLooks, updates, consumerVars>>

-----------------------------------------------------------------------------
(* The resolvers.                                                          *)

SetLook(s, i, look) == tasks' = [tasks EXCEPT ![s].looks[i] = look]

\* A prevout's turn: with a permit, the pending set of its cycle, the cache,
\* and only then a request.
StartLook ==
  \E s \in DOMAIN tasks : \E i \in DOMAIN tasks[s].looks :
    LET op == Prevouts[tasks[s].tx][i]
        v == ValueAt(op.txid, op.index)
        pending == op.txid \in inStream[tasks[s].cycle] /\ v # None
    IN  /\ tasks[s].looks[i] = Queued
        /\ PermitFree
        /\ \/ pending /\ SetLook(s, i, Found(v))
           \/ ~pending /\ cache[op.txid] = "values" /\ SetLook(s, i, Found(v))
           \/ ~pending /\ cache[op.txid] = "absent" /\ SetLook(s, i, Found(None))
           \/ ~pending /\ cache[op.txid] = "unknown" /\ SetLook(s, i, Asking)
        /\ UNCHANGED <<serverVars, cycleVars, cache, detailLooks, updates, consumerVars>>

\* The server answers a GetTransaction, or the request fails.  Absent is an
\* answer that is empty or that parse cannot read; an error of any status is
\* unavailable.
Answer ==
  \E s \in DOMAIN tasks : \E i \in DOMAIN tasks[s].looks :
    /\ tasks[s].looks[i] = Asking
    /\ \E kind \in {IF Prevouts[tasks[s].tx][i].txid \in known THEN "values" ELSE "absent",
                    "unavailable"} :
         SetLook(s, i, Answered(kind))
    /\ UNCHANGED <<serverVars, cycleVars, cache, detailLooks, updates, consumerVars>>

BugCached(t, kind) == IF kind = "values" THEN "values" ELSE "absent"

\* A definite answer is cached, a transient failure is not.
Cached(t, kind) == IF kind = "unavailable" THEN cache[t] ELSE kind

\* The answer is cached and read, and the permit given back.
UseAnswer ==
  \E s \in DOMAIN tasks : \E i \in DOMAIN tasks[s].looks :
    LET op == Prevouts[tasks[s].tx][i]
        look == tasks[s].looks[i]
    IN  /\ look.state = "answered"
        /\ cache' = [cache EXCEPT ![op.txid] = Cached(op.txid, look.kind)]
        /\ SetLook(s, i, Found(IF look.kind = "values" THEN ValueAt(op.txid, op.index)
                               ELSE None))
        /\ UNCHANGED <<serverVars, cycleVars, detailLooks, updates, consumerVars>>

\* Every prevout is in: report the total and end.
Report ==
  \E s \in DOMAIN tasks :
    /\ \A i \in DOMAIN tasks[s].looks : tasks[s].looks[i].state = "done"
    /\ Send([type |-> "ValueResolved", seq |-> s,
             total |-> Sum([i \in DOMAIN tasks[s].looks |-> tasks[s].looks[i].value])])
    /\ tasks' = [q \in DOMAIN tasks \ {s} |-> tasks[q]]
    /\ UNCHANGED <<serverVars, cycleVars, cache, detailLooks, consumerVars>>

\* The tx detail's funder_value takes its permits from the same gate, and an
\* aborted search gives its permits back.
DetailLook ==
  /\ PermitFree
  /\ detailLooks' = detailLooks + 1
  /\ UNCHANGED <<serverVars, cycleVars, cache, tasks, updates, consumerVars>>

BugDetailDone == FALSE /\ UNCHANGED vars
DetailDone ==
  /\ detailLooks > 0
  /\ detailLooks' = detailLooks - 1
  /\ UNCHANGED <<serverVars, cycleVars, cache, tasks, updates, consumerVars>>

-----------------------------------------------------------------------------
(* The consumers.                                                          *)

NewRow(u) ==
  [seq |-> u.seq, tx |-> u.tx,
   state |-> IF Prevouts[u.tx] = <<>> THEN "none" ELSE "pending", total |-> None]

BugPushedRows(u) == <<NewRow(u)>> \o rows

\* push_front, then truncate.
PushedRows(u) ==
  SubSeq(<<NewRow(u)>> \o rows, 1, IF Len(rows) < MaxRows THEN Len(rows) + 1 ELSE MaxRows)

BugClearedRows == rows

\* A cycle's Block clears the pending rows, whether or not the tip moved.
ClearedRows == <<>>

Patchable(r, u) == r.seq = u.seq /\ r.state = "pending"

\* ParsedTx::resolve, on the row of that seq if it is still there.
PatchedRows(u) ==
  [i \in DOMAIN rows |->
     IF Patchable(rows[i], u)
     THEN [rows[i] EXCEPT !.state = IF u.total = None THEN "unresolvable" ELSE "known",
                          !.total = u.total]
     ELSE rows[i]]

TxOf(s) == CHOOSE t \in Txid : [seq |-> s, tx |-> t] \in feeBase
HasBase(s) == \E t \in Txid : [seq |-> s, tx |-> t] \in feeBase

BugKeptBases(u) ==
  CASE u.type = "Block"         -> {}
    [] u.type = "Tx"            -> {[seq |-> u.seq, tx |-> u.tx]}
    [] u.type = "ValueResolved" -> {b \in feeBase : b.seq # u.seq}

\* A Block clears the map, a Tx that awaits a total enters it, a total leaves.
KeptBases(u) ==
  CASE u.type = "Block"         -> {}
    [] u.type = "Tx"            -> IF Prevouts[u.tx] = <<>> THEN feeBase
                                   ELSE feeBase \union {[seq |-> u.seq, tx |-> u.tx]}
    [] u.type = "ValueResolved" -> {b \in feeBase : b.seq # u.seq}

\* A value_resolved line has a fee if both the total and the base are there.
Line(u) ==
  IF u.total # None /\ HasBase(u.seq)
  THEN [tx |-> TxOf(u.seq), fee |-> FeeBase[TxOf(u.seq)] + u.total]
  ELSE NoPatch

Consume ==
  /\ updates # <<>>
  /\ updates' = Tail(updates)
  /\ LET u == Head(updates)
     IN  /\ feeBase' = KeptBases(u)
         /\ CASE u.type = "Block" ->
                   rows' = ClearedRows /\ patched' = NoPatch
              [] u.type = "Tx" ->
                   rows' = PushedRows(u) /\ patched' = NoPatch
              [] u.type = "ValueResolved" ->
                   rows' = PatchedRows(u) /\ patched' = Line(u)
  /\ UNCHANGED <<serverVars, cycleVars, cache, tasks, detailLooks>>

CycleStep == Announce \/ TakeTx \/ SendRow \/ EndCycle
Resolve == StartLook \/ Answer \/ UseAnswer \/ Report
Detail == DetailLook \/ DetailDone

Next == ServerLearns \/ CycleStep \/ Resolve \/ Detail \/ Consume

Spec == Init /\ [][Next]_vars

\* A ready task gets to run, a request is answered or fails, a permit comes
\* back, and the consumer reads.  The semaphore serves its waiters in order,
\* so a lookup that can start again and again does start.
FairSpec ==
  /\ Spec
  /\ SF_vars(StartLook) /\ WF_vars(Answer) /\ WF_vars(UseAnswer) /\ WF_vars(Report)
  /\ WF_vars(DetailDone) /\ WF_vars(SendRow) /\ WF_vars(Consume)

-----------------------------------------------------------------------------
(* Properties                                                              *)

SeqTx == [seq : Nat, tx : Txid]

\* The type of the state; the pending list stays within its cap.
ResolverTypeOK ==
  /\ unsent \subseteq Pool /\ known \subseteq Txid
  /\ cycle \in Nat /\ nextSeq \in Nat
  /\ pc \in {"announce", "stream", "send"}
  /\ cur \in SeqTx \union {NoRow}
  /\ inStream \in Seq(SUBSET Txid) /\ Len(inStream) = cycle
  /\ cache \in [Txid -> {"unknown", "values", "absent"}]
  /\ \A s \in DOMAIN tasks :
       /\ s \in Nat /\ tasks[s].tx \in Pool /\ tasks[s].cycle \in 1..cycle
       /\ DOMAIN tasks[s].looks = DOMAIN Prevouts[tasks[s].tx]
  /\ \A i \in DOMAIN rows :
       /\ rows[i].seq \in Nat /\ rows[i].tx \in Pool
       /\ rows[i].state \in {"none", "pending", "known", "unresolvable"}
  /\ Len(rows) <= MaxRows
  /\ feeBase \subseteq SeqTx

TrueTotal(t) ==
  Sum([i \in DOMAIN Prevouts[t] |-> ValueAt(Prevouts[t][i].txid, Prevouts[t][i].index)])

\* "Report that, never a wrong partial sum" (net.rs:427-428): an input total
\* that is shown is the sum over every prevout of that transaction, and a fee
\* the NDJSON feed patches in is the exact one.
NeverWrongTotal ==
  /\ \A i \in DOMAIN rows :
       rows[i].state = "known" => rows[i].total = TrueTotal(rows[i].tx)
  /\ patched # NoPatch => patched.fee = FeeBase[patched.tx] + TrueTotal(patched.tx)

\* The gate bounds the lookups of the mempool resolvers and of the tx detail
\* together, whatever cycles the resolvers are from.
GateHolds == Cardinality(Fetching) + detailLooks <= GateSize

\* A reconnect re-sends the mempool: a transaction is never listed twice.
NoDuplicateRows ==
  \A i, j \in DOMAIN rows : rows[i].tx = rows[j].tx => i = j

\* A seq names one transaction for the whole session: a late report of an
\* earlier cycle cannot patch a row, or a fee, of another transaction.
SeqNamesOneTx ==
  LET named == {[seq |-> s, tx |-> tasks[s].tx] : s \in DOMAIN tasks}
                 \union {[seq |-> rows[i].seq, tx |-> rows[i].tx] : i \in DOMAIN rows}
                 \union feeBase \union ({cur} \ {NoRow})
  IN  \A a, b \in named : a.seq = b.seq => a.tx = b.tx

\* The two consumers agree: a row the TUI shows as pending is one the NDJSON
\* feed still holds the base of, so the total that turns one exact also
\* finishes the fee of the other.
FeedsAgree ==
  \A i \in DOMAIN rows :
    rows[i].state = "pending" => [seq |-> rows[i].seq, tx |-> rows[i].tx] \in feeBase

\* A failed request never makes a funder that every server can read
\* unresolvable for the spenders that come later.
ConfirmedNeverAbsent == \A t \in Confirmed : cache[t] # "absent"

\* Every resolver reports, however the gate is shared: as the rows of a
\* behaviour are bounded, one that never did would be left over for ever.
ResolversReport == []<>(DOMAIN tasks = {})

\* "A transparent input total arrives after its transaction" (ndjson.rs:8,
\* and app.rs:155-158): no report is sent before its row.
TotalAfterTx ==
  \A i \in DOMAIN updates : updates[i].type = "ValueResolved" => updates[i].seq # cur.seq

\* "nothing here goes stale" (net.rs:91): a funder cached as unreadable is one
\* the server still cannot read.
CacheNeverStale == \A t \in Txid : cache[t] = "absent" => t \notin known

=============================================================================
