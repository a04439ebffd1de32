----------------------------- MODULE Endpoint -----------------------------
(***************************************************************************)
(* What an endpoint answers (crates/test-support: the in-memory server of  *)
(* both variants), as functions of the server's state and of the request.  *)
(* A reply is one message, a stream of items, or an error status; an item  *)
(* is a message or the error that ends the stream.  A fault is a status    *)
(* the server answers an RPC with, and a stream fault lets some items      *)
(* through first: a connection dropped half way.                           *)
(*                                                                         *)
(* An operator whose name starts with Bug is a slip one could make in the  *)
(* one after it; no specification uses it.                                 *)
(***************************************************************************)
EXTENDS Integers, Sequences, FiniteSets, SequencesExt, Functions

One(msg) == [kind |-> "one", msg |-> msg]
Stream(items) == [kind |-> "stream", items |-> items]
Err(status) == [kind |-> "err", status |-> status]
Item(msg) == [ok |-> TRUE, msg |-> msg]
BadItem(status) == [ok |-> FALSE, status |-> status]
Empty == [is |-> "empty"]

\* check(): a fault answers in place of the handler.
Checked(s, rpc, reply) == IF rpc \in DOMAIN s.faults THEN Err(s.faults[rpc]) ELSE reply

Take(seq, n) == SubSeq(seq, 1, IF n < Len(seq) THEN n ELSE Len(seq))
Skip(seq, n) == SubSeq(seq, n + 1, Len(seq))

\* The items of a sequence at some of its indices, and those that pass a test,
\* in their order: SelectSeq, by a definition that proofs can open.
ItemsAt(seq, indices) ==
    LET upto[i \in 0..Len(seq)] ==
            IF i = 0 THEN <<>>
            ELSE IF i \in indices THEN Append(upto[i - 1], seq[i]) ELSE upto[i - 1]
    IN  upto[Len(seq)]
Where(seq, Test(_)) == ItemsAt(seq, {i \in DOMAIN seq : Test(seq[i])})

\* stream_of(): the items, or the first of them and then the error.
StreamOf(s, rpc, msgs) ==
    LET items == [i \in DOMAIN msgs |-> Item(msgs[i])]
    IN  Stream(IF rpc \in DOMAIN s.streamFaults
               THEN Append(Take(items, s.streamFaults[rpc].after),
                           BadItem(s.streamFaults[rpc].status))
               ELSE items)

\* The first block of the height in the chain as it is held.
BlockAt(s, height) ==
    LET found == Where(s.blocks, LAMBDA b : b.height = height)
    IN  IF found = <<>> THEN Err("not_found") ELSE One(found[1])

Entry(map, key, status) == IF key \in DOMAIN map THEN One(map[key]) ELSE Err(status)

GetLatestBlock(s) ==
    Checked(s, "GetLatestBlock",
        IF s.blocks = <<>> THEN Err("unavailable")
        ELSE One([height |-> Last(s.blocks).height, hash |-> Last(s.blocks).hash]))

GetBlock(s, arg) == Checked(s, "GetBlock", BlockAt(s, arg.height))

ByHeight(blocks) ==
    CHOOSE sorted \in [DOMAIN blocks -> ToSet(blocks)] :
        /\ ToSet(sorted) = ToSet(blocks)
        /\ \A i, j \in DOMAIN sorted :
              i < j => sorted[i] # sorted[j] /\ sorted[i].height <= sorted[j].height

\* The blocks between the two heights, in the order they were named.
GetBlockRange(s, arg) ==
    LET low  == IF arg.start < arg.end THEN arg.start ELSE arg.end
        high == IF arg.start < arg.end THEN arg.end ELSE arg.start
        sorted == ByHeight(Where(s.blocks, LAMBDA b : b.height \in low..high))
    IN  Checked(s, "GetBlockRange",
                StreamOf(s, "GetBlockRange",
                         IF arg.start > arg.end THEN Reverse(sorted) ELSE sorted))

Unimplemented == Err("unimplemented")

GetTransaction(s, arg) ==
    Checked(s, "GetTransaction", Entry(s.transactions, arg.hash, "not_found"))

SendTransaction(s) == Checked(s, "SendTransaction", One([errorCode |-> 0]))

TaddressMatches(s, arg) ==
    IF arg.address \in DOMAIN s.taddressTxs
    THEN Where(s.taddressTxs[arg.address],
               LAMBDA tx : tx.height >= arg.start /\ tx.height <= arg.end)
    ELSE <<>>

GetTaddressTxids(s, arg) ==
    Checked(s, "GetTaddressTxids", StreamOf(s, "GetTaddressTxids", TaddressMatches(s, arg)))

GetTaddressTransactions(s, arg) ==
    Checked(s, "GetTaddressTransactions",
            StreamOf(s, "GetTaddressTransactions", TaddressMatches(s, arg)))

GetTaddressBalance(s) == Checked(s, "GetTaddressBalance", One([valueZat |-> s.balance]))

\* The client streams its addresses; the server keeps them in order.
GetTaddressBalanceStream(s) ==
    Checked(s, "GetTaddressBalanceStream", One([valueZat |-> s.balance]))

\* A transaction whose txid ends with an excluded suffix is left out.
GetMempoolTx(s, arg) ==
    Checked(s, "GetMempoolTx",
        StreamOf(s, "GetMempoolTx",
            Where(s.mempoolTxs, LAMBDA tx :
                ~ \E suffix \in arg.exclude : IsSuffix(suffix, tx.txid))))

GetMempoolStream(s) ==
    Checked(s, "GetMempoolStream", StreamOf(s, "GetMempoolStream", s.mempool))

GetTreeState(s, arg) == Checked(s, "GetTreeState", Entry(s.trees, arg.height, "not_found"))

GetLatestTreeState(s) ==
    Checked(s, "GetLatestTreeState",
        IF DOMAIN s.trees = {} THEN Err("unavailable")
        ELSE One(s.trees[CHOOSE h \in DOMAIN s.trees : \A g \in DOMAIN s.trees : g <= h]))

\* max_entries of 0 serves all.
UpTo(seq, max) == IF max > 0 THEN Take(seq, max) ELSE seq

GetSubtreeRoots(s, arg) ==
    Checked(s, "GetSubtreeRoots",
            StreamOf(s, "GetSubtreeRoots", UpTo(Skip(s.roots, arg.start), arg.max)))

UtxosMatching(s, arg) ==
    UpTo(Where(s.utxos, LAMBDA u : u.height >= arg.start), arg.max)

GetAddressUtxos(s, arg) ==
    Checked(s, "GetAddressUtxos", One([addressUtxos |-> UtxosMatching(s, arg)]))

GetAddressUtxosStream(s, arg) ==
    Checked(s, "GetAddressUtxosStream",
            StreamOf(s, "GetAddressUtxosStream", UtxosMatching(s, arg)))

GetLightdInfo(s) == Checked(s, "GetLightdInfo", One(s.info))
Ping(s) == Checked(s, "Ping", One([entry |-> 0, exit |-> 0]))
GetRoster(s) == Checked(s, "GetRoster", One([data |-> s.roster]))
GetBondInfo(s, arg) == Checked(s, "GetBondInfo", Entry(s.bonds, arg.key, "not_found"))
RequestFaucetDonation(s) == Checked(s, "RequestFaucetDonation", One([amount |-> s.faucet]))

CrosslinkRpcs == {"GetRoster", "GetBondInfo", "RequestFaucetDonation"}

\* The service: one handler per RPC.  A canonical server has no overlay RPC.
Answer(s, req) ==
    IF req.rpc \in CrosslinkRpcs /\ s.variant = "canonical" THEN Unimplemented ELSE
    CASE req.rpc = "GetLatestBlock" -> GetLatestBlock(s)
      [] req.rpc = "GetBlock" -> GetBlock(s, req.arg)
      [] req.rpc = "GetBlockRange" -> GetBlockRange(s, req.arg)
      [] req.rpc = "GetTransaction" -> GetTransaction(s, req.arg)
      [] req.rpc = "SendTransaction" -> SendTransaction(s)
      [] req.rpc = "GetTaddressTxids" -> GetTaddressTxids(s, req.arg)
      [] req.rpc = "GetTaddressTransactions" -> GetTaddressTransactions(s, req.arg)
      [] req.rpc = "GetTaddressBalance" -> GetTaddressBalance(s)
      [] req.rpc = "GetTaddressBalanceStream" -> GetTaddressBalanceStream(s)
      [] req.rpc = "GetMempoolTx" -> GetMempoolTx(s, req.arg)
      [] req.rpc = "GetMempoolStream" -> GetMempoolStream(s)
      [] req.rpc = "GetTreeState" -> GetTreeState(s, req.arg)
      [] req.rpc = "GetLatestTreeState" -> GetLatestTreeState(s)
      [] req.rpc = "GetSubtreeRoots" -> GetSubtreeRoots(s, req.arg)
      [] req.rpc = "GetAddressUtxos" -> GetAddressUtxos(s, req.arg)
      [] req.rpc = "GetAddressUtxosStream" -> GetAddressUtxosStream(s, req.arg)
      [] req.rpc = "GetLightdInfo" -> GetLightdInfo(s)
      [] req.rpc = "Ping" -> Ping(s)
      [] req.rpc = "GetRoster" -> GetRoster(s)
      [] req.rpc = "GetBondInfo" -> GetBondInfo(s, req.arg)
      [] req.rpc = "RequestFaucetDonation" -> RequestFaucetDonation(s)
      [] OTHER -> Unimplemented

\* What the request leaves behind: a transaction in the inbox, the addresses
\* of a balance query.  A faulted RPC leaves nothing.
AfterRequest(s, req) ==
    IF req.rpc \in DOMAIN s.faults THEN s ELSE
    CASE req.rpc = "SendTransaction" -> [s EXCEPT !.sent = Append(@, req.arg.data)]
      [] req.rpc = "GetTaddressBalanceStream" ->
            [s EXCEPT !.queries = @ \o req.arg.addresses]
      [] OTHER -> s

\* linked_blocks(): a hash-linked run; fork names the branch of its hashes.
MockHash(fork, height) == <<fork, height>>
LinkedBlocks(fork, start, len) ==
    [i \in 1..len |-> [height |-> start + i - 1,
                       hash   |-> MockHash(fork, start + i - 1),
                       prevHash |-> IF start + i = 1 THEN <<0, 0>>
                                  ELSE MockHash(fork, start + i - 2)]]

ReplaceChain(s, blocks) == [s EXCEPT !.blocks = blocks]

\* is_continuous(): cur sits directly on prev.
BugIsContinuous(prev, cur) == cur.height > 0 /\ cur.height - 1 = prev.height
IsContinuous(prev, cur) ==
    cur.height > 0 /\ cur.height - 1 = prev.height /\ cur.prevHash = prev.hash

\* An empty server, and the builders: each sets what one answer is made of.
NewServer(variant) ==
    [variant |-> variant, blocks |-> <<>>, trees |-> <<>>, transactions |-> <<>>,
     taddressTxs |-> <<>>, balance |-> 0, mempoolTxs |-> <<>>, mempool |-> <<>>,
     utxos |-> <<>>, roots |-> <<>>, info |-> [chain |-> "", branch |-> "", sapling |-> 0,
     pending |-> "", pendingHeight |-> 0], roster |-> <<>>, bonds |-> <<>>, faucet |-> 0,
     faults |-> <<>>, streamFaults |-> <<>>, sent |-> <<>>, queries |-> <<>>]

IsSequence(seq) == seq \in Seq(ToSet(seq))

\* Blocks of rising heights: a part of one chain.
Rising(blocks) ==
    /\ \A i \in DOMAIN blocks : blocks[i].height \in Nat
    /\ \A i, j \in DOMAIN blocks : i < j => blocks[i].height < blocks[j].height

\* The server's fields, the ordered ones sequences; a stream breaks after a
\* number of items.
IsServer(s) ==
    /\ s = [field \in DOMAIN NewServer("canonical") |-> s[field]]
    /\ \A field \in {"blocks", "mempoolTxs", "mempool", "utxos", "roots"} : IsSequence(s[field])
    /\ Rising(s.blocks)
    /\ \A address \in DOMAIN s.taddressTxs : IsSequence(s.taddressTxs[address])
    /\ \A rpc \in DOMAIN s.streamFaults : s.streamFaults[rpc].after \in Nat
============================================================================
