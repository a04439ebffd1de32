------------------------------- MODULE Lwcli -------------------------------
(***************************************************************************)
(* The command line tool (tools/cli): one process, one channel, one        *)
(* command.  The process checks what it was given, connects, reads its     *)
(* argument, makes its call and prints the answer; get-mempool-stream      *)
(* makes two calls first and may subscribe again at every block boundary.  *)
(*                                                                         *)
(* The server moves only under get-mempool-stream: every other command     *)
(* reads it once, so a server that moved is just another first state.      *)
(*                                                                         *)
(* An operator whose name starts with Bug is a slip one could make in the  *)
(* one after it; no specification uses it.                                 *)
(***************************************************************************)
EXTENDS Indexer, TxView

CONSTANTS
    Invocations,    \* the command lines that may be given
    Servers,        \* the endpoints one may be pointed at
    Raws,           \* the transactions there are
    Pool,           \* those that may enter the mempool meanwhile
    MaxHeight,      \* blocks are mined up to this height
    MaxBoundaries   \* a follow is watched over this many boundaries

Txids == {raw.id : raw \in Raws}

\* What a transaction moves is counted in numbers, one that spends no output
\* has none to look up, and only the old versions have JoinSplits.
ASSUME RawsAssumption ==
    \A raw \in Raws :
        /\ raw.funds \in Seq(Int) /\ raw.vout \in Seq(Int)
        /\ raw.vin = <<>> => raw.funds = <<>>
        /\ \A pool \in TxPools :
              raw.bundles[pool].takes \in Int /\ raw.bundles[pool].makes \in Int
        /\ raw.bundles["sprout"] # NoBundle => raw.version \in JoinSplitVersions
        /\ raw.staking = NoStake \/ raw.staking.amount \in Int

\* A server knows the transactions there are, by ids of the right length.
ASSUME ServersAssumption ==
    /\ Pool \subseteq Raws
    /\ \A id \in Txids : IsSequence(id) /\ Len(id) = HashBytes
    /\ \A s \in Servers :
          /\ IsServer(s)
          /\ s.mempool \in Seq([data : Raws, height : Nat])
          /\ s.mempoolTxs \in Seq([txid : Txids])
          /\ s.utxos \in Seq([txid : Txids, height : Nat])

VARIABLES
    cli,        \* the command line
    pc,         \* where the process is
    server,     \* the endpoint
    rpcs,       \* the requests put on the process's channel
    items,      \* what is left of the open stream
    out,        \* the lines on stdout
    pipe,       \* whether the reader of stdout is still there
    exit,       \* how the process ended
    chain, tip, \* what the mempool stream is decoded under
    seen,       \* the txids a follow has shown
    boundaries

lwcliVars == <<cli, pc, server, rpcs, items, out, pipe, exit, chain, tip, seen, boundaries>>

(***************************************************************************)
(* The command line.                                                       *)
(***************************************************************************)
CrosslinkOnly(cmd) == cmd \in {"get-roster", "get-bond-info", "request-faucet-donation"}

Refused == "refused"

VariantOf(c) ==
    IF CrosslinkOnly(c.cmd) /\ c.variant # "crosslink" THEN Refused
    ELSE IF c.variant = None THEN "canonical" ELSE c.variant

\* --nym-socks5 sets an address and selects nothing.
TransportOf(c) ==
    IF c.nymSocks5 /\ c.transport # "nym" THEN Refused
    ELSE IF c.transport = None THEN "direct" ELSE c.transport

\* A txid is typed in display order and sent in wire order.
ParseTxid(typed) == [ok |-> typed.hex /\ Len(typed.bytes) = HashBytes,
                     bytes |-> Reverse(typed.bytes)]
ParseTxHex(typed) == [ok |-> typed.hex /\ typed.bytes # <<>>, bytes |-> typed.bytes]

\* What is read of the argument once the channel is open.
ArgumentOK(c) ==
    CASE c.cmd = "get-transaction" -> ParseTxid(c.arg.txid).ok
      [] c.cmd = "send-transaction" -> ParseTxHex(c.arg.tx).ok
      [] c.cmd = "get-mempool-tx" -> \A suffix \in c.arg.exclude : suffix.hex
      [] c.cmd = "get-bond-info" -> c.arg.key.hex
      [] c.cmd = "get-mempool-stream" -> ~(c.arg.follow /\ c.output = "debug")
      [] OTHER -> TRUE

SyncMethod(c) ==
    CASE c.cmd = "get-latest-height" -> [call |-> "get_latest_height"]
      [] c.cmd = "get-block" -> [call |-> "get_block", height |-> c.arg.height]
      [] c.cmd = "get-block-range" ->
            [call |-> "get_block_range", start |-> c.arg.start, end |-> c.arg.end]
      [] c.cmd = "get-tree-state" -> [call |-> "get_tree_state", height |-> c.arg.height]
      [] c.cmd = "get-latest-tree-state" -> [call |-> "get_latest_tree_state"]

SyncCmds == {"get-latest-height", "get-block", "get-block-range", "get-tree-state",
             "get-latest-tree-state"}

AddressMethod(c, call) ==
    [call |-> call, address |-> c.arg.address, start |-> c.arg.start, end |-> c.arg.end]

IdentityMethod(c) ==
    CASE c.cmd = "get-transaction" ->
            [call |-> "get_transaction", txid |-> ParseTxid(c.arg.txid).bytes]
      [] c.cmd = "send-transaction" ->
            [call |-> "send_transaction", data |-> ParseTxHex(c.arg.tx).bytes]
      [] c.cmd = "get-taddress-transactions" -> AddressMethod(c, "get_taddress_transactions")
      [] c.cmd = "get-taddress-txids" -> AddressMethod(c, "get_taddress_txids")
      [] c.cmd = "get-taddress-balance" ->
            [call |-> "get_taddress_balance", addresses |-> c.arg.addresses]
      [] c.cmd = "get-taddress-balance-stream" ->
            [call |-> "get_taddress_balance_stream", addresses |-> c.arg.addresses]
      [] c.cmd = "get-mempool-tx" ->
            [call |-> "get_mempool_tx", exclude |-> {x.bytes : x \in c.arg.exclude}]

IdentityCmds == {"get-transaction", "send-transaction", "get-taddress-transactions",
                 "get-taddress-txids", "get-taddress-balance", "get-taddress-balance-stream",
                 "get-mempool-tx"}

OtherMethod(c) ==
    CASE c.cmd = "get-subtree-roots" ->
            [call |-> "get_subtree_roots", start |-> c.arg.start, max |-> c.arg.max]
      [] c.cmd = "get-address-utxos" ->
            [call |-> "get_address_utxos", start |-> c.arg.start, max |-> c.arg.max]
      [] c.cmd = "get-address-utxos-stream" ->
            [call |-> "get_address_utxos_stream", start |-> c.arg.start, max |-> c.arg.max]
      [] c.cmd = "get-lightd-info" -> [call |-> "get_lightd_info"]
      [] c.cmd = "ping" -> [call |-> "ping"]
      [] c.cmd = "get-block-nullifiers" ->
            [call |-> "get_block_nullifiers", height |-> c.arg.height]
      [] c.cmd = "get-block-range-nullifiers" ->
            [call |-> "get_block_range_nullifiers", start |-> c.arg.start, end |-> c.arg.end]
      [] c.cmd = "get-roster" -> [call |-> "get_roster"]
      [] c.cmd = "get-bond-info" -> [call |-> "get_bond_info", key |-> c.arg.key.bytes]
      [] c.cmd = "request-faucet-donation" ->
            [call |-> "request_faucet_donation", address |-> c.arg.address]

OtherCmds == {"get-subtree-roots", "get-address-utxos", "get-address-utxos-stream",
              "get-lightd-info", "ping", "get-block-nullifiers", "get-block-range-nullifiers",
              "get-roster", "get-bond-info", "request-faucet-donation"}

\* A page is asked for by two numbers.
ASSUME InvocationsAssumption ==
    \A c \in Invocations :
        /\ c.cmd \in SyncCmds \cup IdentityCmds \cup OtherCmds
                       \cup {"get-mempool-stream", "completions"}
        /\ c.cmd \in {"get-subtree-roots", "get-address-utxos", "get-address-utxos-stream"} =>
              c.arg.start \in Nat /\ c.arg.max \in Nat

Method(c) ==
    CASE c.cmd \in SyncCmds -> SyncMethod(c)
      [] c.cmd \in IdentityCmds -> IdentityMethod(c)
      [] OTHER -> OtherMethod(c)

\* The message type an answer is rendered as.
TypeName(c) ==
    CASE c.cmd \in {"get-block", "get-block-range", "get-block-nullifiers",
                    "get-block-range-nullifiers"} -> "CompactBlock"
      [] c.cmd \in {"get-tree-state", "get-latest-tree-state"} -> "TreeState"
      [] c.cmd \in {"get-transaction", "get-taddress-transactions", "get-taddress-txids"} ->
            "RawTransaction"
      [] c.cmd = "get-mempool-tx" -> "CompactTx"
      [] c.cmd = "get-subtree-roots" -> "SubtreeRoot"
      [] c.cmd = "get-address-utxos" -> "GetAddressUtxosReplyList"
      [] c.cmd = "get-address-utxos-stream" -> "GetAddressUtxosReply"
      [] OTHER -> "Other"

(***************************************************************************)
(* Rendering.  A txid or a block hash prints reversed, in display order;   *)
(* every other bytes field prints as it is on the wire.                    *)
(***************************************************************************)
BugDisplayOrder == {<<"CompactBlock", "hash">>, <<"CompactBlock", "prevHash">>,
                    <<"CompactTx", "txid">>, <<"SubtreeRoot", "completingBlockHash">>}
DisplayOrder ==
    {<<"BlockID", "hash">>, <<"TxFilter", "hash">>, <<"CompactBlock", "hash">>,
     <<"CompactBlock", "prevHash">>, <<"CompactTx", "txid">>, <<"CompactTxIn", "prevoutTxid">>,
     <<"SubtreeRoot", "completingBlockHash">>, <<"GetAddressUtxosReply", "txid">>}

BytesJson(type, field, bytes) ==
    IF <<type, field>> \in DisplayOrder THEN Reverse(bytes) ELSE bytes

\* Every field is printed, defaults included; a list prints each of its items.
BytesFields == {"hash", "prevHash", "txid", "completingBlockHash", "rootHash", "data", "bondKey"}
FieldsJson(type, msg) ==
    [f \in DOMAIN msg |-> IF f \in BytesFields THEN BytesJson(type, f, msg[f]) ELSE msg[f]]
MessageJson(type, msg) ==
    IF type = "GetAddressUtxosReplyList"
    THEN [addressUtxos |-> [i \in DOMAIN msg.addressUtxos |->
                               FieldsJson("GetAddressUtxosReply", msg.addressUtxos[i])]]
    ELSE FieldsJson(type, msg)

\* Renderer::unary and Renderer::item; the height alone is printed bare.
Line(c, msg) ==
    IF c.cmd = "get-latest-height" THEN [form |-> "height", height |-> msg]
    ELSE IF c.output = "debug" THEN [form |-> "debug", msg |-> msg]
    ELSE [form |-> "message", type |-> TypeName(c), msg |-> MessageJson(TypeName(c), msg)]

(***************************************************************************)
(* The process.                                                            *)
(***************************************************************************)
LwcliInit ==
    /\ cli \in Invocations
    /\ server \in Servers
    /\ pc = "start" /\ exit = None /\ pipe = TRUE
    /\ rpcs = <<>> /\ items = <<>> /\ out = <<>>
    /\ chain = None /\ tip = 0 /\ seen = {} /\ boundaries = 0

Exit(code) == pc' = "done" /\ exit' = code

\* A closed pipe ends the process quietly at its next line.
Emit(line, next) ==
    \/ pipe /\ out' = Append(out, line) /\ pc' = next /\ UNCHANGED exit
    \/ ~pipe /\ Exit("ok") /\ UNCHANGED out

Ask(m) == rpcs' = Append(rpcs, RequestOf(m))

\* main(): everything that is checked before the channel is opened.
Start ==
    /\ pc = "start"
    /\ \/ cli.cmd = "completions" /\ Exit("ok")
       \/ /\ cli.cmd # "completions"
          /\ \/ VariantOf(cli) = Refused
             \/ TransportOf(cli) = Refused
             \/ cli.url = None
          /\ Exit("error")
       \/ /\ cli.cmd # "completions"
          /\ VariantOf(cli) # Refused /\ TransportOf(cli) # Refused /\ cli.url # None
          /\ pc' = "connect" /\ UNCHANGED exit
    /\ UNCHANGED <<cli, server, rpcs, items, out, pipe, chain, tip, seen, boundaries>>

\* connect(): over any transport it opens the channel or fails.
Connect ==
    /\ pc = "connect"
    /\ \/ Exit("error")
       \/ cli.url # "invalid" /\ pc' = "argument" /\ UNCHANGED exit
    /\ UNCHANGED <<cli, server, rpcs, items, out, pipe, chain, tip, seen, boundaries>>

BugDiscoversFirst(c) == c.cmd \in {"get-mempool-stream", "get-transaction"}
DiscoversFirst(c) == c.cmd = "get-mempool-stream"

ReadArgument ==
    /\ pc = "argument"
    /\ IF ~ArgumentOK(cli) THEN Exit("error")
       ELSE pc' = (IF DiscoversFirst(cli) THEN "discover" ELSE "ask") /\ UNCHANGED exit
    /\ UNCHANGED <<cli, server, rpcs, items, out, pipe, chain, tip, seen, boundaries>>

\* One call: an error ends the process, a message is printed, a stream drained.
AskOnce ==
    /\ pc = "ask"
    /\ \E m \in {Method(cli)} : \E reply \in {Call(server, m)} :
          /\ Ask(m)
          /\ server' = AfterRequest(server, RequestOf(m))
          /\ CASE reply.kind = "err" -> Exit("error") /\ UNCHANGED <<items, out>>
               [] reply.kind = "one" ->
                    /\ out' = IF pipe THEN Append(out, Line(cli, reply.msg)) ELSE out
                    /\ Exit("ok") /\ UNCHANGED items
               [] reply.kind = "stream" ->
                    items' = reply.items /\ pc' = "drain" /\ UNCHANGED <<exit, out>>
    /\ UNCHANGED <<cli, pipe, chain, tip, seen, boundaries>>

\* drain(): the first error item ends the process with it.
BugDrain ==
    /\ pc = "drain"
    /\ IF items = <<>> \/ ~Head(items).ok THEN Exit("ok") /\ UNCHANGED <<items, out>>
       ELSE Emit(Line(cli, Head(items).msg), "drain") /\ items' = Tail(items)
    /\ UNCHANGED <<cli, server, rpcs, pipe, chain, tip, seen, boundaries>>
Drain ==
    /\ pc = "drain"
    /\ \/ items = <<>> /\ Exit("ok") /\ UNCHANGED <<items, out>>
       \/ items # <<>> /\ ~Head(items).ok /\ Exit("error") /\ UNCHANGED <<items, out>>
       \/ /\ items # <<>> /\ Head(items).ok
          /\ Emit(Line(cli, Head(items).msg), "drain")
          /\ items' = Tail(items)
    /\ UNCHANGED <<cli, server, rpcs, pipe, chain, tip, seen, boundaries>>

\* The schedule: the chain the server names, or the featurenet when it names
\* another or none.
BugDiscover ==
    /\ pc = "discover" /\ pc' = (IF cli.cmd = "get-mempool-stream" THEN "tip" ELSE "ask")
    /\ LET m == [call |-> "discover_params"]
           reply == Call(server, m)
       IN  /\ Ask(m)
           /\ chain' = IF reply.kind = "one" /\ reply.msg.chain \in {"main", "test"}
                     THEN reply.msg.chain ELSE Featurenet
    /\ UNCHANGED <<cli, server, items, out, pipe, exit, tip, seen, boundaries>>
Discover ==
    /\ pc = "discover" /\ pc' = (IF cli.cmd = "get-mempool-stream" THEN "tip" ELSE "ask")
    /\ LET m == [call |-> "discover_params"]
           reply == Call(server, m)
       IN  /\ Ask(m)
           /\ chain' = IF reply.kind = "one" THEN ChainOf(reply.msg.chain) ELSE Featurenet
    /\ UNCHANGED <<cli, server, items, out, pipe, exit, tip, seen, boundaries>>

\* The height the mempool is decoded at, read once; 0 when it cannot be read.
ReadTip ==
    /\ pc = "tip" /\ pc' = "subscribe"
    /\ LET m == [call |-> "get_latest_height"]
           reply == Call(server, m)
       IN  Ask(m) /\ tip' = IF reply.kind = "one" THEN reply.msg ELSE 0
    /\ UNCHANGED <<cli, server, items, out, pipe, exit, chain, seen, boundaries>>

Subscribe ==
    /\ pc = "subscribe"
    /\ LET m == [call |-> "get_mempool_stream"]
           reply == Call(server, m)
       IN  /\ Ask(m)
           /\ IF reply.kind = "stream"
              THEN items' = reply.items /\ pc' = "follow" /\ UNCHANGED exit
              ELSE Exit("error") /\ UNCHANGED items
    /\ UNCHANGED <<cli, server, out, pipe, chain, tip, seen, boundaries>>

\* One transaction of the stream.  A follow skips a txid it has shown; an
\* unreadable transaction has no txid and is shown each time.
FollowItem ==
    /\ pc = "follow" /\ items # <<>>
    /\ LET raw  == Head(items).msg
           view == Parse(raw.data, tip, chain)
       IN  \/ ~Head(items).ok /\ Exit("error") /\ UNCHANGED <<items, out, seen>>
           \/ /\ Head(items).ok /\ cli.output = "debug"
              /\ Emit([form |-> "debug", msg |-> raw], "follow")
              /\ items' = Tail(items) /\ UNCHANGED seen
           \/ /\ Head(items).ok /\ cli.output # "debug"
              /\ items' = Tail(items)
              /\ IF cli.arg.follow /\ view.txid # NoTxid /\ view.txid \in seen
                 THEN UNCHANGED <<out, pc, exit, seen>>
                 ELSE /\ Emit(IF cli.output = "human" THEN Summary(view) ELSE Json(view), "follow")
                      /\ seen' = IF cli.arg.follow /\ view.txid # NoTxid
                                 THEN seen \cup {view.txid} ELSE seen
    /\ UNCHANGED <<cli, server, rpcs, pipe, chain, tip, boundaries>>

\* The server closes the stream at a block; --follow subscribes again unless
\* the bound it was given is reached.
BugStreamEndsLate ==
    /\ pc = "follow" /\ items = <<>>
    /\ cli.arg.follow => boundaries < MaxBoundaries
    /\ boundaries' = boundaries + (IF cli.arg.follow THEN 1 ELSE 0)
    /\ IF ~cli.arg.follow \/ (cli.arg.blocks # 0 /\ boundaries' > cli.arg.blocks)
       THEN Exit("ok") ELSE pc' = "subscribe" /\ UNCHANGED exit
    /\ UNCHANGED <<cli, server, rpcs, items, out, pipe, chain, tip, seen>>
BugStreamEnds ==
    /\ pc = "follow" /\ items = <<>>
    /\ cli.arg.follow => boundaries < MaxBoundaries
    /\ boundaries' = boundaries + (IF cli.arg.follow THEN 1 ELSE 0)
    /\ IF ~cli.arg.follow \/ (cli.arg.blocks # 0 /\ boundaries' >= cli.arg.blocks)
       THEN Exit("ok") ELSE pc' = "subscribe" /\ UNCHANGED exit
    /\ seen' = {}
    /\ UNCHANGED <<cli, server, rpcs, items, out, pipe, chain, tip>>
StreamEnds ==
    /\ pc = "follow" /\ items = <<>>
    /\ cli.arg.follow => boundaries < MaxBoundaries
    /\ boundaries' = boundaries + (IF cli.arg.follow THEN 1 ELSE 0)
    /\ IF ~cli.arg.follow \/ (cli.arg.blocks # 0 /\ boundaries' >= cli.arg.blocks)
       THEN Exit("ok") ELSE pc' = "subscribe" /\ UNCHANGED exit
    /\ UNCHANGED <<cli, server, rpcs, items, out, pipe, chain, tip, seen>>

(***************************************************************************)
(* The world: the reader of stdout goes away; a transaction comes into the *)
(* mempool, and onto the stream when it is open; a block is mined and      *)
(* takes some of them.                                                     *)
(***************************************************************************)
ClosePipe ==
    /\ pipe /\ pc \in {"ask", "drain", "follow"}
    /\ pipe' = FALSE
    /\ UNCHANGED <<cli, pc, server, rpcs, items, out, exit, chain, tip, seen, boundaries>>

Watched == cli.cmd = "get-mempool-stream" /\ pc \notin {"start", "connect", "argument", "done"}

Arrive(raw) ==
    /\ Watched
    /\ \A i \in DOMAIN server.mempool : server.mempool[i].data.id # raw.id
    /\ server' = [server EXCEPT !.mempool = Append(@, [data |-> raw, height |-> 0])]
    /\ items' = IF pc = "follow" /\ (items = <<>> \/ Last(items).ok)
                THEN Append(items, Item([data |-> raw, height |-> 0])) ELSE items
    /\ UNCHANGED <<cli, pc, rpcs, out, pipe, exit, chain, tip, seen, boundaries>>

Mine(mined) ==
    /\ Watched
    /\ Len(server.blocks) < MaxHeight
    /\ server' = [server EXCEPT
                    !.blocks = Append(@, LinkedBlocks(1, Len(@) + 1, 1)[1]),
                    !.mempool = Where(@, LAMBDA raw : raw.data \notin mined)]
    /\ UNCHANGED <<cli, pc, rpcs, items, out, pipe, exit, chain, tip, seen, boundaries>>

LwcliStep ==
    \/ Start \/ Connect \/ ReadArgument \/ AskOnce \/ Drain
    \/ Discover \/ ReadTip \/ Subscribe \/ FollowItem \/ StreamEnds

LwcliNext ==
    \/ LwcliStep
    \/ ClosePipe
    \/ \E raw \in Pool : Arrive(raw)
    \/ \E mined \in SUBSET Pool : Mine(mined)

(***************************************************************************)
(* Properties.                                                             *)
(***************************************************************************)

\* A process that exits with success, its reader still there, has printed the
\* whole answer of the server in its order; an answer that is an error, or is
\* cut short by one, never ends in success (drain and the arms of main: a
\* script that pipes lwcli takes exit 0 for a complete answer).
WholeAnswer ==
    (exit = "ok" /\ pipe /\ cli.cmd \notin {"get-mempool-stream", "completions"}) =>
        LET reply == Call(server, Method(cli))
        IN  CASE reply.kind = "one" -> out = <<Line(cli, reply.msg)>>
              [] reply.kind = "stream" ->
                    /\ \A i \in DOMAIN reply.items : reply.items[i].ok
                    /\ out = [i \in DOMAIN reply.items |-> Line(cli, reply.items[i].msg)]
              [] OTHER -> FALSE

\* The lines of the mempool stream that show a transaction.
ViewLines == {i \in DOMAIN out : out[i].form \in {"summary", "json"}}

\* A follow shows a txid once, over every dump of the mempool the server makes
\* at every reconnect and whatever stays unmined (the seen set of main.rs).
ShownOnce ==
    cli.cmd = "get-mempool-stream" /\ cli.arg.follow =>
        \A i, j \in ViewLines : out[i].txid = out[j].txid => i = j \/ out[i].txid = NoTxid

\* What the transaction really pays: everything it takes, less everything it
\* makes.
TrueFee(raw) ==
    LET taken(pool) == raw.bundles[pool].takes
        made(pool)  == raw.bundles[pool].makes
    IN  Sum(raw.funds)
          + taken("sprout") + taken("sapling") + taken("orchard") + taken("ironwood")
          + (IF raw.staking.kind = "withdraw" THEN raw.staking.amount ELSE 0)
          - Sum(raw.vout)
          - made("sprout") - made("sapling") - made("orchard") - made("ironwood")
          - (IF raw.staking.kind = "create" THEN raw.staking.amount ELSE 0)

\* What parse leaves out of the fee.
SproutBalance(raw) == BalanceOf(raw, "sprout")

\* Once every output it spends is looked up, the fee of a view misses what the
\* JoinSplits move and nothing else.
ResolvedMissesSprout ==
    \A raw \in Raws : Readable(raw) =>
        Fee(Resolve(Parse(raw, 1, Featurenet), Known(Sum(raw.funds))))
            = Known(TrueFee(raw) - SproutBalance(raw))

\* A fee that is shown as a number is the fee the transaction pays less what its
\* JoinSplits move, so it is exact for a transaction without any: with inputs
\* nobody looked up it is not shown, every pool that parse reads, the bond
\* included, is counted once on the right side, and the lookup of the inputs
\* adds what is missing (parse, value_balance_contribution, resolve and fee).
FeeMissesOnlySprout ==
    /\ \A i \in ViewLines : out[i].fee.is = "known" =>
           \E raw \in Raws : /\ Readable(raw) /\ Txid(raw) = out[i].txid
                             /\ out[i].fee.zat = TrueFee(raw) - SproutBalance(raw)
    /\ ResolvedMissesSprout

\* A fee that is shown as a number is the fee the transaction pays (the comments
\* of Fee: "exact", or not shown).  The code does not keep this: parse reads the
\* JoinSplits of an old version with the rest and leaves their value out.
FeeNeverWrong ==
    \A i \in ViewLines : out[i].fee.is = "known" =>
        \E raw \in Raws : /\ Readable(raw) /\ Txid(raw) = out[i].txid
                          /\ out[i].fee.zat = TrueFee(raw)

IdentityRpcs == {RequestOf([call |-> c, txid |-> 0, data |-> 0, address |-> 0, start |-> 0,
                            end |-> 0, addresses |-> 0, exclude |-> 0, max |-> 0]).rpc :
                    c \in IdentityCalls}

\* A request that names a wallet's transaction or address is the only request
\* of its process, so one channel never carries two of them, nor one beside a
\* chain-wide read that would tie them together (the comment of
\* dispatch_identity: "an invocation is a single unlinkability domain").
IdentityStandsAlone ==
    \A i \in DOMAIN rpcs : rpcs[i].rpc \in IdentityRpcs => Len(rpcs) = 1

\* The txids a line shows.
PrintedTxids(line) ==
    CASE line.form \in {"summary", "json"} -> {line.txid} \ {NoTxid}
      [] line.form = "message" /\ line.type = "GetAddressUtxosReplyList" ->
            {line.msg.addressUtxos[i].txid : i \in DOMAIN line.msg.addressUtxos}
      [] line.form = "message" /\ line.type \in {"GetAddressUtxosReply", "CompactTx"} ->
            {line.msg.txid}
      [] OTHER -> {}

\* A txid copied from the output of one command and typed to get-transaction
\* asks the server for that very transaction: every renderer of a txid and the
\* one parser of it reverse the bytes once each (DISPLAY_ORDER, parse_txid, the
\* txid of a parsed view).
TypedAsPrinted ==
    \A i \in DOMAIN out : \A txid \in PrintedTxids(out[i]) :
        LET typed == ParseTxid([hex |-> TRUE, bytes |-> txid])
        IN  typed.ok /\ typed.bytes \in Txids

\* The branch a transaction without one of its own is decoded under is the one
\* active at the tip, except when the chain or the tip could not be read, or an
\* upgrade activated after the tip was read: get-mempool-stream reads it once.
BranchUntilUpgrade ==
    \A i \in ViewLines :
        (/\ out[i].form = "json" /\ out[i].version = "V4"
         /\ DOMAIN server.faults = {} /\ server.info.branch # "not hex")
        => \/ out[i].branch = BranchAt(ChainOf(server.info.chain), Len(server.blocks))
           \/ BranchAt(ChainOf(server.info.chain), tip)
                # BranchAt(ChainOf(server.info.chain), Len(server.blocks))

\* Every process ends, a follow when it was given a bound: whatever the server
\* answers, wherever a stream breaks and however often the mempool is sent
\* again.  Only a follow without a bound runs on.
Bounded == cli.cmd # "get-mempool-stream" \/ ~cli.arg.follow \/ cli.arg.blocks # 0
LwcliEnds == (pc = "start" /\ Bounded) ~> (pc = "done")
============================================================================
