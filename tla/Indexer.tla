------------------------------ MODULE Indexer ------------------------------
(***************************************************************************)
(* The client library (crates/core): what each method of an indexer client *)
(* and of an identity client puts on the wire, and what it makes of the    *)
(* reply.  The two clients are separate surfaces: a request that names one *)
(* wallet's transaction or address exists on the identity client only, and *)
(* that client can be built only from a transport of its own.              *)
(***************************************************************************)
EXTENDS Endpoint

HashBytes == 2    \* 32 in the program

\* The requests of the trait: the sync path both variants share.
TraitRequest(m) ==
    CASE m.call = "get_latest_height" -> [rpc |-> "GetLatestBlock", arg |-> Empty]
      [] m.call = "get_block" -> [rpc |-> "GetBlock", arg |-> [height |-> m.height]]
      [] m.call = "get_block_range" ->
            [rpc |-> "GetBlockRange", arg |-> [start |-> m.start, end |-> m.end]]
      [] m.call = "get_tree_state" -> [rpc |-> "GetTreeState", arg |-> [height |-> m.height]]
      [] m.call = "get_latest_tree_state" -> [rpc |-> "GetLatestTreeState", arg |-> Empty]

TraitCalls == {"get_latest_height", "get_block", "get_block_range", "get_tree_state",
               "get_latest_tree_state"}

\* The rest of the chain-wide surface.
IndexerRequest(m) ==
    CASE m.call = "get_block_nullifiers" ->
            [rpc |-> "GetBlockNullifiers", arg |-> [height |-> m.height]]
      [] m.call = "get_block_range_nullifiers" ->
            [rpc |-> "GetBlockRangeNullifiers", arg |-> [start |-> m.start, end |-> m.end]]
      [] m.call = "get_latest_block" -> [rpc |-> "GetLatestBlock", arg |-> Empty]
      [] m.call = "get_block_range_pools" ->
            [rpc |-> "GetBlockRange", arg |-> [start |-> m.start, end |-> m.end]]
      [] m.call = "get_mempool_stream" -> [rpc |-> "GetMempoolStream", arg |-> Empty]
      [] m.call = "get_subtree_roots" ->
            [rpc |-> "GetSubtreeRoots", arg |-> [start |-> m.start, max |-> m.max]]
      [] m.call \in {"get_lightd_info", "discover_params"} ->
            [rpc |-> "GetLightdInfo", arg |-> Empty]
      [] m.call = "ping" -> [rpc |-> "Ping", arg |-> Empty]

IndexerCalls ==
    {"get_latest_block", "get_block_range_pools", "get_block_nullifiers",
     "get_block_range_nullifiers", "get_mempool_stream", "get_subtree_roots", "get_lightd_info",
     "discover_params", "ping"}

\* The identity-bearing surface.
IdentityRequest(m) ==
    CASE m.call = "get_transaction" -> [rpc |-> "GetTransaction", arg |-> [hash |-> m.txid]]
      [] m.call = "send_transaction" -> [rpc |-> "SendTransaction", arg |-> [data |-> m.data]]
      [] m.call = "get_taddress_txids" ->
            [rpc |-> "GetTaddressTxids",
             arg |-> [address |-> m.address, start |-> m.start, end |-> m.end]]
      [] m.call = "get_taddress_transactions" ->
            [rpc |-> "GetTaddressTransactions",
             arg |-> [address |-> m.address, start |-> m.start, end |-> m.end]]
      [] m.call = "get_taddress_balance" ->
            [rpc |-> "GetTaddressBalance", arg |-> [addresses |-> m.addresses]]
      [] m.call = "get_taddress_balance_stream" ->
            [rpc |-> "GetTaddressBalanceStream", arg |-> [addresses |-> m.addresses]]
      [] m.call = "get_mempool_tx" -> [rpc |-> "GetMempoolTx", arg |-> [exclude |-> m.exclude]]
      [] m.call = "get_address_utxos" ->
            [rpc |-> "GetAddressUtxos", arg |-> [start |-> m.start, max |-> m.max]]
      [] m.call = "get_address_utxos_stream" ->
            [rpc |-> "GetAddressUtxosStream", arg |-> [start |-> m.start, max |-> m.max]]

IdentityCalls == {"get_transaction", "send_transaction", "get_taddress_txids",
                  "get_taddress_transactions", "get_taddress_balance",
                  "get_taddress_balance_stream", "get_mempool_tx", "get_address_utxos",
                  "get_address_utxos_stream", "request_faucet_donation"}

\* The overlay's own methods.  The faucet is asked on the identity client.
CrosslinkRequest(m) ==
    CASE m.call = "get_roster" -> [rpc |-> "GetRoster", arg |-> Empty]
      [] m.call = "get_bond_info" -> [rpc |-> "GetBondInfo", arg |-> [key |-> m.key]]
      [] m.call = "request_faucet_donation" ->
            [rpc |-> "RequestFaucetDonation", arg |-> [address |-> m.address]]

CrosslinkCalls == {"get_roster", "get_bond_info", "request_faucet_donation"}

RequestOf(m) ==
    CASE m.call \in TraitCalls -> TraitRequest(m)
      [] m.call \in IndexerCalls -> IndexerRequest(m)
      [] m.call \in CrosslinkCalls -> CrosslinkRequest(m)
      [] OTHER -> IdentityRequest(m)

\* Error::Rpc, Error::Info and Error::HashLen, and which of them is worth
\* another attempt.
RpcError(status) == [is |-> "rpc", status |-> status]
InfoError == [is |-> "info", status |-> "none"]
Retryable(error) == error.is = "rpc" /\ error.status \in {"unavailable", "deadline_exceeded"}

\* hash32(): a hash of any other length is refused.
Hash32(bytes) == Len(bytes) = HashBytes

\* from_lightd_info(): Sapling and the next pending upgrade, when there is one;
\* refused only when the branch id is not hex.
FromLightdInfo(info) ==
    IF info.branch = "not hex" THEN Err(InfoError)
    ELSE One([chain |-> info.chain, branch |-> info.branch,
              heights |-> [name \in {"sapling"} \cup ({info.pending} \ {""}) |->
                              IF name = info.pending THEN info.pendingHeight
                              ELSE info.sapling]])

\* wrap_stream(): an error item becomes the crate's error.
WrapStream(items) ==
    [i \in DOMAIN items |-> IF items[i].ok THEN items[i]
                            ELSE [ok |-> FALSE, status |-> RpcError(items[i].status)]]

\* What the method returns of the reply.
ResultOf(m, reply) ==
    IF reply.kind = "err" THEN Err(RpcError(reply.status))
    ELSE IF reply.kind = "stream" THEN Stream(WrapStream(reply.items)) ELSE
    CASE m.call = "get_latest_height" -> One(reply.msg.height)
      [] m.call = "discover_params" -> FromLightdInfo(reply.msg)
      [] OTHER -> reply

Call(s, m) == ResultOf(m, Answer(s, RequestOf(m)))
============================================================================
