---------------------------- MODULE BlockStream ----------------------------
(***************************************************************************)
(* A reader of the block stream that follows the chain: it connects, asks  *)
(* for the tip and reads the range it is missing, again and again.  A      *)
(* wallet reads the client's stream itself and keeps a block that sits on  *)
(* the last one it kept.  An app reads through the foreign bindings        *)
(* (crates/ffi), which call its sink; the summaries it is called with name *)
(* no previous hash, so it keeps what it is told.  The server may replace  *)
(* its chain in between.                                                   *)
(*                                                                         *)
(* An operator whose name starts with Bug is a slip one could make in the  *)
(* one after it; no specification uses it.                                 *)
(***************************************************************************)
EXTENDS Indexer

CONSTANTS
    Chains,     \* the chains the server may serve
    Breaks,     \* how the server may fail: faults and stream faults
    MaxCalls    \* stream_block_range is called at most this often

\* A chain is held from its first block and linked by its hashes, and a hash
\* names one block; a stream breaks after a number of items.
ASSUME ChainsAssumption ==
    /\ \A blocks \in Chains :
          /\ IsSequence(blocks)
          /\ \A i \in DOMAIN blocks : /\ blocks[i].height = i
                                      /\ i > 1 => blocks[i].prevHash = blocks[i - 1].hash
    /\ \A some, other \in Chains : \A i \in DOMAIN some, j \in DOMAIN other :
          some[i].hash = other[j].hash => some[i] = other[j]
    /\ \A break \in Breaks : \A rpc \in DOMAIN break.streamFaults :
          break.streamFaults[rpc].after \in Nat

VARIABLES
    reader,     \* "app" or "wallet"
    conn,       \* "closed", "open", "failed", or "stopped" by the consumer
    source,     \* the server
    range,      \* the range of the call under way
    incoming,   \* what is left of its stream
    sink,       \* the callbacks of the call under way, in order
    ret,        \* what the call returned, "running" while it runs
    kept,       \* the blocks the consumer kept, in order
    calls

streamVars == <<reader, conn, source, range, incoming, sink, ret, kept, calls>>

StreamInit ==
    /\ reader \in {"app", "wallet"}
    /\ conn = "closed" /\ ret = "none" /\ calls = 0
    /\ \E blocks \in Chains, break \in Breaks :
          source = [NewServer("canonical") EXCEPT !.blocks = blocks, !.faults = break.faults,
                                                  !.streamFaults = break.streamFaults]
    /\ range = <<>> /\ incoming = <<>> /\ sink = <<>> /\ kept = <<>>

\* IndexerConnection::connect.
Open ==
    /\ conn = "closed"
    /\ conn' \in {"open", "failed"}
    /\ UNCHANGED <<reader, source, range, incoming, sink, ret, kept, calls>>

\* stream_block_range, up to its first answer: an RPC error is returned and
\* the sink hears nothing.
StreamBlockRange(start, end) ==
    /\ conn = "open" /\ ret # "running" /\ calls < MaxCalls
    /\ LET reply == Call(source, [call |-> "get_block_range", start |-> start, end |-> end])
       IN  IF reply.kind = "err"
           THEN ret' = "error" /\ incoming' = <<>>
           ELSE ret' = "running" /\ incoming' = reply.items
    /\ range' = <<start, end>> /\ sink' = <<>> /\ calls' = calls + 1
    /\ UNCHANGED <<reader, conn, source, kept>>

\* The wallet's own rule: a block that does not sit on the last one kept ends
\* the sync.
Sits(block) == Hash32(block.hash) /\ (kept = <<>> \/ IsContinuous(Last(kept), block))
Keep(block) ==
    IF conn = "open" /\ Sits(block) THEN kept' = Append(kept, block) /\ UNCHANGED conn
    ELSE conn' = "stopped" /\ UNCHANGED kept

BlockSummary(block) == [on |-> "block", height |-> block.height, hash |-> block.hash]

\* One turn of the loop.  The sink hears on_block, or on_error and no more; a
\* wallet takes the block, or returns the error.
BugDeliver ==
    /\ ret = "running" /\ incoming # <<>>
    /\ incoming' = Tail(incoming)
    /\ IF Head(incoming).ok
       THEN /\ sink' = IF reader = "app"
                      THEN Append(sink, BlockSummary(Head(incoming).msg)) ELSE sink
            /\ Keep(Head(incoming).msg)
       ELSE sink' = Append(sink, [on |-> "error"]) /\ UNCHANGED <<kept, conn>>
    /\ UNCHANGED <<reader, source, range, ret, calls>>
Deliver ==
    /\ ret = "running" /\ incoming # <<>>
    /\ LET item == Head(incoming)
       IN  \/ /\ item.ok /\ reader = "app"
              /\ sink' = Append(sink, BlockSummary(item.msg))
              /\ kept' = Append(kept, item.msg)
              /\ incoming' = Tail(incoming) /\ UNCHANGED <<conn, ret>>
           \/ /\ item.ok /\ reader = "wallet"
              /\ Keep(item.msg)
              /\ incoming' = Tail(incoming) /\ UNCHANGED <<sink, ret>>
           \/ /\ ~item.ok /\ incoming' = <<>>
              /\ IF reader = "app" THEN sink' = Append(sink, [on |-> "error"]) /\ ret' = "ok"
                 ELSE ret' = "error" /\ UNCHANGED sink
              /\ UNCHANGED <<kept, conn>>
    /\ UNCHANGED <<reader, source, range, calls>>

\* The end of the stream: on_complete, and the call returns.
Complete ==
    /\ ret = "running" /\ incoming = <<>>
    /\ sink' = IF reader = "app" THEN Append(sink, [on |-> "complete"]) ELSE sink
    /\ ret' = "ok"
    /\ UNCHANGED <<reader, conn, source, range, incoming, kept, calls>>

\* The reader asks for what it lacks, up to the tip; latest_height may fail.
Resume ==
    /\ LET reply == Call(source, [call |-> "get_latest_height"])
           next  == IF kept = <<>> THEN 1 ELSE Last(kept).height + 1
       IN  /\ reply.kind = "one"
           /\ StreamBlockRange(next, reply.msg)

\* The chain is replaced, also while a stream of the old one is still read.
Reorganise ==
    /\ conn = "open" /\ calls < MaxCalls
    /\ \E blocks \in Chains : source' = ReplaceChain(source, blocks)
    /\ UNCHANGED <<reader, conn, range, incoming, sink, ret, kept, calls>>

StreamNext == Open \/ Resume \/ Deliver \/ Complete \/ Reorganise

(***************************************************************************)
(* Properties.                                                             *)
(***************************************************************************)
Ends == {i \in DOMAIN sink : sink[i].on \in {"error", "complete"}}

\* A sink hears exactly one ending of a call that returned Ok, as the last
\* thing it hears, and none of a call that returned an error; and on_complete
\* comes only after the blocks of the range with none left out, so an app that
\* closes its flow on it has the range the server had (stream_block_range).
OneEnding ==
    reader = "app" =>
        /\ ret = "ok" => Ends = {Len(sink)}
        /\ ret \in {"running", "error"} => Ends = {}
        /\ (ret = "ok" /\ sink[Len(sink)].on = "complete") =>
              \A i \in 1..(Len(sink) - 2) :
                  sink[i + 1].height = sink[i].height + (IF range[1] <= range[2] THEN 1 ELSE -1)

\* The blocks a wallet keeps under the continuity rule are the first blocks of
\* one chain the server served: a reorganisation between two calls, or under a
\* stream that is still read, never leaves it with blocks of two branches
\* (is_continuous and the trait's hash and prev_hash).
KeptIsOneChain ==
    reader = "wallet" =>
        \E blocks \in Chains : \A i \in DOMAIN kept :
            \E j \in DOMAIN blocks : blocks[j] = kept[i]
============================================================================
