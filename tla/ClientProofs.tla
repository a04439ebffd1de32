---------------------------- MODULE ClientProofs ----------------------------
(***************************************************************************)
(* Proofs about the two readers of a server: the command line tool, for    *)
(* every set of transactions, command lines and servers, and the reader of *)
(* block ranges (a wallet over the client, an app over the bindings), for  *)
(* every set of chains and any number of calls.                            *)
(*                                                                         *)
(* What is proved of the tool rests on what every call returns (CallIsSent)*)
(* and on invariants that follow the answer to stdout:                     *)
(*   Alone       the requests put on the channel;                          *)
(*   Remembered  what a follow has shown is in seen;                       *)
(*   Answered    what is printed and what is left are the whole answer;    *)
(*   Decoded     the chain and the tip each view was parsed under;         *)
(*   ShowsKnown  the txids printed, or still to come, are of transactions; *)
(*   FeesTell    the fees printed are paid by the transaction of the txid, *)
(*               but for what its JoinSplits move.                         *)
(* Of the reader of blocks:                                                *)
(*   Reading     what is kept and what is on its way is of some chain;     *)
(*   Linked      what the wallet keeps is part of one chain (Beneath: a    *)
(*               block decides every block below it);                      *)
(*   Endings     what the sink heard goes on with what is on its way, and  *)
(*               a call's ending is the last it heard.                     *)
(***************************************************************************)
EXTENDS Lwcli, BlockStream, SequenceTheorems, WellFoundedInduction, NaturalsInduction, TLAPS

LwcliSpec == LwcliInit /\ [][LwcliNext]_lwcliVars
StreamSpec == StreamInit /\ [][StreamNext]_streamVars

------------------------------------------------------------------------------
\* What a call returns, whatever it asks.
IsReply(r) == r.kind \in {"err", "one", "stream"}

\* A server answers with an error, a message or a stream.
LEMMA AnswerIsReply ==
    ASSUME NEW s, NEW req
    PROVE  IsReply(Answer(s, req))
<1> DEFINE Atom(r) == \/ \E e : r = Err(e)
                      \/ \E m : r = One(m)
                      \/ \E its : r = Stream(its)
<1>0. ASSUME NEW r, Atom(r) PROVE IsReply(r)
  BY <1>0 DEF IsReply, Err, One, Stream
<1>1. ASSUME NEW rpc, NEW r, Atom(r) PROVE Atom(Checked(s, rpc, r))
  BY <1>1 DEF Checked
<1>2. ASSUME NEW map, NEW key, NEW status PROVE Atom(Entry(map, key, status))
  BY DEF Entry
<1>3. ASSUME NEW rpc, NEW msgs PROVE Atom(StreamOf(s, rpc, msgs))
  BY DEF StreamOf
<1>13. Atom(Unimplemented) /\ (\A e : Atom(Err(e))) /\ (\A m : Atom(One(m)))
  BY DEF Unimplemented
<1> HIDE DEF Atom
<1>4. Atom(GetLatestBlock(s)) /\ Atom(GetBlock(s, req.arg))
  <2>1. Atom(BlockAt(s, req.arg.height))
    BY <1>13 DEF BlockAt
  <2> QED
    BY <1>1, <1>13, <2>1 DEF GetLatestBlock, GetBlock
<1>5. Atom(GetBlockRange(s, req.arg))
  BY <1>1, <1>3 DEF GetBlockRange, Where
<1>6. Atom(GetTransaction(s, req.arg)) /\ Atom(SendTransaction(s))
  BY <1>1, <1>2, <1>13 DEF GetTransaction, SendTransaction
<1>7. Atom(GetTaddressTxids(s, req.arg)) /\ Atom(GetTaddressTransactions(s, req.arg))
  BY <1>1, <1>3 DEF GetTaddressTxids, GetTaddressTransactions, TaddressMatches, Where
<1>8. Atom(GetTaddressBalance(s)) /\ Atom(GetTaddressBalanceStream(s))
  BY <1>1, <1>13 DEF GetTaddressBalance, GetTaddressBalanceStream
<1>9. Atom(GetMempoolTx(s, req.arg)) /\ Atom(GetMempoolStream(s))
  BY <1>1, <1>3 DEF GetMempoolTx, GetMempoolStream, Where
<1>10. Atom(GetTreeState(s, req.arg)) /\ Atom(GetLatestTreeState(s))
  <2> DEFINE top == CHOOSE h \in DOMAIN s.trees : \A g \in DOMAIN s.trees : g <= h
             r == IF DOMAIN s.trees = {} THEN Err("unavailable") ELSE One(s.trees[top])
  <2>1. Atom(r)
    BY <1>13
  <2>2. GetLatestTreeState(s) = Checked(s, "GetLatestTreeState", r)
    BY DEF GetLatestTreeState
  <2> QED
    BY <1>1, <1>2, <2>1, <2>2 DEF GetTreeState
<1>11. Atom(GetSubtreeRoots(s, req.arg)) /\ Atom(GetAddressUtxos(s, req.arg))
         /\ Atom(GetAddressUtxosStream(s, req.arg))
  BY <1>1, <1>3, <1>13 DEF GetSubtreeRoots, GetAddressUtxos, GetAddressUtxosStream
<1>12. Atom(GetLightdInfo(s)) /\ Atom(Ping(s)) /\ Atom(GetRoster(s))
         /\ Atom(GetBondInfo(s, req.arg)) /\ Atom(RequestFaucetDonation(s))
  BY <1>1, <1>2, <1>13 DEF GetLightdInfo, Ping, GetRoster, GetBondInfo, RequestFaucetDonation
<1>14. Atom(Answer(s, req))
  BY <1>4, <1>5, <1>6, <1>7, <1>8, <1>9, <1>10, <1>11, <1>12, <1>13 DEF Answer
<1> QED
  BY <1>0, <1>14

------------------------------------------------------------------------------
(***************************************************************************)
(* Sequences of no fixed item type.                                        *)
(***************************************************************************)
LEMMA SequenceShape ==
    ASSUME NEW s, IsSequence(s)
    PROVE  /\ Len(s) \in Nat /\ DOMAIN s = 1..Len(s)
           /\ s = [i \in 1..Len(s) |-> s[i]]
BY LenProperties DEF IsSequence

\* A sequence of any set is one.
LEMMA SequenceOf ==
    ASSUME NEW S, NEW s \in Seq(S)
    PROVE  IsSequence(s) /\ ToSet(s) \subseteq S
<1>1. \A i \in 1..Len(s) : s[i] \in S
  BY ElementOfSeq
<1>2. Len(s) \in Nat /\ DOMAIN s = 1..Len(s) /\ s = [i \in 1..Len(s) |-> s[i]]
  BY LenProperties
<1>3. s \in Seq(ToSet(s))
  BY <1>1, <1>2, IsASeq DEF ToSet
<1> QED
  BY <1>1, <1>2, <1>3 DEF IsSequence, ToSet

\* A function of the first numbers is a sequence.
LEMMA Made ==
    ASSUME NEW n \in Nat, NEW s, s = [i \in 1..n |-> s[i]]
    PROVE  IsSequence(s) /\ Len(s) = n
<1> DEFINE S == {s[i] : i \in 1..n}
<1>1. s \in [1..n -> S]
  OBVIOUS
<1> HIDE DEF S
<1>2. s \in Seq(S) /\ Len(s) = n
  BY <1>1
<1> QED
  BY <1>2, SequenceOf

\* What Append does to a sequence, item by item.
LEMMA Appended ==
    ASSUME NEW s, IsSequence(s), NEW e
    PROVE  /\ IsSequence(Append(s, e)) /\ Len(Append(s, e)) = Len(s) + 1
           /\ \A i \in 1..Len(s) : Append(s, e)[i] = s[i]
           /\ Append(s, e)[Len(s) + 1] = e
           /\ ToSet(Append(s, e)) = ToSet(s) \cup {e}
<1> DEFINE S == ToSet(s) \cup {e}
<1>1. s \in Seq(S) /\ e \in S /\ S = ToSet(s) \cup {e}
  BY SeqMonotonic DEF IsSequence
<1>0. Len(s) \in Nat /\ DOMAIN s = 1..Len(s)
  BY SequenceShape
<1> HIDE DEF S
<1>2. /\ Append(s, e) \in Seq(S) /\ Len(Append(s, e)) = Len(s) + 1
      /\ \A i \in 1..Len(s) : Append(s, e)[i] = s[i]
      /\ Append(s, e)[Len(s) + 1] = e
  BY <1>1, AppendProperties
<1>3. IsSequence(Append(s, e))
  BY <1>2, SequenceOf
<1>4. DOMAIN Append(s, e) = 1..(Len(s) + 1)
  BY <1>2, LenProperties
<1>5. ToSet(Append(s, e)) = ToSet(s) \cup {e}
  BY <1>0, <1>2, <1>4 DEF ToSet
<1> QED
  BY <1>2, <1>3, <1>5

\* What Head and Tail are of a sequence, item by item.
LEMMA Popped ==
    ASSUME NEW s, IsSequence(s), s # <<>>
    PROVE  /\ Len(s) > 0 /\ Head(s) = s[1]
           /\ IsSequence(Tail(s)) /\ Len(Tail(s)) = Len(s) - 1
           /\ \A i \in 1..(Len(s) - 1) : Tail(s)[i] = s[i + 1]
<1> DEFINE S == ToSet(s)
<1>1. s \in Seq(S)
  BY DEF IsSequence
<1> HIDE DEF S
<1>2. /\ Head(s) = s[1] /\ Tail(s) \in Seq(S) /\ Len(Tail(s)) = Len(s) - 1
      /\ \A i \in 1..Len(Tail(s)) : Tail(s)[i] = s[i + 1]
  BY <1>1, HeadTailProperties
<1>3. Len(s) > 0 /\ Len(s) \in Nat
  BY <1>1, EmptySeq, LenProperties
<1> QED
  BY <1>2, <1>3, SequenceOf

\* The empty sequence is one, of no items.
LEMMA NoneIsSequence == IsSequence(<<>>) /\ Len(<<>>) = 0 /\ ToSet(<<>>) = {}
<1>1. IsSequence(<<>>)
  <2> DEFINE S == ToSet(<<>>)
  <2> HIDE DEF S
  <2>1. <<>> \in Seq(S)
    OBVIOUS
  <2> QED
    BY <2>1 DEF IsSequence, S
<1>2. Len(<<>>) = 0 /\ DOMAIN <<>> = {}
  OBVIOUS
<1>3. ToSet(<<>>) = {}
  BY <1>2 DEF ToSet
<1> QED
  BY <1>1, <1>2, <1>3

------------------------------------------------------------------------------
(***************************************************************************)
(* A request that names a wallet stands alone.                             *)
(***************************************************************************)

\* What each request of the mempool stream asks for: no RPC of a wallet's own.
LEMMA StreamAsksChainWide ==
    /\ RequestOf([call |-> "discover_params"]).rpc = "GetLightdInfo"
    /\ RequestOf([call |-> "get_latest_height"]).rpc = "GetLatestBlock"
    /\ RequestOf([call |-> "get_mempool_stream"]).rpc = "GetMempoolStream"
<1>1. RequestOf([call |-> "discover_params"]) = IndexerRequest([call |-> "discover_params"])
  BY DEF RequestOf, TraitCalls, IndexerCalls, CrosslinkCalls
<1>2. RequestOf([call |-> "get_latest_height"]) = TraitRequest([call |-> "get_latest_height"])
  BY DEF RequestOf, TraitCalls, IndexerCalls, CrosslinkCalls
<1>3. RequestOf([call |-> "get_mempool_stream"]) = IndexerRequest([call |-> "get_mempool_stream"])
  BY DEF RequestOf, TraitCalls, IndexerCalls, CrosslinkCalls
<1>4. IndexerRequest([call |-> "discover_params"]).rpc = "GetLightdInfo"
  BY DEF IndexerRequest
<1>5. TraitRequest([call |-> "get_latest_height"]).rpc = "GetLatestBlock"
  BY DEF TraitRequest
<1>6. IndexerRequest([call |-> "get_mempool_stream"]).rpc = "GetMempoolStream"
  BY DEF IndexerRequest
<1> QED
  BY <1>1, <1>2, <1>3, <1>4, <1>5, <1>6

ChainWide == {"GetLightdInfo", "GetLatestBlock", "GetMempoolStream"}

\* What the mempool stream asks for names no wallet.
LEMMA ChainWideIsNoIdentity == IdentityRpcs \cap ChainWide = {}
<1> DEFINE m(c) == [call |-> c, txid |-> 0, data |-> 0, address |-> 0, start |-> 0,
                    end |-> 0, addresses |-> 0, exclude |-> 0, max |-> 0]
<1> SUFFICES ASSUME NEW c \in IdentityCalls PROVE RequestOf(m(c)).rpc \notin ChainWide
  BY Zenon DEF IdentityRpcs
<1>0. m(c).call = c
  OBVIOUS
<1>1. CASE c = "request_faucet_donation"
  <2>1. RequestOf(m(c)) = CrosslinkRequest(m(c))
    BY <1>0, <1>1 DEF RequestOf, TraitCalls, IndexerCalls, CrosslinkCalls
  <2>2. CrosslinkRequest(m(c)).rpc = "RequestFaucetDonation"
    BY <1>0, <1>1 DEF CrosslinkRequest
  <2> QED
    BY <2>1, <2>2 DEF ChainWide
<1>2. CASE c # "request_faucet_donation"
  <2>1. RequestOf(m(c)) = IdentityRequest(m(c))
    BY <1>0, <1>2 DEF RequestOf, TraitCalls, IndexerCalls, CrosslinkCalls, IdentityCalls
  <2>2. IdentityRequest(m(c)).rpc \notin ChainWide
    BY <1>0, <1>2 DEF IdentityRequest, IdentityCalls, ChainWide
  <2> QED
    BY <2>1, <2>2
<1> QED
  BY <1>1, <1>2

\* Nothing is asked before the argument is read; the mempool stream, the one
\* command that asks more than once, asks only what is chain-wide.
AllChainWide == \A i \in DOMAIN rpcs : rpcs[i].rpc \in ChainWide
Alone ==
    /\ IsSequence(rpcs)
    /\ pc \in {"start", "connect", "argument", "ask", "discover"} => rpcs = <<>>
    /\ pc = "discover" => cli.cmd = "get-mempool-stream"
    /\ pc \in {"tip", "subscribe", "follow"} => AllChainWide
    /\ Len(rpcs) <= 1 \/ AllChainWide

\* A chain-wide request leaves all of them chain-wide.
LEMMA AskChainWide ==
    ASSUME IsSequence(rpcs), AllChainWide,
           NEW m, RequestOf(m).rpc \in ChainWide, Ask(m)
    PROVE  IsSequence(rpcs') /\ AllChainWide'
<1>1. rpcs' = Append(rpcs, RequestOf(m))
  BY DEF Ask
<1>2. /\ IsSequence(rpcs') /\ DOMAIN rpcs = 1..Len(rpcs) /\ Len(rpcs) \in Nat
      /\ DOMAIN rpcs' = 1..(Len(rpcs) + 1)
      /\ \A i \in 1..Len(rpcs) : rpcs'[i] = rpcs[i]
      /\ rpcs'[Len(rpcs) + 1] = RequestOf(m)
  BY <1>1, Appended, SequenceShape
<1>3. ASSUME NEW i \in DOMAIN rpcs' PROVE rpcs'[i].rpc \in ChainWide
  <2>1. CASE i = Len(rpcs) + 1
    BY <1>2, <2>1
  <2>2. CASE i # Len(rpcs) + 1
    <3>1. i \in DOMAIN rpcs
      BY <1>2, <2>2
    <3> QED
      BY <1>2, <3>1 DEF AllChainWide
  <2> QED
    BY <2>1, <2>2
<1> QED
  BY <1>2, <1>3 DEF AllChainWide

\* A call returns an error, a message or a stream.
LEMMA CallIsReply ==
    ASSUME NEW s, NEW m
    PROVE  IsReply(Call(s, m))
<1> DEFINE reply == Answer(s, RequestOf(m))
<1>1. IsReply(reply)
  BY AnswerIsReply
<1>2. IsReply(FromLightdInfo(reply.msg))
  BY DEF FromLightdInfo, IsReply, Err, One
<1>3. Call(s, m) = ResultOf(m, reply)
  BY DEF Call
<1> HIDE DEF reply
<1>4. CASE reply.kind \in {"err", "stream"}
  BY <1>3, <1>4 DEF ResultOf, IsReply, Err, Stream
<1>5. CASE reply.kind \notin {"err", "stream"}
  <2>1. CASE m.call = "get_latest_height"
    BY <1>3, <1>5, <2>1 DEF ResultOf, IsReply, One
  <2>2. CASE m.call = "discover_params"
    BY <1>2, <1>3, <1>5, <2>2 DEF ResultOf
  <2>3. CASE m.call \notin {"get_latest_height", "discover_params"}
    BY <1>1, <1>3, <1>5, <2>3 DEF ResultOf
  <2> QED
    BY <2>1, <2>2, <2>3
<1> QED
  BY <1>4, <1>5

\* What a request does to the process, by the kind of its answer.
LEMMA Asked ==
    ASSUME AskOnce
    PROVE  LET m == Method(cli)
               reply == Call(server, m)
           IN  /\ pc = "ask" /\ Ask(m) /\ server' = AfterRequest(server, RequestOf(m))
               /\ UNCHANGED <<cli, pipe, chain, tip, seen, boundaries>>
               /\ \/ reply.kind = "err" /\ Exit("error") /\ UNCHANGED <<items, out>>
                  \/ /\ reply.kind = "one" /\ Exit("ok") /\ UNCHANGED items
                     /\ out' = IF pipe THEN Append(out, Line(cli, reply.msg)) ELSE out
                  \/ /\ reply.kind = "stream" /\ items' = reply.items /\ pc' = "drain"
                     /\ UNCHANGED <<exit, out>>
<1> DEFINE m == Method(cli)
           reply == Call(server, m)
<1>1. IsReply(reply)
  BY CallIsReply
<1>2. /\ pc = "ask" /\ Ask(m) /\ server' = AfterRequest(server, RequestOf(m))
      /\ UNCHANGED <<cli, pipe, chain, tip, seen, boundaries>>
      /\ CASE reply.kind = "err" -> Exit("error") /\ UNCHANGED <<items, out>>
           [] reply.kind = "one" ->
                /\ out' = IF pipe THEN Append(out, Line(cli, reply.msg)) ELSE out
                /\ Exit("ok") /\ UNCHANGED items
           [] reply.kind = "stream" ->
                items' = reply.items /\ pc' = "drain" /\ UNCHANGED <<exit, out>>
  BY Zenon DEF AskOnce
<1> HIDE DEF reply, m
<1>3. \/ reply.kind = "err" /\ Exit("error") /\ UNCHANGED <<items, out>>
      \/ /\ reply.kind = "one" /\ Exit("ok") /\ UNCHANGED items
         /\ out' = IF pipe THEN Append(out, Line(cli, reply.msg)) ELSE out
      \/ /\ reply.kind = "stream" /\ items' = reply.items /\ pc' = "drain"
         /\ UNCHANGED <<exit, out>>
  BY <1>1, <1>2 DEF IsReply
<1> QED
  BY <1>2, <1>3 DEF reply, m

\* Nothing has been asked at the start.
LEMMA AloneInit == LwcliInit => Alone
BY NoneIsSequence DEF LwcliInit, Alone

\* A request that names a wallet is put only on a channel nothing was asked on.
LEMMA AloneNext == Alone /\ [LwcliNext]_lwcliVars => Alone'
<1> SUFFICES ASSUME Alone, [LwcliNext]_lwcliVars PROVE Alone'
  OBVIOUS
<1>0. IsSequence(<<>>) /\ Len(<<>>) = 0 /\ DOMAIN <<>> = {}
  BY NoneIsSequence
<1>1. CASE UNCHANGED rpcs /\ UNCHANGED cli /\ pc' \in {pc, "done"}
  BY <1>1 DEF Alone, AllChainWide
<1>2. CASE Start \/ Connect
  <2>1. rpcs = <<>> /\ UNCHANGED rpcs /\ pc' \in {"done", "connect", "argument"}
    BY <1>2 DEF Start, Connect, Alone, Exit
  <2> QED
    BY <1>0, <2>1 DEF Alone
<1>3. CASE ReadArgument
  <2>1. rpcs = <<>> /\ UNCHANGED <<rpcs, cli>> /\ pc' \in {"done", "discover", "ask"}
    BY <1>3 DEF ReadArgument, Alone, Exit
  <2>2. pc' = "discover" => cli.cmd = "get-mempool-stream"
    BY <1>3 DEF ReadArgument, Exit, DiscoversFirst
  <2> QED
    BY <1>0, <2>1, <2>2 DEF Alone
<1>4. CASE AskOnce
  <2>1. rpcs = <<>> /\ rpcs' = Append(rpcs, RequestOf(Method(cli))) /\ pc' \in {"done", "drain"}
    BY <1>4, Asked DEF Alone, Ask, Exit
  <2>2. IsSequence(rpcs') /\ Len(rpcs') = 1
    <3>1. IsSequence(rpcs) /\ Len(rpcs) = 0
      BY <1>0, <2>1
    <3>2. PICK e : rpcs' = Append(rpcs, e)
      BY <2>1
    <3>3. IsSequence(Append(rpcs, e)) /\ Len(Append(rpcs, e)) = Len(rpcs) + 1
      BY <3>1, Appended
    <3> QED
      BY <3>1, <3>2, <3>3
  <2> QED
    BY <2>1, <2>2 DEF Alone
<1>5. CASE Discover
  <2>1. /\ cli.cmd = "get-mempool-stream" /\ pc' = "tip" /\ rpcs = <<>>
        /\ Ask([call |-> "discover_params"]) /\ UNCHANGED cli
    BY <1>5 DEF Discover, Alone
  <2>2. AllChainWide
    BY <1>0, <2>1 DEF AllChainWide
  <2>3. RequestOf([call |-> "discover_params"]).rpc \in ChainWide
    BY StreamAsksChainWide DEF ChainWide
  <2>4. IsSequence(rpcs') /\ AllChainWide'
    BY <2>1, <2>2, <2>3, AskChainWide DEF Alone
  <2> QED
    BY <2>1, <2>4 DEF Alone
<1>6. CASE ReadTip
  <2>1. /\ pc = "tip" /\ pc' = "subscribe" /\ Ask([call |-> "get_latest_height"]) /\ UNCHANGED cli
    BY <1>6 DEF ReadTip
  <2>2. RequestOf([call |-> "get_latest_height"]).rpc \in ChainWide
    BY StreamAsksChainWide DEF ChainWide
  <2>3. IsSequence(rpcs') /\ AllChainWide'
    BY <2>1, <2>2, AskChainWide DEF Alone
  <2> QED
    BY <2>1, <2>3 DEF Alone
<1>7. CASE Subscribe
  <2>1. /\ pc = "subscribe" /\ pc' \in {"follow", "done"} /\ UNCHANGED cli
        /\ Ask([call |-> "get_mempool_stream"])
    BY <1>7 DEF Subscribe, Exit
  <2>2. RequestOf([call |-> "get_mempool_stream"]).rpc \in ChainWide
    BY StreamAsksChainWide DEF ChainWide
  <2>3. IsSequence(rpcs') /\ AllChainWide'
    BY <2>1, <2>2, AskChainWide DEF Alone
  <2> QED
    BY <2>1, <2>3 DEF Alone
<1>8. CASE Drain
  <2>1. UNCHANGED rpcs /\ UNCHANGED cli /\ pc' \in {pc, "done"}
    BY <1>8 DEF Drain, Emit, Exit
  <2> QED
    BY <1>1, <2>1
<1>9. CASE FollowItem
  <2>1. UNCHANGED rpcs /\ UNCHANGED cli /\ pc' \in {pc, "done"}
    BY <1>9 DEF FollowItem, Emit, Exit
  <2> QED
    BY <1>1, <2>1
<1>10. CASE StreamEnds
  <2>1. UNCHANGED rpcs /\ pc = "follow" /\ pc' \in {"subscribe", "done"} /\ UNCHANGED cli
    BY <1>10 DEF StreamEnds, Exit
  <2> QED
    BY <2>1 DEF Alone, AllChainWide
<1>11. CASE ClosePipe \/ (\E raw \in Pool : Arrive(raw)) \/ (\E mined \in SUBSET Pool : Mine(mined))
  <2>1. UNCHANGED rpcs /\ UNCHANGED cli /\ UNCHANGED pc
    BY <1>11 DEF ClosePipe, Arrive, Mine
  <2> QED
    BY <1>1, <2>1
<1>12. CASE UNCHANGED lwcliVars
  BY <1>1, <1>12 DEF lwcliVars
<1> QED
  BY <1>2, <1>3, <1>4, <1>5, <1>6, <1>7, <1>8, <1>9, <1>10, <1>11, <1>12 DEF LwcliNext, LwcliStep

\* A request that names a wallet's transaction or address is the only request
\* of its process (dispatch_identity; the mempool stream, the command that asks
\* again, asks for nothing of a wallet's), for every command line and every
\* server.
THEOREM IdentityAlwaysAlone == LwcliSpec => []IdentityStandsAlone
<1>1. Alone => IdentityStandsAlone
  <2> SUFFICES ASSUME Alone, NEW i \in DOMAIN rpcs, rpcs[i].rpc \in IdentityRpcs
               PROVE  Len(rpcs) = 1
    BY DEF IdentityStandsAlone
  <2>1. ~AllChainWide
    BY ChainWideIsNoIdentity DEF AllChainWide
  <2>2. DOMAIN rpcs = 1..Len(rpcs) /\ Len(rpcs) \in Nat /\ Len(rpcs) <= 1
    BY <2>1, SequenceShape DEF Alone
  <2> QED
    BY <2>2
<1>2. LwcliInit => Alone
  BY AloneInit
<1>3. Alone /\ [LwcliNext]_lwcliVars => Alone'
  BY AloneNext
<1> QED
  BY <1>1, <1>2, <1>3, PTL DEF LwcliSpec

------------------------------------------------------------------------------
(***************************************************************************)
(* A follow shows a transaction once.                                      *)
(***************************************************************************)

\* Whatever a follow has shown is in its seen set, which a boundary keeps.
Follows == cli.cmd = "get-mempool-stream" /\ cli.arg.follow
Remembered ==
    /\ IsSequence(out)
    /\ cli.cmd = "get-mempool-stream" => pc \notin {"ask", "drain"}
    /\ Follows => \A i \in ViewLines : out[i].txid \in seen \cup {NoTxid}
    /\ ShownOnce

\* A line shows the txid of its view, or none.
LEMMA LineTxid ==
    ASSUME NEW view
    PROVE  /\ Summary(view).txid \in {view.txid, NoTxid}
           /\ Json(view).txid = view.txid
BY DEF Summary, Json

\* A line of a txid not yet seen, or of none, repeats none.
LEMMA ShowsOneMore ==
    ASSUME Remembered, Follows, NEW line, out' = Append(out, line), UNCHANGED cli, pc' = "follow",
           seen \subseteq seen',
           line.form \in {"summary", "json"} =>
                \/ line.txid = NoTxid
                \/ line.txid \notin seen /\ line.txid \in seen'
    PROVE  Remembered'
<1>1. /\ IsSequence(out') /\ DOMAIN out = 1..Len(out) /\ Len(out) \in Nat
      /\ DOMAIN out' = 1..(Len(out) + 1)
      /\ \A i \in 1..Len(out) : out'[i] = out[i]
      /\ out'[Len(out) + 1] = line
  BY Appended, SequenceShape DEF Remembered
<1>2. \A i \in ViewLines : out[i].txid \in seen \cup {NoTxid}
  BY DEF Remembered
<1>3. \A i, j \in ViewLines : out[i].txid = out[j].txid => i = j \/ out[i].txid = NoTxid
  BY DEF Remembered, ShownOnce, Follows
<1>4. ASSUME NEW i \in ViewLines'
      PROVE  \/ i = Len(out) + 1 /\ line.form \in {"summary", "json"}
             \/ i \in ViewLines /\ i # Len(out) + 1 /\ out'[i] = out[i]
  BY <1>1 DEF ViewLines
<1>5. \A i \in ViewLines' : out'[i].txid \in seen' \cup {NoTxid}
  BY <1>1, <1>2, <1>4
<1>6. ASSUME NEW i \in ViewLines', NEW j \in ViewLines', out'[i].txid = out'[j].txid, i # j
      PROVE  out'[i].txid = NoTxid
  <2>1. CASE i = Len(out) + 1
    <3>1. j \in ViewLines /\ out'[j] = out[j]
      BY <1>4, <1>6, <2>1
    <3> QED
      BY <1>1, <1>2, <1>4, <1>6, <2>1, <3>1
  <2>2. CASE j = Len(out) + 1
    <3>1. i \in ViewLines /\ out'[i] = out[i]
      BY <1>4, <1>6, <2>2
    <3> QED
      BY <1>1, <1>2, <1>4, <1>6, <2>2, <3>1
  <2>3. CASE i # Len(out) + 1 /\ j # Len(out) + 1
    BY <1>3, <1>4, <1>6, <2>3
  <2> QED
    BY <2>1, <2>2, <2>3
<1>7. ShownOnce'
  BY <1>6 DEF ShownOnce
<1> QED
  BY <1>1, <1>5, <1>7 DEF Remembered

\* Every txid a follow has shown is in seen, across every boundary.
LEMMA RememberedNext == Remembered /\ [LwcliNext]_lwcliVars => Remembered'
<1> SUFFICES ASSUME Remembered, [LwcliNext]_lwcliVars PROVE Remembered'
  OBVIOUS
<1>1. ASSUME UNCHANGED <<out, cli, seen>>,
             cli.cmd = "get-mempool-stream" => pc' \notin {"ask", "drain"}
      PROVE  Remembered'
  BY <1>1 DEF Remembered, Follows, ShownOnce, ViewLines
<1>2. CASE Start \/ Connect
  <2>1. UNCHANGED <<out, cli, seen>> /\ pc' \notin {"ask", "drain"}
    BY <1>2 DEF Start, Connect, Exit
  <2> QED
    BY <1>1, <2>1
<1>3. CASE ReadArgument \/ Discover
  <2>1. UNCHANGED <<out, cli, seen>>
    BY <1>3 DEF ReadArgument, Discover
  <2>2. cli.cmd = "get-mempool-stream" => pc' \notin {"ask", "drain"}
    BY <1>3 DEF ReadArgument, Discover, DiscoversFirst, Exit
  <2> QED
    BY <1>1, <2>1, <2>2
<1>4. CASE ReadTip \/ Subscribe \/ StreamEnds
  <2>1. UNCHANGED <<out, cli, seen>> /\ pc' \notin {"ask", "drain"}
    BY <1>4 DEF ReadTip, Subscribe, StreamEnds, Exit
  <2> QED
    BY <1>1, <2>1
<1>5. CASE AskOnce \/ Drain
  <2>1. cli.cmd # "get-mempool-stream" /\ UNCHANGED cli
    BY <1>5, Asked DEF Drain, Remembered
  <2>2. IsSequence(out')
    <3>1. out' = out \/ \E line : out' = Append(out, line)
      BY <1>5, Asked DEF Drain, Emit
    <3>2. CASE out' = out
      BY <3>2 DEF Remembered
    <3>3. CASE \E line : out' = Append(out, line)
      <4>1. PICK line : out' = Append(out, line)
        BY <3>3
      <4>2. IsSequence(out) => IsSequence(Append(out, line))
        BY Appended
      <4> QED
        BY <4>1, <4>2 DEF Remembered
    <3> QED
      BY <3>1, <3>2, <3>3
  <2> QED
    BY <2>1, <2>2 DEF Remembered, Follows, ShownOnce
<1>6. CASE FollowItem
  <2> DEFINE raw == Head(items).msg
             view == Parse(raw.data, tip, chain)
  <2>0. /\ pc = "follow" /\ UNCHANGED cli
        /\ \/ Exit("error") /\ UNCHANGED <<items, out, seen>>
           \/ /\ Emit([form |-> "debug", msg |-> raw], "follow") /\ UNCHANGED seen
           \/ /\ cli.output # "debug"
              /\ IF cli.arg.follow /\ view.txid # NoTxid /\ view.txid \in seen
                 THEN UNCHANGED <<out, pc, exit, seen>>
                 ELSE /\ Emit(IF cli.output = "human" THEN Summary(view) ELSE Json(view), "follow")
                      /\ seen' = IF cli.arg.follow /\ view.txid # NoTxid
                                 THEN seen \cup {view.txid} ELSE seen
    BY <1>6, Zenon DEF FollowItem
  <2>1. CASE UNCHANGED <<out, seen>>
    BY <1>1, <2>0, <2>1 DEF Emit, Exit
  <2>2. CASE out' = out /\ seen \subseteq seen' /\ pc' \in {"follow", "done"}
    BY <2>0, <2>2 DEF Remembered, Follows, ShownOnce, ViewLines
  <2>3. ASSUME NEW line, out' = Append(out, line), pc' = "follow", seen \subseteq seen',
               Follows /\ line.form \in {"summary", "json"} =>
                  \/ line.txid = NoTxid
                  \/ line.txid \notin seen /\ line.txid \in seen'
        PROVE  Remembered'
    <3>1. CASE Follows
      BY <2>0, <2>3, <3>1, ShowsOneMore
    <3>2. CASE ~Follows
      <4>1. IsSequence(out')
        BY <2>3, Appended DEF Remembered
      <4> QED
        BY <2>0, <2>3, <3>2, <4>1 DEF Remembered, Follows, ShownOnce
    <3> QED
      BY <3>1, <3>2
  <2>4. CASE Emit([form |-> "debug", msg |-> raw], "follow") /\ UNCHANGED seen
    <3> DEFINE line == [form |-> "debug", msg |-> raw]
    <3>1. line.form = "debug"
      OBVIOUS
    <3> HIDE DEF line
    <3>2. CASE out' = Append(out, line) /\ pc' = "follow"
      BY <2>3, <2>4, <3>1, <3>2
    <3>3. CASE UNCHANGED out
      BY <2>1, <2>4, <3>3
    <3> QED
      BY <2>4, <3>2, <3>3 DEF Emit, line
  <2>5. CASE /\ cli.output # "debug"
             /\ ~(cli.arg.follow /\ view.txid # NoTxid /\ view.txid \in seen)
             /\ Emit(IF cli.output = "human" THEN Summary(view) ELSE Json(view), "follow")
             /\ seen' = IF cli.arg.follow /\ view.txid # NoTxid
                        THEN seen \cup {view.txid} ELSE seen
    <3> DEFINE line == IF cli.output = "human" THEN Summary(view) ELSE Json(view)
    <3>1. line.txid \in {view.txid, NoTxid}
      BY LineTxid, Zenon
    <3>2. \/ pipe /\ out' = Append(out, line) /\ pc' = "follow"
          \/ out' = out /\ pc' = "done"
      BY <2>5 DEF Emit, Exit
    <3> HIDE DEF line, view
    <3>3. CASE out' = Append(out, line) /\ pc' = "follow"
      <4>1. Follows => \/ line.txid = NoTxid
                       \/ line.txid \notin seen /\ line.txid \in seen'
        BY <2>5, <3>1 DEF Follows
      <4>2. seen \subseteq seen'
        BY <2>5
      <4> QED
        BY <2>3, <3>3, <4>1, <4>2
    <3>4. CASE out' = out /\ pc' = "done"
      BY <2>2, <2>5, <3>4
    <3> QED
      BY <3>2, <3>3, <3>4
  <2> QED
    BY <2>0, <2>1, <2>4, <2>5, Zenon
<1>7. CASE ClosePipe \/ (\E raw \in Pool : Arrive(raw)) \/ (\E mined \in SUBSET Pool : Mine(mined))
  <2>1. UNCHANGED <<out, cli, seen>> /\ UNCHANGED pc
    BY <1>7 DEF ClosePipe, Arrive, Mine
  <2> QED
    BY <1>1, <2>1 DEF Remembered
<1>8. CASE UNCHANGED lwcliVars
  BY <1>1, <1>8 DEF lwcliVars, Remembered
<1> QED
  BY <1>2, <1>3, <1>4, <1>5, <1>6, <1>7, <1>8 DEF LwcliNext, LwcliStep

\* A follow shows a txid once, whatever the server sends again at each of its
\* reconnects (the seen set of main.rs).
THEOREM TransactionsShownOnce == LwcliSpec => []ShownOnce
<1>1. LwcliInit => Remembered
  BY NoneIsSequence DEF LwcliInit, Remembered, ViewLines, ShownOnce
<1>2. Remembered /\ [LwcliNext]_lwcliVars => Remembered'
  BY RememberedNext
<1>3. Remembered => ShownOnce
  BY DEF Remembered
<1> QED
  BY <1>1, <1>2, <1>3, PTL DEF LwcliSpec

------------------------------------------------------------------------------
(***************************************************************************)
(* The items of a sequence at some of its indices.                         *)
(***************************************************************************)

\* Induction up to n, over a set of numbers.
LEMMA UpTo_n ==
    ASSUME NEW n \in Nat, NEW T \in SUBSET (0..n), 0 \in T,
           \A m \in 1..n : m - 1 \in T => m \in T
    PROVE  T = 0..n
<1> DEFINE F == (0..n) \ T
           R == OpToRel(<, Nat)
<1>1. IsWellFoundedOn(R, Nat)
  BY NatLessThanWellFounded
<1>2. \A a, b \in Nat : a < b => <<a, b>> \in R
  BY DEF OpToRel
<1> HIDE DEF R
<1>3. SUFFICES ASSUME F # {} PROVE FALSE
  OBVIOUS
<1>4. F \subseteq Nat
  OBVIOUS
<1>5. PICK x \in F : \A y \in F : ~(<<y, x>> \in R)
  BY <1>1, <1>3, <1>4, WFMin
<1>6. x \in 1..n /\ x - 1 \in Nat /\ x - 1 < x /\ x \in Nat
  OBVIOUS
<1>7. x - 1 \notin F
  BY <1>2, <1>5, <1>6, Zenon
<1> QED
  BY <1>6, <1>7

\* The indices that are kept, counted: an increasing list of all of them.
Enumerates(f, k, I) ==
    /\ k \in Nat /\ f \in [1..k -> I]
    /\ \A a, b \in 1..k : a < b => f[a] < f[b]
    /\ \A i \in I : \E a \in 1..k : f[a] = i

\* The lists ItemsAt builds, by their values.
Builds(u, s, I, m) ==
    /\ u = [i \in 0..m |-> u[i]] /\ u[0] = <<>>
    /\ \A i \in 1..m : u[i] = IF i \in I THEN Append(u[i - 1], s[i]) ELSE u[i - 1]

\* The lists ItemsAt builds exist.
LEMMA BuildsExists ==
    ASSUME NEW s, NEW I, NEW n \in Nat
    PROVE  \E u : Builds(u, s, I, n)
<1> DEFINE T == {m \in 0..n : \E u : Builds(u, s, I, m)}
<1>1. 0 \in T
  <2> DEFINE w == [i \in 0..0 |-> <<>>]
  <2>1. w = [i \in 0..0 |-> w[i]] /\ w[0] = <<>>
    OBVIOUS
  <2> HIDE DEF w
  <2>2. Builds(w, s, I, 0)
    BY <2>1 DEF Builds
  <2> QED
    BY <2>2
<1>2. ASSUME NEW m \in 1..n, m - 1 \in T PROVE m \in T
  <2>1. PICK u : Builds(u, s, I, m - 1)
    BY <1>2
  <2> DEFINE top == IF m \in I THEN Append(u[m - 1], s[m]) ELSE u[m - 1]
             w == [i \in 0..m |-> IF i < m THEN u[i] ELSE top]
  <2>2. /\ w = [i \in 0..m |-> w[i]]
        /\ \A i \in 0..(m - 1) : w[i] = u[i]
        /\ w[m] = top
    OBVIOUS
  <2> HIDE DEF w
  <2>3. u[0] = <<>> /\ \A i \in 1..(m - 1) :
            u[i] = IF i \in I THEN Append(u[i - 1], s[i]) ELSE u[i - 1]
    BY <2>1 DEF Builds
  <2>0. m \in Nat /\ 0 \in 0..(m - 1) /\ \A i \in 1..m : i - 1 \in 0..(m - 1)
    OBVIOUS
  <2>4. w[0] = <<>>
    BY <2>0, <2>2, <2>3, Zenon
  <2>5. ASSUME NEW i \in 1..m
        PROVE  w[i] = IF i \in I THEN Append(w[i - 1], s[i]) ELSE w[i - 1]
    <3>1. i - 1 \in 0..(m - 1) /\ w[i - 1] = u[i - 1]
      BY <2>0, <2>2, Zenon
    <3>2. CASE i = m
      BY <2>2, <3>1, <3>2
    <3>3. CASE i # m
      <4>1. i \in 1..(m - 1) /\ i \in 0..(m - 1)
        BY <3>3
      <4> QED
        BY <2>2, <2>3, <3>1, <4>1
    <3> QED
      BY <3>2, <3>3
  <2>6. Builds(w, s, I, m)
    BY <2>2, <2>4, <2>5 DEF Builds
  <2> QED
    BY <2>6
<1>3. T \in SUBSET (0..n)
  OBVIOUS
<1>4. T = 0..n
  <2> HIDE DEF T
  <2> QED
    BY <1>1, <1>2, <1>3, UpTo_n
<1>5. n \in T
  BY <1>4
<1> QED
  BY <1>5

\* ItemsAt is the last of the lists it builds.
LEMMA ItemsAtIsBuilt ==
    ASSUME NEW s, IsSequence(s), NEW I
    PROVE  \E u : Builds(u, s, I, Len(s)) /\ ItemsAt(s, I) = u[Len(s)]
<1> DEFINE n == Len(s)
           body(u) == [i \in 0..n |-> IF i = 0 THEN <<>>
                                      ELSE IF i \in I THEN Append(u[i - 1], s[i]) ELSE u[i - 1]]
           upto == CHOOSE u : u = body(u)
<1>0. n \in Nat
  BY SequenceShape
<1>1. ItemsAt(s, I) = upto[n]
  BY DEF ItemsAt
<1>2. PICK v : Builds(v, s, I, n)
  BY <1>0, BuildsExists
<1>3. v = body(v)
  <2>1. /\ v = [i \in 0..n |-> v[i]] /\ v[0] = <<>>
        /\ \A i \in 1..n : v[i] = IF i \in I THEN Append(v[i - 1], s[i]) ELSE v[i - 1]
    BY <1>2 DEF Builds
  <2> HIDE DEF n
  <2>2. \A i \in 0..n : i # 0 => i \in 1..n
    BY <1>0
  <2>3. \A i \in 0..n : v[i] = IF i = 0 THEN <<>>
                               ELSE IF i \in I THEN Append(v[i - 1], s[i]) ELSE v[i - 1]
    BY <2>1, <2>2, Zenon
  <2> QED
    BY <2>1, <2>3
<1>4. upto = body(upto)
  <2> HIDE DEF body
  <2> QED
    BY <1>3
<1> HIDE DEF upto
<1>5. \A i \in 0..n : upto[i] = IF i = 0 THEN <<>>
                                ELSE IF i \in I THEN Append(upto[i - 1], s[i]) ELSE upto[i - 1]
  BY <1>4
<1>6. upto = [i \in 0..n |-> upto[i]]
  <2>1. DOMAIN body(upto) = 0..n
    OBVIOUS
  <2>2. body(upto) = [i \in 0..n |-> body(upto)[i]]
    OBVIOUS
  <2> HIDE DEF body
  <2> QED
    BY <1>4, <2>2
<1>7. 0 \in 0..n /\ \A i \in 1..n : i \in 0..n /\ i # 0
  BY <1>0
<1>8. Builds(upto, s, I, n)
  <2> HIDE DEF n
  <2>1. upto[0] = <<>>
    BY <1>5, <1>7
  <2>2. \A i \in 1..n : upto[i] = IF i \in I THEN Append(upto[i - 1], s[i]) ELSE upto[i - 1]
    BY <1>5, <1>7
  <2> QED
    BY <1>6, <2>1, <2>2 DEF Builds
<1> QED
  BY <1>1, <1>8

\* ItemsAt lists the items of the indices, in their order.
LEMMA ItemsAtShape ==
    ASSUME NEW s, IsSequence(s), NEW I \in SUBSET (1..Len(s))
    PROVE  \E k, f : Enumerates(f, k, I) /\ ItemsAt(s, I) = [a \in 1..k |-> s[f[a]]]
<1>1. PICK n \in Nat : n = Len(s)
  BY SequenceShape
<1>2. PICK upto : Builds(upto, s, I, n) /\ ItemsAt(s, I) = upto[n]
  BY <1>1, ItemsAtIsBuilt
<1>3. /\ upto[0] = <<>>
      /\ \A m \in 1..n : upto[m] = IF m \in I THEN Append(upto[m - 1], s[m]) ELSE upto[m - 1]
  BY <1>2 DEF Builds
<1>00. \A i \in I : i \in Nat /\ 1 <= i /\ i <= n
  BY <1>1
<1> DEFINE J(m) == {i \in I : i <= m}
           Good(m) == \E k, f : /\ Enumerates(f, k, J(m))
                                /\ upto[m] = [a \in 1..k |-> s[f[a]]]
<1>4. Good(0)
  <2> DEFINE f == [a \in 1..0 |-> 0]
  <2>1. J(0) = {}
    <3>1. \A i \in I : ~(i <= 0)
      BY <1>00
    <3> QED
      BY <3>1
  <2>2. Enumerates(f, 0, J(0))
    BY <2>1 DEF Enumerates
  <2>3. [a \in 1..0 |-> s[f[a]]] = <<>>
    OBVIOUS
  <2> HIDE DEF f, J
  <2> QED
    BY <1>3, <2>2, <2>3
<1>5. ASSUME NEW m \in 1..n, Good(m - 1) PROVE Good(m)
  <2>1. PICK k, f : Enumerates(f, k, J(m - 1)) /\ upto[m - 1] = [a \in 1..k |-> s[f[a]]]
    BY <1>5
  <2>2. /\ k \in Nat /\ f \in [1..k -> J(m - 1)]
        /\ \A a, b \in 1..k : a < b => f[a] < f[b]
        /\ \A i \in J(m - 1) : \E a \in 1..k : f[a] = i
    BY <2>1 DEF Enumerates
  <2>3. CASE m \notin I
    <3>0. \A i \in I : i <= m <=> i <= m - 1
      BY <1>00, <2>3
    <3>1. J(m) = J(m - 1)
      BY <3>0
    <3>2. upto[m] = upto[m - 1]
      BY <1>3, <2>3
    <3> HIDE DEF J
    <3> QED
      BY <2>1, <3>1, <3>2
  <2>4. CASE m \in I
    <3> DEFINE g == [a \in 1..(k + 1) |-> IF a <= k THEN f[a] ELSE m]
    <3>0. \A i \in I : i <= m <=> i <= m - 1 \/ i = m
      BY <1>00
    <3>00. \A i \in I : i <= m - 1 => i < m /\ i \in Nat
      BY <1>00
    <3>1. /\ J(m) = J(m - 1) \cup {m}
          /\ \A i \in J(m - 1) : i < m /\ i \in Nat
      <4>1. J(m) = J(m - 1) \cup {m}
        BY <2>4, <3>0
      <4> QED
        BY <4>1, <3>00
    <3>2. /\ g \in [1..(k + 1) -> J(m)]
          /\ \A a \in 1..k : g[a] = f[a]
          /\ g[k + 1] = m
      BY <2>2, <3>1
    <3>3. \A a, b \in 1..(k + 1) : a < b => g[a] < g[b]
      <4> SUFFICES ASSUME NEW a \in 1..(k + 1), NEW b \in 1..(k + 1), a < b
                   PROVE  g[a] < g[b]
        OBVIOUS
      <4>1. a \in 1..k /\ g[a] = f[a] /\ f[a] \in J(m - 1)
        BY <2>2, <3>2
      <4>2. CASE b = k + 1
        BY <3>1, <3>2, <4>1, <4>2
      <4>3. CASE b # k + 1
        <5>1. b \in 1..k /\ g[b] = f[b]
          BY <2>2, <3>2, <4>3
        <5> QED
          BY <2>2, <4>1, <5>1
      <4> QED
        BY <4>2, <4>3
    <3>4. \A i \in J(m) : \E a \in 1..(k + 1) : g[a] = i
      <4>1. k + 1 \in 1..(k + 1) /\ 1..k \subseteq 1..(k + 1)
        BY <2>2
      <4> QED
        BY <2>2, <3>1, <3>2, <4>1
    <3>5. Enumerates(g, k + 1, J(m))
      BY <2>2, <3>2, <3>3, <3>4 DEF Enumerates
    <3>6. upto[m] = [a \in 1..(k + 1) |-> s[g[a]]]
      <4> DEFINE q == upto[m - 1]
      <4>1. q = [a \in 1..k |-> q[a]] /\ \A a \in 1..k : q[a] = s[f[a]]
        BY <2>1
      <4> HIDE DEF q
      <4>2. IsSequence(q) /\ Len(q) = k
        BY <2>2, <4>1, Made
      <4>3. /\ IsSequence(Append(q, s[m])) /\ Len(Append(q, s[m])) = k + 1
            /\ \A a \in 1..k : Append(q, s[m])[a] = q[a]
            /\ Append(q, s[m])[k + 1] = s[m]
        BY <4>2, Appended
      <4>4. upto[m] = Append(q, s[m])
        BY <1>3, <2>4 DEF q
      <4>5. Append(q, s[m]) = [a \in 1..(k + 1) |-> Append(q, s[m])[a]]
        BY <4>3, SequenceShape
      <4> DEFINE p == Append(q, s[m])
      <4>6. \A a \in 1..(k + 1) : p[a] = s[g[a]]
        <5> SUFFICES ASSUME NEW a \in 1..(k + 1) PROVE p[a] = s[g[a]]
          OBVIOUS
        <5>1. CASE a = k + 1
          BY <3>2, <4>3, <5>1
        <5>2. CASE a # k + 1
          <6>1. a \in 1..k
            BY <2>2, <5>2
          <6> QED
            BY <3>2, <4>1, <4>3, <6>1
        <5> QED
          BY <5>1, <5>2
      <4> HIDE DEF p, g
      <4>7. [a \in 1..(k + 1) |-> p[a]] = [a \in 1..(k + 1) |-> s[g[a]]]
        BY <4>6
      <4> QED
        BY <4>4, <4>5, <4>7 DEF p
    <3> HIDE DEF g, J
    <3> QED
      BY <3>5, <3>6
  <2> QED
    BY <2>3, <2>4
<1>6. Good(n)
  <2> DEFINE T == {m \in 0..n : Good(m)}
  <2> HIDE DEF Good
  <2>0. \A m \in 1..n : m \in 0..n
    OBVIOUS
  <2>1. T \in SUBSET (0..n) /\ 0 \in T /\ \A m \in 1..n : m - 1 \in T => m \in T
    BY <1>4, <1>5, <2>0
  <2> HIDE DEF T
  <2>2. T = 0..n
    BY <2>1, UpTo_n
  <2> QED
    BY <2>2 DEF T
<1>7. J(n) = I
  BY <1>00
<1> HIDE DEF J
<1>8. PICK k, f : Enumerates(f, k, J(n)) /\ upto[n] = [a \in 1..k |-> s[f[a]]]
  BY <1>6
<1> QED
  BY <1>2, <1>7, <1>8

\* ItemsAt has the items of the indices and no other.
LEMMA SelectedItems ==
    ASSUME NEW s, IsSequence(s), NEW I \in SUBSET (1..Len(s))
    PROVE  /\ IsSequence(ItemsAt(s, I))
           /\ ToSet(ItemsAt(s, I)) = {s[i] : i \in I}
<1>1. PICK k, f : Enumerates(f, k, I) /\ ItemsAt(s, I) = [a \in 1..k |-> s[f[a]]]
  BY ItemsAtShape
<1>2. PICK q : q = ItemsAt(s, I)
  OBVIOUS
<1>3. /\ k \in Nat /\ q = [a \in 1..k |-> q[a]]
      /\ \A a \in 1..k : q[a] = s[f[a]] /\ f[a] \in I
      /\ \A i \in I : \E a \in 1..k : f[a] = i
  BY <1>1, <1>2 DEF Enumerates
<1>4. IsSequence(q) /\ Len(q) = k
  BY <1>3, Made
<1>5. DOMAIN q = 1..k
  BY <1>4, SequenceShape
<1>6. ToSet(q) = {s[i] : i \in I}
  BY <1>3, <1>5 DEF ToSet
<1> QED
  BY <1>2, <1>4, <1>6

------------------------------------------------------------------------------
(***************************************************************************)
(* What an endpoint streams.                                               *)
(***************************************************************************)

\* A stream is the messages in their order, or the first of them and an error.
Streams(reply, msgs) ==
    /\ reply.kind = "stream" /\ IsSequence(reply.items)
    /\ \A i \in DOMAIN reply.items : reply.items[i].ok =>
          i \in DOMAIN msgs /\ reply.items[i].msg = msgs[i]

\* Take is the first items of a sequence.
LEMMA TakeIsPrefix ==
    ASSUME NEW s, IsSequence(s), NEW n \in Nat
    PROVE  /\ IsSequence(Take(s, n)) /\ Len(Take(s, n)) <= Len(s)
           /\ \A i \in 1..Len(Take(s, n)) : Take(s, n)[i] = s[i]
<1> DEFINE S == ToSet(s)
           k == IF n < Len(s) THEN n ELSE Len(s)
<1>1. s \in Seq(S) /\ Len(s) \in Nat
  BY SequenceShape DEF IsSequence
<1> HIDE DEF S
<1>2. k \in Nat /\ k <= Len(s) /\ \A i \in 1..k : i \in 1..Len(s)
  BY <1>1
<1> HIDE DEF k
<1>3. /\ SubSeq(s, 1, k) \in Seq(S) /\ Len(SubSeq(s, 1, k)) = k
      /\ \A i \in 1..k : SubSeq(s, 1, k)[i] = s[i]
  BY <1>1, <1>2
<1>4. Take(s, n) = SubSeq(s, 1, k)
  BY DEF Take, k
<1> QED
  BY <1>2, <1>3, <1>4, SequenceOf

\* A stream with or without a fault is a stream of the messages.
LEMMA StreamOfStreams ==
    ASSUME NEW s, NEW rpc, NEW msgs, IsSequence(msgs),
           rpc \in DOMAIN s.streamFaults => s.streamFaults[rpc].after \in Nat
    PROVE  Streams(StreamOf(s, rpc, msgs), msgs)
<1> DEFINE its == [i \in DOMAIN msgs |-> Item(msgs[i])]
           n == s.streamFaults[rpc].after
           bad == BadItem(s.streamFaults[rpc].status)
<1>1. DOMAIN msgs = 1..Len(msgs) /\ Len(msgs) \in Nat
  BY SequenceShape
<1>2. /\ its = [i \in 1..Len(msgs) |-> its[i]]
      /\ \A i \in 1..Len(msgs) : its[i].ok /\ its[i].msg = msgs[i]
  BY <1>1 DEF Item
<1>3. ~bad.ok
  BY DEF BadItem
<1>4. StreamOf(s, rpc, msgs) =
        Stream(IF rpc \in DOMAIN s.streamFaults THEN Append(Take(its, n), bad) ELSE its)
  BY DEF StreamOf
<1> HIDE DEF its, bad, n
<1>5. IsSequence(its) /\ Len(its) = Len(msgs)
  BY <1>1, <1>2, Made
<1>6. CASE rpc \notin DOMAIN s.streamFaults
  <2>1. StreamOf(s, rpc, msgs) = Stream(its)
    BY <1>4, <1>6
  <2>2. DOMAIN its = DOMAIN msgs
    BY <1>1, <1>5, SequenceShape
  <2> QED
    BY <1>1, <1>2, <1>5, <2>1, <2>2 DEF Streams, Stream
<1>7. CASE rpc \in DOMAIN s.streamFaults
  <2>0. n \in Nat
    BY <1>7 DEF n
  <2> DEFINE front == Take(its, n)
             q == Append(front, bad)
  <2>1. StreamOf(s, rpc, msgs) = Stream(q)
    BY <1>4, <1>7
  <2>2. /\ IsSequence(front) /\ Len(front) <= Len(its)
        /\ \A i \in 1..Len(front) : front[i] = its[i]
    BY <1>5, <2>0, TakeIsPrefix
  <2> HIDE DEF front
  <2>3. /\ IsSequence(q) /\ Len(q) = Len(front) + 1
        /\ \A i \in 1..Len(front) : q[i] = front[i]
        /\ q[Len(front) + 1] = bad
    BY <2>2, Appended
  <2>4. DOMAIN q = 1..(Len(front) + 1) /\ Len(front) \in Nat
    BY <2>2, <2>3, SequenceShape
  <2> HIDE DEF q
  <2>5. ASSUME NEW i \in DOMAIN q, q[i].ok PROVE i \in DOMAIN msgs /\ q[i].msg = msgs[i]
    <3>1. i # Len(front) + 1
      BY <1>3, <2>3, <2>5
    <3>2. i \in 1..Len(front) /\ i \in 1..Len(msgs)
      BY <1>1, <1>5, <2>2, <2>4, <3>1
    <3> QED
      BY <1>1, <1>2, <2>2, <2>3, <3>2
  <2> QED
    BY <2>1, <2>3, <2>5 DEF Streams, Stream
<1> QED
  BY <1>6, <1>7

\* Already in order, the blocks of a range stay a sequence of those blocks.
LEMMA ByHeightSorts ==
    ASSUME NEW blocks, IsSequence(blocks), Rising(blocks)
    PROVE  /\ IsSequence(ByHeight(blocks)) /\ ToSet(ByHeight(blocks)) = ToSet(blocks)
           /\ Rising(ByHeight(blocks))
<1> DEFINE D == DOMAIN blocks
           B == ToSet(blocks)
           P(q) == /\ ToSet(q) = B
                   /\ \A i, j \in DOMAIN q : i < j => q[i] # q[j] /\ q[i].height <= q[j].height
<1>0. D = 1..Len(blocks) /\ Len(blocks) \in Nat /\ blocks = [i \in D |-> blocks[i]]
  BY SequenceShape
<1>1. blocks \in [D -> B]
  BY <1>0 DEF ToSet
<1>2. P(blocks)
  <2>1. ASSUME NEW i \in D, NEW j \in D, i < j
        PROVE  blocks[i] # blocks[j] /\ blocks[i].height <= blocks[j].height
    <3>1. blocks[i].height \in Nat /\ blocks[j].height \in Nat /\ blocks[i].height < blocks[j].height
      BY <2>1 DEF Rising
    <3> QED
      BY <3>1
  <2> QED
    BY <2>1
<1>3. ByHeight(blocks) = CHOOSE q \in [D -> B] : P(q)
  BY DEF ByHeight
<1>4. PICK q : q = ByHeight(blocks)
  OBVIOUS
<1> HIDE DEF P
<1>5. q \in [D -> B] /\ P(q)
  BY <1>1, <1>2, <1>3, <1>4, Zenon
<1>6. q = [i \in 1..Len(blocks) |-> q[i]] /\ DOMAIN q = D
  BY <1>0, <1>5
<1>7. IsSequence(q)
  BY <1>0, <1>6, Made
<1>8. ToSet(q) = B /\ \A i, j \in D : i < j => q[i] # q[j] /\ q[i].height <= q[j].height
  BY <1>5, <1>6 DEF P
<1>9. \A x, y \in B : x.height \in Nat /\ y.height \in Nat /\ (x # y => x.height # y.height)
  <2>1. ASSUME NEW i \in D, NEW j \in D, blocks[i] # blocks[j]
        PROVE  blocks[i].height # blocks[j].height
    <3>0. blocks[i].height \in Nat /\ blocks[j].height \in Nat
      BY DEF Rising
    <3>1. CASE i < j
      <4>1. blocks[i].height < blocks[j].height
        BY <3>1 DEF Rising
      <4> QED
        BY <3>0, <4>1
    <3>2. CASE j < i
      <4>1. blocks[j].height < blocks[i].height
        BY <3>2 DEF Rising
      <4> QED
        BY <3>0, <4>1
    <3> QED
      BY <1>0, <2>1, <3>1, <3>2
  <2>2. \A x \in B : \E i \in D : x = blocks[i]
    BY DEF ToSet
  <2>3. \A i \in D : blocks[i].height \in Nat
    BY DEF Rising
  <2> HIDE DEF D, B
  <2> QED
    BY <2>1, <2>2, <2>3
<1>10. \A i \in D : q[i] \in B
  BY <1>5
<1>11. Rising(q)
  <2>1. ASSUME NEW i \in D, NEW j \in D, i < j PROVE q[i].height < q[j].height
    <3>1. q[i] \in B /\ q[j] \in B /\ q[i] # q[j] /\ q[i].height <= q[j].height
      BY <1>8, <1>10, <2>1
    <3>2. q[i].height \in Nat /\ q[j].height \in Nat /\ q[i].height # q[j].height
      BY <1>9, <3>1
    <3> QED
      BY <3>1, <3>2
  <2>2. \A i \in D : q[i].height \in Nat
    BY <1>9, <1>10
  <2> HIDE DEF D
  <2> QED
    BY <1>6, <2>1, <2>2 DEF Rising
<1> QED
  BY <1>4, <1>7, <1>8, <1>11

\* Items selected from rising ones rise.
LEMMA SelectedRise ==
    ASSUME NEW s, IsSequence(s), Rising(s), NEW I \in SUBSET (1..Len(s))
    PROVE  Rising(ItemsAt(s, I))
<1>1. PICK k, f : Enumerates(f, k, I) /\ ItemsAt(s, I) = [a \in 1..k |-> s[f[a]]]
  BY ItemsAtShape
<1>2. PICK q : q = ItemsAt(s, I)
  OBVIOUS
<1>3. /\ k \in Nat /\ DOMAIN q = 1..k
      /\ \A a \in 1..k : q[a] = s[f[a]] /\ f[a] \in I
      /\ \A a, b \in 1..k : a < b => f[a] < f[b]
  BY <1>1, <1>2 DEF Enumerates
<1>4. DOMAIN s = 1..Len(s)
  BY SequenceShape
<1>5. \A a \in 1..k : q[a].height \in Nat
  BY <1>3, <1>4 DEF Rising
<1>6. ASSUME NEW a \in 1..k, NEW b \in 1..k, a < b PROVE q[a].height < q[b].height
  <2>1. f[a] \in DOMAIN s /\ f[b] \in DOMAIN s /\ f[a] < f[b]
    BY <1>3, <1>4, <1>6
  <2>2. s[f[a]].height < s[f[b]].height
    BY <2>1 DEF Rising
  <2> QED
    BY <1>3, <2>2
<1>7. Rising(q)
  BY <1>3, <1>5, <1>6 DEF Rising
<1> QED
  BY <1>2, <1>7

\* What is left after skipping is a sequence.
LEMMA SkipIsSequence ==
    ASSUME NEW s, IsSequence(s), NEW n \in Nat
    PROVE  IsSequence(Skip(s, n))
<1> DEFINE S == ToSet(s)
<1>1. s \in Seq(S) /\ Len(s) \in Nat
  BY SequenceShape DEF IsSequence
<1> HIDE DEF S
<1>2. SubSeq(s, n + 1, Len(s)) \in Seq(S)
  BY <1>1, SubSeqProperties
<1> QED
  BY <1>2, SequenceOf DEF Skip

\* What Reverse does to a sequence, item by item.
LEMMA ReversedIsSequence ==
    ASSUME NEW s, IsSequence(s)
    PROVE  /\ IsSequence(Reverse(s)) /\ Len(Reverse(s)) = Len(s)
           /\ \A i \in 1..Len(s) : Reverse(s)[i] = s[Len(s) - i + 1]
<1>1. PICK n \in Nat : n = Len(s)
  BY SequenceShape
<1>2. PICK q : q = Reverse(s)
  OBVIOUS
<1>3. q = [i \in 1..n |-> q[i]] /\ \A i \in 1..n : q[i] = s[n - i + 1]
  BY <1>1, <1>2 DEF Reverse
<1> QED
  BY <1>1, <1>2, <1>3, Made

\* Every stream of an endpoint is a sequence of items, whatever is asked; a
\* page is asked for by two numbers.
Sent(r) == r.kind = "stream" => IsSequence(r.items)
PagedRpcs == {"GetSubtreeRoots", "GetAddressUtxos", "GetAddressUtxosStream"}
Paged(req) == req.rpc \in PagedRpcs => req.arg.start \in Nat /\ req.arg.max \in Nat

\* A page is a sequence.
LEMMA UpToIsSequence ==
    ASSUME NEW s, IsSequence(s), NEW n \in Nat
    PROVE  IsSequence(UpTo(s, n))
BY TakeIsPrefix DEF UpTo

\* An answer that is no stream of messages, and what a fault makes of one.
LEMMA AtomsAreSent ==
    /\ \A e : Sent(Err(e))
    /\ \A m : Sent(One(m))
    /\ \A map, key, status : Sent(Entry(map, key, status))
    /\ \A s, rpc, r : Sent(r) => Sent(Checked(s, rpc, r))
<1>1. (\A e : Sent(Err(e))) /\ (\A m : Sent(One(m)))
  BY DEF Sent, Err, One
<1>2. ASSUME NEW map, NEW key, NEW status PROVE Sent(Entry(map, key, status))
  BY <1>1 DEF Entry
<1>3. ASSUME NEW s, NEW rpc, NEW r, Sent(r) PROVE Sent(Checked(s, rpc, r))
  BY <1>1, <1>3 DEF Checked
<1> QED
  BY <1>1, <1>2, <1>3

\* Whatever is asked, a stream is a sequence of items.
LEMMA AnswerIsSent ==
    ASSUME NEW s, IsServer(s), NEW req, Paged(req)
    PROVE  Sent(Answer(s, req))
<1>0. ASSUME NEW rpc, NEW msgs, IsSequence(msgs) PROVE Sent(StreamOf(s, rpc, msgs))
  BY <1>0, StreamOfStreams DEF Sent, Streams, IsServer
<1>1. /\ IsSequence(s.blocks) /\ IsSequence(s.mempoolTxs) /\ IsSequence(s.mempool)
      /\ IsSequence(s.utxos) /\ IsSequence(s.roots) /\ Rising(s.blocks)
      /\ \A address \in DOMAIN s.taddressTxs : IsSequence(s.taddressTxs[address])
  BY DEF IsServer
<1>2. /\ \A e : Sent(Err(e))
      /\ \A m : Sent(One(m))
      /\ \A map, key, status : Sent(Entry(map, key, status))
      /\ \A rpc, r : Sent(r) => Sent(Checked(s, rpc, r))
      /\ Sent(Unimplemented)
  BY AtomsAreSent DEF Unimplemented
<1> HIDE DEF Sent
<1>4. Sent(GetLatestBlock(s)) /\ Sent(GetBlock(s, req.arg))
  <2>1. Sent(BlockAt(s, req.arg.height))
    BY <1>2 DEF BlockAt
  <2> QED
    BY <1>2, <2>1 DEF GetLatestBlock, GetBlock
<1>5. Sent(GetBlockRange(s, req.arg))
  <2> DEFINE arg == req.arg
             low  == IF arg.start < arg.end THEN arg.start ELSE arg.end
             high == IF arg.start < arg.end THEN arg.end ELSE arg.start
             I == {i \in DOMAIN s.blocks : s.blocks[i].height \in low..high}
             found == ItemsAt(s.blocks, I)
             sorted == ByHeight(found)
  <2>1. GetBlockRange(s, arg) =
          Checked(s, "GetBlockRange",
                  StreamOf(s, "GetBlockRange", IF arg.start > arg.end THEN Reverse(sorted) ELSE sorted))
    BY DEF GetBlockRange, Where
  <2>2. I \subseteq 1..Len(s.blocks)
    BY <1>1, SequenceShape
  <2> HIDE DEF I
  <2>3. IsSequence(found) /\ Rising(found)
    BY <1>1, <2>2, SelectedItems, SelectedRise
  <2> HIDE DEF found
  <2>4. IsSequence(sorted)
    BY <2>3, ByHeightSorts
  <2> HIDE DEF sorted
  <2>5. IsSequence(Reverse(sorted))
    BY <2>4, ReversedIsSequence
  <2>6. Sent(StreamOf(s, "GetBlockRange", IF arg.start > arg.end THEN Reverse(sorted) ELSE sorted))
    BY <1>0, <2>4, <2>5
  <2> QED
    BY <1>2, <2>1, <2>6
<1>6. Sent(GetTransaction(s, req.arg)) /\ Sent(SendTransaction(s))
  BY <1>2 DEF GetTransaction, SendTransaction
<1>7. Sent(GetTaddressTxids(s, req.arg)) /\ Sent(GetTaddressTransactions(s, req.arg))
  <2>1. IsSequence(TaddressMatches(s, req.arg))
    <3>1. CASE req.arg.address \in DOMAIN s.taddressTxs
      <4> DEFINE txs == s.taddressTxs[req.arg.address]
                 I == {i \in DOMAIN txs : txs[i].height >= req.arg.start
                                             /\ txs[i].height <= req.arg.end}
      <4>1. TaddressMatches(s, req.arg) = ItemsAt(txs, I)
        BY <3>1 DEF TaddressMatches, Where
      <4>2. IsSequence(txs)
        BY <1>1, <3>1
      <4>3. I \subseteq 1..Len(txs)
        BY <4>2, SequenceShape
      <4> HIDE DEF I, txs
      <4> QED
        BY <4>1, <4>2, <4>3, SelectedItems
    <3>2. CASE req.arg.address \notin DOMAIN s.taddressTxs
      BY <3>2, NoneIsSequence DEF TaddressMatches
    <3> QED
      BY <3>1, <3>2
  <2> QED
    BY <1>0, <1>2, <2>1 DEF GetTaddressTxids, GetTaddressTransactions
<1>8. Sent(GetTaddressBalance(s)) /\ Sent(GetTaddressBalanceStream(s))
  BY <1>2 DEF GetTaddressBalance, GetTaddressBalanceStream
<1>9. Sent(GetMempoolTx(s, req.arg)) /\ Sent(GetMempoolStream(s))
  <2> DEFINE I == {i \in DOMAIN s.mempoolTxs :
                      ~ \E suffix \in req.arg.exclude : IsSuffix(suffix, s.mempoolTxs[i].txid)}
  <2>1. GetMempoolTx(s, req.arg) =
          Checked(s, "GetMempoolTx", StreamOf(s, "GetMempoolTx", ItemsAt(s.mempoolTxs, I)))
    BY DEF GetMempoolTx, Where
  <2>2. I \subseteq 1..Len(s.mempoolTxs)
    BY <1>1, SequenceShape
  <2> HIDE DEF I
  <2>3. IsSequence(ItemsAt(s.mempoolTxs, I))
    BY <1>1, <2>2, SelectedItems
  <2> QED
    BY <1>0, <1>1, <1>2, <2>1, <2>3 DEF GetMempoolStream
<1>10. Sent(GetTreeState(s, req.arg)) /\ Sent(GetLatestTreeState(s))
  <2> DEFINE top == CHOOSE h \in DOMAIN s.trees : \A g \in DOMAIN s.trees : g <= h
             r == IF DOMAIN s.trees = {} THEN Err("unavailable") ELSE One(s.trees[top])
  <2>1. Sent(r)
    BY <1>2
  <2>2. GetLatestTreeState(s) = Checked(s, "GetLatestTreeState", r)
    BY DEF GetLatestTreeState
  <2> QED
    BY <1>2, <2>1, <2>2 DEF GetTreeState
<1>11. req.rpc = "GetSubtreeRoots" => Sent(GetSubtreeRoots(s, req.arg))
  <2> SUFFICES ASSUME req.rpc = "GetSubtreeRoots" PROVE Sent(GetSubtreeRoots(s, req.arg))
    OBVIOUS
  <2>1. req.arg.start \in Nat /\ req.arg.max \in Nat
    BY DEF Paged, PagedRpcs
  <2>2. IsSequence(Skip(s.roots, req.arg.start))
    BY <1>1, <2>1, SkipIsSequence
  <2>3. IsSequence(UpTo(Skip(s.roots, req.arg.start), req.arg.max))
    BY <2>1, <2>2, UpToIsSequence
  <2> QED
    BY <1>0, <1>2, <2>3 DEF GetSubtreeRoots
<1>12. Sent(GetAddressUtxos(s, req.arg))
  BY <1>2 DEF GetAddressUtxos
<1>13. req.rpc = "GetAddressUtxosStream" => Sent(GetAddressUtxosStream(s, req.arg))
  <2> SUFFICES ASSUME req.rpc = "GetAddressUtxosStream"
               PROVE  Sent(GetAddressUtxosStream(s, req.arg))
    OBVIOUS
  <2> DEFINE I == {i \in DOMAIN s.utxos : s.utxos[i].height >= req.arg.start}
  <2>1. req.arg.max \in Nat
    BY DEF Paged, PagedRpcs
  <2>2. UtxosMatching(s, req.arg) = UpTo(ItemsAt(s.utxos, I), req.arg.max)
    BY DEF UtxosMatching, Where
  <2>3. I \subseteq 1..Len(s.utxos)
    BY <1>1, SequenceShape
  <2> HIDE DEF I
  <2>4. IsSequence(ItemsAt(s.utxos, I))
    BY <1>1, <2>3, SelectedItems
  <2>5. IsSequence(UtxosMatching(s, req.arg))
    BY <2>1, <2>2, <2>4, UpToIsSequence
  <2> QED
    BY <1>0, <1>2, <2>5 DEF GetAddressUtxosStream
<1>14. Sent(GetLightdInfo(s)) /\ Sent(Ping(s)) /\ Sent(GetRoster(s))
         /\ Sent(GetBondInfo(s, req.arg)) /\ Sent(RequestFaucetDonation(s))
  BY <1>2 DEF GetLightdInfo, Ping, GetRoster, GetBondInfo, RequestFaucetDonation
<1> QED
  BY <1>2, <1>4, <1>5, <1>6, <1>7, <1>8, <1>9, <1>10, <1>11, <1>12, <1>13, <1>14 DEF Answer

\* What the client makes of a stream is item by item: the same messages.
LEMMA CallIsSent ==
    ASSUME NEW s, IsServer(s), NEW m, Paged(RequestOf(m))
    PROVE  Sent(Call(s, m))
<1> DEFINE reply == Answer(s, RequestOf(m))
           wrapped == WrapStream(reply.items)
<1>1. Sent(reply) /\ IsReply(reply)
  BY AnswerIsSent, AnswerIsReply
<1>2. Call(s, m) = ResultOf(m, reply)
  BY DEF Call
<1>3. reply.kind = "stream" => IsSequence(wrapped)
  <2> SUFFICES ASSUME reply.kind = "stream" PROVE IsSequence(wrapped)
    OBVIOUS
  <2>1. PICK n \in Nat : DOMAIN reply.items = 1..n
    BY <1>1, SequenceShape DEF Sent
  <2>2. PICK q : q = wrapped
    OBVIOUS
  <2>3. q = [i \in 1..n |-> q[i]]
    BY <2>1, <2>2 DEF WrapStream
  <2> QED
    BY <2>2, <2>3, Made
<1> HIDE DEF reply, wrapped
<1>4. CASE reply.kind = "err"
  BY <1>2, <1>4 DEF ResultOf, Sent, Err
<1>5. CASE reply.kind = "stream"
  BY <1>2, <1>3, <1>5 DEF ResultOf, Sent, Err, Stream, wrapped
<1>6. CASE reply.kind = "one"
  <2>1. Sent(One(reply.msg.height)) /\ Sent(FromLightdInfo(reply.msg)) /\ Sent(reply)
    BY <1>6 DEF Sent, One, Err, FromLightdInfo
  <2>2. Call(s, m) \in {One(reply.msg.height), FromLightdInfo(reply.msg), reply}
    BY <1>2, <1>6 DEF ResultOf
  <2> QED
    BY <2>1, <2>2
<1> QED
  BY <1>1, <1>4, <1>5, <1>6 DEF IsReply

\* What a request leaves behind changes no answer to it.
LEMMA AskedAgain ==
    ASSUME NEW s, IsServer(s), NEW m
    PROVE  Call(AfterRequest(s, RequestOf(m)), m) = Call(s, m)
<1> DEFINE req == RequestOf(m)
           after == AfterRequest(s, req)
<1>1. SUFFICES Answer(after, req) = Answer(s, req)
  BY DEF Call
<1>2. CASE req.rpc \in DOMAIN s.faults \/ req.rpc \notin {"SendTransaction", "GetTaddressBalanceStream"}
  BY <1>2 DEF AfterRequest
<1>3. CASE req.rpc \notin DOMAIN s.faults /\ req.rpc = "SendTransaction"
  <2>1. after = [s EXCEPT !.sent = Append(@, req.arg.data)]
    BY <1>3 DEF AfterRequest
  <2>2. PICK q : after = [s EXCEPT !.sent = q]
    BY <2>1
  <2>3. after.faults = s.faults
    BY <2>2 DEF IsServer, NewServer
  <2>4. Answer(s, req) = SendTransaction(s) /\ Answer(after, req) = SendTransaction(after)
    BY <1>3 DEF Answer, CrosslinkRpcs
  <2> QED
    BY <2>3, <2>4 DEF SendTransaction, Checked
<1>4. CASE req.rpc \notin DOMAIN s.faults /\ req.rpc = "GetTaddressBalanceStream"
  <2>1. after = [s EXCEPT !.queries = @ \o req.arg.addresses]
    BY <1>4 DEF AfterRequest
  <2>2. PICK q : after = [s EXCEPT !.queries = q]
    BY <2>1
  <2>3. after.faults = s.faults /\ after.balance = s.balance
    BY <2>2 DEF IsServer, NewServer
  <2>4. /\ Answer(s, req) = GetTaddressBalanceStream(s)
        /\ Answer(after, req) = GetTaddressBalanceStream(after)
    BY <1>4 DEF Answer, CrosslinkRpcs
  <2> QED
    BY <2>3, <2>4 DEF GetTaddressBalanceStream, Checked
<1> QED
  BY <1>2, <1>3, <1>4

\* A command line asks for a page by two numbers.
LEMMA MethodIsPaged ==
    ASSUME NEW c \in Invocations, c.cmd \notin {"get-mempool-stream", "completions"}
    PROVE  Paged(RequestOf(Method(c)))
<1>4. PICK m : m = Method(c)
  OBVIOUS
<1>5. SUFFICES Paged(RequestOf(m))
  BY <1>4
<1>0. c.cmd \in SyncCmds \cup IdentityCmds \cup OtherCmds
  BY InvocationsAssumption
<1>1. CASE c.cmd \in SyncCmds
  <2>1. m = SyncMethod(c)
    BY <1>4, <1>1 DEF Method, SyncCmds, IdentityCmds
  <2>2. m.call \in TraitCalls
    BY <1>1, <2>1 DEF SyncMethod, SyncCmds, TraitCalls
  <2>3. RequestOf(m) = TraitRequest(m)
    BY <2>2 DEF RequestOf, TraitCalls, IndexerCalls, CrosslinkCalls
  <2> QED
    BY <2>2, <2>3 DEF TraitCalls, TraitRequest, Paged, PagedRpcs
<1>2. CASE c.cmd \in IdentityCmds
  <2>1. m = IdentityMethod(c)
    BY <1>4, <1>2 DEF Method, SyncCmds, IdentityCmds
  <2>2. m.call \in {"get_transaction", "send_transaction", "get_taddress_transactions",
                    "get_taddress_txids", "get_taddress_balance",
                    "get_taddress_balance_stream", "get_mempool_tx"}
    BY <1>2, <2>1 DEF IdentityMethod, IdentityCmds, AddressMethod
  <2>3. RequestOf(m) = IdentityRequest(m)
    BY <2>2 DEF RequestOf, TraitCalls, IndexerCalls, CrosslinkCalls
  <2>4. IdentityRequest(m).rpc \in
          {"GetTransaction", "SendTransaction", "GetTaddressTransactions", "GetTaddressTxids",
           "GetTaddressBalance", "GetTaddressBalanceStream", "GetMempoolTx"}
    <3>1. CASE m.call \in {"get_transaction", "send_transaction", "get_mempool_tx"}
      BY <3>1 DEF IdentityRequest
    <3>2. CASE m.call \in {"get_taddress_transactions", "get_taddress_txids"}
      BY <3>2 DEF IdentityRequest
    <3>3. CASE m.call \in {"get_taddress_balance", "get_taddress_balance_stream"}
      BY <3>3 DEF IdentityRequest
    <3> QED
      BY <2>2, <3>1, <3>2, <3>3
  <2> QED
    BY <2>2, <2>3, <2>4 DEF Paged, PagedRpcs
<1>3. CASE c.cmd \in OtherCmds
  <2>1. m = OtherMethod(c)
    BY <1>4, <1>3 DEF Method, SyncCmds, IdentityCmds, OtherCmds
  <2>2. CASE c.cmd \in {"get-subtree-roots", "get-address-utxos", "get-address-utxos-stream"}
    <3>1. c.arg.start \in Nat /\ c.arg.max \in Nat
      BY <2>2, InvocationsAssumption
    <3>2. /\ m.call \in {"get_subtree_roots", "get_address_utxos", "get_address_utxos_stream"}
          /\ m.start = c.arg.start /\ m.max = c.arg.max
      BY <2>1, <2>2 DEF OtherMethod
    <3>3. RequestOf(m).arg = [start |-> m.start, max |-> m.max]
      <4>1. CASE m.call = "get_subtree_roots"
        BY <4>1 DEF RequestOf, TraitCalls, IndexerCalls, CrosslinkCalls, IndexerRequest
      <4>2. CASE m.call = "get_address_utxos"
        BY <4>2 DEF RequestOf, TraitCalls, IndexerCalls, CrosslinkCalls, IdentityRequest
      <4>3. CASE m.call = "get_address_utxos_stream"
        BY <4>3 DEF RequestOf, TraitCalls, IndexerCalls, CrosslinkCalls, IdentityRequest
      <4> QED
        BY <3>2, <4>1, <4>2, <4>3
    <3> QED
      BY <3>1, <3>2, <3>3 DEF Paged
  <2>3. CASE c.cmd \in {"get-lightd-info", "ping", "get-block-nullifiers", "get-block-range-nullifiers"}
    <3>1. m.call \in {"get_lightd_info", "ping", "get_block_nullifiers",
                      "get_block_range_nullifiers"}
      BY <2>1, <2>3 DEF OtherMethod
    <3>2. RequestOf(m) = IndexerRequest(m)
      BY <3>1 DEF RequestOf, TraitCalls, IndexerCalls, CrosslinkCalls
    <3> QED
      BY <3>1, <3>2 DEF IndexerRequest, Paged, PagedRpcs
  <2>4. CASE c.cmd \in {"get-roster", "get-bond-info", "request-faucet-donation"}
    <3>1. m.call \in CrosslinkCalls
      BY <2>1, <2>4 DEF OtherMethod, CrosslinkCalls
    <3>2. RequestOf(m) = CrosslinkRequest(m)
      BY <3>1 DEF RequestOf, TraitCalls, IndexerCalls, CrosslinkCalls
    <3> QED
      BY <3>1, <3>2 DEF CrosslinkRequest, CrosslinkCalls, Paged, PagedRpcs
  <2> QED
    BY <1>3, <2>2, <2>3, <2>4 DEF OtherCmds
<1> QED
  BY <1>0, <1>1, <1>2, <1>3

------------------------------------------------------------------------------
(***************************************************************************)
(* A success has printed the whole answer.                                 *)
(***************************************************************************)
TheReply == Call(server, Method(cli))

\* The lines of the first n items.
Printed(n) == out = [i \in 1..n |-> Line(cli, TheReply.items[i].msg)]

\* What a drain has left is the end of the answer, and what it has printed
\* the beginning.
Drained ==
    /\ exit = None /\ TheReply.kind = "stream"
    /\ IsSequence(TheReply.items) /\ IsSequence(items) /\ Len(items) <= Len(TheReply.items)
    /\ \A i \in 1..Len(items) : items[i] = TheReply.items[Len(TheReply.items) - Len(items) + i]
    /\ \A i \in 1..(Len(TheReply.items) - Len(items)) : TheReply.items[i].ok
    /\ pipe => Printed(Len(TheReply.items) - Len(items))

\* Until it is asked the server is as it was found, and nothing is printed;
\* what is asked then changes no answer.
Answered ==
    /\ cli \in Invocations
    /\ pc \notin {"start", "done"} => cli.cmd # "completions"
    /\ cli.cmd # "get-mempool-stream" =>
          /\ pc \in {"start", "connect", "argument", "ask", "drain", "done"}
          /\ pc \in {"start", "connect", "argument", "ask"} =>
                server \in Servers /\ out = <<>> /\ exit = None
          /\ pc = "drain" => Drained
          /\ pc = "done" => WholeAnswer

\* The one call prints its message, opens its stream or fails.
LEMMA AnsweredOnce ==
    ASSUME Answered, cli.cmd # "get-mempool-stream", AskOnce
    PROVE  Answered'
<1>1. cli \in Invocations /\ pc = "ask" /\ cli.cmd # "completions"
  BY Asked DEF Answered
<1>2. server \in Servers /\ out = <<>> /\ exit = None
  BY <1>1 DEF Answered
<1>3. IsServer(server)
  BY <1>2, ServersAssumption
<1>4. PICK m, r : m = Method(cli) /\ r = Call(server, m)
  OBVIOUS
<1>5. Paged(RequestOf(m))
  BY <1>1, <1>4, MethodIsPaged
<1>6. Sent(r) /\ IsReply(r)
  BY <1>3, <1>4, <1>5, CallIsSent, CallIsReply
<1>7. /\ server' = AfterRequest(server, RequestOf(m)) /\ UNCHANGED <<cli, pipe>>
      /\ \/ r.kind = "err" /\ Exit("error") /\ UNCHANGED <<items, out>>
         \/ /\ r.kind = "one" /\ Exit("ok") /\ UNCHANGED items
            /\ out' = IF pipe THEN Append(out, Line(cli, r.msg)) ELSE out
         \/ /\ r.kind = "stream" /\ items' = r.items /\ pc' = "drain" /\ UNCHANGED <<exit, out>>
  BY <1>4, Asked
<1>8. TheReply' = r /\ Call(server, Method(cli))' = r
  <2>1. Call(AfterRequest(server, RequestOf(m)), m) = r
    BY <1>3, <1>4, AskedAgain
  <2> QED
    BY <1>4, <1>7, <2>1 DEF TheReply
<1>9. CASE r.kind = "err"
  <2>1. pc' = "done" /\ exit' = "error"
    BY <1>7, <1>9 DEF Exit
  <2> QED
    BY <1>1, <1>7, <2>1 DEF Answered, WholeAnswer
<1>10. CASE r.kind = "one"
  <2>1. pc' = "done" /\ (pipe => out' = <<Line(cli, r.msg)>>)
    BY <1>2, <1>7, <1>10 DEF Exit
  <2>2. WholeAnswer'
    BY <1>7, <1>8, <1>10, <2>1 DEF WholeAnswer
  <2> QED
    BY <1>1, <1>7, <2>1, <2>2 DEF Answered
<1>11. CASE r.kind = "stream"
  <2>1. items' = r.items /\ pc' = "drain" /\ exit' = None /\ out' = <<>> /\ IsSequence(r.items)
    BY <1>2, <1>6, <1>7, <1>11 DEF Sent
  <2>2. PICK n \in Nat : n = Len(r.items)
    BY <2>1, SequenceShape
  <2>3. Printed(0)'
    BY <2>1 DEF Printed
  <2>4. Drained'
    BY <1>8, <1>11, <2>1, <2>2, <2>3 DEF Drained
  <2> QED
    BY <1>1, <1>7, <2>1, <2>4 DEF Answered
<1> QED
  BY <1>6, <1>9, <1>10, <1>11 DEF IsReply

\* Draining prints the items in their order, and ends well only at their end.
LEMMA DrainedOnce ==
    ASSUME Answered, cli.cmd # "get-mempool-stream", Drain
    PROVE  Answered'
<1>1. cli \in Invocations /\ pc = "drain" /\ cli.cmd # "completions" /\ UNCHANGED <<cli, server, pipe>>
  BY DEF Answered, Drain
<1>2. Drained
  BY <1>1 DEF Answered
<1>3. PICK r : r = TheReply
  OBVIOUS
<1>4. TheReply' = r /\ Call(server, Method(cli))' = r
  BY <1>1, <1>3 DEF TheReply
<1>5. PICK n \in Nat, k \in Nat : n = Len(r.items) /\ k = Len(items)
  BY <1>2, <1>3, SequenceShape DEF Drained
<1>6. /\ exit = None /\ r.kind = "stream" /\ IsSequence(r.items) /\ IsSequence(items) /\ k <= n
      /\ \A i \in 1..k : items[i] = r.items[n - k + i]
      /\ \A i \in 1..(n - k) : r.items[i].ok
      /\ pipe => out = [i \in 1..(n - k) |-> Line(cli, r.items[i].msg)]
  BY <1>2, <1>3, <1>5 DEF Drained, Printed
<1>7. CASE items = <<>>
  <2>1. k = 0 /\ DOMAIN r.items = 1..n
    BY <1>5, <1>6, <1>7, SequenceShape
  <2>2. pc' = "done" /\ UNCHANGED out
    BY <1>1, <1>7 DEF Drain, Exit
  <2>3. WholeAnswer'
    BY <1>1, <1>4, <1>6, <2>1, <2>2 DEF WholeAnswer
  <2> QED
    BY <1>1, <2>2, <2>3 DEF Answered
<1>8. CASE items # <<>> /\ ~Head(items).ok
  <2>1. pc' = "done" /\ exit' = "error"
    BY <1>1, <1>8 DEF Drain, Exit
  <2> QED
    BY <1>1, <2>1 DEF Answered, WholeAnswer
<1>9. CASE items # <<>> /\ Head(items).ok
  <2>1. /\ items' = Tail(items)
        /\ \/ /\ pipe /\ out' = Append(out, Line(cli, Head(items).msg))
              /\ pc' = "drain" /\ UNCHANGED exit
           \/ ~pipe /\ pc' = "done"
    BY <1>1, <1>9 DEF Drain, Emit, Exit
  <2>2. /\ k > 0 /\ Head(items) = r.items[n - k + 1]
        /\ IsSequence(items') /\ Len(items') = k - 1
        /\ \A i \in 1..(k - 1) : items'[i] = items[i + 1]
    <3>1. /\ k > 0 /\ Head(items) = items[1]
          /\ IsSequence(Tail(items)) /\ Len(Tail(items)) = k - 1
          /\ \A i \in 1..(k - 1) : Tail(items)[i] = items[i + 1]
      BY <1>5, <1>6, <1>9, Popped
    <3> QED
      BY <1>6, <2>1, <3>1
  <2>3. CASE ~pipe
    BY <1>1, <2>1, <2>3 DEF Answered, WholeAnswer
  <2>4. CASE pipe
    <3>1. out' = Append(out, Line(cli, r.items[n - k + 1].msg)) /\ pc' = "drain" /\ exit' = None
      BY <1>6, <2>1, <2>2, <2>4
    <3>2. \A i \in 1..(k - 1) : items'[i] = r.items[n - (k - 1) + i]
      <4>1. ASSUME NEW i \in 1..(k - 1) PROVE items'[i] = r.items[n - (k - 1) + i]
        <5>1. i + 1 \in 1..k /\ n - k + (i + 1) = n - (k - 1) + i
          OBVIOUS
        <5> QED
          BY <1>6, <2>2, <5>1
      <4> QED
        BY <4>1
    <3>3. \A i \in 1..(n - (k - 1)) : r.items[i].ok
      <4>1. ASSUME NEW i \in 1..(n - (k - 1)) PROVE r.items[i].ok
        <5>1. i \in 1..(n - k) \/ i = n - k + 1
          BY <1>6, <2>2
        <5> QED
          BY <1>6, <1>9, <2>2, <5>1
      <4> QED
        BY <4>1
    <3>4. out' = [i \in 1..(n - (k - 1)) |-> Line(cli, r.items[i].msg)]
      <4>1. PICK d \in Nat : d = n - k
        BY <1>6
      <4>2. PICK e : e = Line(cli, r.items[d + 1].msg)
        OBVIOUS
      <4>3. out = [i \in 1..d |-> out[i]] /\ \A i \in 1..d : out[i] = Line(cli, r.items[i].msg)
        BY <1>6, <2>4, <4>1
      <4>4. IsSequence(out) /\ Len(out) = d
        BY <4>3, Made
      <4>5. /\ IsSequence(out') /\ Len(out') = d + 1
            /\ \A i \in 1..d : out'[i] = out[i]
            /\ out'[d + 1] = e
        <5>1. out' = Append(out, e)
          BY <3>1, <4>1, <4>2
        <5> QED
          BY <4>4, <5>1, Appended
      <4>6. out' = [i \in 1..(d + 1) |-> out'[i]]
        BY <4>5, SequenceShape
      <4>7. \A i \in 1..(d + 1) : out'[i] = Line(cli, r.items[i].msg)
        BY <4>2, <4>3, <4>5
      <4>8. n - (k - 1) = d + 1
        BY <4>1
      <4> QED
        BY <4>6, <4>7, <4>8
    <3>5. Drained'
      BY <1>1, <1>4, <1>5, <1>6, <2>2, <3>1, <3>2, <3>3, <3>4 DEF Drained, Printed
    <3> QED
      BY <1>1, <3>1, <3>5 DEF Answered
  <2> QED
    BY <2>3, <2>4
<1> QED
  BY <1>7, <1>8, <1>9

\* No step ends well with less than the whole answer.
LEMMA AnsweredNext == Answered /\ [LwcliNext]_lwcliVars => Answered'
<1> SUFFICES ASSUME Answered, [LwcliNext]_lwcliVars PROVE Answered'
  OBVIOUS
<1>0. cli' = cli
  BY Asked DEF LwcliNext, LwcliStep, Start, Connect, ReadArgument, Drain, Discover, ReadTip,
               Subscribe, FollowItem, StreamEnds, ClosePipe, Arrive, Mine, lwcliVars
<1>1. pc' \notin {"start", "done"} => cli.cmd # "completions"
  <2>1. pc # "start" /\ pc' # "done" => pc # "done"
    BY DEF LwcliNext, LwcliStep, Start, Connect, ReadArgument, AskOnce, Drain, Discover, ReadTip,
           Subscribe, FollowItem, StreamEnds, ClosePipe, Arrive, Mine, lwcliVars
  <2>2. pc = "start" /\ pc' \notin {"start", "done"} => cli.cmd # "completions"
    BY DEF LwcliNext, LwcliStep, Start, Connect, ReadArgument, AskOnce, Drain, Discover, ReadTip,
           Subscribe, FollowItem, StreamEnds, ClosePipe, Arrive, Mine, lwcliVars, Watched, Exit
  <2> QED
    BY <2>1, <2>2 DEF Answered
<1>2. CASE cli.cmd = "get-mempool-stream"
  BY <1>0, <1>1, <1>2 DEF Answered
<1>3. CASE cli.cmd # "get-mempool-stream"
  <2>0. pc \in {"start", "connect", "argument", "ask", "drain", "done"}
    BY <1>3 DEF Answered
  <2>1. CASE Start \/ Connect \/ ReadArgument
    <3>1. /\ pc \in {"start", "connect", "argument"} /\ UNCHANGED <<server, out>>
          /\ \/ pc' \in {"connect", "argument", "ask"} /\ UNCHANGED exit
             \/ pc' = "done" /\ exit' = "error"
             \/ pc' = "done" /\ cli.cmd = "completions"
      BY <1>3, <2>1 DEF Start, Connect, ReadArgument, Exit, DiscoversFirst
    <3> QED
      BY <1>0, <1>1, <1>3, <3>1 DEF Answered, WholeAnswer
  <2>2. CASE AskOnce
    BY <1>3, <2>2, AnsweredOnce
  <2>3. CASE Drain
    BY <1>3, <2>3, DrainedOnce
  <2>4. CASE Discover \/ ReadTip \/ Subscribe \/ FollowItem \/ StreamEnds
    BY <2>0, <2>4 DEF Discover, ReadTip, Subscribe, FollowItem, StreamEnds
  <2>5. CASE ClosePipe
    <3>1. /\ ~pipe' /\ pc \in {"ask", "drain"}
          /\ UNCHANGED <<pc, server, items, out, exit>>
      BY <2>0, <2>5 DEF ClosePipe
    <3>2. TheReply' = TheReply
      BY <1>0, <3>1 DEF TheReply
    <3>3. Drained => Drained'
      BY <3>1, <3>2 DEF Drained
    <3> QED
      BY <1>0, <1>1, <1>3, <3>1, <3>3 DEF Answered
  <2>6. CASE (\E raw \in Pool : Arrive(raw)) \/ (\E mined \in SUBSET Pool : Mine(mined))
    BY <1>3, <2>6 DEF Arrive, Mine, Watched
  <2>7. CASE UNCHANGED lwcliVars
    BY <2>7 DEF lwcliVars, Answered, Drained, Printed, TheReply, WholeAnswer
  <2> QED
    BY <2>1, <2>2, <2>3, <2>4, <2>5, <2>6, <2>7 DEF LwcliNext, LwcliStep
<1> QED
  BY <1>2, <1>3

\* A process that exits with success, its reader still there, has printed the
\* whole answer of the server in its order; an answer that is an error, or is
\* cut short by one, never ends in success (drain and the arms of main), for
\* every command line and every server.
THEOREM AnswerAlwaysWhole == LwcliSpec => []WholeAnswer
<1>1. LwcliInit => Answered
  BY DEF LwcliInit, Answered
<1>2. Answered /\ [LwcliNext]_lwcliVars => Answered'
  BY AnsweredNext
<1>3. Answered /\ (exit # None => pc = "done") => WholeAnswer
  BY DEF Answered, WholeAnswer, None
<1>4. LwcliInit => (exit # None => pc = "done")
  BY DEF LwcliInit
<1>5. (exit # None => pc = "done") /\ [LwcliNext]_lwcliVars => (exit # None => pc = "done")'
  BY Asked DEF LwcliNext, LwcliStep, Start, Connect, ReadArgument, Drain, Discover, ReadTip,
               Subscribe, FollowItem, StreamEnds, ClosePipe, Arrive, Mine, lwcliVars, Exit, Emit
<1> QED
  BY <1>1, <1>2, <1>3, <1>4, <1>5, PTL DEF LwcliSpec

------------------------------------------------------------------------------
(***************************************************************************)
(* The mempool is decoded under the branch of the tip that was read.       *)
(***************************************************************************)
\* A server that answers, and names its branch; the fields it has.
Healthy(s) == DOMAIN s.faults = {} /\ s.info.branch # "not hex"
HasShape(s) == s = [field \in DOMAIN NewServer("canonical") |-> s[field]]

\* A line that names a branch of its own names that of the chain and the tip.
Decodes(line, ch, height) ==
    line.form = "json" /\ line.version = "V4" => line.branch = BranchAt(ch, height)

\* Views are printed once the chain and the tip are read, and only by the
\* mempool stream, whose requests leave the server as it is.
Decoded ==
    /\ IsSequence(out)
    /\ cli.cmd # "get-mempool-stream" =>
          ViewLines = {} /\ pc \notin {"discover", "tip", "subscribe", "follow"}
    /\ cli.cmd = "get-mempool-stream" =>
          /\ HasShape(server) /\ pc \notin {"ask", "drain"}
          /\ ViewLines # {} => pc \in {"subscribe", "follow", "done"}
          /\ Healthy(server) /\ (pc \in {"tip", "subscribe", "follow"} \/ ViewLines # {}) =>
                chain = ChainOf(server.info.chain)
          /\ \A i \in ViewLines : Decodes(out[i], chain, tip)

\* A printed line adds at most itself to the views.
LEMMA OneLineMore ==
    ASSUME IsSequence(out), NEW line, out' = Append(out, line)
    PROVE  /\ IsSequence(out')
           /\ \A i \in ViewLines' : \/ i \in ViewLines /\ out'[i] = out[i]
                                    \/ out'[i] = line /\ line.form \in {"summary", "json"}
<1>1. /\ IsSequence(out') /\ DOMAIN out = 1..Len(out) /\ Len(out) \in Nat
      /\ DOMAIN out' = 1..(Len(out) + 1)
      /\ \A i \in 1..Len(out) : out'[i] = out[i]
      /\ out'[Len(out) + 1] = line
  BY Appended, SequenceShape
<1> QED
  BY <1>1 DEF ViewLines

\* A line of any other command is no view.
LEMMA LineIsNoView ==
    ASSUME NEW c, NEW msg
    PROVE  Line(c, msg).form \notin {"summary", "json"}
BY DEF Line

\* A healthy server names its chain.
LEMMA ChainIsNamed ==
    ASSUME NEW s, Healthy(s)
    PROVE  LET reply == Call(s, [call |-> "discover_params"])
           IN  reply.kind = "one" /\ reply.msg.chain = s.info.chain
<1> DEFINE m == [call |-> "discover_params"]
           req == RequestOf(m)
<1>1. req.rpc = "GetLightdInfo"
  BY StreamAsksChainWide
<1> HIDE DEF req
<1>2. Answer(s, req) = GetLightdInfo(s)
  BY <1>1 DEF Answer, CrosslinkRpcs
<1>3. GetLightdInfo(s) = One(s.info)
  BY DEF GetLightdInfo, Checked, Healthy
<1>4. Call(s, m) = ResultOf(m, One(s.info))
  BY <1>2, <1>3 DEF Call, req
<1>5. ResultOf(m, One(s.info)) = FromLightdInfo(s.info)
  BY DEF ResultOf, One
<1>6. FromLightdInfo(s.info).kind = "one" /\ FromLightdInfo(s.info).msg.chain = s.info.chain
  BY DEF FromLightdInfo, One, Healthy
<1> QED
  BY <1>4, <1>5, <1>6

\* A view names the branch it was parsed under, or one of the bytes.
LEMMA ViewDecodes ==
    ASSUME NEW raw, NEW height, NEW ch, NEW line,
           line \in {Summary(Parse(raw, height, ch)), Json(Parse(raw, height, ch))}
    PROVE  Decodes(line, ch, height)
<1> DEFINE view == Parse(raw, height, ch)
<1>1. CASE line = Summary(view)
  <2>1. line.form = "summary"
    BY <1>1 DEF Summary
  <2> QED
    BY <2>1 DEF Decodes
<1>2. CASE line = Json(view)
  <2>1. line.version = view.version /\ line.branch = view.branch
    BY <1>2 DEF Json
  <2>2. view.version = "V4" => view.branch = BranchAt(ch, height)
    <3>1. CASE ~Readable(raw)
      BY <3>1 DEF Parse, Unparsed, None
    <3>2. CASE Readable(raw)
      BY <3>2 DEF Parse, BranchRead
    <3> QED
      BY <3>1, <3>2
  <2> QED
    BY <2>1, <2>2 DEF Decodes
<1> QED
  BY <1>1, <1>2

\* No step shows a view of another branch than that of the tip that was read.
LEMMA DecodedNext == Decoded /\ [LwcliNext]_lwcliVars => Decoded'
<1> SUFFICES ASSUME Decoded, [LwcliNext]_lwcliVars PROVE Decoded'
  OBVIOUS
<1>0. IsSequence(out) /\ IsSequence(<<>>)
  BY NoneIsSequence DEF Decoded
<1>1. CASE Start \/ Connect \/ ReadArgument
  <2>1. /\ UNCHANGED <<cli, server, out, chain, tip>> /\ pc \in {"start", "connect", "argument"}
        /\ pc' \in {"connect", "argument", "ask", "discover", "done"}
        /\ pc' = "ask" => cli.cmd # "get-mempool-stream"
        /\ pc' = "discover" => cli.cmd = "get-mempool-stream"
    BY <1>1 DEF Start, Connect, ReadArgument, Exit, DiscoversFirst
  <2>2. ViewLines' = ViewLines
    BY <2>1 DEF ViewLines
  <2> QED
    BY <2>1, <2>2 DEF Decoded
<1>2. CASE AskOnce
  <2>1. cli.cmd # "get-mempool-stream" /\ cli' = cli /\ pc' \in {"done", "drain"}
    BY <1>2, Asked DEF Decoded, Exit
  <2>2. UNCHANGED out \/ \E line : line.form \notin {"summary", "json"} /\ out' = Append(out, line)
    BY <1>2, Asked, LineIsNoView
  <2>3. IsSequence(out') /\ ViewLines' = {}
    <3>1. CASE UNCHANGED out
      BY <1>0, <2>1, <3>1 DEF Decoded, ViewLines
    <3>2. CASE ~UNCHANGED out
      <4>1. PICK line : line.form \notin {"summary", "json"} /\ out' = Append(out, line)
        BY <2>2, <3>2
      <4> QED
        BY <1>0, <2>1, <4>1, OneLineMore DEF Decoded
    <3> QED
      BY <3>1, <3>2
  <2> QED
    BY <2>1, <2>3 DEF Decoded
<1>3. CASE Drain
  <2>1. cli.cmd # "get-mempool-stream" /\ cli' = cli /\ pc' \in {"done", "drain"}
    BY <1>3 DEF Decoded, Drain, Emit, Exit
  <2>2. UNCHANGED out \/ \E line : line.form \notin {"summary", "json"} /\ out' = Append(out, line)
    BY <1>3, LineIsNoView DEF Drain, Emit
  <2>3. IsSequence(out') /\ ViewLines' = {}
    <3>1. CASE UNCHANGED out
      BY <1>0, <2>1, <3>1 DEF Decoded, ViewLines
    <3>2. CASE ~UNCHANGED out
      <4>1. PICK line : line.form \notin {"summary", "json"} /\ out' = Append(out, line)
        BY <2>2, <3>2
      <4> QED
        BY <1>0, <2>1, <4>1, OneLineMore DEF Decoded
    <3> QED
      BY <3>1, <3>2
  <2> QED
    BY <2>1, <2>3 DEF Decoded
<1>4. CASE Discover
  <2>1. /\ cli.cmd = "get-mempool-stream" /\ pc = "discover" /\ pc' = "tip" /\ ViewLines = {}
        /\ UNCHANGED <<cli, server, out>>
        /\ chain' = LET reply == Call(server, [call |-> "discover_params"])
                    IN  IF reply.kind = "one" THEN ChainOf(reply.msg.chain) ELSE Featurenet
    BY <1>4 DEF Discover, Decoded
  <2>2. ViewLines' = {}
    BY <2>1 DEF ViewLines
  <2>3. Healthy(server') => chain' = ChainOf(server'.info.chain)
    BY <2>1, ChainIsNamed
  <2> QED
    BY <1>0, <2>1, <2>2, <2>3 DEF Decoded
<1>5. CASE ReadTip
  <2>1. /\ cli.cmd = "get-mempool-stream" /\ pc = "tip" /\ pc' = "subscribe" /\ ViewLines = {}
        /\ UNCHANGED <<cli, server, out, chain>>
    BY <1>5 DEF ReadTip, Decoded
  <2>2. ViewLines' = {}
    BY <2>1 DEF ViewLines
  <2> QED
    BY <1>0, <2>1, <2>2 DEF Decoded
<1>6. CASE Subscribe \/ StreamEnds
  <2>1. /\ cli.cmd = "get-mempool-stream" /\ pc \in {"subscribe", "follow"}
        /\ pc' \in {"subscribe", "follow", "done"}
        /\ UNCHANGED <<cli, server, out, chain, tip>>
    BY <1>6 DEF Subscribe, StreamEnds, Exit, Decoded
  <2>2. ViewLines' = ViewLines
    BY <2>1 DEF ViewLines
  <2> QED
    BY <1>0, <2>1, <2>2 DEF Decoded
<1>7. CASE FollowItem
  <2>1. /\ cli.cmd = "get-mempool-stream" /\ pc = "follow" /\ pc' \in {"follow", "done"}
        /\ UNCHANGED <<cli, server, chain, tip>>
    BY <1>7 DEF FollowItem, Emit, Exit, Decoded
  <2>2. \/ UNCHANGED out
        \/ \E line : out' = Append(out, line) /\ Decodes(line, chain, tip)
    <3> DEFINE raw == Head(items).msg
               view == Parse(raw.data, tip, chain)
    <3>1. \/ UNCHANGED out
          \/ out' = Append(out, [form |-> "debug", msg |-> raw])
          \/ out' = Append(out, IF cli.output = "human" THEN Summary(view) ELSE Json(view))
      BY <1>7 DEF FollowItem, Emit
    <3>2. Decodes([form |-> "debug", msg |-> raw], chain, tip)
      BY DEF Decodes
    <3>3. Decodes(Summary(view), chain, tip) /\ Decodes(Json(view), chain, tip)
      BY ViewDecodes
    <3> QED
      BY <3>1, <3>2, <3>3
  <2>3. IsSequence(out') /\ \A i \in ViewLines' : Decodes(out'[i], chain, tip)
    <3>1. CASE UNCHANGED out
      BY <1>0, <2>1, <3>1 DEF Decoded, ViewLines
    <3>2. CASE ~UNCHANGED out
      <4>1. PICK line : out' = Append(out, line) /\ Decodes(line, chain, tip)
        BY <2>2, <3>2
      <4>2. /\ IsSequence(out')
            /\ \A i \in ViewLines' : (i \in ViewLines /\ out'[i] = out[i]) \/ out'[i] = line
        BY <1>0, <4>1, OneLineMore
      <4>3. \A i \in ViewLines : Decodes(out[i], chain, tip)
        BY <2>1 DEF Decoded
      <4> QED
        BY <4>1, <4>2, <4>3
    <3> QED
      BY <3>1, <3>2
  <2> QED
    BY <2>1, <2>3 DEF Decoded
<1>8. CASE (\E raw \in Pool : Arrive(raw)) \/ (\E mined \in SUBSET Pool : Mine(mined))
  <2>1. /\ cli.cmd = "get-mempool-stream" /\ UNCHANGED <<cli, pc, out, chain, tip>>
        /\ \/ \E q : server' = [server EXCEPT !.mempool = q]
           \/ \E q, b : server' = [server EXCEPT !.blocks = b, !.mempool = q]
    BY <1>8 DEF Arrive, Mine, Watched
  <2>2. HasShape(server') /\ server'.faults = server.faults /\ server'.info = server.info
    <3>1. HasShape(server)
      BY <2>1 DEF Decoded
    <3> QED
      BY <2>1, <3>1 DEF HasShape, NewServer
  <2>3. ViewLines' = ViewLines
    BY <2>1 DEF ViewLines
  <2> QED
    BY <2>1, <2>2, <2>3 DEF Decoded, Healthy
<1>9. CASE ClosePipe \/ UNCHANGED lwcliVars
  <2>1. UNCHANGED <<cli, pc, server, out, chain, tip>>
    BY <1>9 DEF ClosePipe, lwcliVars
  <2> QED
    BY <2>1 DEF Decoded, ViewLines
<1> QED
  BY <1>1, <1>2, <1>3, <1>4, <1>5, <1>6, <1>7, <1>8, <1>9 DEF LwcliNext, LwcliStep

\* A transaction without a branch of its own is decoded under the branch that
\* is active at the tip, except when the chain or the tip could not be read or
\* an upgrade activated after the tip was read: on every chain and schedule.
THEOREM BranchStaysUntilUpgrade == LwcliSpec => []BranchUntilUpgrade
<1>1. LwcliInit => Decoded
  BY NoneIsSequence, ServersAssumption DEF LwcliInit, Decoded, ViewLines, IsServer, HasShape
<1>2. Decoded /\ [LwcliNext]_lwcliVars => Decoded'
  BY DecodedNext
<1>3. Decoded => BranchUntilUpgrade
  <2> SUFFICES ASSUME Decoded, NEW i \in ViewLines,
                      out[i].form = "json" /\ out[i].version = "V4", Healthy(server)
               PROVE  out[i].branch = BranchAt(ChainOf(server.info.chain), tip)
    BY DEF BranchUntilUpgrade, Healthy
  <2>1. cli.cmd = "get-mempool-stream"
    BY DEF Decoded
  <2>2. Decodes(out[i], chain, tip) /\ chain = ChainOf(server.info.chain)
    BY <2>1 DEF Decoded
  <2> QED
    BY <2>2 DEF Decodes
<1> QED
  BY <1>1, <1>2, <1>3, PTL DEF LwcliSpec

------------------------------------------------------------------------------
(***************************************************************************)
(* A printed txid asks for its own transaction.                            *)
(***************************************************************************)

\* What the client makes of a stream of messages is a stream of them.
LEMMA CallStreams ==
    ASSUME NEW s, NEW m, NEW msgs, Streams(Answer(s, RequestOf(m)), msgs)
    PROVE  Streams(Call(s, m), msgs)
<1>1. PICK its : its = Answer(s, RequestOf(m)).items
  OBVIOUS
<1>2. PICK q : q = WrapStream(its)
  OBVIOUS
<1>3. Call(s, m) = Stream(q)
  BY <1>1, <1>2 DEF Call, ResultOf, Streams
<1>4. /\ IsSequence(its) /\ \A i \in DOMAIN its : its[i].ok =>
            i \in DOMAIN msgs /\ its[i].msg = msgs[i]
  BY <1>1 DEF Streams
<1>5. PICK n \in Nat : DOMAIN its = 1..n
  BY <1>4, SequenceShape
<1>6. /\ q = [i \in 1..n |-> q[i]]
      /\ \A i \in 1..n : q[i] = IF its[i].ok THEN its[i]
                                ELSE [ok |-> FALSE, status |-> RpcError(its[i].status)]
  BY <1>2, <1>5 DEF WrapStream
<1>7. IsSequence(q) /\ DOMAIN q = 1..n
  BY <1>6, Made, SequenceShape
<1>8. \A i \in DOMAIN q : q[i].ok => i \in DOMAIN msgs /\ q[i].msg = msgs[i]
  BY <1>4, <1>5, <1>6, <1>7
<1> QED
  BY <1>3, <1>7, <1>8 DEF Streams, Stream

\* The txids there are, as they are displayed.
Displayed == {Reverse(id) : id \in Txids}
Honest(line) == PrintedTxids(line) \subseteq Displayed

\* One line of an answer, and every line of a stream of them.
HonestReply(c, r) ==
    /\ r.kind = "one" => Honest(Line(c, r.msg))
    /\ r.kind = "stream" =>
          /\ IsSequence(r.items)
          /\ \A i \in DOMAIN r.items : r.items[i].ok => Honest(Line(c, r.items[i].msg))

\* A line of a message that has no txid shows none.
LEMMA OtherLinesAreHonest ==
    ASSUME NEW c, NEW msg,
           c.cmd \notin {"get-mempool-tx", "get-address-utxos", "get-address-utxos-stream"}
    PROVE  Honest(Line(c, msg))
<1>1. TypeName(c) \notin {"GetAddressUtxosReplyList", "GetAddressUtxosReply", "CompactTx"}
  <2>1. CASE c.cmd \in {"get-block", "get-block-range", "get-block-nullifiers",
                        "get-block-range-nullifiers"}
    BY <2>1 DEF TypeName
  <2>2. CASE c.cmd \in {"get-tree-state", "get-latest-tree-state"}
    BY <2>2 DEF TypeName
  <2>3. CASE c.cmd \in {"get-transaction", "get-taddress-transactions", "get-taddress-txids"}
    BY <2>3 DEF TypeName
  <2>4. CASE c.cmd = "get-subtree-roots"
    BY <2>4 DEF TypeName
  <2>5. CASE c.cmd \notin {"get-block", "get-block-range", "get-block-nullifiers",
                           "get-block-range-nullifiers", "get-tree-state",
                           "get-latest-tree-state", "get-transaction",
                           "get-taddress-transactions", "get-taddress-txids",
                           "get-subtree-roots"}
    BY <2>5 DEF TypeName
  <2> QED
    BY <2>1, <2>2, <2>3, <2>4, <2>5
<1>2. PICK line : line = Line(c, msg)
  OBVIOUS
<1>3. \/ line.form \in {"height", "debug"}
      \/ line.form = "message" /\ line.type = TypeName(c)
  BY <1>2 DEF Line
<1>4. PrintedTxids(line) = {}
  BY <1>1, <1>3 DEF PrintedTxids
<1> QED
  BY <1>2, <1>4 DEF Honest

\* A message with a txid of its own shows that txid.
LEMMA MessageIsHonest ==
    ASSUME NEW c, c.cmd \in {"get-mempool-tx", "get-address-utxos-stream"},
           NEW msg, "txid" \in DOMAIN msg, msg.txid \in Txids
    PROVE  Honest(Line(c, msg))
<1>1. CASE c.output = "debug"
  <2>1. Line(c, msg).form = "debug"
    BY <1>1 DEF Line
  <2> QED
    BY <2>1 DEF Honest, PrintedTxids
<1>2. CASE c.output # "debug"
  <2>1. PICK type : type = TypeName(c) /\ type \in {"CompactTx", "GetAddressUtxosReply"}
    BY DEF TypeName
  <2>2. Line(c, msg) = [form |-> "message", type |-> type, msg |-> FieldsJson(type, msg)]
    BY <1>2, <2>1 DEF Line, MessageJson
  <2>3. FieldsJson(type, msg).txid = Reverse(msg.txid)
    BY <2>1 DEF FieldsJson, BytesFields, BytesJson, DisplayOrder
  <2>4. PrintedTxids(Line(c, msg)) = {Reverse(msg.txid)}
    BY <2>1, <2>2, <2>3 DEF PrintedTxids
  <2> QED
    BY <2>4 DEF Honest, Displayed
<1> QED
  BY <1>1, <1>2

\* A list of messages shows the txid of each.
LEMMA ListIsHonest ==
    ASSUME NEW c, c.cmd = "get-address-utxos", NEW list,
           \A i \in DOMAIN list : "txid" \in DOMAIN list[i] /\ list[i].txid \in Txids
    PROVE  Honest(Line(c, [addressUtxos |-> list]))
<1> DEFINE msg == [addressUtxos |-> list]
           shown == [i \in DOMAIN list |-> FieldsJson("GetAddressUtxosReply", list[i])]
<1>1. CASE c.output = "debug"
  <2>1. Line(c, msg).form = "debug"
    BY <1>1 DEF Line
  <2> QED
    BY <2>1 DEF Honest, PrintedTxids
<1>2. CASE c.output # "debug"
  <2>1. TypeName(c) = "GetAddressUtxosReplyList"
    BY DEF TypeName
  <2>2. Line(c, msg) = [form |-> "message", type |-> "GetAddressUtxosReplyList",
                        msg |-> [addressUtxos |-> shown]]
    BY <1>2, <2>1 DEF Line, MessageJson
  <2>3. \A i \in DOMAIN list : shown[i].txid = Reverse(list[i].txid)
    BY DEF FieldsJson, BytesFields, BytesJson, DisplayOrder
  <2> HIDE DEF shown
  <2>4. PrintedTxids(Line(c, msg)) = {shown[i].txid : i \in DOMAIN shown}
    BY <2>2 DEF PrintedTxids
  <2>5. DOMAIN shown = DOMAIN list
    BY DEF shown
  <2> QED
    BY <2>3, <2>4, <2>5 DEF Honest, Displayed
<1> QED
  BY <1>1, <1>2

\* The outputs of a page are outputs of the server.
LEMMA UtxosAreKnown ==
    ASSUME NEW s \in Servers, NEW arg, arg.max \in Nat
    PROVE  /\ IsSequence(UtxosMatching(s, arg))
           /\ \A i \in DOMAIN UtxosMatching(s, arg) :
                 UtxosMatching(s, arg)[i] \in [txid : Txids, height : Nat]
<1> DEFINE I == {i \in DOMAIN s.utxos : s.utxos[i].height >= arg.start}
<1>1. UtxosMatching(s, arg) = UpTo(ItemsAt(s.utxos, I), arg.max)
  BY DEF UtxosMatching, Where
<1>2. IsSequence(s.utxos) /\ ToSet(s.utxos) \subseteq [txid : Txids, height : Nat]
  BY ServersAssumption, SequenceOf
<1>3. I \subseteq 1..Len(s.utxos) /\ \A i \in I : s.utxos[i] \in ToSet(s.utxos)
  BY <1>2, SequenceShape DEF ToSet
<1> HIDE DEF I
<1>4. PICK q : q = ItemsAt(s.utxos, I)
  OBVIOUS
<1>5. IsSequence(q) /\ ToSet(q) \subseteq [txid : Txids, height : Nat]
  BY <1>2, <1>3, <1>4, SelectedItems
<1>6. DOMAIN q = 1..Len(q) /\ Len(q) \in Nat /\ \A i \in DOMAIN q : q[i] \in ToSet(q)
  BY <1>5, SequenceShape DEF ToSet
<1>7. PICK t : t = UpTo(q, arg.max)
  OBVIOUS
<1>8. IsSequence(t) /\ Len(t) <= Len(q) /\ \A i \in 1..Len(t) : t[i] = q[i]
  <2>1. /\ IsSequence(Take(q, arg.max)) /\ Len(Take(q, arg.max)) <= Len(q)
        /\ \A i \in 1..Len(Take(q, arg.max)) : Take(q, arg.max)[i] = q[i]
    BY <1>5, TakeIsPrefix
  <2> QED
    BY <1>5, <1>6, <1>7, <2>1 DEF UpTo
<1>9. DOMAIN t = 1..Len(t) /\ Len(t) \in Nat
  BY <1>8, SequenceShape
<1>10. \A i \in DOMAIN t : t[i] \in [txid : Txids, height : Nat]
  BY <1>5, <1>6, <1>8, <1>9
<1> QED
  BY <1>1, <1>4, <1>7, <1>8, <1>10

\* What a command prints of any answer shows only txids there are.
LEMMA ReplyIsHonest ==
    ASSUME NEW s \in Servers, NEW c \in Invocations,
           c.cmd \notin {"get-mempool-stream", "completions"}
    PROVE  HonestReply(c, Call(s, Method(c)))
<1>1. PICK m, req, ans, r : /\ m = Method(c) /\ req = RequestOf(m)
                            /\ ans = Answer(s, req) /\ r = Call(s, m)
  OBVIOUS
<1>2. IsServer(s) /\ Paged(req)
  BY <1>1, ServersAssumption, MethodIsPaged
<1>3. Sent(r) /\ IsReply(r) /\ IsReply(ans)
  BY <1>1, <1>2, CallIsSent, CallIsReply, AnswerIsReply
<1>4. r = ResultOf(m, ans)
  BY <1>1 DEF Call
<1>5. SUFFICES HonestReply(c, r)
  BY <1>1
<1>6. ASSUME NEW msgs, ans = Err(s.faults[req.rpc]) \/ Streams(ans, msgs),
             \A i \in DOMAIN msgs : Honest(Line(c, msgs[i]))
      PROVE  HonestReply(c, r)
  <2>1. CASE ans = Err(s.faults[req.rpc])
    <3>1. r.kind = "err"
      BY <1>4, <2>1 DEF ResultOf, Err
    <3> QED
      BY <3>1 DEF HonestReply
  <2>2. CASE Streams(ans, msgs)
    <3>1. Streams(r, msgs)
      BY <1>1, <2>2, CallStreams
    <3> QED
      BY <1>6, <3>1 DEF Streams, HonestReply
  <2> QED
    BY <1>6, <2>1, <2>2
<1>7. CASE c.cmd = "get-mempool-tx"
  <2>1. PICK arg : req = [rpc |-> "GetMempoolTx", arg |-> arg]
    <3>1. m = IdentityMethod(c)
      BY <1>1, <1>7 DEF Method, SyncCmds, IdentityCmds
    <3>2. m.call = "get_mempool_tx"
      BY <1>7, <3>1 DEF IdentityMethod
    <3>3. req = IdentityRequest(m)
      BY <1>1, <3>2 DEF RequestOf, TraitCalls, IndexerCalls, CrosslinkCalls
    <3> QED
      BY <3>2, <3>3 DEF IdentityRequest
  <2> DEFINE I == {i \in DOMAIN s.mempoolTxs :
                      ~ \E suffix \in arg.exclude : IsSuffix(suffix, s.mempoolTxs[i].txid)}
  <2>2. ans = Checked(s, "GetMempoolTx", StreamOf(s, "GetMempoolTx", ItemsAt(s.mempoolTxs, I)))
    <3>1. ans = GetMempoolTx(s, arg)
      BY <1>1, <2>1 DEF Answer, CrosslinkRpcs
    <3> QED
      BY <3>1 DEF GetMempoolTx, Where
  <2>3. IsSequence(s.mempoolTxs) /\ ToSet(s.mempoolTxs) \subseteq [txid : Txids]
    BY ServersAssumption, SequenceOf
  <2>4. I \subseteq 1..Len(s.mempoolTxs) /\ \A i \in I : s.mempoolTxs[i] \in ToSet(s.mempoolTxs)
    BY <2>3, SequenceShape DEF ToSet
  <2> HIDE DEF I
  <2>5. PICK msgs : msgs = ItemsAt(s.mempoolTxs, I)
    OBVIOUS
  <2>6. IsSequence(msgs) /\ ToSet(msgs) \subseteq [txid : Txids]
    BY <2>3, <2>4, <2>5, SelectedItems
  <2>7. \A i \in DOMAIN msgs : msgs[i] \in [txid : Txids]
    BY <2>6 DEF ToSet
  <2>8. \A i \in DOMAIN msgs : Honest(Line(c, msgs[i]))
    BY <1>7, <2>7, MessageIsHonest
  <2>9. Streams(StreamOf(s, "GetMempoolTx", msgs), msgs)
    BY <1>2, <2>6, StreamOfStreams DEF IsServer
  <2>10. ans = Err(s.faults[req.rpc]) \/ Streams(ans, msgs)
    BY <2>1, <2>2, <2>5, <2>9 DEF Checked
  <2> QED
    BY <1>6, <2>8, <2>10
<1>8. ASSUME c.cmd \in {"get-address-utxos", "get-address-utxos-stream"}
      PROVE  /\ m.call = IF c.cmd = "get-address-utxos" THEN "get_address_utxos"
                         ELSE "get_address_utxos_stream"
             /\ req.rpc = IF c.cmd = "get-address-utxos" THEN "GetAddressUtxos"
                          ELSE "GetAddressUtxosStream"
             /\ req.arg.max \in Nat
  <2>1. m = OtherMethod(c)
    BY <1>1, <1>8 DEF Method, SyncCmds, IdentityCmds
  <2>2. m.call = IF c.cmd = "get-address-utxos" THEN "get_address_utxos"
                 ELSE "get_address_utxos_stream"
    BY <1>8, <2>1 DEF OtherMethod
  <2>3. req = IdentityRequest(m)
    BY <1>1, <1>8, <2>2 DEF RequestOf, TraitCalls, IndexerCalls, CrosslinkCalls
  <2>4. req.rpc = IF c.cmd = "get-address-utxos" THEN "GetAddressUtxos"
                  ELSE "GetAddressUtxosStream"
    BY <1>8, <2>2, <2>3 DEF IdentityRequest
  <2> QED
    BY <1>2, <1>8, <2>2, <2>4 DEF Paged, PagedRpcs
<1>9. CASE c.cmd = "get-address-utxos"
  <2>1. m.call = "get_address_utxos" /\ req.rpc = "GetAddressUtxos" /\ req.arg.max \in Nat
    BY <1>8, <1>9
  <2>2. PICK list : list = UtxosMatching(s, req.arg)
    OBVIOUS
  <2>3. \A i \in DOMAIN list : list[i] \in [txid : Txids, height : Nat]
    BY <2>1, <2>2, UtxosAreKnown
  <2>4. Honest(Line(c, [addressUtxos |-> list]))
    BY <1>9, <2>3, ListIsHonest
  <2>5. ans = GetAddressUtxos(s, req.arg)
    BY <1>1, <2>1 DEF Answer, CrosslinkRpcs
  <2>6. ans \in {Err(s.faults[req.rpc]), One([addressUtxos |-> list])}
    BY <2>1, <2>2, <2>5 DEF GetAddressUtxos, Checked
  <2>7. r.kind = "err" \/ r = One([addressUtxos |-> list])
    BY <1>4, <2>1, <2>6 DEF ResultOf, Err, One
  <2> QED
    BY <2>4, <2>7 DEF HonestReply, One
<1>10. CASE c.cmd = "get-address-utxos-stream"
  <2>1. req.rpc = "GetAddressUtxosStream" /\ req.arg.max \in Nat
    BY <1>8, <1>10
  <2>2. PICK msgs : msgs = UtxosMatching(s, req.arg)
    OBVIOUS
  <2>3. IsSequence(msgs) /\ \A i \in DOMAIN msgs : msgs[i] \in [txid : Txids, height : Nat]
    BY <2>1, <2>2, UtxosAreKnown
  <2>4. \A i \in DOMAIN msgs : Honest(Line(c, msgs[i]))
    BY <1>10, <2>3, MessageIsHonest
  <2>5. Streams(StreamOf(s, "GetAddressUtxosStream", msgs), msgs)
    BY <1>2, <2>3, StreamOfStreams DEF IsServer
  <2>6. ans = GetAddressUtxosStream(s, req.arg)
    BY <1>1, <2>1 DEF Answer, CrosslinkRpcs
  <2>7. ans = Err(s.faults[req.rpc]) \/ Streams(ans, msgs)
    BY <2>1, <2>2, <2>5, <2>6 DEF GetAddressUtxosStream, Checked
  <2> QED
    BY <1>6, <2>4, <2>7
<1>11. CASE c.cmd \notin {"get-mempool-tx", "get-address-utxos", "get-address-utxos-stream"}
  BY <1>3, <1>11, OtherLinesAreHonest DEF HonestReply, Sent
<1> QED
  BY <1>7, <1>9, <1>10, <1>11

\* The messages of a mempool are transactions there are; a stream ends with an
\* item that is none.
Carries(msgs) == IsSequence(msgs) /\ \A i \in DOMAIN msgs : msgs[i].data \in Raws
CarriesOK(its) == IsSequence(its) /\ \A i \in DOMAIN its : its[i].ok => its[i].msg.data \in Raws
Serves(s) ==
    /\ HasShape(s) /\ Carries(s.mempool)
    /\ \A rpc \in DOMAIN s.streamFaults : s.streamFaults[rpc].after \in Nat

\* Whatever is printed, or still to be printed, shows a txid there is.
ShowsKnown ==
    /\ IsSequence(out) /\ \A i \in DOMAIN out : Honest(out[i])
    /\ cli.cmd = "get-mempool-stream" =>
          /\ pc \notin {"ask", "drain"} /\ Serves(server)
          /\ pc = "follow" => CarriesOK(items)
    /\ cli.cmd # "get-mempool-stream" /\ pc = "drain" =>
          /\ IsSequence(items)
          /\ \A i \in DOMAIN items : items[i].ok => Honest(Line(cli, items[i].msg))

\* A printed line adds at most itself.
LEMMA OneHonestLineMore ==
    ASSUME IsSequence(out), \A i \in DOMAIN out : Honest(out[i]),
           UNCHANGED out \/ \E line : Honest(line) /\ out' = Append(out, line)
    PROVE  IsSequence(out') /\ \A i \in DOMAIN out' : Honest(out'[i])
<1>1. CASE UNCHANGED out
  BY <1>1
<1>2. CASE ~UNCHANGED out
  <2>1. PICK line : Honest(line) /\ out' = Append(out, line)
    BY <1>2
  <2>2. /\ IsSequence(out') /\ DOMAIN out = 1..Len(out) /\ Len(out) \in Nat
        /\ DOMAIN out' = 1..(Len(out) + 1)
        /\ \A i \in 1..Len(out) : out'[i] = out[i]
        /\ out'[Len(out) + 1] = line
    BY <2>1, Appended, SequenceShape
  <2>3. ASSUME NEW i \in DOMAIN out' PROVE Honest(out'[i])
    <3>1. i \in DOMAIN out \/ i = Len(out) + 1
      BY <2>2
    <3> QED
      BY <2>1, <2>2, <3>1
  <2> QED
    BY <2>2, <2>3
<1> QED
  BY <1>1, <1>2

\* A view of a transaction shows its txid, or none.
LEMMA ViewIsHonest ==
    ASSUME NEW raw \in Raws, NEW height, NEW ch, NEW line,
           line \in {Summary(Parse(raw, height, ch)), Json(Parse(raw, height, ch))}
    PROVE  Honest(line)
<1> DEFINE view == Parse(raw, height, ch)
<1>1. view.txid \in {NoTxid, Reverse(raw.id)}
  BY DEF Parse, Unparsed, Txid
<1>2. line.form \in {"summary", "json"} /\ line.txid \in {view.txid, NoTxid}
  <2>1. Summary(view).form = "summary" /\ Summary(view).txid \in {view.txid, NoTxid}
    BY DEF Summary
  <2>2. Json(view).form = "json" /\ Json(view).txid = view.txid
    BY DEF Json
  <2> QED
    BY <2>1, <2>2
<1> HIDE DEF view
<1>3. PrintedTxids(line) = {line.txid} \ {NoTxid}
  BY <1>2 DEF PrintedTxids
<1> QED
  BY <1>1, <1>2, <1>3 DEF Honest, Displayed, Txids

\* The mempool stream carries the transactions of the mempool.
LEMMA MempoolIsCarried ==
    ASSUME NEW s, Serves(s), Call(s, [call |-> "get_mempool_stream"]).kind = "stream"
    PROVE  CarriesOK(Call(s, [call |-> "get_mempool_stream"]).items)
<1>1. PICK m, req, ans, r : /\ m = [call |-> "get_mempool_stream"] /\ req = RequestOf(m)
                            /\ ans = Answer(s, req) /\ r = Call(s, m)
  OBVIOUS
<1>2. req.rpc = "GetMempoolStream"
  BY <1>1, StreamAsksChainWide
<1>3. ans = GetMempoolStream(s)
  BY <1>1, <1>2 DEF Answer, CrosslinkRpcs
<1>4. Streams(StreamOf(s, "GetMempoolStream", s.mempool), s.mempool)
  BY StreamOfStreams DEF Serves, Carries
<1>5. ans = Err(s.faults["GetMempoolStream"]) \/ Streams(ans, s.mempool)
  BY <1>3, <1>4 DEF GetMempoolStream, Checked
<1>6. ans # Err(s.faults["GetMempoolStream"])
  <2>1. r = ResultOf(m, ans) /\ r.kind = "stream"
    BY <1>1 DEF Call
  <2> QED
    BY <2>1 DEF ResultOf, Err
<1>7. Streams(r, s.mempool)
  BY <1>1, <1>5, <1>6, CallStreams
<1> QED
  BY <1>1, <1>7 DEF Streams, Serves, Carries, CarriesOK

\* No step prints a txid of no transaction.
LEMMA ShowsKnownNext == Answered /\ ShowsKnown /\ [LwcliNext]_lwcliVars => ShowsKnown'
<1> SUFFICES ASSUME Answered, ShowsKnown, [LwcliNext]_lwcliVars PROVE ShowsKnown'
  OBVIOUS
<1>0. IsSequence(out) /\ \A i \in DOMAIN out : Honest(out[i])
  BY DEF ShowsKnown
<1>1. CASE Start \/ Connect \/ ReadArgument
  <2>1. /\ UNCHANGED <<cli, server, out>>
        /\ pc' \in {"connect", "argument", "ask", "discover", "done"}
        /\ pc' = "ask" => cli.cmd # "get-mempool-stream"
    BY <1>1 DEF Start, Connect, ReadArgument, Exit, DiscoversFirst
  <2> QED
    BY <2>1 DEF ShowsKnown
<1>2. CASE AskOnce
  <2>1. PICK r : r = Call(server, Method(cli))
    OBVIOUS
  <2>2. /\ pc = "ask" /\ cli' = cli
        /\ \/ r.kind = "err" /\ Exit("error") /\ UNCHANGED <<items, out>>
           \/ /\ r.kind = "one" /\ Exit("ok") /\ UNCHANGED items
              /\ out' = IF pipe THEN Append(out, Line(cli, r.msg)) ELSE out
           \/ /\ r.kind = "stream" /\ items' = r.items /\ pc' = "drain" /\ UNCHANGED <<exit, out>>
    BY <1>2, <2>1, Asked
  <2>3. cli.cmd # "get-mempool-stream" /\ cli.cmd # "completions" /\ cli \in Invocations
    BY <2>2 DEF ShowsKnown, Answered
  <2>4. server \in Servers
    BY <2>2, <2>3 DEF Answered
  <2>5. HonestReply(cli, r)
    BY <2>1, <2>3, <2>4, ReplyIsHonest
  <2>6. UNCHANGED out \/ \E line : Honest(line) /\ out' = Append(out, line)
    BY <2>2, <2>5 DEF HonestReply
  <2>7. IsSequence(out') /\ \A i \in DOMAIN out' : Honest(out'[i])
    BY <1>0, <2>6, OneHonestLineMore
  <2>8. /\ pc' \in {"done", "drain"}
        /\ pc' = "drain" => /\ IsSequence(items')
                            /\ \A i \in DOMAIN items' : items'[i].ok => Honest(Line(cli, items'[i].msg))
    BY <2>2, <2>5 DEF Exit, HonestReply
  <2> QED
    BY <2>2, <2>3, <2>7, <2>8 DEF ShowsKnown
<1>3. CASE Drain
  <2>1. cli.cmd # "get-mempool-stream" /\ pc = "drain" /\ cli' = cli
    BY <1>3 DEF ShowsKnown, Drain
  <2>2. /\ IsSequence(items)
        /\ \A i \in DOMAIN items : items[i].ok => Honest(Line(cli, items[i].msg))
    BY <2>1 DEF ShowsKnown
  <2>3. CASE items = <<>> \/ ~Head(items).ok
    <3>1. pc' = "done" /\ UNCHANGED out
      BY <1>3, <2>3 DEF Drain, Exit
    <3> QED
      BY <1>0, <2>1, <3>1 DEF ShowsKnown
  <2>4. CASE items # <<>> /\ Head(items).ok
    <3>1. /\ DOMAIN items = 1..Len(items) /\ Len(items) \in Nat /\ Len(items) > 0
          /\ Head(items) = items[1]
          /\ IsSequence(Tail(items)) /\ Len(Tail(items)) = Len(items) - 1
          /\ \A i \in 1..(Len(items) - 1) : Tail(items)[i] = items[i + 1]
      BY <2>2, <2>4, Popped, SequenceShape
    <3>2. /\ items' = Tail(items) /\ pc' \in {"drain", "done"}
          /\ UNCHANGED out \/ out' = Append(out, Line(cli, Head(items).msg))
      BY <1>3, <2>1, <2>4 DEF Drain, Emit, Exit
    <3>3. IsSequence(items') /\ DOMAIN items' = 1..(Len(items) - 1)
      BY <3>1, <3>2, SequenceShape
    <3>4. ASSUME NEW i \in DOMAIN items', items'[i].ok PROVE Honest(Line(cli, items'[i].msg))
      <4>1. i + 1 \in DOMAIN items /\ items'[i] = items[i + 1]
        BY <3>1, <3>2, <3>3
      <4> QED
        BY <2>2, <3>4, <4>1
    <3>5. Honest(Line(cli, Head(items).msg))
      <4>1. 1 \in DOMAIN items /\ items[1].ok
        BY <2>4, <3>1
      <4> QED
        BY <2>2, <3>1, <4>1
    <3>6. IsSequence(out') /\ \A i \in DOMAIN out' : Honest(out'[i])
      BY <1>0, <3>2, <3>5, OneHonestLineMore
    <3> QED
      BY <2>1, <3>2, <3>3, <3>4, <3>6 DEF ShowsKnown
  <2> QED
    BY <2>3, <2>4
<1>4. CASE Discover \/ ReadTip \/ StreamEnds
  <2>1. /\ UNCHANGED <<cli, server, out>> /\ pc' \in {"tip", "ask", "subscribe", "done"}
        /\ pc' = "ask" => cli.cmd # "get-mempool-stream"
    BY <1>4 DEF Discover, ReadTip, StreamEnds, Exit
  <2> QED
    BY <2>1 DEF ShowsKnown
<1>5. CASE Subscribe
  <2>1. PICK r : r = Call(server, [call |-> "get_mempool_stream"])
    OBVIOUS
  <2>2. /\ pc = "subscribe" /\ UNCHANGED <<cli, server, out>> /\ pc' \in {"follow", "done"}
        /\ pc' = "follow" => r.kind = "stream" /\ items' = r.items
    BY <1>5, <2>1 DEF Subscribe, Exit
  <2>3. cli.cmd = "get-mempool-stream"
    BY <2>2 DEF Answered
  <2>4. pc' = "follow" => CarriesOK(items')
    BY <2>1, <2>2, <2>3, MempoolIsCarried DEF ShowsKnown
  <2> QED
    BY <2>2, <2>3, <2>4 DEF ShowsKnown
<1>6. CASE FollowItem
  <2> DEFINE raw == Head(items).msg
             view == Parse(raw.data, tip, chain)
  <2>1. /\ pc = "follow" /\ items # <<>> /\ UNCHANGED <<cli, server>>
        /\ \/ ~Head(items).ok /\ Exit("error") /\ UNCHANGED <<items, out>>
           \/ /\ Head(items).ok /\ items' = Tail(items) /\ pc' \in {"follow", "done"}
              /\ \/ UNCHANGED out
                 \/ out' = Append(out, [form |-> "debug", msg |-> raw])
                 \/ out' = Append(out, IF cli.output = "human" THEN Summary(view) ELSE Json(view))
    BY <1>6 DEF FollowItem, Emit, Exit
  <2>2. cli.cmd = "get-mempool-stream"
    BY <2>1 DEF Answered
  <2>3. CarriesOK(items) /\ Serves(server)
    BY <2>1, <2>2 DEF ShowsKnown
  <2>4. /\ DOMAIN items = 1..Len(items) /\ Len(items) \in Nat /\ Len(items) > 0
        /\ Head(items) = items[1]
        /\ IsSequence(Tail(items)) /\ Len(Tail(items)) = Len(items) - 1
        /\ \A i \in 1..(Len(items) - 1) : Tail(items)[i] = items[i + 1]
    BY <2>1, <2>3, Popped, SequenceShape DEF CarriesOK
  <2>5. CASE ~Head(items).ok
    BY <1>0, <2>1, <2>2, <2>3, <2>5 DEF ShowsKnown, Exit
  <2>6. CASE Head(items).ok
    <3>1. raw.data \in Raws
      <4>1. 1 \in DOMAIN items
        BY <2>4
      <4> QED
        BY <2>3, <2>4, <2>6, <4>1 DEF CarriesOK
    <3>2. Honest([form |-> "debug", msg |-> raw])
      BY DEF Honest, PrintedTxids
    <3>3. Honest(Summary(view)) /\ Honest(Json(view))
      BY <3>1, ViewIsHonest
    <3> HIDE DEF view, raw
    <3>4. UNCHANGED out \/ \E line : Honest(line) /\ out' = Append(out, line)
      BY <2>1, <2>6, <3>2, <3>3
    <3>5. IsSequence(out') /\ \A i \in DOMAIN out' : Honest(out'[i])
      BY <1>0, <3>4, OneHonestLineMore
    <3>6. items' = Tail(items) /\ pc' \in {"follow", "done"}
      BY <2>1, <2>6
    <3>7. IsSequence(items') /\ DOMAIN items' = 1..(Len(items) - 1)
      BY <2>4, <3>6, SequenceShape
    <3>8. ASSUME NEW i \in DOMAIN items', items'[i].ok PROVE items'[i].msg.data \in Raws
      <4>1. i + 1 \in DOMAIN items /\ items'[i] = items[i + 1]
        BY <2>4, <3>6, <3>7
      <4> QED
        BY <2>3, <3>8, <4>1 DEF CarriesOK
    <3>9. CarriesOK(items')
      BY <3>7, <3>8 DEF CarriesOK
    <3> QED
      BY <2>1, <2>2, <2>3, <3>5, <3>6, <3>9 DEF ShowsKnown
  <2> QED
    BY <2>5, <2>6
<1>7. ASSUME NEW raw \in Pool, Arrive(raw) PROVE ShowsKnown'
  <2>1. PICK e, it : e = [data |-> raw, height |-> 0] /\ it = Item(e)
    OBVIOUS
  <2>2. /\ cli.cmd = "get-mempool-stream" /\ UNCHANGED <<cli, pc, out>>
        /\ server' = [server EXCEPT !.mempool = Append(@, e)]
        /\ UNCHANGED items \/ (pc = "follow" /\ items' = Append(items, it))
    BY <1>7, <2>1 DEF Arrive, Watched
  <2>3. e.data \in Raws /\ it.msg = e
    BY <2>1, ServersAssumption DEF Item
  <2>4. Serves(server) /\ (pc = "follow" => CarriesOK(items))
    BY <2>2 DEF ShowsKnown
  <2>5. PICK q : q = Append(server.mempool, e)
    OBVIOUS
  <2>6. Carries(q)
    <3>1. /\ IsSequence(q) /\ DOMAIN q = 1..(Len(server.mempool) + 1)
          /\ DOMAIN server.mempool = 1..Len(server.mempool) /\ Len(server.mempool) \in Nat
          /\ \A i \in 1..Len(server.mempool) : q[i] = server.mempool[i]
          /\ q[Len(server.mempool) + 1] = e
      BY <2>4, <2>5, Appended, SequenceShape DEF Serves, Carries
    <3>2. ASSUME NEW i \in DOMAIN q PROVE q[i].data \in Raws
      <4>1. i \in DOMAIN server.mempool \/ i = Len(server.mempool) + 1
        BY <3>1
      <4> QED
        BY <2>3, <2>4, <3>1, <4>1 DEF Serves, Carries
    <3> QED
      BY <3>1, <3>2 DEF Carries
  <2>7. Serves(server')
    <3>1. server' = [server EXCEPT !.mempool = q]
      BY <2>2, <2>5
    <3>2. server'.mempool = q /\ server'.streamFaults = server.streamFaults /\ HasShape(server')
      BY <2>4, <3>1 DEF Serves, HasShape, NewServer
    <3> QED
      BY <2>4, <2>6, <3>2 DEF Serves
  <2>8. pc = "follow" => CarriesOK(items')
    <3>1. CASE UNCHANGED items
      BY <2>4, <3>1
    <3>2. CASE pc = "follow" /\ items' = Append(items, it)
      <4>1. /\ IsSequence(items') /\ DOMAIN items' = 1..(Len(items) + 1)
            /\ DOMAIN items = 1..Len(items) /\ Len(items) \in Nat
            /\ \A i \in 1..Len(items) : items'[i] = items[i]
            /\ items'[Len(items) + 1] = it
        BY <2>4, <3>2, Appended, SequenceShape DEF CarriesOK
      <4>2. ASSUME NEW i \in DOMAIN items', items'[i].ok PROVE items'[i].msg.data \in Raws
        <5>1. i \in DOMAIN items \/ i = Len(items) + 1
          BY <4>1
        <5> QED
          BY <2>3, <2>4, <3>2, <4>1, <4>2, <5>1 DEF CarriesOK
      <4> QED
        BY <4>1, <4>2 DEF CarriesOK
    <3> QED
      BY <2>2, <3>1, <3>2
  <2> QED
    BY <1>0, <2>2, <2>4, <2>7, <2>8 DEF ShowsKnown
<1>8. ASSUME NEW mined \in SUBSET Pool, Mine(mined) PROVE ShowsKnown'
  <2> DEFINE I == {i \in DOMAIN server.mempool : server.mempool[i].data \notin mined}
  <2>1. PICK q : q = ItemsAt(server.mempool, I)
    OBVIOUS
  <2>2. /\ cli.cmd = "get-mempool-stream" /\ UNCHANGED <<cli, pc, out, items>>
        /\ \E b : server' = [server EXCEPT !.blocks = b, !.mempool = q]
    BY <1>8, <2>1 DEF Mine, Watched, Where
  <2>3. Serves(server) /\ (pc = "follow" => CarriesOK(items))
    BY <2>2 DEF ShowsKnown
  <2>4. I \subseteq 1..Len(server.mempool) /\ \A i \in I : server.mempool[i].data \in Raws
    BY <2>3, SequenceShape DEF Serves, Carries
  <2> HIDE DEF I
  <2>5. IsSequence(q) /\ ToSet(q) = {server.mempool[i] : i \in I}
    BY <2>1, <2>3, <2>4, SelectedItems DEF Serves, Carries
  <2>6. Carries(q)
    BY <2>4, <2>5 DEF Carries, ToSet
  <2>7. Serves(server')
    <3>1. server'.mempool = q /\ server'.streamFaults = server.streamFaults /\ HasShape(server')
      BY <2>2, <2>3 DEF Serves, HasShape, NewServer
    <3> QED
      BY <2>3, <2>6, <3>1 DEF Serves
  <2> QED
    BY <1>0, <2>2, <2>3, <2>7 DEF ShowsKnown
<1>9. CASE ClosePipe \/ UNCHANGED lwcliVars
  <2>1. UNCHANGED <<cli, pc, server, items, out>>
    BY <1>9 DEF ClosePipe, lwcliVars
  <2> QED
    BY <2>1 DEF ShowsKnown
<1> QED
  BY <1>1, <1>2, <1>3, <1>4, <1>5, <1>6, <1>7, <1>8, <1>9 DEF LwcliNext, LwcliStep

\* Nothing is printed at the start, and the servers hold transactions there are.
LEMMA ShowsKnownInit == LwcliInit => Answered /\ ShowsKnown
<1> SUFFICES ASSUME LwcliInit PROVE Answered /\ ShowsKnown
  OBVIOUS
<1>1. Answered
  BY DEF LwcliInit, Answered
<1>2. server \in Servers /\ out = <<>> /\ pc = "start"
  BY DEF LwcliInit
<1>3. IsSequence(server.mempool) /\ ToSet(server.mempool) \subseteq [data : Raws, height : Nat]
  BY <1>2, ServersAssumption, SequenceOf
<1>4. Carries(server.mempool)
  BY <1>3 DEF Carries, ToSet
<1>5. IsServer(server)
  BY <1>2, ServersAssumption
<1>6. Serves(server)
  BY <1>4, <1>5 DEF Serves, HasShape, IsServer
<1> QED
  BY <1>1, <1>2, <1>6, NoneIsSequence DEF ShowsKnown

\* A txid copied from the output of one command and typed to get-transaction
\* asks the server for that very transaction, whichever renderer printed it:
\* for every set of transactions, command line and server.
THEOREM TypedAlwaysAsPrinted == LwcliSpec => []TypedAsPrinted
<1>1. LwcliInit => Answered /\ ShowsKnown
  BY ShowsKnownInit
<1>2. Answered /\ ShowsKnown /\ [LwcliNext]_lwcliVars => Answered' /\ ShowsKnown'
  BY AnsweredNext, ShowsKnownNext
<1>3. ShowsKnown => TypedAsPrinted
  <2> SUFFICES ASSUME ShowsKnown, NEW i \in DOMAIN out, NEW txid \in PrintedTxids(out[i])
               PROVE  LET typed == ParseTxid([hex |-> TRUE, bytes |-> txid])
                      IN  typed.ok /\ typed.bytes \in Txids
    BY DEF TypedAsPrinted
  <2>1. PICK id \in Txids : txid = Reverse(id)
    BY DEF ShowsKnown, Honest, Displayed
  <2>2. IsSequence(id) /\ Len(id) = HashBytes
    BY ServersAssumption
  <2>3. PICK n \in Nat : n = Len(id)
    BY <2>2, SequenceShape
  <2>4. /\ IsSequence(txid) /\ Len(txid) = n
        /\ \A k \in 1..n : txid[k] = id[n - k + 1]
    BY <2>1, <2>2, <2>3, ReversedIsSequence
  <2>5. PICK back : back = Reverse(txid)
    OBVIOUS
  <2>6. /\ IsSequence(back) /\ Len(back) = n
        /\ \A k \in 1..n : back[k] = txid[n - k + 1]
    BY <2>4, <2>5, ReversedIsSequence
  <2>7. \A k \in 1..n : back[k] = id[k]
    <3>1. ASSUME NEW k \in 1..n PROVE back[k] = id[k]
      <4>1. n - k + 1 \in 1..n /\ n - (n - k + 1) + 1 = k
        OBVIOUS
      <4> QED
        BY <2>4, <2>6, <4>1
    <3> QED
      BY <3>1
  <2>8. back = [k \in 1..n |-> back[k]] /\ id = [k \in 1..n |-> id[k]]
    BY <2>2, <2>3, <2>6, SequenceShape
  <2>9. back = id
    BY <2>7, <2>8
  <2> QED
    BY <2>1, <2>2, <2>3, <2>4, <2>5, <2>9 DEF ParseTxid
<1> QED
  BY <1>1, <1>2, <1>3, PTL DEF LwcliSpec

------------------------------------------------------------------------------
(***************************************************************************)
(* A fee that is shown as a number is the fee that is paid.                *)
(***************************************************************************)

\* The partial sums of a sequence, by their values.
Adds(u, s, m) ==
    /\ u = [i \in 0..m |-> u[i]] /\ u[0] = 0
    /\ \A i \in 1..m : u[i] = u[i - 1] + s[i]

\* Every sequence has its partial sums.
LEMMA AddsExists ==
    ASSUME NEW s, NEW n \in Nat
    PROVE  \E u : Adds(u, s, n)
<1> DEFINE T == {m \in 0..n : \E u : Adds(u, s, m)}
<1>1. 0 \in T
  <2> DEFINE w == [i \in 0..0 |-> 0]
  <2>1. w = [i \in 0..0 |-> w[i]] /\ w[0] = 0
    OBVIOUS
  <2> HIDE DEF w
  <2>2. Adds(w, s, 0)
    BY <2>1 DEF Adds
  <2> QED
    BY <2>2
<1>2. ASSUME NEW m \in 1..n, m - 1 \in T PROVE m \in T
  <2>1. PICK u : Adds(u, s, m - 1)
    BY <1>2
  <2> DEFINE top == u[m - 1] + s[m]
             w == [i \in 0..m |-> IF i < m THEN u[i] ELSE top]
  <2>2. /\ w = [i \in 0..m |-> w[i]]
        /\ \A i \in 0..(m - 1) : w[i] = u[i]
        /\ w[m] = top
    OBVIOUS
  <2> HIDE DEF w
  <2>3. u[0] = 0 /\ \A i \in 1..(m - 1) : u[i] = u[i - 1] + s[i]
    BY <2>1 DEF Adds
  <2>0. m \in Nat /\ 0 \in 0..(m - 1) /\ \A i \in 1..m : i - 1 \in 0..(m - 1)
    OBVIOUS
  <2>4. w[0] = 0
    BY <2>0, <2>2, <2>3, Zenon
  <2>5. ASSUME NEW i \in 1..m PROVE w[i] = w[i - 1] + s[i]
    <3>1. i - 1 \in 0..(m - 1) /\ w[i - 1] = u[i - 1]
      BY <2>0, <2>2, Zenon
    <3>2. CASE i = m
      BY <2>2, <3>1, <3>2
    <3>3. CASE i # m
      <4>1. i \in 1..(m - 1) /\ i \in 0..(m - 1)
        BY <3>3
      <4> QED
        BY <2>2, <2>3, <3>1, <4>1
    <3> QED
      BY <3>2, <3>3
  <2>6. Adds(w, s, m)
    BY <2>2, <2>4, <2>5 DEF Adds
  <2> QED
    BY <2>6
<1>3. T \in SUBSET (0..n)
  OBVIOUS
<1>4. T = 0..n
  <2> HIDE DEF T
  <2> QED
    BY <1>1, <1>2, <1>3, UpTo_n
<1>5. n \in T
  BY <1>4
<1> QED
  BY <1>5

\* Sum is the last of the partial sums.
LEMMA SumAdds ==
    ASSUME NEW s, IsSequence(s)
    PROVE  \E u : Adds(u, s, Len(s)) /\ Sum(s) = u[Len(s)]
<1> DEFINE n == Len(s)
           body(u) == [i \in 0..n |-> IF i = 0 THEN 0 ELSE u[i - 1] + s[i]]
           upto == CHOOSE u : u = body(u)
<1>0. n \in Nat
  BY SequenceShape
<1>1. Sum(s) = upto[n]
  BY DEF Sum
<1>2. PICK v : Adds(v, s, n)
  BY <1>0, AddsExists
<1>3. v = body(v)
  <2>1. v = [i \in 0..n |-> v[i]] /\ v[0] = 0 /\ \A i \in 1..n : v[i] = v[i - 1] + s[i]
    BY <1>2 DEF Adds
  <2> HIDE DEF n
  <2>2. \A i \in 0..n : i # 0 => i \in 1..n
    BY <1>0
  <2>3. \A i \in 0..n : v[i] = IF i = 0 THEN 0 ELSE v[i - 1] + s[i]
    BY <2>1, <2>2, Zenon
  <2> QED
    BY <2>1, <2>3
<1>4. upto = body(upto)
  <2> HIDE DEF body
  <2> QED
    BY <1>3
<1> HIDE DEF upto
<1>5. \A i \in 0..n : upto[i] = IF i = 0 THEN 0 ELSE upto[i - 1] + s[i]
  BY <1>4
<1>6. upto = [i \in 0..n |-> upto[i]]
  <2>1. body(upto) = [i \in 0..n |-> body(upto)[i]]
    OBVIOUS
  <2> HIDE DEF body
  <2> QED
    BY <1>4, <2>1
<1>7. 0 \in 0..n /\ \A i \in 1..n : i \in 0..n /\ i # 0
  BY <1>0
<1>8. Adds(upto, s, n)
  <2> HIDE DEF n
  <2> QED
    BY <1>5, <1>6, <1>7 DEF Adds
<1> QED
  BY <1>1, <1>8

\* Numbers add up to a number, and none to nothing.
LEMMA SumIsNumber ==
    /\ \A s \in Seq(Int) : Sum(s) \in Int
    /\ Sum(<<>>) = 0
<1>1. ASSUME NEW s \in Seq(Int) PROVE Sum(s) \in Int
  <2>1. IsSequence(s) /\ Len(s) \in Nat /\ \A i \in 1..Len(s) : s[i] \in Int
    BY SequenceOf, SequenceShape, ElementOfSeq
  <2>2. PICK n, u : n = Len(s) /\ Adds(u, s, n) /\ Sum(s) = u[n]
    BY <2>1, SumAdds
  <2>3. n \in Nat /\ u[0] = 0 /\ \A i \in 1..n : u[i] = u[i - 1] + s[i] /\ s[i] \in Int
    BY <2>1, <2>2 DEF Adds
  <2> DEFINE T == {m \in 0..n : u[m] \in Int}
  <2>4. 0 \in T /\ T \in SUBSET (0..n)
    BY <2>3
  <2>5. ASSUME NEW m \in 1..n, m - 1 \in T PROVE m \in T
    <3>1. u[m - 1] \in Int /\ m \in 0..n
      BY <2>3, <2>5
    <3>2. u[m] = u[m - 1] + s[m] /\ s[m] \in Int
      BY <2>3
    <3>3. u[m] \in Int
      BY <3>1, <3>2
    <3> QED
      BY <3>1, <3>3
  <2> HIDE DEF T
  <2>6. T = 0..n
    BY <2>3, <2>4, <2>5, UpTo_n
  <2>7. n \in T
    BY <2>3, <2>6
  <2> QED
    BY <2>2, <2>7 DEF T
<1>2. Sum(<<>>) = 0
  <2>1. PICK u : Adds(u, <<>>, 0) /\ Sum(<<>>) = u[0]
    BY NoneIsSequence, SumAdds
  <2> QED
    BY <2>1 DEF Adds
<1> QED
  BY <1>1, <1>2

\* What a transaction takes less what it makes: its value balance, with the
\* bond, what its JoinSplits move, and what the outputs it spends are worth,
\* less its outputs.
LEMMA BalanceIsFee ==
    ASSUME NEW raw \in Raws
    PROVE  /\ ValueBalance(raw) \in Int /\ Sum(raw.vout) \in Int /\ Sum(raw.funds) \in Int
           /\ (ValueBalance(raw) - Sum(raw.vout)) + Sum(raw.funds)
                = TrueFee(raw) - SproutBalance(raw)
<1>1. /\ Sum(raw.vout) \in Int /\ Sum(raw.funds) \in Int
      /\ \A pool \in {"sprout", "sapling", "orchard", "ironwood"} :
            raw.bundles[pool].takes \in Int /\ raw.bundles[pool].makes \in Int
      /\ raw.staking = NoStake \/ raw.staking.amount \in Int
  BY RawsAssumption, SumIsNumber DEF TxPools
<1>2. PICK back, bond :
        /\ back = IF raw.staking.kind = "withdraw" THEN raw.staking.amount ELSE 0
        /\ bond = IF raw.staking.kind = "create" THEN raw.staking.amount ELSE 0
  OBVIOUS
<1>3. back \in Int /\ bond \in Int /\ Contribution(Staked(raw)) = back - bond
  <2>1. CASE raw.staking = NoStake
    <3>1. raw.staking.kind = None /\ None \notin {"create", "withdraw"}
      BY <2>1 DEF NoStake, None
    <3>2. back = 0 /\ bond = 0
      BY <1>2, <3>1
    <3>3. Contribution(Staked(raw)) = 0
      BY <2>1, <3>1 DEF Staked, Contribution
    <3> QED
      BY <3>2, <3>3
  <2>2. CASE raw.staking # NoStake
    <3>1. PICK stake : stake = ProjectStaking(raw.staking)
      OBVIOUS
    <3>2. /\ stake.kind = raw.staking.kind
          /\ stake.kind \in {"create", "withdraw"} => stake.amount = raw.staking.amount
      BY <3>1 DEF ProjectStaking
    <3>3. Staked(raw) = stake /\ raw.staking.amount \in Int
      BY <1>1, <2>2, <3>1 DEF Staked
    <3>4. Contribution(stake) = IF stake.kind = "create" THEN 0 - stake.amount
                                ELSE IF stake.kind = "withdraw" THEN stake.amount ELSE 0
      BY DEF Contribution
    <3> QED
      BY <1>2, <3>2, <3>3, <3>4
  <2> QED
    BY <2>1, <2>2
<1>4. PICK t0, t1, t2, t3, m0, m1, m2, m3 :
        /\ t0 = raw.bundles["sprout"].takes /\ m0 = raw.bundles["sprout"].makes
        /\ t1 = raw.bundles["sapling"].takes /\ m1 = raw.bundles["sapling"].makes
        /\ t2 = raw.bundles["orchard"].takes /\ m2 = raw.bundles["orchard"].makes
        /\ t3 = raw.bundles["ironwood"].takes /\ m3 = raw.bundles["ironwood"].makes
  OBVIOUS
<1>5. {t0, t1, t2, t3, m0, m1, m2, m3} \subseteq Int
  BY <1>1, <1>4
<1>6. ValueBalance(raw) = (t1 - m1) + (t2 - m2) + (t3 - m3) + (back - bond)
  BY <1>3, <1>4 DEF ValueBalance, BalanceOf
<1>7. /\ TrueFee(raw) = Sum(raw.funds) + t0 + t1 + t2 + t3 + back
                         - Sum(raw.vout) - m0 - m1 - m2 - m3 - bond
      /\ SproutBalance(raw) = t0 - m0
  BY <1>2, <1>4 DEF TrueFee, SproutBalance, BalanceOf
<1> QED
  BY <1>1, <1>3, <1>5, <1>6, <1>7

\* A transaction without JoinSplits misses nothing.
LEMMA NoJoinSplitsNoneMissed ==
    ASSUME NEW raw, raw.bundles["sprout"] = NoBundle
    PROVE  SproutBalance(raw) = 0
BY DEF SproutBalance, BalanceOf, NoBundle

\* What parse reads of a transaction's value.
LEMMA ParsedValue ==
    ASSUME NEW raw, Readable(raw), NEW height, NEW ch
    PROVE  LET view == Parse(raw, height, ch)
           IN  /\ view.txid = Txid(raw) /\ ~view.error
               /\ view.feeBase = Known(ValueBalance(raw) - Sum(raw.vout))
               /\ view.feeBase # Unknown
               /\ view.inputTotal = IF raw.vin = <<>> THEN NoInputs ELSE Pending
<1>1. Parse(raw, height, ch).feeBase = Known(ValueBalance(raw) - Sum(raw.vout))
  BY DEF Parse
<1>2. Known(ValueBalance(raw) - Sum(raw.vout)).is # Unknown.is
  BY DEF Known, Unknown
<1> QED
  BY <1>1, <1>2 DEF Parse

\* A line's fee, when it is a number, is what some transaction of that txid
\* pays, less what its JoinSplits move.
FeeTells(line) ==
    line.fee.is = "known" =>
        \E raw \in Raws : /\ Readable(raw) /\ Txid(raw) = line.txid
                          /\ line.fee.zat = TrueFee(raw) - SproutBalance(raw)

\* A view tells the fee only of a transaction that spends no output.
LEMMA ViewTells ==
    ASSUME NEW raw \in Raws, NEW height, NEW ch, NEW line,
           line \in {Summary(Parse(raw, height, ch)), Json(Parse(raw, height, ch))}
    PROVE  FeeTells(line)
<1>1. PICK view : view = Parse(raw, height, ch)
  OBVIOUS
<1>2. CASE ~Readable(raw)
  <2>1. view = Unparsed
    BY <1>1, <1>2 DEF Parse
  <2>2. view.error /\ Fee(view) = Unknown
    BY <2>1 DEF Unparsed, Fee
  <2>3. Summary(view).fee = Unknown /\ Json(view).fee = Unknown
    BY <2>2 DEF Summary, Json
  <2>4. line.fee.is # "known"
    BY <1>1, <2>3 DEF Unknown
  <2> QED
    BY <2>4 DEF FeeTells
<1>3. CASE Readable(raw)
  <2>1. /\ view.txid = Txid(raw) /\ ~view.error /\ view.feeBase # Unknown
        /\ view.feeBase = Known(ValueBalance(raw) - Sum(raw.vout))
        /\ view.inputTotal = IF raw.vin = <<>> THEN NoInputs ELSE Pending
    BY <1>1, <1>3, ParsedValue
  <2>2. line.fee = Fee(view) /\ line.txid = view.txid
    <3>1. Summary(view).fee = Fee(view) /\ Summary(view).txid = view.txid
      BY <2>1 DEF Summary
    <3>2. Json(view).fee = Fee(view) /\ Json(view).txid = view.txid
      BY DEF Json
    <3> QED
      BY <1>1, <3>1, <3>2
  <2>3. CASE raw.vin # <<>>
    <3>1. Fee(view) = Pending
      BY <2>1, <2>3 DEF Fee, Pending
    <3> QED
      BY <2>2, <3>1 DEF FeeTells, Pending
  <2>4. CASE raw.vin = <<>>
    <3>1. Fee(view) = Known(ValueBalance(raw) - Sum(raw.vout))
      BY <2>1, <2>4 DEF Fee, NoInputs
    <3>2. raw.funds = <<>> /\ Sum(raw.funds) = 0
      BY <2>4, RawsAssumption, SumIsNumber
    <3>3. ValueBalance(raw) - Sum(raw.vout) = TrueFee(raw) - SproutBalance(raw)
      BY <3>2, BalanceIsFee
    <3>4. line.fee.zat = TrueFee(raw) - SproutBalance(raw)
      BY <2>2, <3>1, <3>3 DEF Known
    <3> QED
      BY <1>3, <2>1, <2>2, <3>4 DEF FeeTells
  <2> QED
    BY <2>3, <2>4
<1> QED
  BY <1>2, <1>3

\* Resolved with what its inputs are worth, a view has the fee it pays, less
\* what its JoinSplits move.
LEMMA ResolvedFee == ResolvedMissesSprout
<1> SUFFICES ASSUME NEW raw \in Raws, Readable(raw)
             PROVE  Fee(Resolve(Parse(raw, 1, Featurenet), Known(Sum(raw.funds))))
                        = Known(TrueFee(raw) - SproutBalance(raw))
  BY DEF ResolvedMissesSprout
<1>1. PICK view, total, base :
        /\ view = Parse(raw, 1, Featurenet) /\ total = Known(Sum(raw.funds))
        /\ base = ValueBalance(raw) - Sum(raw.vout)
  OBVIOUS
<1>2. /\ view.feeBase = Known(base) /\ view.feeBase # Unknown
      /\ view.inputTotal = IF raw.vin = <<>> THEN NoInputs ELSE Pending
  BY <1>1, ParsedValue
<1>3. CASE raw.vin = <<>>
  <2>1. view.inputTotal = NoInputs /\ view.inputTotal # Pending
    BY <1>2, <1>3 DEF NoInputs, Pending
  <2>2. Fee(Resolve(view, total)) = Known(base)
    BY <1>2, <2>1 DEF Resolve, Fee, NoInputs
  <2>3. raw.funds = <<>> /\ Sum(raw.funds) = 0
    BY <1>3, RawsAssumption, SumIsNumber
  <2>4. base = TrueFee(raw) - SproutBalance(raw)
    BY <1>1, <2>3, BalanceIsFee
  <2> QED
    BY <1>1, <2>2, <2>4
<1>4. CASE raw.vin # <<>>
  <2>1. PICK solved : solved = Resolve(view, total)
    OBVIOUS
  <2>2. solved.feeBase = view.feeBase /\ solved.inputTotal = total
    <3>1. solved = [view EXCEPT !.inputTotal = total]
      BY <1>2, <1>4, <2>1 DEF Resolve
    <3>2. "inputTotal" \in DOMAIN view /\ "feeBase" \in DOMAIN view
      BY <1>1 DEF Parse
    <3> QED
      BY <3>1, <3>2
  <2>3. total.is = "known" /\ total.zat = Sum(raw.funds)
    BY <1>1 DEF Known
  <2>4. Fee(solved) = Known(solved.feeBase.zat + total.zat)
    BY <1>2, <2>2, <2>3 DEF Fee
  <2>5. solved.feeBase.zat = base
    BY <1>2, <2>2 DEF Known
  <2>6. base + Sum(raw.funds) = TrueFee(raw) - SproutBalance(raw)
    BY <1>1, BalanceIsFee
  <2> QED
    BY <1>1, <2>1, <2>3, <2>4, <2>5, <2>6
<1> QED
  BY <1>3, <1>4

\* Every view printed so far tells such a fee.
FeesTell == \A i \in ViewLines : FeeTells(out[i])

\* No step prints another.
LEMMA FeesTellNext ==
    Answered /\ ShowsKnown /\ FeesTell /\ [LwcliNext]_lwcliVars => FeesTell'
<1> SUFFICES ASSUME Answered, ShowsKnown, FeesTell, [LwcliNext]_lwcliVars PROVE FeesTell'
  OBVIOUS
<1>0. IsSequence(out)
  BY DEF ShowsKnown
<1>1. ASSUME NEW line, out' = Append(out, line),
             line.form \in {"summary", "json"} => FeeTells(line)
      PROVE  FeesTell'
  <2>1. \A i \in ViewLines' : \/ i \in ViewLines /\ out'[i] = out[i]
                              \/ out'[i] = line /\ line.form \in {"summary", "json"}
    BY <1>0, <1>1, OneLineMore
  <2> QED
    BY <1>1, <2>1 DEF FeesTell
<1>2. CASE UNCHANGED out
  BY <1>2 DEF FeesTell, ViewLines
<1>3. CASE AskOnce \/ Drain
  <2>1. UNCHANGED out \/ \E msg : out' = Append(out, Line(cli, msg))
    BY <1>3, Asked DEF Drain, Emit
  <2> QED
    BY <1>1, <1>2, <2>1, LineIsNoView
<1>4. CASE FollowItem
  <2>1. PICK raw, view : raw = Head(items).msg /\ view = Parse(raw.data, tip, chain)
    OBVIOUS
  <2>2. /\ pc = "follow" /\ items # <<>>
        /\ \/ UNCHANGED out
           \/ out' = Append(out, [form |-> "debug", msg |-> raw])
           \/ /\ Head(items).ok
              /\ out' = Append(out, IF cli.output = "human" THEN Summary(view) ELSE Json(view))
    BY <1>4, <2>1 DEF FollowItem, Emit
  <2>3. Head(items).ok => raw.data \in Raws
    <3>1. cli.cmd = "get-mempool-stream"
      BY <2>2 DEF Answered
    <3>2. CarriesOK(items)
      BY <2>2, <3>1 DEF ShowsKnown
    <3>3. Head(items) = items[1] /\ 1 \in DOMAIN items
      <4>1. IsSequence(items)
        BY <3>2 DEF CarriesOK
      <4>2. Len(items) > 0 /\ Len(items) \in Nat /\ Head(items) = items[1] /\ DOMAIN items = 1..Len(items)
        BY <2>2, <4>1, Popped, SequenceShape
      <4> QED
        BY <4>2
    <3> QED
      BY <2>1, <3>2, <3>3 DEF CarriesOK
  <2>4. Head(items).ok => FeeTells(Summary(view)) /\ FeeTells(Json(view))
    BY <2>1, <2>3, ViewTells
  <2>5. CASE out' = Append(out, [form |-> "debug", msg |-> raw])
    <3>1. PICK line : line = [form |-> "debug", msg |-> raw]
      OBVIOUS
    <3> QED
      BY <1>1, <2>5, <3>1
  <2>6. CASE Head(items).ok /\ out' = Append(out, IF cli.output = "human" THEN Summary(view) ELSE Json(view))
    <3>1. PICK line : line = IF cli.output = "human" THEN Summary(view) ELSE Json(view)
      OBVIOUS
    <3>2. FeeTells(line) /\ out' = Append(out, line)
      BY <2>4, <2>6, <3>1
    <3> QED
      BY <1>1, <3>2
  <2> QED
    BY <1>2, <2>2, <2>5, <2>6
<1>5. CASE ~(AskOnce \/ Drain \/ FollowItem)
  BY <1>2, <1>5
     DEF LwcliNext, LwcliStep, Start, Connect, ReadArgument, Discover, ReadTip, Subscribe,
         StreamEnds, ClosePipe, Arrive, Mine, lwcliVars
<1> QED
  BY <1>3, <1>4, <1>5

\* A fee that is shown as a number is what the transaction pays less what its
\* Sprout JoinSplits move, and the lookup of the inputs adds exactly what is
\* missing: for every set of transactions, whatever they spend, make, bond or
\* withdraw in any pool.  A transaction without JoinSplits has its exact fee.
THEOREM FeeAlwaysMissesOnlySprout == LwcliSpec => []FeeMissesOnlySprout
<1>1. LwcliInit => Answered /\ ShowsKnown /\ FeesTell
  <2>1. LwcliInit => Answered /\ ShowsKnown
    BY ShowsKnownInit
  <2>2. LwcliInit => FeesTell
    BY NoneIsSequence DEF LwcliInit, FeesTell, ViewLines
  <2> QED
    BY <2>1, <2>2
<1>2. Answered /\ ShowsKnown /\ FeesTell /\ [LwcliNext]_lwcliVars
        => Answered' /\ ShowsKnown' /\ FeesTell'
  BY AnsweredNext, ShowsKnownNext, FeesTellNext
<1>3. FeesTell => FeeMissesOnlySprout
  BY ResolvedFee DEF FeesTell, FeeTells, FeeMissesOnlySprout
<1> QED
  BY <1>1, <1>2, <1>3, PTL DEF LwcliSpec

------------------------------------------------------------------------------
(***************************************************************************)
(* The range a reader of blocks is sent.                                   *)
(***************************************************************************)

\* One height after another, up or down.
Steps(msgs, d) == \A i \in 1..(Len(msgs) - 1) : msgs[i + 1].height = msgs[i].height + d

\* Blocks of rising heights with none left out between them rise by one.
LEMMA RiseByOne ==
    ASSUME NEW q, IsSequence(q), Rising(q),
           \A x, y \in ToSet(q) : \A h \in Nat :
              x.height <= h /\ h <= y.height => \E z \in ToSet(q) : z.height = h
    PROVE  Steps(q, 1)
<1>1. PICK n \in Nat : n = Len(q) /\ DOMAIN q = 1..n
  BY SequenceShape
<1>2. ASSUME NEW i \in 1..(n - 1) PROVE q[i + 1].height = q[i].height + 1
  <2>1. i \in 1..n /\ i + 1 \in 1..n
    BY <1>1
  <2>2. q[i].height \in Nat /\ q[i + 1].height \in Nat /\ q[i].height < q[i + 1].height
    BY <1>1, <2>1 DEF Rising
  <2>3. PICK h \in Nat : h = q[i].height + 1
    BY <2>2
  <2>4. q[i] \in ToSet(q) /\ q[i + 1] \in ToSet(q)
    BY <1>1, <2>1 DEF ToSet
  <2>5. PICK j \in 1..n : q[j].height = h
    <3>1. q[i].height <= h /\ h <= q[i + 1].height
      BY <2>2, <2>3
    <3>2. \E z \in ToSet(q) : z.height = h
      BY <2>4, <3>1
    <3> QED
      BY <1>1, <3>2 DEF ToSet
  <2>6. j <= i => q[j].height <= q[i].height
    <3>1. j < i => q[j].height < q[i].height
      BY <1>1, <2>1 DEF Rising
    <3> QED
      BY <2>1, <2>2, <2>3, <2>5, <3>1
  <2>7. i + 1 < j => q[i + 1].height < q[j].height
    BY <1>1, <2>1 DEF Rising
  <2>8. j = i + 1
    BY <2>1, <2>2, <2>3, <2>5, <2>6, <2>7
  <2> QED
    BY <2>3, <2>5, <2>8
<1> QED
  BY <1>1, <1>2 DEF Steps

\* Turned around, what rises by one falls by one.
LEMMA TurnedSteps ==
    ASSUME NEW q, IsSequence(q), Rising(q), Steps(q, 1)
    PROVE  Steps(Reverse(q), -1)
<1>1. PICK n \in Nat : n = Len(q) /\ DOMAIN q = 1..n
  BY SequenceShape
<1>2. PICK t : t = Reverse(q)
  OBVIOUS
<1>3. Len(t) = n /\ \A i \in 1..n : t[i] = q[n - i + 1]
  BY <1>1, <1>2, ReversedIsSequence
<1>4. ASSUME NEW i \in 1..(n - 1) PROVE t[i + 1].height = t[i].height - 1
  <2>1. i \in 1..n /\ i + 1 \in 1..n /\ n - i \in 1..(n - 1) /\ n - i \in 1..n
        /\ n - (i + 1) + 1 = n - i
    BY <1>1
  <2>2. t[i + 1] = q[n - i] /\ t[i] = q[(n - i) + 1]
    BY <1>3, <2>1
  <2>3. q[(n - i) + 1].height = q[n - i].height + 1 /\ q[n - i].height \in Nat
    BY <1>1, <2>1 DEF Steps, Rising
  <2> QED
    BY <2>2, <2>3
<1>5. \A i \in 1..n : t[i].height \in Int
  <2>1. ASSUME NEW i \in 1..n PROVE t[i].height \in Int
    <3>1. n - i + 1 \in 1..n
      BY <1>1
    <3> QED
      BY <1>1, <1>3, <3>1 DEF Rising
  <2> QED
    BY <2>1
<1>6. ASSUME NEW i \in 1..(n - 1) PROVE t[i + 1].height = t[i].height + (-1)
  BY <1>4, <1>5
<1> QED
  BY <1>2, <1>3, <1>6 DEF Steps

\* What a chain is made of.
LEMMA ChainShape ==
    ASSUME NEW blocks \in Chains
    PROVE  /\ IsSequence(blocks) /\ Rising(blocks)
           /\ Len(blocks) \in Nat /\ DOMAIN blocks = 1..Len(blocks)
           /\ \A i \in 1..Len(blocks) : blocks[i].height = i
<1>1. IsSequence(blocks) /\ \A i \in DOMAIN blocks : blocks[i].height = i
  BY ChainsAssumption
<1>2. Len(blocks) \in Nat /\ DOMAIN blocks = 1..Len(blocks)
  BY <1>1, SequenceShape
<1> QED
  BY <1>1, <1>2 DEF Rising

\* The blocks of a range of a chain, in the order its ends were named.
LEMMA RangeSteps ==
    ASSUME NEW blocks \in Chains, NEW low \in Nat, NEW high \in Nat
    PROVE  LET sorted == ByHeight(ItemsAt(blocks, {i \in DOMAIN blocks :
                                                      blocks[i].height \in low..high}))
           IN  /\ IsSequence(sorted) /\ Rising(sorted) /\ Steps(sorted, 1)
               /\ ToSet(sorted) \subseteq ToSet(blocks)
<1> DEFINE I == {i \in DOMAIN blocks : blocks[i].height \in low..high}
           found == ItemsAt(blocks, I)
           sorted == ByHeight(found)
<1>1. sorted = ByHeight(ItemsAt(blocks, {i \in DOMAIN blocks : blocks[i].height \in low..high}))
  OBVIOUS
<1>2. PICK n \in Nat : n = Len(blocks)
  BY ChainShape
<1>3. IsSequence(blocks) /\ Rising(blocks) /\ DOMAIN blocks = 1..n
      /\ \A i \in 1..n : blocks[i].height = i
  BY <1>2, ChainShape
<1>4. I = {i \in 1..n : i \in low..high}
  BY <1>3
<1> HIDE DEF I
<1>5. IsSequence(found) /\ Rising(found) /\ ToSet(found) = {blocks[i] : i \in I}
  BY <1>2, <1>3, <1>4, SelectedItems, SelectedRise
<1> HIDE DEF found
<1>6. IsSequence(sorted) /\ Rising(sorted) /\ ToSet(sorted) = {blocks[i] : i \in I}
  BY <1>5, ByHeightSorts
<1> HIDE DEF sorted
<1>7. ASSUME NEW x \in ToSet(sorted), NEW y \in ToSet(sorted), NEW h \in Nat,
             x.height <= h, h <= y.height
      PROVE  \E z \in ToSet(sorted) : z.height = h
  <2>1. PICK i \in I, j \in I : x = blocks[i] /\ y = blocks[j]
    BY <1>6
  <2>2. i \in 1..n /\ j \in 1..n /\ i \in low..high /\ j \in low..high
    BY <1>4
  <2>3. i <= h /\ h <= j
    BY <1>3, <1>7, <2>1, <2>2
  <2>4. h \in I
    BY <1>4, <2>2, <2>3
  <2>5. blocks[h].height = h
    BY <1>3, <1>4, <2>4
  <2> QED
    BY <1>6, <2>4, <2>5
<1>8. Steps(sorted, 1)
  BY <1>6, <1>7, RiseByOne
<1>9. ToSet(sorted) \subseteq ToSet(blocks)
  BY <1>3, <1>4, <1>6 DEF ToSet
<1> QED
  BY <1>1, <1>6, <1>8, <1>9

Direction(start, end) == IF start <= end THEN 1 ELSE -1

\* A range is answered with blocks of the chain, one height after another, from
\* its start.
LEMMA RangeReply ==
    ASSUME NEW s, IsServer(s), s.blocks \in Chains, NEW start \in Nat, NEW end \in Nat
    PROVE  LET r == Call(s, [call |-> "get_block_range", start |-> start, end |-> end])
           IN  \/ r.kind = "err"
               \/ \E msgs : /\ Streams(r, msgs) /\ IsSequence(msgs)
                            /\ ToSet(msgs) \subseteq ToSet(s.blocks)
                            /\ Steps(msgs, Direction(start, end))
<1>1. PICK m, req, ans, r : /\ m = [call |-> "get_block_range", start |-> start, end |-> end]
                            /\ req = RequestOf(m) /\ ans = Answer(s, req) /\ r = Call(s, m)
  OBVIOUS
<1>2. req = [rpc |-> "GetBlockRange", arg |-> [start |-> start, end |-> end]]
  <2>1. req = TraitRequest(m)
    BY <1>1 DEF RequestOf, TraitCalls, IndexerCalls, CrosslinkCalls
  <2> QED
    BY <1>1, <2>1 DEF TraitRequest
<1>3. PICK low \in Nat, high \in Nat : /\ low = IF start < end THEN start ELSE end
                                       /\ high = IF start < end THEN end ELSE start
  OBVIOUS
<1> DEFINE I == {i \in DOMAIN s.blocks : s.blocks[i].height \in low..high}
           sorted == ByHeight(ItemsAt(s.blocks, I))
           msgs == IF start > end THEN Reverse(sorted) ELSE sorted
<1>4. ans = Checked(s, "GetBlockRange", StreamOf(s, "GetBlockRange", msgs))
  <2>1. ans = GetBlockRange(s, [start |-> start, end |-> end])
    BY <1>1, <1>2 DEF Answer, CrosslinkRpcs
  <2> QED
    BY <1>3, <2>1 DEF GetBlockRange, Where
<1>5. /\ IsSequence(sorted) /\ Rising(sorted) /\ Steps(sorted, 1)
      /\ ToSet(sorted) \subseteq ToSet(s.blocks)
  BY RangeSteps
<1> HIDE DEF sorted
<1>6. IsSequence(Reverse(sorted)) /\ Steps(Reverse(sorted), -1)
  BY <1>5, ReversedIsSequence, TurnedSteps
<1>7. ToSet(Reverse(sorted)) \subseteq ToSet(sorted)
  <2>1. PICK n \in Nat : n = Len(sorted) /\ DOMAIN sorted = 1..n
    BY <1>5, SequenceShape
  <2>2. PICK t : t = Reverse(sorted)
    OBVIOUS
  <2>3. DOMAIN t = 1..n /\ \A i \in 1..n : t[i] = sorted[n - i + 1]
    BY <1>5, <2>1, <2>2, ReversedIsSequence, SequenceShape
  <2>4. \A i \in 1..n : n - i + 1 \in 1..n
    BY <2>1
  <2> QED
    BY <2>1, <2>2, <2>3, <2>4 DEF ToSet
<1>8. /\ IsSequence(msgs) /\ ToSet(msgs) \subseteq ToSet(s.blocks)
      /\ Steps(msgs, Direction(start, end))
  <2>1. CASE start > end
    BY <1>5, <1>6, <1>7, <2>1 DEF Direction
  <2>2. CASE ~(start > end)
    BY <1>5, <2>2 DEF Direction
  <2> QED
    BY <2>1, <2>2
<1> HIDE DEF msgs
<1>9. Streams(StreamOf(s, "GetBlockRange", msgs), msgs)
  BY <1>8, StreamOfStreams DEF IsServer
<1>10. CASE ans = Err(s.faults["GetBlockRange"])
  <2>1. r.kind = "err"
    BY <1>1, <1>10 DEF Call, ResultOf, Err
  <2> QED
    BY <1>1, <2>1
<1>11. CASE ans = StreamOf(s, "GetBlockRange", msgs)
  <2>1. Streams(r, msgs)
    BY <1>1, <1>9, <1>11, CallStreams
  <2> QED
    BY <1>1, <1>8, <2>1
<1> QED
  BY <1>4, <1>10, <1>11 DEF Checked

\* A tip that is read is a height.
LEMMA TipIsHeight ==
    ASSUME NEW s, s.blocks \in Chains,
           Call(s, [call |-> "get_latest_height"]).kind = "one"
    PROVE  Call(s, [call |-> "get_latest_height"]).msg \in Nat
<1>1. PICK m, req, ans, r : /\ m = [call |-> "get_latest_height"] /\ req = RequestOf(m)
                            /\ ans = Answer(s, req) /\ r = Call(s, m)
  OBVIOUS
<1>2. req.rpc = "GetLatestBlock"
  BY <1>1, StreamAsksChainWide
<1>3. ans = GetLatestBlock(s)
  BY <1>1, <1>2 DEF Answer, CrosslinkRpcs
<1>4. r = ResultOf(m, ans) /\ r.kind = "one"
  BY <1>1 DEF Call
<1>5. ans.kind # "err"
  BY <1>4 DEF ResultOf, Err
<1>6. /\ s.blocks # <<>>
      /\ ans = One([height |-> Last(s.blocks).height, hash |-> Last(s.blocks).hash])
  BY <1>3, <1>5 DEF GetLatestBlock, Checked, Err
<1>7. r = One(Last(s.blocks).height)
  BY <1>1, <1>4, <1>6 DEF ResultOf, One
<1>8. PICK n \in Nat : n = Len(s.blocks)
  BY ChainShape
<1>9. n > 0
  BY <1>6, <1>8, ChainShape, Popped
<1>10. Last(s.blocks).height = n
  BY <1>8, <1>9, ChainShape DEF Last
<1> QED
  BY <1>1, <1>7, <1>10 DEF One

------------------------------------------------------------------------------
(***************************************************************************)
(* What a reader of blocks keeps and hears.                                *)
(***************************************************************************)
OfChain(b) == \E blocks \in Chains : b \in ToSet(blocks)

\* Whatever is served, on its way or kept is a block of some chain.
Reading ==
    /\ IsServer(source) /\ source.blocks \in Chains
    /\ IsSequence(kept) /\ IsSequence(sink) /\ IsSequence(incoming)
    /\ \A i \in DOMAIN kept : OfChain(kept[i])
    /\ \A i \in DOMAIN incoming : incoming[i].ok => OfChain(incoming[i].msg)

\* A block of a chain stands at its height.
LEMMA BlockOfChain ==
    ASSUME NEW blocks \in Chains, NEW b \in ToSet(blocks)
    PROVE  b.height \in 1..Len(blocks) /\ b = blocks[b.height]
<1>1. PICK i \in 1..Len(blocks) : b = blocks[i]
  BY ChainShape DEF ToSet
<1> QED
  BY <1>1, ChainShape

\* What a call asks for and is given.
LEMMA Resumed ==
    ASSUME Reading, Resume
    PROVE  \E start, end \in Nat :
              /\ range' = <<start, end>> /\ sink' = <<>>
              /\ UNCHANGED <<reader, conn, source, kept>>
              /\ \/ ret' = "error" /\ incoming' = <<>>
                 \/ /\ ret' = "running"
                    /\ \E msgs : /\ IsSequence(incoming') /\ IsSequence(msgs)
                                 /\ \A i \in DOMAIN incoming' : incoming'[i].ok =>
                                       i \in DOMAIN msgs /\ incoming'[i].msg = msgs[i]
                                 /\ ToSet(msgs) \subseteq ToSet(source.blocks)
                                 /\ Steps(msgs, Direction(start, end))
<1>1. PICK tipReply : tipReply = Call(source, [call |-> "get_latest_height"])
  OBVIOUS
<1>2. PICK start : start = IF kept = <<>> THEN 1 ELSE Last(kept).height + 1
  OBVIOUS
<1>3. tipReply.kind = "one" /\ StreamBlockRange(start, tipReply.msg)
  BY <1>1, <1>2 DEF Resume
<1>4. tipReply.msg \in Nat
  BY <1>1, <1>3, TipIsHeight DEF Reading
<1>5. start \in Nat
  <2>1. CASE kept # <<>>
    <3>1. Len(kept) > 0 /\ Len(kept) \in Nat /\ DOMAIN kept = 1..Len(kept)
      BY <2>1, Popped, SequenceShape DEF Reading
    <3>2. OfChain(kept[Len(kept)])
      BY <3>1 DEF Reading
    <3>3. PICK blocks \in Chains : Last(kept) \in ToSet(blocks)
      BY <3>2 DEF OfChain, Last
    <3>4. Last(kept).height \in 1..Len(blocks) /\ Len(blocks) \in Nat
      BY <3>3, BlockOfChain, ChainShape
    <3> QED
      BY <1>2, <2>1, <3>4
  <2> QED
    BY <1>2, <2>1
<1>6. PICK end \in Nat : end = tipReply.msg
  BY <1>4
<1>7. PICK r : r = Call(source, [call |-> "get_block_range", start |-> start, end |-> end])
  OBVIOUS
<1>8. /\ IF r.kind = "err" THEN ret' = "error" /\ incoming' = <<>>
         ELSE ret' = "running" /\ incoming' = r.items
      /\ range' = <<start, end>> /\ sink' = <<>> /\ UNCHANGED <<reader, conn, source, kept>>
  BY <1>3, <1>6, <1>7 DEF StreamBlockRange
<1>9. \/ r.kind = "err"
      \/ \E msgs : /\ Streams(r, msgs) /\ IsSequence(msgs)
                   /\ ToSet(msgs) \subseteq ToSet(source.blocks)
                   /\ Steps(msgs, Direction(start, end))
  BY <1>5, <1>7, RangeReply DEF Reading
<1>10. CASE r.kind = "err"
  BY <1>5, <1>8, <1>10
<1>11. CASE r.kind # "err"
  <2>1. PICK msgs : /\ Streams(r, msgs) /\ IsSequence(msgs)
                    /\ ToSet(msgs) \subseteq ToSet(source.blocks)
                    /\ Steps(msgs, Direction(start, end))
    BY <1>9, <1>11
  <2>2. ret' = "running" /\ incoming' = r.items
    BY <1>8, <1>11
  <2>3. /\ IsSequence(incoming')
        /\ \A i \in DOMAIN incoming' : incoming'[i].ok =>
              i \in DOMAIN msgs /\ incoming'[i].msg = msgs[i]
    BY <2>1, <2>2 DEF Streams
  <2> QED
    BY <1>5, <1>8, <2>1, <2>2, <2>3
<1> QED
  BY <1>10, <1>11

\* What is left of a stream when its first item is taken.
LEMMA IncomingShape ==
    ASSUME Reading, incoming # <<>>
    PROVE  /\ DOMAIN incoming = 1..Len(incoming) /\ Len(incoming) \in Nat /\ Len(incoming) > 0
           /\ Head(incoming) = incoming[1]
           /\ IsSequence(Tail(incoming)) /\ Len(Tail(incoming)) = Len(incoming) - 1
           /\ DOMAIN Tail(incoming) = 1..(Len(incoming) - 1)
           /\ \A i \in 1..(Len(incoming) - 1) : Tail(incoming)[i] = incoming[i + 1]
<1>1. PICK t : t = Tail(incoming)
  OBVIOUS
<1>2. /\ IsSequence(t) /\ Len(t) = Len(incoming) - 1
      /\ Len(incoming) > 0 /\ Head(incoming) = incoming[1]
      /\ \A i \in 1..(Len(incoming) - 1) : t[i] = incoming[i + 1]
  BY <1>1, Popped DEF Reading
<1>3. DOMAIN t = 1..Len(t)
  BY <1>2, SequenceShape
<1> QED
  BY <1>1, <1>2, <1>3, SequenceShape DEF Reading

\* A server answers with blocks of its chain, which is a chain there is.
LEMMA ReadingNext == Reading /\ [StreamNext]_streamVars => Reading'
<1> SUFFICES ASSUME Reading, [StreamNext]_streamVars PROVE Reading'
  OBVIOUS
<1>0. IsSequence(<<>>) /\ DOMAIN <<>> = {}
  BY NoneIsSequence
<1>1. CASE Open \/ UNCHANGED streamVars
  <2>1. UNCHANGED <<source, kept, sink, incoming>>
    BY <1>1 DEF Open, streamVars
  <2> QED
    BY <2>1 DEF Reading
<1>2. CASE Resume
  <2>1. sink' = <<>> /\ UNCHANGED <<source, kept>>
    BY <1>2, Resumed
  <2>2. IsSequence(incoming') /\ \A i \in DOMAIN incoming' : incoming'[i].ok => OfChain(incoming'[i].msg)
    <3>1. CASE incoming' = <<>>
      BY <1>0, <3>1
    <3>2. CASE incoming' # <<>>
      <4>1. PICK msgs : /\ IsSequence(incoming')
                        /\ \A i \in DOMAIN incoming' : incoming'[i].ok =>
                              i \in DOMAIN msgs /\ incoming'[i].msg = msgs[i]
                        /\ ToSet(msgs) \subseteq ToSet(source.blocks)
        BY <1>2, <3>2, Resumed
      <4>2. \A i \in DOMAIN msgs : msgs[i] \in ToSet(source.blocks)
        BY <4>1 DEF ToSet
      <4> QED
        BY <4>1, <4>2 DEF OfChain, Reading
    <3> QED
      BY <3>1, <3>2
  <2> QED
    BY <1>0, <2>1, <2>2 DEF Reading
<1>3. CASE Deliver
  <2>1. PICK item : item = Head(incoming)
    OBVIOUS
  <2>2. /\ incoming # <<>> /\ UNCHANGED source
        /\ incoming' = Tail(incoming) \/ incoming' = <<>>
        /\ UNCHANGED kept \/ (item.ok /\ kept' = Append(kept, item.msg))
        /\ \/ UNCHANGED sink \/ sink' = Append(sink, BlockSummary(item.msg))
           \/ sink' = Append(sink, [on |-> "error"])
    BY <1>3, <2>1 DEF Deliver, Keep
  <2>3. /\ DOMAIN incoming = 1..Len(incoming) /\ Len(incoming) \in Nat /\ Len(incoming) > 0
        /\ item = incoming[1]
        /\ IsSequence(Tail(incoming))
        /\ DOMAIN Tail(incoming) = 1..(Len(incoming) - 1)
        /\ \A i \in 1..(Len(incoming) - 1) : Tail(incoming)[i] = incoming[i + 1]
    BY <2>1, <2>2, IncomingShape
  <2>4. IsSequence(incoming') /\ \A i \in DOMAIN incoming' : incoming'[i].ok => OfChain(incoming'[i].msg)
    <3>1. CASE incoming' = <<>>
      BY <1>0, <3>1
    <3>2. CASE incoming' = Tail(incoming)
      <4>1. ASSUME NEW i \in DOMAIN incoming', incoming'[i].ok PROVE OfChain(incoming'[i].msg)
        <5>1. i + 1 \in DOMAIN incoming /\ incoming'[i] = incoming[i + 1]
          BY <2>3, <3>2
        <5> QED
          BY <4>1, <5>1 DEF Reading
      <4> QED
        BY <2>3, <3>2, <4>1
    <3> QED
      BY <2>2, <3>1, <3>2
  <2>5. IsSequence(sink')
    <3>1. CASE UNCHANGED sink
      BY <3>1 DEF Reading
    <3>2. CASE ~UNCHANGED sink
      <4>1. PICK e : sink' = Append(sink, e)
        BY <2>2, <3>2
      <4> QED
        BY <4>1, Appended DEF Reading
    <3> QED
      BY <3>1, <3>2
  <2>6. IsSequence(kept') /\ \A i \in DOMAIN kept' : OfChain(kept'[i])
    <3>1. CASE UNCHANGED kept
      BY <3>1 DEF Reading
    <3>2. CASE item.ok /\ kept' = Append(kept, item.msg)
      <4>1. PICK b : b = item.msg
        OBVIOUS
      <4>2. OfChain(b)
        <5>1. 1 \in DOMAIN incoming
          BY <2>3
        <5> QED
          BY <2>3, <3>2, <4>1, <5>1 DEF Reading
      <4>3. /\ IsSequence(kept') /\ DOMAIN kept' = 1..(Len(kept) + 1)
            /\ DOMAIN kept = 1..Len(kept) /\ Len(kept) \in Nat
            /\ \A i \in 1..Len(kept) : kept'[i] = kept[i]
            /\ kept'[Len(kept) + 1] = b
        <5>1. kept' = Append(kept, b) /\ IsSequence(kept)
          BY <3>2, <4>1 DEF Reading
        <5> QED
          BY <5>1, Appended, SequenceShape
      <4>4. ASSUME NEW i \in DOMAIN kept' PROVE OfChain(kept'[i])
        <5>1. i \in DOMAIN kept \/ i = Len(kept) + 1
          BY <4>3
        <5> QED
          BY <4>2, <4>3, <5>1 DEF Reading
      <4> QED
        BY <4>3, <4>4
    <3> QED
      BY <2>2, <3>1, <3>2
  <2> QED
    BY <2>2, <2>4, <2>5, <2>6 DEF Reading
<1>4. CASE Complete
  <2>1. UNCHANGED <<source, kept, incoming>>
        /\ (UNCHANGED sink \/ sink' = Append(sink, [on |-> "complete"]))
    BY <1>4 DEF Complete
  <2>2. IsSequence(sink')
    <3>1. CASE UNCHANGED sink
      BY <3>1 DEF Reading
    <3>2. CASE ~UNCHANGED sink
      <4>1. PICK e : sink' = Append(sink, e)
        BY <2>1, <3>2
      <4> QED
        BY <4>1, Appended DEF Reading
    <3> QED
      BY <3>1, <3>2
  <2> QED
    BY <2>1, <2>2 DEF Reading
<1>5. CASE Reorganise
  <2>1. PICK blocks \in Chains : source' = [source EXCEPT !.blocks = blocks]
    BY <1>5 DEF Reorganise, ReplaceChain
  <2>2. UNCHANGED <<kept, sink, incoming>>
    BY <1>5 DEF Reorganise
  <2>3. IsSequence(blocks) /\ Rising(blocks)
    BY ChainShape
  <2>4. source'.blocks = blocks /\ IsServer(source')
    BY <2>1, <2>3 DEF Reading, IsServer, NewServer
  <2> QED
    BY <2>2, <2>4 DEF Reading
<1> QED
  BY <1>1, <1>2, <1>3, <1>4, <1>5 DEF StreamNext

\* Nothing is on its way at the start.
LEMMA ReadingInit == StreamInit => Reading
<1> SUFFICES ASSUME StreamInit PROVE Reading
  OBVIOUS
<1>1. PICK blocks \in Chains, break \in Breaks :
        source = [NewServer("canonical") EXCEPT !.blocks = blocks, !.faults = break.faults,
                                                !.streamFaults = break.streamFaults]
  BY DEF StreamInit
<1>2. IsSequence(blocks) /\ Rising(blocks)
  BY ChainShape
<1>3. \A rpc \in DOMAIN break.streamFaults : break.streamFaults[rpc].after \in Nat
  BY ChainsAssumption
<1>4. source.blocks = blocks /\ IsServer(source)
  <2>1. /\ source.blocks = blocks /\ source.streamFaults = break.streamFaults
        /\ source.mempoolTxs = <<>> /\ source.mempool = <<>> /\ source.utxos = <<>>
        /\ source.roots = <<>> /\ source.taddressTxs = <<>>
    BY <1>1 DEF NewServer
  <2>2. source = [field \in DOMAIN NewServer("canonical") |-> source[field]]
    BY <1>1 DEF NewServer
  <2>3. \A address \in DOMAIN source.taddressTxs : IsSequence(source.taddressTxs[address])
    BY <2>1
  <2>4. \A field \in {"blocks", "mempoolTxs", "mempool", "utxos", "roots"} : IsSequence(source[field])
    BY <1>2, <2>1, NoneIsSequence
  <2> QED
    BY <1>2, <1>3, <2>1, <2>2, <2>3, <2>4 DEF IsServer
<1> QED
  BY <1>4, NoneIsSequence DEF StreamInit, Reading

\* The block under one of a chain is of that chain: its hash is named there.
LEMMA Beneath ==
    ASSUME NEW blocks \in Chains, NEW y \in ToSet(blocks), NEW x, OfChain(x), IsContinuous(x, y)
    PROVE  x \in ToSet(blocks)
<1>1. PICK other \in Chains : x \in ToSet(other)
  BY DEF OfChain
<1>2. PICK i, j : i = x.height /\ j = y.height
  OBVIOUS
<1>3. /\ i \in 1..Len(other) /\ x = other[i]
      /\ j \in 1..Len(blocks) /\ y = blocks[j]
  BY <1>1, <1>2, BlockOfChain
<1>4. /\ Len(other) \in Nat /\ DOMAIN other = 1..Len(other)
      /\ Len(blocks) \in Nat /\ DOMAIN blocks = 1..Len(blocks)
  BY <1>1, ChainShape
<1>5. j - 1 = i /\ y.prevHash = x.hash
  BY <1>2 DEF IsContinuous
<1>6. j > 1 /\ j \in DOMAIN blocks /\ j - 1 \in DOMAIN blocks /\ i \in DOMAIN other
  BY <1>3, <1>4, <1>5
<1>7. blocks[j].prevHash = blocks[j - 1].hash
  BY <1>6, ChainsAssumption
<1>8. other[i] = blocks[j - 1]
  BY <1>1, <1>3, <1>5, <1>6, <1>7, ChainsAssumption
<1> QED
  BY <1>3, <1>6, <1>8 DEF ToSet

\* Each block a wallet keeps sits on the one before.
Linked ==
    reader = "wallet" =>
        /\ \A i \in 1..(Len(kept) - 1) : IsContinuous(kept[i], kept[i + 1])
        /\ KeptIsOneChain

\* A block the wallet accepts goes on one chain with those it keeps.
LEMMA OneBlockMore ==
    ASSUME Reading, Linked, reader = "wallet", UNCHANGED reader,
           NEW b, OfChain(b), Sits(b), kept' = Append(kept, b)
    PROVE  Linked'
<1>1. PICK blocks \in Chains : b \in ToSet(blocks)
  BY DEF OfChain
<1>2. PICK n \in Nat : n = Len(kept) /\ DOMAIN kept = 1..n
  BY SequenceShape DEF Reading
<1>3. /\ IsSequence(kept') /\ Len(kept') = n + 1 /\ DOMAIN kept' = 1..(n + 1)
      /\ \A i \in 1..n : kept'[i] = kept[i]
      /\ kept'[n + 1] = b
  BY <1>2, Appended, SequenceShape DEF Reading
<1>4. n > 0 => IsContinuous(kept[n], b)
  <2>1. n > 0 => kept # <<>>
    BY <1>2, NoneIsSequence
  <2> QED
    BY <1>2, <2>1 DEF Sits, Last
<1>5. ASSUME NEW i \in 1..n PROVE IsContinuous(kept'[i], kept'[i + 1])
  <2>1. CASE i = n
    BY <1>3, <1>4, <2>1
  <2>2. CASE i # n
    <3>1. i \in 1..(n - 1) /\ i + 1 \in 1..n
      BY <2>2
    <3>2. IsContinuous(kept[i], kept[i + 1])
      BY <1>2, <3>1 DEF Linked
    <3> QED
      BY <1>3, <3>1, <3>2
  <2> QED
    BY <2>1, <2>2
\* From the new block down, every block that is kept is of its chain.
<1> DEFINE In(i) == kept'[i] \in ToSet(blocks)
           T == {m \in 0..n : \A i \in 1..n : i > n - m => In(i)}
<1>6. 0 \in T
  OBVIOUS
<1>7. ASSUME NEW m \in 1..n, m - 1 \in T PROVE m \in T
  <2>1. PICK k : k = n - m + 1
    OBVIOUS
  <2>2. k \in 1..n /\ k + 1 \in 1..(n + 1)
    BY <2>1
  <2>3. kept'[k + 1] \in ToSet(blocks)
    <3>1. CASE k = n
      BY <1>1, <1>3, <3>1
    <3>2. CASE k # n
      <4>1. k + 1 \in 1..n /\ k + 1 > n - (m - 1)
        BY <2>1, <2>2, <3>2
      <4> QED
        BY <1>7, <4>1
    <3> QED
      BY <3>1, <3>2
  <2>4. OfChain(kept'[k])
    BY <1>2, <1>3, <2>2 DEF Reading
  <2>5. IsContinuous(kept'[k], kept'[k + 1])
    BY <1>5, <2>2
  <2>6. kept'[k] \in ToSet(blocks)
    BY <2>3, <2>4, <2>5, Beneath
  <2>7. ASSUME NEW i \in 1..n, i > n - m PROVE kept'[i] \in ToSet(blocks)
    <3>1. i = k \/ i > n - (m - 1)
      BY <2>1, <2>7
    <3> QED
      BY <1>7, <2>6, <3>1
  <2> HIDE DEF In
  <2>8. \A i \in 1..n : i > n - m => In(i)
    BY <2>7 DEF In
  <2> QED
    BY <2>8
<1>8. T \subseteq 0..n
  OBVIOUS
<1> HIDE DEF T
<1>9. T = 0..n
  BY <1>6, <1>7, <1>8, UpTo_n
<1>10. n \in T
  BY <1>9
<1>11. \A i \in 1..n : kept'[i] \in ToSet(blocks)
  <2> HIDE DEF In
  <2>1. \A i \in 1..n : i > n - n => In(i)
    BY <1>10 DEF T
  <2>2. \A i \in 1..n : In(i)
    BY <2>1
  <2> QED
    BY <2>2 DEF In
<1>12. \A i \in 1..(n + 1) : kept'[i] \in ToSet(blocks)
  BY <1>1, <1>3, <1>11
<1>13. KeptIsOneChain'
  BY <1>3, <1>12 DEF KeptIsOneChain, ToSet
<1> QED
  BY <1>3, <1>5, <1>13 DEF Linked

\* No step makes the wallet keep blocks of two chains.
LEMMA LinkedNext == Reading /\ Linked /\ [StreamNext]_streamVars => Linked'
<1> SUFFICES ASSUME Reading, Linked, [StreamNext]_streamVars PROVE Linked'
  OBVIOUS
<1>1. CASE UNCHANGED <<reader, kept>>
  BY <1>1 DEF Linked, KeptIsOneChain
<1>2. CASE Resume
  BY <1>1, <1>2, Resumed
<1>3. CASE Open \/ Complete \/ Reorganise \/ UNCHANGED streamVars
  BY <1>1, <1>3 DEF Open, Complete, Reorganise, streamVars
<1>4. CASE Deliver
  <2>1. PICK b : b = Head(incoming).msg
    OBVIOUS
  <2>2. /\ incoming # <<>> /\ UNCHANGED reader
        /\ \/ UNCHANGED kept
           \/ reader = "app"
           \/ Head(incoming).ok /\ Sits(b) /\ kept' = Append(kept, b)
    BY <1>4, <2>1 DEF Deliver, Keep
  <2>3. CASE reader # "wallet"
    BY <2>2, <2>3 DEF Linked, KeptIsOneChain
  <2>4. CASE reader = "wallet" /\ ~UNCHANGED kept
    <3>1. Head(incoming).ok /\ Sits(b) /\ kept' = Append(kept, b)
      BY <2>2, <2>4
    <3>2. 1 \in DOMAIN incoming /\ Head(incoming) = incoming[1]
      BY <2>2, IncomingShape
    <3>3. OfChain(b)
      BY <2>1, <3>1, <3>2 DEF Reading
    <3> QED
      BY <2>2, <2>4, <3>1, <3>3, OneBlockMore
  <2> QED
    BY <1>1, <2>2, <2>3, <2>4
<1> QED
  BY <1>2, <1>3, <1>4 DEF StreamNext

\* The blocks a wallet keeps under the continuity rule are blocks of one chain
\* the server served, however often it was reorganised in between (is_continuous
\* and the trait's hash and prev_hash): for every set of chains in which a hash
\* names one block.
THEOREM KeptAlwaysOneChain == StreamSpec => []KeptIsOneChain
<1>1. StreamInit => Reading /\ Linked
  <2> SUFFICES ASSUME StreamInit PROVE Reading /\ Linked
    OBVIOUS
  <2>1. Reading
    BY ReadingInit
  <2>2. kept = <<>> /\ Len(kept) = 0 /\ DOMAIN kept = {}
    BY NoneIsSequence DEF StreamInit
  <2>3. Linked
    BY <2>1, <2>2 DEF Linked, KeptIsOneChain, Reading
  <2> QED
    BY <2>1, <2>3
<1>2. Reading /\ Linked /\ [StreamNext]_streamVars => Reading' /\ Linked'
  BY ReadingNext, LinkedNext
<1>3. Linked => KeptIsOneChain
  BY DEF Linked, KeptIsOneChain
<1> QED
  BY <1>1, <1>2, <1>3, PTL DEF StreamSpec

\* While a call runs an app has heard blocks of rising, or falling, heights
\* with none left out, and what is on its way goes on from the last of them.
Heard ==
    reader = "app" /\ ret = "running" =>
        LET d == Direction(range[1], range[2])
        IN  /\ \A i \in 1..(Len(sink) - 1) : sink[i + 1].height = sink[i].height + d
            /\ \A i \in 1..(Len(incoming) - 1) : incoming[i].ok /\ incoming[i + 1].ok =>
                  incoming[i + 1].msg.height = incoming[i].msg.height + d
            /\ sink # <<>> /\ incoming # <<>> /\ incoming[1].ok =>
                  incoming[1].msg.height = sink[Len(sink)].height + d

Endings == Heard /\ OneEnding

\* What one callback more does to those heard, one by one.
LEMMA SinkHears ==
    ASSUME Reading, NEW e, sink' = Append(sink, e)
    PROVE  \E n \in Nat :
              /\ n = Len(sink) /\ DOMAIN sink = 1..n
              /\ Len(sink') = n + 1 /\ DOMAIN sink' = 1..(n + 1) /\ sink' # <<>>
              /\ \A i \in 1..n : sink'[i] = sink[i]
              /\ sink'[n + 1] = e
              /\ Ends = {} => Ends' = IF e.on \in {"error", "complete"} THEN {n + 1} ELSE {}
<1>1. PICK n \in Nat : n = Len(sink) /\ DOMAIN sink = 1..n
  BY SequenceShape DEF Reading
<1>2. /\ Len(sink') = n + 1 /\ DOMAIN sink' = 1..(n + 1)
      /\ \A i \in 1..n : sink'[i] = sink[i]
      /\ sink'[n + 1] = e
  BY <1>1, Appended, SequenceShape DEF Reading
<1>3. sink' # <<>>
  BY <1>2, NoneIsSequence
<1>4. ASSUME Ends = {} PROVE Ends' = IF e.on \in {"error", "complete"} THEN {n + 1} ELSE {}
  <2>1. \A i \in 1..n : sink[i].on \notin {"error", "complete"}
    BY <1>1, <1>4 DEF Ends
  <2>2. \A i \in 1..(n + 1) : i \in 1..n \/ i = n + 1
    OBVIOUS
  <2>3. n + 1 \in 1..(n + 1)
    OBVIOUS
  <2> QED
    BY <1>2, <2>1, <2>2, <2>3 DEF Ends
<1> QED
  BY <1>1, <1>2, <1>3, <1>4

\* A call that begins ends no call twice.
LEMMA EndingsResume == Reading /\ Resume => Endings'
<1> SUFFICES ASSUME Reading, Resume PROVE Endings'
  OBVIOUS
<1>1. PICK start \in Nat, end \in Nat :
        /\ range' = <<start, end>> /\ sink' = <<>>
        /\ \/ ret' = "error" /\ incoming' = <<>>
           \/ /\ ret' = "running"
              /\ \E msgs : /\ IsSequence(incoming') /\ IsSequence(msgs)
                           /\ \A i \in DOMAIN incoming' : incoming'[i].ok =>
                                 i \in DOMAIN msgs /\ incoming'[i].msg = msgs[i]
                           /\ ToSet(msgs) \subseteq ToSet(source.blocks)
                           /\ Steps(msgs, Direction(start, end))
  BY Resumed
<1>2. Ends' = {} /\ Len(sink') = 0
  BY <1>1, NoneIsSequence DEF Ends
<1>3. OneEnding'
  BY <1>1, <1>2 DEF OneEnding
<1>4. ret' = "running" => \A i \in 1..(Len(incoming') - 1) :
        incoming'[i].ok /\ incoming'[i + 1].ok =>
            incoming'[i + 1].msg.height = incoming'[i].msg.height + Direction(start, end)
  <2> SUFFICES ASSUME ret' = "running", NEW i \in 1..(Len(incoming') - 1),
                      incoming'[i].ok, incoming'[i + 1].ok
               PROVE  incoming'[i + 1].msg.height = incoming'[i].msg.height + Direction(start, end)
    OBVIOUS
  <2>1. PICK msgs : /\ IsSequence(incoming') /\ IsSequence(msgs)
                    /\ \A k \in DOMAIN incoming' : incoming'[k].ok =>
                          k \in DOMAIN msgs /\ incoming'[k].msg = msgs[k]
                    /\ Steps(msgs, Direction(start, end))
    BY <1>1
  <2>2. DOMAIN incoming' = 1..Len(incoming') /\ Len(incoming') \in Nat
        /\ DOMAIN msgs = 1..Len(msgs) /\ Len(msgs) \in Nat
    BY <2>1, SequenceShape
  <2>3. i \in DOMAIN incoming' /\ i + 1 \in DOMAIN incoming'
    BY <2>2
  <2>4. i \in DOMAIN msgs /\ i + 1 \in DOMAIN msgs
        /\ incoming'[i].msg = msgs[i] /\ incoming'[i + 1].msg = msgs[i + 1]
    BY <2>1, <2>3
  <2>5. i \in 1..(Len(msgs) - 1)
    BY <2>2, <2>4
  <2> QED
    BY <2>1, <2>4, <2>5 DEF Steps
<1>5. Heard'
  <2>1. range'[1] = start /\ range'[2] = end
    BY <1>1
  <2> QED
    BY <1>1, <1>2, <1>4, <2>1 DEF Heard
<1> QED
  BY <1>3, <1>5 DEF Endings

\* An item is heard by the call it was sent to, which has not ended.
LEMMA EndingsDeliver == Reading /\ Endings /\ Deliver => Endings'
<1> SUFFICES ASSUME Reading, Endings, Deliver PROVE Endings'
  OBVIOUS
<1>1. PICK item : item = Head(incoming)
  OBVIOUS
<1>2. ret = "running" /\ incoming # <<>> /\ UNCHANGED <<reader, range>>
  BY DEF Deliver
<1>3. CASE reader # "app"
  BY <1>2, <1>3 DEF Endings, Heard, OneEnding
<1>4. CASE reader = "app" /\ ~item.ok
  <2>1. sink' = Append(sink, [on |-> "error"]) /\ ret' = "ok"
    BY <1>1, <1>4 DEF Deliver
  <2>2. Ends = {}
    BY <1>2, <1>4 DEF Endings, OneEnding
  <2>3. PICK e : e = [on |-> "error"]
    OBVIOUS
  <2>4. PICK n \in Nat : Len(sink') = n + 1 /\ sink'[n + 1] = e
                         /\ Ends' = IF e.on \in {"error", "complete"} THEN {n + 1} ELSE {}
    BY <2>1, <2>2, <2>3, SinkHears
  <2> QED
    BY <1>2, <1>4, <2>1, <2>3, <2>4 DEF Endings, Heard, OneEnding
<1>5. CASE reader = "app" /\ item.ok
  <2>1. PICK e : e = BlockSummary(item.msg)
    OBVIOUS
  <2>2. sink' = Append(sink, e) /\ incoming' = Tail(incoming) /\ ret' = ret
    BY <1>1, <1>5, <2>1 DEF Deliver
  <2>3. e.on = "block" /\ e.height = item.msg.height
    BY <2>1 DEF BlockSummary
  <2>4. PICK d : d = Direction(range[1], range[2])
    OBVIOUS
  <2>5. /\ Ends = {}
        /\ \A i \in 1..(Len(sink) - 1) : sink[i + 1].height = sink[i].height + d
        /\ \A i \in 1..(Len(incoming) - 1) : incoming[i].ok /\ incoming[i + 1].ok =>
              incoming[i + 1].msg.height = incoming[i].msg.height + d
        /\ sink # <<>> /\ incoming[1].ok => incoming[1].msg.height = sink[Len(sink)].height + d
    BY <1>2, <1>5, <2>4 DEF Endings, Heard, OneEnding
  <2>6. PICK n \in Nat : /\ n = Len(sink) /\ DOMAIN sink = 1..n
                         /\ Len(sink') = n + 1 /\ sink' # <<>>
                         /\ \A i \in 1..n : sink'[i] = sink[i]
                         /\ sink'[n + 1] = e
                         /\ Ends' = {}
    BY <2>2, <2>3, <2>5, SinkHears
  <2>7. PICK k \in Nat : /\ k = Len(incoming) /\ k > 0 /\ item = incoming[1]
                         /\ Len(incoming') = k - 1 /\ DOMAIN incoming' = 1..(k - 1)
                         /\ \A i \in 1..(k - 1) : incoming'[i] = incoming[i + 1]
    BY <1>1, <1>2, <2>2, IncomingShape
  <2>8. ASSUME NEW i \in 1..n PROVE sink'[i + 1].height = sink'[i].height + d
    <3>1. CASE i = n
      <4>1. sink # <<>>
        BY <2>6, <3>1, NoneIsSequence
      <4>2. incoming[1].msg.height = sink[n].height + d
        BY <1>5, <2>5, <2>6, <2>7, <4>1
      <4>3. sink'[n + 1].height = incoming[1].msg.height /\ sink'[n] = sink[n]
        BY <2>3, <2>6, <2>7, <3>1
      <4> QED
        BY <3>1, <4>2, <4>3
    <3>2. CASE i # n
      <4>1. i \in 1..(n - 1) /\ i + 1 \in 1..n
        BY <3>2
      <4>2. sink[i + 1].height = sink[i].height + d
        BY <2>5, <2>6, <4>1
      <4> QED
        BY <2>6, <4>1, <4>2
    <3> QED
      BY <3>1, <3>2
  <2>9. ASSUME NEW i \in 1..(k - 1 - 1), incoming'[i].ok, incoming'[i + 1].ok
        PROVE  incoming'[i + 1].msg.height = incoming'[i].msg.height + d
    <3>1. i + 1 \in 1..(k - 1) /\ i \in 1..(k - 1)
      OBVIOUS
    <3>2. incoming'[i] = incoming[i + 1] /\ incoming'[i + 1] = incoming[(i + 1) + 1]
      BY <2>7, <3>1
    <3> QED
      BY <2>5, <2>7, <2>9, <3>1, <3>2
  <2>10. ASSUME incoming' # <<>>, incoming'[1].ok
         PROVE  incoming'[1].msg.height = sink'[n + 1].height + d
    <3>1. k - 1 > 0
      <4>1. CASE k - 1 = 0
        <5>1. IsSequence(incoming') /\ Len(incoming') = 0
          BY <1>2, <2>2, <2>7, <4>1, IncomingShape
        <5>2. PICK q : q = incoming'
          OBVIOUS
        <5> QED
          BY <2>10, <5>1, <5>2, Popped
      <4> QED
        BY <2>7, <4>1
    <3>2. 1 \in 1..(k - 1) /\ incoming'[1] = incoming[1 + 1]
      BY <2>7, <3>1
    <3>3. incoming[1 + 1].msg.height = incoming[1].msg.height + d
      BY <1>5, <2>5, <2>7, <2>10, <3>2
    <3> QED
      BY <2>3, <2>6, <2>7, <3>2, <3>3
  <2>11. Heard'
    BY <1>2, <2>4, <2>6, <2>7, <2>8, <2>9, <2>10 DEF Heard
  <2>12. OneEnding'
    BY <1>2, <2>2, <2>6 DEF OneEnding
  <2> QED
    BY <2>11, <2>12 DEF Endings
<1> QED
  BY <1>3, <1>4, <1>5

\* The end of the stream ends its call, once.
LEMMA EndingsComplete == Reading /\ Endings /\ Complete => Endings'
<1> SUFFICES ASSUME Reading, Endings, Complete PROVE Endings'
  OBVIOUS
<1>1. /\ ret = "running" /\ ret' = "ok" /\ UNCHANGED <<reader, range>>
      /\ reader = "app" => sink' = Append(sink, [on |-> "complete"])
  BY DEF Complete
<1>2. CASE reader # "app"
  BY <1>1, <1>2 DEF Endings, Heard, OneEnding
<1>3. CASE reader = "app"
  <2>1. PICK e : e = [on |-> "complete"]
    OBVIOUS
  <2>2. PICK d : d = IF range[1] <= range[2] THEN 1 ELSE -1
    OBVIOUS
  <2>3. Ends = {} /\ \A i \in 1..(Len(sink) - 1) : sink[i + 1].height = sink[i].height + d
    BY <1>1, <1>3, <2>2 DEF Endings, Heard, OneEnding, Direction
  <2>4. PICK n \in Nat : /\ n = Len(sink) /\ Len(sink') = n + 1
                         /\ \A i \in 1..n : sink'[i] = sink[i]
                         /\ Ends' = {n + 1}
    BY <1>1, <1>3, <2>1, <2>3, SinkHears
  <2>5. \A i \in 1..(n + 1 - 2) : sink'[i + 1].height = sink'[i].height + d
    <3>1. ASSUME NEW i \in 1..(n + 1 - 2) PROVE sink'[i + 1].height = sink'[i].height + d
      <4>1. i \in 1..(n - 1) /\ i \in 1..n /\ i + 1 \in 1..n
        OBVIOUS
      <4> QED
        BY <2>3, <2>4, <4>1
    <3> QED
      BY <3>1
  <2>6. \A i \in 1..(Len(sink') - 2) :
           sink'[i + 1].height = sink'[i].height + (IF range'[1] <= range'[2] THEN 1 ELSE -1)
    BY <1>1, <2>2, <2>4, <2>5
  <2>7. Ends' = {Len(sink')}
    BY <2>4
  <2>8. OneEnding'
    BY <1>1, <2>6, <2>7 DEF OneEnding
  <2> QED
    BY <1>1, <2>8 DEF Endings, Heard
<1> QED
  BY <1>2, <1>3

\* No step lets a call hear anything after its ending.
LEMMA EndingsNext == Reading /\ Endings /\ [StreamNext]_streamVars => Endings'
<1> SUFFICES ASSUME Reading, Endings, [StreamNext]_streamVars PROVE Endings'
  OBVIOUS
<1>1. CASE Open \/ Reorganise \/ UNCHANGED streamVars
  <2>1. UNCHANGED <<reader, ret, sink, incoming, range>>
    BY <1>1 DEF Open, Reorganise, streamVars
  <2> QED
    BY <2>1 DEF Endings, Heard, OneEnding, Ends
<1> QED
  BY <1>1, EndingsResume, EndingsDeliver, EndingsComplete DEF StreamNext

\* A sink hears exactly one ending of a call that returned Ok, as the last
\* thing it hears, and none of a call that returned an error; and on_complete
\* comes only after the blocks of the range with none left out
\* (stream_block_range of the bindings): for every chain and every fault.
THEOREM AlwaysOneEnding == StreamSpec => []OneEnding
<1>1. StreamInit => Reading /\ Endings
  <2> SUFFICES ASSUME StreamInit PROVE Reading /\ Endings
    OBVIOUS
  <2>1. Reading
    BY ReadingInit
  <2>2. ret = "none"
    BY DEF StreamInit
  <2>3. Endings
    BY <2>2 DEF Endings, Heard, OneEnding
  <2> QED
    BY <2>1, <2>3
<1>2. Reading /\ Endings /\ [StreamNext]_streamVars => Reading' /\ Endings'
  BY ReadingNext, EndingsNext
<1>3. Endings => OneEnding
  BY DEF Endings
<1> QED
  BY <1>1, <1>2, <1>3, PTL DEF StreamSpec
============================================================================
