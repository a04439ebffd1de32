------------------------------- MODULE MCParts -------------------------------
(***************************************************************************)
(* Model-checking instance of the parts that share no state with another:  *)
(* the explorer's lists and its search bar, lwcli, a consumer of the       *)
(* foreign bindings, and a wallet that makes channels.  One of them runs   *)
(* in a behaviour, the others stay as they start.                          *)
(***************************************************************************)
EXTENDS Lwcli, BlockStream, Domains, Dashboard, SearchBar

CONSTANT Parts      \* the parts that may run
VARIABLE part

explorerVars == <<dashVars, barVars>>
clientVars == <<lwcliVars, streamVars, domainVars>>
partVars == <<part, explorerVars, clientVars>>

------------------------------------------------------------------------------
\* Transactions: one that spends an output nobody looks up, a sapling spend with
\* a clear output, a JoinSplit with a clear output, one in every action pool, a
\* bond, a withdrawal, and bytes that are no transaction.
Plain == [version |-> "V4", id |-> <<0, 0>>, own |-> 0, vin |-> <<>>, funds |-> <<>>,
          vout |-> <<>>, bundles |-> [p \in TxPools |-> NoBundle], staking |-> NoStake]
Bundle(takes, makes, spends, outputs) ==
    [takes |-> takes, makes |-> makes, spends |-> spends, outputs |-> outputs]
Stake(kind, amount) == [kind |-> kind, bond |-> "b", amount |-> amount, finalizer |-> "f"]
Funded == [Plain EXCEPT !.id = <<1, 2>>, !.vin = <<[prev |-> <<5, 6>>, index |-> 0]>>,
                        !.funds = <<5>>, !.vout = <<3>>]
Unshield == [Plain EXCEPT !.id = <<3, 4>>, !.vout = <<2>>,
                          !.bundles["sapling"] = Bundle(5, 2, 1, 0)]
Pools == [Plain EXCEPT !.id = <<5, 7>>, !.version = "V6", !.own = 2,
                       !.bundles["sapling"] = Bundle(0, 1, 0, 1),
                       !.bundles["orchard"] = Bundle(4, 1, 2, 2),
                       !.bundles["ironwood"] = Bundle(2, 3, 1, 1)]
LeaveSprout == [Plain EXCEPT !.id = <<7, 9>>, !.vout = <<3>>,
                             !.bundles["sprout"] = Bundle(4, 0, 2, 2)]
Bonded(id, kind) == [Plain EXCEPT !.id = id, !.version = "V7", !.own = 2,
                                  !.bundles["orchard"] = Bundle(4, 1, 1, 1),
                                  !.staking = Stake(kind, 1)]
Garbage == [Plain EXCEPT !.id = <<9, 8>>, !.version = "garbage"]
Kinds == <<"create", "begin", "withdraw", "retarget", "register", "convert", "update">>
StakeTxs == [i \in 1..7 |-> Bonded(<<10, i>>, Kinds[i])]
MCRaws == {Funded, Unshield, LeaveSprout, Pools, Garbage} \cup {StakeTxs[i] : i \in 1..7}
MCPool == {Unshield, Garbage}

MCSchedule == [main |-> <<1, 4>>, test |-> <<1, 1>>]

------------------------------------------------------------------------------
Dump(raws) == [i \in DOMAIN raws |-> [data |-> raws[i], height |-> 0]]
Mined(raw, height) == [data |-> raw.id, height |-> height]
Base ==
    [NewServer("crosslink") EXCEPT
        !.blocks = LinkedBlocks(1, 1, 3),
        !.trees = [h \in 1..2 |-> [height |-> h]],
        !.transactions = [t \in {raw.id : raw \in MCRaws} |-> [data |-> t, height |-> 2]],
        !.taddressTxs = [a \in {"t1"} |-> <<Mined(Funded, 1), Mined(Pools, 2)>>],
        !.balance = 7,
        !.mempoolTxs = <<[txid |-> <<1, 2>>], [txid |-> <<3, 4>>]>>,
        !.mempool = Dump(<<Funded>>),
        !.utxos = <<[txid |-> <<1, 2>>, height |-> 1], [txid |-> <<3, 4>>, height |-> 2]>>,
        !.roots = <<[rootHash |-> <<1, 1>>, completingBlockHash |-> <<1, 2>>],
                    [rootHash |-> <<2, 1>>, completingBlockHash |-> <<1, 3>>]>>,
        !.info = [chain |-> "mainnet", branch |-> "c8e7", sapling |-> 1, pending |-> "nu",
                  pendingHeight |-> 4],
        !.roster = <<7, 8>>,
        !.bonds = [k \in {<<6, 6>>} |-> [amount |-> 1]],
        !.faucet = 3]
Rpcs == {"GetLatestBlock", "GetBlock", "GetBlockRange", "GetTransaction", "SendTransaction",
         "GetTaddressTransactions", "GetTaddressTxids", "GetTaddressBalance",
         "GetTaddressBalanceStream", "GetMempoolTx", "GetMempoolStream", "GetTreeState",
         "GetLatestTreeState", "GetSubtreeRoots", "GetAddressUtxos", "GetAddressUtxosStream",
         "GetLightdInfo", "Ping", "GetRoster", "GetBondInfo", "RequestFaucetDonation"}
MCServers ==
    {Base, NewServer("canonical"),
     [Base EXCEPT !.variant = "canonical", !.info.chain = "featurenet", !.info.pending = ""],
     [Base EXCEPT !.info.branch = "not hex"],
     [Base EXCEPT !.info.chain = "test",
                  !.mempool = Dump(<<Pools, StakeTxs[1], StakeTxs[3], StakeTxs[6],
                                        LeaveSprout>>)]}
      \cup {[Base EXCEPT !.faults = [r \in {rpc} |-> "unavailable"]] : rpc \in Rpcs}
      \cup {[Base EXCEPT !.streamFaults =
                [r \in Rpcs |-> [after |-> n, status |-> "deadline_exceeded"]]] : n \in 0..1}

\* A fault of an RPC that get-mempool-stream does not use is no fault to it.
ForStream(s) ==
    /\ s.variant = "crosslink"
    /\ DOMAIN s.faults \subseteq {"GetLightdInfo", "GetLatestBlock", "GetMempoolStream"}

------------------------------------------------------------------------------
Cmd(cmd, arg) == [cmd |-> cmd, arg |-> arg, variant |-> None, transport |-> None,
                  nymSocks5 |-> FALSE, url |-> "https", output |-> "json"]
Hex(bytes) == [hex |-> TRUE, bytes |-> bytes]
NotHex == [hex |-> FALSE, bytes |-> <<>>]
Nothing == [none |-> TRUE]
Page(start, max) == [start |-> start, max |-> max]
Span(start, end) == [start |-> start, end |-> end]
At(height) == [height |-> height]
Of(start, end) == [address |-> "t1", start |-> start, end |-> end]
Stream1(follow, count) == [follow |-> follow, blocks |-> count]
Crosslink(c) == [c EXCEPT !.variant = "crosslink"]

Plainly ==
    {Cmd("get-latest-height", Nothing), Cmd("get-block", At(2)), Cmd("get-block", At(9)),
     Cmd("get-block-range", Span(1, 3)), Cmd("get-block-range", Span(3, 1)),
     Cmd("get-tree-state", At(2)), Cmd("get-latest-tree-state", Nothing),
     Cmd("get-transaction", [txid |-> Hex(<<2, 1>>)]),
     Cmd("get-transaction", [txid |-> Hex(<<9>>)]),
     Cmd("send-transaction", [tx |-> Hex(<<4, 4>>)]), Cmd("send-transaction", [tx |-> NotHex]),
     Cmd("get-taddress-transactions", Of(1, 1)), Cmd("get-taddress-txids", Of(1, 9)),
     Cmd("get-taddress-balance", [addresses |-> <<"t1">>]),
     Cmd("get-taddress-balance-stream", [addresses |-> <<"t1", "t2">>]),
     Cmd("get-mempool-tx", [exclude |-> {}]), Cmd("get-mempool-tx", [exclude |-> {Hex(<<2>>)}]),
     Cmd("get-mempool-tx", [exclude |-> {NotHex}]),
     Cmd("get-subtree-roots", Page(1, 0)), Cmd("get-address-utxos", Page(0, 0)),
     Cmd("get-address-utxos-stream", Page(0, 1)), Cmd("get-lightd-info", Nothing),
     Cmd("ping", Nothing), Cmd("get-block-nullifiers", At(1)),
     Cmd("get-block-range-nullifiers", Span(1, 2)), Cmd("completions", Nothing),
     Crosslink(Cmd("get-roster", Nothing)),
     Crosslink(Cmd("get-bond-info", [key |-> Hex(<<6, 6>>)])),
     Crosslink(Cmd("get-bond-info", [key |-> NotHex])),
     Crosslink(Cmd("request-faucet-donation", [address |-> "u1"])),
     Cmd("get-roster", Nothing)}
Streams == {Cmd("get-mempool-stream", Stream1(f, b)) : f \in {TRUE}, b \in 0..2}
             \cup {Cmd("get-mempool-stream", Stream1(FALSE, 0))}
MCInvocations ==
    Plainly \cup {[c EXCEPT !.output = "debug"] : c \in Plainly}
      \cup Streams
      \cup {[c EXCEPT !.output = "human"] :
                c \in {d \in Streams : d.arg.blocks = 1 \/ ~d.arg.follow}}
      \cup {[c EXCEPT !.output = "debug"] : c \in Streams}
      \cup {[Cmd("ping", Nothing) EXCEPT !.transport = t, !.nymSocks5 = s, !.url = u] :
                t \in {None, "direct", "tor", "nym"}, s \in BOOLEAN,
                u \in {None, "invalid", "https"}}

------------------------------------------------------------------------------
\* Two chains that part after the first block.
MCChains == {LinkedBlocks(1, 1, 3),
             <<LinkedBlocks(1, 1, 1)[1]>>
               \o <<[height |-> 2, hash |-> <<2, 2>>, prevHash |-> <<1, 1>>],
                    [height |-> 3, hash |-> <<2, 3>>, prevHash |-> <<2, 2>>]>>,
             LinkedBlocks(1, 1, 1)}
NoFaults == [faults |-> <<>>, streamFaults |-> <<>>]
MCBreaks == {NoFaults, [NoFaults EXCEPT !.faults = [r \in {"GetBlockRange"} |-> "internal"]]}
      \cup {[NoFaults EXCEPT !.streamFaults =
               [r \in {"GetBlockRange"} |-> [after |-> n, status |-> "unavailable"]]] : n \in 0..2}

MCUris == {[scheme |-> "https", host |-> "h", port |-> 0],
           [scheme |-> "grpc", host |-> "h", port |-> 0]}

------------------------------------------------------------------------------
\* Three heights with two competing times each: a fork has a block of the same
\* height and another time, and equal times at different heights occur.
MCBlock == [height : 1..3, time : 1..2]
MCBoundaries == {[tip |-> 0, mined |-> NoTime], [tip |-> 3, mined |-> 1]}
MCSamples == {[blockHeight |-> 3, estimatedHeight |-> e] : e \in {0, 6}}

MCChars == {<<"letter">>, <<Space>>, <<"lead", "tail">>}

------------------------------------------------------------------------------
NoInvocation == [Cmd("completions", Nothing) EXCEPT !.cmd = "idle"]
LwcliIdle == /\ cli = NoInvocation /\ pc = "idle" /\ server = NewServer("canonical")
             /\ exit = None /\ pipe = TRUE /\ rpcs = <<>> /\ items = <<>> /\ out = <<>>
             /\ chain = None /\ tip = 0 /\ seen = {} /\ boundaries = 0
StreamIdle == /\ reader = "none" /\ conn = "idle" /\ ret = "none" /\ calls = 0
              /\ source = NewServer("canonical")
              /\ range = <<>> /\ incoming = <<>> /\ sink = <<>> /\ kept = <<>>

Init == /\ part \in Parts
        /\ DashInit /\ BarInit /\ DomainInit
        /\ IF part = "lwcli"
           THEN LwcliInit /\ (cli.cmd = "get-mempool-stream" => ForStream(server))
           ELSE LwcliIdle
        /\ IF part = "bindings" THEN StreamInit ELSE StreamIdle

\* The lists are checked in three parts, each with the steps its properties
\* are about, so that their states do not multiply.
ListNext == \/ part = "tail" /\ TailNext
            \/ part = "pool" /\ PoolNext
            \/ part = "header" /\ HeaderNext

Next == /\ UNCHANGED part
        /\ \/ ListNext /\ UNCHANGED <<barVars, clientVars>>
           \/ part = "search bar" /\ BarNext /\ UNCHANGED <<dashVars, clientVars>>
           \/ part = "lwcli" /\ LwcliNext /\ UNCHANGED <<explorerVars, streamVars, domainVars>>
           \/ part = "bindings" /\ StreamNext /\ UNCHANGED <<explorerVars, lwcliVars, domainVars>>
           \/ part = "wallet" /\ DomainNext /\ UNCHANGED <<explorerVars, lwcliVars, streamVars>>

\* lwcli runs on, and the server closes a stream at its next block.
Fairness ==
  WF_partVars(part = "lwcli" /\ LwcliStep
                /\ UNCHANGED <<part, explorerVars, streamVars, domainVars>>)
Spec == Init /\ [][Next]_partVars /\ Fairness
==============================================================================
