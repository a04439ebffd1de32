------------------------------ MODULE TxView ------------------------------
(***************************************************************************)
(* The transaction projection both tools read through (tools/txview):      *)
(* which consensus branch a height decodes under, what parse() reads off   *)
(* the bytes, what resolve() adds, and the two forms a view is printed in. *)
(*                                                                         *)
(* The bytes of a transaction are a record of the facts the view depends   *)
(* on: its id and version, the branch a V5 or later names for itself, the  *)
(* outputs it spends and makes, one bundle per shielded pool (the value it *)
(* takes and makes, and how many spends and outputs it shows; for Sprout,  *)
(* that of its JoinSplits) and its staking action; funds is what the       *)
(* outputs it spends are worth, which the bytes do not say.  Keys, scripts *)
(* commitments and ciphertexts are left out: they are copied to the view   *)
(* and nothing depends on them.                                            *)
(*                                                                         *)
(* An operator whose name starts with Bug is a slip one could make in the  *)
(* one after it; no specification uses it.                                 *)
(***************************************************************************)
EXTENDS Integers, Sequences, FiniteSets, SequencesExt

CONSTANT Schedule   \* the activation heights of a canonical network

Featurenet == "featurenet"
None == "none"
NoTxid == <<>>
NoStake == [kind |-> None]
NoBundle == [takes |-> 0, makes |-> 0, spends |-> 0, outputs |-> 0]

\* The shielded pools that parse() reads.
ShieldedPools == <<"sapling", "orchard", "ironwood">>

\* Those a transaction may touch: Transaction::read accepts the Sprout
\* JoinSplits of V2 to V4 as well, and parse() does not look at them.
TxPools == {"sprout", "sapling", "orchard", "ironwood"}
JoinSplitVersions == {"V2", "V3", "V4"}

\* Every upgrade of a featurenet is active from block 1.
ActivationHeights(chain) ==
    IF chain = Featurenet THEN [i \in 1..10 |-> 1] ELSE Schedule[chain]

\* ChainParams::canonical, and the fallback both tools use for another name.
ChainOf(name) ==
    CASE name \in {"main", "mainnet"} -> "main"
      [] name \in {"test", "testnet"} -> "test"
      [] OTHER -> Featurenet

\* The branch is named by the number of upgrades active: 0 is Sprout.
BranchAt(chain, height) ==
    Cardinality({i \in DOMAIN ActivationHeights(chain) :
                    ActivationHeights(chain)[i] <= height})

\* What Transaction::read makes of the bytes: a V5 or later names its branch,
\* an earlier version is read under the one it is given.
Readable(raw) == raw.version # "garbage"
BranchRead(raw, branch) == IF raw.version \in {"V5", "V6", "V7"} THEN raw.own ELSE branch
Txid(raw) == Reverse(raw.id)    \* shown in display order

Sum(values) ==
    LET upto[i \in 0..Len(values)] == IF i = 0 THEN 0 ELSE upto[i - 1] + values[i]
    IN  upto[Len(values)]

\* What a staking action moves: a create bonds value out, a withdraw brings it
\* back, and the other five move nothing whether they name an amount or not.
Contribution(stake) ==
    CASE stake.kind = "create" -> 0 - stake.amount
      [] stake.kind = "withdraw" -> stake.amount
      [] OTHER -> 0

\* The kinds that carry an amount and a finalizer, in the view as on the wire.
\* this_finalizer and target_finalizer land in one field.
ProjectStaking(action) ==
    [kind      |-> action.kind,
     bond      |-> action.bond,
     amount    |-> IF action.kind \in {"create", "withdraw", "convert"}
                   THEN action.amount ELSE 0,
     finalizer |-> IF action.kind \in {"create", "retarget", "convert", "update"}
                   THEN action.finalizer ELSE None,
     second    |-> action.kind \in {"convert", "update"}]

\* The entries of a staking object: a field the action lacks is left out.
StakingKeys(stake) ==
    {"kind", "bond_id", "challenge", "signature"}
      \cup (IF stake.finalizer # None THEN {"target_finalizer"} ELSE {})
      \cup (IF stake.kind \in {"create", "withdraw", "convert"} THEN {"amount_zat"} ELSE {})
      \cup (IF stake.second THEN {"second_challenge", "finalizer_signature"} ELSE {})

\* A sapling bundle shows on a side only when it has items there; an action
\* bundle shows on both.
ShowsOn(raw, pool, side) ==
    raw.bundles[pool] # NoBundle /\ (pool = "sapling" => raw.bundles[pool][side] > 0)

InputPools(raw) ==
    (IF raw.vin # <<>> THEN <<"transparent">> ELSE <<>>)
      \o SelectSeq(ShieldedPools, LAMBDA pool : ShowsOn(raw, pool, "spends"))

OutputPools(raw) ==
    (IF raw.vout # <<>> THEN <<"transparent">> ELSE <<>>)
      \o SelectSeq(ShieldedPools, LAMBDA pool : ShowsOn(raw, pool, "outputs"))

\* The value balance a bundle states: what its spends bring in, less what its
\* outputs take.  Each of the two is hidden; only the difference is on the wire.
\* A pool without a bundle states none.
BalanceOf(raw, pool) == raw.bundles[pool].takes - raw.bundles[pool].makes

Staked(raw) == IF raw.staking = NoStake THEN NoStake ELSE ProjectStaking(raw.staking)

\* The net value that leaves the shielded pools it reads and the bond.
BugValueBalance(raw) ==
    BalanceOf(raw, "sapling") + BalanceOf(raw, "orchard") + BalanceOf(raw, "ironwood")
ValueBalance(raw) ==
    BalanceOf(raw, "sapling") + BalanceOf(raw, "orchard") + BalanceOf(raw, "ironwood")
      + Contribution(Staked(raw))

Clear(zats) == [is |-> "clear", zat |-> zats]
Shielded == [is |-> "shielded"]
Known(zats) == [is |-> "known", zat |-> zats]
Pending == [is |-> "pending"]
Unresolvable == [is |-> "unresolvable"]
Unknown == [is |-> "unknown"]
NoInputs == [is |-> "none"]

Unparsed == [txid |-> NoTxid, version |-> None, branch |-> None, inputs |-> <<>>,
             outputs |-> <<>>, staking |-> NoStake, value |-> Unknown, vout |-> <<>>,
             prevouts |-> <<>>, inputTotal |-> NoInputs, feeBase |-> Unknown,
             error |-> TRUE]

\* parse(): the branch is the one active at the height, under the chain.
Parse(raw, height, chain) ==
    IF ~Readable(raw) THEN Unparsed
    ELSE [txid       |-> Txid(raw),
          version    |-> raw.version,
          branch     |-> BranchRead(raw, BranchAt(chain, height)),
          inputs     |-> InputPools(raw),
          outputs    |-> OutputPools(raw),
          staking    |-> Staked(raw),
          value      |-> IF \E pool \in ToSet(OutputPools(raw)) : pool # "transparent"
                         THEN Shielded ELSE Clear(Sum(raw.vout)),
          vout       |-> raw.vout,
          prevouts   |-> raw.vin,
          inputTotal |-> IF raw.vin = <<>> THEN NoInputs ELSE Pending,
          feeBase    |-> Known(ValueBalance(raw) - Sum(raw.vout)),
          error      |-> FALSE]

\* ParsedTx::resolve with the total of the inputs, or Unresolvable when one of
\* them could not be read; nothing changes unless the view was waiting.
Resolve(view, total) ==
    IF view.inputTotal # Pending THEN view
    ELSE [view EXCEPT !.inputTotal = total]

\* ParsedTx::fee.
BugFee(view) ==
    IF view.feeBase = Unknown THEN Unknown ELSE
    CASE view.inputTotal.is \in {"none", "pending"} -> view.feeBase
      [] view.inputTotal.is = "known" -> Known(view.feeBase.zat + view.inputTotal.zat)
      [] OTHER -> Unresolvable
Fee(view) ==
    IF view.feeBase = Unknown THEN Unknown ELSE
    CASE view.inputTotal.is = "none" -> view.feeBase
      [] view.inputTotal.is = "pending" -> Pending
      [] view.inputTotal.is = "known" -> Known(view.feeBase.zat + view.inputTotal.zat)
      [] view.inputTotal.is = "unresolvable" -> Unresolvable

\* One line for a person.  An unparsed view has its error and nothing else.
Summary(view) ==
    IF view.error THEN [form |-> "summary", txid |-> NoTxid, fee |-> Unknown]
    ELSE [form |-> "summary", txid |-> view.txid, version |-> view.version,
          from |-> view.inputs, to |-> view.outputs, value |-> view.value,
          fee |-> Fee(view),
          stake |-> view.staking.kind]

\* The keys of the JSON object: a number and a word go under different keys,
\* and what is absent has no key.
JsonKeys(view) ==
    {"txid", "version", "size", "consensus_branch_id", "lock_time", "expiry_height",
     "inputs", "outputs", "fee", "error"}
      \cup (IF view.staking # NoStake THEN {"staking"} ELSE {})
      \cup (IF view.value.is = "clear" THEN {"value_zat"} ELSE {"value"})
      \cup (IF view.prevouts # <<>> THEN {"prevouts"} ELSE {})
      \cup CASE view.inputTotal.is = "none" -> {}
             [] view.inputTotal.is = "known" -> {"inputs_value_zat"}
             [] OTHER -> {"inputs_value"}

Json(view) ==
    [form |-> "json", keys |-> JsonKeys(view), txid |-> view.txid, version |-> view.version,
     branch |-> view.branch, inputs |-> view.inputs, outputs |-> view.outputs,
     value |-> view.value, prevouts |-> view.prevouts, fee |-> Fee(view),
     staking |-> view.staking]
============================================================================
