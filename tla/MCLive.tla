-------------------------------- MODULE MCLive --------------------------------
(***************************************************************************)
(* Model-checking instance of what the terminal explorer must do in the    *)
(* end, small enough for liveness: its tail task, or its search task, the  *)
(* keys and the frame.  They share no state but the App's list of blocks,  *)
(* which Explorer leaves out, so one of them runs in a behaviour and the   *)
(* other stays as it starts.                                               *)
(***************************************************************************)
EXTENDS Screen

CONSTANTS MaxBlocks, ReorgDepth, MaxHeight, MaxReorgs, MaxForkDepth, MaxPending, MaxErrors,
          MaxTipErrors
VARIABLES chain, abandoned, reorgs, errors, tipErrors, pc, boundary, last, tip, openedAt, owed,
          sent, phase, appTip, blocks, blockTimes, nextBlockSeq, part

TailTask == INSTANCE TailTask WITH updates <- sent

tailVars == <<chain, abandoned, reorgs, errors, tipErrors, pc, boundary, last, tip, openedAt, owed,
              sent, phase, appTip, blocks, blockTimes, nextBlockSeq>>
liveVars == <<part, vars, tailVars>>

-----------------------------------------------------------------------------
MCTxid == {"a", "b"}
MCPool == {"a"}
MCBlockTxs == <<<<"a", "b">>>>
MCInputs == [t \in MCTxid |-> IF t = "b" THEN 0 ELSE 1]

-----------------------------------------------------------------------------
OfTail(step) == part = "tail" /\ step /\ UNCHANGED <<part, vars>>
OfExplorer(step) == part = "explorer" /\ step /\ UNCHANGED <<part, tailVars>>

LiveInit == part \in {"tail", "explorer"} /\ TailTask!Init /\ Init
LiveNext == OfTail(TailTask!Next) \/ OfExplorer(Next)

\* The fairness of TailTask!FairSpec and of Explorer's FairSpec, for the part
\* that runs.
LiveFairness ==
  /\ WF_liveVars(OfTail(TailTask!CycleStep)) /\ WF_liveVars(OfTail(TailTask!Apply))
  /\ WF_liveVars(OfExplorer(ConnectSearch)) /\ WF_liveVars(OfExplorer(Receive))
  /\ WF_liveVars(OfExplorer(ApplyAnswer)) /\ WF_liveVars(OfExplorer(FetchTx))
  /\ WF_liveVars(OfExplorer(ReadFunder)) /\ WF_liveVars(OfExplorer(MinedFee))
  /\ WF_liveVars(OfExplorer(jobs # <<>> /\ ServeJob(1)))

LiveSpec == LiveInit /\ [][LiveNext]_liveVars /\ LiveFairness

\* A block above what the open mempool stream was opened at is shown (see
\* TailTask): in the end it has a live row, at its height or above, or is gone.
MinedBlockIsShown == TailTask!MinedBlockIsShown

\* What a failed refetch owes is sent by a later cycle (see TailTask), unless
\* the chain returns to the branch of the newest row or to no more than it.
OwedBlocksArrive == TailTask!OwedBlocksArrive

\* A lost connection comes back (see TailTask): reconnecting leads to live.
ReconnectsToLive == TailTask!ReconnectsToLive

=============================================================================
