---------------------------- MODULE ResolverProofs ----------------------------
(***************************************************************************)
(* Proofs about the mempool rows, their resolvers and the two consumers,   *)
(* for every set of transactions, size of the gate and of the list, and    *)
(* any number of rows, cycles and unread updates.                          *)
(*                                                                         *)
(* Five inductive invariants, each proved from the first:                  *)
(*   Shape      what every variable holds, and what a lookup may hold;     *)
(*   GateInv    the permits, with the lookups that hold one a finite set;  *)
(*   NamesInv   a seq names one transaction wherever it is still held, the *)
(*              unread updates included, and a total on its way is the     *)
(*              true one of the transaction its seq names;                 *)
(*   FeedsAgree as it stands;                                              *)
(*   RowsInv    no transaction twice between two Blocks, counting what the *)
(*              stream may still send.                                     *)
(***************************************************************************)
EXTENDS Resolver, SequenceTheorems, FiniteSetTheorems, TLAPS

-----------------------------------------------------------------------------
(* The invariants.                                                         *)

Total == {None} \cup {TrueTotal(t) : t \in Pool}
Taken == [seq : Nat, tx : Pool]
RowType ==
  [seq : Nat, tx : Pool, state : {"none", "pending", "known", "unresolvable"}, total : Total]
UpdateType ==
  [type : {"Block"}] \cup [type : {"Tx"}, seq : Nat, tx : Pool]
    \cup [type : {"ValueResolved"}, seq : Nat, total : Total]

\* What the lookup of the i-th prevout of t may hold: an absent answer is
\* never about a confirmed funder, a result is nothing or the output's value.
LookOK(t, i, look) ==
  LET op == Prevouts[t][i]
  IN  \/ look \in {Queued, Asking, Answered("values"), Answered("unavailable"), Found(None)}
      \/ look = Answered("absent") /\ op.txid \notin Confirmed
      \/ look = Found(ValueAt(op.txid, op.index))

TaskOK(task) ==
  /\ task = [tx |-> task.tx, cycle |-> task.cycle, looks |-> task.looks]
  /\ task.tx \in Pool
  /\ task.looks = [i \in DOMAIN Prevouts[task.tx] |-> task.looks[i]]
  /\ \A i \in DOMAIN Prevouts[task.tx] : LookOK(task.tx, i, task.looks[i])

StateOK ==
  /\ unsent \subseteq Pool /\ Confirmed \subseteq known /\ known \subseteq Txid
  /\ cycle \in Nat \ {0} /\ nextSeq \in Nat /\ detailLooks \in Nat
  /\ pc \in {"announce", "stream", "send"}
  /\ cur \in Taken \cup {NoRow} /\ (pc = "send" <=> cur # NoRow)
  /\ inStream \in Seq(SUBSET Txid) /\ Len(inStream) = cycle
  /\ cache \in [Txid -> {"unknown", "values", "absent"}] /\ ConfirmedNeverAbsent

SeqsTaken ==
  /\ \A s \in DOMAIN tasks : s \in Nat /\ s < nextSeq
  /\ cur # NoRow => cur.seq < nextSeq
  /\ \A i \in DOMAIN updates : updates[i].type # "Block" => updates[i].seq < nextSeq
  /\ \A i \in DOMAIN rows : rows[i].seq < nextSeq
  /\ \A b \in feeBase : b.seq < nextSeq

Shape ==
  /\ StateOK /\ SeqsTaken
  /\ \A s \in DOMAIN tasks : TaskOK(tasks[s]) /\ tasks[s].cycle \in 1..cycle
  /\ updates \in Seq(UpdateType)
  /\ rows \in Seq(RowType) /\ Len(rows) <= MaxRows
  /\ feeBase \subseteq Taken

GateInv == IsFiniteSet(Fetching) /\ GateHolds

\* Every pair of a seq and the transaction it stands for that is held anywhere.
Named ==
  {[seq |-> s, tx |-> tasks[s].tx] : s \in DOMAIN tasks}
    \cup {[seq |-> rows[i].seq, tx |-> rows[i].tx] : i \in DOMAIN rows}
    \cup {[seq |-> updates[i].seq, tx |-> updates[i].tx] :
            i \in {j \in DOMAIN updates : updates[j].type = "Tx"}}
    \cup feeBase \cup ({cur} \ {NoRow})

NamesOneTx == \A a, b \in Named : a.seq = b.seq => a.tx = b.tx

ReportsExact ==
  \A i \in DOMAIN updates :
    (updates[i].type = "ValueResolved" /\ updates[i].total # None) =>
      \A a \in Named : a.seq = updates[i].seq => updates[i].total = TrueTotal(a.tx)

NamesInv == NamesOneTx /\ ReportsExact /\ NeverWrongTotal

\* What the stream of this cycle may still put on the channel.
Coming == unsent \cup {c.tx : c \in {cur} \ {NoRow}}

\* No Block follows position i of the channel; 0 stands for the rows.
LastFrom(i) == \A k \in DOMAIN updates : k > i => updates[k].type # "Block"

IsTx(i) == updates[i].type = "Tx"

RowsInv ==
  /\ NoDuplicateRows
  /\ cur # NoRow => cur.tx \notin unsent
  /\ pc = "announce" => unsent = {}
  /\ \A i, j \in DOMAIN updates :
       (i < j /\ IsTx(i) /\ IsTx(j) /\ updates[i].tx = updates[j].tx) =>
         \E k \in i..j : updates[k].type = "Block"
  /\ \A i \in DOMAIN rows : \A j \in DOMAIN updates :
       (IsTx(j) /\ rows[i].tx = updates[j].tx) => \E k \in 1..j : updates[k].type = "Block"
  /\ \A i \in DOMAIN updates : (IsTx(i) /\ LastFrom(i)) => updates[i].tx \notin Coming
  /\ \A i \in DOMAIN rows : LastFrom(0) => rows[i].tx \notin Coming

-----------------------------------------------------------------------------
(* Lemmas about the operators.                                             *)

\* What a finished resolver sums is nothing or the true total of its
\* transaction: one value that is missing makes the whole sum nothing.
LEMMA SumIsTrue ==
  ASSUME NEW task, TaskOK(task),
         \A i \in DOMAIN task.looks : task.looks[i].state = "done"
  PROVE  /\ task.tx \in Pool
         /\ Sum([i \in DOMAIN task.looks |-> task.looks[i].value])
              \in {None, TrueTotal(task.tx)}
<1> DEFINE t == task.tx
           vs == [i \in DOMAIN task.looks |-> task.looks[i].value]
           true == [i \in DOMAIN Prevouts[t] |->
                      ValueAt(Prevouts[t][i].txid, Prevouts[t][i].index)]
<1>1. t \in Pool /\ DOMAIN task.looks = DOMAIN Prevouts[t]
  BY DEF TaskOK
<1>2. \A i \in DOMAIN Prevouts[t] : task.looks[i].value \in {None, true[i]}
  <2> TAKE i \in DOMAIN Prevouts[t]
  <2>1. LookOK(t, i, task.looks[i]) /\ task.looks[i].state = "done"
    BY <1>1 DEF TaskOK
  <2>2. task.looks[i] = Found(None)
          \/ task.looks[i] = Found(ValueAt(Prevouts[t][i].txid, Prevouts[t][i].index))
    BY <2>1 DEF LookOK, Queued, Asking, Answered, Found
  <2> QED
    BY <2>2 DEF Found
<1>3. CASE \E i \in DOMAIN vs : vs[i] = None
  BY <1>1, <1>3 DEF Sum
<1>4. CASE ~\E i \in DOMAIN vs : vs[i] = None
  <2>1. vs = true
    BY <1>1, <1>2, <1>4
  <2> QED
    BY <1>1, <2>1 DEF TrueTotal
<1> QED
  BY <1>1, <1>3, <1>4

\* Setting one lookup touches that lookup alone.
LEMMA SetLookShape ==
  ASSUME NEW s \in DOMAIN tasks, NEW i \in DOMAIN tasks[s].looks, NEW look,
         TaskOK(tasks[s]), SetLook(s, i, look)
  PROVE  /\ DOMAIN tasks' = DOMAIN tasks
         /\ \A q \in DOMAIN tasks : q # s => tasks'[q] = tasks[q]
         /\ tasks'[s] = [tx |-> tasks[s].tx, cycle |-> tasks[s].cycle,
                         looks |-> [tasks[s].looks EXCEPT ![i] = look]]
<1>1. tasks' = [tasks EXCEPT ![s] = [tasks[s] EXCEPT !.looks = [tasks[s].looks EXCEPT ![i] = look]]]
  BY DEF SetLook
<1>2. tasks[s] = [tx |-> tasks[s].tx, cycle |-> tasks[s].cycle, looks |-> tasks[s].looks]
  BY DEF TaskOK
<1>3. [tasks[s] EXCEPT !.looks = [tasks[s].looks EXCEPT ![i] = look]]
        = [tx |-> tasks[s].tx, cycle |-> tasks[s].cycle,
           looks |-> [tasks[s].looks EXCEPT ![i] = look]]
  BY <1>2
<1> QED
  BY <1>1, <1>3

\* A lookup that is set to something it may hold leaves every task well formed.
LEMMA SetLookKeepsTasks ==
  ASSUME \A q \in DOMAIN tasks : TaskOK(tasks[q]),
         NEW s \in DOMAIN tasks, NEW i \in DOMAIN tasks[s].looks, NEW look,
         LookOK(tasks[s].tx, i, look), SetLook(s, i, look)
  PROVE  /\ DOMAIN tasks' = DOMAIN tasks
         /\ \A q \in DOMAIN tasks : tasks'[q].tx = tasks[q].tx /\ tasks'[q].cycle = tasks[q].cycle
         /\ \A q \in DOMAIN tasks' : TaskOK(tasks'[q])
<1> DEFINE looks == [tasks[s].looks EXCEPT ![i] = look]
<1>1. /\ DOMAIN tasks' = DOMAIN tasks
      /\ \A q \in DOMAIN tasks : q # s => tasks'[q] = tasks[q]
      /\ tasks'[s] = [tx |-> tasks[s].tx, cycle |-> tasks[s].cycle, looks |-> looks]
  BY SetLookShape
<1>2. /\ tasks[s].tx \in Pool
      /\ tasks[s].looks = [k \in DOMAIN Prevouts[tasks[s].tx] |-> tasks[s].looks[k]]
      /\ \A k \in DOMAIN Prevouts[tasks[s].tx] : LookOK(tasks[s].tx, k, tasks[s].looks[k])
  BY DEF TaskOK
<1>3. /\ looks = [k \in DOMAIN Prevouts[tasks[s].tx] |-> looks[k]]
      /\ \A k \in DOMAIN Prevouts[tasks[s].tx] : LookOK(tasks[s].tx, k, looks[k])
  BY <1>2
<1> HIDE DEF looks
<1>4. TaskOK(tasks'[s])
  <2> DEFINE task == tasks'[s]
  <2>1. /\ task.tx = tasks[s].tx /\ task.looks = looks
        /\ task = [tx |-> task.tx, cycle |-> task.cycle, looks |-> task.looks]
    BY <1>1
  <2> HIDE DEF task
  <2>2. TaskOK(task)
    BY <1>2, <1>3, <2>1 DEF TaskOK
  <2> QED
    BY <2>2 DEF task
<1>5. \A q \in DOMAIN tasks : q # s => TaskOK(tasks'[q])
  BY <1>1 DEF TaskOK
<1> QED
  BY <1>1, <1>4, <1>5

\* push_front and truncate: the new row first, the others one down, the last
\* dropped where the list is full.
LEMMA PushedShape ==
  ASSUME NEW u, NewRow(u) \in RowType, rows \in Seq(RowType), Len(rows) <= MaxRows
  PROVE  /\ PushedRows(u) \in Seq(RowType)
         /\ Len(PushedRows(u)) <= MaxRows /\ Len(PushedRows(u)) <= Len(rows) + 1
         /\ Len(PushedRows(u)) >= 1
         /\ PushedRows(u)[1] = NewRow(u)
         /\ \A i \in 2..Len(PushedRows(u)) : PushedRows(u)[i] = rows[i - 1]
<1> DEFINE all == <<NewRow(u)>> \o rows
           n == IF Len(rows) < MaxRows THEN Len(rows) + 1 ELSE MaxRows
<1>1. Len(rows) \in Nat /\ MaxRows \in Nat \ {0}
  BY LenProperties, ResolverAssumption
<1>2. /\ all \in Seq(RowType) /\ Len(all) = Len(rows) + 1 /\ all[1] = NewRow(u)
      /\ \A i \in 2..(Len(rows) + 1) : all[i] = rows[i - 1]
  <2>1. <<NewRow(u)>> \in Seq(RowType) /\ Len(<<NewRow(u)>>) = 1 /\ <<NewRow(u)>>[1] = NewRow(u)
    OBVIOUS
  <2>2. /\ all \in Seq(RowType) /\ Len(all) = 1 + Len(rows)
        /\ \A i \in 1..(1 + Len(rows)) :
             all[i] = IF i <= 1 THEN <<NewRow(u)>>[i] ELSE rows[i - 1]
    BY <2>1, ConcatProperties
  <2> QED
    BY <1>1, <2>1, <2>2
<1> HIDE DEF all
<1>3. n \in 1..(Len(rows) + 1) /\ n <= MaxRows
  BY <1>1
<1> HIDE DEF n
<1>4. \A i \in 1..n : all[i] \in RowType
  BY <1>1, <1>2, <1>3, ElementOfSeq
<1>5. /\ SubSeq(all, 1, n) \in Seq(RowType) /\ Len(SubSeq(all, 1, n)) = n
      /\ \A i \in 1..n : SubSeq(all, 1, n)[i] = all[i]
  BY <1>1, <1>3, <1>4, SubSeqProperties
<1>6. PushedRows(u) = SubSeq(all, 1, n)
  BY DEF PushedRows, all, n
<1> QED
  BY <1>1, <1>2, <1>3, <1>5, <1>6

\* A total changes at most the state and total of the rows it is for.
LEMMA PatchedShape ==
  ASSUME NEW u, u.total \in Total, rows \in Seq(RowType)
  PROVE  /\ PatchedRows(u) \in Seq(RowType) /\ Len(PatchedRows(u)) = Len(rows)
         /\ DOMAIN PatchedRows(u) = DOMAIN rows
         /\ \A i \in DOMAIN rows :
              /\ PatchedRows(u)[i].seq = rows[i].seq /\ PatchedRows(u)[i].tx = rows[i].tx
              /\ IF Patchable(rows[i], u)
                 THEN /\ PatchedRows(u)[i].total = u.total
                      /\ PatchedRows(u)[i].state =
                           IF u.total = None THEN "unresolvable" ELSE "known"
                 ELSE PatchedRows(u)[i] = rows[i]
<1>1. /\ Len(rows) \in Nat /\ DOMAIN rows = 1..Len(rows)
      /\ \A i \in DOMAIN rows : rows[i] \in RowType
  BY LenProperties, ElementOfSeq
<1>2. DOMAIN PatchedRows(u) = DOMAIN rows
  BY DEF PatchedRows
<1>3. \A i \in DOMAIN rows :
        PatchedRows(u)[i] =
          IF Patchable(rows[i], u)
          THEN [rows[i] EXCEPT !.state = IF u.total = None THEN "unresolvable" ELSE "known",
                               !.total = u.total]
          ELSE rows[i]
  BY DEF PatchedRows
<1>4. \A i \in DOMAIN rows :
        /\ PatchedRows(u)[i] \in RowType
        /\ PatchedRows(u)[i].seq = rows[i].seq /\ PatchedRows(u)[i].tx = rows[i].tx
        /\ IF Patchable(rows[i], u)
           THEN /\ PatchedRows(u)[i].total = u.total
                /\ PatchedRows(u)[i].state = IF u.total = None THEN "unresolvable" ELSE "known"
           ELSE PatchedRows(u)[i] = rows[i]
  BY <1>1, <1>3 DEF RowType
<1>5. PatchedRows(u) = [i \in 1..Len(rows) |-> PatchedRows(u)[i]]
  BY <1>1 DEF PatchedRows
<1>6. PatchedRows(u) \in Seq(RowType) /\ Len(PatchedRows(u)) = Len(rows)
  BY <1>1, <1>4, <1>5
<1> QED
  BY <1>2, <1>4, <1>6

\* An update sent goes to the end of the channel.
LEMMA SendShape ==
  ASSUME updates \in Seq(UpdateType), NEW u \in UpdateType, Send(u)
  PROVE  /\ updates' \in Seq(UpdateType) /\ Len(updates) \in Nat
         /\ DOMAIN updates = 1..Len(updates) /\ DOMAIN updates' = 1..(Len(updates) + 1)
         /\ \A i \in DOMAIN updates : updates'[i] = updates[i]
         /\ updates'[Len(updates) + 1] = u
  BY AppendProperties, LenProperties DEF Send

\* The consumer takes the update at the head; the others move up by one.
LEMMA ConsumeShape ==
  ASSUME updates \in Seq(UpdateType), updates # <<>>, updates' = Tail(updates)
  PROVE  /\ updates' \in Seq(UpdateType) /\ Len(updates) \in Nat \ {0}
         /\ DOMAIN updates = 1..Len(updates) /\ DOMAIN updates' = 1..(Len(updates) - 1)
         /\ \A i \in DOMAIN updates' : updates'[i] = updates[i + 1]
         /\ Head(updates) = updates[1] /\ updates[1] \in UpdateType
<1>1. /\ Len(updates) \in Nat \ {0} /\ DOMAIN updates = 1..Len(updates)
  BY LenProperties, EmptySeq
<1>2. /\ updates' \in Seq(UpdateType) /\ Len(updates') = Len(updates) - 1
      /\ \A i \in 1..Len(updates') : updates'[i] = updates[i + 1]
  BY HeadTailProperties
<1>3. DOMAIN updates' = 1..(Len(updates) - 1)
  BY <1>2, LenProperties
<1>4. updates[1] \in UpdateType
  BY <1>1, ElementOfSeq
<1> QED
  BY <1>1, <1>2, <1>3, <1>4

-----------------------------------------------------------------------------
(* The shape of the state.                                                 *)

\* What the tail's cycle does keeps the shape.
LEMMA CycleKeepsShape ==
  ASSUME Shape, CycleStep
  PROVE  Shape'
<1>1. CASE Announce
  <2>1. [type |-> "Block"] \in UpdateType
    BY DEF UpdateType
  <2>2. UNCHANGED <<known, cycle, cur, nextSeq, inStream, cache, tasks, detailLooks, rows, feeBase>>
        /\ pc = "announce" /\ pc' = "stream" /\ unsent' = Pool
    BY <1>1 DEF Announce, consumerVars
  <2>3. /\ updates' \in Seq(UpdateType)
        /\ \A i \in DOMAIN updates' : updates'[i].type # "Block" =>
             i \in DOMAIN updates /\ updates'[i] = updates[i]
    <3>1. Send([type |-> "Block"])
      BY <1>1 DEF Announce
    <3> QED
      BY <2>1, <3>1, SendShape DEF Shape
  <2>4. StateOK'
    BY <2>2 DEF Shape, StateOK, ConfirmedNeverAbsent
  <2>5. SeqsTaken'
    BY <2>2, <2>3 DEF Shape, SeqsTaken
  <2> QED
    BY <2>2, <2>3, <2>4, <2>5 DEF Shape
<1>2. CASE TakeTx
  <2>1. PICK t \in unsent :
          /\ unsent' = unsent \ {t} /\ Offer(t) /\ Spawn(nextSeq, t)
          /\ cur' = [seq |-> nextSeq, tx |-> t]
    BY <1>2 DEF TakeTx
  <2>2. /\ pc' = "send" /\ nextSeq' = nextSeq + 1
        /\ UNCHANGED <<known, cycle, cache, detailLooks, updates, rows, feeBase>>
    BY <1>2 DEF TakeTx, consumerVars
  <2>3. t \in Pool /\ t \in Txid
    BY <2>1, ResolverAssumption DEF Shape, StateOK
  <2>4. inStream' \in Seq(SUBSET Txid) /\ Len(inStream') = cycle
    <3>1. inStream \in Seq(SUBSET Txid) /\ Len(inStream) = cycle /\ cycle \in 1..Len(inStream)
      BY DEF Shape, StateOK
    <3>2. inStream[cycle] \cup {t} \in SUBSET Txid
      BY <2>3, <3>1, ElementOfSeq
    <3>3. inStream' = inStream \/ inStream' = [inStream EXCEPT ![cycle] = inStream[cycle] \cup {t}]
      BY <2>1 DEF Offer
    <3> QED
      BY <3>1, <3>2, <3>3, ExceptSeq
  <2>5. StateOK'
    <3>1. nextSeq \in Nat /\ nextSeq' \in Nat
      BY <2>2 DEF Shape, StateOK
    <3>2. cur' \in Taken /\ cur' # NoRow
      BY <2>1, <2>3, <3>1 DEF Taken, NoRow, None
    <3> QED
      BY <2>1, <2>2, <2>4, <3>1, <3>2 DEF Shape, StateOK, ConfirmedNeverAbsent
  <2>6. \A s \in DOMAIN tasks' : (s \in DOMAIN tasks /\ tasks'[s] = tasks[s]) \/
          /\ s = nextSeq
          /\ tasks'[s] = [tx |-> t, cycle |-> cycle, looks |-> [i \in DOMAIN Prevouts[t] |-> Queued]]
    BY <2>1 DEF Spawn
  <2>7. SeqsTaken'
    <3>1. nextSeq \in Nat
      BY DEF Shape, StateOK
    <3>2. /\ \A s \in DOMAIN tasks : s \in Nat /\ s < nextSeq
          /\ \A i \in DOMAIN updates : updates[i].type # "Block" =>
               updates[i].seq \in Nat /\ updates[i].seq < nextSeq
          /\ \A i \in DOMAIN rows : rows[i].seq \in Nat /\ rows[i].seq < nextSeq
          /\ \A b \in feeBase : b.seq \in Nat /\ b.seq < nextSeq
      <4>1. \A i \in DOMAIN updates : updates[i] \in UpdateType
        BY ElementOfSeq, LenProperties DEF Shape
      <4>2. \A i \in DOMAIN rows : rows[i] \in RowType
        BY ElementOfSeq, LenProperties DEF Shape
      <4> QED
        BY <4>1, <4>2 DEF Shape, SeqsTaken, UpdateType, RowType, Taken
    <3> QED
      BY <2>1, <2>2, <2>6, <3>1, <3>2 DEF SeqsTaken
  <2>8. \A s \in DOMAIN tasks' : TaskOK(tasks'[s]) /\ tasks'[s].cycle \in 1..cycle'
    <3> DEFINE new == [tx |-> t, cycle |-> cycle, looks |-> [i \in DOMAIN Prevouts[t] |-> Queued]]
    <3>1. TaskOK(new) /\ new.cycle = cycle
      BY <2>3 DEF TaskOK, LookOK
    <3> HIDE DEF new
    <3>2. cycle \in 1..cycle /\ cycle' = cycle
      BY <2>2 DEF Shape, StateOK
    <3>3. \A s \in DOMAIN tasks' : (s \in DOMAIN tasks /\ tasks'[s] = tasks[s]) \/ tasks'[s] = new
      BY <2>6 DEF new
    <3> QED
      BY <3>1, <3>2, <3>3 DEF Shape
  <2> QED
    BY <2>2, <2>5, <2>7, <2>8 DEF Shape
<1>3. CASE SendRow
  <2>1. /\ pc' = "stream" /\ cur' = NoRow
        /\ Send([type |-> "Tx", seq |-> cur.seq, tx |-> cur.tx])
        /\ UNCHANGED <<unsent, known, cycle, nextSeq, inStream, cache, tasks, detailLooks,
                       rows, feeBase>>
    BY <1>3 DEF SendRow, serverVars, consumerVars
  <2>2. cur \in Taken /\ [type |-> "Tx", seq |-> cur.seq, tx |-> cur.tx] \in UpdateType
    BY <1>3 DEF SendRow, Shape, StateOK, Taken, UpdateType
  <2>3. /\ updates' \in Seq(UpdateType)
        /\ \A i \in DOMAIN updates' : updates'[i].type # "Block" =>
             (i \in DOMAIN updates /\ updates'[i] = updates[i]) \/ updates'[i].seq = cur.seq
    BY <2>1, <2>2, SendShape DEF Shape
  <2>4. cur # NoRow
    BY <2>2 DEF Taken, NoRow, None
  <2>5. StateOK' /\ SeqsTaken'
    BY <2>1, <2>3, <2>4 DEF Shape, StateOK, SeqsTaken, ConfirmedNeverAbsent
  <2> QED
    BY <2>1, <2>3, <2>5 DEF Shape
<1>4. CASE EndCycle
  <2>1. /\ pc' = "announce" /\ unsent' = {} /\ pc = "stream"
        /\ cycle' = cycle + 1 /\ inStream' = Append(inStream, {}) /\ nextSeq' = nextSeq
        /\ UNCHANGED <<known, cur, cache, tasks, detailLooks, updates, rows, feeBase>>
    BY <1>4 DEF EndCycle, NextCycleSeq, consumerVars
  <2>2. inStream' \in Seq(SUBSET Txid) /\ Len(inStream') = cycle'
    BY <2>1, AppendProperties DEF Shape, StateOK
  <2>3. StateOK'
    BY <2>1, <2>2 DEF Shape, StateOK, ConfirmedNeverAbsent
  <2>4. SeqsTaken'
    BY <2>1 DEF Shape, SeqsTaken
  <2>5. \A s \in DOMAIN tasks : tasks[s].cycle \in 1..cycle'
    BY <2>1 DEF Shape, StateOK
  <2> QED
    BY <2>1, <2>3, <2>4, <2>5 DEF Shape
<1> QED
  BY <1>1, <1>2, <1>3, <1>4 DEF CycleStep

\* What the resolvers and the tx detail do keeps the shape.
LEMMA ResolveKeepsShape ==
  ASSUME Shape, Resolve \/ Detail
  PROVE  Shape'
<1>1. ASSUME NEW s \in DOMAIN tasks, NEW i \in DOMAIN tasks[s].looks, NEW look,
             SetLook(s, i, look), LookOK(tasks[s].tx, i, look)
      PROVE  /\ DOMAIN tasks' = DOMAIN tasks
             /\ \A q \in DOMAIN tasks' : TaskOK(tasks'[q]) /\ tasks'[q].cycle \in 1..cycle
  BY <1>1, SetLookKeepsTasks DEF Shape
<1>2. \A s \in DOMAIN tasks :
        /\ tasks[s].tx \in Txid /\ tasks[s].tx \in Pool
        /\ \A i \in DOMAIN tasks[s].looks :
             i \in DOMAIN Prevouts[tasks[s].tx] /\ LookOK(tasks[s].tx, i, tasks[s].looks[i])
  BY ResolverAssumption DEF Shape, TaskOK
<1>3. ASSUME UNCHANGED <<serverVars, cycleVars, updates, rows, feeBase>>, detailLooks' \in Nat,
             cache' \in [Txid -> {"unknown", "values", "absent"}], ConfirmedNeverAbsent',
             DOMAIN tasks' = DOMAIN tasks,
             \A q \in DOMAIN tasks' : TaskOK(tasks'[q]) /\ tasks'[q].cycle \in 1..cycle
      PROVE  Shape'
  <2>1. UNCHANGED <<unsent, known, cycle, pc, cur, nextSeq, inStream, updates, rows, feeBase>>
    BY <1>3 DEF serverVars, cycleVars
  <2>2. StateOK'
    BY <1>3, <2>1 DEF Shape, StateOK
  <2>3. SeqsTaken'
    BY <1>3, <2>1 DEF Shape, SeqsTaken
  <2> QED
    BY <1>3, <2>1, <2>2, <2>3 DEF Shape
<1>4. /\ cache \in [Txid -> {"unknown", "values", "absent"}] /\ ConfirmedNeverAbsent
      /\ detailLooks \in Nat
  BY DEF Shape, StateOK
<1>5. ASSUME NEW s \in DOMAIN tasks, NEW i \in DOMAIN tasks[s].looks, NEW look,
             SetLook(s, i, look), LookOK(tasks[s].tx, i, look),
             UNCHANGED <<serverVars, cycleVars, cache, detailLooks, updates, consumerVars>>
      PROVE  Shape'
  <2>1. UNCHANGED <<serverVars, cycleVars, cache, detailLooks, updates, rows, feeBase>>
    BY <1>5 DEF consumerVars
  <2>2. ConfirmedNeverAbsent'
    BY <1>4, <2>1 DEF ConfirmedNeverAbsent
  <2> QED
    BY <1>1, <1>3, <1>4, <1>5, <2>1, <2>2
<1>6. CASE StartLook
  <2>0. PICK s \in DOMAIN tasks : \E i \in DOMAIN tasks[s].looks :
          LET op == Prevouts[tasks[s].tx][i]
              v == ValueAt(op.txid, op.index)
          IN  /\ \/ SetLook(s, i, Found(v))
                 \/ SetLook(s, i, Found(None))
                 \/ SetLook(s, i, Asking)
              /\ UNCHANGED <<serverVars, cycleVars, cache, detailLooks, updates, consumerVars>>
    BY <1>6 DEF StartLook
  <2>1. PICK i \in DOMAIN tasks[s].looks :
          LET op == Prevouts[tasks[s].tx][i]
              v == ValueAt(op.txid, op.index)
          IN  /\ \/ SetLook(s, i, Found(v))
                 \/ SetLook(s, i, Found(None))
                 \/ SetLook(s, i, Asking)
              /\ UNCHANGED <<serverVars, cycleVars, cache, detailLooks, updates, consumerVars>>
    BY <2>0
  <2> DEFINE op == Prevouts[tasks[s].tx][i]
             v == ValueAt(op.txid, op.index)
  <2>2. /\ LookOK(tasks[s].tx, i, Found(v)) /\ LookOK(tasks[s].tx, i, Found(None))
        /\ LookOK(tasks[s].tx, i, Asking)
    BY DEF LookOK
  <2> QED
    BY <1>5, <2>1, <2>2
<1>7. CASE Answer
  <2>0. PICK s \in DOMAIN tasks : \E i \in DOMAIN tasks[s].looks :
          /\ \E kind \in {IF Prevouts[tasks[s].tx][i].txid \in known THEN "values" ELSE "absent",
                          "unavailable"} : SetLook(s, i, Answered(kind))
          /\ UNCHANGED <<serverVars, cycleVars, cache, detailLooks, updates, consumerVars>>
    BY <1>7 DEF Answer
  <2>1. PICK i \in DOMAIN tasks[s].looks :
          /\ \E kind \in {IF Prevouts[tasks[s].tx][i].txid \in known THEN "values" ELSE "absent",
                          "unavailable"} : SetLook(s, i, Answered(kind))
          /\ UNCHANGED <<serverVars, cycleVars, cache, detailLooks, updates, consumerVars>>
    BY <2>0
  <2>2. PICK kind \in {IF Prevouts[tasks[s].tx][i].txid \in known THEN "values" ELSE "absent",
                       "unavailable"} : SetLook(s, i, Answered(kind))
    BY <2>1
  <2>3. LookOK(tasks[s].tx, i, Answered(kind))
    BY <2>2 DEF LookOK, Shape, StateOK
  <2> QED
    BY <1>5, <2>1, <2>2, <2>3
<1>8. CASE UseAnswer
  <2>0. PICK s \in DOMAIN tasks : \E i \in DOMAIN tasks[s].looks :
          LET op == Prevouts[tasks[s].tx][i]
              look == tasks[s].looks[i]
          IN  /\ look.state = "answered"
              /\ cache' = [cache EXCEPT ![op.txid] = Cached(op.txid, look.kind)]
              /\ SetLook(s, i, Found(IF look.kind = "values" THEN ValueAt(op.txid, op.index)
                                     ELSE None))
              /\ UNCHANGED <<serverVars, cycleVars, detailLooks, updates, consumerVars>>
    BY <1>8 DEF UseAnswer
  <2>1. PICK i \in DOMAIN tasks[s].looks :
          LET op == Prevouts[tasks[s].tx][i]
              look == tasks[s].looks[i]
          IN  /\ look.state = "answered"
              /\ cache' = [cache EXCEPT ![op.txid] = Cached(op.txid, look.kind)]
              /\ SetLook(s, i, Found(IF look.kind = "values" THEN ValueAt(op.txid, op.index)
                                     ELSE None))
              /\ UNCHANGED <<serverVars, cycleVars, detailLooks, updates, consumerVars>>
    BY <2>0
  <2> DEFINE op == Prevouts[tasks[s].tx][i]
             kind == tasks[s].looks[i].kind
             found == Found(IF kind = "values" THEN ValueAt(op.txid, op.index) ELSE None)
  <2>2. /\ kind \in {"values", "absent", "unavailable"}
        /\ kind = "absent" => op.txid \notin Confirmed
    <3> DEFINE look == tasks[s].looks[i]
    <3>1. look.state = "answered" /\ LookOK(tasks[s].tx, i, look)
      BY <1>2, <2>1
    <3> HIDE DEF look
    <3>2. \/ look = Answered("values") \/ look = Answered("unavailable")
          \/ look = Answered("absent") /\ op.txid \notin Confirmed
      BY <3>1 DEF LookOK, Queued, Asking, Found
    <3>3. /\ look.kind \in {"values", "absent", "unavailable"}
          /\ look.kind = "absent" => op.txid \notin Confirmed
      BY <3>2 DEF Answered
    <3> QED
      BY <3>3 DEF look
  <2>3. LookOK(tasks[s].tx, i, found)
    BY DEF LookOK
  <2>4. cache' = [cache EXCEPT ![op.txid] = IF kind = "unavailable" THEN cache[op.txid] ELSE kind]
    BY <2>1 DEF Cached
  <2>5. SetLook(s, i, found) /\ UNCHANGED <<serverVars, cycleVars, detailLooks, updates, consumerVars>>
    BY <2>1
  <2> HIDE DEF kind, op, found
  <2>6. cache' \in [Txid -> {"unknown", "values", "absent"}] /\ ConfirmedNeverAbsent'
    <3>1. \A t \in Txid : cache'[t] = cache[t] \/ (t = op.txid /\ kind # "unavailable" /\ cache'[t] = kind)
      BY <1>4, <2>4
    <3>2. DOMAIN cache' = Txid /\ cache' = [t \in Txid |-> cache'[t]]
      BY <1>4, <2>4
    <3>3. Confirmed \subseteq Txid
      BY ResolverAssumption
    <3> QED
      BY <1>4, <2>2, <3>1, <3>2, <3>3 DEF ConfirmedNeverAbsent
  <2>7. UNCHANGED <<serverVars, cycleVars, detailLooks, updates, rows, feeBase>>
    BY <2>5 DEF consumerVars
  <2> QED
    BY <1>1, <1>3, <1>4, <2>3, <2>5, <2>6, <2>7
<1>9. CASE Report
  <2>1. PICK s \in DOMAIN tasks :
          /\ \A i \in DOMAIN tasks[s].looks : tasks[s].looks[i].state = "done"
          /\ Send([type |-> "ValueResolved", seq |-> s,
                   total |-> Sum([i \in DOMAIN tasks[s].looks |-> tasks[s].looks[i].value])])
          /\ tasks' = [q \in DOMAIN tasks \ {s} |-> tasks[q]]
          /\ UNCHANGED <<serverVars, cycleVars, cache, detailLooks, consumerVars>>
    BY <1>9 DEF Report
  <2> DEFINE sum == Sum([i \in DOMAIN tasks[s].looks |-> tasks[s].looks[i].value])
  <2>2. sum \in Total
    BY <2>1, SumIsTrue DEF Shape, Total
  <2>3. s \in Nat /\ s < nextSeq
    BY DEF Shape, SeqsTaken
  <2>4. /\ Send([type |-> "ValueResolved", seq |-> s, total |-> sum])
        /\ tasks' = [q \in DOMAIN tasks \ {s} |-> tasks[q]]
    BY <2>1
  <2>5. UNCHANGED <<unsent, known, cycle, pc, cur, nextSeq, inStream, cache, detailLooks, rows, feeBase>>
    BY <2>1 DEF serverVars, cycleVars, consumerVars
  <2> HIDE DEF sum
  <2>6. [type |-> "ValueResolved", seq |-> s, total |-> sum] \in UpdateType
    BY <2>2, <2>3 DEF UpdateType
  <2>7. /\ updates' \in Seq(UpdateType)
        /\ \A i \in DOMAIN updates' : (i \in DOMAIN updates /\ updates'[i] = updates[i])
                                        \/ updates'[i].seq = s
    BY <2>4, <2>6, SendShape DEF Shape
  <2>8. StateOK'
    BY <2>5 DEF Shape, StateOK, ConfirmedNeverAbsent
  <2>9. SeqsTaken'
    BY <2>3, <2>4, <2>5, <2>7 DEF Shape, SeqsTaken
  <2> QED
    BY <2>4, <2>5, <2>7, <2>8, <2>9 DEF Shape
<1>10. CASE Detail
  <2>1. /\ UNCHANGED <<serverVars, cycleVars, cache, tasks, updates, rows, feeBase>>
        /\ detailLooks' \in Nat
    BY <1>4, <1>10 DEF Detail, DetailLook, DetailDone, consumerVars
  <2>2. ConfirmedNeverAbsent'
    BY <1>4, <2>1 DEF ConfirmedNeverAbsent
  <2>3. \A q \in DOMAIN tasks' : TaskOK(tasks'[q]) /\ tasks'[q].cycle \in 1..cycle
    BY <2>1 DEF Shape
  <2> QED
    BY <1>3, <1>4, <2>1, <2>2, <2>3
<1> QED
  BY <1>6, <1>7, <1>8, <1>9, <1>10 DEF Resolve

\* What the head of the channel is, and what taking it does to the consumers.
LEMMA ConsumeCases ==
  ASSUME Shape, Consume
  PROVE  LET u == updates[1]
         IN  /\ updates # <<>> /\ updates' = Tail(updates) /\ 1 \in DOMAIN updates
             /\ UNCHANGED <<unsent, known, cycle, pc, cur, nextSeq, inStream, cache, tasks,
                            detailLooks>>
             /\ \/ /\ u.type = "Block"
                   /\ rows' = <<>> /\ feeBase' = {} /\ patched' = NoPatch
                \/ /\ u.type = "Tx" /\ u.seq \in Nat /\ u.seq < nextSeq /\ u.tx \in Pool
                   /\ NewRow(u) \in RowType
                   /\ rows' = PushedRows(u) /\ patched' = NoPatch
                   /\ feeBase' = IF Prevouts[u.tx] = <<>> THEN feeBase
                                 ELSE feeBase \cup {[seq |-> u.seq, tx |-> u.tx]}
                \/ /\ u.type = "ValueResolved" /\ u.total \in Total
                   /\ u.seq \in Nat /\ u.seq < nextSeq
                   /\ rows' = PatchedRows(u) /\ patched' = Line(u)
                   /\ feeBase' = {b \in feeBase : b.seq # u.seq}
<1> DEFINE u == updates[1]
<1>1. /\ updates # <<>> /\ updates' = Tail(updates) /\ 1 \in DOMAIN updates
      /\ Head(updates) = u /\ u \in UpdateType
  <2>1. updates # <<>> /\ updates' = Tail(updates)
    BY DEF Consume
  <2> QED
    BY <2>1, ConsumeShape DEF Shape
<1>2. UNCHANGED <<unsent, known, cycle, pc, cur, nextSeq, inStream, cache, tasks, detailLooks>>
  BY DEF Consume, serverVars, cycleVars
<1>3. /\ feeBase' = KeptBases(u)
      /\ CASE u.type = "Block" ->
                rows' = ClearedRows /\ patched' = NoPatch
           [] u.type = "Tx" ->
                rows' = PushedRows(u) /\ patched' = NoPatch
           [] u.type = "ValueResolved" ->
                rows' = PatchedRows(u) /\ patched' = Line(u)
  BY <1>1 DEF Consume
<1>4. u.type # "Block" => u.seq < nextSeq
  BY <1>1 DEF Shape, SeqsTaken
<1> HIDE DEF u
<1>5. CASE u \in [type : {"Block"}]
  BY <1>1, <1>2, <1>3, <1>5 DEF KeptBases, ClearedRows, u
<1>6. CASE u \in [type : {"Tx"}, seq : Nat, tx : Pool]
  <2>1. u.type = "Tx" /\ u.seq \in Nat /\ u.tx \in Pool
    BY <1>6
  <2>2. NewRow(u) \in RowType
    BY <2>1 DEF NewRow, RowType, Total
  <2>3. feeBase' = IF Prevouts[u.tx] = <<>> THEN feeBase
                   ELSE feeBase \cup {[seq |-> u.seq, tx |-> u.tx]}
    BY <1>3, <2>1 DEF KeptBases
  <2>4. rows' = PushedRows(u) /\ patched' = NoPatch
    BY <1>3, <2>1
  <2> QED
    BY <1>1, <1>2, <1>4, <2>1, <2>2, <2>3, <2>4 DEF u
<1>7. CASE u \in [type : {"ValueResolved"}, seq : Nat, total : Total]
  <2>1. u.type = "ValueResolved" /\ u.seq \in Nat /\ u.total \in Total
    BY <1>7
  <2>2. feeBase' = {b \in feeBase : b.seq # u.seq}
    BY <1>3, <2>1 DEF KeptBases
  <2>3. rows' = PatchedRows(u) /\ patched' = Line(u)
    BY <1>3, <2>1
  <2> QED
    BY <1>1, <1>2, <1>4, <2>1, <2>2, <2>3 DEF u
<1> QED
  BY <1>1, <1>5, <1>6, <1>7 DEF UpdateType

\* The consumers keep the shape.
LEMMA ConsumeKeepsShape ==
  ASSUME Shape, Consume
  PROVE  Shape'
<1> DEFINE u == updates[1]
<1>1. /\ updates' \in Seq(UpdateType)
      /\ \A i \in DOMAIN updates' : updates'[i] = updates[i + 1] /\ i + 1 \in DOMAIN updates
  BY ConsumeCases, ConsumeShape DEF Shape
<1>2. UNCHANGED <<unsent, known, cycle, pc, cur, nextSeq, inStream, cache, tasks, detailLooks>>
  BY ConsumeCases
<1>3. /\ rows' \in Seq(RowType) /\ Len(rows') <= MaxRows /\ feeBase' \subseteq Taken
      /\ \A i \in DOMAIN rows' : rows'[i].seq < nextSeq
      /\ \A b \in feeBase' : b.seq < nextSeq
  <2>1. /\ rows \in Seq(RowType) /\ Len(rows) <= MaxRows /\ feeBase \subseteq Taken
        /\ DOMAIN rows = 1..Len(rows) /\ Len(rows) \in Nat
        /\ \A i \in DOMAIN rows : rows[i].seq < nextSeq
        /\ \A b \in feeBase : b.seq < nextSeq
    BY LenProperties DEF Shape, SeqsTaken
  <2>2. CASE u.type = "Block"
    <3>1. rows' = <<>> /\ feeBase' = {}
      BY <2>2, ConsumeCases
    <3>2. <<>> \in Seq(RowType) /\ Len(<<>>) = 0 /\ DOMAIN <<>> = {}
      BY EmptySeq
    <3> QED
      BY <3>1, <3>2, ResolverAssumption
  <2>3. CASE u.type = "Tx"
    <3>1. /\ u.seq \in Nat /\ u.seq < nextSeq /\ u.tx \in Pool /\ NewRow(u) \in RowType
          /\ rows' = PushedRows(u)
          /\ feeBase' \subseteq feeBase \cup {[seq |-> u.seq, tx |-> u.tx]}
      BY <2>3, ConsumeCases
    <3>2. feeBase' \subseteq Taken /\ \A b \in feeBase' : b.seq < nextSeq
      BY <2>1, <3>1 DEF Taken
    <3>3. /\ rows' \in Seq(RowType) /\ Len(rows') <= MaxRows /\ Len(rows') <= Len(rows) + 1
          /\ rows'[1] = NewRow(u) /\ \A i \in 2..Len(rows') : rows'[i] = rows[i - 1]
      BY <2>1, <3>1, PushedShape
    <3>4. \A i \in DOMAIN rows' : rows'[i].seq < nextSeq
      <4>1. DOMAIN rows' = 1..Len(rows') /\ Len(rows') \in Nat
        BY <3>3, LenProperties
      <4>2. rows'[1].seq = u.seq
        BY <3>3 DEF NewRow
      <4>3. ASSUME NEW i \in 2..Len(rows') PROVE rows'[i].seq < nextSeq
        <5>1. i - 1 \in DOMAIN rows /\ rows'[i] = rows[i - 1]
          BY <2>1, <3>3, <4>1
        <5> QED
          BY <2>1, <5>1
      <4> QED
        BY <3>1, <4>1, <4>2, <4>3
    <3> QED
      BY <3>2, <3>3, <3>4
  <2>4. CASE u.type = "ValueResolved"
    <3>1. u.total \in Total /\ rows' = PatchedRows(u) /\ feeBase' \subseteq feeBase
      BY <2>4, ConsumeCases
    <3>2. /\ rows' \in Seq(RowType) /\ Len(rows') = Len(rows) /\ DOMAIN rows' = DOMAIN rows
          /\ \A i \in DOMAIN rows : rows'[i].seq = rows[i].seq
      BY <2>1, <3>1, PatchedShape
    <3> QED
      BY <2>1, <3>1, <3>2
  <2> QED
    BY <2>2, <2>3, <2>4, ConsumeCases
<1>4. StateOK'
  BY <1>2 DEF Shape, StateOK, ConfirmedNeverAbsent
<1>5. SeqsTaken'
  BY <1>1, <1>2, <1>3 DEF Shape, SeqsTaken
<1> QED
  BY <1>1, <1>2, <1>3, <1>4, <1>5 DEF Shape

\* Every variable keeps its shape.
LEMMA ShapeInvariant == Spec => []Shape
<1>1. Init => Shape
  <2> SUFFICES ASSUME Init PROVE Shape
    OBVIOUS
  <2>1. /\ unsent = {} /\ known = Confirmed /\ cycle = 1 /\ pc = "announce" /\ cur = NoRow
        /\ nextSeq = 0 /\ inStream = <<{}>> /\ cache = [t \in Txid |-> "unknown"]
        /\ tasks = <<>> /\ detailLooks = 0 /\ updates = <<>> /\ rows = <<>> /\ feeBase = {}
    BY DEF Init
  <2>2. <<{}>> \in Seq(SUBSET Txid) /\ Len(<<{}>>) = 1
    OBVIOUS
  <2>3. StateOK
    BY <2>1, <2>2, ResolverAssumption DEF StateOK, ConfirmedNeverAbsent
  <2>4. SeqsTaken
    BY <2>1 DEF SeqsTaken
  <2>5. /\ updates \in Seq(UpdateType) /\ rows \in Seq(RowType) /\ Len(rows) = 0
        /\ MaxRows \in Nat \ {0}
    BY <2>1, EmptySeq, ResolverAssumption
  <2> QED
    BY <2>1, <2>3, <2>4, <2>5 DEF Shape
<1>2. ASSUME Shape, [Next]_vars PROVE Shape'
  <2>1. CASE ServerLearns
    <3>1. PICK t \in {op.txid : op \in UNION {Range(Prevouts[q]) : q \in Pool}} \ known :
            known' = known \union {t}
      BY <2>1 DEF ServerLearns
    <3>2. PICK q \in Pool : \E i \in DOMAIN Prevouts[q] : t = Prevouts[q][i].txid
      BY <3>1 DEF Range
    <3>3. t \in Txid
      <4> DEFINE Op == [txid : Txid, index : Nat \ {0}]
      <4>1. Prevouts[q] \in Seq(Op)
        BY ResolverAssumption
      <4> HIDE DEF Op
      <4>2. \A i \in DOMAIN Prevouts[q] : Prevouts[q][i] \in Op
        BY <4>1, ElementOfSeq, LenProperties
      <4> QED
        BY <3>2, <4>2 DEF Op
    <3>4. UNCHANGED <<unsent, cycle, pc, cur, nextSeq, inStream, cache, tasks, detailLooks,
                      updates, rows, feeBase>>
      BY <2>1 DEF ServerLearns, cycleVars, consumerVars
    <3>5. StateOK'
      BY <1>2, <3>1, <3>3, <3>4 DEF Shape, StateOK, ConfirmedNeverAbsent
    <3>6. SeqsTaken'
      BY <1>2, <3>4 DEF Shape, SeqsTaken
    <3> QED
      BY <1>2, <3>4, <3>5, <3>6 DEF Shape
  <2>2. CASE UNCHANGED vars
    <3>1. UNCHANGED <<unsent, known, cycle, pc, cur, nextSeq, inStream, cache, tasks, detailLooks,
                      updates, rows, feeBase>>
      BY <2>2 DEF vars, serverVars, cycleVars, consumerVars
    <3>2. StateOK'
      BY <1>2, <3>1 DEF Shape, StateOK, ConfirmedNeverAbsent
    <3>3. SeqsTaken'
      BY <1>2, <3>1 DEF Shape, SeqsTaken
    <3> QED
      BY <1>2, <3>1, <3>2, <3>3 DEF Shape
  <2> QED
    BY <1>2, <2>1, <2>2, CycleKeepsShape, ResolveKeepsShape, ConsumeKeepsShape DEF Next
<1> QED
  BY <1>1, <1>2, PTL DEF Spec

-----------------------------------------------------------------------------
(* The gate.                                                               *)

Holding(look) == look.state \in {"fetching", "answered"}

\* The permits out, as a function of the tasks.
FetchingIn(ts) ==
  {x \in UNION {{<<s, i>> : i \in DOMAIN ts[s].looks} : s \in DOMAIN ts} :
     ts[x[1]].looks[x[2]].state \in {"fetching", "answered"}}

\* The lookups that hold a permit, one by one.
LEMMA FetchingIs ==
  ASSUME NEW ts, NEW x
  PROVE  x \in FetchingIn(ts) <=>
           \E s \in DOMAIN ts : \E i \in DOMAIN ts[s].looks :
             x = <<s, i>> /\ Holding(ts[s].looks[i])
<1> DEFINE all == UNION {{<<q, k>> : k \in DOMAIN ts[q].looks} : q \in DOMAIN ts}
<1>1. x \in all <=> \E s \in DOMAIN ts : \E i \in DOMAIN ts[s].looks : x = <<s, i>>
  OBVIOUS
<1> HIDE DEF all
<1>2. FetchingIn(ts) = {y \in all : ts[y[1]].looks[y[2]].state \in {"fetching", "answered"}}
  BY DEF FetchingIn, all
<1> QED
  BY <1>1, <1>2 DEF Holding

\* A lookup that is set takes or gives back its own permit and no other.
LEMMA SetLookFetching ==
  ASSUME NEW s \in DOMAIN tasks, NEW i \in DOMAIN tasks[s].looks, NEW look,
         TaskOK(tasks[s]), SetLook(s, i, look)
  PROVE  Fetching' = IF Holding(look) THEN Fetching \cup {<<s, i>>} ELSE Fetching \ {<<s, i>>}
<1>1. /\ DOMAIN tasks' = DOMAIN tasks
      /\ \A q \in DOMAIN tasks : q # s => tasks'[q] = tasks[q]
      /\ DOMAIN tasks'[s].looks = DOMAIN tasks[s].looks
      /\ tasks'[s].looks[i] = look
      /\ \A k \in DOMAIN tasks[s].looks : k # i => tasks'[s].looks[k] = tasks[s].looks[k]
  <2> DEFINE looks == [tasks[s].looks EXCEPT ![i] = look]
  <2>1. /\ DOMAIN tasks' = DOMAIN tasks
        /\ \A q \in DOMAIN tasks : q # s => tasks'[q] = tasks[q]
        /\ tasks'[s] = [tx |-> tasks[s].tx, cycle |-> tasks[s].cycle, looks |-> looks]
    BY SetLookShape
  <2>2. /\ DOMAIN looks = DOMAIN tasks[s].looks /\ looks[i] = look
        /\ \A k \in DOMAIN tasks[s].looks : k # i => looks[k] = tasks[s].looks[k]
    OBVIOUS
  <2> HIDE DEF looks
  <2>3. tasks'[s].looks = looks
    BY <2>1
  <2> QED
    BY <2>1, <2>2, <2>3
<1>2. ASSUME NEW q \in DOMAIN tasks, NEW k \in DOMAIN tasks[q].looks
      PROVE  /\ q \in DOMAIN tasks' /\ k \in DOMAIN tasks'[q].looks
             /\ tasks'[q].looks[k] = IF q = s /\ k = i THEN look ELSE tasks[q].looks[k]
  BY <1>1
<1>3. ASSUME NEW q \in DOMAIN tasks', NEW k \in DOMAIN tasks'[q].looks
      PROVE  q \in DOMAIN tasks /\ k \in DOMAIN tasks[q].looks
  BY <1>1
<1>4. ASSUME NEW x
      PROVE  x \in FetchingIn(tasks') <=>
               (x = <<s, i>> /\ Holding(look)) \/ (x # <<s, i>> /\ x \in FetchingIn(tasks))
  <2>1. x \in FetchingIn(tasks') <=>
          \E q \in DOMAIN tasks' : \E k \in DOMAIN tasks'[q].looks :
            x = <<q, k>> /\ Holding(tasks'[q].looks[k])
    BY FetchingIs
  <2>2. x \in FetchingIn(tasks) <=>
          \E q \in DOMAIN tasks : \E k \in DOMAIN tasks[q].looks :
            x = <<q, k>> /\ Holding(tasks[q].looks[k])
    BY FetchingIs
  <2>3. \A q, k : <<q, k>> = <<s, i>> <=> q = s /\ k = i
    OBVIOUS
  <2> QED
    BY <1>2, <1>3, <2>1, <2>2, <2>3
<1>5. Fetching = FetchingIn(tasks) /\ Fetching' = FetchingIn(tasks')
  BY DEF Fetching, FetchingIn
<1> QED
  BY <1>4, <1>5

\* A lookup takes a permit only when one is free, and gives back its own.
LEMMA GateKept ==
  ASSUME Shape, GateInv, [Next]_vars
  PROVE  GateInv'
<1> DEFINE Card(F) == Cardinality(F)
<1>1. IsFiniteSet(Fetching) /\ Card(Fetching) + detailLooks <= GateSize
  BY DEF GateInv, GateHolds
<1>2. /\ Card(Fetching) \in Nat /\ detailLooks \in Nat /\ GateSize \in Nat
      /\ \A s \in DOMAIN tasks : TaskOK(tasks[s]) /\ s < nextSeq /\ s \in Nat
      /\ nextSeq \in Nat
  BY <1>1, FS_CardinalityType, ResolverAssumption DEF Shape, StateOK, SeqsTaken
<1>3. ASSUME Fetching' = Fetching, detailLooks' = detailLooks PROVE GateInv'
  BY <1>1, <1>3 DEF GateInv, GateHolds
<1>4. ASSUME tasks' = tasks PROVE Fetching' = Fetching
  BY <1>4 DEF Fetching
<1>5. ASSUME NEW s \in DOMAIN tasks, NEW i \in DOMAIN tasks[s].looks, NEW look,
             SetLook(s, i, look), detailLooks' = detailLooks,
             Holding(look) => (PermitFree \/ Holding(tasks[s].looks[i]))
      PROVE  GateInv'
  <2>1. Fetching' = IF Holding(look) THEN Fetching \cup {<<s, i>>} ELSE Fetching \ {<<s, i>>}
    BY <1>2, <1>5, SetLookFetching
  <2>2. CASE ~Holding(look)
    <3>1. /\ IsFiniteSet(Fetching \ {<<s, i>>})
          /\ Card(Fetching \ {<<s, i>>}) \in {Card(Fetching), Card(Fetching) - 1}
      BY <1>1, FS_RemoveElement
    <3> QED
      BY <1>1, <1>2, <1>5, <2>1, <2>2, <3>1 DEF GateInv, GateHolds
  <2>3. CASE Holding(look) /\ Holding(tasks[s].looks[i])
    <3>1. <<s, i>> \in Fetching
      BY <2>3, FetchingIs DEF Fetching, FetchingIn
    <3>2. Fetching' = Fetching
      BY <2>1, <2>3, <3>1
    <3> QED
      BY <1>3, <1>5, <3>2
  <2>4. CASE Holding(look) /\ PermitFree
    <3>1. /\ IsFiniteSet(Fetching \cup {<<s, i>>})
          /\ Card(Fetching \cup {<<s, i>>}) \in {Card(Fetching), Card(Fetching) + 1}
      BY <1>1, FS_AddElement
    <3>2. Card(Fetching) + detailLooks < GateSize
      BY <2>4 DEF PermitFree
    <3> QED
      BY <1>1, <1>2, <1>5, <2>1, <2>4, <3>1, <3>2 DEF GateInv, GateHolds
  <2> QED
    BY <1>5, <2>2, <2>3, <2>4
<1>6. CASE ServerLearns \/ Announce \/ SendRow \/ EndCycle \/ Consume \/ UNCHANGED vars
  <2>1. tasks' = tasks /\ detailLooks' = detailLooks
    BY <1>6 DEF ServerLearns, Announce, SendRow, EndCycle, Consume, vars
  <2> QED
    BY <1>3, <1>4, <2>1
<1>7. CASE TakeTx
  <2>1. PICK t \in unsent : Spawn(nextSeq, t)
    BY <1>7 DEF TakeTx
  <2>2. detailLooks' = detailLooks
    BY <1>7 DEF TakeTx
  <2>3. nextSeq \notin DOMAIN tasks
    BY <1>2
  <2>4. CASE Prevouts[t] = <<>>
    BY <1>3, <1>4, <2>1, <2>2, <2>4 DEF Spawn
  <2>5. CASE Prevouts[t] # <<>>
    <3>1. /\ DOMAIN tasks' = DOMAIN tasks \cup {nextSeq}
          /\ \A q \in DOMAIN tasks : tasks'[q] = tasks[q]
          /\ tasks'[nextSeq].looks = [i \in DOMAIN Prevouts[t] |-> Queued]
      BY <2>1, <2>3, <2>5 DEF Spawn
    <3>2. ~Holding(Queued)
      BY DEF Holding, Queued
    <3>3. \A x : x \in FetchingIn(tasks') <=> x \in FetchingIn(tasks)
      <4> TAKE x
      <4>1. x \in FetchingIn(tasks') <=>
              \E q \in DOMAIN tasks' : \E k \in DOMAIN tasks'[q].looks :
                x = <<q, k>> /\ Holding(tasks'[q].looks[k])
        BY FetchingIs
      <4>2. x \in FetchingIn(tasks) <=>
              \E q \in DOMAIN tasks : \E k \in DOMAIN tasks[q].looks :
                x = <<q, k>> /\ Holding(tasks[q].looks[k])
        BY FetchingIs
      <4>3. \A k \in DOMAIN tasks'[nextSeq].looks : ~Holding(tasks'[nextSeq].looks[k])
        BY <3>1, <3>2
      <4> QED
        BY <3>1, <4>1, <4>2, <4>3
    <3>4. Fetching' = Fetching
      BY <3>3 DEF Fetching, FetchingIn
    <3> QED
      BY <1>3, <2>2, <3>4
  <2> QED
    BY <2>4, <2>5
<1>8. CASE StartLook
  <2>1. PICK s \in DOMAIN tasks : \E i \in DOMAIN tasks[s].looks :
          /\ PermitFree /\ detailLooks' = detailLooks
          /\ \E look : SetLook(s, i, look)
    BY <1>8 DEF StartLook
  <2> QED
    BY <1>5, <2>1
<1>9. CASE Answer
  <2>1. PICK s \in DOMAIN tasks : \E i \in DOMAIN tasks[s].looks :
          /\ tasks[s].looks[i] = Asking /\ detailLooks' = detailLooks
          /\ \E kind : SetLook(s, i, Answered(kind))
    BY <1>9 DEF Answer
  <2>2. Holding(Asking)
    BY DEF Holding, Asking
  <2> QED
    BY <1>5, <2>1, <2>2
<1>10. CASE UseAnswer
  <2>1. PICK s \in DOMAIN tasks : \E i \in DOMAIN tasks[s].looks :
          /\ tasks[s].looks[i].state = "answered" /\ detailLooks' = detailLooks
          /\ \E look : SetLook(s, i, look)
    BY <1>10 DEF UseAnswer
  <2> QED
    BY <1>5, <2>1 DEF Holding
<1>11. CASE Report
  <2>1. PICK s \in DOMAIN tasks :
          /\ \A i \in DOMAIN tasks[s].looks : tasks[s].looks[i].state = "done"
          /\ tasks' = [q \in DOMAIN tasks \ {s} |-> tasks[q]]
          /\ detailLooks' = detailLooks
    BY <1>11 DEF Report
  <2>2. \A x : x \in FetchingIn(tasks') <=> x \in FetchingIn(tasks)
    <3> TAKE x
    <3>1. x \in FetchingIn(tasks') <=>
            \E q \in DOMAIN tasks' : \E k \in DOMAIN tasks'[q].looks :
              x = <<q, k>> /\ Holding(tasks'[q].looks[k])
      BY FetchingIs
    <3>2. x \in FetchingIn(tasks) <=>
            \E q \in DOMAIN tasks : \E k \in DOMAIN tasks[q].looks :
              x = <<q, k>> /\ Holding(tasks[q].looks[k])
      BY FetchingIs
    <3>3. \A k \in DOMAIN tasks[s].looks : ~Holding(tasks[s].looks[k])
      BY <2>1 DEF Holding
    <3>4. DOMAIN tasks' = DOMAIN tasks \ {s} /\ \A q \in DOMAIN tasks' : tasks'[q] = tasks[q]
      BY <2>1
    <3> QED
      BY <3>1, <3>2, <3>3, <3>4
  <2>3. Fetching' = Fetching
    BY <2>2 DEF Fetching, FetchingIn
  <2> QED
    BY <1>3, <2>1, <2>3
<1>12. CASE Detail
  <2>1. tasks' = tasks
    BY <1>12 DEF Detail, DetailLook, DetailDone
  <2>2. detailLooks' + Card(Fetching) <= GateSize
    BY <1>1, <1>2, <1>12 DEF Detail, DetailLook, DetailDone, PermitFree
  <2> QED
    BY <1>1, <1>2, <1>4, <1>12, <2>1, <2>2 DEF GateInv, GateHolds, Detail, DetailLook, DetailDone
<1> QED
  BY <1>6, <1>7, <1>8, <1>9, <1>10, <1>11, <1>12 DEF Next, CycleStep, Resolve

\* The permits are accounted for in every state.
LEMMA GateInvariant == Spec => []GateInv
<1>1. Init => GateInv
  <2> SUFFICES ASSUME Init PROVE GateInv
    OBVIOUS
  <2>1. Fetching = {} /\ detailLooks = 0
    BY DEF Init, Fetching
  <2> QED
    BY <2>1, FS_EmptySet, ResolverAssumption DEF GateInv, GateHolds
<1> QED
  BY <1>1, GateKept, ShapeInvariant, PTL DEF Spec

-----------------------------------------------------------------------------
(* Names and totals.                                                       *)

\* Every seq in use is below the next one.
LEMMA NamedBelowNext ==
  ASSUME Shape
  PROVE  nextSeq \in Nat /\ \A a \in Named : a.seq \in Nat /\ a.seq < nextSeq
<1>1. /\ \A i \in DOMAIN updates : updates[i] \in UpdateType
      /\ \A i \in DOMAIN rows : rows[i] \in RowType
  BY ElementOfSeq, LenProperties DEF Shape
<1>2. \A i \in DOMAIN updates : updates[i].type = "Tx" => updates[i].seq \in Nat
  BY <1>1 DEF UpdateType
<1>3. \A i \in DOMAIN rows : rows[i].seq \in Nat
  BY <1>1 DEF RowType
<1>4. \A b \in feeBase \cup ({cur} \ {NoRow}) : b.seq \in Nat /\ b.seq < nextSeq
  BY DEF Shape, StateOK, SeqsTaken, Taken
<1> QED
  BY <1>2, <1>3, <1>4 DEF Named, Shape, StateOK, SeqsTaken

\* What the consumer holds after an update was named before it.
LEMMA ConsumeNames ==
  ASSUME Shape, Consume
  PROVE  Named' \subseteq Named
<1> DEFINE u == updates[1]
<1>1. /\ \A i \in DOMAIN updates' : updates'[i] = updates[i + 1] /\ i + 1 \in DOMAIN updates
      /\ 1 \in DOMAIN updates /\ UNCHANGED <<tasks, cur>>
  BY ConsumeCases, ConsumeShape DEF Shape
<1>2. \A i \in DOMAIN rows' :
        \/ \E j \in DOMAIN rows : rows'[i].seq = rows[j].seq /\ rows'[i].tx = rows[j].tx
        \/ u.type = "Tx" /\ rows'[i].seq = u.seq /\ rows'[i].tx = u.tx
  <2>1. /\ rows \in Seq(RowType) /\ Len(rows) <= MaxRows
        /\ DOMAIN rows = 1..Len(rows) /\ Len(rows) \in Nat
    BY LenProperties DEF Shape
  <2>2. CASE u.type = "Block"
    BY <2>2, ConsumeCases
  <2>3. CASE u.type = "Tx"
    <3>1. NewRow(u) \in RowType /\ rows' = PushedRows(u)
      BY <2>3, ConsumeCases
    <3>2. /\ rows' \in Seq(RowType) /\ Len(rows') <= Len(rows) + 1
          /\ rows'[1] = NewRow(u) /\ \A i \in 2..Len(rows') : rows'[i] = rows[i - 1]
      BY <2>1, <3>1, PushedShape
    <3>3. DOMAIN rows' = 1..Len(rows') /\ Len(rows') \in Nat
      BY <3>2, LenProperties
    <3>4. NewRow(u).seq = u.seq /\ NewRow(u).tx = u.tx
      BY DEF NewRow
    <3>5. ASSUME NEW i \in 2..Len(rows') PROVE i - 1 \in DOMAIN rows /\ rows'[i] = rows[i - 1]
      BY <2>1, <3>2, <3>3
    <3>6. \A i \in DOMAIN rows' : i = 1 \/ i \in 2..Len(rows')
      BY <3>3
    <3> QED
      BY <2>3, <3>2, <3>4, <3>5, <3>6
  <2>4. CASE u.type = "ValueResolved"
    <3>1. u.total \in Total /\ rows' = PatchedRows(u)
      BY <2>4, ConsumeCases
    <3>2. DOMAIN rows' = DOMAIN rows /\ \A i \in DOMAIN rows : rows'[i].seq = rows[i].seq /\ rows'[i].tx = rows[i].tx
      BY <2>1, <3>1, PatchedShape
    <3> QED
      BY <2>4, <3>2
  <2> QED
    BY <2>2, <2>3, <2>4, ConsumeCases
<1>3. \A b \in feeBase' : b \in feeBase \/ (u.type = "Tx" /\ b = [seq |-> u.seq, tx |-> u.tx])
  BY ConsumeCases
<1> QED
  BY <1>1, <1>2, <1>3 DEF Named

\* A resolver reports nothing or the true total of its transaction, and is gone.
LEMMA ReportCases ==
  ASSUME Shape, Report
  PROVE  /\ UNCHANGED <<unsent, pc, cur, nextSeq, rows, feeBase, patched>>
         /\ DOMAIN updates = 1..Len(updates) /\ DOMAIN updates' = 1..(Len(updates) + 1)
         /\ Len(updates) \in Nat
         /\ \A i \in DOMAIN updates : updates'[i] = updates[i]
         /\ \E s \in DOMAIN tasks :
              /\ DOMAIN tasks' = DOMAIN tasks \ {s}
              /\ \A q \in DOMAIN tasks' : tasks'[q] = tasks[q]
              /\ updates'[Len(updates) + 1].type = "ValueResolved"
              /\ updates'[Len(updates) + 1].seq = s
              /\ updates'[Len(updates) + 1].total \in {None, TrueTotal(tasks[s].tx)}
<1>1. PICK s \in DOMAIN tasks :
        /\ \A i \in DOMAIN tasks[s].looks : tasks[s].looks[i].state = "done"
        /\ Send([type |-> "ValueResolved", seq |-> s,
                 total |-> Sum([i \in DOMAIN tasks[s].looks |-> tasks[s].looks[i].value])])
        /\ tasks' = [q \in DOMAIN tasks \ {s} |-> tasks[q]]
        /\ UNCHANGED <<serverVars, cycleVars, cache, detailLooks, consumerVars>>
  BY DEF Report
<1> DEFINE sum == Sum([i \in DOMAIN tasks[s].looks |-> tasks[s].looks[i].value])
           u == [type |-> "ValueResolved", seq |-> s, total |-> sum]
<1>2. sum \in {None, TrueTotal(tasks[s].tx)} /\ tasks[s].tx \in Pool
  BY <1>1, SumIsTrue DEF Shape
<1>3. u \in UpdateType
  <2>1. sum \in Total /\ s \in Nat
    BY <1>2 DEF Total, Shape, SeqsTaken
  <2> HIDE DEF sum
  <2> QED
    BY <2>1 DEF UpdateType
<1>4. u.type = "ValueResolved" /\ u.seq = s /\ u.total = sum /\ Send(u)
  BY <1>1
<1> HIDE DEF sum, u
<1>5. /\ DOMAIN updates = 1..Len(updates) /\ DOMAIN updates' = 1..(Len(updates) + 1)
      /\ Len(updates) \in Nat
      /\ \A i \in DOMAIN updates : updates'[i] = updates[i]
      /\ updates'[Len(updates) + 1] = u
  BY <1>3, <1>4, SendShape DEF Shape
<1>6. UNCHANGED <<unsent, pc, cur, nextSeq, rows, feeBase, patched>>
  BY <1>1 DEF serverVars, cycleVars, consumerVars
<1>7. DOMAIN tasks' = DOMAIN tasks \ {s} /\ \A q \in DOMAIN tasks' : tasks'[q] = tasks[q]
  BY <1>1
<1> QED
  BY <1>2, <1>4, <1>5, <1>6, <1>7

\* Only a transaction taken from the stream names anything new, and what it
\* names has the next seq.
LEMMA NamesGrow ==
  ASSUME Shape, [Next]_vars
  PROVE  \A a \in Named' : a \in Named \/ (a.seq = nextSeq /\ a = cur' /\ TakeTx)
<1>1. \A s \in DOMAIN tasks : TaskOK(tasks[s])
  BY DEF Shape
<1>2. ASSUME NEW s \in DOMAIN tasks, NEW i \in DOMAIN tasks[s].looks, NEW look,
             SetLook(s, i, look), UNCHANGED <<cycleVars, updates, consumerVars>>
      PROVE  Named' = Named
  <2>1. DOMAIN tasks' = DOMAIN tasks /\ \A q \in DOMAIN tasks : tasks'[q].tx = tasks[q].tx
    <3>1. /\ DOMAIN tasks' = DOMAIN tasks
          /\ \A q \in DOMAIN tasks : q # s => tasks'[q] = tasks[q]
          /\ tasks'[s] = [tx |-> tasks[s].tx, cycle |-> tasks[s].cycle,
                          looks |-> [tasks[s].looks EXCEPT ![i] = look]]
      BY <1>1, <1>2, SetLookShape
    <3> QED
      BY <3>1
  <2>2. UNCHANGED <<updates, rows, feeBase, cur>>
    BY <1>2 DEF cycleVars, consumerVars
  <2> QED
    BY <2>1, <2>2 DEF Named
<1>3. CASE ServerLearns \/ EndCycle \/ Detail \/ UNCHANGED vars
  <2>1. UNCHANGED <<tasks, updates, rows, feeBase, cur>>
    BY <1>3 DEF ServerLearns, EndCycle, Detail, DetailLook, DetailDone, vars, cycleVars, consumerVars
  <2> QED
    BY <2>1 DEF Named
<1>4. CASE Announce
  <2>1. UNCHANGED <<tasks, rows, feeBase, cur>> /\ Send([type |-> "Block"])
    BY <1>4 DEF Announce, consumerVars
  <2>2. [type |-> "Block"] \in UpdateType
    BY DEF UpdateType
  <2>3. \A i \in DOMAIN updates' : updates'[i].type = "Tx" =>
          i \in DOMAIN updates /\ updates'[i] = updates[i]
    BY <2>1, <2>2, SendShape DEF Shape
  <2> QED
    BY <2>1, <2>3 DEF Named
<1>5. CASE TakeTx
  <2>1. PICK t \in unsent : Spawn(nextSeq, t) /\ cur' = [seq |-> nextSeq, tx |-> t]
    BY <1>5 DEF TakeTx
  <2>2. UNCHANGED <<updates, rows, feeBase>>
    BY <1>5 DEF TakeTx, consumerVars
  <2>3. \A s \in DOMAIN tasks' : (s \in DOMAIN tasks /\ tasks'[s] = tasks[s])
                                   \/ (s = nextSeq /\ tasks'[s].tx = t)
    BY <2>1 DEF Spawn
  <2> QED
    BY <1>5, <2>1, <2>2, <2>3 DEF Named
<1>6. CASE SendRow
  <2>1. /\ UNCHANGED <<tasks, rows, feeBase>> /\ cur' = NoRow
        /\ Send([type |-> "Tx", seq |-> cur.seq, tx |-> cur.tx])
    BY <1>6 DEF SendRow, consumerVars
  <2>2. cur # NoRow /\ cur \in Taken
    BY <1>6 DEF SendRow, Shape, StateOK
  <2>3. cur = [seq |-> cur.seq, tx |-> cur.tx]
        /\ [type |-> "Tx", seq |-> cur.seq, tx |-> cur.tx] \in UpdateType
    BY <2>2 DEF Taken, UpdateType
  <2>4. \A i \in DOMAIN updates' : (i \in DOMAIN updates /\ updates'[i] = updates[i])
          \/ [seq |-> updates'[i].seq, tx |-> updates'[i].tx] = cur
    BY <2>1, <2>3, SendShape DEF Shape
  <2> QED
    BY <2>1, <2>2, <2>4 DEF Named
<1>7. CASE StartLook
  <2>1. PICK s \in DOMAIN tasks : \E i \in DOMAIN tasks[s].looks :
          UNCHANGED <<cycleVars, updates, consumerVars>> /\ \E look : SetLook(s, i, look)
    BY <1>7 DEF StartLook
  <2> QED
    BY <1>2, <2>1
<1>8. CASE Answer
  <2>1. PICK s \in DOMAIN tasks : \E i \in DOMAIN tasks[s].looks :
          UNCHANGED <<cycleVars, updates, consumerVars>> /\ \E look : SetLook(s, i, look)
    BY <1>8 DEF Answer
  <2> QED
    BY <1>2, <2>1
<1>9. CASE UseAnswer
  <2>1. PICK s \in DOMAIN tasks : \E i \in DOMAIN tasks[s].looks :
          UNCHANGED <<cycleVars, updates, consumerVars>> /\ \E look : SetLook(s, i, look)
    BY <1>9 DEF UseAnswer
  <2> QED
    BY <1>2, <2>1
<1>10. CASE Report
  <2>1. /\ UNCHANGED <<rows, feeBase, cur>>
        /\ \A s \in DOMAIN tasks' : s \in DOMAIN tasks /\ tasks'[s] = tasks[s]
    BY <1>10, ReportCases
  <2>2. \A i \in DOMAIN updates' : updates'[i].type = "Tx" =>
          i \in DOMAIN updates /\ updates'[i] = updates[i]
    <3>1. \A i \in DOMAIN updates' : i \in DOMAIN updates \/ i = Len(updates) + 1
      BY <1>10, ReportCases
    <3>2. updates'[Len(updates) + 1].type = "ValueResolved"
      BY <1>10, ReportCases
    <3> QED
      BY <1>10, <3>1, <3>2, ReportCases
  <2> QED
    BY <2>1, <2>2 DEF Named
<1>11. CASE Consume
  BY <1>11, ConsumeNames
<1> QED
  BY <1>3, <1>4, <1>5, <1>6, <1>7, <1>8, <1>9, <1>10, <1>11 DEF Next, CycleStep, Resolve

\* Every report on the channel was there, or is the one a resolver just made.
LEMMA ReportsFrom ==
  ASSUME Shape, [Next]_vars, NEW i \in DOMAIN updates', updates'[i].type = "ValueResolved"
  PROVE  \/ \E j \in DOMAIN updates : updates'[i] = updates[j]
         \/ \E s \in DOMAIN tasks :
              /\ Report /\ updates'[i].seq = s
              /\ updates'[i].total \in {None, TrueTotal(tasks[s].tx)}
<1>1. CASE UNCHANGED updates
  BY <1>1
<1>2. CASE Announce
  <2>1. Send([type |-> "Block"]) /\ [type |-> "Block"] \in UpdateType
    BY <1>2 DEF Announce, UpdateType
  <2> QED
    BY <2>1, SendShape DEF Shape
<1>3. CASE SendRow
  <2> DEFINE u == [type |-> "Tx", seq |-> cur.seq, tx |-> cur.tx]
  <2>1. Send(u) /\ u \in UpdateType /\ u.type = "Tx"
    BY <1>3 DEF SendRow, UpdateType, Shape, StateOK, Taken
  <2> HIDE DEF u
  <2> QED
    BY <2>1, SendShape DEF Shape
<1>4. CASE Report
  <2>1. CASE i \in DOMAIN updates
    BY <1>4, <2>1, ReportCases
  <2>2. CASE i \notin DOMAIN updates
    <3>1. i = Len(updates) + 1
      BY <1>4, <2>2, ReportCases
    <3> QED
      BY <1>4, <3>1, ReportCases
  <2> QED
    BY <2>1, <2>2
<1>5. CASE Consume
  BY <1>5, ConsumeCases, ConsumeShape DEF Shape
<1> QED
  BY <1>1, <1>2, <1>3, <1>4, <1>5
  DEF Next, CycleStep, Resolve, Detail, ServerLearns, TakeTx, EndCycle, StartLook, Answer,
      UseAnswer, DetailLook, DetailDone, vars

\* A seq that is handed out is new; a total is sent under the seq of its row.
LEMMA NamesKept ==
  ASSUME Shape, NamesInv, [Next]_vars
  PROVE  NamesInv'
<1>1. nextSeq \in Nat /\ \A a \in Named : a.seq \in Nat /\ a.seq < nextSeq
  BY NamedBelowNext
<1>2. \A a \in Named' : a \in Named \/ (a.seq = nextSeq /\ a = cur' /\ TakeTx)
  BY NamesGrow
<1>3. NamesOneTx'
  BY <1>1, <1>2 DEF NamesInv, NamesOneTx
<1>4. ReportsExact'
  <2> SUFFICES ASSUME NEW i \in DOMAIN updates', updates'[i].type = "ValueResolved",
                      updates'[i].total # None, NEW a \in Named', a.seq = updates'[i].seq
               PROVE  updates'[i].total = TrueTotal(a.tx)
    BY DEF ReportsExact
  <2>1. CASE \E j \in DOMAIN updates : updates'[i] = updates[j]
    <3>1. PICK j \in DOMAIN updates : updates'[i] = updates[j]
      BY <2>1
    <3>2. updates[j].seq < nextSeq
      BY <3>1 DEF Shape, SeqsTaken
    <3>3. a \in Named
      BY <1>1, <1>2, <3>1, <3>2
    <3> QED
      BY <3>1, <3>3 DEF NamesInv, ReportsExact
  <2>2. CASE Report /\ \E s \in DOMAIN tasks :
               updates'[i].seq = s /\ updates'[i].total \in {None, TrueTotal(tasks[s].tx)}
    <3>1. PICK s \in DOMAIN tasks :
            updates'[i].seq = s /\ updates'[i].total \in {None, TrueTotal(tasks[s].tx)}
      BY <2>2
    <3>2. s \in Nat /\ s < nextSeq
      BY DEF Shape, SeqsTaken
    <3>3. a \in Named
      BY <1>1, <1>2, <3>1, <3>2
    <3>4. [seq |-> s, tx |-> tasks[s].tx] \in Named
      BY DEF Named
    <3>5. a.tx = tasks[s].tx
      BY <3>1, <3>3, <3>4 DEF NamesInv, NamesOneTx
    <3> QED
      BY <3>1, <3>5
  <2> QED
    BY <2>1, <2>2, ReportsFrom
<1>5. NeverWrongTotal'
  <2>1. CASE UNCHANGED <<rows, patched>>
    BY <2>1 DEF NamesInv, NeverWrongTotal
  <2>2. CASE Consume
    <3> DEFINE u == updates[1]
    <3>1. 1 \in DOMAIN updates /\ rows \in Seq(RowType) /\ Len(rows) <= MaxRows
          /\ DOMAIN rows = 1..Len(rows) /\ Len(rows) \in Nat
      BY <2>2, ConsumeCases, LenProperties DEF Shape
    <3>2. \A i \in DOMAIN rows : rows[i].state = "known" => rows[i].total = TrueTotal(rows[i].tx)
      BY DEF NamesInv, NeverWrongTotal
    <3>3. CASE u.type = "Block"
      <4>1. rows' = <<>> /\ patched' = NoPatch
        BY <2>2, <3>3, ConsumeCases
      <4> QED
        BY <4>1 DEF NeverWrongTotal
    <3>4. CASE u.type = "Tx"
      <4>1. NewRow(u) \in RowType /\ rows' = PushedRows(u) /\ patched' = NoPatch
        BY <2>2, <3>4, ConsumeCases
      <4>2. /\ rows' \in Seq(RowType) /\ Len(rows') <= Len(rows) + 1
            /\ rows'[1] = NewRow(u) /\ \A i \in 2..Len(rows') : rows'[i] = rows[i - 1]
        BY <3>1, <4>1, PushedShape
      <4>3. DOMAIN rows' = 1..Len(rows') /\ Len(rows') \in Nat
        BY <4>2, LenProperties
      <4>4. NewRow(u).state # "known"
        BY DEF NewRow
      <4>5. ASSUME NEW i \in 2..Len(rows') PROVE i - 1 \in DOMAIN rows /\ rows'[i] = rows[i - 1]
        BY <3>1, <4>2, <4>3
      <4>6. ASSUME NEW i \in DOMAIN rows', rows'[i].state = "known"
            PROVE  rows'[i].total = TrueTotal(rows'[i].tx)
        <5>1. i \in 2..Len(rows')
          BY <4>2, <4>3, <4>4, <4>6
        <5> QED
          BY <3>2, <4>5, <4>6, <5>1
      <4> QED
        BY <4>1, <4>6 DEF NeverWrongTotal
    <3>5. CASE u.type = "ValueResolved"
      <4>1. u.total \in Total /\ rows' = PatchedRows(u) /\ patched' = Line(u)
        BY <2>2, <3>5, ConsumeCases
      <4>2. u.total # None => \A a \in Named : a.seq = u.seq => u.total = TrueTotal(a.tx)
        BY <3>1, <3>5 DEF NamesInv, ReportsExact
      <4>3. ASSUME NEW i \in DOMAIN rows', rows'[i].state = "known"
            PROVE  rows'[i].total = TrueTotal(rows'[i].tx)
        <5>1. /\ i \in DOMAIN rows /\ rows'[i].tx = rows[i].tx
              /\ IF Patchable(rows[i], u)
                 THEN /\ rows'[i].total = u.total
                      /\ rows'[i].state = IF u.total = None THEN "unresolvable" ELSE "known"
                 ELSE rows'[i] = rows[i]
          BY <3>1, <4>1, PatchedShape
        <5>2. CASE Patchable(rows[i], u)
          <6>1. u.total # None /\ rows[i].seq = u.seq
            BY <4>3, <5>1, <5>2 DEF Patchable
          <6>2. [seq |-> rows[i].seq, tx |-> rows[i].tx] \in Named
            BY <5>1 DEF Named
          <6>3. u.total = TrueTotal(rows[i].tx)
            BY <4>2, <6>1, <6>2
          <6> QED
            BY <5>1, <5>2, <6>3
        <5>3. CASE ~Patchable(rows[i], u)
          BY <3>2, <4>3, <5>1, <5>3
        <5> QED
          BY <5>2, <5>3
      <4>4. patched' # NoPatch => patched'.fee = FeeBase[patched'.tx] + TrueTotal(patched'.tx)
        <5> SUFFICES ASSUME patched' # NoPatch
                     PROVE  patched'.fee = FeeBase[patched'.tx] + TrueTotal(patched'.tx)
          OBVIOUS
        <5> DEFINE t == TxOf(u.seq)
        <5>1. u.total # None /\ HasBase(u.seq) /\ patched' = [tx |-> t, fee |-> FeeBase[t] + u.total]
          BY <4>1 DEF Line
        <5>2. [seq |-> u.seq, tx |-> t] \in feeBase
          BY <5>1 DEF HasBase, TxOf
        <5> HIDE DEF t
        <5>3. [seq |-> u.seq, tx |-> t] \in Named
          BY <5>2 DEF Named
        <5>4. u.total = TrueTotal(t)
          BY <4>2, <5>1, <5>3
        <5>5. patched'.tx = t /\ patched'.fee = FeeBase[t] + u.total
          BY <5>1
        <5> QED
          BY <5>4, <5>5
      <4> QED
        BY <4>3, <4>4 DEF NeverWrongTotal
    <3> QED
      BY <2>2, <3>3, <3>4, <3>5, ConsumeCases
  <2> QED
    BY <2>1, <2>2
    DEF Next, CycleStep, Resolve, Detail, ServerLearns, Announce, SendRow, TakeTx, EndCycle,
        StartLook, Answer, UseAnswer, Report, DetailLook, DetailDone, vars, consumerVars
<1> QED
  BY <1>3, <1>4, <1>5 DEF NamesInv

\* A seq names one transaction in every state.
LEMMA NamesInvariant == Spec => []NamesInv
<1>1. Init => NamesInv
  <2> SUFFICES ASSUME Init PROVE NamesInv
    OBVIOUS
  <2>1. /\ tasks = <<>> /\ rows = <<>> /\ updates = <<>> /\ feeBase = {} /\ cur = NoRow
        /\ patched = NoPatch
    BY DEF Init
  <2>2. Named = {}
    BY <2>1 DEF Named
  <2> QED
    BY <2>1, <2>2 DEF NamesInv, NamesOneTx, ReportsExact, NeverWrongTotal
<1> QED
  BY <1>1, NamesKept, ShapeInvariant, PTL DEF Spec

-----------------------------------------------------------------------------
(* The two consumers.                                                      *)

\* What one consumer makes of an update, the other makes of it too.
LEMMA FeedsKept ==
  ASSUME Shape, FeedsAgree, [Next]_vars
  PROVE  FeedsAgree'
<1>1. CASE UNCHANGED <<rows, feeBase>>
  BY <1>1 DEF FeedsAgree
<1>2. CASE Consume
  <2> DEFINE u == updates[1]
  <2>1. rows \in Seq(RowType) /\ Len(rows) <= MaxRows /\ DOMAIN rows = 1..Len(rows)
        /\ Len(rows) \in Nat
    BY LenProperties DEF Shape
  <2>2. CASE u.type = "Block"
    <3>1. rows' = <<>>
      BY <1>2, <2>2, ConsumeCases
    <3> QED
      BY <3>1 DEF FeedsAgree
  <2>3. CASE u.type = "Tx"
    <3>1. /\ NewRow(u) \in RowType /\ rows' = PushedRows(u)
          /\ feeBase' = IF Prevouts[u.tx] = <<>> THEN feeBase
                        ELSE feeBase \cup {[seq |-> u.seq, tx |-> u.tx]}
      BY <1>2, <2>3, ConsumeCases
    <3>2. /\ rows' \in Seq(RowType) /\ Len(rows') <= Len(rows) + 1
          /\ rows'[1] = NewRow(u) /\ \A i \in 2..Len(rows') : rows'[i] = rows[i - 1]
      BY <2>1, <3>1, PushedShape
    <3>3. DOMAIN rows' = 1..Len(rows') /\ Len(rows') \in Nat
      BY <3>2, LenProperties
    <3>4. ASSUME NEW i \in 2..Len(rows') PROVE i - 1 \in DOMAIN rows /\ rows'[i] = rows[i - 1]
      BY <2>1, <3>2, <3>3
    <3>5. /\ rows'[1].seq = u.seq /\ rows'[1].tx = u.tx
          /\ rows'[1].state = "pending" => Prevouts[u.tx] # <<>>
      BY <3>2 DEF NewRow
    <3>6. ASSUME NEW i \in DOMAIN rows', rows'[i].state = "pending"
          PROVE  [seq |-> rows'[i].seq, tx |-> rows'[i].tx] \in feeBase'
      <4>1. CASE i = 1
        BY <3>1, <3>5, <3>6, <4>1
      <4>2. CASE i \in 2..Len(rows')
        BY <3>1, <3>4, <3>6, <4>2 DEF FeedsAgree
      <4> QED
        BY <3>3, <4>1, <4>2
    <3> QED
      BY <3>6 DEF FeedsAgree
  <2>4. CASE u.type = "ValueResolved"
    <3>1. u.total \in Total /\ rows' = PatchedRows(u) /\ feeBase' = {b \in feeBase : b.seq # u.seq}
      BY <1>2, <2>4, ConsumeCases
    <3>2. ASSUME NEW i \in DOMAIN rows', rows'[i].state = "pending"
          PROVE  [seq |-> rows'[i].seq, tx |-> rows'[i].tx] \in feeBase'
      <4>1. /\ i \in DOMAIN rows
            /\ IF Patchable(rows[i], u)
               THEN rows'[i].state = IF u.total = None THEN "unresolvable" ELSE "known"
               ELSE rows'[i] = rows[i]
        BY <2>1, <3>1, PatchedShape
      <4>2. ~Patchable(rows[i], u) /\ rows'[i] = rows[i]
        BY <3>2, <4>1
      <4>3. rows[i].seq # u.seq
        BY <3>2, <4>2 DEF Patchable
      <4> QED
        BY <3>1, <3>2, <4>1, <4>2, <4>3 DEF FeedsAgree
    <3> QED
      BY <3>2 DEF FeedsAgree
  <2> QED
    BY <1>2, <2>2, <2>3, <2>4, ConsumeCases
<1> QED
  BY <1>1, <1>2
  DEF Next, CycleStep, Resolve, Detail, ServerLearns, Announce, SendRow, TakeTx, EndCycle,
      StartLook, Answer, UseAnswer, Report, DetailLook, DetailDone, vars, consumerVars

-----------------------------------------------------------------------------
(* No transaction twice.                                                   *)

\* Sending an update: a Block separates all that came before it, a transaction
\* leaves what is still coming.
LEMMA SendKeepsRows ==
  ASSUME Shape, RowsInv, NEW u \in UpdateType, Send(u), rows' = rows,
         \/ u.type = "Block" /\ cur' = NoRow
         \/ /\ u.type = "Tx" /\ cur # NoRow /\ u.tx = cur.tx
            /\ cur' = NoRow /\ unsent' = unsent
         \/ u.type = "ValueResolved" /\ UNCHANGED <<cur, unsent>>,
         pc' = "announce" => unsent' = {}
  PROVE  RowsInv'
<1> DEFINE n == Len(updates)
<1>1. /\ n \in Nat /\ DOMAIN updates = 1..n /\ DOMAIN updates' = 1..(n + 1)
      /\ \A i \in 1..n : updates'[i] = updates[i]
      /\ updates'[n + 1] = u
  BY SendShape DEF Shape
<1> HIDE DEF n
<1>2. Coming' \subseteq Coming \/ u.type = "Block"
  BY DEF Coming
<1>3. ASSUME NEW i \in 0..(n + 1), LastFrom(i)', i # n + 1
      PROVE  LastFrom(i) /\ u.type # "Block"
  BY <1>1, <1>3 DEF LastFrom
<1>4. ASSUME NEW i \in 1..(n + 1), NEW j \in 1..(n + 1), i < j, IsTx(i)', IsTx(j)',
             updates'[i].tx = updates'[j].tx
      PROVE  \E k \in i..j : updates'[k].type = "Block"
  <2>1. CASE j \in 1..n
    <3>1. i \in 1..n /\ IsTx(i) /\ IsTx(j) /\ updates[i].tx = updates[j].tx
      BY <1>1, <1>4, <2>1 DEF IsTx
    <3>2. PICK k \in i..j : updates[k].type = "Block"
      BY <1>1, <1>4, <2>1, <3>1 DEF RowsInv
    <3>3. k \in 1..n
      BY <1>1, <2>1, <3>2
    <3> QED
      BY <1>1, <3>2, <3>3
  <2>2. CASE j = n + 1
    <3>1. i \in 1..n /\ IsTx(i) /\ u.type = "Tx" /\ updates[i].tx = cur.tx /\ cur.tx \in Coming
      BY <1>1, <1>4, <2>2 DEF IsTx, Coming
    <3>2. ~LastFrom(i)
      BY <1>1, <3>1 DEF RowsInv
    <3>3. PICK k \in 1..n : k > i /\ updates[k].type = "Block"
      BY <1>1, <3>2 DEF LastFrom
    <3> QED
      BY <1>1, <2>2, <3>3
  <2> QED
    BY <1>1, <2>1, <2>2
<1>5. ASSUME NEW i \in DOMAIN rows, NEW j \in 1..(n + 1), IsTx(j)', rows[i].tx = updates'[j].tx
      PROVE  \E k \in 1..j : updates'[k].type = "Block"
  <2>1. CASE j \in 1..n
    <3>1. IsTx(j) /\ rows[i].tx = updates[j].tx
      BY <1>1, <1>5, <2>1 DEF IsTx
    <3>2. PICK k \in 1..j : updates[k].type = "Block"
      BY <1>1, <2>1, <3>1 DEF RowsInv
    <3>3. k \in 1..n
      BY <1>1, <2>1, <3>2
    <3> QED
      BY <1>1, <3>2, <3>3
  <2>2. CASE j = n + 1
    <3>1. u.type = "Tx" /\ rows[i].tx = cur.tx /\ cur.tx \in Coming
      BY <1>1, <1>5, <2>2 DEF IsTx, Coming
    <3>2. ~LastFrom(0)
      BY <1>1, <3>1 DEF RowsInv
    <3>3. PICK k \in 1..n : updates[k].type = "Block"
      BY <1>1, <3>2 DEF LastFrom
    <3> QED
      BY <1>1, <2>2, <3>3
  <2> QED
    BY <1>1, <2>1, <2>2
<1>6. ASSUME NEW i \in 1..(n + 1), IsTx(i)', LastFrom(i)'
      PROVE  updates'[i].tx \notin Coming'
  <2>1. CASE i \in 1..n
    <3>1. LastFrom(i) /\ u.type # "Block" /\ IsTx(i) /\ updates'[i] = updates[i]
      BY <1>1, <1>3, <1>6, <2>1 DEF IsTx
    <3> QED
      BY <1>1, <1>2, <2>1, <3>1 DEF RowsInv
  <2>2. CASE i = n + 1
    <3>1. u.type = "Tx" /\ Coming' = unsent /\ cur.tx \notin unsent
      BY <1>1, <1>6, <2>2 DEF IsTx, Coming, RowsInv
    <3> QED
      BY <1>1, <2>2, <3>1
  <2> QED
    BY <1>1, <2>1, <2>2
<1>7. ASSUME NEW i \in DOMAIN rows, LastFrom(0)'
      PROVE  rows[i].tx \notin Coming'
  <2>1. LastFrom(0) /\ u.type # "Block"
    BY <1>1, <1>3, <1>7
  <2> QED
    BY <1>2, <2>1 DEF RowsInv
<1>8. NoDuplicateRows' /\ (cur' # NoRow => cur'.tx \notin unsent')
  BY DEF RowsInv, NoDuplicateRows
<1> QED
  BY <1>1, <1>4, <1>5, <1>6, <1>7, <1>8 DEF RowsInv

\* Reading an update: a Block empties the list, a transaction moves from the
\* channel to its top.
LEMMA ConsumeKeepsRows ==
  ASSUME Shape, RowsInv, Consume
  PROVE  RowsInv'
<1> DEFINE u == updates[1]
           n == Len(updates)
<1>1. /\ n \in Nat \ {0} /\ DOMAIN updates = 1..n /\ DOMAIN updates' = 1..(n - 1)
      /\ \A i \in 1..(n - 1) : updates'[i] = updates[i + 1]
      /\ UNCHANGED <<cur, unsent, pc>>
  BY ConsumeCases, ConsumeShape DEF Shape
<1> HIDE DEF n
<1>2. Coming' = Coming
  BY <1>1 DEF Coming
<1>3. ASSUME NEW i \in 0..(n - 1), LastFrom(i)'
      PROVE  LastFrom(i + 1)
  <2> SUFFICES ASSUME NEW k \in 1..n, k > i + 1 PROVE updates[k].type # "Block"
    BY <1>1 DEF LastFrom
  <2>1. k - 1 \in 1..(n - 1) /\ k - 1 > i /\ updates'[k - 1] = updates[k]
    BY <1>1
  <2> QED
    BY <1>1, <1>3, <2>1 DEF LastFrom
<1>4. ASSUME NEW i \in 1..n, NEW j \in 1..n, 1 < j, i <= j,
             \E k \in i..j : updates[k].type = "Block", i > 1 \/ u.type # "Block"
      PROVE  \E k \in 1..(j - 1) : k >= i - 1 /\ updates'[k].type = "Block"
  <2>1. PICK k \in i..j : updates[k].type = "Block"
    BY <1>4
  <2>2. k # 1
    BY <1>4, <2>1
  <2>3. k - 1 \in 1..(j - 1) /\ k - 1 \in 1..(n - 1) /\ k - 1 >= i - 1
        /\ updates'[k - 1] = updates[k]
    BY <1>1, <2>1, <2>2
  <2> QED
    BY <2>1, <2>3
<1>5. ASSUME NEW i \in 1..(n - 1), NEW j \in 1..(n - 1), i < j, IsTx(i)', IsTx(j)',
             updates'[i].tx = updates'[j].tx
      PROVE  \E k \in i..j : updates'[k].type = "Block"
  <2>1. /\ i + 1 \in 1..n /\ j + 1 \in 1..n /\ i + 1 < j + 1 /\ IsTx(i + 1) /\ IsTx(j + 1)
        /\ updates[i + 1].tx = updates[j + 1].tx
    BY <1>1, <1>5 DEF IsTx
  <2>2. \E k \in (i + 1)..(j + 1) : updates[k].type = "Block"
    BY <1>1, <2>1 DEF RowsInv
  <2>3. \E k \in 1..j : k >= i /\ updates'[k].type = "Block"
    BY <1>4, <2>1, <2>2
  <2> QED
    BY <2>3
<1>6. ASSUME NEW i \in 1..(n - 1), IsTx(i)', LastFrom(i)'
      PROVE  updates'[i].tx \notin Coming'
  <2>1. i + 1 \in 1..n /\ IsTx(i + 1) /\ LastFrom(i + 1) /\ updates'[i] = updates[i + 1]
    BY <1>1, <1>3, <1>6 DEF IsTx
  <2> QED
    BY <1>1, <1>2, <2>1 DEF RowsInv
\* Where the rows come from: the head of the channel, or the rows before.
<1>7. /\ u.type = "Block" => rows' = <<>>
      /\ \A i \in DOMAIN rows' :
           \/ u.type = "Tx" /\ i = 1 /\ rows'[i].tx = u.tx
           \/ /\ u.type = "Tx" /\ i # 1 /\ i - 1 \in DOMAIN rows /\ rows'[i].tx = rows[i - 1].tx
              /\ i \in Nat
           \/ u.type = "ValueResolved" /\ i \in DOMAIN rows /\ rows'[i].tx = rows[i].tx
  <2>1. rows \in Seq(RowType) /\ Len(rows) <= MaxRows /\ DOMAIN rows = 1..Len(rows)
        /\ Len(rows) \in Nat
    BY LenProperties DEF Shape
  <2>2. CASE u.type = "Block"
    <3>1. rows' = <<>>
      BY <2>2, ConsumeCases
    <3> QED
      BY <3>1
  <2>3. CASE u.type = "Tx"
    <3>1. NewRow(u) \in RowType /\ rows' = PushedRows(u)
      BY <2>3, ConsumeCases
    <3>2. /\ rows' \in Seq(RowType) /\ Len(rows') <= Len(rows) + 1
          /\ rows'[1] = NewRow(u) /\ \A i \in 2..Len(rows') : rows'[i] = rows[i - 1]
      BY <2>1, <3>1, PushedShape
    <3>3. DOMAIN rows' = 1..Len(rows') /\ Len(rows') \in Nat
      BY <3>2, LenProperties
    <3>4. ASSUME NEW i \in 2..Len(rows') PROVE i - 1 \in DOMAIN rows /\ rows'[i] = rows[i - 1]
      BY <2>1, <3>2, <3>3
    <3>5. rows'[1].tx = u.tx
      BY <3>2 DEF NewRow
    <3>6. \A i \in DOMAIN rows' : i = 1 \/ (i \in 2..Len(rows') /\ i # 1 /\ i \in Nat)
      BY <3>3
    <3> QED
      BY <2>3, <3>4, <3>5, <3>6
  <2>4. CASE u.type = "ValueResolved"
    <3>1. u.total \in Total /\ rows' = PatchedRows(u)
      BY <2>4, ConsumeCases
    <3>2. DOMAIN rows' = DOMAIN rows /\ \A i \in DOMAIN rows : rows'[i].tx = rows[i].tx
      BY <2>1, <3>1, PatchedShape
    <3> QED
      BY <2>4, <3>2
  <2> QED
    BY <2>2, <2>3, <2>4, ConsumeCases
<1>8. NoDuplicateRows'
  <2> SUFFICES ASSUME NEW i \in DOMAIN rows', NEW j \in DOMAIN rows', rows'[i].tx = rows'[j].tx
               PROVE  i = j
    BY DEF NoDuplicateRows
  <2>1. \A a, b \in DOMAIN rows : rows[a].tx = rows[b].tx => a = b
    BY DEF RowsInv, NoDuplicateRows
  <2>2. u.type = "Tx" => \A a \in DOMAIN rows : rows[a].tx # u.tx
    <3> SUFFICES ASSUME u.type = "Tx", NEW a \in DOMAIN rows, rows[a].tx = u.tx PROVE FALSE
      OBVIOUS
    <3>1. \A r \in DOMAIN rows : \A m \in DOMAIN updates :
            (IsTx(m) /\ rows[r].tx = updates[m].tx) => \E k \in 1..m : updates[k].type = "Block"
      BY DEF RowsInv
    <3>2. 1 \in DOMAIN updates /\ IsTx(1) /\ rows[a].tx = updates[1].tx
      BY <1>1 DEF IsTx
    <3>3. \E k \in 1..1 : updates[k].type = "Block"
      BY <3>1, <3>2
    <3> QED
      BY <3>3
  <2>3. rows \in Seq(RowType) /\ DOMAIN rows = 1..Len(rows) /\ Len(rows) \in Nat
    BY LenProperties DEF Shape
  <2>4. CASE u.type = "Tx"
    <3>1. CASE i = 1 /\ j = 1
      BY <3>1
    <3>2. CASE (i = 1) # (j = 1)
      BY <1>7, <2>2, <2>4, <3>2
    <3>3. CASE i # 1 /\ j # 1
      <4>1. /\ i - 1 \in DOMAIN rows /\ j - 1 \in DOMAIN rows /\ i \in Nat /\ j \in Nat
            /\ rows[i - 1].tx = rows[j - 1].tx
        BY <1>7, <2>4, <3>3
      <4>2. i - 1 = j - 1
        BY <2>1, <4>1
      <4> QED
        BY <4>1, <4>2
    <3> QED
      BY <3>1, <3>2, <3>3
  <2>5. CASE u.type # "Tx"
    BY <1>7, <2>1, <2>5
  <2> QED
    BY <2>4, <2>5
<1>9. ASSUME NEW i \in DOMAIN rows', NEW j \in 1..(n - 1), IsTx(j)', rows'[i].tx = updates'[j].tx
      PROVE  \E k \in 1..j : updates'[k].type = "Block"
  <2>1. /\ j + 1 \in 1..n /\ 1 \in 1..n /\ 1 < j + 1 /\ IsTx(j + 1)
        /\ updates'[j].tx = updates[j + 1].tx
    BY <1>1, <1>9 DEF IsTx
  <2>2. u.type # "Block"
    BY <1>7
  <2>3. \E k \in 1..(j + 1) : updates[k].type = "Block"
    <3>1. CASE u.type = "Tx" /\ rows'[i].tx = u.tx
      BY <1>1, <1>9, <2>1, <3>1 DEF RowsInv, IsTx
    <3>2. CASE \E a \in DOMAIN rows : rows'[i].tx = rows[a].tx
      BY <1>1, <1>9, <2>1, <3>2 DEF RowsInv
    <3> QED
      BY <1>7, <3>1, <3>2
  <2>4. \E k \in 1..j : k >= 0 /\ updates'[k].type = "Block"
    BY <1>4, <2>1, <2>2, <2>3
  <2> QED
    BY <2>4
<1>10. ASSUME NEW i \in DOMAIN rows', LastFrom(0)'
       PROVE  rows'[i].tx \notin Coming'
  <2>1. LastFrom(1) /\ 1 \in DOMAIN updates /\ u.type # "Block"
    BY <1>1, <1>3, <1>7, <1>10
  <2>2. LastFrom(0)
    BY <1>1, <2>1 DEF LastFrom
  <2>3. CASE u.type = "Tx" /\ rows'[i].tx = u.tx
    BY <1>2, <2>1, <2>3 DEF RowsInv, IsTx
  <2>4. CASE \E a \in DOMAIN rows : rows'[i].tx = rows[a].tx
    BY <1>2, <2>2, <2>4 DEF RowsInv
  <2> QED
    BY <1>7, <2>3, <2>4
<1> QED
  BY <1>1, <1>5, <1>6, <1>8, <1>9, <1>10 DEF RowsInv

\* No step shows a transaction again before the next Block.
LEMMA RowsKept ==
  ASSUME Shape, RowsInv, [Next]_vars
  PROVE  RowsInv'
<1>1. CASE UNCHANGED <<updates, rows, cur, unsent, pc>>
  <2>1. \A i : (LastFrom(i)' <=> LastFrom(i)) /\ (IsTx(i)' <=> IsTx(i))
    BY <1>1 DEF LastFrom, IsTx
  <2>2. Coming' = Coming
    BY <1>1 DEF Coming
  <2> QED
    BY <1>1, <2>1, <2>2 DEF RowsInv, NoDuplicateRows
<1>2. CASE Announce
  <2>1. Send([type |-> "Block"]) /\ rows' = rows /\ cur' = NoRow /\ pc' = "stream"
    BY <1>2 DEF Announce, consumerVars, Shape, StateOK
  <2>2. [type |-> "Block"] \in UpdateType
    BY DEF UpdateType
  <2> QED
    BY <2>1, <2>2, SendKeepsRows
<1>3. CASE TakeTx
  <2>1. PICK t \in unsent : unsent' = unsent \ {t} /\ cur' = [seq |-> nextSeq, tx |-> t]
    BY <1>3 DEF TakeTx
  <2>2. UNCHANGED <<updates, rows>> /\ pc' = "send"
    BY <1>3 DEF TakeTx, consumerVars
  <2>3. Coming' \subseteq Coming /\ cur'.tx \notin unsent'
    BY <2>1 DEF Coming
  <2>4. \A i : (LastFrom(i)' <=> LastFrom(i)) /\ (IsTx(i)' <=> IsTx(i))
    BY <2>2 DEF LastFrom, IsTx
  <2> QED
    BY <2>2, <2>3, <2>4 DEF RowsInv, NoDuplicateRows
<1>4. CASE SendRow
  <2> DEFINE u == [type |-> "Tx", seq |-> cur.seq, tx |-> cur.tx]
  <2>1. /\ Send(u) /\ rows' = rows /\ cur' = NoRow /\ pc' = "stream" /\ unsent' = unsent
        /\ cur # NoRow /\ cur \in Taken
    BY <1>4 DEF SendRow, serverVars, consumerVars, Shape, StateOK
  <2>2. u \in UpdateType /\ u.type = "Tx" /\ u.tx = cur.tx
    BY <2>1 DEF UpdateType, Taken
  <2> HIDE DEF u
  <2> QED
    BY <2>1, <2>2, SendKeepsRows
<1>5. CASE EndCycle
  <2>1. UNCHANGED <<updates, rows, cur>> /\ unsent' = {} /\ cur = NoRow
    BY <1>5 DEF EndCycle, consumerVars, Shape, StateOK
  <2>2. Coming' \subseteq Coming
    BY <2>1 DEF Coming
  <2>3. \A i : (LastFrom(i)' <=> LastFrom(i)) /\ (IsTx(i)' <=> IsTx(i))
    BY <2>1 DEF LastFrom, IsTx
  <2> QED
    BY <2>1, <2>2, <2>3 DEF RowsInv, NoDuplicateRows
<1>6. CASE Report
  <2>1. PICK s \in DOMAIN tasks :
          /\ \A i \in DOMAIN tasks[s].looks : tasks[s].looks[i].state = "done"
          /\ Send([type |-> "ValueResolved", seq |-> s,
                   total |-> Sum([i \in DOMAIN tasks[s].looks |-> tasks[s].looks[i].value])])
    BY <1>6 DEF Report
  <2> DEFINE sum == Sum([i \in DOMAIN tasks[s].looks |-> tasks[s].looks[i].value])
             u == [type |-> "ValueResolved", seq |-> s, total |-> sum]
  <2>2. sum \in Total /\ s \in Nat
    BY <2>1, SumIsTrue DEF Shape, Total, SeqsTaken
  <2>3. Send(u)
    BY <2>1
  <2> HIDE DEF sum
  <2>4. u \in UpdateType /\ u.type = "ValueResolved"
    BY <2>2 DEF UpdateType
  <2> HIDE DEF u
  <2>5. rows' = rows /\ UNCHANGED <<cur, unsent, pc>>
    BY <1>6, ReportCases
  <2> QED
    BY <2>3, <2>4, <2>5, SendKeepsRows DEF RowsInv
<1>7. CASE Consume
  BY <1>7, ConsumeKeepsRows
<1> QED
  BY <1>1, <1>2, <1>3, <1>4, <1>5, <1>6, <1>7
  DEF Next, CycleStep, Resolve, Detail, ServerLearns, StartLook, Answer, UseAnswer, DetailLook,
      DetailDone, vars, serverVars, cycleVars, consumerVars

-----------------------------------------------------------------------------
(* The theorems.                                                           *)

\* Every variable keeps its type, and the pending list never outgrows MAX_ROWS
\* (the state of tail, spawn_resolve and App's rows).
THEOREM ResolverTypeCorrect == Spec => []ResolverTypeOK
<1>1. Shape => ResolverTypeOK
  <2> SUFFICES ASSUME Shape PROVE ResolverTypeOK
    OBVIOUS
  <2>1. \A i \in DOMAIN rows : rows[i] \in RowType
    BY ElementOfSeq, LenProperties DEF Shape
  <2>2. \A s \in DOMAIN tasks : tasks[s].tx \in Pool /\ DOMAIN tasks[s].looks = DOMAIN Prevouts[tasks[s].tx]
    BY DEF Shape, TaskOK
  <2>3. Taken \subseteq SeqTx
    BY ResolverAssumption DEF Taken, SeqTx
  <2> QED
    BY <2>1, <2>2, <2>3 DEF Shape, StateOK, SeqsTaken, ResolverTypeOK, RowType
<1> QED
  BY <1>1, ShapeInvariant, PTL

\* The gate bounds the lookups of every resolver and of the tx detail together,
\* whatever its size and however many cycles they are from (RESOLVE_CONCURRENCY).
THEOREM GateAlwaysHolds == Spec => []GateHolds
<1>1. GateInv => GateHolds
  BY DEF GateInv
<1> QED
  BY <1>1, GateInvariant, PTL

\* No row is ever patched, and no fee finished, with a wrong or partial total,
\* however late the report (spawn_resolve, apply, the feed's fee_base).
THEOREM TotalsNeverWrong == Spec => []NeverWrongTotal
<1>1. NamesInv => NeverWrongTotal
  BY DEF NamesInv
<1> QED
  BY <1>1, NamesInvariant, PTL

\* A seq names one transaction for the whole session, over every reconnect
\* (next_seq, handed on by each cycle).
THEOREM SeqsNameOneTx == Spec => []SeqNamesOneTx
<1>1. NamesInv => SeqNamesOneTx
  BY DEF NamesInv, NamesOneTx, Named, SeqNamesOneTx
<1> QED
  BY <1>1, NamesInvariant, PTL

\* The two consumers of the channel agree on the rows that await a total
\* (apply and the NDJSON feed's run).
THEOREM FeedsAlwaysAgree == Spec => []FeedsAgree
<1>1. Init => FeedsAgree
  BY DEF Init, FeedsAgree
<1> QED
  BY <1>1, FeedsKept, ShapeInvariant, PTL DEF Spec

\* A request that failed never makes a confirmed funder unresolvable (the
\* funding cache takes definite answers alone).
THEOREM ConfirmedStaysReadable == Spec => []ConfirmedNeverAbsent
<1>1. Shape => ConfirmedNeverAbsent
  BY DEF Shape, StateOK
<1> QED
  BY <1>1, ShapeInvariant, PTL

\* A reconnect that sends the mempool again never lists a transaction twice,
\* because its Block is read before it (cycle and apply).
THEOREM RowsNeverRepeat == Spec => []NoDuplicateRows
<1>1. Init => RowsInv
  BY DEF Init, RowsInv, NoDuplicateRows, IsTx, LastFrom, Coming
<1>2. RowsInv => NoDuplicateRows
  BY DEF RowsInv
<1> QED
  BY <1>1, <1>2, RowsKept, ShapeInvariant, PTL DEF Spec
=============================================================================
