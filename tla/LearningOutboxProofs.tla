------------------------- MODULE LearningOutboxProofs -------------------------
(***************************************************************************)
(* The safety of delivery, for any rows, dispatches, limits and budgets.   *)
(*                                                                         *)
(* The inductive invariant ties what a dispatch remembers to the table: an *)
(* item that is still its own carries the present attempt count, below the *)
(* limit; an accepted item is in the record store; and while no lease has  *)
(* ended under a running dispatch, an item in hand is locked by the one    *)
(* who holds it, or done with.                                             *)
(***************************************************************************)
EXTENDS LearningOutbox, FiniteSetTheorems, TLAPS

\* What each dispatch holds: distinct rows, with counts that hold while it owns them.
ItemsInv ==
  \A w \in Dispatches : \A i \in DOMAIN batch[w] :
    /\ batch[w][i].attempts < MaxAttempts
    /\ Owns(w, batch[w][i].row) => attempts[batch[w][i].row] = batch[w][i].attempts
    /\ \A j \in DOMAIN batch[w] : batch[w][i].row = batch[w][j].row => i = j

\* An item whose post was accepted is in the record store.
PostedInv ==
  \A w \in Dispatches : Running(w) /\ step[w] = "accepted" => Head1(w).row \in lrs

\* The row is locked by w under a live lease, or nobody claims it again.
Secured(w, r) ==
  \/ status[r] = "processing" /\ lockedBy[r] = w /\ r \notin expired
  \/ status[r] \in {"sent", "purged"}

LeaseInv ==
  overruns = 0 =>
    \A w \in Dispatches : \A i \in DOMAIN batch[w] :
      /\ Secured(w, batch[w][i].row)
      /\ \A v \in Dispatches \ {w} : \A j \in DOMAIN batch[v] : batch[v][j].row # batch[w][i].row

IInv ==
  /\ TypeOK
  /\ ItemsInv
  /\ DeadAfterMaxAttempts
  /\ PostedInv
  /\ SentIsStored
  /\ LeaseInv

USE RowsAssumption, LimitsAssumption, BudgetsAssumption, DispatchesAssumption
-----------------------------------------------------------------------------
(* Queue and batches *)

\* The number of rows that satisfy something is a number.
LEMMA CountIsNat == ASSUME NEW S \in SUBSET Rows PROVE Cardinality(S) \in Nat
BY FS_Subset, FS_CardinalityType

LEMMA EnqueuedType ==
  ASSUME due \in [Rows -> Nat], NEW r \in Rows, Enqueued(r)
  PROVE  due' \in [Rows -> Nat]
<1>1. Cardinality({q \in Rows : due[q] > 0}) \in Nat
  BY CountIsNat
<1> QED BY <1>1 DEF Enqueued

LEMMA DequeuedType ==
  ASSUME due \in [Rows -> Nat], NEW r \in Rows, Dequeued(r)
  PROVE  due' \in [Rows -> Nat]
<1>1. ASSUME NEW q \in Rows
      PROVE  (IF q = r THEN 0 ELSE IF due[r] \in 1..due[q] THEN due[q] - 1 ELSE due[q]) \in Nat
  OBVIOUS
<1> QED BY <1>1 DEF Dequeued

\* The first item of a batch, and what is left without it.
LEMMA BatchTail ==
  ASSUME NEW s \in Seq(Items), s # <<>>
  PROVE  /\ 1 \in DOMAIN s /\ Head(s) = s[1] /\ Head(s) \in Items
         /\ Tail(s) \in Seq(Items)
         /\ \A i \in DOMAIN Tail(s) :
              i \in Nat /\ i + 1 \in DOMAIN s /\ i + 1 # 1 /\ Tail(s)[i] = s[i + 1]
<1>1. PICK n \in Nat : n = Len(s) /\ n > 0 /\ DOMAIN s = 1..n
  OBVIOUS
<1>2. Tail(s) \in Seq(Items) /\ DOMAIN Tail(s) = 1..(n - 1)
  BY <1>1
<1>3. \A i \in 1..(n - 1) : Tail(s)[i] = s[i + 1]
  BY <1>1
<1>4. 1 \in DOMAIN s /\ Head(s) = s[1] /\ Head(s) \in Items
  BY <1>1
<1> QED BY <1>1, <1>2, <1>3, <1>4

LEMMA BatchDomain ==
  ASSUME NEW s \in Seq(Items), NEW i \in DOMAIN s
  PROVE  s[i] \in Items /\ s[i].row \in Rows /\ s[i].attempts \in Nat
<1>1. s[i] \in Items
  OBVIOUS
<1> QED BY <1>1 DEF Items

\* A claimed batch: its rows may be claimed, and are distinct.
LEMMA NextBatchClaimable ==
  NextBatch \subseteq {r \in Rows : Claimable(r)}
BY DEF NextBatch

LEMMA ClaimedBatch ==
  ASSUME TypeOK, NEW b \in InOrder(NextBatch)
  PROVE  /\ [i \in DOMAIN b |-> [row |-> b[i], attempts |-> attempts[b[i]]]] \in Seq(Items)
         /\ \A i \in DOMAIN b : b[i] \in NextBatch /\ b[i] \in Rows
         /\ \A i, j \in DOMAIN b : b[i] = b[j] => i = j
<1>1. PICK n \in Nat : n = Cardinality(NextBatch)
  BY CountIsNat, NextBatchClaimable
<1>2. b \in [1..n -> NextBatch]
  BY <1>1 DEF InOrder
<1>3. \A i \in 1..n : b[i] \in Rows /\ attempts[b[i]] \in Nat
  BY <1>2, NextBatchClaimable DEF TypeOK
<1>4. [i \in DOMAIN b |-> [row |-> b[i], attempts |-> attempts[b[i]]]] \in Seq(Items)
  BY <1>2, <1>3 DEF Items
<1>5. ASSUME NEW i \in 1..n, NEW j \in 1..n, i < j PROVE b[i] # b[j]
  <2>1. due[b[i]] < due[b[j]]
    BY <1>2, <1>5 DEF InOrder
  <2>2. due[b[i]] \in Nat
    BY <1>3 DEF TypeOK
  <2> QED BY <2>1, <2>2
<1> QED BY <1>2, <1>3, <1>4, <1>5
-----------------------------------------------------------------------------
(* Steps that leave every dispatch as it is *)

\* What rows coming, falling due, losing their lease, being replayed or purged may
\* do to any row: none begins to be processed or sent, and what is done with stays so.
LEMMA RowChange ==
  ASSUME IInv, NEW r \in Rows,
         Record(r) \/ DelayPasses(r) \/ LeaseEnds(r) \/ ReplayDead(r) \/ Purge(r),
         NEW q \in Rows
  PROVE  /\ status'[q] \in Statuses /\ attempts'[q] \in 0..MaxAttempts
         /\ status'[q] = "processing" => /\ status[q] = "processing"
                                         /\ lockedBy'[q] = lockedBy[q]
                                         /\ attempts'[q] = attempts[q]
         /\ status'[q] = "sent" => status[q] = "sent"
         /\ status[q] \in {"sent", "purged"} => status'[q] \in {"sent", "purged"}
         /\ status[q] = "processing" => status'[q] \in {"processing", "purged"}
         /\ status'[q] # "purged" => (status'[q] = "dead" <=> attempts'[q] = MaxAttempts)
<1> DEFINE dead(s, a) == s # "purged" => (s = "dead" <=> a = MaxAttempts)
<1>1. /\ status \in [Rows -> Statuses] /\ attempts \in [Rows -> 0..MaxAttempts]
      /\ lockedBy \in [Rows -> Dispatches \cup {Nobody}]
      /\ dead(status[q], attempts[q]) /\ dead(status[r], attempts[r])
  BY DEF IInv, TypeOK, DeadAfterMaxAttempts
<1> USE DEF Statuses
<1>2. CASE Record(r)
  BY <1>1, <1>2 DEF Record
<1>3. CASE DelayPasses(r)
  BY <1>1, <1>3 DEF DelayPasses
<1>4. CASE LeaseEnds(r)
  BY <1>1, <1>4 DEF LeaseEnds
<1>5. CASE ReplayDead(r)
  BY <1>1, <1>5 DEF ReplayDead
<1>6. CASE Purge(r)
  BY <1>1, <1>6 DEF Purge, Unlocked
<1> QED BY <1>2, <1>3, <1>4, <1>5, <1>6

LEMMA RowTypes ==
  ASSUME IInv, NEW r \in Rows,
         Record(r) \/ DelayPasses(r) \/ LeaseEnds(r) \/ ReplayDead(r) \/ Purge(r)
  PROVE  TypeOK'
<1> USE DEF dispatchVars, budget, rowVars
<1>0. TypeOK
  BY DEF IInv
<1>1. CASE Record(r)
  <2>1. due' \in [Rows -> Nat]
    BY <1>0, <1>1, EnqueuedType DEF TypeOK, Record
  <2> QED BY <1>0, <1>1, <2>1 DEF TypeOK, Record, Statuses
<1>2. CASE DelayPasses(r)
  <2>1. due' \in [Rows -> Nat]
    BY <1>0, <1>2, EnqueuedType DEF TypeOK, DelayPasses
  <2> QED BY <1>0, <1>2, <2>1 DEF TypeOK, DelayPasses
<1>3. CASE LeaseEnds(r)
  <2>1. overruns' \in 0..MaxOverruns /\ expired' \subseteq Rows
    BY <1>0, <1>3 DEF TypeOK, LeaseEnds
  <2> QED BY <1>0, <1>3, <2>1 DEF TypeOK, LeaseEnds
<1>4. CASE ReplayDead(r)
  <2>1. due' \in [Rows -> Nat]
    BY <1>0, <1>4, EnqueuedType DEF TypeOK, ReplayDead
  <2>2. status' \in [Rows -> Statuses] /\ attempts' \in [Rows -> 0..MaxAttempts]
    BY <1>0, <1>4 DEF TypeOK, ReplayDead, Statuses
  <2>3. replays' \in 0..MaxReplays
    BY <1>0, <1>4 DEF TypeOK, ReplayDead
  <2> QED BY <1>0, <1>4, <2>1, <2>2, <2>3 DEF TypeOK, ReplayDead
<1>5. CASE Purge(r)
  <2>1. due' \in [Rows -> Nat]
    BY <1>0, <1>5, DequeuedType DEF TypeOK, Purge
  <2> QED BY <1>0, <1>5, <2>1 DEF TypeOK, Purge, Statuses, Unlocked
<1> QED BY <1>1, <1>2, <1>3, <1>4, <1>5

\* A lease that ends under its running dispatch is counted.
LEMMA LeaseKept ==
  ASSUME IInv, NEW r \in Rows,
         Record(r) \/ DelayPasses(r) \/ LeaseEnds(r) \/ ReplayDead(r) \/ Purge(r),
         overruns' = 0, NEW w \in Dispatches, NEW i \in DOMAIN batch[w],
         NEW q \in Rows, q = batch[w][i].row,
         status'[q] = "processing", lockedBy[q] = w, q \notin expired
  PROVE  q \notin expired'
<1>1. overruns \in Nat /\ Running(w) /\ expired \subseteq Rows
  BY DEF IInv, TypeOK, Running
<1>2. CASE LeaseEnds(r) /\ r = q
  <2>1. Running(lockedBy[r]) /\ r \in {batch[lockedBy[r]][k].row : k \in DOMAIN batch[lockedBy[r]]}
    BY <1>1, <1>2
  <2>2. overruns' = overruns + 1
    BY <1>2, <2>1 DEF LeaseEnds
  <2> QED BY <1>1, <2>2
<1>3. CASE LeaseEnds(r) /\ r # q
  BY <1>3 DEF LeaseEnds
<1>4. CASE ~LeaseEnds(r)
  BY <1>4 DEF Record, DelayPasses, ReplayDead, Purge, Unlocked, rowVars
<1> QED BY <1>2, <1>3, <1>4

\* Rows come, fall due, lose their lease, are replayed or purged.
LEMMA RowStep ==
  ASSUME IInv, NEW r \in Rows,
         Record(r) \/ DelayPasses(r) \/ LeaseEnds(r) \/ ReplayDead(r) \/ Purge(r)
  PROVE  IInv'
<1> DEFINE anyStep == Record(r) \/ DelayPasses(r) \/ LeaseEnds(r) \/ ReplayDead(r) \/ Purge(r)
<1>0. /\ batch' = batch /\ step' = step /\ lrs' = lrs
      /\ batch \in [Dispatches -> Seq(Items)]
      /\ overruns' = 0 => overruns = 0
  BY DEF IInv, TypeOK, Record, DelayPasses, LeaseEnds, ReplayDead, Purge, dispatchVars, budget
<1>1. TypeOK'
  BY RowTypes
<1>2. ItemsInv'
  <2> SUFFICES ASSUME NEW w \in Dispatches, NEW i \in DOMAIN batch[w]
               PROVE  /\ batch[w][i].attempts < MaxAttempts
                      /\ status'[batch[w][i].row] = "processing" /\ lockedBy'[batch[w][i].row] = w
                           => attempts'[batch[w][i].row] = batch[w][i].attempts
                      /\ \A j \in DOMAIN batch[w] : batch[w][i].row = batch[w][j].row => i = j
    BY <1>0 DEF ItemsInv, Owns
  <2>1. batch[w][i].row \in Rows
    BY <1>0, BatchDomain
  <2>2. /\ batch[w][i].attempts < MaxAttempts
        /\ Owns(w, batch[w][i].row) => attempts[batch[w][i].row] = batch[w][i].attempts
        /\ \A j \in DOMAIN batch[w] : batch[w][i].row = batch[w][j].row => i = j
    BY DEF IInv, ItemsInv
  <2> QED BY <2>1, <2>2, RowChange DEF Owns
<1>3. DeadAfterMaxAttempts'
  BY RowChange DEF DeadAfterMaxAttempts
<1>4. PostedInv'
  BY <1>0 DEF IInv, PostedInv, Running, Head1
<1>5. SentIsStored'
  BY <1>0, RowChange DEF IInv, SentIsStored
<1>6. LeaseInv'
  <2> SUFFICES ASSUME overruns' = 0, NEW w \in Dispatches, NEW i \in DOMAIN batch[w]
               PROVE  /\ \/ /\ status'[batch[w][i].row] = "processing"
                            /\ lockedBy'[batch[w][i].row] = w
                            /\ batch[w][i].row \notin expired'
                         \/ status'[batch[w][i].row] \in {"sent", "purged"}
                      /\ \A v \in Dispatches \ {w} : \A j \in DOMAIN batch[v] :
                           batch[v][j].row # batch[w][i].row
    BY <1>0 DEF LeaseInv, Secured
  <2>1. PICK q \in Rows : q = batch[w][i].row
    BY <1>0, BatchDomain
  <2>2. /\ Secured(w, q)
        /\ \A v \in Dispatches \ {w} : \A j \in DOMAIN batch[v] : batch[v][j].row # q
    BY <1>0, <2>1 DEF IInv, LeaseInv
  <2>3. CASE status[q] \in {"sent", "purged"}
    BY <2>1, <2>2, <2>3, RowChange
  <2>4. CASE status[q] = "processing" /\ lockedBy[q] = w /\ q \notin expired
    <3>1. status'[q] \in {"processing", "purged"}
      BY <2>4, RowChange
    <3>2. CASE status'[q] = "processing"
      <4>1. q \notin expired'
        BY <2>1, <2>4, <3>2, LeaseKept
      <4>2. lockedBy'[q] = w
        BY <2>4, <3>2, RowChange
      <4> QED BY <2>1, <2>2, <3>2, <4>1, <4>2
    <3> QED BY <2>1, <2>2, <3>1, <3>2
  <2> QED BY <2>2, <2>3, <2>4 DEF Secured
<1> QED BY <1>1, <1>2, <1>3, <1>4, <1>5, <1>6 DEF IInv
-----------------------------------------------------------------------------
(* Steps of a dispatch *)

LEMMA ClaimStep ==
  ASSUME IInv, NEW w \in Dispatches, Claim(w)
  PROVE  IInv'
<1> PICK b \in InOrder(NextBatch) :
      batch' = [batch EXCEPT ![w] = [i \in DOMAIN b |-> [row |-> b[i], attempts |-> attempts[b[i]]]]]
  BY DEF Claim
<1> DEFINE claimed == [i \in DOMAIN b |-> [row |-> b[i], attempts |-> attempts[b[i]]]]
<1>1. /\ claimed \in Seq(Items)
      /\ \A i \in DOMAIN b : b[i] \in NextBatch /\ b[i] \in Rows
      /\ \A i, j \in DOMAIN b : b[i] = b[j] => i = j
  BY ClaimedBatch DEF IInv
<1>2. /\ DOMAIN claimed = DOMAIN b
      /\ \A i \in DOMAIN b : claimed[i].row = b[i] /\ claimed[i].attempts = attempts[b[i]]
  OBVIOUS
<1>3. batch' = [batch EXCEPT ![w] = claimed]
  OBVIOUS
<1> HIDE DEF claimed
<1>4. /\ batch \in [Dispatches -> Seq(Items)] /\ step \in [Dispatches -> {"posting", "accepted", "failed"}]
      /\ status \in [Rows -> Statuses] /\ lockedBy \in [Rows -> Dispatches \cup {Nobody}]
      /\ attempts \in [Rows -> 0..MaxAttempts] /\ due \in [Rows -> Nat]
      /\ expired \subseteq Rows /\ lrs \subseteq Rows
      /\ crashes \in 0..MaxCrashes /\ overruns \in 0..MaxOverruns /\ replays \in 0..MaxReplays
  BY DEF IInv, TypeOK
<1>5. /\ step' = [step EXCEPT ![w] = "posting"] /\ attempts' = attempts /\ lrs' = lrs /\ due' = due
      /\ overruns' = overruns /\ crashes' = crashes /\ replays' = replays
      /\ status' = [r \in Rows |-> IF r \in NextBatch THEN "processing" ELSE status[r]]
      /\ lockedBy' = [r \in Rows |-> IF r \in NextBatch THEN w ELSE lockedBy[r]]
      /\ expired' = expired \ NextBatch
  BY DEF Claim, budget
<1>6. \A r \in NextBatch : r \in Rows /\ Claimable(r)
  BY NextBatchClaimable
<1> HIDE DEF NextBatch
<1>7. /\ batch'[w] = claimed /\ step'[w] = "posting"
      /\ \A v \in Dispatches \ {w} : batch'[v] = batch[v] /\ step'[v] = step[v]
  BY <1>3, <1>4, <1>5
<1>8. \A r \in Rows : /\ r \in NextBatch => status'[r] = "processing" /\ lockedBy'[r] = w
                                            /\ r \notin expired'
                      /\ r \notin NextBatch => /\ status'[r] = status[r] /\ lockedBy'[r] = lockedBy[r]
                                               /\ (r \in expired' <=> r \in expired)
  BY <1>5
<1>9. TypeOK'
  <2>1. status' \in [Rows -> Statuses] /\ lockedBy' \in [Rows -> Dispatches \cup {Nobody}]
    BY <1>4, <1>5 DEF Statuses
  <2>2. batch' \in [Dispatches -> Seq(Items)]
    BY <1>1, <1>3, <1>4
  <2>3. step' \in [Dispatches -> {"posting", "accepted", "failed"}]
    BY <1>4, <1>5
  <2> QED BY <1>4, <1>5, <2>1, <2>2, <2>3 DEF TypeOK
<1>10. ItemsInv'
  <2> SUFFICES ASSUME NEW v \in Dispatches, NEW i \in DOMAIN batch'[v]
               PROVE  /\ batch'[v][i].attempts < MaxAttempts
                      /\ status'[batch'[v][i].row] = "processing" /\ lockedBy'[batch'[v][i].row] = v
                           => attempts'[batch'[v][i].row] = batch'[v][i].attempts
                      /\ \A j \in DOMAIN batch'[v] : batch'[v][i].row = batch'[v][j].row => i = j
    BY DEF ItemsInv, Owns
  <2>1. CASE v = w
    <3>1. i \in DOMAIN b /\ attempts[b[i]] < MaxAttempts
      BY <1>1, <1>2, <1>6, <1>7, <2>1 DEF Claimable
    <3> QED BY <1>1, <1>2, <1>5, <1>7, <2>1, <3>1
  <2>2. CASE v # w
    <3>1. batch'[v] = batch[v] /\ batch[v] \in Seq(Items)
      BY <1>4, <1>7, <2>2
    <3>2. batch[v][i].row \in Rows
      BY <3>1, BatchDomain
    <3>3. /\ batch[v][i].attempts < MaxAttempts
          /\ Owns(v, batch[v][i].row) => attempts[batch[v][i].row] = batch[v][i].attempts
          /\ \A j \in DOMAIN batch[v] : batch[v][i].row = batch[v][j].row => i = j
      BY <3>1 DEF IInv, ItemsInv
    <3> QED BY <1>5, <1>8, <2>2, <3>1, <3>2, <3>3 DEF Owns
  <2> QED BY <2>1, <2>2
<1>11. DeadAfterMaxAttempts'
  <2> SUFFICES ASSUME NEW r \in Rows, status'[r] # "purged"
               PROVE  status'[r] = "dead" <=> attempts'[r] = MaxAttempts
    BY DEF DeadAfterMaxAttempts
  <2>1. attempts[r] \in Nat
    BY <1>4
  <2>2. CASE r \in NextBatch
    BY <1>5, <1>6, <1>8, <2>1, <2>2 DEF Claimable
  <2>3. CASE r \notin NextBatch
    BY <1>5, <1>8, <2>3 DEF IInv, DeadAfterMaxAttempts
  <2> QED BY <2>2, <2>3
<1>12. PostedInv'
  <2> SUFFICES ASSUME NEW v \in Dispatches, batch'[v] # <<>>, step'[v] = "accepted"
               PROVE  Head(batch'[v]).row \in lrs
    BY <1>5 DEF PostedInv, Running, Head1
  <2>1. v # w
    BY <1>7
  <2> QED BY <1>7, <2>1 DEF IInv, PostedInv, Running, Head1
<1>13. SentIsStored'
  BY <1>5, <1>8 DEF IInv, SentIsStored
<1>14. LeaseInv'
  <2> SUFFICES ASSUME overruns = 0, NEW v \in Dispatches, NEW i \in DOMAIN batch'[v]
               PROVE  /\ \/ /\ status'[batch'[v][i].row] = "processing"
                            /\ lockedBy'[batch'[v][i].row] = v
                            /\ batch'[v][i].row \notin expired'
                         \/ status'[batch'[v][i].row] \in {"sent", "purged"}
                      /\ \A u \in Dispatches \ {v} : \A j \in DOMAIN batch'[u] :
                           batch'[u][j].row # batch'[v][i].row
    BY <1>5 DEF LeaseInv, Secured
  <2>1. ASSUME NEW u \in Dispatches \ {w}, NEW j \in DOMAIN batch[u]
        PROVE  /\ batch[u][j].row \in Rows /\ batch[u][j].row \notin NextBatch
               /\ Secured(u, batch[u][j].row)
    <3>1. batch[u][j].row \in Rows
      BY <1>4, BatchDomain
    <3>2. Secured(u, batch[u][j].row)
      BY DEF IInv, LeaseInv
    <3> QED BY <1>6, <3>1, <3>2 DEF Secured, Claimable
  <2>2. \A u, x \in Dispatches \ {w} : u # x =>
          \A j \in DOMAIN batch[u], k \in DOMAIN batch[x] : batch[u][j].row # batch[x][k].row
    BY DEF IInv, LeaseInv
  <2>3. \A j \in DOMAIN batch'[w] : batch'[w][j].row \in NextBatch /\ batch'[w][j].row \in Rows
    BY <1>1, <1>2, <1>7
  <2>4. CASE v = w
    <3>1. \A u \in Dispatches \ {w} : \A j \in DOMAIN batch'[u] : batch'[u][j].row \notin NextBatch
      BY <1>7, <2>1
    <3> QED BY <1>8, <2>3, <2>4, <3>1
  <2>5. CASE v # w
    <3>1. batch'[v] = batch[v]
      BY <1>7, <2>5
    <3>2. batch[v][i].row \in Rows /\ batch[v][i].row \notin NextBatch /\ Secured(v, batch[v][i].row)
      BY <2>1, <2>5, <3>1
    <3>3. \A u \in Dispatches \ {v} : \A j \in DOMAIN batch'[u] : batch'[u][j].row # batch[v][i].row
      BY <1>7, <2>2, <2>3, <2>5, <3>1, <3>2
    <3>4. PICK q \in Rows : q = batch[v][i].row
      BY <3>2
    <3>5. /\ status'[q] = status[q] /\ lockedBy'[q] = lockedBy[q]
          /\ q \in expired' <=> q \in expired
      BY <1>8, <3>2, <3>4
    <3> QED BY <3>1, <3>2, <3>3, <3>4, <3>5 DEF Secured
  <2> QED BY <2>4, <2>5
<1> QED BY <1>9, <1>10, <1>11, <1>12, <1>13, <1>14 DEF IInv

\* Of a batch there remains, after a step on its first item, a part without repeats:
\* all of it, or what follows the first item, or nothing.
LEMMA Remains ==
  ASSUME batch \in [Dispatches -> Seq(Items)], NEW w \in Dispatches,
         \/ batch' = batch
         \/ batch[w] # <<>> /\ batch' = [batch EXCEPT ![w] = Tail(@)]
         \/ batch' = [batch EXCEPT ![w] = <<>>]
  PROVE  /\ batch' \in [Dispatches -> Seq(Items)]
         /\ \A v \in Dispatches \ {w} : batch'[v] = batch[v]
         /\ \E k \in {0, 1} :
              /\ k = 0 => batch' = batch \/ batch'[w] = <<>>
              /\ \A i \in DOMAIN batch'[w] : /\ i + k \in DOMAIN batch[w] /\ (k = 1 => i + k # 1)
                                             /\ batch'[w][i] = batch[w][i + k] /\ i \in Nat
<1>1. CASE batch' = batch
  <2>1. PICK n \in Nat : DOMAIN batch[w] = 1..n
    OBVIOUS
  <2>2. \A i \in DOMAIN batch'[w] : i + 0 = i /\ i \in Nat
    BY <1>1, <2>1
  <2> QED BY <1>1, <2>2
<1>2. CASE batch[w] # <<>> /\ batch' = [batch EXCEPT ![w] = Tail(@)]
  <2>1. batch[w] \in Seq(Items) /\ batch'[w] = Tail(batch[w])
    BY <1>2
  <2>2. /\ Tail(batch[w]) \in Seq(Items)
        /\ \A i \in DOMAIN Tail(batch[w]) :
             i \in Nat /\ i + 1 \in DOMAIN batch[w] /\ i + 1 # 1 /\ Tail(batch[w])[i] = batch[w][i + 1]
    BY <1>2, <2>1, BatchTail
  <2>3. batch' \in [Dispatches -> Seq(Items)] /\ \A v \in Dispatches \ {w} : batch'[v] = batch[v]
    BY <1>2, <2>2
  <2> QED BY <2>1, <2>2, <2>3
<1>3. CASE batch' = [batch EXCEPT ![w] = <<>>]
  <2>1. batch'[w] = <<>> /\ DOMAIN batch'[w] = {}
    BY <1>3
  <2>2. batch' \in [Dispatches -> Seq(Items)] /\ \A v \in Dispatches \ {w} : batch'[v] = batch[v]
    BY <1>3
  <2> QED BY <2>1, <2>2
<1> QED BY <1>1, <1>2, <1>3

\* What the dispatches hold stays right when a row in hand is left alone, settled, or
\* given back by the dispatch that owns it and drops it from its batch.
LEMMA HandsKept ==
  ASSUME IInv, NEW w \in Dispatches, overruns' = overruns,
         \/ batch' = batch
         \/ batch[w] # <<>> /\ batch' = [batch EXCEPT ![w] = Tail(@)]
         \/ batch' = [batch EXCEPT ![w] = <<>>],
         \A q \in Rows :
           /\ status'[q] = "processing" => /\ status[q] = "processing"
                                           /\ lockedBy'[q] = lockedBy[q]
                                           /\ attempts'[q] = attempts[q]
                                           /\ q \in expired' => q \in expired
           /\ status[q] \in {"sent", "purged"} => status'[q] = status[q]
           /\ status[q] = "processing" /\ status'[q] \notin {"processing", "sent"}
                => /\ batch[w] # <<>> /\ q = Head(batch[w]).row
                   /\ batch' = [batch EXCEPT ![w] = Tail(@)]
  PROVE  ItemsInv' /\ LeaseInv' /\ batch' \in [Dispatches -> Seq(Items)]
<1>1. batch \in [Dispatches -> Seq(Items)]
  BY DEF IInv, TypeOK
<1>2. /\ batch' \in [Dispatches -> Seq(Items)]
      /\ \A v \in Dispatches \ {w} : batch'[v] = batch[v]
      /\ \E k \in {0, 1} :
           /\ k = 0 => batch' = batch \/ batch'[w] = <<>>
           /\ \A i \in DOMAIN batch'[w] : /\ i + k \in DOMAIN batch[w] /\ (k = 1 => i + k # 1)
                                          /\ batch'[w][i] = batch[w][i + k] /\ i \in Nat
  BY <1>1, Remains
<1>3. PICK k \in {0, 1} :
        /\ k = 0 => batch' = batch \/ batch'[w] = <<>>
        /\ \A i \in DOMAIN batch'[w] : /\ i + k \in DOMAIN batch[w] /\ (k = 1 => i + k # 1)
                                       /\ batch'[w][i] = batch[w][i + k] /\ i \in Nat
  BY <1>2
<1>4. ASSUME NEW v \in Dispatches, NEW i \in DOMAIN batch'[v]
      PROVE  \E m \in DOMAIN batch[v] : batch'[v][i] = batch[v][m]
  <2>1. CASE v = w
    BY <1>3, <2>1
  <2>2. CASE v # w
    BY <1>2, <2>2
  <2> QED BY <2>1, <2>2
<1>5. ItemsInv'
  <2> SUFFICES ASSUME NEW v \in Dispatches, NEW i \in DOMAIN batch'[v]
               PROVE  /\ batch'[v][i].attempts < MaxAttempts
                      /\ status'[batch'[v][i].row] = "processing" /\ lockedBy'[batch'[v][i].row] = v
                           => attempts'[batch'[v][i].row] = batch'[v][i].attempts
                      /\ \A j \in DOMAIN batch'[v] : batch'[v][i].row = batch'[v][j].row => i = j
    BY DEF ItemsInv, Owns
  <2>1. PICK m \in DOMAIN batch[v] : batch'[v][i] = batch[v][m]
    BY <1>4
  <2>2. batch[v][m].row \in Rows
    BY <1>1, BatchDomain
  <2>3. /\ batch[v][m].attempts < MaxAttempts
        /\ Owns(v, batch[v][m].row) => attempts[batch[v][m].row] = batch[v][m].attempts
    BY DEF IInv, ItemsInv
  <2>4. \A a, b \in DOMAIN batch[v] : batch[v][a].row = batch[v][b].row => a = b
    BY DEF IInv, ItemsInv
  <2>5. ASSUME NEW j \in DOMAIN batch'[v], batch'[v][i].row = batch'[v][j].row PROVE i = j
    <3>1. CASE v = w
      <4>1. /\ i + k \in DOMAIN batch[v] /\ batch'[v][i] = batch[v][i + k] /\ i \in Nat
            /\ j + k \in DOMAIN batch[v] /\ batch'[v][j] = batch[v][j + k] /\ j \in Nat
        BY <1>3, <3>1
      <4>2. i + k = j + k
        BY <2>4, <2>5, <4>1
      <4> QED BY <4>1, <4>2
    <3>2. CASE v # w
      BY <1>2, <2>4, <2>5, <3>2
    <3> QED BY <3>1, <3>2
  <2>6. status'[batch[v][m].row] = "processing" /\ lockedBy'[batch[v][m].row] = v
          => attempts'[batch[v][m].row] = batch[v][m].attempts
    BY <2>2, <2>3 DEF Owns
  <2> QED BY <2>1, <2>3, <2>5, <2>6
<1>6. LeaseInv'
  <2> SUFFICES ASSUME overruns = 0, NEW v \in Dispatches, NEW i \in DOMAIN batch'[v]
               PROVE  /\ \/ /\ status'[batch'[v][i].row] = "processing"
                            /\ lockedBy'[batch'[v][i].row] = v
                            /\ batch'[v][i].row \notin expired'
                         \/ status'[batch'[v][i].row] \in {"sent", "purged"}
                      /\ \A u \in Dispatches \ {v} : \A j \in DOMAIN batch'[u] :
                           batch'[u][j].row # batch'[v][i].row
    BY DEF LeaseInv, Secured
  <2>1. PICK m \in DOMAIN batch[v] : batch'[v][i] = batch[v][m]
    BY <1>4
  <2>2. PICK q \in Rows : q = batch[v][m].row
    BY <1>1, BatchDomain
  <2>3. /\ Secured(v, q)
        /\ \A u \in Dispatches \ {v} : \A j \in DOMAIN batch[u] : batch[u][j].row # q
    BY <2>2 DEF IInv, LeaseInv
  <2>4. \A u \in Dispatches \ {v} : \A j \in DOMAIN batch'[u] : batch'[u][j].row # batch'[v][i].row
    BY <1>4, <2>1, <2>2, <2>3
  <2>5. CASE status[q] \in {"sent", "purged"}
    BY <2>1, <2>2, <2>4, <2>5
  <2>6. CASE status[q] = "processing" /\ lockedBy[q] = v /\ q \notin expired
    <3>1. CASE status'[q] \in {"processing", "sent"}
      BY <2>1, <2>2, <2>4, <2>6, <3>1
    <3>2. CASE status'[q] \notin {"processing", "sent"}
      <4>1. /\ batch[w] # <<>> /\ q = Head(batch[w]).row
            /\ batch' = [batch EXCEPT ![w] = Tail(@)]
        BY <2>6, <3>2
      <4>2. 1 \in DOMAIN batch[w] /\ Head(batch[w]) = batch[w][1]
        BY <1>1, <4>1, BatchTail
      <4>3. v = w
        BY <2>3, <4>1, <4>2
      <4>4. batch'[w] = Tail(batch[w]) /\ batch[w] \in Seq(Items)
        BY <1>1, <4>1
      <4>5. \A j \in DOMAIN Tail(batch[w]) :
              j + 1 \in DOMAIN batch[w] /\ j + 1 # 1 /\ Tail(batch[w])[j] = batch[w][j + 1]
        BY <4>1, <4>4, BatchTail
      <4>6. \A a, b \in DOMAIN batch[w] : batch[w][a].row = batch[w][b].row => a = b
        BY DEF IInv, ItemsInv
      <4>7. PICK n \in DOMAIN batch[w] : n # 1 /\ q = batch[w][n].row
        BY <2>1, <2>2, <4>3, <4>4, <4>5
      <4>8. q = batch[w][1].row
        BY <4>1, <4>2
      <4>9. n = 1
        BY <4>2, <4>6, <4>7, <4>8
      <4> QED BY <4>7, <4>9
    <3> QED BY <3>1, <3>2
  <2> QED BY <2>3, <2>5, <2>6 DEF Secured
<1> QED BY <1>2, <1>5, <1>6

\* What markSent does to the rows, whether or not it finds its own.
LEMMA SentRows ==
  ASSUME IInv, NEW w \in Dispatches, NEW r \in Rows,
         StoreSent(w, r) \/ UNCHANGED <<status, due, lockedBy, expired>>
  PROVE  /\ status' \in [Rows -> Statuses] /\ due' \in [Rows -> Nat]
         /\ lockedBy' \in [Rows -> Dispatches \cup {Nobody}] /\ expired' \subseteq Rows
         /\ \A q \in Rows :
              \/ /\ status'[q] = status[q] /\ lockedBy'[q] = lockedBy[q]
                 /\ q \in expired' <=> q \in expired
              \/ q = r /\ status[q] = "processing" /\ status'[q] = "sent"
<1>1. /\ status \in [Rows -> Statuses] /\ due \in [Rows -> Nat]
      /\ lockedBy \in [Rows -> Dispatches \cup {Nobody}] /\ expired \subseteq Rows
  BY DEF IInv, TypeOK
<1>2. CASE Owns(w, r) /\ StoreSent(w, r)
  <2>1. due' \in [Rows -> Nat]
    BY <1>1, <1>2, DequeuedType DEF StoreSent
  <2>2. /\ status' = [status EXCEPT ![r] = "sent"] /\ lockedBy' = [lockedBy EXCEPT ![r] = Nobody]
        /\ expired' = expired \ {r} /\ status[r] = "processing"
    BY <1>2 DEF StoreSent, Unlocked, Owns
  <2>3. status' \in [Rows -> Statuses] /\ lockedBy' \in [Rows -> Dispatches \cup {Nobody}]
    BY <1>1, <2>2 DEF Statuses
  <2>4. \A q \in Rows \ {r} : /\ status'[q] = status[q] /\ lockedBy'[q] = lockedBy[q]
                             /\ q \in expired' <=> q \in expired
    BY <1>1, <2>2
  <2>5. status[r] = "processing" /\ status'[r] = "sent"
    BY <1>1, <2>2
  <2> QED BY <1>1, <2>1, <2>2, <2>3, <2>4, <2>5
<1>3. CASE UNCHANGED <<status, due, lockedBy, expired>>
  BY <1>1, <1>3
<1>4. StoreSent(w, r) => Owns(w, r) \/ UNCHANGED <<status, due, lockedBy, expired>>
  BY Zenon DEF StoreSent
<1> QED BY <1>2, <1>3, <1>4

\* The post of the first item ends, with or without an answer.
LEMMA PostStep ==
  ASSUME IInv, NEW w \in Dispatches, PostAccepted(w) \/ PostFailed(w)
  PROVE  IInv'
<1>1. /\ status' = status /\ attempts' = attempts /\ due' = due
      /\ lockedBy' = lockedBy /\ expired' = expired /\ batch' = batch
      /\ crashes' = crashes /\ overruns' = overruns /\ replays' = replays
  BY DEF PostAccepted, PostFailed, rowVars, budget
<1>2. Head1(w).row \in Rows
  <2>1. batch[w] \in Seq(Items) /\ batch[w] # <<>>
    BY DEF IInv, TypeOK, PostAccepted, PostFailed, Posting, Running
  <2> QED BY <2>1, BatchTail DEF Head1, Items
<1>3. /\ lrs' \subseteq Rows /\ lrs \subseteq lrs'
      /\ \/ step' = [step EXCEPT ![w] = "accepted"] /\ Head1(w).row \in lrs'
         \/ step' = [step EXCEPT ![w] = "failed"]
  BY <1>2 DEF IInv, TypeOK, PostAccepted, PostFailed
<1>4. step \in [Dispatches -> {"posting", "accepted", "failed"}]
  BY DEF IInv, TypeOK
<1>5. TypeOK'
  BY <1>1, <1>3, <1>4 DEF IInv, TypeOK
<1>6. ItemsInv' /\ LeaseInv'
  BY <1>1 DEF IInv, ItemsInv, LeaseInv, Owns, Secured
<1>7. DeadAfterMaxAttempts' /\ SentIsStored'
  BY <1>1, <1>3 DEF IInv, DeadAfterMaxAttempts, SentIsStored
<1>8. PostedInv'
  BY <1>1, <1>3, <1>4 DEF IInv, PostedInv, Running, Head1
<1> QED BY <1>5, <1>6, <1>7, <1>8 DEF IInv

\* The row of the first item is stored as sent, or the attempt to do so fails.
LEMMA MarkSentStep ==
  ASSUME IInv, NEW w \in Dispatches, MarkSent(w) \/ MarkSentThrows(w)
  PROVE  IInv'
<1> DEFINE r == Head1(w).row
<1>1. /\ batch[w] # <<>> /\ step[w] = "accepted"
      /\ StoreSent(w, r) \/ UNCHANGED <<status, due, lockedBy, expired>>
      /\ attempts' = attempts /\ lrs' = lrs
      /\ crashes' = crashes /\ overruns' = overruns /\ replays' = replays
      /\ \/ batch' = [batch EXCEPT ![w] = Tail(@)] /\ step' = [step EXCEPT ![w] = "posting"]
         \/ batch' = batch /\ step' = [step EXCEPT ![w] = "failed"]
  BY DEF MarkSent, MarkSentThrows, Running, NextItem, budget
<1>2. /\ batch \in [Dispatches -> Seq(Items)] /\ step \in [Dispatches -> {"posting", "accepted", "failed"}]
  BY DEF IInv, TypeOK
<1>3. r \in Rows /\ r \in lrs
  <2>1. batch[w] \in Seq(Items)
    BY <1>2
  <2>2. r \in Rows
    BY <1>1, <2>1, BatchTail DEF Head1, Items
  <2> QED BY <1>1, <2>2 DEF IInv, PostedInv, Running
<1> HIDE DEF r
<1>4. /\ status' \in [Rows -> Statuses] /\ due' \in [Rows -> Nat]
      /\ lockedBy' \in [Rows -> Dispatches \cup {Nobody}] /\ expired' \subseteq Rows
      /\ \A q \in Rows :
           \/ /\ status'[q] = status[q] /\ lockedBy'[q] = lockedBy[q]
              /\ q \in expired' <=> q \in expired
           \/ q = r /\ status[q] = "processing" /\ status'[q] = "sent"
  BY <1>1, <1>3, SentRows
<1>5. ItemsInv' /\ LeaseInv' /\ batch' \in [Dispatches -> Seq(Items)]
  BY <1>1, <1>4, HandsKept
<1>6. TypeOK'
  BY <1>1, <1>2, <1>4, <1>5 DEF IInv, TypeOK
<1>7. DeadAfterMaxAttempts' /\ SentIsStored'
  BY <1>1, <1>3, <1>4 DEF IInv, DeadAfterMaxAttempts, SentIsStored
<1>8. PostedInv'
  <2> SUFFICES ASSUME NEW v \in Dispatches, batch'[v] # <<>>, step'[v] = "accepted"
               PROVE  Head(batch'[v]).row \in lrs
    BY <1>1 DEF PostedInv, Running, Head1
  <2>1. v # w /\ batch'[v] = batch[v] /\ step'[v] = step[v]
    BY <1>1, <1>2
  <2> QED BY <2>1 DEF IInv, PostedInv, Running, Head1
<1> QED BY <1>5, <1>6, <1>7, <1>8 DEF IInv

\* The first item's failure is counted on a row that is still its own.
LEMMA MarkFailedStep ==
  ASSUME IInv, NEW w \in Dispatches, MarkFailed(w)
  PROVE  IInv'
<1> DEFINE r == Head1(w).row
           count == Head1(w).attempts + 1
<1>1. /\ batch[w] # <<>> /\ lrs' = lrs
      /\ crashes' = crashes /\ overruns' = overruns /\ replays' = replays
      /\ batch' = [batch EXCEPT ![w] = Tail(@)] /\ step' = [step EXCEPT ![w] = "posting"]
  BY DEF MarkFailed, Running, NextItem, budget
<1>2. TypeOK
  BY DEF IInv
<1>3. /\ batch \in [Dispatches -> Seq(Items)] /\ step \in [Dispatches -> {"posting", "accepted", "failed"}]
      /\ status \in [Rows -> Statuses] /\ lockedBy \in [Rows -> Dispatches \cup {Nobody}]
      /\ attempts \in [Rows -> 0..MaxAttempts] /\ due \in [Rows -> Nat] /\ expired \subseteq Rows
  BY <1>2 DEF TypeOK
<1>4. /\ r \in Rows /\ Head1(w).attempts \in Nat /\ count \in 1..MaxAttempts
      /\ Owns(w, r) => attempts[r] = Head1(w).attempts
  <2>1. batch[w] \in Seq(Items)
    BY <1>3
  <2>2. Head1(w) = batch[w][1] /\ 1 \in DOMAIN batch[w] /\ r \in Rows /\ Head1(w).attempts \in Nat
    BY <1>1, <2>1, BatchTail DEF Head1, Items
  <2>3. batch[w][1].attempts < MaxAttempts /\ (Owns(w, r) => attempts[r] = batch[w][1].attempts)
    BY <2>2 DEF IInv, ItemsInv
  <2> QED BY <2>2, <2>3
<1> DEFINE dead == IF IsDead(count) THEN "dead" ELSE "failed"
<1>5. \/ /\ status[r] = "processing" /\ status' = [status EXCEPT ![r] = dead]
         /\ attempts' = [attempts EXCEPT ![r] = count]
         /\ Dequeued(r) /\ lockedBy' = [lockedBy EXCEPT ![r] = Nobody] /\ expired' = expired \ {r}
      \/ /\ status' = status /\ attempts' = attempts /\ due' = due
         /\ lockedBy' = lockedBy /\ expired' = expired
  <2>1. CASE Owns(w, r)
    BY <2>1 DEF MarkFailed, Owns, Unlocked
  <2>2. CASE ~Owns(w, r)
    BY <2>2 DEF MarkFailed, rowVars
  <2> QED BY <2>1, <2>2
<1>6. dead \in {"dead", "failed"} /\ (dead = "dead" <=> count = MaxAttempts)
  BY <1>4 DEF IsDead
<1>7. r = Head(batch[w]).row
  BY DEF Head1
<1> HIDE DEF r, count, dead
<1>8. TypeOK'
  <2>1. due' \in [Rows -> Nat]
    BY <1>3, <1>4, <1>5, DequeuedType
  <2>2. status' \in [Rows -> Statuses] /\ attempts' \in [Rows -> 0..MaxAttempts]
    <3>1. CASE status' = status /\ attempts' = attempts
      BY <1>3, <3>1
    <3>2. CASE status' = [status EXCEPT ![r] = dead] /\ attempts' = [attempts EXCEPT ![r] = count]
      <4>1. dead \in Statuses /\ count \in 0..MaxAttempts
        BY <1>4, <1>6 DEF Statuses
      <4> QED BY <1>3, <1>4, <3>2, <4>1
    <3> QED BY <1>5, <3>1, <3>2
  <2>3. lockedBy' \in [Rows -> Dispatches \cup {Nobody}] /\ expired' \subseteq Rows
    BY <1>3, <1>5
  <2>4. batch' \in [Dispatches -> Seq(Items)]
    BY <1>1, <1>3, Remains
  <2>5. step' \in [Dispatches -> {"posting", "accepted", "failed"}]
    BY <1>1, <1>3
  <2> QED BY <1>1, <1>2, <2>1, <2>2, <2>3, <2>4, <2>5 DEF TypeOK
<1>9. \A q \in Rows :
        \/ /\ status'[q] = status[q] /\ lockedBy'[q] = lockedBy[q] /\ attempts'[q] = attempts[q]
           /\ q \in expired' <=> q \in expired
        \/ q = r /\ status[q] = "processing" /\ status'[q] = dead /\ attempts'[q] = count
  BY <1>3, <1>4, <1>5
<1>10. ItemsInv' /\ LeaseInv'
  BY <1>1, <1>6, <1>7, <1>9, HandsKept
<1>11. DeadAfterMaxAttempts' /\ SentIsStored'
  BY <1>1, <1>6, <1>9 DEF IInv, DeadAfterMaxAttempts, SentIsStored
<1>12. PostedInv'
  <2> SUFFICES ASSUME NEW v \in Dispatches, batch'[v] # <<>>, step'[v] = "accepted"
               PROVE  Head(batch'[v]).row \in lrs
    BY <1>1 DEF PostedInv, Running, Head1
  <2>1. v # w /\ batch'[v] = batch[v] /\ step'[v] = step[v]
    BY <1>1, <1>3
  <2> QED BY <2>1 DEF IInv, PostedInv, Running, Head1
<1> QED BY <1>8, <1>10, <1>11, <1>12 DEF IInv

\* A dispatch dies with its batch.
LEMMA CrashStep ==
  ASSUME IInv, NEW w \in Dispatches, Crash(w)
  PROVE  IInv'
<1>1. /\ batch' = [batch EXCEPT ![w] = <<>>] /\ step' = step /\ lrs' = lrs
      /\ status' = status /\ attempts' = attempts /\ due' = due
      /\ lockedBy' = lockedBy /\ expired' = expired
      /\ crashes' \in 0..MaxCrashes /\ overruns' = overruns /\ replays' = replays
  BY DEF IInv, TypeOK, Crash, rowVars
<1>2. ItemsInv' /\ LeaseInv' /\ batch' \in [Dispatches -> Seq(Items)]
  BY <1>1, HandsKept
<1>3. TypeOK'
  BY <1>1, <1>2 DEF IInv, TypeOK
<1>4. DeadAfterMaxAttempts' /\ SentIsStored'
  BY <1>1 DEF IInv, DeadAfterMaxAttempts, SentIsStored
<1>5. PostedInv'
  <2> SUFFICES ASSUME NEW v \in Dispatches, batch'[v] # <<>>, step[v] = "accepted"
               PROVE  Head(batch'[v]).row \in lrs
    BY <1>1 DEF PostedInv, Running, Head1
  <2>1. batch'[v] = batch[v]
    BY <1>1 DEF IInv, TypeOK
  <2> QED BY <2>1 DEF IInv, PostedInv, Running, Head1
<1> QED BY <1>2, <1>3, <1>4, <1>5 DEF IInv
-----------------------------------------------------------------------------
(* Theorems *)

LEMMA InitIInv == Init => IInv
<1> SUFFICES ASSUME Init PROVE IInv
  OBVIOUS
<1>1. \A w \in Dispatches : batch[w] = <<>> /\ DOMAIN batch[w] = {}
  BY DEF Init
<1>2. TypeOK
  <2>1. batch \in [Dispatches -> Seq(Items)]
    BY DEF Init
  <2> QED BY <2>1 DEF Init, TypeOK, Statuses
<1>3. ItemsInv /\ PostedInv /\ LeaseInv
  BY <1>1 DEF ItemsInv, PostedInv, LeaseInv, Running
<1>4. DeadAfterMaxAttempts /\ SentIsStored
  BY DEF Init, DeadAfterMaxAttempts, SentIsStored
<1> QED BY <1>2, <1>3, <1>4 DEF IInv

LEMMA NextIInv == IInv /\ [Next]_vars => IInv'
<1> SUFFICES ASSUME IInv, [Next]_vars PROVE IInv'
  OBVIOUS
<1>1. ASSUME NEW r \in Rows,
             Record(r) \/ DelayPasses(r) \/ LeaseEnds(r) \/ ReplayDead(r) \/ Purge(r)
      PROVE  IInv'
  BY <1>1, RowStep
<1>2. ASSUME NEW w \in Dispatches, Claim(w) PROVE IInv'
  BY <1>2, ClaimStep
<1>3. ASSUME NEW w \in Dispatches, Work(w) PROVE IInv'
  BY <1>3, PostStep, MarkSentStep, MarkFailedStep DEF Work
<1>4. ASSUME NEW w \in Dispatches, Crash(w) PROVE IInv'
  BY <1>4, CrashStep
<1>5. CASE UNCHANGED vars
  <2>1. /\ status' = status /\ attempts' = attempts /\ due' = due /\ lockedBy' = lockedBy
        /\ expired' = expired /\ lrs' = lrs /\ batch' = batch /\ step' = step
        /\ crashes' = crashes /\ overruns' = overruns /\ replays' = replays
    BY <1>5 DEF vars, rowVars, dispatchVars, budget
  <2>2. TypeOK'
    BY <2>1 DEF IInv, TypeOK
  <2>3. ItemsInv' /\ LeaseInv' /\ PostedInv'
    BY <2>1 DEF IInv, ItemsInv, LeaseInv, PostedInv, Owns, Secured, Running, Head1
  <2>4. DeadAfterMaxAttempts' /\ SentIsStored'
    BY <2>1 DEF IInv, DeadAfterMaxAttempts, SentIsStored
  <2> QED BY <2>2, <2>3, <2>4 DEF IInv
<1> QED BY <1>1, <1>2, <1>3, <1>4, <1>5 DEF Next

\* The invariant holds in every reachable state.
THEOREM DeliveryInvariant == Spec => []IInv
BY InitIInv, NextIInv, PTL DEF Spec

\* No row is marked sent unless the record store holds its statement.
THEOREM SentRowsAreStored == Spec => []SentIsStored
<1>1. IInv => SentIsStored
  BY DEF IInv
<1> QED BY <1>1, DeliveryInvariant, PTL

\* Exactly the rows with the full count of failures are dead.
THEOREM DeadRowsUsedTheirAttempts == Spec => []DeadAfterMaxAttempts
<1>1. IInv => DeadAfterMaxAttempts
  BY DEF IInv
<1> QED BY <1>1, DeliveryInvariant, PTL

\* While no lease has ended under its dispatch, no row is in two hands.
THEOREM NoRowInTwoHands == Spec => []LeaseIsExclusive
<1>1. IInv => LeaseIsExclusive
  <2> SUFFICES ASSUME IInv, overruns = 0, NEW v \in Dispatches, NEW w \in Dispatches, v # w,
                      NEW r \in RowsOf(v), r \in RowsOf(w)
               PROVE  FALSE
    BY DEF LeaseIsExclusive
  <2>1. PICK i \in DOMAIN batch[v] : r = batch[v][i].row
    BY DEF RowsOf
  <2>2. PICK j \in DOMAIN batch[w] : r = batch[w][j].row
    BY DEF RowsOf
  <2> QED BY <2>1, <2>2 DEF IInv, LeaseInv
<1> QED BY <1>1, DeliveryInvariant, PTL

LEMMA SentStays ==
  ASSUME IInv, Next, NEW q \in Rows, status[q] = "sent"
  PROVE  status'[q] \in {"sent", "purged"}
<1>1. ASSUME NEW r \in Rows,
             Record(r) \/ DelayPasses(r) \/ LeaseEnds(r) \/ ReplayDead(r) \/ Purge(r)
      PROVE  status'[q] \in {"sent", "purged"}
  BY <1>1, RowChange
<1>2. ASSUME NEW w \in Dispatches, Claim(w) PROVE status'[q] = "sent"
  BY <1>2, NextBatchClaimable DEF Claim, Claimable
<1>3. ASSUME NEW w \in Dispatches, Work(w) PROVE status'[q] = "sent"
  <2>1. CASE PostAccepted(w) \/ PostFailed(w)
    BY <2>1 DEF PostAccepted, PostFailed, rowVars
  <2>2. CASE MarkSent(w) \/ MarkSentThrows(w)
    BY <2>2 DEF IInv, TypeOK, MarkSent, MarkSentThrows, StoreSent
  <2>3. CASE MarkFailed(w)
    <3>1. CASE Owns(w, Head1(w).row)
      BY <2>3, <3>1 DEF IInv, TypeOK, MarkFailed, Owns
    <3>2. CASE ~Owns(w, Head1(w).row)
      BY <2>3, <3>2 DEF MarkFailed, rowVars
    <3> QED BY <3>1, <3>2
  <2> QED BY <1>3, <2>1, <2>2, <2>3 DEF Work
<1>4. ASSUME NEW w \in Dispatches, Crash(w) PROVE status'[q] = "sent"
  BY <1>4 DEF Crash, rowVars
<1> QED BY <1>1, <1>2, <1>3, <1>4 DEF Next

\* A row that is sent stays sent until it is purged.
THEOREM SentRowsStay == Spec => SentIsFinal
<1>1. IInv /\ [Next]_vars => [\A r \in Rows : status[r] = "sent" => status'[r] \in {"sent", "purged"}]_vars
  BY SentStays
<1> QED BY InitIInv, NextIInv, <1>1, PTL DEF Spec, SentIsFinal

LEMMA AttemptStep ==
  ASSUME IInv, Next, NEW q \in Rows
  PROVE  \/ attempts'[q] \in {attempts[q], attempts[q] + 1}
         \/ status[q] = "dead" /\ attempts'[q] = 0
<1>1. ASSUME NEW r \in Rows, ReplayDead(r)
      PROVE  attempts'[q] = attempts[q] \/ (status[q] = "dead" /\ attempts'[q] = 0)
  <2>1. status[r] = "dead" /\ attempts' = [attempts EXCEPT ![r] = 0]
    BY <1>1 DEF ReplayDead
  <2>2. attempts \in [Rows -> 0..MaxAttempts]
    BY DEF IInv, TypeOK
  <2>3. CASE q = r
    BY <2>1, <2>2, <2>3
  <2>4. CASE q # r
    BY <2>1, <2>2, <2>4
  <2> QED BY <2>3, <2>4
<1>2. ASSUME NEW r \in Rows, Record(r) \/ DelayPasses(r) \/ LeaseEnds(r) \/ Purge(r)
      PROVE  attempts'[q] = attempts[q]
  BY <1>2 DEF Record, DelayPasses, LeaseEnds, Purge
<1>3. ASSUME NEW w \in Dispatches, Claim(w) \/ Crash(w) PROVE attempts'[q] = attempts[q]
  BY <1>3 DEF Claim, Crash, rowVars
<1>4. ASSUME NEW w \in Dispatches, Work(w) PROVE attempts'[q] \in {attempts[q], attempts[q] + 1}
  <2>1. CASE PostAccepted(w) \/ PostFailed(w) \/ MarkSent(w) \/ MarkSentThrows(w)
    BY <2>1 DEF PostAccepted, PostFailed, MarkSent, MarkSentThrows, rowVars
  <2>2. CASE MarkFailed(w)
    <3>1. CASE Owns(w, Head1(w).row)
      <4>1. batch[w] \in Seq(Items) /\ batch[w] # <<>>
        BY <2>2 DEF IInv, TypeOK, MarkFailed, Running
      <4>2. Head1(w) = batch[w][1] /\ 1 \in DOMAIN batch[w]
        BY <4>1, BatchTail DEF Head1
      <4>3. attempts[Head1(w).row] = Head1(w).attempts
        BY <3>1, <4>2 DEF IInv, ItemsInv
      <4>4. attempts' = [attempts EXCEPT ![Head1(w).row] = Head1(w).attempts + 1]
        BY <2>2, <3>1 DEF MarkFailed
      <4> QED BY <4>3, <4>4 DEF IInv, TypeOK
    <3>2. CASE ~Owns(w, Head1(w).row)
      BY <2>2, <3>2 DEF MarkFailed, rowVars
    <3> QED BY <3>1, <3>2
  <2> QED BY <1>4, <2>1, <2>2 DEF Work
<1> QED BY <1>1, <1>2, <1>3, <1>4 DEF Next

\* Attempt counts go up by one, or back to zero by the replay of a dead row.
THEOREM FailuresAreCountedOnce == Spec => FailuresCountOnce
<1>1. IInv /\ [Next]_vars =>
        [\A r \in Rows : \/ attempts'[r] \in {attempts[r], attempts[r] + 1}
                         \/ status[r] = "dead" /\ attempts'[r] = 0]_vars
  BY AttemptStep
<1> QED BY InitIInv, NextIInv, <1>1, PTL DEF Spec, FailuresCountOnce
=============================================================================
