---------------------------- MODULE LearningOutbox ----------------------------
(***************************************************************************)
(* Delivery of learning events to the learning record store: the rows of   *)
(* uais_xapi_outbox, the dispatches that claim them in batches             *)
(* (learning-loop/outbox-worker.ts over claimBatch, markSent and           *)
(* markFailed), and the operator's replay of dead rows.                    *)
(*                                                                         *)
(* Every store call is one SQL statement and so one action.  Between them  *)
(* a dispatch talks to the record store over the network, may die, and may *)
(* outlive its ten-minute lease, when another dispatch claims its rows.    *)
(* Clock times are abstracted to what the code asks of them: whether the   *)
(* next attempt of a row is due (the order in which rows became due is     *)
(* kept), and whether its lease is over.                                   *)
(***************************************************************************)
EXTENDS Naturals, Sequences, FiniteSets

CONSTANTS
  Rows,          \* outbox rows, one for each learning event
  Dispatches,    \* worker ids; a request draws a new one, see Claim
  BatchLimit,    \* rows one dispatch claims at most
  MaxAttempts,   \* failed attempts after which a row is dead
  MaxCrashes,    \* bound on dispatches that die
  MaxOverruns,   \* bound on leases that end while their dispatch still runs
  MaxReplays     \* bound on replays of dead rows

ASSUME RowsAssumption == IsFiniteSet(Rows)
ASSUME LimitsAssumption == BatchLimit \in Nat \ {0} /\ MaxAttempts \in Nat \ {0}
ASSUME BudgetsAssumption ==
  MaxCrashes \in Nat /\ MaxOverruns \in Nat /\ MaxReplays \in Nat

VARIABLES
  status,        \* status of the row; absent before its event, purged after it
  attempts,      \* attempt_count
  due,           \* the place of each row by next_attempt_at, 0 until that has come
  lockedBy,      \* locked_by
  expired,       \* the rows locked ten minutes ago or more
  lrs,           \* the statements the record store holds, by row
  batch,         \* what each dispatch has claimed and not yet dealt with
  step,          \* what each dispatch does with the first item of its batch
  crashes, overruns, replays   \* how much of each bound is used

rowVars == <<status, attempts, due, lockedBy, expired>>
dispatchVars == <<batch, step>>
budget == <<crashes, overruns, replays>>
vars == <<rowVars, lrs, dispatchVars, budget>>

-----------------------------------------------------------------------------
Nobody == "nobody"
ASSUME DispatchesAssumption == Nobody \notin Dispatches

Statuses == {"absent", "pending", "processing", "sent", "failed", "dead", "purged"}
Items == [row: Rows, attempts: Nat]

TypeOK ==
  /\ status \in [Rows -> Statuses]
  /\ attempts \in [Rows -> 0..MaxAttempts]
  /\ due \in [Rows -> Nat]
  /\ lockedBy \in [Rows -> Dispatches \cup {Nobody}]
  /\ expired \subseteq Rows
  /\ lrs \subseteq Rows
  /\ batch \in [Dispatches -> Seq(Items)]
  /\ step \in [Dispatches -> {"posting", "accepted", "failed"}]
  /\ crashes \in 0..MaxCrashes /\ overruns \in 0..MaxOverruns /\ replays \in 0..MaxReplays

Init ==
  /\ status = [r \in Rows |-> "absent"]
  /\ attempts = [r \in Rows |-> 0]
  /\ due = [r \in Rows |-> 0]
  /\ lockedBy = [r \in Rows |-> Nobody]
  /\ expired = {}
  /\ lrs = {}
  /\ batch = [w \in Dispatches |-> <<>>]
  /\ step = [w \in Dispatches |-> "posting"]
  /\ crashes = 0 /\ overruns = 0 /\ replays = 0

Running(w) == batch[w] # <<>>
Head1(w) == Head(batch[w])

\* The row falls due after all that are, or stops being due.
Enqueued(r) == due' = [due EXCEPT ![r] = 1 + Cardinality({q \in Rows : due[q] > 0})]
Dequeued(r) ==
  due' = [q \in Rows |-> IF q = r THEN 0
                        ELSE IF due[r] \in 1..due[q] THEN due[q] - 1
                        ELSE due[q]]

Unlocked(r) == /\ lockedBy' = [lockedBy EXCEPT ![r] = Nobody]
               /\ expired' = expired \ {r}

-----------------------------------------------------------------------------
(* Rows come and go *)

\* A command of the learning loop commits an event and its row, due at once.
Record(r) ==
  /\ status[r] = "absent"
  /\ status' = [status EXCEPT ![r] = "pending"]
  /\ Enqueued(r)
  /\ UNCHANGED <<attempts, lockedBy, expired, lrs, dispatchVars, budget>>

DelayPasses(r) ==
  /\ status[r] = "failed"
  /\ due[r] = 0
  /\ Enqueued(r)
  /\ UNCHANGED <<status, attempts, lockedBy, expired, lrs, dispatchVars, budget>>

\* Ten minutes have gone by since the claim.
LeaseEnds(r) ==
  /\ status[r] = "processing"
  /\ r \notin expired
  /\ IF Running(lockedBy[r]) /\ r \in {batch[lockedBy[r]][i].row :
                                         i \in DOMAIN batch[lockedBy[r]]}
     THEN overruns < MaxOverruns /\ overruns' = overruns + 1
     ELSE UNCHANGED overruns
  /\ expired' = expired \cup {r}
  /\ UNCHANGED <<status, attempts, due, lockedBy, lrs, dispatchVars, crashes, replays>>

\* replayDead, by an operator
ReplayDead(r) ==
  /\ status[r] = "dead"
  /\ replays < MaxReplays
  /\ status' = [status EXCEPT ![r] = "pending"]
  /\ attempts' = [attempts EXCEPT ![r] = 0]
  /\ Enqueued(r)
  /\ replays' = replays + 1
  /\ UNCHANGED <<lockedBy, expired, lrs, dispatchVars, crashes, overruns>>

\* The retention purge deletes the event and, by its foreign key, the row, also
\* under a dispatch that has claimed it.
Purge(r) ==
  /\ status[r] \notin {"absent", "purged"}
  /\ status' = [status EXCEPT ![r] = "purged"]
  /\ Dequeued(r)
  /\ Unlocked(r)
  /\ UNCHANGED <<attempts, lrs, dispatchVars, budget>>

-----------------------------------------------------------------------------
(* A dispatch *)

Claimable_AnyLease(r) ==                   \* mutant: the lease is not looked at
  /\ status[r] \in {"pending", "failed", "processing"}
  /\ attempts[r] < MaxAttempts
Claimable_NoReclaim(r) ==                  \* mutant: a dead dispatch keeps its rows
  status[r] \in {"pending", "failed"} /\ attempts[r] < MaxAttempts
Claimable(r) ==
  /\ \/ status[r] \in {"pending", "failed"}
     \/ status[r] = "processing" /\ r \in expired
  /\ attempts[r] < MaxAttempts

\* The rows that fell due first, as many as a batch may hold.
NextBatch ==
  LET claimable == {r \in Rows : due[r] > 0 /\ Claimable(r)}
  IN {r \in claimable : Cardinality({q \in claimable : due[q] < due[r]}) < BatchLimit}

InOrder(rows) ==
  {b \in [1..Cardinality(rows) -> rows] : \A i, j \in DOMAIN b : i < j => due[b[i]] < due[b[j]]}

\* claimBatch: oldest first.  The worker id is random, so no row carries it yet.
Claim(w) ==
  /\ ~Running(w)
  /\ \A r \in Rows : lockedBy[r] # w
  /\ NextBatch # {}
  /\ status' = [r \in Rows |-> IF r \in NextBatch THEN "processing" ELSE status[r]]
  /\ lockedBy' = [r \in Rows |-> IF r \in NextBatch THEN w ELSE lockedBy[r]]
  /\ expired' = expired \ NextBatch
  /\ \E b \in InOrder(NextBatch) :
       batch' = [batch EXCEPT ![w] =
         [i \in DOMAIN b |-> [row |-> b[i], attempts |-> attempts[b[i]]]]]
  /\ step' = [step EXCEPT ![w] = "posting"]
  /\ UNCHANGED <<attempts, due, lrs, budget>>

\* postXapiStatement: the record store keeps the statement or not, and the answer
\* may be an error or a timeout either way.
Posting(w) == Running(w) /\ step[w] = "posting"
PostAccepted(w) ==
  /\ Posting(w)
  /\ lrs' = lrs \cup {Head1(w).row}
  /\ step' = [step EXCEPT ![w] = "accepted"]
  /\ UNCHANGED <<rowVars, batch, budget>>
PostFailed(w) ==
  /\ Posting(w)
  /\ lrs' \in {lrs, lrs \cup {Head1(w).row}}
  /\ step' = [step EXCEPT ![w] = "failed"]
  /\ UNCHANGED <<rowVars, batch, budget>>

\* What the WHERE clause of markSent and markFailed asks besides the id.
Owns_Processing(w, r) ==                   \* mutant: locked_by is not compared
  w \in Dispatches /\ status[r] = "processing"
Owns_Any(w, r) ==                          \* mutant: the id alone
  w \in Dispatches /\ status[r] # "purged"
Owns(w, r) == status[r] = "processing" /\ lockedBy[r] = w

NextItem_Kept(w) ==                        \* mutant: the step is not reset
  batch' = [batch EXCEPT ![w] = Tail(@)] /\ UNCHANGED step
NextItem(w) ==
  /\ batch' = [batch EXCEPT ![w] = Tail(@)]
  /\ step' = [step EXCEPT ![w] = "posting"]

\* markSent updates no row when the lease has gone to another.
StoreSent(w, r) ==
  IF Owns(w, r)
  THEN /\ status' = [status EXCEPT ![r] = "sent"]
       /\ Dequeued(r)
       /\ Unlocked(r)
  ELSE UNCHANGED <<status, due, lockedBy, expired>>

MarkSent(w) ==
  /\ Running(w) /\ step[w] = "accepted"
  /\ StoreSent(w, Head1(w).row)
  /\ NextItem(w)
  /\ UNCHANGED <<attempts, lrs, budget>>

\* An error of markSent lands in the same catch as an error of the post, whether
\* the update was lost or only its answer.
MarkSentThrows(w) ==
  /\ Running(w) /\ step[w] = "accepted"
  /\ StoreSent(w, Head1(w).row) \/ UNCHANGED <<status, due, lockedBy, expired>>
  /\ step' = [step EXCEPT ![w] = "failed"]
  /\ UNCHANGED <<attempts, lrs, batch, budget>>

IsDead_Late(count) == count > MaxAttempts                    \* mutant: off by one
IsDead(count) == count >= MaxAttempts

MarkFailed(w) ==
  LET r == Head1(w).row
      count == Head1(w).attempts + 1
  IN
  /\ Running(w) /\ step[w] = "failed"
  /\ IF Owns(w, r)
     THEN /\ status' = [status EXCEPT ![r] = IF IsDead(count) THEN "dead" ELSE "failed"]
          /\ attempts' = [attempts EXCEPT ![r] = count]
          /\ Dequeued(r)
          /\ Unlocked(r)
     ELSE UNCHANGED rowVars
  /\ NextItem(w)
  /\ UNCHANGED <<lrs, budget>>

\* The process dies, or markFailed throws and the rest of the batch is abandoned.
Crash(w) ==
  /\ Running(w)
  /\ crashes < MaxCrashes
  /\ crashes' = crashes + 1
  /\ batch' = [batch EXCEPT ![w] = <<>>]
  /\ UNCHANGED <<rowVars, lrs, step, overruns, replays>>

-----------------------------------------------------------------------------
Work(w) ==
  \/ PostAccepted(w) \/ PostFailed(w) \/ MarkSent(w) \/ MarkSentThrows(w) \/ MarkFailed(w)

Next ==
  \/ \E r \in Rows :
       Record(r) \/ DelayPasses(r) \/ LeaseEnds(r) \/ ReplayDead(r) \/ Purge(r)
  \/ \E w \in Dispatches : Claim(w) \/ Work(w) \/ Crash(w)

Spec == Init /\ [][Next]_vars

\* Time passes; a scheduler keeps requesting dispatches; one that runs goes on
\* (the post has a deadline of ten seconds) unless it dies.
Fairness ==
  /\ \A r \in Rows : WF_vars(DelayPasses(r)) /\ WF_vars(LeaseEnds(r))
  /\ \A w \in Dispatches : WF_vars(Claim(w)) /\ WF_vars(Work(w))

FairSpec == Spec /\ Fairness
-----------------------------------------------------------------------------
(* What delivery promises *)

\* A row is marked sent only when the record store holds its statement, however
\* answers are lost and leases change hands.
SentIsStored == \A r \in Rows : status[r] = "sent" => r \in lrs

\* A row is given up after exactly MaxAttempts counted failures, not before, and
\* no row that reached them is left where nobody claims or replays it.
DeadAfterMaxAttempts ==
  \A r \in Rows : status[r] # "purged" =>
    ((status[r] = "dead") <=> (attempts[r] = MaxAttempts))

\* Two dispatches work on the same row only after a lease ended under a dispatch
\* that still ran; a crash alone never makes it happen.
RowsOf(w) == {batch[w][i].row : i \in DOMAIN batch[w]}
LeaseIsExclusive ==
  overruns = 0 => \A w1, w2 \in Dispatches : w1 # w2 => RowsOf(w1) \cap RowsOf(w2) = {}

\* A row that is sent stays sent: a dispatch that lost its lease and then fails
\* does not bring it back.
SentIsFinal ==
  [][\A r \in Rows : status[r] = "sent" => status'[r] \in {"sent", "purged"}]_vars

\* The attempt count goes up by one failure at a time and is never set back by a
\* dispatch that read it long ago; only a replay resets it.
FailuresCountOnce ==
  [][\A r \in Rows :
       \/ attempts'[r] \in {attempts[r], attempts[r] + 1}
       \/ status[r] = "dead" /\ attempts'[r] = 0]_vars

\* Every recorded event is delivered, given up, or purged: no crash, lost answer or
\* lease strands it.
Settles ==
  \A r \in Rows : (status[r] = "pending") ~> (status[r] \in {"sent", "dead", "purged"})
=============================================================================
