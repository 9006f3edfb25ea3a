---------------------------- MODULE RecordRetention ----------------------------
(***************************************************************************)
(* Closing and purging the student records of a course while others write  *)
(* them: server/classroom-record-retention-store.ts, the commands of the   *)
(* learning loop it stands against, and the two stores that keep the       *)
(* records of all courses in one row each, the shares of chatrooms and the *)
(* teaching operations (learning-chatroom-share-postgres-store.ts,         *)
(* teaching-operations-postgres-store.ts).                                 *)
(*                                                                         *)
(* Every request is one transaction that takes a list of locks one by one, *)
(* looks at something as it gets each, and commits when it has them all.   *)
(* Advisory locks and row locks are alike here, except that the lock on    *)
(* the records of a course is shared by those who write them.              *)
(***************************************************************************)
EXTENDS Naturals, Sequences, FiniteSets

CONSTANTS
  Courses,       \* numbers, in the order in which a writer locks courses
  Stores,        \* the stores that keep all courses in one row, in purge order
  Commands,      \* requests of the learning loop on a student's work
  Writers,       \* requests that change a store
  Owners,        \* requests to close or to purge a course
  MaxAttempts    \* attempts of a writer against a changed store

ASSUME NumbersAssumption ==
  /\ Courses \subseteq Nat /\ IsFiniteSet(Courses)
  /\ Stores \subseteq Nat /\ IsFiniteSet(Stores)
ASSUME RequestsAssumption ==
  Commands \cap Writers = {} /\ Commands \cap Owners = {} /\ Writers \cap Owners = {}
ASSUME AttemptsAssumption == MaxAttempts \in Nat \ {0}

Requests == Commands \cup Writers \cup Owners

VARIABLES
  retention,     \* the period of each course's records
  evidence,      \* changes the commands made to each course's records
  receipts,      \* the idempotency keys with a stored receipt
  stored,        \* each store: its revision, 0 while absent, and the changes it has
  holders,       \* who holds each lock
  job,           \* what each request wants and what it saw before it began
  plan,          \* the locks it has yet to take
  at,            \* how far it is
  attempts,      \* how often a writer has started
  committed      \* every change ever committed

vars == <<retention, evidence, receipts, stored, holders, job, plan, at, attempts, committed>>
tables == <<retention, evidence, receipts, stored, committed>>
-----------------------------------------------------------------------------
Kinds == {"submit", "review"}
Records(c) == <<"records", c>>      \* uais-classroom-records:<course>
Work(c) == <<"work", c>>            \* the rows of the student's work
Key(kind, c) == <<kind, c>>         \* the idempotency key of one command
Row(s) == <<"store", s>>
Locks == {Records(c) : c \in Courses} \cup {Work(c) : c \in Courses}
           \cup {Key(k, c) : k \in Kinds, c \in Courses} \cup {Row(s) : s \in Stores}

Changes == [course: Courses, by: Requests]
Change(r) == [course |-> job[r].course, by |-> r]
Of(c, changes) == {x \in changes : x.course = c}
Jobs == [op: Kinds \cup {"none", "change", "close", "purge"}, course: Courses \cup {0},
         store: Stores \cup {0}, rev: Nat, saw: SUBSET Changes]
NoJob == [op |-> "none", course |-> 0, store |-> 0, rev |-> 0, saw |-> {}]

\* Everything a purge of the course deletes.
Kept(c) == evidence[c] \cup UNION {Of(c, stored[s].changes) : s \in Stores}

TypeOK ==
  /\ retention \in [Courses -> {"open", "closed", "expired", "purged"}]
  /\ evidence \in [Courses -> SUBSET Changes]
  /\ receipts \subseteq {Key(k, c) : k \in Kinds, c \in Courses}
  /\ stored \in [Stores -> [rev: Nat, changes: SUBSET Changes]]
  /\ holders \in [Locks -> SUBSET Requests]
  /\ job \in [Requests -> Jobs]
  /\ plan \in [Requests -> Seq(Locks)]
  /\ at \in [Requests -> {"idle", "active", "done", "refused"}]
  /\ attempts \in [Requests -> 0..MaxAttempts]
  /\ committed \subseteq Changes

Init ==
  /\ retention \in [Courses -> {"open", "expired"}]
  /\ evidence = [c \in Courses |-> {}]
  /\ receipts = {}
  /\ \E rev \in {0, 1} : stored = [s \in Stores |-> [rev |-> rev, changes |-> {}]]
  /\ holders = [l \in Locks |-> {}]
  /\ job = [r \in Requests |-> NoJob]
  /\ plan = [r \in Requests |-> <<>>]
  /\ at = [r \in Requests |-> "idle"]
  /\ attempts = [r \in Requests |-> 0]
  /\ committed = {}
-----------------------------------------------------------------------------
(* Requests and the order of their locks *)

Sorted(S) ==
  CHOOSE f \in [1..Cardinality(S) -> S] : \A i, j \in DOMAIN f : i < j => f[i] < f[j]

CommandPlan(kind, c) ==
  IF kind = "submit" THEN <<Key(kind, c), Records(c), Work(c)>>
                     ELSE <<Records(c), Key(kind, c), Work(c)>>

\* A writer replaces the whole store, so it locks every course it writes about.
CoursesWritten(c, changes) == {c} \cup {x.course : x \in changes}

\* Mutant: the row of the store is locked before the courses.
RowFirstPlan(c, s, changes) ==
  LET courses == Sorted(CoursesWritten(c, changes)) IN
  <<Row(s)>> \o [i \in DOMAIN courses |-> Records(courses[i])]

WriterPlan(c, s, changes) ==
  LET courses == Sorted(CoursesWritten(c, changes)) IN
  [i \in DOMAIN courses |-> Records(courses[i])] \o <<Row(s)>>

\* deleteClassroomEvidence
PurgePlan(c) ==
  LET stores == Sorted(Stores) IN
  <<Records(c), Work(c)>> \o [i \in DOMAIN stores |-> Row(stores[i])]

Begin(r, what, locks) ==
  /\ at[r] = "idle"
  /\ job' = [job EXCEPT ![r] = what]
  /\ plan' = [plan EXCEPT ![r] = locks]
  /\ at' = [at EXCEPT ![r] = "active"]
  /\ UNCHANGED <<tables, holders>>

BeginCommand(r, kind, c) ==
  /\ Begin(r, [NoJob EXCEPT !.op = kind, !.course = c], CommandPlan(kind, c))
  /\ UNCHANGED attempts

\* read, and the change worked out on what was read
BeginWrite(r, c, s) ==
  /\ attempts[r] < MaxAttempts
  /\ attempts[r] > 0 => c = job[r].course /\ s = job[r].store
  /\ Begin(r, [op |-> "change", course |-> c, store |-> s, rev |-> stored[s].rev,
               saw |-> stored[s].changes], WriterPlan(c, s, stored[s].changes))
  /\ attempts' = [attempts EXCEPT ![r] = @ + 1]

BeginClose(r, c) ==
  /\ Begin(r, [NoJob EXCEPT !.op = "close", !.course = c], <<Records(c)>>)
  /\ UNCHANGED attempts

\* The confirmation names the digest of what a preview showed; the preview of an
\* open course shows no closing time, and its digest is never the one asked for.
BeginPurge(r, c) ==
  /\ retention[c] # "open"
  /\ Begin(r, [NoJob EXCEPT !.op = "purge", !.course = c, !.saw = Kept(c)], PurgePlan(c))
  /\ UNCHANGED attempts

\* purge_after is reached.
RetentionEnds(c) ==
  /\ retention[c] = "closed"
  /\ retention' = [retention EXCEPT ![c] = "expired"]
  /\ UNCHANGED <<evidence, receipts, stored, committed, holders, job, plan, at, attempts>>
-----------------------------------------------------------------------------
(* Locks *)

\* Mutant: close and purge share the lock too, as a preview does.
AllShare(r, l) == l[1] = "records"

Shares(r, l) == r \notin Owners /\ l[1] = "records"

\* A shared request waits behind an exclusive one that waits already.
Blockers(r) ==
  IF plan[r] = <<>> THEN {}
  ELSE LET l == Head(plan[r])
           queued == {o \in Owners : plan[o] # <<>> /\ Head(plan[o]) = l}
       IN (IF Shares(r, l) THEN (holders[l] \cap Owners) \cup queued
                           ELSE holders[l]) \ {r}

WaitCycle(r) ==
  Blockers(r) # {} /\ \E S \in SUBSET Requests :
    r \in S /\ \A q \in S : Blockers(q) \cap S # {}

Without(r) == [l \in Locks |-> holders[l] \ {r}]

Ends(r, outcome) ==
  /\ at' = [at EXCEPT ![r] = outcome]
  /\ plan' = [plan EXCEPT ![r] = <<>>]
  /\ holders' = Without(r)
  /\ UNCHANGED job

\* assertClassroomRecordWriteAllowed: read in a statement after the lock.  Only
\* the submission of new work is refused once the period is closed.
Barred(r, c) ==
  \/ retention[c] = "purged"
  \/ job[r].op = "submit" /\ retention[c] # "open"

\* Mutant: the digest is asked for and not compared.
Expired(r, c) == retention[c] = "expired"

Confirmed(r, c) == retention[c] = "expired" /\ job[r].saw = Kept(c)

\* Whether the request may go on, seen as it gets the lock.
Allowed(r, l) ==
  /\ l[1] = "records" => /\ r \notin Owners => ~Barred(r, l[2])
                         /\ job[r].op = "close" => retention[l[2]] = "open"
                         /\ job[r].op = "purge" => Confirmed(r, l[2])
  /\ l[1] \in Kinds => l \notin receipts

\* A writer compares the revision under the row lock; no row is no lock.
Overtaken(r, l) == r \in Writers /\ l = Row(job[r].store) /\ stored[l[2]].rev # job[r].rev
Locked(r, l) ==
  IF l[1] = "store" /\ stored[l[2]].rev = 0
  THEN UNCHANGED holders
  ELSE holders' = [holders EXCEPT ![l] = @ \cup {r}]

Lock(r) ==
  /\ plan[r] # <<>> /\ Blockers(r) = {}
  /\ LET l == Head(plan[r]) IN
     /\ Allowed(r, l) /\ ~Overtaken(r, l)
     /\ Locked(r, l)
  /\ plan' = [plan EXCEPT ![r] = Tail(@)]
  /\ UNCHANGED <<tables, job, at, attempts>>

\* Refused, or answered from the receipt or from what has been done already.
Refuse(r) ==
  /\ plan[r] # <<>> /\ Blockers(r) = {}
  /\ ~Allowed(r, Head(plan[r]))
  /\ Ends(r, "refused")
  /\ UNCHANGED <<tables, attempts>>

\* The attempt ends and the next one reads the store anew.
Retry(r) == Ends(r, IF attempts[r] < MaxAttempts THEN "idle" ELSE "refused")

Conflict(r) ==
  /\ plan[r] # <<>> /\ Blockers(r) = {}
  /\ LET l == Head(plan[r]) IN Allowed(r, l) /\ Overtaken(r, l)
  /\ Retry(r)
  /\ UNCHANGED <<tables, attempts>>
-----------------------------------------------------------------------------
(* Commits *)

Ready(r) == at[r] = "active" /\ plan[r] = <<>>

CommitCommand(r) ==
  /\ Ready(r) /\ job[r].op \in Kinds
  /\ evidence' = [evidence EXCEPT ![job[r].course] = @ \cup {Change(r)}]
  /\ receipts' = receipts \cup {Key(job[r].op, job[r].course)}
  /\ committed' = committed \cup {Change(r)}
  /\ Ends(r, "done")
  /\ UNCHANGED <<retention, stored, attempts>>

\* Mutant: the insert replaces whatever row has appeared.
AlwaysApplied(r) == r \in Writers

\* INSERT .. ON CONFLICT .. WHERE revision IS NOT DISTINCT FROM the one read:
\* the row may have appeared since the writer found none to lock.
Unchanged(r) == stored[job[r].store].rev = job[r].rev

CommitWrite(r) ==
  /\ Ready(r) /\ job[r].op = "change" /\ Unchanged(r)
  /\ stored' = [stored EXCEPT ![job[r].store] =
                  [rev |-> @.rev + 1, changes |-> job[r].saw \cup {Change(r)}]]
  /\ committed' = committed \cup {Change(r)}
  /\ Ends(r, "done")
  /\ UNCHANGED <<retention, evidence, receipts, attempts>>

RowAppeared(r) ==
  /\ Ready(r) /\ job[r].op = "change" /\ ~Unchanged(r)
  /\ Retry(r)
  /\ UNCHANGED <<tables, attempts>>

CommitClose(r) ==
  /\ Ready(r) /\ job[r].op = "close"
  /\ retention' = [retention EXCEPT ![job[r].course] = "closed"]
  /\ Ends(r, "done")
  /\ UNCHANGED <<evidence, receipts, stored, committed, attempts>>

\* A store without records of the course keeps its row and its revision.
Stripped(c, row) ==
  IF Of(c, row.changes) = {} THEN row
  ELSE [rev |-> row.rev + 1, changes |-> row.changes \ Of(c, row.changes)]

CommitPurge(r) ==
  /\ Ready(r) /\ job[r].op = "purge"
  /\ LET c == job[r].course IN
     /\ receipts' = {k \in receipts : k[2] # c}
     /\ evidence' = [evidence EXCEPT ![c] = {}]
     /\ stored' = [s \in Stores |-> Stripped(c, stored[s])]
     /\ retention' = [retention EXCEPT ![c] = "purged"]
  /\ Ends(r, "done")
  /\ UNCHANGED <<committed, attempts>>
-----------------------------------------------------------------------------
Next ==
  \/ \E r \in Commands, k \in Kinds, c \in Courses : BeginCommand(r, k, c)
  \/ \E r \in Writers, c \in Courses, s \in Stores : BeginWrite(r, c, s)
  \/ \E r \in Owners, c \in Courses : BeginClose(r, c)
  \/ \E r \in Owners, c \in Courses : BeginPurge(r, c)
  \/ \E c \in Courses : RetentionEnds(c)
  \/ \E r \in Requests : Lock(r)
  \/ \E r \in Requests : Refuse(r)
  \/ \E r \in Writers : Conflict(r)
  \/ \E r \in Commands : CommitCommand(r)
  \/ \E r \in Writers : CommitWrite(r)
  \/ \E r \in Writers : RowAppeared(r)
  \/ \E r \in Owners : CommitClose(r)
  \/ \E r \in Owners : CommitPurge(r)

Spec == Init /\ [][Next]_vars
-----------------------------------------------------------------------------
(* Properties *)

\* Once a course is purged nothing of it is left or comes back, neither work,
\* nor a receipt that would claim it still exists, nor a record in a store a
\* writer replaces from what it read before the purge.
PurgedStaysGone ==
  \A c \in Courses : retention[c] = "purged" =>
    /\ Kept(c) = {}
    /\ \A k \in Kinds : Key(k, c) \notin receipts

\* A change that was committed stays until its course is purged: no writer of
\* the shared stores, of the same course or of another, overwrites it, nor does
\* the purge of another course.
NoChangeLost ==
  \A x \in committed : retention[x.course] # "purged" => x \in Kept(x.course)

\* Requests never wait for each other in a cycle, whatever courses they touch.
NoWaitCycle == \A r \in Requests : ~WaitCycle(r)

\* A purge deletes exactly what its owner confirmed from a preview.
PurgesWhatWasShown ==
  [][\A c \in Courses : (retention[c] # "purged" /\ retention'[c] = "purged") =>
       \E r \in Owners : /\ at[r] = "active" /\ at'[r] = "done"
                         /\ job[r].course = c /\ job[r].saw = Kept(c)]_vars
=============================================================================
