# Formal specification of UAIS

TLA+ models of the parts of UAIS in which work can be lost, sealed wrongly, delivered
twice or resurrected: the loop in which a student hands in evidence and a teacher
judges it, the outbox that delivers learning events to a learning record store, the
versions of an activity, the closing and purging of a course's records, the rooms of
the chatroom, and the roster of a course with its invite codes. TLC checks the models
on small instances; TLAPS proves their safety properties for every value of the
constants, and that the loop implements what it promises. What is left to TLC alone is
liveness, and the two promises of the repository that the code does not keep.

## The system and its components

UAIS is a Next.js application over Postgres. Route handlers authorise a request and
call a *store*; a store command is one database transaction. There are no background
threads: what runs concurrently is requests, of the same or of different users, and
the scheduled dispatch of the outbox.

| Component | State it keeps | Operations | Hard behaviour | What makes it correct |
| --- | --- | --- | --- | --- |
| Submission commands, `learning-loop/postgres-store.ts` | `uais_submissions`, `_submission_versions`, `_feedback`, `_formative_attempts`, `_learning_events`, `_learner_profiles`, `_idempotency_records` | attempt, page event, save, submit, save feedback, decide, reserve/complete/fail an AI draft, edit activities | two tabs, two desks, late and repeated requests, compare-and-set by version and revision | sealed evidence never changes, no text is lost silently, a request takes effect once, feedback is about what its author read |
| Submission images, `submission-image-store.ts` | `uais_submission_attachments`, and the revision it shares with the text | upload, remove, copy into a revision | image edits racing with text saves and submits | every edit advances the shared revision; sealed images stay |
| Student panel, `learning-practice-panel.tsx` | the page a session shows, its pending request and conflict | load, autosave, images, submit, resolve a conflict | works from an old page after a refusal | the session knows what it overwrites |
| Review page and AI route | the page, one generation under way | reserve, generate (seconds, no transaction), save or fail | crash in between, decision or purge in between | a generation finishes its own reservation, for the version it read |
| Outbox, `outbox-worker.ts`, `claimBatch`, `markSent`, `markFailed`, `replayDead` | `uais_xapi_outbox` | claim a batch, post, mark, replay | lost answers, crashes, leases that end under a running dispatch | sent means stored; every row is settled |
| Record retention, `classroom-record-retention-store.ts` | `uais_course_record_retention`; deletes from every other table | close, preview, purge | requests that passed their checks earlier; locks of many rows and courses | a purge deletes what was confirmed, and nothing of it comes back |
| Activity versions and lessons, `createActivity`, `updateActivity`, `classroom-lessons/store.ts` | `uais_assessments` per activity family, `uais_lessons`, `uais_lesson_versions` | save, publish, archive, adjust the due date, create a version; save and publish a lesson | two writers of one family, statement by statement | version numbers are unique, students see what the teacher published |
| Course snapshots, `teaching-course-management-*` | one JSON row per course with a revision, and a table of claimed invite codes | read, rebuild, compare-and-swap with retries | lost races, retries that rebuild; codes that are not of one course | a code names one class; seats, groups and headcounts agree |
| Chatroom transcripts, `use-learning-chatroom.ts`, `learning-chatroom-transcript-*` | the pages, a window of each room in one row, the archive | post the whole visible transcript, read, hide, freeze | late and repeated posts, a room that is frozen or judged in between | a message is stored once, and shown as judged |
| Chatroom shares, teaching operations | one row for all courses each | replace the row by compare-and-swap | writers of other courses, purges in between | no change is lost |
| Collaborator grants | `uais_course_collaborator_grants` | grant, revoke, expire | idempotent grants, expiry | a revoked grant stays revoked |
| Accounts, AI providers, external storage, read models, UI, scripts | see `PROJECT.json` | | | not modelled |

`PROJECT.json` lists the components with their sources, and under `hazards` each
thing that is hard to test, at its line, with the property that covers it or the
reason why none does.

The components meet in the database. A loop command reads the retention row under a
shared advisory lock that the purge takes exclusively, writes its event and its outbox
row in its own transaction, and the purge deletes both. The publisher of a lesson writes
into the activity families that teachers also edit by hand. The writers of the shared
stores take the same advisory locks as the loop, one for each course they write about.

## Modules

| Module | What it is |
| --- | --- |
| `SubmissionLoop` | the loop of one student on one activity: commands, images, panel, review page, AI route, close and purge |
| `SubmissionLifecycle` | what the loop promises: rounds that are handed in and judged |
| `SubmissionRefinement` | the mapping of the loop to the lifecycle |
| `LearningOutbox` | delivery of learning events |
| `ActivityFamily` | the versions of one activity, statement by statement |
| `RecordRetention` | close and purge against the commands and the writers of shared stores, lock by lock |
| `ChatroomTranscript` | one room: pages, posts, window and archive, moderation |
| `CourseRoster` | the rows of several courses: classes, invite codes, joins, groups |
| `SubmissionLoopProofs` | theorems about evidence, pages, generations and the purge |
| `SubmissionHistoryProofs` | theorems about what is counted: feedback, receipts, event log, profile |
| `SubmissionRefinementProofs` | the theorem that the loop implements the lifecycle |
| `LearningOutboxProofs`, `ActivityFamilyProofs`, `RecordRetentionProofs`, `ChatroomTranscriptProofs`, `CourseRosterProofs` | the theorems of the other models |
| `MC...` | instances for TLC: symmetry sets and the values of structured constants |

The models overlap where one abstracts from another: `SubmissionLoop` takes a command
for one step and the purge for another, and `RecordRetention` splits both into their
locks; `SubmissionLoop` knows of an activity only that it may be archived, and
`ActivityFamily` has the rest.

### SubmissionLoop and the code

`versions[v]` is the row of `uais_submission_versions` with number `v` and its
attachments; version ids are these numbers, since no version is created after a
purge. `notes[v]` is the teacher's draft row of `uais_feedback` and `released` the
released and superseded rows. `receipts` is `uais_idempotency_records` by key. Two
fields are not stored by the code and only observe it: `evidence`, what a version
showed when it was sealed, and `seen`, what the author of feedback had before him: the
text and images of the page, or the text alone when a generator wrote (the route gives
it `contentText` only). `loaded` tells whether a page is as it was loaded or went on
after a refusal.

**Callers.** `calls[c]` is a request of a session with the page it was built from. It
stays until the session forgets it, and while it stays it may reach the store any
number of times: a slow request, a retry after a lost reply and a duplicate are all
the same request taken again later. A refused command changes nothing and is no
action, with one exception: a save or submit that is refused because its revision is
stale hands the session the newer revision, from which `ResolveConflict` goes on as
`resolveDraftConflict` does, with the text the answer carried and the images the
page already had. The answer to a refused submit carries no text; the panel puts an
empty one, which is `Untold` here, to tell it from a text that is blank.

**Events of other pages.** `RecordVisit` is `recordLearningEvent`, which any page of
the course calls: it writes an event, a receipt and the projection, and asks neither
for the activity nor for the submission. Its request is a call like the others.

**Atomicity.** A command is one action. Each is one READ COMMITTED transaction that
locks the rows it decides on (`FOR UPDATE OF s, v`), the key by an advisory lock,
and the course's records by a shared one. A waiter whose row changed meanwhile sees
the new row or none and is refused, so a command decides on what it then writes. The
two things a command reads without locking, whether the activity is published and
how many attempts there are, commute with it: archiving could as well have come
after, and attempts only grow until the purge, which the course lock excludes. The
AI route is not one transaction, so it is three actions with any others in between.
Receipts with their scopes stand for the key, scope and request hash; a request never
changes its payload, so a key that has a receipt is never applied again.

**Not in the model.** Feedback text and rubric judgments, hashes, audit rows and
recommendations; the routes' authorisation and their early check of the version,
which refuses what the store would refuse or replay; several teachers of a course. The
activity is one whose `aiPolicy` allows drafts; where it does not, `ReserveAi` never
happens.

### LearningOutbox and the code

One action per SQL statement, because the worker's loop is not a transaction:
`Claim`, then for each item a post, `MarkSent` or `MarkFailed`. `batch[w]` is what a
dispatch has left, with the attempt count it read when it claimed. `due` keeps the
order in which rows became due, which is the order of the claim. A worker id is
random, so `Claim` takes one that no row carries. A post may be kept by the record
store and still be answered by an error (`PostFailed`). `Crash` is a dispatch that
dies, and also an error of `markFailed`, which leaves the loop. `Purge` is the
cascade from the event, also under a running dispatch.

### ActivityFamily and the code

`rows[v]` is the row of `uais_assessments` with version `v`; a text stands for title,
prompt and rubric, named by the request that wrote it, and `due` for the due date.
Whether the family stands alone (`createActivity`) or belongs to a task of a lesson is
chosen once, in `lessonTask`.

A command is a transaction of several statements at READ COMMITTED, so it is a step
per lock or statement whose order others can notice. `Needs` names the lock that the
next statement waits for: the row (`FOR UPDATE`), the advisory lock of the family,
the row of the lesson. `owner` holds them until `Ends`. The statement that archives
the published siblings reads them once (`FindPublished`), waits for each and looks at
it again (`ArchiveSibling`), in an order the planner chooses. A new row of a task
shares the row of the lesson by its foreign key, which is how a publication of the
lesson (lesson, then family) and a new version (family, then lesson) can wait for
each other; `AbortVictim` is the database's way out, and the route answers 500.

The lesson publisher adds a version without archiving the others: a lesson's task has
several published versions, which is why `OneLiveVersion` speaks of families that
stand alone only.

### RecordRetention and the code

A request has a `plan`, the locks it will take in the order of the code, and an
action `Lock` that takes the next one, after the check that the code makes when it
gets there: the retention row once the course's lock is held, the receipt under the
lock of the key, the revision under the lock of the store. A submit locks its key
before the course, a review the course before its key, and a writer of a shared store
every course it writes about, in sorted order, before the row. A shared request for
an advisory lock queues behind an exclusive one. `stored[s].rev = 0` is a store
without a row: nothing is there to lock, two writers may both insert, and the
`ON CONFLICT ... WHERE` of the insert decides (`CommitWrite`, `RowAppeared`).

A purge carries what its preview showed (`saw`); the digest of a preview stands for
it. One key belongs to one kind of command in this model, so a key reused for another
kind is left to `SubmissionLoop`.

### ChatroomTranscript and the code

A page (`screen`, and in `replayed` what its last read brought) posts all it shows.
`post[p].row` is the row a POST has read and will swap by revision; `Store` is the
transaction that merges into the archive, computes the window and compares the
revision, `Retry` the next attempt of the loop, which asks again whether the room is
frozen. Messages are left out of a transcript by `Without`, which picks places by rank:
the proofs can follow that and not the recursion of `SelectSeq`, and TLC compares the
two before its run. `Reply` may come before the store, because the route stops waiting for it
after its time limit. The five second read is two actions: `ReadRoom` takes what the
room shows, or nothing when the store cannot be read, and `TakeAnswer` merges it
(`mergeRoomTranscript`) into a page that may have posted meanwhile. `answer[t]` is the
answer under way; a page has one at a time (`readInFlight`). `Judge` hides or restores a
message, `Moderate` freezes or opens the room by the same swap. Rounds have one
agent message; who may be in the room is checked before and left out.

### CourseRoster and the code

`row[c]` is the JSON row of a course, cut down to classes, codes, drafts of codes,
memberships, groups and headcounts. A request reads (`Read`), for codes also reads
all rows (`Look`), and then commits or starts over: `fresh[w]` says whether the
revision it read still stands, so it stands for the comparison of revisions without
counting them. `claims` is the table of claimed codes, which the write brings in line
with its row (`Reconciled`) and which refuses a code another course holds. What each
handler makes of a row is the set of rows it may write (`Plans`), empty when it is
refused. The reads a handler makes before its retry loop (the class of the code a
student typed, the code that is to be published) are made when the request is asked
for, and may be old by the time it reads.

A class has a deadline for its code (`expires`, on the clock `now` that `Tick` moves
while a deadline is ahead) and a switch (`disabled`), which a publication sets one by
one. A join takes the time once, before its retry loop, so `since` is part of the
request: a code that expires during the retries still lets the student in, and that is
what `JoinsMeetPolicy` says. Which students an automatic split puts together is
left open, since nothing depends on it. The comment at
`teaching-course-management-class-handlers.ts:752` says that codes never move between
courses; the loop does not rely on it, as a join that finds the code gone from the
course it resolved is refused.

## Runs

| Run | Bounds | Distinct states | What it checks |
| --- | --- | --- | --- |
| `two_tabs` | 2 tabs, 1 desk, 2 images (limit 1), 3 keys, 2 attempts, 2 versions, revision 3 | 1,132,692 | honest pages, sealed evidence shown whole, receipts, purge; nothing sealed changes, sessions change what they were shown, revisions build on the last version |
| `refused_submit` | 2 tabs, 2 texts, 1 version, revision 3 | stops at the violation | that `NoSilentOverwrite` fails, see below |
| `two_desks` | 1 tab, 2 desks, 1 image, 4 keys, 1 page event, 2 versions, revision 2 | 268,014 | log, profile and reservations agree with the history; the loop implements `SubmissionLifecycle` |
| `two_rounds` | 1 tab, 1 desk, 1 image, 5 keys, 2 versions, revision 2 | 79,630 | types, the story of the versions; released feedback follows the decisions and the evidence seen |
| `outbox_safety` | 2 rows, 3 dispatches, batches of 2, dead after 3, 1 crash, 1 overrun, 1 replay | 345,221 | sent means stored, dead exactly at the limit, leases exclude, sent is final, failures count once |
| `outbox_liveness` | 2 rows, 2 dispatches, batches of 1, dead after 2, 1 crash, 1 overrun | 61,961 | every pending row is sent, dead or purged |
| `activity_lesson` | 4 editors, 2 publishers of the lesson | 993,482 | fresh version numbers; one version live and one draft where a family stands alone, and no cycle of waits there; a publication takes down what its page showed |
| `activity_liveness` | 3 editors, 1 publisher, 1 saver of the lesson | 47,486 | saving, publishing, copying, archiving, rescheduling and the lesson act on what was shown; every command is answered |
| `retention` | 2 courses, 1 shared store, 2 commands, 2 writers, 1 owner, 2 attempts | 1,065,126 | purged stays gone, no change lost, no cycle of waits, the purge deletes what was confirmed |
| `chatroom` | a student's and a teacher's page, 2 posts, 1 moderator, a window of 1, 2 attempts, 2 verdicts | 1,690,761 | window and archive agree, persisted is kept, stored stays as judged, frozen stays silent |
| `hidden_message` | the same with a window of 2 | stops at the violation | that `HiddenLeavesScreen` fails, see below |
| `course_roster` | 2 courses, 3 classes, 2 codes, 2 students, 2 groups, 1 deadline, 2 requests at once and 3 in all, 2 attempts | 627,466 | a code names one class; seats, groups and headcounts agree, nobody sits in two groups; joins follow the limit, the deadline and the switch of the code |

**Why the bounds suffice.** Conflicts in the loop are between two sessions about one
version, so two tabs or two desks make them; revision 3 lets a page be two edits
behind. Two versions are one decision and its revision: a step refers to the current
version and the one before it, and a third version repeats the second. A key is
needed for each command that has one: `two_rounds` has the five of two full rounds
(attempt, submit, decide, submit, decide), so it reaches an accepted second version;
`two_desks` has four, and spends two on rival decisions or generations. One text and
the blank one suffice where properties compare a text with the one a page shows,
since a change from one to the other and back at a new revision is also reached;
`refused_submit` has two to make its trace readable. In the outbox a row can be in
the hands of the dispatch that lost it, of the one that claimed it since, and free
for a third. An activity needs two publications and a new version at once for a
sibling to appear between two statements, and a fourth request to make the draft they
fight over. Retention needs two courses, because a writer locks the courses it finds
in the store; one store, since the purge visits stores in one order and nobody else
locks two; and a second attempt to come back after a purge. A window of one message
cuts with every second post, and two posts can each be late. Two courses with two
classes in one of them cover codes that collide across and within courses; three
requests, two of them at once, are a setup step and a race; the one deadline is set
and passed while a join is under way. One page event of `two_desks` can fall between
any two commands of the loop, which is all that counting commands needs. `CHECK_DEADLOCK FALSE` is
set because the bounded systems stop: a loop that is purged and forgotten, an outbox
whose rows are settled, requests that are all answered.

**Bounds in the guards.** `MaxAttempts`, `MaxVisits`, `MaxVersion` and `MaxRevision` of the loop
(the code has none), `MaxCrashes`, `MaxOverruns` and `MaxReplays` of the outbox,
`MaxVerdicts`, `Followed` and `LastPost` of the chatroom (pages are followed while a
POST is left to send, and no answer is under way when the last one is sent), `MaxRequests` of the roster. Activity and retention are bounded by their
sets of requests, each sent once. `ImageLimit`, `BatchLimit`, `MaxMessages` and the
`MaxAttempts` of the outbox and of the three retry loops are limits of the code.

**Fairness.** Two models assume any. In the outbox, time passes: a delay or a lease
that started ends. A scheduler keeps calling the dispatch route, so a claim that
stays possible happens. A dispatch that runs goes on, because a post has a deadline
of ten seconds, unless it crashes, which the bound lets happen finitely often. A row
whose dispatch died every time would never count an attempt; the code promises
nothing then, and neither does `Settles`. In `ActivityFamily` a request that was sent
and can go on does, and some transaction of a cycle is aborted: the first is the
server's scheduling of requests, the second the deadlock detection of Postgres. Both
are weak fairness; a lock that is given up and taken again by others for ever is not
possible, as each request is sent once.

**Mutants.** Each property of a passing run has a mutant, an operator of the module
next to the definition it replaces (`DraftWritable_Stale`, `Owns_Processing`, ...),
which changes it as a plausible bug would and makes TLC find that property violated.

### What refused_submit shows

A save that is refused as stale answers with the newer revision and text. A submit
that is refused as stale answers with the revision only
(`postgres-store.ts:1251`), and the panel takes the missing text for an empty one
(`learning-practice-panel.tsx:464`). Either button of the conflict panel then adopts
the new revision with the wrong text: "Use server version" shows an empty draft, and
"Explicitly merge both" merges with nothing. The next autosave names the current
revision, is accepted, and replaces what the other session had written, although the
acceptance ledger (P1-AC-06) asks for a "recoverable 409 without silent text loss".
The trace has twelve states. `ChangedByReader`, which `two_tabs` checks and the theorem
`ChangesAreRead` proves, shows that this is the only way a text is lost: whoever changes
or seals a version had seen it as it stands, or went on after a refused save and had
read its text, or went on after a refused submit and was told none.

The same adoption keeps the images the page already showed, after a refused save as
after a refused submit. A session may so submit a set of images that differs from the
one on its page; the sealed version is consistent, and nothing in the repository
promises otherwise, so `ChangedByReader` promises no images of a page that went on
after a refusal, and the case is listed under the hazards.

### What hidden_message shows

The page takes a read that brings no messages for a read that failed and keeps what
it shows (`use-learning-chatroom.ts:1425`). A room whose messages are all hidden is
read as an empty list, so a student whose only message is hidden goes on seeing it,
as does every other page that had read it, although the comment at line 1315 says
that "every other member loses it on their next read". Once another message is
stored, the next read takes the hidden one away. The trace has eight states; the read
in it is made after the message was hidden, so it is no late answer.

### Smaller observations

A request that hands out a code claims it after its row, so two courses that change
several codes at once could wait for each other's claims; Postgres aborts one of
them. `RecordRetention` finds no such cycle among the locks it has.

## Proofs

A proof module states the inductive invariant its properties follow from, which TLC
checked on the instances of the runs before it was proved. A step that
does not touch what a part of the invariant speaks of is dealt with once, by a lemma
on such steps, and every action has a lemma for the parts it does touch. The
assumptions are the `ASSUME`s of each module, which TLC evaluates in its runs: disjoint
sets of callers, bounds that are numbers, finite sets where something is counted.

### The loop

`SubmissionLoopProofs` proves, for all sets of tabs, desks, texts, images and keys,
and all bounds, with sessions that go on after any refusal:

| Theorem | Property | Argument |
| --- | --- | --- |
| `TypeCorrect` | `TypeOK` | inductive as it stands |
| `VersionsCorrect` | `VersionsFollowState` | inductive together with `SealedShowsEvidence` (`VersionsStory`): that a sealed version keeps what it shows needs to know that only the last version is a draft |
| `SealedVersionsShowIt` | `SealedShowsEvidence` | the second half of `VersionsCorrect` |
| `SealedForGood` | `SealedEvidenceImmutable` | every step that writes a version writes the last, while the submission is a draft |
| `PurgeCorrect` | `PurgeIsFinal` | every write asks for records that are not purged; a failed generation writes only its own reservation |
| `ReservationsCorrect` | `GenerationHoldsReservation` | inductive: a reservation is made with its job, no command reuses its key, and the purge leaves it |
| `PagesCorrect` | `PagesTellTruth` | from how a step may move a version (`RowMoves`): it stays, or it is a draft whose revision goes up, or it is sealed as it stands. So a page keeps being true or its revision falls behind, and a page that went on after a refusal is true as far as it was told |
| `ChangesAreRead` | `ChangedByReader` | from the pages: a write names the current revision, so the page it came from shows what `Shows` says |
| `RevisionsFollow` | `RevisionBuildsOnLast` | from the pages: a page of revision 0 shows the text of the sealed version, since only a refused save is told revision 0 |
| `FeedbackCorrect` | `FeedbackBoundToEvidence` | from the pages of desks and generations, strengthened by `NotesOnSealed`: a draft of feedback is only ever about a sealed version. Releases are of a teacher who saw text and images, drafts also of a generator that saw the text |

`SubmissionHistoryProofs` proves what counts rows and events. They depend on the
versions only through two numbers, how many were handed in (`Handed`) and how many of
these are judged (`Judged`), and seen from there each of the actions is one of
five `RoundStep`s: it moves no round, it notes an attempt or a page event, it is a
hand-in, a verdict or the purge. `EachStepIsARound` looks at the actions; everything after it looks at the five.

| Theorem | Property | Argument |
| --- | --- | --- |
| `FeedbackInOrder` | `FeedbackFollowsDecisions` | `FeedbackInv`: a released row for each judged round, in order, only the last one current |
| `EachKeyOnce` | `AppliedOncePerKey` | `ReceiptsInv` and `KeysInv`: a key owns as many events as its receipt stands for, and a command that writes a receipt found its key free |
| `LedgerCorrect` | `LedgerMatchesHistory` | `LedgerInv`: for each round the submission, then feedback and outcome, after those of the round before; attempts on their own |
| `ProfileCorrect` | `ProfileTellsLastOutcome` | `ProfileInv`: it counts the events of commands and tells the last one that moved the submission |
| `MovesCorrect` | `SubmissionMovesAsAllowed` | from `VersionsStory`, action by action |

`SubmissionRefinementProofs` proves `StoreImplementsLifecycle`: the loop implements
`SubmissionLifecycle` under the mapping of `SubmissionRefinement`, for all constants.
The invariant `Ready` is the history above, `PurgeIsFinal`, and `Accounted`, that every
round handed in had evidence that is not blank and keeps it. A hand-in maps to
`HandIn`, a decision to `Judge`, the purge to `Erase`, closing to `Close`, and every
other step to a stutter, because it leaves the sealed versions and the released
feedback alone.

### The outbox

`LearningOutboxProofs` proves, for all finite sets of rows, any dispatches, limits and
budgets of crashes, overruns and replays:

| Theorem | Property |
| --- | --- |
| `SentRowsAreStored` | `SentIsStored` |
| `DeadRowsUsedTheirAttempts` | `DeadAfterMaxAttempts` |
| `NoRowInTwoHands` | `LeaseIsExclusive` |
| `SentRowsStay` | `SentIsFinal` |
| `FailuresAreCountedOnce` | `FailuresCountOnce` |

None of these is inductive. `DeliveryInvariant` adds what ties a dispatch to the table:
`ItemsInv`, that the items in hand are distinct rows and carry the present attempt
count as long as the dispatch owns them; `PostedInv`, that an accepted item is in the
record store; and `LeaseInv`, that while no lease has ended under its dispatch every
row in hand is locked by its holder under a live lease, or is sent or purged, and is
in no other hand. `RowChange` and `HandsKept` say once what rows may do and what is
left of a batch, and the steps cite them.

### Activity versions

`ActivityFamilyProofs` proves, for any finite sets of editors and publishers and any
savers:

| Theorem | Property | Argument |
| --- | --- | --- |
| `TypeCorrect` | `TypeOK` | with the rest of `IInv`: that no version passes the number of requests needs the numbering |
| `FreshAllocation` | `AllocationIsFresh` | the versions are numbered without a gap (`NumberInv`), and whoever has read the last number still holds the lock of the family |
| `OneLive` | `OneLiveVersion` | `AloneInv`: where the family stands alone a draft is the newest version, so there is one; and a publish that looks for siblings has found every version that is published, as only the draft it has locked could be published after |
| `AloneNoWaitCycle` | `NoWaitCycleAlone` | nobody waits for who holds the family, since that request waits for nothing here. So everyone in a cycle waits for a publish that waits itself for a sibling, and two of these would each hold the draft, of which there is one |
| `PublicationSupersedes` | `PublishSupersedes` | from `SiblingsInv` for the versions the page showed |
| `CommandsActOnPages` | `ActsOnWhatWasShown` | `PageInv`: a page is right about its row while the revision is the same; a row in hand is still as it was accepted (`StageInv`). Covers saving, archiving, rescheduling, publishing, copying and both steps of the lesson |

The invariant says what each lock protects while it is held (`HolderInv`, `StageInv`),
which is the point of the model: the commands do not all take the same locks.

### Retention

`RecordRetentionProofs` proves, for any finite sets of courses and stores and any
commands, writers and owners:

| Theorem | Property | Argument |
| --- | --- | --- |
| `TypeCorrect` | `TypeOK` | |
| `PurgedForGood` | `PurgedStaysGone` | part of the invariant: whoever writes about a course either has its records still ahead in the plan, where it will be refused, or holds them, and then the course is as it was checked (`Covered`) |
| `ChangesSurvive` | `NoChangeLost` | part of the invariant: a writer whose revision still stands replaces the changes it saw (`WriterInv`), and the one purge that takes changes away takes those of its own course |
| `PurgeAsConfirmed` | `PurgesWhatWasShown` | the same for the owner: the records cannot change under the exclusive lock between the check and the commit (`OwnerInv`) |
| `NoDeadlock` | `NoWaitCycle` | by the order of the locks, below |

`RequestInv` ties what a request knows to the locks it holds, `ExclusiveInv` says that
who holds a lock alone holds it alone, and `OrderInv` that a plan names locks in one
order, those in hand before those ahead. A request that waits is blocked by a holder
of the lock it waits for, or by an exclusive request in the queue for the same lock.
In a set of requests that all wait, take one that waits for the last lock of all. A
holder of that lock would wait for a later one, so it is blocked only by exclusive
requests in the queue; but their lock is the same, and the holder they wait for would
be in the set too. So the set is not closed, however large it is.

### The chatroom

`ChatroomTranscriptProofs` proves, for any members, teachers, posts, moderators,
window, attempts and verdicts:

| Theorem | Property | Argument |
| --- | --- | --- |
| `TypeCorrect` | `TypeOK` | |
| `WindowCorrect` | `WindowIsArchiveTail` | `RoomInv`: an append adds what is new once; a verdict on the window is the window of the verdict (`MarkedLatest`) |
| `NothingLost` | `PersistedIsKept` | `PostInv`: what a POST leaves out because the row it goes by has it was in the archive when it was read, and the archive only grows |
| `VerdictsStand` | `StoredStaysAsJudged` | a freeze writes moderation back from the row it read; if the revision stands that row's window is the end of the archive, so nothing changes (`JudgedFacts`, `DeedInv`) |
| `FreezeHolds` | `FrozenStaysSilent` | a POST in the store may speak in the row it goes by, and that row is right about the freeze while the revision stands (`PostInv`) |

That nothing is stored twice needs that a page shows nothing twice, which needs that a
message is new to every page and to the archive until its POST is sent (`ScreenInv`,
`Spoken`). The lemmas on sequences come first (`PickedFacts`, `ArchivedFacts`,
`LatestFacts`, `MergedFacts`); they rest on `RankFacts`, that the places of a set can be
counted by rank, which stands in for induction. The assumption `MessagesAssumption` is
that the ids of members (`local-`) and of agents (`agent-`) differ.

### The roster

`CourseRosterProofs` proves, for any courses, classes, codes, groups, patches and
numbers of requests, and any finite set of students:

| Theorem | Property | Argument |
| --- | --- | --- |
| `InviteCodes` | `CodeNamesOneClass` | across courses from the claims (`ClaimsInv`), within a course from the order of the two reads: what a request saw of its own course still stands while its revision does |
| `CodesAreClaimed` | | every code of a row is claimed by its course |
| `RostersAgree` | `RosterAgrees` | `Orderly` rows stay so under every plan, and a fresh request writes over the row it planned on |
| `JoinsFollowPolicy` | `JoinsMeetPolicy` | the same, for the step: `Allowed` relates the row planned on to the row written, and `PlansAreInTime` says that a planned join was sent before the deadline of that row |

The inductive invariant `IInv` has a part for the rows, one for the claims, and one for
each request: while it is fresh, what it is about to write was worked out of the row
that stands now.

### Only model-checked

`Settles` and `EveryCommandEnds` stay with TLC, since liveness under fairness is out of
the prover's reach. `NoSilentOverwrite` and `HiddenLeavesScreen` do not hold. That `Without` agrees with `SelectSeq` is compared on
short sequences, since it takes an induction over the sequence. The `TypeOK` of
`LearningOutbox`, `RecordRetention` and `ChatroomTranscript` is part of their proved
invariants, and no run spends time on it. That of `CourseRoster` documents the types;
its proofs use a form of their own (`Shaped`, `Sound`).

## Not modelled

- Collaborator grants: one table with its own transactions, next in the plan.
- In the course row: course creation and its rollback, renaming, settings, roster
  sync, grading and export records. They are independent fields written by the same
  retry loop.
- In the chatroom: the providers behind the agents, shares' tokens and their expiry,
  and the file store used without a database.
- In the loop: the recovery envelope the panel keeps in local storage, and its queue
  of uploads.
- Creating and copying a lesson, and the content of packages.
- Read models, accounts and sessions, AI providers and their rate limits, the external
  storage adapter. They are queries, checks before a command, counters, or stand-ins
  for the database; they share no state with what is modelled.
- The user interface beyond what a page remembers and asks for, exports, and the
  operational scripts under `src/scripts`. The scripts (smoke runs, load runs, release
  gates) are the largest part of the repository by lines. They drive the deployed
  system and judge its answers, and have no state that outlives a run, so there is
  nothing to state about them that is not about the system itself.

## Plan

1. `CollaboratorGrants`: grant, revoke, expire under idempotency keys.
2. The refinement of `RecordRetention` by the atomic commands of `SubmissionLoop`.
3. The image limit of uploads at lock level, and the local recovery of the panel.
