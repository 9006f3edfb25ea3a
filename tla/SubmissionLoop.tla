---------------------------- MODULE SubmissionLoop ----------------------------
(***************************************************************************)
(* The teacher-publish, student-evidence, teacher-feedback loop of one     *)
(* student on one activity: the command store                              *)
(* (learning-loop/postgres-store.ts), the image store                      *)
(* (learning-loop/submission-image-store.ts), the AI draft route and the   *)
(* records that retention closes and purges.                               *)
(*                                                                         *)
(* Every command of the store is one database transaction that takes the   *)
(* row locks it needs before it reads, so a command is one action here;    *)
(* what interleaves are the commands.  A caller builds a request from the  *)
(* page it last loaded; the request may reach the server late, several     *)
(* times (a retry after a lost reply) or never, and other callers act in   *)
(* between.  A refused command changes nothing and is not an action.       *)
(***************************************************************************)
EXTENDS Naturals, Sequences, FiniteSets

CONSTANTS
  Tabs,          \* the student's browser sessions
  Desks,         \* the teacher's review sessions
  Texts,         \* the non-blank texts a student may write
  Images,        \* client attachment ids of images
  Keys,          \* idempotency keys
  ImageLimit,    \* images one version may hold
  MaxAttempts,   \* bound on recorded formative attempts
  MaxVisits,     \* bound on recorded events of other pages
  MaxVersion,    \* bound on versions of the submission
  MaxRevision    \* bound on the revision of a draft, and of a feedback draft

ASSUME CallersAssumption == Tabs \cap Desks = {}
ASSUME BoundsAssumption ==
  /\ ImageLimit \in Nat
  /\ MaxAttempts \in Nat /\ MaxVisits \in Nat
  /\ MaxVersion \in Nat \ {0}
  /\ MaxRevision \in Nat \ {0}

VARIABLES
  activity,      \* uais_assessments.status of the activity
  retention,     \* uais_course_record_retention: open, closed or purged
  attempts,      \* uais_formative_attempts: how many rows
  submission,    \* the uais_submissions row
  versions,      \* uais_submission_versions with their attachments, by version_no
  notes,         \* the teacher's draft row of uais_feedback for each version
  released,      \* the released and superseded rows of uais_feedback, in order
  events,        \* uais_learning_events, in order
  profile,       \* the uais_learner_profiles row
  receipts,      \* uais_idempotency_records
  calls,         \* what each caller has asked for and may still deliver
  jobs           \* AI generations the draft route has reserved and not finished

records == <<attempts, submission, versions, notes, released, events, profile>>
vars == <<activity, retention, records, receipts, calls, jobs>>

-----------------------------------------------------------------------------
Callers == Tabs \cup Desks
Blank == "blank"                        \* a draft may be saved empty
Contents == Texts \cup {Blank}
Untold == "untold"             \* the empty text a page puts where it was told none
ShownTexts == Contents \cup {Untold}
Evidence == [text: Contents, images: SUBSET Images]
Unsealed == [text |-> "unsealed"]

Reviewable == {"submitted", "resubmitted"}
SubmissionStates ==
  {"absent", "draft", "submitted", "revision_requested", "resubmitted", "accepted"}
Verdicts == {"request-revision", "accept"}

Versions == [status: {"draft", "sealed"}, text: Contents, revision: Nat \ {0},
             images: SUBSET Images, evidence: Evidence \cup {Unsealed}]
\* `seen` is not stored by the code: it is what the author had read, the page or,
\* when a generator wrote, its text alone.
Readings == [text: ShownTexts, images: SUBSET Images] \cup [text: ShownTexts]
Notes == [revision: Nat, seen: Readings \cup {Unsealed}]
Releases == [version: Nat, status: {"released", "superseded"},
             verdict: Verdicts, seen: Readings]
Scopes == {"formative-attempt", "learning-event", "submit", "save-feedback", "decision",
           "ai-feedback"}
Receipts == [scope: Scopes, status: {"persisted", "pending", "failed"}]
NoReceipt == [status |-> "none"]
EventKinds == {"formative-check.attempted", "page.visited", "submission.submitted",
               "submission.resubmitted", "feedback.released",
               "submission.accepted", "submission.revision-requested"}
Events == [kind: EventKinds, version: Nat, key: Keys]

Absent == [state |-> "absent", accepted |-> 0]
NewNote == [revision |-> 0, seen |-> Unsealed]
NewProfile == [version |-> 0, state |-> "none"]
NewVersion(text, images) ==
  [status |-> "draft", text |-> text, revision |-> 1, images |-> images,
   evidence |-> Unsealed]

Latest == Len(versions)
Current == versions[Latest]

(***************************************************************************)
(* The page a caller loads.  The student's panel shows revision 0 once a   *)
(* revision is requested, because the next save opens a new version.  A    *)
(* page on which a refusal was resolved is no longer as it was loaded.     *)
(***************************************************************************)
Pages == [version: Nat, revision: Nat, text: ShownTexts, images: SUBSET Images,
          note: Nat, loaded: BOOLEAN]
Page ==
  IF versions = <<>>
  THEN [version |-> 0, revision |-> 0, text |-> Blank, images |-> {}, note |-> 0,
        loaded |-> TRUE]
  ELSE [version |-> Latest,
        revision |-> IF submission.state = "revision_requested"
                     THEN 0 ELSE Current.revision,
        text |-> Current.text, images |-> Current.images,
        note |-> notes[Latest].revision, loaded |-> TRUE]
SeenOn(page) == [text |-> page.text, images |-> page.images]
GeneratorSees(page) == [text |-> page.text]

Requests ==
       [op: {"attempt", "visit", "submit", "save-feedback", "ai-feedback"},
        page: Pages, key: Keys]
  \cup [op: {"save"}, page: Pages, text: Contents]
  \cup [op: {"upload", "remove"}, page: Pages, image: Images]
  \cup [op: {"decide"}, page: Pages, key: Keys, verdict: Verdicts]
Idle == [op |-> "idle"]

TypeOK ==
  /\ activity \in {"published", "archived"}
  /\ retention \in {"open", "closed", "purged"}
  /\ attempts \in Nat
  /\ submission \in [state: SubmissionStates, accepted: Nat]
  /\ versions \in Seq(Versions)
  /\ (submission.state = "absent") <=> (versions = <<>>)
  /\ notes \in Seq(Notes) /\ Len(notes) = Len(versions)
  /\ released \in Seq(Releases)
  /\ events \in Seq(Events)
  /\ profile \in [version: Nat, state: SubmissionStates \cup {"none"}]
  /\ receipts \in [Keys -> Receipts \cup {NoReceipt}]
  /\ calls \in [Callers -> Requests \cup {Idle}]
  /\ jobs \subseteq [page: Pages, key: Keys]

Init ==
  /\ activity = "published"
  /\ retention = "open"
  /\ attempts = 0
  /\ submission = Absent
  /\ versions = <<>>
  /\ notes = <<>>
  /\ released = <<>>
  /\ events = <<>>
  /\ profile = NewProfile
  /\ receipts = [k \in Keys |-> NoReceipt]
  /\ calls = [c \in Callers |-> Idle]
  /\ jobs = {}

-----------------------------------------------------------------------------
(* Callers *)

\* A caller draws a new key for a new request, and repeats it when it retries.
FreshKeys == {k \in Keys : receipts[k] = NoReceipt}

Visits == {i \in DOMAIN events : events[i].kind = "page.visited"}

\* What the panel offers at all: the activity is published, the records are open.
Editable == activity = "published" /\ retention = "open"
Submittable(page) == page.text \notin {Blank, Untold} \/ page.images # {}

\* A student session turns what its page shows into a request; other pages of the
\* course record what the student does there, whatever becomes of the activity.
StudentAsks(c) ==
  /\ calls[c] = Idle
  /\ \/ /\ Cardinality(Visits) < MaxVisits
        /\ \E k \in FreshKeys : calls' = [calls EXCEPT ![c] =
             [op |-> "visit", page |-> Page, key |-> k]]
     \/ /\ Editable
        /\ \E k \in FreshKeys : calls' = [calls EXCEPT ![c] =
             [op |-> "attempt", page |-> Page, key |-> k]]
     \/ /\ Editable
        /\ attempts >= 1
        /\ submission.state \in {"absent", "draft", "revision_requested"}
        /\ \E text \in Contents : calls' = [calls EXCEPT ![c] =
             [op |-> "save", page |-> Page, text |-> text]]
     \/ /\ Editable
        /\ submission.state = "draft"
        /\ \/ \E image \in Images : calls' = [calls EXCEPT ![c] =
                [op |-> "upload", page |-> Page, image |-> image]]
           \/ \E image \in Images \cap Current.images : calls' = [calls EXCEPT ![c] =
                [op |-> "remove", page |-> Page, image |-> image]]
           \/ /\ Submittable(Page)
              /\ \E k \in FreshKeys : calls' = [calls EXCEPT ![c] =
                   [op |-> "submit", page |-> Page, key |-> k]]
  /\ UNCHANGED <<activity, retention, records, receipts, jobs>>

\* The review page offers its buttons only while the submission awaits review, and
\* an AI draft only for text.
TeacherAsks(c) ==
  /\ calls[c] = Idle
  /\ submission.state \in Reviewable
  /\ \E k \in FreshKeys :
       \/ \E op \in {"save-feedback", "ai-feedback"} :
            /\ op = "ai-feedback" => Page.text # Blank
            /\ calls' = [calls EXCEPT ![c] = [op |-> op, page |-> Page, key |-> k]]
       \/ \E verdict \in Verdicts : calls' = [calls EXCEPT ![c] =
            [op |-> "decide", page |-> Page, key |-> k, verdict |-> verdict]]
  /\ UNCHANGED <<activity, retention, records, receipts, jobs>>

\* The caller has its answer, or gives up; the request is not delivered again.
Forget(c) ==
  /\ calls[c] # Idle
  /\ calls' = [calls EXCEPT ![c] = Idle]
  /\ UNCHANGED <<activity, retention, records, receipts, jobs>>

-----------------------------------------------------------------------------
(* What every command checks and writes *)

Asks(c, op) == calls[c].op = op

\* assertClassroomRecordWriteAllowed, without and with allowClosed
RecordWritable_Reviewable == retention # "purged"     \* mutant: allowClosed everywhere
RecordWritable_NotPurged == retention # "closed"      \* mutant: purged_at not read
RecordWritable == retention = "open"
RecordReviewable == retention # "purged"

\* readIdempotentReceipt: a key that has a receipt replays it, or conflicts
NotYetApplied_Always(k) == k \in Keys                          \* mutant: no replay
NotYetApplied_Pending(k) == receipts[k].status # "persisted"   \* mutant: pending is free
NotYetApplied(k) == receipts[k] = NoReceipt
WriteReceipt(k, scope, status) ==
  receipts' = [receipts EXCEPT ![k] = [scope |-> scope, status |-> status]]

Event(kind, version, k) == [kind |-> kind, version |-> version, key |-> k]
\* upsertLearnerProjection
Project_InsertOnly(state) ==               \* mutant: the conflicting row is kept
  profile' = IF profile.version = 0 THEN [version |-> 1, state |-> state] ELSE profile
Project(state) == profile' = [version |-> profile.version + 1, state |-> state]

\* The version a request was made for is the one the submission is at now.
NamesCurrent_Any(page) == page \in Pages             \* mutant: version not compared
NamesCurrent(page) == page.version = Latest
-----------------------------------------------------------------------------
(* The student's commands *)

\* recordFormativeAttempt: also the start-submission recommendation, which no
\* command reads.  The projection moves on; the submission state it tells stays.
RecordAttempt(c) ==
  /\ Asks(c, "attempt")
  /\ NotYetApplied(calls[c].key)
  /\ RecordWritable /\ activity = "published"
  /\ attempts < MaxAttempts
  /\ attempts' = attempts + 1
  /\ events' = Append(events, Event("formative-check.attempted", 0, calls[c].key))
  /\ Project(profile.state)
  /\ WriteReceipt(calls[c].key, "formative-attempt", "persisted")
  /\ UNCHANGED <<activity, retention, submission, versions, notes, released, calls, jobs>>

\* recordLearningEvent: the fourth command that moves the projection, from any page of
\* the course; it knows neither the activity nor the submission.
RecordVisit(c) ==
  /\ Asks(c, "visit")
  /\ NotYetApplied(calls[c].key)
  /\ RecordWritable
  /\ Cardinality(Visits) < MaxVisits
  /\ events' = Append(events, Event("page.visited", 0, calls[c].key))
  /\ Project(profile.state)
  /\ WriteReceipt(calls[c].key, "learning-event", "persisted")
  /\ UNCHANGED <<activity, retention, attempts, submission, versions, notes, released,
                 calls, jobs>>

\* Every change to a draft, of its text or its images, advances its revision.
NextRevision_Kept == Current.revision      \* mutant: the revision is not advanced
NextRevision == Current.revision + 1

\* saveSubmissionDraft has no idempotency key: a second delivery is a new save,
\* and only the version and the revision it names can refuse it.
SaveDraft(c) ==
  LET asked == calls[c] IN
  /\ Asks(c, "save")
  /\ RecordWritable /\ activity = "published" /\ attempts >= 1
  /\ NamesCurrent(asked.page)
  /\ \/ /\ submission.state = "absent"
        /\ asked.page.revision = 0
        /\ versions' = <<NewVersion(asked.text, {})>>
        /\ notes' = <<NewNote>>
     \/ /\ submission.state = "revision_requested"
        /\ asked.page.revision = 0
        /\ Latest < MaxVersion
        /\ versions' = Append(versions, NewVersion(asked.text, Current.images))
        /\ notes' = Append(notes, NewNote)
     \/ /\ submission.state = "draft"
        /\ asked.page.revision = Current.revision
        /\ Current.revision < MaxRevision
        /\ versions' = [versions EXCEPT ![Latest] =
             [Current EXCEPT !.text = asked.text, !.revision = NextRevision]]
        /\ UNCHANGED notes
  /\ submission' = [submission EXCEPT !.state = "draft"]
  /\ UNCHANGED <<activity, retention, attempts, released, events, profile, receipts,
                 calls, jobs>>

\* lockOwnedVersion and assertWritableVersion
DraftWritable_Sealed(page) ==              \* mutant: the state is not checked
  /\ RecordWritable /\ activity = "published"
  /\ NamesCurrent(page) /\ page.revision = Current.revision
DraftWritable_Stale(page) ==               \* mutant: the revision is not compared
  /\ RecordWritable /\ activity = "published"
  /\ submission.state = "draft" /\ NamesCurrent(page)
DraftWritable(page) ==
  /\ RecordWritable /\ activity = "published"
  /\ submission.state = "draft"
  /\ NamesCurrent(page)
  /\ page.revision = Current.revision

\* An image that is already there is a lost reply asked for again: no change.
UploadImage(c) ==
  LET image == calls[c].image IN
  /\ Asks(c, "upload")
  /\ DraftWritable(calls[c].page)
  /\ image \notin Current.images
  /\ Cardinality(Current.images) < ImageLimit
  /\ Current.revision < MaxRevision
  /\ versions' = [versions EXCEPT ![Latest] =
       [Current EXCEPT !.images = @ \cup {image}, !.revision = NextRevision]]
  /\ UNCHANGED <<activity, retention, attempts, submission, notes, released, events,
                 profile, receipts, calls, jobs>>

RemoveImage(c) ==
  LET image == calls[c].image IN
  /\ Asks(c, "remove")
  /\ DraftWritable(calls[c].page)
  /\ image \in Current.images
  /\ Current.revision < MaxRevision
  /\ versions' = [versions EXCEPT ![Latest] =
       [Current EXCEPT !.images = @ \ {image}, !.revision = NextRevision]]
  /\ UNCHANGED <<activity, retention, attempts, submission, notes, released, events,
                 profile, receipts, calls, jobs>>

\* A save or submit that names the current version but not its revision is refused,
\* and the answer tells the session the revision it should have named.  It tells the
\* text only when a save is refused; the panel takes the missing text of a refused
\* submit for an empty one, Untold.
StaleRevision(asked) ==
  /\ RecordWritable /\ activity = "published" /\ attempts >= 1
  /\ NamesCurrent(asked.page)
  /\ asked.page.revision # Page.revision
  /\ \/ asked.op = "save" /\ submission.state \in {"draft", "revision_requested"}
     \/ asked.op = "submit" /\ submission.state = "draft" /\ NotYetApplied(asked.key)
ToldText(op) == IF op = "save" THEN Current.text ELSE Untold
AfterConflict(asked) ==
  [asked.page EXCEPT !.revision = Page.revision, !.text = ToldText(asked.op),
                     !.loaded = FALSE]

\* resolveDraftConflict: the session goes on from what it was told, with the images
\* it still shows, to save a merged text or to submit.
ResolveConflict(c) ==
  LET page == AfterConflict(calls[c]) IN
  /\ calls[c].op \in {"save", "submit"}
  /\ StaleRevision(calls[c])
  /\ \/ \E text \in Contents : calls' = [calls EXCEPT ![c] =
          [op |-> "save", page |-> page, text |-> text]]
     \/ /\ submission.state = "draft" /\ Submittable(page)
        /\ \E k \in FreshKeys : calls' = [calls EXCEPT ![c] =
             [op |-> "submit", page |-> page, key |-> k]]
  /\ UNCHANGED <<activity, retention, records, receipts, jobs>>

\* submitSubmission seals the draft as the evidence under review.
HasEvidence(version) == version.text # Blank \/ version.images # {}
SealedState_First == "submitted"           \* mutant: every round is the first
SealedState == IF Latest = 1 THEN "submitted" ELSE "resubmitted"

Submit(c) ==
  LET asked == calls[c]
      kind == IF Latest = 1 THEN "submission.submitted" ELSE "submission.resubmitted"
  IN
  /\ Asks(c, "submit")
  /\ NotYetApplied(asked.key)
  /\ attempts >= 1
  /\ DraftWritable(asked.page)
  /\ Current.status = "draft"
  /\ HasEvidence(Current)
  /\ versions' = [versions EXCEPT ![Latest] =
       [Current EXCEPT !.status = "sealed",
                       !.evidence = [text |-> Current.text, images |-> Current.images]]]
  /\ submission' = [submission EXCEPT !.state = SealedState]
  /\ events' = Append(events, Event(kind, Latest, asked.key))
  /\ Project(SealedState)
  /\ WriteReceipt(asked.key, "submit", "persisted")
  /\ UNCHANGED <<activity, retention, attempts, notes, released, calls, jobs>>

-----------------------------------------------------------------------------
(* The teacher's commands *)

\* What saveFeedbackDraft, decideSubmission and reserveAiFeedbackRequest ask of
\* the submission before they touch it.
UnderReview_Decided(page) ==               \* mutant: the state is not checked
  /\ RecordReviewable /\ NamesCurrent(page) /\ Current.status = "sealed"
UnderReview(page) ==
  /\ RecordReviewable
  /\ submission.state \in Reviewable
  /\ NamesCurrent(page)
  /\ Current.status = "sealed"

\* saveFeedbackDraft, from the editor (with a key) or from the AI route
WriteNote(page, seen) ==
  /\ UnderReview(page)
  /\ page.note = notes[Latest].revision
  /\ notes[Latest].revision < MaxRevision
  /\ notes' = [notes EXCEPT ![Latest] = [revision |-> @.revision + 1, seen |-> seen]]

SaveFeedback(c) ==
  /\ Asks(c, "save-feedback")
  /\ NotYetApplied(calls[c].key)
  /\ WriteNote(calls[c].page, SeenOn(calls[c].page))
  /\ WriteReceipt(calls[c].key, "save-feedback", "persisted")
  /\ UNCHANGED <<activity, retention, attempts, submission, versions, released, events,
                 profile, calls, jobs>>

\* The feedback released for earlier versions gives way to this one.
Supersede_None(page) == IF page \in Pages THEN released ELSE <<>>  \* mutant: no update
Supersede_Status(page) ==                  \* mutant: a status the schema does not have
  [i \in DOMAIN released |-> [released[i] EXCEPT !.status = "archived"]]
Supersede(page) ==
  [i \in DOMAIN released |->
    IF released[i].status = "released" /\ released[i].version # page.version
    THEN [released[i] EXCEPT !.status = "superseded"] ELSE released[i]]

\* decideSubmission releases feedback and decides in one transaction.
Decide(c) ==
  LET asked == calls[c]
      accepts == asked.verdict = "accept"
      state == IF accepts THEN "accepted" ELSE "revision_requested"
      kind == IF accepts THEN "submission.accepted" ELSE "submission.revision-requested"
  IN
  /\ Asks(c, "decide")
  /\ NotYetApplied(asked.key)
  /\ UnderReview(asked.page)
  /\ released' = Append(Supersede(asked.page),
       [version |-> Latest, status |-> "released", verdict |-> asked.verdict,
        seen |-> SeenOn(asked.page)])
  /\ submission' = [state |-> state, accepted |-> IF accepts THEN Latest ELSE 0]
  /\ events' = events \o <<Event("feedback.released", Latest, asked.key),
                           Event(kind, Latest, asked.key)>>
  /\ Project(state)
  /\ WriteReceipt(asked.key, "decision", "persisted")
  /\ UNCHANGED <<activity, retention, attempts, versions, notes, calls, jobs>>

-----------------------------------------------------------------------------
(* The AI draft route: reserve, generate outside any transaction from the text *)
(* alone, then save or fail.  A route that dies in between leaves the          *)
(* reservation pending.                                                        *)

ReserveAi(c) ==
  /\ Asks(c, "ai-feedback")
  /\ NotYetApplied(calls[c].key)
  /\ UnderReview(calls[c].page)
  /\ Current.text # Blank
  /\ jobs' = jobs \cup {[page |-> calls[c].page, key |-> calls[c].key]}
  /\ WriteReceipt(calls[c].key, "ai-feedback", "pending")
  /\ UNCHANGED <<activity, retention, records, calls>>

IsPending(k) == receipts[k].status = "pending"

CompleteAi(job) ==
  /\ WriteNote(job.page, GeneratorSees(job.page))
  /\ IsPending(job.key)
  /\ WriteReceipt(job.key, "ai-feedback", "persisted")
  /\ jobs' = jobs \ {job}
  /\ UNCHANGED <<activity, retention, attempts, submission, versions, released, events,
                 profile, calls>>

\* failAiFeedbackRequest looks at the reservation alone, not at the retention.
FailAi(job) ==
  /\ IF IsPending(job.key)
     THEN WriteReceipt(job.key, "ai-feedback", "failed")
     ELSE UNCHANGED receipts
  /\ jobs' = jobs \ {job}
  /\ UNCHANGED <<activity, retention, records, calls>>

\* The process dies, or the failure cannot be recorded (the route ignores that).
CrashAi(job) ==
  /\ jobs' = jobs \ {job}
  /\ UNCHANGED <<activity, retention, records, receipts, calls>>

-----------------------------------------------------------------------------
(* The activity and the retention of the course's records *)

ArchiveActivity ==
  /\ activity = "published"
  /\ RecordWritable
  /\ activity' = "archived"
  /\ UNCHANGED <<retention, records, receipts, calls, jobs>>

CloseRecords ==
  /\ retention = "open"
  /\ retention' = "closed"
  /\ UNCHANGED <<activity, records, receipts, calls, jobs>>

\* deleteClassroomEvidence deletes the receipts that name a purged row; an AI
\* reservation names none until it completes, and stays.
PurgeRecords ==
  /\ retention = "closed"
  /\ retention' = "purged"
  /\ attempts' = 0
  /\ submission' = Absent
  /\ versions' = <<>>
  /\ notes' = <<>>
  /\ released' = <<>>
  /\ events' = <<>>
  /\ profile' = NewProfile
  /\ receipts' = [k \in Keys |->
       IF receipts[k].status = "persisted" THEN NoReceipt ELSE receipts[k]]
  /\ UNCHANGED <<activity, calls, jobs>>

-----------------------------------------------------------------------------
StudentStep(c) ==
  \/ StudentAsks(c) \/ ResolveConflict(c) \/ Forget(c)
  \/ RecordAttempt(c) \/ RecordVisit(c) \/ SaveDraft(c)
  \/ UploadImage(c) \/ RemoveImage(c) \/ Submit(c)

TeacherStep(c) ==
  \/ TeacherAsks(c) \/ Forget(c)
  \/ SaveFeedback(c) \/ Decide(c) \/ ReserveAi(c)

JobStep(job) == CompleteAi(job) \/ FailAi(job) \/ CrashAi(job)

Next ==
  \/ \E c \in Tabs : StudentStep(c)
  \/ \E c \in Desks : TeacherStep(c)
  \/ \E job \in jobs : JobStep(job)
  \/ ArchiveActivity \/ CloseRecords \/ PurgeRecords

Spec == Init /\ [][Next]_vars
-----------------------------------------------------------------------------
(* What the loop promises *)

Shown(v) == [text |-> versions[v].text, images |-> versions[v].images]
Sealed(v) == v \in 1..Latest /\ versions[v].status = "sealed"
EventsOf(kinds, v) == {i \in DOMAIN events : events[i].kind \in kinds /\ events[i].version = v}
SubmitKinds == {"submission.submitted", "submission.resubmitted"}
DecisionKinds == {"submission.accepted", "submission.revision-requested"}
Decided(v) ==
  Sealed(v) /\ (v < Latest \/ submission.state \in {"revision_requested", "accepted"})

\* The submission row and its version rows tell one story: only the last version
\* can be a draft, it is one exactly while the submission is a draft, and a
\* submission is accepted on its last version or on none.
VersionsFollowState ==
  /\ \A v \in 1..Latest :
       (versions[v].status = "draft") <=> (v = Latest /\ submission.state = "draft")
  /\ (submission.state = "submitted") => Latest = 1
  /\ (submission.state = "resubmitted") => Latest > 1
  /\ submission.accepted = IF submission.state = "accepted" THEN Latest ELSE 0

\* A sealed version carries the evidence it was sealed with, and still shows it.
SealedShowsEvidence ==
  \A v \in 1..Latest :
    versions[v].evidence =
      IF versions[v].status = "sealed"
      THEN Shown(v) ELSE Unsealed

\* The released feedback is one row for every decided version, in order, each
\* about its own version; only the last is current, and only the last may accept.
FeedbackFollowsDecisions ==
  /\ Len(released) = Cardinality({v \in 1..Latest : Decided(v)})
  /\ \A i \in DOMAIN released :
       /\ released[i].version = i
       /\ (released[i].status = "released") <=> (i = Len(released))
       /\ (released[i].verdict = "accept") <=> (i = submission.accepted)

\* Released feedback is of a teacher who had seen, text and images, the evidence that
\* is sealed under the version it is stored for; a draft of feedback is of one who
\* had, or of a generator that was given that version's text, however old the page
\* was when the command arrived and however long the generation took.
FeedbackBoundToEvidence ==
  /\ \A v \in 1..Latest : notes[v].revision > 0 =>
       \/ notes[v].seen = versions[v].evidence
       \/ notes[v].seen = [text |-> versions[v].evidence.text]
  /\ \A i \in DOMAIN released :
       LET v == released[i].version IN
         Sealed(v) /\ released[i].seen = versions[v].evidence

\* What a page shows of a version at the revision it names: all of it as loaded, its
\* text after a refused save, and neither after a refused submit, which tells no text.
ShowsText(page, v) == page.text = versions[v].text
Shows(page, v) ==
  IF page.loaded THEN SeenOn(page) = Shown(v)
  ELSE ShowsText(page, v) \/ page.text = Untold

\* The pages that outstanding requests and generations were built from are honest:
\* a student's page is of a version that exists, and while its revision is the
\* version's it shows what the version holds, with the one exception of Shows; while
\* a revision may be opened from it, it shows the sealed text.  A reviewer's page
\* shows the sealed evidence of its version.
StudentPageHolds(page) ==
  page.version # 0 =>
    LET v == page.version IN
    /\ v \in 1..Latest
    /\ page.revision <= versions[v].revision
    /\ page.revision = 0 => Sealed(v) /\ ShowsText(page, v)
    /\ page.revision = versions[v].revision => Shows(page, v)
ReviewPageHolds(page) ==
  Sealed(page.version) /\ SeenOn(page) = versions[page.version].evidence
PagesTellTruth ==
  retention # "purged" =>
    /\ \A c \in Tabs : calls[c] # Idle => StudentPageHolds(calls[c].page)
    /\ \A c \in Desks : calls[c] # Idle => ReviewPageHolds(calls[c].page)
    /\ \A job \in jobs : ReviewPageHolds(job.page)

\* The event log and the stored state agree: one submission event per sealed
\* version, then one feedback and one decision event when it is decided, and the
\* events of a version precede those of the next.
LedgerMatchesHistory ==
  /\ \A v \in 1..Latest :
       /\ Cardinality(EventsOf(SubmitKinds, v)) = IF Sealed(v) THEN 1 ELSE 0
       /\ Cardinality(EventsOf({"feedback.released"}, v)) = IF Decided(v) THEN 1 ELSE 0
       /\ Cardinality(EventsOf(DecisionKinds, v)) = IF Decided(v) THEN 1 ELSE 0
       /\ \A i \in EventsOf(SubmitKinds, v), j \in EventsOf(DecisionKinds, v) : i < j
       /\ \A i \in EventsOf(DecisionKinds, v), j \in EventsOf(SubmitKinds, v + 1) : i < j
  /\ attempts = Cardinality(EventsOf({"formative-check.attempted"}, 0))

\* However often a request is delivered it takes effect at most once: a key that
\* holds a receipt owns exactly the events of one run of its command, and a key
\* without one owns none.
EventsPerReceipt(receipt) ==
  IF receipt = NoReceipt THEN 0
  ELSE CASE receipt.scope \in {"formative-attempt", "learning-event", "submit"} -> 1
         [] receipt.scope = "decision" -> 2
         [] OTHER -> 0
AppliedOncePerKey ==
  \A k \in Keys :
    Cardinality({i \in DOMAIN events : events[i].key = k}) = EventsPerReceipt(receipts[k])

\* The learner profile is not behind the log: its version counts the commands
\* that were logged, and it tells the outcome of the last one that moved the
\* submission.
Outcome(kind) ==
  CASE kind = "submission.submitted" -> "submitted"
    [] kind = "submission.resubmitted" -> "resubmitted"
    [] kind = "submission.accepted" -> "accepted"
    [] kind = "submission.revision-requested" -> "revision_requested"
ProfileTellsLastOutcome ==
  LET moves == {i \in DOMAIN events : events[i].kind \in SubmitKinds \cup DecisionKinds}
  IN /\ profile.version =
          Cardinality({i \in DOMAIN events : events[i].kind # "feedback.released"})
     /\ profile.state =
          IF moves = {} THEN "none"
          ELSE Outcome(events[CHOOSE i \in moves : \A j \in moves : j <= i].kind)

\* A generation under way always finds its own reservation pending, whatever was
\* decided, closed or purged meanwhile, and no two generations share one.
GenerationHoldsReservation ==
  /\ \A job \in jobs : IsPending(job.key) /\ receipts[job.key].scope = "ai-feedback"
  /\ \A j1, j2 \in jobs : j1.key = j2.key => j1 = j2

\* Once purged the course holds no record of the student, and no receipt that
\* claims one, whatever requests and generations were under way at the time.
PurgeIsFinal ==
  retention = "purged" =>
    /\ attempts = 0 /\ submission = Absent /\ versions = <<>> /\ notes = <<>>
    /\ released = <<>> /\ events = <<>> /\ profile = NewProfile
    /\ \A k \in Keys : receipts[k].status # "persisted"

\* A sealed version never changes again, until it is purged.
SealedEvidenceImmutable ==
  [][\A v \in 1..Latest :
       Sealed(v) => \/ v \in DOMAIN versions' /\ versions'[v] = versions[v]
                    \/ retention' = "purged"]_vars

\* A version that changes, or is sealed, was asked for by a session that had seen its
\* text and images as they stand, so no session overwrites or submits what another
\* wrote since it last looked.  After a refusal that was resolved on the page it had
\* seen the text only, and after a refused submit it may have been told none.
ChangedByReader ==
  [][\A v \in (DOMAIN versions) \cap (DOMAIN versions') :
       versions'[v] # versions[v] =>
         \E c \in Tabs :
           /\ calls[c] # Idle
           /\ calls[c].page.version = v
           /\ Shows(calls[c].page, v)]_vars

\* No silent loss, as the ledger of the repository claims it: a session that changes or
\* submits a version had read its text.  After a refused submit the code does not keep
\* this.
NoSilentOverwrite ==
  [][\A v \in (DOMAIN versions) \cap (DOMAIN versions') :
       versions'[v] # versions[v] =>
         \E c \in Tabs :
           /\ calls[c] # Idle
           /\ calls[c].page.version = v
           /\ ShowsText(calls[c].page, v)]_vars

\* A revision starts from the version that was decided: the session that opened it
\* had read that version's sealed text, and the new version keeps its images.
RevisionBuildsOnLast ==
  [][(Latest > 0 /\ Len(versions') > Latest) =>
       /\ \E c \in Tabs :
            /\ calls[c] # Idle
            /\ calls[c].page.version = Latest
            /\ calls[c].page.text = Current.evidence.text
       /\ versions'[Latest + 1].images = Current.images]_vars

\* The submission moves as the loop allows, an accepted one only by the purge,
\* and only while the activity is published does a draft open or seal.
Moves == {<<"absent", "draft">>, <<"draft", "submitted">>, <<"draft", "resubmitted">>,
          <<"submitted", "revision_requested">>, <<"submitted", "accepted">>,
          <<"resubmitted", "revision_requested">>, <<"resubmitted", "accepted">>,
          <<"revision_requested", "draft">>}
SubmissionMovesAsAllowed ==
  [][\/ retention' = "purged"
     \/ /\ submission'.state # submission.state =>
             <<submission.state, submission'.state>> \in Moves
        /\ (activity # "published" \/ retention # "open") =>
             versions' = versions /\ attempts' = attempts]_vars
=============================================================================
