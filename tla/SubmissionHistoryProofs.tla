------------------------ MODULE SubmissionHistoryProofs ------------------------
(***************************************************************************)
(* The history of a submission: its released feedback, its receipts, its   *)
(* event log and its profile, proved for any number of callers, keys,      *)
(* versions and revisions.  What they tell depends on the versions only    *)
(* through how many were handed in and how many of these are judged.       *)
(* Every step of the loop is one of five as seen from there (RoundStep):   *)
(* nothing, an attempt or page event, a hand-in, a verdict or the purge.   *)
(* Each part of the history is proved against these five, and the actions  *)
(* are looked at once.                                                     *)
(***************************************************************************)
EXTENDS SubmissionLoopProofs, FiniteSetTheorems

\* How many versions were handed in, and how many of them are decided.
Handed == IF submission.state = "draft" THEN Latest - 1 ELSE Latest
Judged == IF submission.state \in Reviewable \cup {"draft"} THEN Latest - 1 ELSE Latest

\* A receipt that is not of a finished command is one of the AI route.
ReceiptsInv == \A k \in Keys :
  \/ receipts[k] = NoReceipt \/ receipts[k].status = "persisted"
  \/ receipts[k].scope = "ai-feedback"

\* A command that logs n events takes a key that had none.
Logs(k, n) ==
  /\ EventsPerReceipt(receipts[k]) = 0 /\ EventsPerReceipt(receipts'[k]) = n
  /\ \A other \in Keys \ {k} : receipts'[other] = receipts[other]

\* What a step does to the rounds of the submission and to what is told of them.
NoRound ==
  /\ Handed' = Handed /\ Judged' = Judged /\ submission'.accepted = submission.accepted
  /\ UNCHANGED <<attempts, released, events, profile>>
  /\ \A k \in Keys : EventsPerReceipt(receipts'[k]) = EventsPerReceipt(receipts[k])
  /\ retention' = retention \/ (retention = "open" /\ retention' = "closed")
NotedKinds == {"formative-check.attempted", "page.visited"}
Noted(k, kind) ==
  /\ Handed' = Handed /\ Judged' = Judged /\ submission'.accepted = submission.accepted
  /\ UNCHANGED <<released, retention>>
  /\ attempts' = IF kind = "page.visited" THEN attempts ELSE attempts + 1
  /\ events' = Append(events, Event(kind, 0, k))
  /\ Project(profile.state)
  /\ Logs(k, 1)
HandedIn(k, kind) ==
  /\ Judged = Handed /\ Handed' = Handed + 1 /\ Judged' = Judged
  /\ submission.accepted = 0 /\ submission'.accepted = 0
  /\ retention = "open" /\ UNCHANGED <<attempts, released, retention>>
  /\ events' = Append(events, Event(kind, Handed + 1, k))
  /\ Project(Outcome(kind))
  /\ Logs(k, 1)
  /\ versions'[Handed + 1].evidence \in Evidence /\ HasEvidence(versions'[Handed + 1].evidence)
DecisionKind(verdict) ==
  IF verdict = "accept" THEN "submission.accepted" ELSE "submission.revision-requested"
Judges(k, page, verdict) ==
  /\ Handed = Judged + 1 /\ Handed' = Handed /\ Judged' = Judged + 1
  /\ submission.accepted = 0
  /\ submission'.accepted = IF verdict = "accept" THEN Handed ELSE 0
  /\ retention # "purged" /\ UNCHANGED <<attempts, retention>>
  /\ page.version = Handed
  /\ released' = Append(Supersede(page), [version |-> Handed, status |-> "released",
                                          verdict |-> verdict, seen |-> SeenOn(page)])
  /\ events' = Append(Append(events, Event("feedback.released", Handed, k)),
                      Event(DecisionKind(verdict), Handed, k))
  /\ Project(Outcome(DecisionKind(verdict)))
  /\ Logs(k, 2)
AllGone ==
  /\ retention = "closed" /\ retention' = "purged"
  /\ Handed' = 0 /\ Judged' = 0 /\ submission'.accepted = 0
  /\ attempts' = 0 /\ released' = <<>> /\ events' = <<>> /\ profile' = NewProfile
  /\ \A k \in Keys : EventsPerReceipt(receipts'[k]) = 0

RoundStep ==
  \/ NoRound
  \/ \E k \in Keys, kind \in NotedKinds : Noted(k, kind)
  \/ \E k \in Keys, kind \in SubmitKinds : HandedIn(k, kind)
  \/ \E k \in Keys, page \in Pages, verdict \in Verdicts : Judges(k, page, verdict)
  \/ AllGone
-----------------------------------------------------------------------------
\* The rounds counted from the state: the versions handed in are those sealed, the
\* first ones, and the judged ones are those decided.
LEMMA RoundFacts ==
  ASSUME TypeOK, VersionsFollowState
  PROVE  /\ Latest \in Nat /\ Handed \in Nat /\ Judged \in Nat /\ Judged <= Handed
         /\ Handed <= Latest
         /\ \A v \in Nat : Sealed(v) <=> v \in 1..Handed
         /\ \A v \in Nat : Decided(v) <=> v \in 1..Judged
<1>1. /\ Latest \in Nat /\ submission.state \in SubmissionStates
      /\ submission.state = "absent" <=> Latest = 0
  BY DEF TypeOK, Latest
<1>2. Handed \in Nat /\ Judged \in Nat /\ Judged <= Handed /\ Handed <= Latest
  BY <1>1 DEF Handed, Judged, Reviewable, SubmissionStates
<1>3. ASSUME NEW v \in 1..Latest PROVE versions[v].status \in {"draft", "sealed"}
  <2>1. versions[v] \in Versions
    BY DEF TypeOK, Latest
  <2> QED BY <2>1 DEF Versions
<1>4. ASSUME NEW v \in Nat PROVE Sealed(v) <=> v \in 1..Handed
  BY <1>1, <1>3 DEF Sealed, Handed, VersionsFollowState
<1>5. ASSUME NEW v \in Nat PROVE Decided(v) <=> v \in 1..Judged
  BY <1>1, <1>2, <1>4 DEF Decided, Judged, Handed, Reviewable, SubmissionStates
<1> QED BY <1>1, <1>2, <1>4, <1>5

\* How many events the receipt of each command stands for.
LEMMA PerReceipt ==
  /\ EventsPerReceipt(NoReceipt) = 0
  /\ \A status : /\ EventsPerReceipt([scope |-> "ai-feedback", status |-> status]) = 0
                 /\ EventsPerReceipt([scope |-> "save-feedback", status |-> status]) = 0
                 /\ EventsPerReceipt([scope |-> "formative-attempt", status |-> status]) = 1
                 /\ EventsPerReceipt([scope |-> "learning-event", status |-> status]) = 1
                 /\ EventsPerReceipt([scope |-> "submit", status |-> status]) = 1
                 /\ EventsPerReceipt([scope |-> "decision", status |-> status]) = 2
BY DEF EventsPerReceipt, NoReceipt

\* A reservation of the AI route stands for no event, whatever became of it.
LEMMA AiReceipt ==
  ASSUME NEW receipt \in Receipts, receipt.scope = "ai-feedback"
  PROVE  EventsPerReceipt(receipt) = 0
BY DEF EventsPerReceipt, Receipts

\* The receipt a command writes for the key of its request.
LEMMA Written ==
  ASSUME TypeOK, NEW k \in Keys, NEW scope, NEW status, WriteReceipt(k, scope, status)
  PROVE  /\ receipts'[k] = [scope |-> scope, status |-> status]
         /\ \A other \in Keys \ {k} : receipts'[other] = receipts[other]
BY DEF TypeOK, WriteReceipt

\* A step that keeps the submission row and the number of versions keeps the
\* rounds.
LEMMA RoundsKept ==
  ASSUME Latest' = Latest, submission' = submission
  PROVE  Handed' = Handed /\ Judged' = Judged /\ submission'.accepted = submission.accepted
BY DEF Handed, Judged

\* A command that finds its key free and writes its receipt has logged what the
\* receipt stands for.
LEMMA WrittenLogs ==
  ASSUME TypeOK, NEW k \in Keys, receipts[k] = NoReceipt, NEW scope, NEW n,
         WriteReceipt(k, scope, "persisted"),
         EventsPerReceipt([scope |-> scope, status |-> "persisted"]) = n
  PROVE  Logs(k, n)
BY Written, PerReceipt DEF Logs

\* A formative attempt moves no round: it logs one event under its key and moves
\* the profile on (recordFormativeAttempt).
LEMMA AttemptRound ==
  ASSUME TypeOK, NEW c \in Tabs, RecordAttempt(c)
  PROVE  \E k \in Keys, kind \in NotedKinds : Noted(k, kind)
<1> DEFINE k == calls[c].key
<1>1. k \in Keys
  BY RequestType DEF RecordAttempt, Asks, Callers
<1>2. receipts[k] = NoReceipt /\ WriteReceipt(k, "formative-attempt", "persisted")
  BY DEF RecordAttempt, NotYetApplied
<1>3. Logs(k, 1)
  BY <1>1, <1>2, WrittenLogs, PerReceipt
<1>4. Latest' = Latest /\ submission' = submission
  BY DEF RecordAttempt, Latest
<1>5. Noted(k, "formative-check.attempted")
  BY <1>3, <1>4, RoundsKept DEF RecordAttempt, Noted
<1> QED BY <1>1, <1>5 DEF NotedKinds

\* Nor does an event of another page of the course (recordLearningEvent).
LEMMA VisitRound ==
  ASSUME TypeOK, NEW c \in Tabs, RecordVisit(c)
  PROVE  \E k \in Keys, kind \in NotedKinds : Noted(k, kind)
<1> DEFINE k == calls[c].key
<1>1. k \in Keys
  BY RequestType DEF RecordVisit, Asks, Callers
<1>2. receipts[k] = NoReceipt /\ WriteReceipt(k, "learning-event", "persisted")
  BY DEF RecordVisit, NotYetApplied
<1>3. Logs(k, 1)
  BY <1>1, <1>2, WrittenLogs, PerReceipt
<1>4. Latest' = Latest /\ submission' = submission
  BY DEF RecordVisit, Latest
<1>5. Noted(k, "page.visited")
  BY <1>3, <1>4, RoundsKept DEF RecordVisit, Noted
<1> QED BY <1>1, <1>5 DEF NotedKinds

\* A submit hands in the next round, with evidence that is not empty, under the
\* event and the outcome of its kind (submitSubmission).
LEMMA SubmitRound ==
  ASSUME TypeOK, VersionsFollowState, NEW c \in Tabs, Submit(c)
  PROVE  \E k \in Keys, kind \in SubmitKinds : HandedIn(k, kind)
<1> DEFINE k == calls[c].key
           kind == IF Latest = 1 THEN "submission.submitted" ELSE "submission.resubmitted"
           sealed == [text |-> Current.text, images |-> Current.images]
           row == [Current EXCEPT !.status = "sealed", !.evidence = sealed]
<1>1. k \in Keys
  BY RequestType DEF Submit, Asks, Callers
<1>2. /\ receipts[k] = NoReceipt /\ WriteReceipt(k, "submit", "persisted")
      /\ submission.state = "draft" /\ retention = "open"
      /\ submission' = [submission EXCEPT !.state = SealedState]
      /\ versions' = [versions EXCEPT ![Latest] = row]
      /\ HasEvidence(Current)
  BY DEF Submit, NotYetApplied, DraftWritable, RecordWritable
<1>3. Logs(k, 1)
  BY <1>1, <1>2, WrittenLogs, PerReceipt
<1>4. Latest' = Latest /\ Latest \in Nat \ {0} /\ versions'[Latest] = row
  BY <1>2, ReplacedCurrent
<1>5. /\ submission.accepted = 0
      /\ submission'.state = SealedState /\ submission'.accepted = submission.accepted
  BY <1>2 DEF VersionsFollowState, TypeOK
<1>6. Handed = Latest - 1 /\ Judged = Latest - 1
  BY <1>2 DEF Handed, Judged
<1>7. Handed' = Latest /\ Judged' = Latest - 1
  BY <1>4, <1>5 DEF Handed, Judged, SealedState, Reviewable
<1>8. row.evidence = sealed /\ sealed \in Evidence /\ HasEvidence(sealed)
  <2>1. Current \in Versions
    BY <1>2, CurrentType
  <2> QED BY <1>2, <2>1 DEF Versions, Evidence, HasEvidence
<1>9. Handed + 1 = Latest /\ Handed' = Handed + 1 /\ Judged = Handed /\ Judged' = Judged
  BY <1>4, <1>6, <1>7
<1>10. Outcome(kind) = SealedState /\ kind \in SubmitKinds
  BY DEF Outcome, SealedState, SubmitKinds
<1>11. /\ events' = Append(events, Event(kind, Latest, k))
       /\ Project(SealedState) /\ UNCHANGED <<retention, attempts, released>>
  BY DEF Submit
<1> HIDE DEF kind, row, sealed, k
<1>12. HandedIn(k, kind)
  BY <1>2, <1>3, <1>4, <1>5, <1>8, <1>9, <1>10, <1>11 DEF HandedIn
<1> QED BY <1>1, <1>10, <1>12

\* A decision judges the last round and logs the feedback before the outcome
\* (decideSubmission).
LEMMA DecideRound ==
  ASSUME TypeOK, VersionsFollowState, NEW c \in Desks, Decide(c)
  PROVE  \E k \in Keys, page \in Pages, verdict \in Verdicts : Judges(k, page, verdict)
<1> DEFINE k == calls[c].key
           page == calls[c].page
           verdict == calls[c].verdict
           kind == DecisionKind(verdict)
<1>1. k \in Keys /\ page \in Pages /\ verdict \in Verdicts
  BY RequestType DEF Decide, Asks, Callers
<1>2. /\ receipts[k] = NoReceipt /\ WriteReceipt(k, "decision", "persisted")
      /\ submission.state \in Reviewable /\ retention # "purged" /\ page.version = Latest
      /\ submission' = [state |-> IF verdict = "accept" THEN "accepted" ELSE "revision_requested",
                        accepted |-> IF verdict = "accept" THEN Latest ELSE 0]
      /\ UNCHANGED <<versions, retention, attempts>>
  BY DEF Decide, NotYetApplied, UnderReview, RecordReviewable, NamesCurrent
<1>3. Logs(k, 2)
  BY <1>1, <1>2, WrittenLogs, PerReceipt
<1>4. Latest \in Nat \ {0} /\ Latest' = Latest
  BY <1>2, CurrentType DEF Reviewable, Latest
<1>5. submission.accepted = 0
  BY <1>2 DEF VersionsFollowState, Reviewable
<1>6. Handed = Latest /\ Judged = Latest - 1
  BY <1>2 DEF Handed, Judged, Reviewable
<1>7. Handed' = Latest /\ Judged' = Latest
  BY <1>2, <1>4 DEF Handed, Judged, Reviewable
<1>8. Handed = Judged + 1 /\ Handed' = Handed /\ Judged' = Judged + 1
  BY <1>4, <1>6, <1>7
<1>9. events' = Append(Append(events, Event("feedback.released", Latest, k)),
                       Event(kind, Latest, k))
  <2>1. events' = events \o <<Event("feedback.released", Latest, k), Event(kind, Latest, k)>>
    BY DEF Decide, DecisionKind
  <2>2. events \in Seq(Events)
    BY DEF TypeOK
  <2> HIDE DEF kind, k
  <2> QED BY <2>1, <2>2
<1>10. Project(Outcome(kind))
  BY DEF Decide, DecisionKind, Outcome, Project
<1>11. released' = Append(Supersede(page), [version |-> Latest, status |-> "released",
                                            verdict |-> verdict, seen |-> SeenOn(page)])
  BY DEF Decide
<1>12. submission'.accepted = IF verdict = "accept" THEN Handed ELSE 0
  BY <1>2, <1>6
<1> HIDE DEF k, page, verdict
<1>13. Judges(k, page, verdict)
  BY <1>2, <1>3, <1>5, <1>6, <1>8, <1>9, <1>10, <1>11, <1>12 DEF Judges
<1> QED BY <1>1, <1>13

\* Saving opens a version or edits the open one, and hands nothing in
\* (saveSubmissionDraft).
LEMMA SaveRound ==
  ASSUME TypeOK, NEW c \in Tabs, SaveDraft(c)
  PROVE  NoRound
<1>1. /\ UNCHANGED <<retention, attempts, released, events, profile, receipts>>
      /\ submission' = [submission EXCEPT !.state = "draft"]
  BY DEF SaveDraft
<1>2. submission'.state = "draft" /\ submission'.accepted = submission.accepted
  BY <1>1 DEF TypeOK
<1>3. Handed' = Latest' - 1 /\ Judged' = Latest' - 1
  BY <1>2 DEF Handed, Judged
<1>4. CASE submission.state = "absent"
  <2>1. Latest = 0
    BY <1>4 DEF TypeOK, Latest
  <2>2. Latest' = 1
    BY <1>4 DEF SaveDraft, Latest
  <2>3. Handed' = Handed /\ Judged' = Judged
    BY <1>3, <1>4, <2>1, <2>2 DEF Handed, Judged, Reviewable
  <2> QED BY <1>1, <1>2, <2>3 DEF NoRound
<1>5. CASE submission.state = "revision_requested"
  <2>1. versions \in Seq(Versions) /\ Latest = Len(versions) /\ Latest \in Nat
    BY DEF TypeOK, Latest
  <2>2. Latest' = Latest + 1
    BY <1>5, <2>1 DEF SaveDraft, Latest
  <2>3. Handed' = Handed /\ Judged' = Judged
    BY <1>3, <1>5, <2>1, <2>2 DEF Handed, Judged, Reviewable
  <2> QED BY <1>1, <1>2, <2>3 DEF NoRound
<1>6. CASE submission.state = "draft"
  <2>1. Latest' = Latest
    BY <1>6, ReplacedCurrent DEF SaveDraft
  <2>2. Handed' = Handed /\ Judged' = Judged
    BY <1>3, <1>6, <2>1 DEF Handed, Judged
  <2> QED BY <1>1, <1>2, <2>2 DEF NoRound
<1> QED BY <1>4, <1>5, <1>6 DEF SaveDraft

\* Images change the open draft alone.
LEMMA ImageRound ==
  ASSUME TypeOK, NEW c \in Tabs, UploadImage(c) \/ RemoveImage(c)
  PROVE  NoRound
<1>1. UNCHANGED <<retention, attempts, submission, released, events, profile, receipts>>
  BY DEF UploadImage, RemoveImage
<1>2. Latest' = Latest
  BY ReplacedCurrent DEF UploadImage, RemoveImage, DraftWritable
<1> QED BY <1>1, <1>2, RoundsKept DEF NoRound

\* A step that keeps the tables and the receipts moves no round.
LEMMA TablesStill ==
  ASSUME UNCHANGED records, retention' = retention \/ (retention = "open" /\ retention' = "closed"),
         \A k \in Keys : EventsPerReceipt(receipts'[k]) = EventsPerReceipt(receipts[k])
  PROVE  NoRound
<1>1. UNCHANGED <<attempts, submission, versions, released, events, profile>>
  BY DEF records
<1>2. Latest' = Latest
  BY <1>1 DEF Latest
<1> QED BY <1>1, <1>2, RoundsKept DEF NoRound

\* Receipts of feedback drafts and of the AI route stand for no events.
LEMMA SilentReceipt ==
  ASSUME TypeOK, ReceiptsInv, NEW k \in Keys, receipts[k] = NoReceipt \/ IsPending(k),
         NEW scope \in {"ai-feedback", "save-feedback"}, NEW status, WriteReceipt(k, scope, status)
  PROVE  \A j \in Keys : EventsPerReceipt(receipts'[j]) = EventsPerReceipt(receipts[j])
<1>1. EventsPerReceipt(receipts'[k]) = 0
  <2>1. receipts'[k] = [scope |-> scope, status |-> status]
    BY Written
  <2>2. CASE scope = "ai-feedback"
    BY <2>1, <2>2, PerReceipt
  <2>3. CASE scope = "save-feedback"
    BY <2>1, <2>3, PerReceipt
  <2> QED BY <2>2, <2>3
<1>2. EventsPerReceipt(receipts[k]) = 0
  <2>1. CASE receipts[k] = NoReceipt
    BY <2>1, PerReceipt
  <2>2. CASE receipts[k] # NoReceipt
    <3>1. receipts[k] \in Receipts /\ receipts[k].scope = "ai-feedback"
      BY <2>2 DEF TypeOK, ReceiptsInv, IsPending
    <3> QED BY <3>1, AiReceipt
  <2> QED BY <2>1, <2>2
<1>3. \A other \in Keys \ {k} : receipts'[other] = receipts[other]
  BY Written
<1> QED BY <1>1, <1>2, <1>3

\* Feedback drafts and AI reservations leave the rounds alone.
LEMMA ReviewRound ==
  ASSUME TypeOK, ReceiptsInv, NEW c \in Desks, SaveFeedback(c) \/ ReserveAi(c)
  PROVE  NoRound
<1> DEFINE k == calls[c].key
<1>1. k \in Keys
  BY RequestType DEF SaveFeedback, ReserveAi, Asks, Callers
<1>2. /\ receipts[k] = NoReceipt
      /\ \/ WriteReceipt(k, "save-feedback", "persisted")
         \/ WriteReceipt(k, "ai-feedback", "pending")
  BY DEF SaveFeedback, ReserveAi, NotYetApplied
<1>3. \A j \in Keys : EventsPerReceipt(receipts'[j]) = EventsPerReceipt(receipts[j])
  BY <1>1, <1>2, SilentReceipt
<1>4. UNCHANGED <<retention, attempts, submission, versions, released, events, profile>>
  BY DEF SaveFeedback, ReserveAi, records
<1>5. Latest' = Latest
  BY <1>4 DEF Latest
<1> QED BY <1>3, <1>4, <1>5, RoundsKept DEF NoRound

\* So do the ends of a generation.
LEMMA JobRound ==
  ASSUME TypeOK, ReceiptsInv, NEW job \in jobs, JobStep(job)
  PROVE  NoRound
<1>1. job.key \in Keys
  BY DEF TypeOK
<1>2. UNCHANGED <<retention, attempts, submission, versions, released, events, profile>>
  BY DEF JobStep, CompleteAi, FailAi, CrashAi, records
<1>3. \/ UNCHANGED receipts
      \/ /\ IsPending(job.key)
         /\ \/ WriteReceipt(job.key, "ai-feedback", "persisted")
            \/ WriteReceipt(job.key, "ai-feedback", "failed")
  BY DEF JobStep, CompleteAi, FailAi, CrashAi
<1>4. \A j \in Keys : EventsPerReceipt(receipts'[j]) = EventsPerReceipt(receipts[j])
  BY <1>1, <1>3, SilentReceipt
<1>5. Latest' = Latest
  BY <1>2 DEF Latest
<1> QED BY <1>2, <1>4, <1>5, RoundsKept DEF NoRound

\* The purge takes the rounds, the log, the profile and every receipt that stood
\* for an event; only receipts of the AI route remain.
LEMMA PurgeRound ==
  ASSUME TypeOK, ReceiptsInv, PurgeRecords
  PROVE  AllGone
<1>1. ASSUME NEW k \in Keys PROVE EventsPerReceipt(receipts'[k]) = 0
  <2>1. receipts'[k] = IF receipts[k].status = "persisted" THEN NoReceipt ELSE receipts[k]
    BY DEF PurgeRecords
  <2>2. CASE receipts[k].status = "persisted" \/ receipts[k] = NoReceipt
    BY <2>1, <2>2, PerReceipt
  <2>3. CASE receipts[k].status # "persisted" /\ receipts[k] # NoReceipt
    <3>1. receipts[k] \in Receipts /\ receipts[k].scope = "ai-feedback"
      BY <2>3 DEF TypeOK, ReceiptsInv
    <3> QED BY <2>1, <2>3, <3>1, AiReceipt
  <2> QED BY <2>2, <2>3
<1>2. submission' = Absent /\ Latest' = 0
  BY DEF PurgeRecords, Latest
<1>3. Handed' = 0 /\ Judged' = 0 /\ submission'.accepted = 0
  BY <1>2 DEF Handed, Judged, Absent, Reviewable
<1> QED BY <1>1, <1>3 DEF AllGone, PurgeRecords

\* Every step of the loop, seen from the rounds, is one of five.
LEMMA EachStepIsARound ==
  ASSUME TypeOK, VersionsFollowState, ReceiptsInv, [Next]_vars
  PROVE  RoundStep
<1>1. CASE \E c \in Tabs : RecordAttempt(c)
  BY <1>1, AttemptRound DEF RoundStep
<1>11. CASE \E c \in Tabs : RecordVisit(c)
  BY <1>11, VisitRound DEF RoundStep
<1>2. CASE \E c \in Tabs : Submit(c)
  BY <1>2, SubmitRound DEF RoundStep
<1>3. CASE \E c \in Desks : Decide(c)
  BY <1>3, DecideRound DEF RoundStep
<1>4. CASE PurgeRecords
  BY <1>4, PurgeRound DEF RoundStep
<1>5. CASE \E c \in Tabs : SaveDraft(c)
  BY <1>5, SaveRound DEF RoundStep
<1>6. CASE \E c \in Tabs : UploadImage(c) \/ RemoveImage(c)
  BY <1>6, ImageRound DEF RoundStep
<1>7. CASE \E c \in Desks : SaveFeedback(c) \/ ReserveAi(c)
  BY <1>7, ReviewRound DEF RoundStep
<1>8. CASE \E job \in jobs : JobStep(job)
  BY <1>8, JobRound DEF RoundStep
<1>9. CASE \/ \E c \in Tabs : StudentAsks(c) \/ ResolveConflict(c) \/ Forget(c)
           \/ \E c \in Desks : TeacherAsks(c) \/ Forget(c)
  <2>1. UNCHANGED <<retention, records, receipts>>
    BY <1>9 DEF StudentAsks, ResolveConflict, Forget, TeacherAsks
  <2> QED BY <2>1, TablesStill DEF RoundStep
<1>10. CASE ArchiveActivity \/ CloseRecords \/ UNCHANGED vars
  <2>1. /\ UNCHANGED <<records, receipts>>
        /\ retention' = retention \/ (retention = "open" /\ retention' = "closed")
    BY <1>10 DEF ArchiveActivity, CloseRecords, vars
  <2> QED BY <2>1, TablesStill DEF RoundStep
<1> QED
  BY <1>1, <1>2, <1>3, <1>4, <1>5, <1>6, <1>7, <1>8, <1>9, <1>10, <1>11
     DEF Next, StudentStep, TeacherStep
-----------------------------------------------------------------------------
\* The receipt a command or the AI route writes.
LEMMA ReceiptWritten ==
  ASSUME TypeOK, ReceiptsInv, NEW k \in Keys, NEW scope, NEW status,
         WriteReceipt(k, scope, status), status = "persisted" \/ scope = "ai-feedback"
  PROVE  ReceiptsInv'
<1>1. /\ receipts'[k] = [scope |-> scope, status |-> status]
      /\ \A other \in Keys \ {k} : receipts'[other] = receipts[other]
  BY Written
<1>2. receipts'[k].status = "persisted" \/ receipts'[k].scope = "ai-feedback"
  BY <1>1
<1> QED BY <1>1, <1>2 DEF ReceiptsInv

\* Every step keeps the kinds of the receipts.
LEMMA ReceiptsStep ==
  ASSUME TypeOK, ReceiptsInv, [Next]_vars
  PROVE  ReceiptsInv'
<1>1. ASSUME UNCHANGED receipts PROVE ReceiptsInv'
  BY <1>1 DEF ReceiptsInv
<1>2. ASSUME NEW c \in Tabs, RecordAttempt(c) \/ RecordVisit(c) \/ Submit(c)
      PROVE  ReceiptsInv'
  BY <1>2, ReceiptWritten, RequestType DEF RecordAttempt, RecordVisit, Submit, Asks, Callers
<1>3. ASSUME NEW c \in Desks, SaveFeedback(c) \/ Decide(c) \/ ReserveAi(c) PROVE ReceiptsInv'
  BY <1>3, ReceiptWritten, RequestType DEF SaveFeedback, Decide, ReserveAi, Asks, Callers
<1>4. ASSUME NEW job \in jobs, JobStep(job) PROVE ReceiptsInv'
  <2>1. job.key \in Keys
    BY DEF TypeOK
  <2>2. \/ UNCHANGED receipts
        \/ \E status : WriteReceipt(job.key, "ai-feedback", status)
    BY <1>4 DEF JobStep, CompleteAi, FailAi, CrashAi
  <2> QED BY <1>1, <2>1, <2>2, ReceiptWritten
<1>5. CASE PurgeRecords
  BY <1>5 DEF PurgeRecords, ReceiptsInv
<1>6. ASSUME NEW c \in Tabs,
             \/ StudentAsks(c) \/ ResolveConflict(c) \/ Forget(c)
             \/ SaveDraft(c) \/ UploadImage(c) \/ RemoveImage(c)
      PROVE  UNCHANGED receipts
  BY <1>6 DEF StudentAsks, ResolveConflict, Forget, SaveDraft, UploadImage, RemoveImage
<1>7. ASSUME NEW c \in Desks, TeacherAsks(c) \/ Forget(c) PROVE UNCHANGED receipts
  BY <1>7 DEF TeacherAsks, Forget
<1>8. ASSUME ArchiveActivity \/ CloseRecords \/ UNCHANGED vars PROVE UNCHANGED receipts
  BY <1>8 DEF ArchiveActivity, CloseRecords, vars
<1> QED
  BY <1>1, <1>2, <1>3, <1>4, <1>5, <1>6, <1>7, <1>8 DEF Next, StudentStep, TeacherStep
-----------------------------------------------------------------------------
\* The parts of a log the properties count.
OfLog(log, kinds, v) == {i \in DOMAIN log : log[i].kind \in kinds /\ log[i].version = v}
OfKey(log, k) == {i \in DOMAIN log : log[i].key = k}
Counted(log) == {i \in DOMAIN log : log[i].kind # "feedback.released"}
MovesIn(log) == {i \in DOMAIN log : log[i].kind \in SubmitKinds \cup DecisionKinds}
Bit(holds) == IF holds THEN 1 ELSE 0

\* A log with one more event.
LEMMA AppendFacts ==
  ASSUME NEW log \in Seq(Events), NEW e \in Events
  PROVE  /\ Append(log, e) \in Seq(Events) /\ Len(log) \in Nat
         /\ DOMAIN log = 1..Len(log)
         /\ Len(Append(log, e)) = Len(log) + 1
         /\ DOMAIN Append(log, e) = 1..(Len(log) + 1)
         /\ \A i \in 1..Len(log) : Append(log, e)[i] = log[i]
         /\ Append(log, e)[Len(log) + 1] = e
OBVIOUS

\* One more element, past all there were.
LEMMA OneMore ==
  ASSUME NEW n \in Nat, NEW S \in SUBSET (1..n), NEW T, NEW more \in BOOLEAN,
         T = IF more THEN S \cup {n + 1} ELSE S
  PROVE  /\ Cardinality(S) \in Nat /\ Cardinality(T) = Cardinality(S) + Bit(more)
<1>1. IsFiniteSet(S) /\ Cardinality(S) \in Nat
  <2>1. IsFiniteSet(1..n)
    BY FS_Interval
  <2>2. IsFiniteSet(S)
    BY <2>1, FS_Subset
  <2> QED BY <2>2, FS_CardinalityType
<1>2. n + 1 \notin S
  OBVIOUS
<1>3. CASE more
  BY <1>1, <1>2, <1>3, FS_AddElement DEF Bit
<1>4. CASE ~more
  BY <1>1, <1>4 DEF Bit
<1> QED BY <1>1, <1>3, <1>4

\* What one more event adds to the events of some kinds about a version.
LEMMA OfLogAppend ==
  ASSUME NEW log \in Seq(Events), NEW e \in Events, NEW kinds, NEW v
  PROVE  LET match == e.kind \in kinds /\ e.version = v IN
         /\ OfLog(Append(log, e), kinds, v) =
              IF match THEN OfLog(log, kinds, v) \cup {Len(log) + 1} ELSE OfLog(log, kinds, v)
         /\ OfLog(log, kinds, v) \in SUBSET (1..Len(log))
         /\ Cardinality(OfLog(log, kinds, v)) \in Nat
         /\ Cardinality(OfLog(Append(log, e), kinds, v)) =
              Cardinality(OfLog(log, kinds, v)) + Bit(match)
<1> DEFINE match == e.kind \in kinds /\ e.version = v
           S == OfLog(log, kinds, v)
           T == OfLog(Append(log, e), kinds, v)
<1>1. Len(log) \in Nat /\ S \in SUBSET (1..Len(log))
  BY DEF OfLog
<1>2. T = IF match THEN S \cup {Len(log) + 1} ELSE S
  <2>1. \A i : i \in T <=> i \in S \/ (match /\ i = Len(log) + 1)
    <3> DEFINE longer == Append(log, e)
    <3>1. /\ DOMAIN log = 1..Len(log) /\ DOMAIN longer = 1..(Len(log) + 1)
          /\ \A i \in 1..Len(log) : longer[i] = log[i]
          /\ longer[Len(log) + 1] = e
      BY AppendFacts
    <3> HIDE DEF longer
    <3>2. \A i : i \in 1..(Len(log) + 1) <=> i \in 1..Len(log) \/ i = Len(log) + 1
      BY <1>1
    <3>3. Len(log) + 1 \notin 1..Len(log)
      BY <1>1
    <3>4. \A i : i \in OfLog(longer, kinds, v) <=> i \in S \/ (match /\ i = Len(log) + 1)
      BY <3>1, <3>2, <3>3 DEF OfLog
    <3> QED BY <3>4 DEF longer
  <2> QED BY <2>1
<1>3. match \in BOOLEAN
  OBVIOUS
<1> HIDE DEF match, S, T
<1>4. Cardinality(S) \in Nat /\ Cardinality(T) = Cardinality(S) + Bit(match)
  BY <1>1, <1>2, <1>3, OneMore
<1> QED BY <1>1, <1>2, <1>4 DEF match, S, T

\* The same for the events of a key.
LEMMA OfKeyAppend ==
  ASSUME NEW log \in Seq(Events), NEW e \in Events, NEW k
  PROVE  /\ Cardinality(OfKey(log, k)) \in Nat
         /\ Cardinality(OfKey(Append(log, e), k)) = Cardinality(OfKey(log, k)) + Bit(e.key = k)
<1> DEFINE match == e.key = k
           S == OfKey(log, k)
           T == OfKey(Append(log, e), k)
<1>1. Len(log) \in Nat /\ S \in SUBSET (1..Len(log))
  BY DEF OfKey
<1>2. T = IF match THEN S \cup {Len(log) + 1} ELSE S
  <2> DEFINE longer == Append(log, e)
  <2>1. /\ DOMAIN log = 1..Len(log) /\ DOMAIN longer = 1..(Len(log) + 1)
        /\ \A i \in 1..Len(log) : longer[i] = log[i]
        /\ longer[Len(log) + 1] = e
    BY AppendFacts
  <2> HIDE DEF longer
  <2>2. \A i : i \in 1..(Len(log) + 1) <=> i \in 1..Len(log) \/ i = Len(log) + 1
    BY <1>1
  <2>3. Len(log) + 1 \notin 1..Len(log)
    BY <1>1
  <2>4. \A i : i \in OfKey(longer, k) <=> i \in S \/ (match /\ i = Len(log) + 1)
    BY <2>1, <2>2, <2>3 DEF OfKey
  <2>5. T = OfKey(longer, k)
    BY DEF longer
  <2> HIDE DEF T
  <2> QED BY <2>4, <2>5
<1>3. match \in BOOLEAN
  OBVIOUS
<1> HIDE DEF match, S, T
<1>4. Cardinality(S) \in Nat /\ Cardinality(T) = Cardinality(S) + Bit(match)
  BY <1>1, <1>2, <1>3, OneMore
<1> QED BY <1>4 DEF match, S, T

\* The same for the events the profile counts.
LEMMA CountedAppend ==
  ASSUME NEW log \in Seq(Events), NEW e \in Events
  PROVE  /\ Cardinality(Counted(log)) \in Nat
         /\ Cardinality(Counted(Append(log, e))) =
              Cardinality(Counted(log)) + Bit(e.kind # "feedback.released")
<1> DEFINE match == e.kind # "feedback.released"
           S == Counted(log)
           T == Counted(Append(log, e))
<1>1. Len(log) \in Nat /\ S \in SUBSET (1..Len(log))
  BY DEF Counted
<1>2. T = IF match THEN S \cup {Len(log) + 1} ELSE S
  <2> DEFINE longer == Append(log, e)
  <2>1. /\ DOMAIN log = 1..Len(log) /\ DOMAIN longer = 1..(Len(log) + 1)
        /\ \A i \in 1..Len(log) : longer[i] = log[i]
        /\ longer[Len(log) + 1] = e
    BY AppendFacts
  <2> HIDE DEF longer
  <2>2. \A i : i \in 1..(Len(log) + 1) <=> i \in 1..Len(log) \/ i = Len(log) + 1
    BY <1>1
  <2>3. Len(log) + 1 \notin 1..Len(log)
    BY <1>1
  <2>4. \A i : i \in Counted(longer) <=> i \in S \/ (match /\ i = Len(log) + 1)
    BY <2>1, <2>2, <2>3 DEF Counted
  <2>5. T = Counted(longer)
    BY DEF longer
  <2> HIDE DEF T
  <2> QED BY <2>4, <2>5
<1>3. match \in BOOLEAN
  OBVIOUS
<1> HIDE DEF match, S, T
<1>4. Cardinality(S) \in Nat /\ Cardinality(T) = Cardinality(S) + Bit(match)
  BY <1>1, <1>2, <1>3, OneMore
<1> QED BY <1>4 DEF match, S, T

\* An empty log holds nothing.
LEMMA NothingLogged ==
  /\ \A kinds, v : Cardinality(OfLog(<<>>, kinds, v)) = 0 /\ OfLog(<<>>, kinds, v) = {}
  /\ \A k : Cardinality(OfKey(<<>>, k)) = 0
  /\ Cardinality(Counted(<<>>)) = 0 /\ MovesIn(<<>>) = {}
<1>1. Cardinality({}) = 0
  BY FS_EmptySet
<1>2. /\ \A kinds, v : OfLog(<<>>, kinds, v) = {}
      /\ \A k : OfKey(<<>>, k) = {}
      /\ Counted(<<>>) = {} /\ MovesIn(<<>>) = {}
  BY DEF OfLog, OfKey, Counted, MovesIn
<1> QED BY <1>1, <1>2
-----------------------------------------------------------------------------
\* One row of released feedback for each judged round, in order.
FeedbackInv ==
  /\ Len(released) = Judged
  /\ \A i \in 1..Judged :
       /\ released[i].version = i
       /\ released[i].status = IF i = Judged THEN "released" ELSE "superseded"
       /\ (released[i].verdict = "accept") <=> (i = submission.accepted)
  /\ submission.accepted \in 0..Judged

\* Superseding the feedback of other versions changes statuses alone.
LEMMA SupersedeFacts ==
  ASSUME TypeOK, NEW page \in Pages
  PROVE  /\ Supersede(page) \in Seq(Releases) /\ Len(Supersede(page)) = Len(released)
         /\ \A i \in 1..Len(released) :
              /\ Supersede(page)[i].version = released[i].version
              /\ Supersede(page)[i].verdict = released[i].verdict
              /\ Supersede(page)[i].status =
                   IF released[i].status = "released" /\ released[i].version # page.version
                   THEN "superseded" ELSE released[i].status
<1> DEFINE given(i) == released[i].status = "released" /\ released[i].version # page.version
           f == Supersede(page)
<1>1. released \in Seq(Releases) /\ Len(released) \in Nat /\ DOMAIN released = 1..Len(released)
  BY DEF TypeOK
<1>2. /\ DOMAIN f = 1..Len(released)
      /\ \A i \in 1..Len(released) :
           f[i] = IF given(i) THEN [released[i] EXCEPT !.status = "superseded"] ELSE released[i]
  BY <1>1 DEF Supersede
<1>3. ASSUME NEW row \in Releases
      PROVE  LET new == [row EXCEPT !.status = "superseded"] IN
             /\ new \in Releases /\ new.version = row.version /\ new.verdict = row.verdict
             /\ new.status = "superseded"
  BY DEF Releases
<1>4. \A i \in 1..Len(released) : released[i] \in Releases
  BY <1>1
<1>5. \A i \in 1..Len(released) :
        /\ f[i] \in Releases
        /\ f[i].version = released[i].version
        /\ f[i].verdict = released[i].verdict
        /\ f[i].status = IF given(i) THEN "superseded" ELSE released[i].status
  <2> HIDE DEF f, given
  <2> TAKE i \in 1..Len(released)
  <2>1. PICK row \in Releases : row = released[i]
    BY <1>4
  <2>2. f[i] = IF given(i) THEN [row EXCEPT !.status = "superseded"] ELSE row
    BY <1>2, <2>1
  <2>3. CASE given(i)
    <3>1. f[i] = [row EXCEPT !.status = "superseded"]
      BY <2>2, <2>3
    <3> QED BY <1>3, <2>1, <2>3, <3>1
  <2>4. CASE ~given(i)
    BY <2>1, <2>2, <2>4
  <2> QED BY <2>3, <2>4
<1>6. f = [i \in 1..Len(released) |-> f[i]]
  BY <1>1 DEF Supersede
<1> HIDE DEF f
<1>7. f \in Seq(Releases) /\ Len(f) = Len(released)
  BY <1>1, <1>5, <1>6
<1> QED BY <1>5, <1>7 DEF f

\* A decision adds the feedback of the round it judges and supersedes what was
\* current; nothing else touches the released feedback.
LEMMA FeedbackRound ==
  ASSUME TypeOK, VersionsFollowState, FeedbackInv, RoundStep
  PROVE  FeedbackInv'
<1>1. Handed \in Nat /\ Judged \in Nat /\ Judged <= Handed
  BY RoundFacts
<1>2. CASE \/ NoRound \/ \E k \in Keys, kind \in NotedKinds : Noted(k, kind)
           \/ \E k \in Keys, kind \in SubmitKinds : HandedIn(k, kind)
  <2>1. Judged' = Judged /\ submission'.accepted = submission.accepted /\ released' = released
    BY <1>2 DEF NoRound, Noted, HandedIn
  <2> QED BY <2>1 DEF FeedbackInv
<1>3. CASE AllGone
  BY <1>3 DEF AllGone, FeedbackInv
<1>4. CASE \E k \in Keys, page \in Pages, verdict \in Verdicts : Judges(k, page, verdict)
  <2>1. PICK k \in Keys, page \in Pages, verdict \in Verdicts : Judges(k, page, verdict)
    BY <1>4
  <2> DEFINE new == [version |-> Handed, status |-> "released",
                     verdict |-> verdict, seen |-> SeenOn(page)]
             old == Supersede(page)
  <2>2. /\ Handed = Judged + 1 /\ Judged' = Judged + 1 /\ page.version = Handed
        /\ submission.accepted = 0
        /\ submission'.accepted = IF verdict = "accept" THEN Handed ELSE 0
        /\ released' = Append(old, new)
    BY <2>1 DEF Judges
  <2>3. /\ new.version = Handed /\ new.status = "released" /\ new.verdict = verdict
    OBVIOUS
  <2>4. Len(released) = Judged
    BY DEF FeedbackInv
  <2>5. /\ old \in Seq(Releases) /\ Len(old) = Judged
        /\ \A i \in 1..Judged : /\ old[i].version = i
                                /\ old[i].status = "superseded"
                                /\ old[i].verdict # "accept"
    <3>1. /\ old \in Seq(Releases) /\ Len(old) = Judged
          /\ \A i \in 1..Judged :
               /\ old[i].version = released[i].version
               /\ old[i].verdict = released[i].verdict
               /\ old[i].status =
                   IF released[i].status = "released" /\ released[i].version # page.version
                   THEN "superseded" ELSE released[i].status
      BY <2>4, SupersedeFacts
    <3> HIDE DEF old
    <3>2. ASSUME NEW i \in 1..Judged
          PROVE  old[i].version = i /\ old[i].status = "superseded" /\ old[i].verdict # "accept"
      <4>1. i # page.version /\ i # 0
        BY <1>1, <2>2
      <4>2. /\ released[i].version = i
            /\ released[i].status \in {"released", "superseded"}
            /\ released[i].verdict # "accept"
        BY <2>2, <4>1 DEF FeedbackInv
      <4> QED BY <3>1, <4>1, <4>2
    <3> QED BY <3>1, <3>2
  <2> HIDE DEF new, old
  <2>6. /\ Len(released') = Judged + 1
        /\ \A i \in 1..Judged : released'[i] = old[i]
        /\ released'[Judged + 1] = new
    BY <1>1, <2>2, <2>5
  <2>7. ASSUME NEW i \in 1..(Judged + 1)
        PROVE  /\ released'[i].version = i
               /\ released'[i].status = IF i = Judged + 1 THEN "released" ELSE "superseded"
               /\ (released'[i].verdict = "accept") <=> (i = submission'.accepted)
    <3>1. CASE i = Judged + 1
      BY <1>1, <2>2, <2>3, <2>6, <3>1
    <3>2. CASE i # Judged + 1
      <4>1. i \in 1..Judged /\ i # Handed /\ i # 0
        BY <1>1, <2>2, <3>2
      <4> QED BY <2>2, <2>5, <2>6, <3>2, <4>1
    <3> QED BY <3>1, <3>2
  <2>8. submission'.accepted \in 0..(Judged + 1)
    BY <1>1, <2>2
  <2> QED BY <2>2, <2>6, <2>7, <2>8 DEF FeedbackInv
<1> QED BY <1>2, <1>3, <1>4 DEF RoundStep
-----------------------------------------------------------------------------
\* AppliedOncePerKey, in the terms above.
KeysInv == \A k \in Keys : Cardinality(OfKey(events, k)) = EventsPerReceipt(receipts[k])

\* A round logs the events of its own key, as many as its receipt stands for, and
\* of no other key.
LEMMA KeysRound ==
  ASSUME TypeOK, VersionsFollowState, KeysInv, RoundStep
  PROVE  KeysInv'
<1>1. events \in Seq(Events) /\ Handed \in Nat
  BY RoundFacts DEF TypeOK
<1>2. CASE NoRound
  BY <1>2 DEF NoRound, KeysInv
<1>3. CASE AllGone
  BY <1>3, NothingLogged DEF AllGone, KeysInv
<1>4. ASSUME NEW k \in Keys, NEW e \in Events, e.key = k, events' = Append(events, e), Logs(k, 1)
      PROVE  KeysInv'
  <2> SUFFICES ASSUME NEW j \in Keys
               PROVE  Cardinality(OfKey(events', j)) = EventsPerReceipt(receipts'[j])
    BY DEF KeysInv
  <2>1. /\ Cardinality(OfKey(events, j)) \in Nat
        /\ Cardinality(OfKey(events', j)) = Cardinality(OfKey(events, j)) + Bit(e.key = j)
    BY <1>1, <1>4, OfKeyAppend
  <2>2. Cardinality(OfKey(events, j)) = EventsPerReceipt(receipts[j])
    BY DEF KeysInv
  <2>3. CASE j = k
    BY <1>4, <2>1, <2>2, <2>3 DEF Logs, Bit
  <2>4. CASE j # k
    BY <1>4, <2>1, <2>2, <2>4 DEF Logs, Bit
  <2> QED BY <2>3, <2>4
<1>5. CASE \E k \in Keys, kind \in NotedKinds : Noted(k, kind)
  <2>1. PICK k \in Keys, kind \in NotedKinds : Noted(k, kind)
    BY <1>5
  <2> DEFINE e == Event(kind, 0, k)
  <2>2. e \in Events /\ e.key = k
    BY DEF Event, Events, EventKinds, NotedKinds
  <2>3. events' = Append(events, e) /\ Logs(k, 1)
    BY <2>1 DEF Noted
  <2> HIDE DEF e
  <2> QED BY <1>4, <2>2, <2>3
<1>6. CASE \E k \in Keys, kind \in SubmitKinds : HandedIn(k, kind)
  <2>1. PICK k \in Keys, kind \in SubmitKinds : HandedIn(k, kind)
    BY <1>6
  <2> DEFINE e == Event(kind, Handed + 1, k)
  <2>2. e \in Events /\ e.key = k
    BY <1>1 DEF Event, Events, EventKinds, SubmitKinds
  <2>3. events' = Append(events, e) /\ Logs(k, 1)
    BY <2>1 DEF HandedIn
  <2> HIDE DEF e
  <2> QED BY <1>4, <2>2, <2>3
<1>7. CASE \E k \in Keys, page \in Pages, verdict \in Verdicts : Judges(k, page, verdict)
  <2>1. PICK k \in Keys, page \in Pages, verdict \in Verdicts : Judges(k, page, verdict)
    BY <1>7
  <2> DEFINE e1 == Event("feedback.released", Handed, k)
             e2 == Event(DecisionKind(verdict), Handed, k)
             log == Append(events, e1)
  <2>2. e1 \in Events /\ e1.key = k /\ e2 \in Events /\ e2.key = k
    BY <1>1 DEF Event, Events, EventKinds, DecisionKind
  <2>3. events' = Append(log, e2) /\ Logs(k, 2)
    BY <2>1 DEF Judges
  <2> HIDE DEF e1, e2
  <2>4. log \in Seq(Events)
    BY <1>1, <2>2
  <2> SUFFICES ASSUME NEW j \in Keys
               PROVE  Cardinality(OfKey(events', j)) = EventsPerReceipt(receipts'[j])
    BY DEF KeysInv
  <2>5. /\ Cardinality(OfKey(events, j)) \in Nat
        /\ Cardinality(OfKey(log, j)) = Cardinality(OfKey(events, j)) + Bit(k = j)
    BY <1>1, <2>2, OfKeyAppend
  <2> HIDE DEF log
  <2>6. Cardinality(OfKey(events', j)) = Cardinality(OfKey(log, j)) + Bit(k = j)
    BY <2>2, <2>3, <2>4, OfKeyAppend
  <2>7. Cardinality(OfKey(events, j)) = EventsPerReceipt(receipts[j])
    BY DEF KeysInv
  <2>8. CASE j = k
    BY <2>3, <2>5, <2>6, <2>7, <2>8 DEF Logs, Bit
  <2>9. CASE j # k
    BY <2>3, <2>5, <2>6, <2>7, <2>9 DEF Logs, Bit
  <2> QED BY <2>8, <2>9
<1> QED BY <1>2, <1>3, <1>5, <1>6, <1>7 DEF RoundStep
-----------------------------------------------------------------------------
InLog(kinds, v) == OfLog(events, kinds, v)

\* The events of every version, those not yet there included: a version past the
\* rounds has none, so what is logged next comes after all that is.
LedgerInv ==
  /\ \A v \in Nat \ {0} :
       /\ Cardinality(InLog(SubmitKinds, v)) = Bit(v <= Handed)
       /\ Cardinality(InLog({"feedback.released"}, v)) = Bit(v <= Judged)
       /\ Cardinality(InLog(DecisionKinds, v)) = Bit(v <= Judged)
       /\ \A i \in InLog(SubmitKinds, v), j \in InLog(DecisionKinds, v) : i < j
       /\ \A i \in InLog(DecisionKinds, v), j \in InLog(SubmitKinds, v + 1) : i < j
  /\ attempts = Cardinality(InLog({"formative-check.attempted"}, 0))

\* Counting no events means there are none.
LEMMA NoneLogged ==
  ASSUME TypeOK, NEW kinds, NEW v, Cardinality(InLog(kinds, v)) = 0
  PROVE  InLog(kinds, v) = {}
<1>1. InLog(kinds, v) \in SUBSET (1..Len(events)) /\ Len(events) \in Nat
  BY DEF TypeOK, InLog, OfLog
<1>2. IsFiniteSet(1..Len(events))
  BY <1>1, FS_Interval
<1>3. IsFiniteSet(InLog(kinds, v))
  BY <1>1, <1>2, FS_Subset
<1> QED BY <1>3, FS_EmptySet

\* A log that ends with e.
LEMMA InLogAppend ==
  ASSUME TypeOK, NEW e \in Events, events' = Append(events, e), NEW kinds, NEW v
  PROVE  LET match == e.kind \in kinds /\ e.version = v IN
         /\ InLog(kinds, v)' = IF match THEN InLog(kinds, v) \cup {Len(events) + 1}
                                       ELSE InLog(kinds, v)
         /\ InLog(kinds, v) \in SUBSET (1..Len(events)) /\ Len(events) \in Nat
         /\ Cardinality(InLog(kinds, v)) \in Nat
         /\ Cardinality(InLog(kinds, v)') = Cardinality(InLog(kinds, v)) + Bit(match)
<1>1. events \in Seq(Events)
  BY DEF TypeOK
<1>2. InLog(kinds, v)' = OfLog(Append(events, e), kinds, v) /\ Len(events) \in Nat
  BY <1>1 DEF InLog
<1> QED BY <1>1, <1>2, OfLogAppend DEF InLog

\* An attempt adds one event, about no version, and one row of attempts; an event of
\* another page adds no row.
LEMMA LedgerNoted ==
  ASSUME TypeOK, VersionsFollowState, LedgerInv, NEW k \in Keys, NEW kind \in NotedKinds,
         Noted(k, kind)
  PROVE  LedgerInv'
<1> DEFINE e == Event(kind, 0, k)
<1>1. /\ e \in Events /\ e.kind = kind /\ e.version = 0
      /\ e.kind \notin SubmitKinds /\ e.kind \notin DecisionKinds /\ e.kind # "feedback.released"
  BY DEF Event, Events, EventKinds, SubmitKinds, DecisionKinds, NotedKinds
<1>2. /\ events' = Append(events, e)
      /\ attempts' = IF kind = "page.visited" THEN attempts ELSE attempts + 1
      /\ Handed' = Handed /\ Judged' = Judged
  BY DEF Noted
<1> HIDE DEF e
<1>3. ASSUME NEW kinds, NEW v, e.kind \notin kinds PROVE InLog(kinds, v)' = InLog(kinds, v)
  BY <1>1, <1>2, <1>3, InLogAppend
<1>4. \A v : /\ InLog(SubmitKinds, v)' = InLog(SubmitKinds, v)
             /\ InLog(DecisionKinds, v)' = InLog(DecisionKinds, v)
             /\ InLog({"feedback.released"}, v)' = InLog({"feedback.released"}, v)
  BY <1>1, <1>3
<1>5. Cardinality(InLog({"formative-check.attempted"}, 0)') =
        Cardinality(InLog({"formative-check.attempted"}, 0))
          + Bit(kind = "formative-check.attempted")
  BY <1>1, <1>2, InLogAppend
<1>6. attempts' = attempts + Bit(kind = "formative-check.attempted")
  BY <1>2 DEF TypeOK, Bit, NotedKinds
<1> QED BY <1>2, <1>4, <1>5, <1>6 DEF LedgerInv

\* A submit logs the submission of the next round after every event of the earlier
\* ones.
LEMMA LedgerSubmit ==
  ASSUME TypeOK, VersionsFollowState, LedgerInv, NEW k \in Keys, NEW kind \in SubmitKinds,
         HandedIn(k, kind)
  PROVE  LedgerInv'
<1>0. Handed \in Nat
  BY RoundFacts
<1> PICK h \in Nat \ {0} : h = Handed + 1
  BY <1>0
<1> DEFINE e == Event(kind, h, k)
           S(v) == InLog(SubmitKinds, v)
           D(v) == InLog(DecisionKinds, v)
<1>1. Handed \in Nat /\ h \in Nat \ {0} /\ h = Handed + 1
  BY <1>0
<1>2. /\ e \in Events /\ e.version = h /\ e.kind \in SubmitKinds /\ e.kind \notin DecisionKinds
      /\ e.kind # "feedback.released" /\ e.kind # "formative-check.attempted"
  BY <1>1 DEF Event, Events, EventKinds, SubmitKinds, DecisionKinds
<1>3. /\ events' = Append(events, e) /\ attempts' = attempts
      /\ Judged = Handed /\ Handed' = h /\ Judged' = Judged
  BY DEF HandedIn
<1> HIDE DEF e
<1>4. ASSUME NEW kinds, NEW v, e.kind \notin kinds PROVE InLog(kinds, v)' = InLog(kinds, v)
  BY <1>2, <1>3, <1>4, InLogAppend
<1>5. /\ \A v : D(v)' = D(v) /\ InLog({"feedback.released"}, v)' = InLog({"feedback.released"}, v)
      /\ InLog({"formative-check.attempted"}, 0)' = InLog({"formative-check.attempted"}, 0)
  BY <1>2, <1>4
<1>6. /\ S(h)' = S(h) \cup {Len(events) + 1}
      /\ Cardinality(S(h)') = Cardinality(S(h)) + 1
  BY <1>2, <1>3, InLogAppend DEF Bit
<1>7. \A v : v # h => S(v)' = S(v)
  BY <1>2, <1>3, InLogAppend
<1>8. /\ \A v, i : i \in D(v) \/ i \in S(v) => i \in 1..Len(events)
      /\ Len(events) \in Nat
  BY <1>2, <1>3, InLogAppend
<1>9. D(h) = {} /\ Cardinality(S(h)) = 0
  <2>1. ~(h <= Judged) /\ ~(h <= Handed)
    BY <1>1, <1>3
  <2>2. Cardinality(D(h)) = 0 /\ Cardinality(S(h)) = 0
    BY <1>1, <2>1 DEF LedgerInv, Bit
  <2> QED BY <2>2, NoneLogged
<1>10. ASSUME NEW v \in Nat \ {0} PROVE Cardinality(S(v)') = Bit(v <= Handed')
  <2>1. CASE v = h
    BY <1>1, <1>3, <1>6, <1>9, <2>1 DEF Bit
  <2>2. CASE v # h
    <3>1. v <= Handed <=> v <= h
      BY <1>1, <2>2
    <3> QED BY <1>3, <1>7, <2>2, <3>1 DEF LedgerInv, Bit
  <2> QED BY <2>1, <2>2
<1>11. ASSUME NEW v \in Nat \ {0}, NEW i \in S(v)', NEW j \in D(v)' PROVE i < j
  <2>1. v # h /\ i \in S(v) /\ j \in D(v)
    BY <1>5, <1>7, <1>9
  <2> QED BY <2>1 DEF LedgerInv
<1>12. ASSUME NEW v \in Nat \ {0}, NEW i \in D(v)', NEW j \in S(v + 1)' PROVE i < j
  <2>1. i \in D(v) /\ i \in 1..Len(events)
    BY <1>5, <1>8
  <2>2. CASE v + 1 = h /\ j = Len(events) + 1
    BY <1>8, <2>1, <2>2
  <2>3. CASE j \in S(v + 1)
    BY <2>1, <2>3 DEF LedgerInv
  <2>4. v + 1 = h \/ v + 1 # h
    OBVIOUS
  <2>5. v + 1 = h => j \in S(h) \cup {Len(events) + 1}
    BY <1>6
  <2>6. v + 1 # h => j \in S(v + 1)
    BY <1>7
  <2> QED BY <2>2, <2>3, <2>4, <2>5, <2>6
<1>13. ASSUME NEW v \in Nat \ {0}
       PROVE  /\ Cardinality(InLog({"feedback.released"}, v)') = Bit(v <= Judged')
              /\ Cardinality(D(v)') = Bit(v <= Judged')
  BY <1>3, <1>5 DEF LedgerInv
<1>14. attempts' = Cardinality(InLog({"formative-check.attempted"}, 0)')
  BY <1>3, <1>5 DEF LedgerInv
<1> QED BY <1>10, <1>11, <1>12, <1>13, <1>14 DEF LedgerInv

\* A decision logs feedback and outcome of the last round after its submission; the
\* next round has no events yet.
LEMMA LedgerJudge ==
  ASSUME TypeOK, VersionsFollowState, LedgerInv, NEW k \in Keys, NEW page, NEW verdict,
         Judges(k, page, verdict)
  PROVE  LedgerInv'
<1>0. Handed \in Nat /\ Judged \in Nat /\ Handed = Judged + 1
  BY RoundFacts DEF Judges
<1> PICK h \in Nat \ {0} : h = Handed
  BY <1>0
<1> DEFINE e1 == Event("feedback.released", h, k)
           e2 == Event(DecisionKind(verdict), h, k)
           log == Append(events, e1)
           n == Len(events)
           F(v) == InLog({"feedback.released"}, v)
           S(v) == InLog(SubmitKinds, v)
           D(v) == InLog(DecisionKinds, v)
<1>1. h \in Nat \ {0} /\ Judged \in Nat /\ h = Judged + 1
  BY <1>0
<1>2. /\ e1 \in Events /\ e1.version = h /\ e1.kind = "feedback.released"
      /\ e1.kind \notin SubmitKinds /\ e1.kind \notin DecisionKinds
      /\ e2 \in Events /\ e2.version = h /\ e2.kind \in DecisionKinds
      /\ e2.kind \notin SubmitKinds /\ e2.kind # "feedback.released"
      /\ e2.kind # "formative-check.attempted"
  BY DEF Event, Events, EventKinds, SubmitKinds, DecisionKinds, DecisionKind
<1>3. /\ events' = Append(log, e2) /\ attempts' = attempts
      /\ Handed' = Handed /\ Judged' = h
  BY <1>1 DEF Judges
<1> HIDE DEF e1, e2
<1>4. events \in Seq(Events) /\ n \in Nat
  BY DEF TypeOK
<1>5. log \in Seq(Events) /\ Len(log) = n + 1
  BY <1>2, <1>4
<1>6. ASSUME NEW kinds, NEW v
      PROVE  /\ InLog(kinds, v)' =
                  IF e2.kind \in kinds /\ h = v THEN OfLog(log, kinds, v) \cup {n + 2}
                  ELSE OfLog(log, kinds, v)
             /\ Cardinality(InLog(kinds, v)') =
                  Cardinality(OfLog(log, kinds, v)) + Bit(e2.kind \in kinds /\ h = v)
             /\ Cardinality(OfLog(log, kinds, v)) \in Nat
  <2> HIDE DEF log
  <2>1. InLog(kinds, v)' = OfLog(Append(log, e2), kinds, v)
    BY <1>3 DEF InLog
  <2>2. Len(log) + 1 = n + 2
    BY <1>4, <1>5
  <2> QED BY <1>2, <1>5, <2>1, <2>2, OfLogAppend
<1>7. ASSUME NEW kinds, NEW v
      PROVE  /\ OfLog(log, kinds, v) =
                  IF e1.kind \in kinds /\ h = v THEN InLog(kinds, v) \cup {n + 1} ELSE InLog(kinds, v)
             /\ Cardinality(OfLog(log, kinds, v)) =
                  Cardinality(InLog(kinds, v)) + Bit(e1.kind \in kinds /\ h = v)
             /\ Cardinality(InLog(kinds, v)) \in Nat
             /\ InLog(kinds, v) \in SUBSET (1..n)
  BY <1>2, <1>4, OfLogAppend DEF InLog
<1> HIDE DEF log, n
<1>8. \A v : S(v)' = S(v)
  BY <1>2, <1>6, <1>7
<1>9. InLog({"formative-check.attempted"}, 0)' = InLog({"formative-check.attempted"}, 0)
  BY <1>2, <1>6, <1>7
<1>10. \A v : /\ Cardinality(F(v)') = Cardinality(F(v)) + Bit(h = v)
              /\ Cardinality(F(v)) \in Nat
  <2> TAKE v
  <2>1. Cardinality(F(v)') = Cardinality(OfLog(log, {"feedback.released"}, v))
    BY <1>2, <1>6 DEF Bit
  <2>2. Cardinality(OfLog(log, {"feedback.released"}, v)) = Cardinality(F(v)) + Bit(h = v)
    BY <1>2, <1>7 DEF Bit
  <2> QED BY <1>7, <2>1, <2>2
<1>11. \A v : /\ D(v)' = IF h = v THEN D(v) \cup {n + 2} ELSE D(v)
              /\ Cardinality(D(v)') = Cardinality(D(v)) + Bit(h = v)
              /\ Cardinality(D(v)) \in Nat
  <2> TAKE v
  <2>1. OfLog(log, DecisionKinds, v) = D(v)
    BY <1>2, <1>7
  <2>2. e2.kind \in DecisionKinds
    BY <1>2
  <2>3. D(v)' = IF h = v THEN D(v) \cup {n + 2} ELSE D(v)
    BY <1>6, <2>1, <2>2
  <2>4. Cardinality(D(v)') = Cardinality(D(v)) + Bit(h = v)
    BY <1>6, <2>1, <2>2 DEF Bit
  <2> QED BY <1>7, <2>3, <2>4
<1>12. /\ \A v, i : i \in D(v) \/ i \in S(v) => i \in 1..n
       /\ n \in Nat
  BY <1>4, <1>7
<1>13. ASSUME NEW v \in Nat \ {0}, NEW m, m = Bit(v <= Judged)
       PROVE  m + Bit(h = v) = Bit(v <= Judged')
  BY <1>1, <1>3, <1>13 DEF Bit
<1>14. S(h + 1) = {} /\ Judged' = h
  <2>1. ~(h + 1 <= Handed) /\ h + 1 \in Nat \ {0}
    BY <1>0
  <2>2. Cardinality(S(h + 1)) = 0
    BY <2>1 DEF LedgerInv, Bit
  <2> QED BY <1>3, <2>2, NoneLogged
<1>15. ASSUME NEW v \in Nat \ {0}
       PROVE  /\ Cardinality(S(v)') = Bit(v <= Handed')
              /\ Cardinality(F(v)') = Bit(v <= Judged')
              /\ Cardinality(D(v)') = Bit(v <= Judged')
  <2>1. /\ Cardinality(S(v)) = Bit(v <= Handed)
        /\ Cardinality(F(v)) = Bit(v <= Judged)
        /\ Cardinality(D(v)) = Bit(v <= Judged)
    BY DEF LedgerInv
  <2>2. Cardinality(S(v)') = Bit(v <= Handed')
    BY <1>3, <1>8, <2>1
  <2>3. Bit(v <= Judged) + Bit(h = v) = Bit(v <= Judged')
    BY <1>13
  <2>4. Cardinality(F(v)') = Bit(v <= Judged')
    BY <1>10, <2>1, <2>3
  <2>5. Cardinality(D(v)') = Bit(v <= Judged')
    BY <1>11, <2>1, <2>3
  <2> QED BY <2>2, <2>4, <2>5
<1>16. ASSUME NEW v \in Nat \ {0}, NEW i \in S(v)', NEW j \in D(v)' PROVE i < j
  <2>1. i \in S(v) /\ i \in 1..n
    BY <1>8, <1>12
  <2>2. CASE j \in D(v)
    BY <2>1, <2>2 DEF LedgerInv
  <2>3. CASE j = n + 2
    BY <1>12, <2>1, <2>3
  <2> QED BY <1>11, <2>2, <2>3
<1>17. ASSUME NEW v \in Nat \ {0}, NEW i \in D(v)', NEW j \in S(v + 1)' PROVE i < j
  <2>1. j \in S(v + 1)
    BY <1>8
  <2>2. v # h
    BY <1>14, <2>1
  <2>3. i \in D(v)
    BY <1>11, <2>2
  <2> QED BY <2>1, <2>3 DEF LedgerInv
<1>18. attempts' = Cardinality(InLog({"formative-check.attempted"}, 0)')
  BY <1>3, <1>9 DEF LedgerInv
<1> QED BY <1>15, <1>16, <1>17, <1>18 DEF LedgerInv

\* Every round keeps the log and the versions in agreement.
LEMMA LedgerRound ==
  ASSUME TypeOK, VersionsFollowState, LedgerInv, RoundStep
  PROVE  LedgerInv'
<1>1. CASE NoRound
  BY <1>1 DEF NoRound, LedgerInv, InLog
<1>2. CASE AllGone
  <2>1. /\ Handed' = 0 /\ Judged' = 0 /\ attempts' = 0 /\ events' = <<>>
    BY <1>2 DEF AllGone
  <2>2. \A v \in Nat \ {0} : Bit(v <= 0) = 0
    BY DEF Bit
  <2>3. \A kinds, v : InLog(kinds, v)' = {} /\ Cardinality(InLog(kinds, v)') = 0
    BY <2>1, NothingLogged DEF InLog
  <2> QED BY <2>1, <2>2, <2>3 DEF LedgerInv
<1> QED BY <1>1, <1>2, LedgerNoted, LedgerSubmit, LedgerJudge DEF RoundStep
-----------------------------------------------------------------------------
\* Some index of the log is the last move and tells the state of the profile.
LastMove(log, m) == m \in MovesIn(log) /\ \A j \in MovesIn(log) : j <= m
ProfileInv ==
  /\ profile.version = Cardinality(Counted(events))
  /\ \/ MovesIn(events) = {} /\ profile.state = "none"
     \/ \E m \in MovesIn(events) : LastMove(events, m) /\ profile.state = Outcome(events[m].kind)

\* The same of any log and any state.
Told(log, state) ==
  \/ MovesIn(log) = {} /\ state = "none"
  \/ \E m \in MovesIn(log) : LastMove(log, m) /\ state = Outcome(log[m].kind)

\* What one more event adds to the events that move the submission.
LEMMA MovesInAppend ==
  ASSUME NEW log \in Seq(Events), NEW e \in Events
  PROVE  /\ MovesIn(log) \in SUBSET (1..Len(log)) /\ Len(log) \in Nat
         /\ MovesIn(Append(log, e)) = IF e.kind \in SubmitKinds \cup DecisionKinds
                                      THEN MovesIn(log) \cup {Len(log) + 1} ELSE MovesIn(log)
<1> DEFINE longer == Append(log, e)
           match == e.kind \in SubmitKinds \cup DecisionKinds
<1>1. /\ DOMAIN log = 1..Len(log) /\ DOMAIN longer = 1..(Len(log) + 1) /\ Len(log) \in Nat
      /\ \A i \in 1..Len(log) : longer[i] = log[i]
      /\ longer[Len(log) + 1] = e
  BY AppendFacts
<1> HIDE DEF longer
<1>2. \A i : i \in 1..(Len(log) + 1) <=> i \in 1..Len(log) \/ i = Len(log) + 1
  BY <1>1
<1>3. Len(log) + 1 \notin 1..Len(log)
  BY <1>1
<1>4. \A i : i \in MovesIn(longer) <=> i \in MovesIn(log) \/ (match /\ i = Len(log) + 1)
  BY <1>1, <1>2, <1>3 DEF MovesIn
<1>5. MovesIn(longer) = IF match THEN MovesIn(log) \cup {Len(log) + 1} ELSE MovesIn(log)
  BY <1>4
<1>6. MovesIn(log) \in SUBSET (1..Len(log))
  BY <1>1 DEF MovesIn
<1> QED BY <1>1, <1>5, <1>6 DEF longer

\* After an event that moves the submission, its outcome is the last told.
LEMMA ToldMove ==
  ASSUME NEW log \in Seq(Events), NEW e \in Events, e.kind \in SubmitKinds \cup DecisionKinds
  PROVE  Told(Append(log, e), Outcome(e.kind))
<1> DEFINE longer == Append(log, e)
           m == Len(log) + 1
<1>1. MovesIn(longer) = MovesIn(log) \cup {m} /\ MovesIn(log) \in SUBSET (1..Len(log)) /\ Len(log) \in Nat
  BY MovesInAppend
<1>2. longer[m] = e
  BY AppendFacts
<1> HIDE DEF longer
<1>3. \A j \in MovesIn(longer) : j <= m
  BY <1>1
<1>4. m \in MovesIn(longer)
  BY <1>1
<1> HIDE DEF m
<1> QED BY <1>2, <1>3, <1>4 DEF Told, LastMove, longer

\* After any other event the last outcome is the one it was.
LEMMA ToldOther ==
  ASSUME NEW log \in Seq(Events), NEW e \in Events, e.kind \notin SubmitKinds \cup DecisionKinds,
         NEW state, Told(log, state)
  PROVE  Told(Append(log, e), state)
<1> DEFINE longer == Append(log, e)
<1>1. MovesIn(longer) = MovesIn(log) /\ MovesIn(log) \in SUBSET (1..Len(log))
  BY MovesInAppend
<1>2. \A i \in 1..Len(log) : longer[i] = log[i]
  BY AppendFacts
<1> HIDE DEF longer
<1>3. \A i \in MovesIn(log) : longer[i] = log[i]
  BY <1>1, <1>2
<1> QED BY <1>1, <1>3 DEF Told, LastMove, longer

\* Every round keeps the profile with the log: commands count one, and only a hand-
\* in or a verdict changes the state it tells.
LEMMA ProfileRound ==
  ASSUME TypeOK, VersionsFollowState, ProfileInv, RoundStep
  PROVE  ProfileInv'
<1>1. events \in Seq(Events) /\ Handed \in Nat /\ Told(events, profile.state)
  BY RoundFacts DEF TypeOK, ProfileInv, Told
<1>2. profile.version = Cardinality(Counted(events))
  BY DEF ProfileInv
<1>3. SUFFICES profile'.version = Cardinality(Counted(events')) /\ Told(events', profile'.state)
  BY DEF ProfileInv, Told
<1>4. CASE NoRound
  BY <1>1, <1>2, <1>4 DEF NoRound
<1>5. CASE AllGone
  BY <1>5, NothingLogged DEF AllGone, NewProfile, Told
<1>6. CASE \E k \in Keys, kind \in NotedKinds : Noted(k, kind)
  <2>1. PICK k \in Keys, kind \in NotedKinds : Noted(k, kind)
    BY <1>6
  <2> DEFINE e == Event(kind, 0, k)
  <2>2. /\ e \in Events /\ e.kind \notin SubmitKinds \cup DecisionKinds
        /\ e.kind # "feedback.released"
    BY DEF Event, Events, EventKinds, SubmitKinds, DecisionKinds, NotedKinds
  <2>3. /\ events' = Append(events, e)
        /\ profile'.version = profile.version + 1 /\ profile'.state = profile.state
    BY <2>1 DEF Noted, Project
  <2> HIDE DEF e
  <2>4. Cardinality(Counted(events')) = Cardinality(Counted(events)) + 1
    BY <1>1, <2>2, <2>3, CountedAppend DEF Bit
  <2> QED BY <1>1, <1>2, <2>2, <2>3, <2>4, ToldOther
<1>7. CASE \E k \in Keys, kind \in SubmitKinds : HandedIn(k, kind)
  <2>1. PICK k \in Keys, kind \in SubmitKinds : HandedIn(k, kind)
    BY <1>7
  <2> DEFINE e == Event(kind, Handed + 1, k)
  <2>2. /\ e \in Events /\ e.kind = kind /\ e.kind \in SubmitKinds \cup DecisionKinds
        /\ e.kind # "feedback.released"
    BY <1>1 DEF Event, Events, EventKinds, SubmitKinds, DecisionKinds
  <2>3. /\ events' = Append(events, e)
        /\ profile'.version = profile.version + 1 /\ profile'.state = Outcome(kind)
    BY <2>1 DEF HandedIn, Project
  <2> HIDE DEF e
  <2>4. Cardinality(Counted(events')) = Cardinality(Counted(events)) + 1
    BY <1>1, <2>2, <2>3, CountedAppend DEF Bit
  <2>5. Told(events', profile'.state)
    BY <1>1, <2>2, <2>3, ToldMove
  <2> QED BY <1>2, <2>3, <2>4, <2>5
<1>8. CASE \E k \in Keys, page \in Pages, verdict \in Verdicts : Judges(k, page, verdict)
  <2>1. PICK k \in Keys, page \in Pages, verdict \in Verdicts : Judges(k, page, verdict)
    BY <1>8
  <2> DEFINE kind == DecisionKind(verdict)
             e1 == Event("feedback.released", Handed, k)
             e2 == Event(kind, Handed, k)
             log == Append(events, e1)
  <2>2. /\ e1 \in Events /\ e1.kind = "feedback.released"
        /\ e2 \in Events /\ e2.kind = kind /\ e2.kind \in SubmitKinds \cup DecisionKinds
        /\ e2.kind # "feedback.released"
    BY <1>1 DEF Event, Events, EventKinds, SubmitKinds, DecisionKinds, DecisionKind
  <2>3. /\ events' = Append(log, e2)
        /\ profile'.version = profile.version + 1 /\ profile'.state = Outcome(kind)
    BY <2>1 DEF Judges, Project
  <2> HIDE DEF e1, e2, kind
  <2>4. Cardinality(Counted(log)) = Cardinality(Counted(events))
    BY <1>1, <2>2, CountedAppend DEF Bit
  <2>5. log \in Seq(Events)
    BY <1>1, <2>2
  <2> HIDE DEF log
  <2>6. Cardinality(Counted(events')) = Cardinality(Counted(log)) + 1
    BY <2>2, <2>3, <2>5, CountedAppend DEF Bit
  <2>7. Told(events', profile'.state)
    BY <2>2, <2>3, <2>5, ToldMove
  <2> QED BY <1>2, <2>3, <2>4, <2>6, <2>7
<1> QED BY <1>4, <1>5, <1>6, <1>7, <1>8 DEF RoundStep
-----------------------------------------------------------------------------
\* Types and versions are proved in SubmissionLoopProofs; the parts of the history
\* lean on them and on RoundStep, not on each other.
History ==
  TypeOK /\ VersionsStory /\ ReceiptsInv /\ FeedbackInv /\ KeysInv /\ LedgerInv /\ ProfileInv

\* Nothing has happened at the start.
LEMMA HistoryInit == Init => History
<1> SUFFICES ASSUME Init PROVE History
  OBVIOUS
<1>1. TypeOK /\ VersionsStory
  BY TypeInit, StoryInit
<1>2. /\ Handed = 0 /\ Judged = 0 /\ released = <<>> /\ submission.accepted = 0
      /\ events = <<>> /\ attempts = 0 /\ profile = NewProfile
      /\ \A k \in Keys : receipts[k] = NoReceipt
  BY DEF Init, Handed, Judged, Latest, Absent, Reviewable
<1>3. ReceiptsInv
  BY <1>2 DEF ReceiptsInv
<1>4. FeedbackInv
  BY <1>2 DEF FeedbackInv
<1>5. KeysInv
  BY <1>2, NothingLogged, PerReceipt DEF KeysInv
<1>6. LedgerInv
  <2>1. \A v \in Nat \ {0} : Bit(v <= 0) = 0
    BY DEF Bit
  <2>2. \A kinds, v : InLog(kinds, v) = {} /\ Cardinality(InLog(kinds, v)) = 0
    BY <1>2, NothingLogged DEF InLog
  <2> QED BY <1>2, <2>1, <2>2 DEF LedgerInv
<1>7. ProfileInv
  BY <1>2, NothingLogged DEF ProfileInv, NewProfile
<1> QED BY <1>1, <1>3, <1>4, <1>5, <1>6, <1>7 DEF History

\* Every step keeps what the history says.
LEMMA HistoryStep == History /\ [Next]_vars => History'
<1> SUFFICES ASSUME History, [Next]_vars PROVE History'
  OBVIOUS
<1>1. /\ TypeOK /\ VersionsStory /\ VersionsFollowState
      /\ ReceiptsInv /\ FeedbackInv /\ KeysInv /\ LedgerInv /\ ProfileInv
  BY DEF History, VersionsStory
<1>2. TypeOK' /\ VersionsStory' /\ ReceiptsInv'
  BY <1>1, TypeStep, StoryStep, ReceiptsStep
<1>3. RoundStep
  BY <1>1, EachStepIsARound
<1>4. FeedbackInv' /\ KeysInv' /\ LedgerInv' /\ ProfileInv'
  BY <1>1, <1>3, FeedbackRound, KeysRound, LedgerRound, ProfileRound
<1> QED BY <1>2, <1>4 DEF History

\* The history is right in every reachable state.
LEMMA HistoryAlways == Spec => []History
BY HistoryInit, HistoryStep, PTL DEF Spec

\* The released feedback is one row for every decided version, in order, only the
\* last current and only the last an acceptance, however many requests crossed
\* (decideSubmission and the superseding of earlier rows).
THEOREM FeedbackInOrder == Spec => []FeedbackFollowsDecisions
<1>1. History => FeedbackFollowsDecisions
  <2> SUFFICES ASSUME History PROVE FeedbackFollowsDecisions
    OBVIOUS
  <2>1. TypeOK /\ VersionsFollowState /\ FeedbackInv
    BY DEF History, VersionsStory
  <2>2. /\ Latest \in Nat /\ Judged \in Nat /\ Judged <= Latest
        /\ \A v \in Nat : Decided(v) <=> v \in 1..Judged
    BY <2>1, RoundFacts
  <2>3. {v \in 1..Latest : Decided(v)} = 1..Judged
    BY <2>2
  <2>4. Cardinality(1..Judged) = Judged
    BY <2>2, FS_Interval
  <2>5. Len(released) = Judged /\ DOMAIN released = 1..Judged
    BY <2>1 DEF FeedbackInv, TypeOK
  <2>6. ASSUME NEW i \in 1..Judged
        PROVE  /\ released[i].version = i
               /\ (released[i].status = "released") <=> (i = Judged)
               /\ (released[i].verdict = "accept") <=> (i = submission.accepted)
    BY <2>1 DEF FeedbackInv
  <2> QED BY <2>3, <2>4, <2>5, <2>6 DEF FeedbackFollowsDecisions
<1> QED BY <1>1, HistoryAlways, PTL

\* A key that holds a receipt owns exactly the events of one run of its command,
\* and a key without one owns none, however often requests were delivered
\* (readIdempotentReceipt).
THEOREM EachKeyOnce == Spec => []AppliedOncePerKey
<1>1. History => AppliedOncePerKey
  BY DEF History, KeysInv, OfKey, AppliedOncePerKey
<1> QED BY <1>1, HistoryAlways, PTL

\* The event log and the stored state agree: one submission event per sealed
\* version, then one feedback and one decision event when it is decided, version
\* after version.
THEOREM LedgerCorrect == Spec => []LedgerMatchesHistory
<1>1. History => LedgerMatchesHistory
  <2> SUFFICES ASSUME History PROVE LedgerMatchesHistory
    OBVIOUS
  <2>1. TypeOK /\ VersionsFollowState /\ LedgerInv
    BY DEF History, VersionsStory
  <2>2. \A kinds, v : InLog(kinds, v) = EventsOf(kinds, v)
    BY DEF InLog, OfLog, EventsOf
  <2>3. ASSUME NEW v \in 1..Latest
        PROVE  /\ v \in Nat \ {0}
               /\ Bit(v <= Handed) = (IF Sealed(v) THEN 1 ELSE 0)
               /\ Bit(v <= Judged) = (IF Decided(v) THEN 1 ELSE 0)
    <3>1. /\ v \in Nat \ {0}
          /\ Sealed(v) <=> v <= Handed
          /\ Decided(v) <=> v <= Judged
      BY <2>1, RoundFacts
    <3> QED BY <3>1 DEF Bit
  <2>4. ASSUME NEW v \in 1..Latest
        PROVE  /\ Cardinality(EventsOf(SubmitKinds, v)) = IF Sealed(v) THEN 1 ELSE 0
               /\ Cardinality(EventsOf({"feedback.released"}, v)) = IF Decided(v) THEN 1 ELSE 0
               /\ Cardinality(EventsOf(DecisionKinds, v)) = IF Decided(v) THEN 1 ELSE 0
               /\ \A i \in EventsOf(SubmitKinds, v), j \in EventsOf(DecisionKinds, v) : i < j
               /\ \A i \in EventsOf(DecisionKinds, v), j \in EventsOf(SubmitKinds, v + 1) : i < j
    <3>1. v \in Nat \ {0}
      BY <2>3
    <3>2. /\ Cardinality(InLog(SubmitKinds, v)) = Bit(v <= Handed)
          /\ Cardinality(InLog({"feedback.released"}, v)) = Bit(v <= Judged)
          /\ Cardinality(InLog(DecisionKinds, v)) = Bit(v <= Judged)
          /\ \A i \in InLog(SubmitKinds, v), j \in InLog(DecisionKinds, v) : i < j
          /\ \A i \in InLog(DecisionKinds, v), j \in InLog(SubmitKinds, v + 1) : i < j
      BY <2>1, <3>1 DEF LedgerInv
    <3> QED BY <2>2, <2>3, <3>2
  <2>5. attempts = Cardinality(EventsOf({"formative-check.attempted"}, 0))
    BY <2>1, <2>2 DEF LedgerInv
  <2> QED BY <2>4, <2>5 DEF LedgerMatchesHistory
<1> QED BY <1>1, HistoryAlways, PTL

\* The learner profile is not behind the log: it counts the commands that were
\* logged and tells the outcome of the last one that moved the submission
\* (upsertLearnerProjection).
THEOREM ProfileCorrect == Spec => []ProfileTellsLastOutcome
<1>1. History => ProfileTellsLastOutcome
  <2> SUFFICES ASSUME History PROVE ProfileTellsLastOutcome
    OBVIOUS
  <2>1. TypeOK /\ ProfileInv
    BY DEF History
  <2> DEFINE moves == MovesIn(events)
             last == CHOOSE i \in moves : \A j \in moves : j <= i
  <2>2. moves \subseteq Nat
    BY <2>1 DEF TypeOK, MovesIn
  <2>3. profile.state = IF moves = {} THEN "none" ELSE Outcome(events[last].kind)
    <3>1. CASE moves = {}
      BY <2>1, <3>1 DEF ProfileInv
    <3>2. CASE moves # {}
      <4>1. PICK m \in moves : LastMove(events, m) /\ profile.state = Outcome(events[m].kind)
        BY <2>1, <3>2 DEF ProfileInv
      <4>2. \A j \in moves : j <= m
        BY <4>1 DEF LastMove
      <4> HIDE DEF moves
      <4>3. last \in moves /\ \A j \in moves : j <= last
        BY <4>2
      <4>4. last = m
        <5> HIDE DEF last
        <5>1. m \in Nat /\ last \in Nat /\ m <= last /\ last <= m
          BY <2>2, <4>2, <4>3
        <5> QED BY <5>1
      <4> QED BY <3>2, <4>1, <4>4
    <3> QED BY <3>1, <3>2
  <2>4. profile.version = Cardinality({i \in DOMAIN events : events[i].kind # "feedback.released"})
    BY <2>1 DEF ProfileInv, Counted
  <2> QED BY <2>3, <2>4 DEF ProfileTellsLastOutcome, MovesIn
<1> QED BY <1>1, HistoryAlways, PTL
-----------------------------------------------------------------------------
\* The step of SubmissionMovesAsAllowed.
MovesAllowed ==
  \/ retention' = "purged"
  \/ /\ submission'.state # submission.state =>
          <<submission.state, submission'.state>> \in Moves
     /\ (activity # "published" \/ retention # "open") =>
          versions' = versions /\ attempts' = attempts

\* Every step moves the submission as the loop allows.
LEMMA MovesStep == TypeOK /\ VersionsFollowState /\ [Next]_vars => MovesAllowed
<1> SUFFICES ASSUME TypeOK, VersionsFollowState, [Next]_vars PROVE MovesAllowed
  OBVIOUS
<1>1. ASSUME UNCHANGED <<attempts, submission, versions>> PROVE MovesAllowed
  BY <1>1 DEF MovesAllowed
<1>2. ASSUME NEW c \in Tabs, RecordAttempt(c) PROVE MovesAllowed
  BY <1>2 DEF RecordAttempt, RecordWritable, MovesAllowed
<1>13. ASSUME NEW c \in Tabs, RecordVisit(c) PROVE UNCHANGED <<attempts, submission, versions>>
  BY <1>13 DEF RecordVisit
<1>3. ASSUME NEW c \in Tabs, SaveDraft(c) PROVE MovesAllowed
  <2>1. /\ submission.state \in {"absent", "revision_requested", "draft"}
        /\ activity = "published" /\ retention = "open"
    BY <1>3 DEF SaveDraft, RecordWritable
  <2>2. submission'.state = "draft"
    BY <1>3 DEF SaveDraft, TypeOK
  <2> QED BY <2>1, <2>2 DEF MovesAllowed, Moves
<1>4. ASSUME NEW c \in Tabs, UploadImage(c) \/ RemoveImage(c) PROVE MovesAllowed
  BY <1>4 DEF UploadImage, RemoveImage, DraftWritable, RecordWritable, MovesAllowed
<1>5. ASSUME NEW c \in Tabs, Submit(c) PROVE MovesAllowed
  <2>1. submission.state = "draft" /\ activity = "published" /\ retention = "open"
    BY <1>5 DEF Submit, DraftWritable, RecordWritable
  <2>2. submission'.state \in {"submitted", "resubmitted"}
    BY <1>5 DEF Submit, SealedState, TypeOK
  <2> QED BY <2>1, <2>2 DEF MovesAllowed, Moves
<1>6. ASSUME NEW c \in Desks, Decide(c) PROVE MovesAllowed
  <2>1. /\ submission.state \in {"submitted", "resubmitted"}
        /\ UNCHANGED <<versions, attempts>>
    BY <1>6 DEF Decide, UnderReview, Reviewable
  <2>2. submission'.state \in {"accepted", "revision_requested"}
    BY <1>6 DEF Decide
  <2> QED BY <2>1, <2>2 DEF MovesAllowed, Moves
<1>7. CASE PurgeRecords
  BY <1>7 DEF PurgeRecords, MovesAllowed
<1>8. ASSUME NEW c \in Tabs, StudentAsks(c) \/ ResolveConflict(c) \/ Forget(c)
      PROVE  UNCHANGED records
  BY <1>8 DEF StudentAsks, ResolveConflict, Forget
<1>9. ASSUME NEW c \in Desks, TeacherAsks(c) \/ Forget(c) \/ SaveFeedback(c) \/ ReserveAi(c)
      PROVE  UNCHANGED <<attempts, submission, versions>>
  BY <1>9 DEF TeacherAsks, Forget, SaveFeedback, ReserveAi, records
<1>10. ASSUME NEW job \in jobs, JobStep(job) PROVE UNCHANGED <<attempts, submission, versions>>
  BY <1>10 DEF JobStep, CompleteAi, FailAi, CrashAi, records
<1>11. ASSUME ArchiveActivity \/ CloseRecords \/ UNCHANGED vars PROVE UNCHANGED records
  BY <1>11 DEF ArchiveActivity, CloseRecords, vars
<1>12. UNCHANGED records => UNCHANGED <<attempts, submission, versions>>
  BY DEF records
<1> QED
  BY <1>1, <1>2, <1>3, <1>4, <1>5, <1>6, <1>7, <1>8, <1>9, <1>10, <1>11, <1>12, <1>13
     DEF Next, StudentStep, TeacherStep

\* The submission moves only along the loop, leaves acceptance only by the purge,
\* and a version opens, changes or seals only while the activity is published and
\* the records are open.
THEOREM MovesCorrect == Spec => SubmissionMovesAsAllowed
<1>1. History => TypeOK /\ VersionsFollowState
  BY DEF History, VersionsStory
<1>2. TypeOK /\ VersionsFollowState /\ [Next]_vars => [MovesAllowed]_vars
  BY MovesStep
<1>3. Spec => [][MovesAllowed]_vars
  BY <1>1, <1>2, HistoryAlways, PTL DEF Spec
<1> QED
  BY <1>3 DEF SubmissionMovesAsAllowed, MovesAllowed
=============================================================================
