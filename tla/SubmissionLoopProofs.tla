------------------------- MODULE SubmissionLoopProofs -------------------------
(* Theorems about SubmissionLoop, for every number of callers, keys, versions *)
(* and revisions.                                                             *)
EXTENDS SubmissionLoop, TLAPS

(***************************************************************************)
(* Type correctness                                                        *)
(***************************************************************************)

\* Replacing one row of a table, if it is there, keeps the table.
LEMMA ReplaceRow ==
  ASSUME NEW S, NEW s \in Seq(S), NEW i, NEW x, i \in DOMAIN s => x \in S
  PROVE  /\ [s EXCEPT ![i] = x] \in Seq(S)
         /\ Len([s EXCEPT ![i] = x]) = Len(s)
<1> DEFINE t == [s EXCEPT ![i] = x]
<1>1. DOMAIN t = 1..Len(s) /\ Len(s) \in Nat
  OBVIOUS
<1>2. \A j \in 1..Len(s) : t[j] \in S
  OBVIOUS
<1>3. t \in [1..Len(s) -> S]
  BY <1>1, <1>2
<1> QED
  BY <1>1, <1>3

\* What the types say of the rows of the current version.
LEMMA CurrentType ==
  ASSUME TypeOK, submission.state # "absent" \/ versions # <<>>
  PROVE  /\ Latest \in Nat \ {0} /\ Latest \in DOMAIN versions /\ Latest \in DOMAIN notes
         /\ Current \in Versions
         /\ Current.text \in Contents /\ Current.images \in SUBSET Images
         /\ Current.revision \in Nat \ {0}
         /\ notes[Latest] \in Notes /\ notes[Latest].revision \in Nat
<1>1. Latest \in Nat \ {0} /\ Latest \in DOMAIN versions /\ Latest \in DOMAIN notes
  BY DEF TypeOK, Latest
<1>2. Current \in Versions /\ notes[Latest] \in Notes
  BY <1>1 DEF TypeOK, Current
<1> QED
  BY <1>1, <1>2 DEF Versions, Notes

\* The current version, edited, is a version row still.
LEMMA EditRow ==
  ASSUME TypeOK, submission.state # "absent"
  PROVE  /\ \A text \in Contents :
              [Current EXCEPT !.text = text, !.revision = NextRevision] \in Versions
         /\ \A images \in SUBSET Images :
              [Current EXCEPT !.images = images, !.revision = NextRevision] \in Versions
<1>1. Current \in Versions /\ NextRevision \in Nat \ {0}
  BY CurrentType DEF NextRevision
<1> QED
  BY <1>1 DEF Versions

\* Whatever the state, the page a caller loads from it is a page.
LEMMA PageType ==
  ASSUME TypeOK PROVE Page \in Pages
<1>1. CASE versions = <<>>
  BY <1>1 DEF Page, Pages, Contents, ShownTexts
<1>2. CASE versions # <<>>
  BY <1>2, CurrentType DEF Page, Pages, ShownTexts
<1> QED
  BY <1>1, <1>2

\* A caller that asks for something holds a request with the fields of its command.
Keyed == [op: {"attempt", "visit", "submit", "save-feedback", "ai-feedback"}, page: Pages, key: Keys]
Saves == [op: {"save"}, page: Pages, text: Contents]
ImageEdits == [op: {"upload", "remove"}, page: Pages, image: Images]
DecisionRequests == [op: {"decide"}, page: Pages, key: Keys, verdict: Verdicts]

LEMMA RequestType ==
  ASSUME TypeOK, NEW c \in Callers, calls[c].op # "idle"
  PROVE  /\ calls[c].page \in Pages
         /\ calls[c].op \in {"attempt", "visit", "submit", "save-feedback", "ai-feedback", "decide"}
              => calls[c].key \in Keys
         /\ calls[c].op = "save" => calls[c].text \in Contents
         /\ calls[c].op \in {"upload", "remove"} => calls[c].image \in Images
         /\ calls[c].op = "decide" => calls[c].verdict \in Verdicts
<1> DEFINE request == calls[c]
<1>1. request \in Keyed \/ request \in Saves \/ request \in ImageEdits \/ request \in DecisionRequests
  BY DEF TypeOK, Requests, Idle, Keyed, Saves, ImageEdits, DecisionRequests
<1> HIDE DEF request
<1>2. /\ request.page \in Pages
      /\ request.op \in {"attempt", "visit", "submit", "save-feedback", "ai-feedback", "decide"}
           => request.key \in Keys
      /\ request.op = "save" => request.text \in Contents
      /\ request.op \in {"upload", "remove"} => request.image \in Images
      /\ request.op = "decide" => request.verdict \in Verdicts
  <2>1. CASE request \in Keyed
    BY <2>1 DEF Keyed
  <2>2. CASE request \in Saves
    BY <2>2 DEF Saves
  <2>3. CASE request \in ImageEdits
    BY <2>3 DEF ImageEdits
  <2>4. CASE request \in DecisionRequests
    BY <2>4 DEF DecisionRequests
  <2> QED
    BY <1>1, <2>1, <2>2, <2>3, <2>4
<1> QED
  BY <1>2 DEF request

\* So does a session that resolves a conflict.
LEMMA ConflictPageType ==
  ASSUME TypeOK, NEW c \in Tabs, calls[c].op \in {"save", "submit"}, StaleRevision(calls[c])
  PROVE  AfterConflict(calls[c]) \in Pages
<1>1. calls[c].page \in Pages
  BY RequestType DEF Callers
<1>2. Page \in Pages
  BY PageType
<1>3. ToldText(calls[c].op) \in ShownTexts
  <2>1. Current \in Versions
    BY CurrentType DEF StaleRevision, TypeOK
  <2> QED
    BY <2>1 DEF ToldText, ShownTexts, Versions
<1> QED
  BY <1>1, <1>2, <1>3 DEF AfterConflict, Pages

\* Teacher and generator read what a page shows, or its text.
LEMMA ReadingType ==
  ASSUME NEW page \in Pages PROVE {SeenOn(page), GeneratorSees(page)} \subseteq Readings
BY DEF SeenOn, GeneratorSees, Readings, Pages

\* A feedback draft is written into its place.
LEMMA NoteType ==
  ASSUME TypeOK, NEW page, NEW seen \in Readings, WriteNote(page, seen)
  PROVE  notes' \in Seq(Notes) /\ Len(notes') = Len(notes)
<1>2. notes' = [notes EXCEPT ![Latest] =
                  [revision |-> notes[Latest].revision + 1, seen |-> seen]]
  BY DEF WriteNote
<1>3. Latest \in DOMAIN notes =>
        [revision |-> notes[Latest].revision + 1, seen |-> seen] \in Notes
  <2>1. SUFFICES ASSUME Latest \in DOMAIN notes PROVE notes[Latest].revision \in Nat
    BY DEF Notes
  <2>2. notes[Latest] \in Notes
    BY <2>1 DEF TypeOK
  <2> QED
    BY <2>2 DEF Notes
<1>4. notes \in Seq(Notes)
  BY DEF TypeOK
<1> QED
  BY <1>2, <1>3, <1>4, ReplaceRow

LEMMA TypeInit == Init => TypeOK
  BY DEF Init, TypeOK, Absent, NewProfile, SubmissionStates, Idle, NoReceipt, Receipts

LEMMA TypeStep == TypeOK /\ [Next]_vars => TypeOK'
<1> SUFFICES ASSUME TypeOK, [Next]_vars PROVE TypeOK'
  OBVIOUS
<1> USE DEF TypeOK
<1>1. ASSUME NEW c \in Tabs, StudentAsks(c) PROVE TypeOK'
  <2>1. Page \in Pages /\ FreshKeys \subseteq Keys
    BY PageType DEF FreshKeys
  <2>2. PICK request \in Requests : calls' = [calls EXCEPT ![c] = request]
    BY <1>1, <2>1 DEF StudentAsks, Requests
  <2> QED
    BY <1>1, <2>2 DEF StudentAsks, records, Callers
<1>2. ASSUME NEW c \in Desks, TeacherAsks(c) PROVE TypeOK'
  <2>1. Page \in Pages /\ FreshKeys \subseteq Keys
    BY PageType DEF FreshKeys
  <2>2. PICK request \in Requests : calls' = [calls EXCEPT ![c] = request]
    BY <1>2, <2>1 DEF TeacherAsks, Requests
  <2> QED
    BY <1>2, <2>2 DEF TeacherAsks, records, Callers
<1>3. ASSUME NEW c \in Callers, Forget(c) PROVE TypeOK'
  BY <1>3 DEF Forget, records
<1>4. ASSUME NEW c \in Tabs, RecordAttempt(c) PROVE TypeOK'
  <2>1. calls[c].key \in Keys
    BY <1>4, RequestType DEF RecordAttempt, Asks, Callers
  <2>2. events' \in Seq(Events)
    BY <1>4, <2>1 DEF RecordAttempt, Event, Events, EventKinds
  <2>3. receipts' \in [Keys -> Receipts \cup {NoReceipt}]
    BY <1>4, <2>1 DEF RecordAttempt, WriteReceipt, Receipts, Scopes
  <2>4. profile' \in [version: Nat, state: SubmissionStates \cup {"none"}]
    BY <1>4 DEF RecordAttempt, Project
  <2> QED
    BY <1>4, <2>2, <2>3, <2>4 DEF RecordAttempt
<1>20. ASSUME NEW c \in Tabs, RecordVisit(c) PROVE TypeOK'
  <2>1. calls[c].key \in Keys
    BY <1>20, RequestType DEF RecordVisit, Asks, Callers
  <2>2. events' \in Seq(Events)
    BY <1>20, <2>1 DEF RecordVisit, Event, Events, EventKinds
  <2>3. receipts' \in [Keys -> Receipts \cup {NoReceipt}]
    BY <1>20, <2>1 DEF RecordVisit, WriteReceipt, Receipts, Scopes
  <2>4. profile' \in [version: Nat, state: SubmissionStates \cup {"none"}]
    BY <1>20 DEF RecordVisit, Project
  <2> QED
    BY <1>20, <2>2, <2>3, <2>4 DEF RecordVisit
<1>5. ASSUME NEW c \in Tabs, SaveDraft(c) PROVE TypeOK'
  <2>1. calls[c].text \in Contents
    BY <1>5, RequestType DEF SaveDraft, Asks, Callers
  <2>2. submission' \in [state: SubmissionStates, accepted: Nat]
    BY <1>5 DEF SaveDraft, SubmissionStates
  <2>3. versions' \in Seq(Versions) /\ notes' \in Seq(Notes) /\ Len(notes') = Len(versions')
    <3>1. NewNote \in Notes
      BY DEF NewNote, Notes
    <3>2. \A images \in SUBSET Images : NewVersion(calls[c].text, images) \in Versions
      BY <2>1 DEF NewVersion, Versions
    <3>3. CASE submission.state = "absent"
      <4>1. versions' = <<NewVersion(calls[c].text, {})>> /\ notes' = <<NewNote>>
        BY <1>5, <3>3 DEF SaveDraft
      <4>2. NewVersion(calls[c].text, {}) \in Versions
        BY <3>2
      <4> QED
        BY <3>1, <4>1, <4>2
    <3>4. CASE submission.state = "revision_requested"
      <4>1. Current.images \in SUBSET Images
        BY <3>4, CurrentType
      <4>2. /\ versions' = Append(versions, NewVersion(calls[c].text, Current.images))
            /\ notes' = Append(notes, NewNote)
        BY <1>5, <3>4 DEF SaveDraft
      <4>3. NewVersion(calls[c].text, Current.images) \in Versions
        BY <3>2, <4>1, <4>2
      <4> QED
        BY <3>1, <4>2, <4>3
    <3>5. CASE submission.state = "draft"
      <4> DEFINE row == [Current EXCEPT !.text = calls[c].text, !.revision = NextRevision]
      <4>1. row \in Versions
        BY <2>1, <3>5, CurrentType, EditRow
      <4>2. versions' = [versions EXCEPT ![Latest] = row] /\ UNCHANGED notes
        BY <1>5, <3>5 DEF SaveDraft
      <4> HIDE DEF row
      <4> QED
        BY <4>1, <4>2, ReplaceRow
    <3> QED
      BY <1>5, <3>3, <3>4, <3>5 DEF SaveDraft
  <2> QED
    BY <1>5, <2>2, <2>3 DEF SaveDraft
<1>6. ASSUME NEW c \in Tabs, UploadImage(c) PROVE TypeOK'
  <2>1. calls[c].image \in Images
    BY <1>6, RequestType DEF UploadImage, Asks, Callers
  <2>2. versions' \in Seq(Versions) /\ Len(versions') = Len(versions)
    <3> DEFINE row == [Current EXCEPT !.images = @ \cup {calls[c].image},
                                               !.revision = NextRevision]
    <3>1. row \in Versions
      BY <1>6, <2>1, CurrentType, EditRow DEF UploadImage, DraftWritable
    <3>2. versions' = [versions EXCEPT ![Latest] = row]
      BY <1>6 DEF UploadImage
    <3> HIDE DEF row
    <3> QED
      BY <3>1, <3>2, ReplaceRow
  <2> QED
    BY <1>6, <2>2 DEF UploadImage
<1>7. ASSUME NEW c \in Tabs, RemoveImage(c) PROVE TypeOK'
  <2>1. versions' \in Seq(Versions) /\ Len(versions') = Len(versions)
    <3> DEFINE row == [Current EXCEPT !.images = @ \ {calls[c].image},
                                               !.revision = NextRevision]
    <3>1. row \in Versions
      BY <1>7, CurrentType, EditRow DEF RemoveImage, DraftWritable
    <3>2. versions' = [versions EXCEPT ![Latest] = row]
      BY <1>7 DEF RemoveImage
    <3> HIDE DEF row
    <3> QED
      BY <3>1, <3>2, ReplaceRow
  <2> QED
    BY <1>7, <2>1 DEF RemoveImage
<1>8. ASSUME NEW c \in Tabs, Submit(c) PROVE TypeOK'
  <2>1. calls[c].key \in Keys
    BY <1>8, RequestType DEF Submit, Asks, Callers
  <2> DEFINE row == [Current EXCEPT
                       !.status = "sealed",
                       !.evidence = [text |-> Current.text, images |-> Current.images]]
  <2>2. row \in Versions
    <3>1. Current \in Versions
      BY <1>8, CurrentType DEF Submit, DraftWritable
    <3> QED
      BY <3>1 DEF Versions, Evidence
  <2>3. versions' \in Seq(Versions) /\ Len(versions') = Len(versions)
    <3>1. versions' = [versions EXCEPT ![Latest] = row]
      BY <1>8 DEF Submit
    <3> HIDE DEF row
    <3> QED
      BY <2>2, <3>1, ReplaceRow
  <2>4. SealedState \in SubmissionStates
    BY DEF SealedState, SubmissionStates
  <2>5. submission' \in [state: SubmissionStates, accepted: Nat]
    BY <1>8, <2>4 DEF Submit
  <2>6. events' \in Seq(Events)
    BY <1>8, <2>1 DEF Submit, Event, Events, EventKinds, Latest
  <2>7. receipts' \in [Keys -> Receipts \cup {NoReceipt}]
    BY <1>8, <2>1 DEF Submit, WriteReceipt, Receipts, Scopes
  <2>8. profile' \in [version: Nat, state: SubmissionStates \cup {"none"}]
    BY <1>8, <2>4 DEF Submit, Project
  <2> QED
    <3>1. versions' # <<>> /\ submission'.state # "absent"
      BY <1>8, <2>3 DEF Submit, DraftWritable, SealedState
    <3> QED
      BY <1>8, <2>3, <2>5, <2>6, <2>7, <2>8, <3>1 DEF Submit
<1>9. ASSUME NEW c \in Desks, SaveFeedback(c) PROVE TypeOK'
  <2>1. calls[c].key \in Keys /\ calls[c].page \in Pages
    BY <1>9, RequestType DEF SaveFeedback, Asks, Callers
  <2>2. notes' \in Seq(Notes) /\ Len(notes') = Len(notes)
    BY <1>9, <2>1, NoteType, ReadingType DEF SaveFeedback
  <2>3. receipts' \in [Keys -> Receipts \cup {NoReceipt}]
    BY <1>9, <2>1 DEF SaveFeedback, WriteReceipt, Receipts, Scopes
  <2> QED
    BY <1>9, <2>2, <2>3 DEF SaveFeedback
<1>10. ASSUME NEW c \in Desks, Decide(c) PROVE TypeOK'
  <2> DEFINE row == [version |-> Latest, status |-> "released",
                     verdict |-> calls[c].verdict, seen |-> SeenOn(calls[c].page)]
  <2>1. calls[c].page \in Pages /\ calls[c].key \in Keys /\ calls[c].verdict \in Verdicts
    BY <1>10, RequestType DEF Decide, Asks, Callers
  <2>2. row \in Releases
    <3>1. SeenOn(calls[c].page) \in Readings
      BY <2>1, ReadingType
    <3>2. Latest \in Nat
      BY DEF Latest
    <3> QED
      BY <2>1, <3>1, <3>2 DEF Releases
  <2>3. Supersede(calls[c].page) \in Seq(Releases)
    <3> DEFINE next(i) ==
          IF released[i].status = "released" /\ released[i].version # calls[c].page.version
          THEN [released[i] EXCEPT !.status = "superseded"] ELSE released[i]
    <3>1. Len(released) \in Nat /\ DOMAIN released = 1..Len(released)
      OBVIOUS
    <3>2. ASSUME NEW i \in 1..Len(released) PROVE next(i) \in Releases
      <4>1. released[i] \in Releases
        BY <3>1
      <4>2. [released[i] EXCEPT !.status = "superseded"] \in Releases
        BY <4>1 DEF Releases
      <4> QED
        BY <4>1, <4>2
    <3>3. Supersede(calls[c].page) = [i \in 1..Len(released) |-> next(i)]
      BY <3>1 DEF Supersede
    <3> HIDE DEF next
    <3> QED
      BY <3>1, <3>2, <3>3
  <2>4. released' \in Seq(Releases)
    BY <1>10, <2>2, <2>3 DEF Decide
  <2>5. events' \in Seq(Events)
    BY <1>10, <2>1 DEF Decide, Event, Events, EventKinds, Latest
  <2>6. receipts' \in [Keys -> Receipts \cup {NoReceipt}]
    BY <1>10, <2>1 DEF Decide, WriteReceipt, Receipts, Scopes
  <2> QED
    <3>1. /\ submission' \in [state: SubmissionStates, accepted: Nat]
          /\ submission'.state # "absent" /\ versions' # <<>>
      BY <1>10 DEF Decide, UnderReview, Reviewable, SubmissionStates, Latest
    <3>2. profile' \in [version: Nat, state: SubmissionStates \cup {"none"}]
      BY <1>10 DEF Decide, Project, SubmissionStates
    <3> QED
      BY <1>10, <2>4, <2>5, <2>6, <3>1, <3>2 DEF Decide
<1>11. ASSUME NEW c \in Desks, ReserveAi(c) PROVE TypeOK'
  <2>1. calls[c].page \in Pages /\ calls[c].key \in Keys
    BY <1>11, RequestType DEF ReserveAi, Asks, Callers
  <2> QED
    BY <1>11, <2>1 DEF ReserveAi, WriteReceipt, records, Receipts, Scopes
<1>12. ASSUME NEW job \in jobs, CompleteAi(job) PROVE TypeOK'
  <2>1. notes' \in Seq(Notes) /\ Len(notes') = Len(notes)
    BY <1>12, NoteType, ReadingType DEF CompleteAi
  <2>2. receipts' \in [Keys -> Receipts \cup {NoReceipt}]
    BY <1>12 DEF CompleteAi, WriteReceipt, Receipts, Scopes
  <2> QED
    BY <1>12, <2>1, <2>2 DEF CompleteAi
<1>13. ASSUME NEW job \in jobs, FailAi(job) PROVE TypeOK'
  <2>1. receipts' \in [Keys -> Receipts \cup {NoReceipt}]
    BY <1>13 DEF FailAi, WriteReceipt, Receipts, Scopes
  <2> QED
    BY <1>13, <2>1 DEF FailAi, records
<1>14. ASSUME NEW job \in jobs, CrashAi(job) PROVE TypeOK'
  BY <1>14 DEF CrashAi, records
<1>15. ASSUME ArchiveActivity PROVE TypeOK'
  BY <1>15 DEF ArchiveActivity, records
<1>16. ASSUME CloseRecords PROVE TypeOK'
  BY <1>16 DEF CloseRecords, records
<1>17. ASSUME PurgeRecords PROVE TypeOK'
  BY <1>17 DEF PurgeRecords, Absent, NewProfile, SubmissionStates
<1>18. CASE UNCHANGED vars
  BY <1>18 DEF vars, records
<1>19. ASSUME NEW c \in Tabs, ResolveConflict(c) PROVE TypeOK'
  <2>1. AfterConflict(calls[c]) \in Pages /\ FreshKeys \subseteq Keys
    BY <1>19, ConflictPageType DEF ResolveConflict, FreshKeys
  <2>2. PICK request \in Requests : calls' = [calls EXCEPT ![c] = request]
    BY <1>19, <2>1 DEF ResolveConflict, Requests
  <2> QED
    BY <1>19, <2>2 DEF ResolveConflict, records, Callers
<1> HIDE DEF TypeOK
<1> QED
  BY <1>1, <1>2, <1>3, <1>4, <1>5, <1>6, <1>7, <1>8, <1>9, <1>10, <1>11, <1>12, <1>13,
     <1>14, <1>15, <1>16, <1>17, <1>18, <1>19, <1>20
     DEF Next, StudentStep, TeacherStep, JobStep, Callers

\* In every reachable state each table holds rows of its schema, whatever requests
\* callers hold.
THEOREM TypeCorrect == Spec => []TypeOK
  BY TypeInit, TypeStep, PTL DEF Spec

(***************************************************************************)
(* The story of the versions: only the last can be a draft, and a sealed   *)
(* version shows the evidence it was sealed with.  The two facts need each *)
(* other's frame and are proved together.                                  *)
(***************************************************************************)
VersionsStory == VersionsFollowState /\ SealedShowsEvidence

\* What a command that replaces the current version leaves of the others.
LEMMA ReplacedCurrent ==
  ASSUME TypeOK, submission.state # "absent", NEW row,
         versions' = [versions EXCEPT ![Latest] = row]
  PROVE  /\ Latest' = Latest /\ Latest \in Nat \ {0}
         /\ versions'[Latest] = row
         /\ \A v \in 1..Latest : v # Latest => versions'[v] = versions[v]
<1>1. Latest \in Nat \ {0}
  BY CurrentType
<1>2. versions \in Seq(Versions) /\ Latest = Len(versions) /\ DOMAIN versions = 1..Latest
  BY DEF TypeOK, Latest
<1>3. /\ DOMAIN versions' = DOMAIN versions
      /\ versions'[Latest] = row
      /\ \A v \in 1..Latest : v # Latest => versions'[v] = versions[v]
  BY <1>1, <1>2
<1>4. Len(versions') = Len(versions)
  BY <1>2
<1> QED
  BY <1>1, <1>2, <1>3, <1>4 DEF Latest

LEMMA LastIndex == \A n \in Nat \ {0} : n \in 1..n
  OBVIOUS

\* An edit of the open draft leaves the story as it is.
LEMMA DraftEdit ==
  ASSUME TypeOK, VersionsStory, submission.state = "draft", submission' = submission,
         \/ \E text : versions' = [versions EXCEPT ![Latest] =
                        [Current EXCEPT !.text = text, !.revision = NextRevision]]
         \/ \E images : versions' = [versions EXCEPT ![Latest] =
                        [Current EXCEPT !.images = images, !.revision = NextRevision]]
  PROVE  VersionsStory'
<1>1. Current \in Versions /\ Latest \in Nat \ {0} /\ Latest \in 1..Latest
  <2>1. Current \in Versions /\ Latest \in Nat \ {0}
    BY CurrentType
  <2> QED
    BY <2>1, LastIndex, Zenon
<1>2. Current.status = "draft" /\ Current.evidence = Unsealed
  BY <1>1 DEF VersionsStory, VersionsFollowState, SealedShowsEvidence, Current
<1>3. PICK row : /\ versions' = [versions EXCEPT ![Latest] = row]
                 /\ row.status = "draft" /\ row.evidence = Unsealed
  <2>1. ASSUME NEW text
        PROVE  LET row == [Current EXCEPT !.text = text, !.revision = NextRevision]
               IN  row.status = "draft" /\ row.evidence = Unsealed
    BY <1>1, <1>2 DEF Versions
  <2>2. ASSUME NEW images
        PROVE  LET row == [Current EXCEPT !.images = images, !.revision = NextRevision]
               IN  row.status = "draft" /\ row.evidence = Unsealed
    BY <1>1, <1>2 DEF Versions
  <2> QED
    BY <2>1, <2>2
<1>4. /\ Latest' = Latest /\ Latest \in Nat \ {0} /\ versions'[Latest] = row
      /\ \A v \in 1..Latest : v # Latest => versions'[v] = versions[v]
  BY <1>3, ReplacedCurrent
<1>5. VersionsFollowState'
  BY <1>3, <1>4 DEF VersionsStory, VersionsFollowState
<1>6. SealedShowsEvidence'
  <2>1. ASSUME NEW v \in 1..Latest
        PROVE  versions'[v].evidence = IF versions'[v].status = "sealed"
                                       THEN Shown(v)' ELSE Unsealed
    <3>1. CASE v = Latest
      <4>1. versions'[v].status = "draft" /\ versions'[v].evidence = Unsealed
        BY <1>3, <1>4, <3>1, Zenon
      <4> QED
        BY <4>1
    <3>2. CASE v # Latest
      BY <1>4, <3>2 DEF VersionsStory, SealedShowsEvidence, Shown
    <3> QED
      BY <3>1, <3>2
  <2> QED
    BY <1>4, <2>1 DEF SealedShowsEvidence
<1> QED
  BY <1>5, <1>6 DEF VersionsStory

LEMMA StoryInit == Init => VersionsStory
  BY DEF Init, VersionsStory, VersionsFollowState, SealedShowsEvidence, Latest, Absent

LEMMA StoryStep == TypeOK /\ VersionsStory /\ [Next]_vars => VersionsStory'
<1> SUFFICES ASSUME TypeOK, VersionsStory, [Next]_vars PROVE VersionsStory'
  OBVIOUS
<1>1. ASSUME UNCHANGED <<submission, versions>> PROVE VersionsStory'
  BY <1>1 DEF VersionsStory, VersionsFollowState, SealedShowsEvidence, Latest, Shown
<1>2. ASSUME NEW c \in Tabs, SaveDraft(c) PROVE VersionsStory'
  <2>1. CASE submission.state = "absent"
    <3>1. /\ versions' = <<NewVersion(calls[c].text, {})>>
          /\ submission' = [submission EXCEPT !.state = "draft"]
      BY <1>2, <2>1 DEF SaveDraft
    <3>2. /\ Latest' = 1 /\ versions'[1].status = "draft" /\ versions'[1].evidence = Unsealed
      BY <3>1 DEF NewVersion, Latest
    <3>3. submission'.state = "draft" /\ submission'.accepted = 0
      BY <2>1, <3>1 DEF VersionsStory, VersionsFollowState, TypeOK
    <3> QED
      BY <3>2, <3>3 DEF VersionsStory, VersionsFollowState, SealedShowsEvidence
  <2>2. CASE submission.state = "revision_requested"
    <3>1. /\ versions' = Append(versions, NewVersion(calls[c].text, Current.images))
          /\ submission' = [submission EXCEPT !.state = "draft"]
      BY <1>2, <2>2 DEF SaveDraft
    <3> DEFINE row == NewVersion(calls[c].text, Current.images)
    <3>2. row.status = "draft" /\ row.evidence = Unsealed
      BY DEF NewVersion
    <3> HIDE DEF row
    <3>3. /\ Latest' = Latest + 1 /\ Latest \in Nat
          /\ versions'[Latest + 1] = row
          /\ \A v \in 1..Latest : versions'[v] = versions[v]
      BY <3>1 DEF TypeOK, Latest, row
    <3>4. submission'.state = "draft" /\ submission'.accepted = 0
      BY <2>2, <3>1 DEF VersionsStory, VersionsFollowState, TypeOK
    <3>5. \A v \in 1..Latest : versions[v].status = "sealed"
      <4>1. \A v \in 1..Latest : versions[v] \in Versions /\ versions[v].status # "draft"
        BY <2>2 DEF VersionsStory, VersionsFollowState, TypeOK, Latest
      <4> QED
        BY <4>1 DEF Versions
    <3> QED
      BY <3>2, <3>3, <3>4, <3>5 DEF VersionsStory, VersionsFollowState, SealedShowsEvidence, Shown
  <2>3. CASE submission.state = "draft"
    <3>1. submission' = submission
      BY <1>2, <2>3 DEF SaveDraft, TypeOK
    <3> QED
      BY <1>2, <2>3, <3>1, DraftEdit DEF SaveDraft
  <2> QED
    BY <1>2, <2>1, <2>2, <2>3 DEF SaveDraft
<1>3. ASSUME NEW c \in Tabs, UploadImage(c) PROVE VersionsStory'
  BY <1>3, DraftEdit DEF UploadImage, DraftWritable
<1>4. ASSUME NEW c \in Tabs, RemoveImage(c) PROVE VersionsStory'
  BY <1>4, DraftEdit DEF RemoveImage, DraftWritable
<1>5. ASSUME NEW c \in Tabs, Submit(c) PROVE VersionsStory'
  <2> DEFINE row == [Current EXCEPT
                       !.status = "sealed",
                       !.evidence = [text |-> Current.text, images |-> Current.images]]
  <2>1. versions' = [versions EXCEPT ![Latest] = row] /\ submission.state = "draft"
    BY <1>5 DEF Submit, DraftWritable
  <2>2. /\ row.status = "sealed" /\ row.evidence = [text |-> row.text, images |-> row.images]
    BY <2>1, CurrentType DEF Versions
  <2> HIDE DEF row
  <2>3. /\ Latest' = Latest /\ Latest \in Nat \ {0} /\ versions'[Latest] = row
        /\ \A v \in 1..Latest : v # Latest => versions'[v] = versions[v]
    BY <2>1, ReplacedCurrent
  <2>4. submission'.state = SealedState /\ submission'.accepted = 0
    BY <1>5, <2>1 DEF Submit, TypeOK, VersionsStory, VersionsFollowState
  <2> QED
    BY <2>1, <2>2, <2>3, <2>4
       DEF VersionsStory, VersionsFollowState, SealedShowsEvidence, SealedState, Shown
<1>6. ASSUME NEW c \in Desks, Decide(c) PROVE VersionsStory'
  BY <1>6 DEF Decide, UnderReview, Reviewable, VersionsStory, VersionsFollowState,
    SealedShowsEvidence, Latest, Shown, TypeOK
<1>7. ASSUME PurgeRecords PROVE VersionsStory'
  BY <1>7 DEF PurgeRecords, VersionsStory, VersionsFollowState, SealedShowsEvidence,
    Latest, Absent
<1>8. ASSUME NEW c \in Tabs,
             StudentAsks(c) \/ ResolveConflict(c) \/ Forget(c) \/ RecordAttempt(c)
             \/ RecordVisit(c)
      PROVE  UNCHANGED <<submission, versions>>
  BY <1>8 DEF StudentAsks, ResolveConflict, Forget, RecordAttempt, RecordVisit, records
<1>9. ASSUME NEW c \in Desks,
             TeacherAsks(c) \/ Forget(c) \/ SaveFeedback(c) \/ ReserveAi(c)
      PROVE  UNCHANGED <<submission, versions>>
  BY <1>9 DEF TeacherAsks, Forget, SaveFeedback, ReserveAi, records
<1>10. ASSUME NEW job \in jobs, JobStep(job) PROVE UNCHANGED <<submission, versions>>
  BY <1>10 DEF JobStep, CompleteAi, FailAi, CrashAi, records
<1>11. ASSUME ArchiveActivity \/ CloseRecords \/ UNCHANGED vars
       PROVE  UNCHANGED <<submission, versions>>
  BY <1>11 DEF ArchiveActivity, CloseRecords, vars, records
<1> QED
  BY <1>1, <1>2, <1>3, <1>4, <1>5, <1>6, <1>7, <1>8, <1>9, <1>10, <1>11
     DEF Next, StudentStep, TeacherStep

\* The submission row and its versions always tell the same story, and a sealed
\* version always shows the evidence it was sealed with.
THEOREM VersionsCorrect == Spec => [](VersionsFollowState /\ SealedShowsEvidence)
<1>1. VersionsStory => VersionsFollowState /\ SealedShowsEvidence
  BY DEF VersionsStory
<1> QED
  BY <1>1, TypeCorrect, StoryInit, StoryStep, PTL DEF Spec

\* A version that is sealed shows the text and the images it was sealed with.
THEOREM SealedVersionsShowIt == Spec => []SealedShowsEvidence
<1>1. VersionsFollowState /\ SealedShowsEvidence => SealedShowsEvidence
  OBVIOUS
<1> QED
  BY <1>1, VersionsCorrect, PTL

(***************************************************************************)
(* Sealed evidence                                                         *)
(***************************************************************************)
SealedStays ==
  \A v \in 1..Latest :
    Sealed(v) => \/ v \in DOMAIN versions' /\ versions'[v] = versions[v]
                 \/ retention' = "purged"

\* Replacing the open draft touches no sealed version.
LEMMA DraftReplacedKeepsSealed ==
  ASSUME TypeOK, VersionsFollowState, submission.state = "draft", NEW row,
         versions' = [versions EXCEPT ![Latest] = row]
  PROVE  SealedStays
<1>1. /\ DOMAIN versions' = 1..Latest
      /\ \A v \in 1..Latest : v # Latest => versions'[v] = versions[v]
  <2>1. DOMAIN versions' = 1..Latest
    BY DEF TypeOK, Latest
  <2>2. \A v \in 1..Latest : v # Latest => versions'[v] = versions[v]
    BY ReplacedCurrent
  <2> QED
    BY <2>1, <2>2
<1>2. \A v \in 1..Latest : Sealed(v) => v # Latest
  BY DEF VersionsFollowState, Sealed
<1> QED
  BY <1>1, <1>2 DEF SealedStays

LEMMA SealedStep == TypeOK /\ VersionsFollowState /\ [Next]_vars => SealedStays
<1> SUFFICES ASSUME TypeOK, VersionsFollowState, [Next]_vars PROVE SealedStays
  OBVIOUS
<1>1. ASSUME UNCHANGED versions PROVE SealedStays
  BY <1>1 DEF SealedStays, Latest, TypeOK
<1>2. ASSUME NEW c \in Tabs, SaveDraft(c) PROVE SealedStays
  <2>1. CASE submission.state = "absent"
    BY <2>1 DEF TypeOK, SealedStays, Latest
  <2>2. CASE submission.state = "revision_requested"
    <3>1. versions' = Append(versions, NewVersion(calls[c].text, Current.images))
      BY <1>2, <2>2 DEF SaveDraft
    <3> QED
      BY <3>1 DEF TypeOK, SealedStays, Latest
  <2>3. CASE submission.state = "draft"
    BY <1>2, <2>3, DraftReplacedKeepsSealed DEF SaveDraft
  <2> QED
    BY <1>2, <2>1, <2>2, <2>3 DEF SaveDraft
<1>3. ASSUME NEW c \in Tabs, UploadImage(c) \/ RemoveImage(c) \/ Submit(c) PROVE SealedStays
  BY <1>3, DraftReplacedKeepsSealed DEF UploadImage, RemoveImage, Submit, DraftWritable
<1>4. ASSUME PurgeRecords PROVE SealedStays
  BY <1>4 DEF PurgeRecords, SealedStays
<1>5. ASSUME NEW c \in Tabs, StudentAsks(c) \/ ResolveConflict(c) \/ Forget(c) \/ RecordAttempt(c)
             \/ RecordVisit(c)
      PROVE  UNCHANGED versions
  BY <1>5 DEF StudentAsks, ResolveConflict, Forget, RecordAttempt, RecordVisit, records
<1>6. ASSUME NEW c \in Desks, TeacherStep(c) PROVE UNCHANGED versions
  BY <1>6 DEF TeacherStep, TeacherAsks, Forget, SaveFeedback, Decide, ReserveAi, records
<1>7. ASSUME NEW job \in jobs, JobStep(job) PROVE UNCHANGED versions
  BY <1>7 DEF JobStep, CompleteAi, FailAi, CrashAi, records
<1>8. ASSUME ArchiveActivity \/ CloseRecords \/ UNCHANGED vars PROVE UNCHANGED versions
  BY <1>8 DEF ArchiveActivity, CloseRecords, vars, records
<1> QED
  BY <1>1, <1>2, <1>3, <1>4, <1>5, <1>6, <1>7, <1>8 DEF Next, StudentStep

\* Whatever any session, desk, generation or retry does, a version that is sealed
\* stays exactly as it is until the course is purged.
THEOREM SealedForGood == Spec => SealedEvidenceImmutable
<1>1. VersionsFollowState /\ SealedShowsEvidence => VersionsFollowState
  OBVIOUS
<1>2. TypeOK /\ VersionsFollowState /\ [Next]_vars => [SealedStays]_vars
  BY SealedStep
<1>3. Spec => [][SealedStays]_vars
  BY <1>1, <1>2, TypeCorrect, VersionsCorrect, PTL DEF Spec
<1> QED
  BY <1>3 DEF SealedEvidenceImmutable, SealedStays

(***************************************************************************)
(* The purge                                                               *)
(***************************************************************************)
LEMMA PurgeStep == PurgeIsFinal /\ TypeOK /\ [Next]_vars => PurgeIsFinal'
<1> SUFFICES ASSUME PurgeIsFinal, TypeOK, [Next]_vars, retention' = "purged"
             PROVE  /\ attempts' = 0 /\ submission' = Absent /\ versions' = <<>>
                    /\ notes' = <<>> /\ released' = <<>> /\ events' = <<>>
                    /\ profile' = NewProfile
                    /\ \A k \in Keys : receipts'[k].status # "persisted"
  BY DEF PurgeIsFinal
<1>1. CASE PurgeRecords
  <2>1. ASSUME NEW k \in Keys PROVE receipts'[k].status # "persisted"
    BY <1>1 DEF PurgeRecords, NoReceipt
  <2> QED
    BY <1>1, <2>1 DEF PurgeRecords
<1>2. CASE ~PurgeRecords
  <2>1. retention = "purged"
    BY <1>2 DEF Next, StudentStep, TeacherStep, JobStep, StudentAsks,
       ResolveConflict, Forget, RecordAttempt, RecordVisit, SaveDraft, UploadImage, RemoveImage, Submit,
       TeacherAsks, SaveFeedback, Decide, ReserveAi, CompleteAi, FailAi, CrashAi,
       ArchiveActivity, CloseRecords, vars
  <2>2. ASSUME UNCHANGED <<records, receipts>>
        PROVE  /\ attempts' = 0 /\ submission' = Absent /\ versions' = <<>>
               /\ notes' = <<>> /\ released' = <<>> /\ events' = <<>>
               /\ profile' = NewProfile
               /\ \A k \in Keys : receipts'[k].status # "persisted"
    BY <2>1, <2>2 DEF PurgeIsFinal, records
  <2>3. ASSUME NEW c \in Tabs, StudentStep(c) PROVE UNCHANGED <<records, receipts>>
    BY <2>1, <2>3 DEF StudentStep, StudentAsks, ResolveConflict, Forget, RecordAttempt, RecordVisit, SaveDraft,
       UploadImage, RemoveImage, Submit, DraftWritable, RecordWritable
  <2>4. ASSUME NEW c \in Desks, TeacherStep(c) PROVE UNCHANGED <<records, receipts>>
    BY <2>1, <2>4 DEF TeacherStep, TeacherAsks, Forget, SaveFeedback, Decide, ReserveAi,
       WriteNote, UnderReview, RecordReviewable
  <2>5. ASSUME NEW job \in jobs, CompleteAi(job) PROVE FALSE
    BY <2>1, <2>5 DEF CompleteAi, WriteNote, UnderReview, RecordReviewable
  <2>6. ASSUME NEW job \in jobs, FailAi(job)
        PROVE  /\ UNCHANGED records
               /\ \A k \in Keys : receipts'[k].status # "persisted"
    <3>1. \A k \in Keys : receipts[k].status # "persisted"
      BY <2>1 DEF PurgeIsFinal
    <3> QED
      BY <2>6, <3>1 DEF FailAi, WriteReceipt, TypeOK
  <2>7. ASSUME NEW job \in jobs, CrashAi(job) PROVE UNCHANGED <<records, receipts>>
    BY <2>7 DEF CrashAi
  <2>8. ASSUME ArchiveActivity \/ CloseRecords \/ UNCHANGED vars
        PROVE  UNCHANGED <<records, receipts>>
    BY <2>8 DEF ArchiveActivity, CloseRecords, vars
  <2>9. CASE \E job \in jobs : FailAi(job)
    BY <2>1, <2>6, <2>9 DEF PurgeIsFinal, records
  <2> QED
    BY <1>2, <2>2, <2>3, <2>4, <2>5, <2>7, <2>8, <2>9 DEF Next, JobStep
<1> QED
  BY <1>1, <1>2

\* A purged course holds no record of the student and no receipt of one, and no
\* request or generation that was under way writes any again.
THEOREM PurgeCorrect == Spec => []PurgeIsFinal
<1>1. Init => PurgeIsFinal
  BY DEF Init, PurgeIsFinal
<1> QED
  BY <1>1, TypeCorrect, PurgeStep, PTL DEF Spec

(***************************************************************************)
(* AI reservations                                                         *)
(***************************************************************************)
LEMMA ReservationStep ==
  GenerationHoldsReservation /\ TypeOK /\ [Next]_vars => GenerationHoldsReservation'
<1> SUFFICES ASSUME GenerationHoldsReservation, TypeOK, [Next]_vars
             PROVE  GenerationHoldsReservation'
  OBVIOUS
<1>1. ASSUME UNCHANGED <<receipts, jobs>> PROVE GenerationHoldsReservation'
  BY <1>1 DEF GenerationHoldsReservation, IsPending
\* A command with a key of its own writes a receipt no generation waits for.
<1>2. ASSUME NEW k \in Keys, NotYetApplied(k), NEW receipt, UNCHANGED jobs,
             receipts' = [receipts EXCEPT ![k] = receipt]
      PROVE  GenerationHoldsReservation'
  <2>1. \A job \in jobs : job.key # k
    BY <1>2 DEF GenerationHoldsReservation, IsPending, NotYetApplied, NoReceipt
  <2>2. \A job \in jobs : receipts'[job.key] = receipts[job.key]
    BY <1>2, <2>1 DEF TypeOK
  <2> QED
    BY <1>2, <2>2 DEF GenerationHoldsReservation, IsPending
<1>3. ASSUME NEW c \in Tabs, RecordAttempt(c) \/ RecordVisit(c) \/ Submit(c)
      PROVE  GenerationHoldsReservation'
  <2>1. calls[c].key \in Keys
    BY <1>3, RequestType DEF RecordAttempt, RecordVisit, Submit, Asks, Callers
  <2> QED
    BY <1>2, <1>3, <2>1 DEF RecordAttempt, RecordVisit, Submit, WriteReceipt
<1>4. ASSUME NEW c \in Desks, SaveFeedback(c) \/ Decide(c)
      PROVE  GenerationHoldsReservation'
  <2>1. calls[c].key \in Keys
    BY <1>4, RequestType DEF SaveFeedback, Decide, Asks, Callers
  <2> QED
    BY <1>2, <1>4, <2>1 DEF SaveFeedback, Decide, WriteReceipt
<1>5. ASSUME NEW c \in Desks, ReserveAi(c) PROVE GenerationHoldsReservation'
  <2> DEFINE k == calls[c].key
             new == [page |-> calls[c].page, key |-> k]
  <2>1. k \in Keys /\ NotYetApplied(k)
    BY <1>5, RequestType DEF ReserveAi, Asks, Callers
  <2>2. /\ jobs' = jobs \cup {new}
        /\ receipts' = [receipts EXCEPT ![k] = [scope |-> "ai-feedback", status |-> "pending"]]
    BY <1>5 DEF ReserveAi, WriteReceipt
  <2>3. \A job \in jobs : job.key # k
    BY <2>1 DEF GenerationHoldsReservation, IsPending, NotYetApplied, NoReceipt
  <2>4. /\ \A job \in jobs : receipts'[job.key] = receipts[job.key]
        /\ receipts'[k] = [scope |-> "ai-feedback", status |-> "pending"]
    BY <2>1, <2>2, <2>3 DEF TypeOK
  <2> QED
    BY <2>2, <2>3, <2>4 DEF GenerationHoldsReservation, IsPending
<1>6. ASSUME NEW job \in jobs, CompleteAi(job) \/ FailAi(job)
      PROVE  GenerationHoldsReservation'
  <2>1. \A other \in jobs \ {job} : other.key # job.key
    BY DEF GenerationHoldsReservation
  <2>2. /\ jobs' = jobs \ {job}
        /\ \/ UNCHANGED receipts
           \/ \E receipt : receipts' = [receipts EXCEPT ![job.key] = receipt]
    BY <1>6 DEF CompleteAi, FailAi, WriteReceipt
  <2>3. \A other \in jobs \ {job} : receipts'[other.key] = receipts[other.key]
    BY <2>1, <2>2 DEF TypeOK
  <2> QED
    BY <2>2, <2>3 DEF GenerationHoldsReservation, IsPending
<1>7. ASSUME NEW job \in jobs, CrashAi(job) PROVE GenerationHoldsReservation'
  BY <1>7 DEF CrashAi, GenerationHoldsReservation, IsPending
<1>8. ASSUME PurgeRecords PROVE GenerationHoldsReservation'
  <2>1. \A job \in jobs : receipts'[job.key] = receipts[job.key]
    BY <1>8 DEF PurgeRecords, GenerationHoldsReservation, IsPending, TypeOK
  <2> QED
    BY <1>8, <2>1 DEF PurgeRecords, GenerationHoldsReservation, IsPending
<1>9. ASSUME NEW c \in Tabs,
             \/ StudentAsks(c) \/ ResolveConflict(c) \/ Forget(c)
             \/ SaveDraft(c) \/ UploadImage(c) \/ RemoveImage(c)
      PROVE  UNCHANGED <<receipts, jobs>>
  BY <1>9 DEF StudentAsks, ResolveConflict, Forget, SaveDraft, UploadImage, RemoveImage
<1>10. ASSUME NEW c \in Desks, TeacherAsks(c) \/ Forget(c)
       PROVE  UNCHANGED <<receipts, jobs>>
  BY <1>10 DEF TeacherAsks, Forget
<1>11. ASSUME ArchiveActivity \/ CloseRecords \/ UNCHANGED vars
       PROVE  UNCHANGED <<receipts, jobs>>
  BY <1>11 DEF ArchiveActivity, CloseRecords, vars
<1> QED
  BY <1>1, <1>3, <1>4, <1>5, <1>6, <1>7, <1>8, <1>9, <1>10, <1>11
     DEF Next, StudentStep, TeacherStep, JobStep

\* Each generation under way owns one pending reservation, whatever is decided,
\* closed or purged while it runs.
THEOREM ReservationsCorrect == Spec => []GenerationHoldsReservation
<1>1. Init => GenerationHoldsReservation
  BY DEF Init, GenerationHoldsReservation
<1> QED
  BY <1>1, TypeCorrect, ReservationStep, PTL DEF Spec

(***************************************************************************)
(* The pages requests were built from                                      *)
(***************************************************************************)

\* What a step may do to a version: nothing, edit the open draft under the next
\* revision, or seal the open draft as it stands.
RowMoves(v) ==
  \/ versions'[v] = versions[v]
  \/ versions[v].status = "draft" /\ versions'[v].revision = versions[v].revision + 1
  \/ /\ versions[v].status = "draft" /\ versions'[v].status = "sealed"
     /\ versions'[v].revision = versions[v].revision
     /\ Shown(v)' = Shown(v)
VersionsMove == \A v \in 1..Latest : v \in 1..Latest' /\ RowMoves(v)

LEMMA DraftMoves ==
  ASSUME TypeOK, VersionsFollowState, submission.state = "draft", NEW row,
         versions' = [versions EXCEPT ![Latest] = row],
         \/ row.revision = Current.revision + 1
         \/ /\ row.status = "sealed" /\ row.revision = Current.revision
            /\ row.text = Current.text /\ row.images = Current.images
  PROVE  VersionsMove
<1>1. /\ Latest' = Latest /\ Latest \in Nat \ {0} /\ versions'[Latest] = row
      /\ \A v \in 1..Latest : v # Latest => versions'[v] = versions[v]
  BY ReplacedCurrent
<1>2. Latest \in 1..Latest
  BY <1>1, LastIndex, Zenon
<1>3. Current.status = "draft" /\ Current = versions[Latest]
  BY <1>2 DEF VersionsFollowState, Current
<1>4. RowMoves(Latest)
  BY <1>1, <1>3 DEF RowMoves, Shown
<1>5. \A v \in 1..Latest : v # Latest => RowMoves(v)
  BY <1>1 DEF RowMoves
<1> QED
  BY <1>1, <1>4, <1>5 DEF VersionsMove

LEMMA VersionsStep ==
  TypeOK /\ VersionsFollowState /\ [Next]_vars /\ retention' # "purged" => VersionsMove
<1> SUFFICES ASSUME TypeOK, VersionsFollowState, [Next]_vars, retention' # "purged"
             PROVE  VersionsMove
  OBVIOUS
<1>1. ASSUME UNCHANGED versions PROVE VersionsMove
  BY <1>1 DEF VersionsMove, RowMoves, Latest
<1>2. ASSUME NEW c \in Tabs, SaveDraft(c) PROVE VersionsMove
  <2>1. CASE submission.state = "absent"
    BY <2>1 DEF TypeOK, VersionsMove, Latest
  <2>2. CASE submission.state = "revision_requested"
    <3>1. versions' = Append(versions, NewVersion(calls[c].text, Current.images))
      BY <1>2, <2>2 DEF SaveDraft
    <3> QED
      BY <3>1 DEF TypeOK, VersionsMove, RowMoves, Latest
  <2>3. CASE submission.state = "draft"
    <3> DEFINE row == [Current EXCEPT !.text = calls[c].text, !.revision = NextRevision]
    <3>1. versions' = [versions EXCEPT ![Latest] = row]
      BY <1>2, <2>3 DEF SaveDraft
    <3>2. row.revision = Current.revision + 1
      BY <2>3, CurrentType DEF NextRevision, Versions
    <3> HIDE DEF row
    <3> QED
      BY <2>3, <3>1, <3>2, DraftMoves
  <2> QED
    BY <1>2, <2>1, <2>2, <2>3 DEF SaveDraft
<1>3. ASSUME NEW images, submission.state = "draft",
             versions' = [versions EXCEPT ![Latest] =
               [Current EXCEPT !.images = images, !.revision = NextRevision]]
      PROVE  VersionsMove
  <2> DEFINE row == [Current EXCEPT !.images = images, !.revision = NextRevision]
  <2>1. row.revision = Current.revision + 1
    BY <1>3, CurrentType DEF NextRevision, Versions
  <2>2. versions' = [versions EXCEPT ![Latest] = row]
    BY <1>3
  <2> HIDE DEF row
  <2> QED
    BY <1>3, <2>1, <2>2, DraftMoves
<1>4. ASSUME NEW c \in Tabs, UploadImage(c) PROVE VersionsMove
  BY <1>3, <1>4 DEF UploadImage, DraftWritable
<1>5. ASSUME NEW c \in Tabs, RemoveImage(c) PROVE VersionsMove
  BY <1>3, <1>5 DEF RemoveImage, DraftWritable
<1>6. ASSUME NEW c \in Tabs, Submit(c) PROVE VersionsMove
  <2> DEFINE row == [Current EXCEPT
                       !.status = "sealed",
                       !.evidence = [text |-> Current.text, images |-> Current.images]]
  <2>1. versions' = [versions EXCEPT ![Latest] = row] /\ submission.state = "draft"
    BY <1>6 DEF Submit, DraftWritable
  <2>2. /\ row.status = "sealed" /\ row.revision = Current.revision
        /\ row.text = Current.text /\ row.images = Current.images
    BY <2>1, CurrentType DEF Versions
  <2> HIDE DEF row
  <2> QED
    BY <2>1, <2>2, DraftMoves
<1>7. ASSUME PurgeRecords PROVE FALSE
  BY <1>7 DEF PurgeRecords
<1>8. ASSUME NEW c \in Tabs, StudentAsks(c) \/ ResolveConflict(c) \/ Forget(c) \/ RecordAttempt(c)
             \/ RecordVisit(c)
      PROVE  UNCHANGED versions
  BY <1>8 DEF StudentAsks, ResolveConflict, Forget, RecordAttempt, RecordVisit, records
<1>9. ASSUME NEW c \in Desks, TeacherStep(c) PROVE UNCHANGED versions
  BY <1>9 DEF TeacherStep, TeacherAsks, Forget, SaveFeedback, Decide, ReserveAi, records
<1>10. ASSUME NEW job \in jobs, JobStep(job) PROVE UNCHANGED versions
  BY <1>10 DEF JobStep, CompleteAi, FailAi, CrashAi, records
<1>11. ASSUME ArchiveActivity \/ CloseRecords \/ UNCHANGED vars PROVE UNCHANGED versions
  BY <1>11 DEF ArchiveActivity, CloseRecords, vars, records
<1> QED
  BY <1>1, <1>2, <1>4, <1>5, <1>6, <1>7, <1>8, <1>9, <1>10, <1>11 DEF Next, StudentStep

\* A step leaves an honest page honest: the revision it names is left behind by
\* whatever edit makes it untrue.
LEMMA PagesKept ==
  ASSUME TypeOK, TypeOK', VersionsMove, NEW page \in Pages
  PROVE  /\ StudentPageHolds(page) => StudentPageHolds(page)'
         /\ ReviewPageHolds(page) => ReviewPageHolds(page)'
<1>1. /\ page.version \in Nat /\ page.revision \in Nat
      /\ \A v \in 1..Latest : versions[v].revision \in Nat \ {0}
      /\ \A v \in 1..Latest' : versions'[v].revision \in Nat \ {0}
  <2>1. /\ \A v \in 1..Latest : versions[v] \in Versions
        /\ \A v \in 1..Latest' : versions'[v] \in Versions
    BY DEF TypeOK, Latest
  <2> QED
    BY <2>1 DEF Pages, Versions
<1>2. SeenOn(page)' = SeenOn(page)
  BY DEF SeenOn
<1>3. ASSUME StudentPageHolds(page), page.version # 0 PROVE StudentPageHolds(page)'
  <2> DEFINE v == page.version
  <2>1. /\ v \in 1..Latest /\ page.revision <= versions[v].revision
        /\ page.revision = 0 => Sealed(v) /\ page.text = versions[v].text
        /\ page.revision = versions[v].revision => Shows(page, v)
    BY <1>3 DEF StudentPageHolds, ShowsText
  <2>2. v \in 1..Latest' /\ RowMoves(v)
    BY <2>1 DEF VersionsMove
  <2>3. CASE versions'[v] = versions[v]
    BY <1>2, <2>1, <2>2, <2>3 DEF StudentPageHolds, Sealed, Shows, ShowsText, Shown
  <2>4. CASE versions[v].status = "draft" /\ versions'[v].revision = versions[v].revision + 1
    <3>1. page.revision # 0
      BY <2>1, <2>4 DEF Sealed
    <3>2. page.revision < versions'[v].revision
      BY <1>1, <2>1, <2>4
    <3> QED
      BY <1>1, <2>2, <3>1, <3>2 DEF StudentPageHolds
  <2>5. CASE /\ versions[v].status = "draft" /\ versions'[v].status = "sealed"
             /\ versions'[v].revision = versions[v].revision
             /\ Shown(v)' = Shown(v)
    <3>1. versions'[v].text = versions[v].text
      BY <2>5 DEF Shown
    <3>2. Shows(page, v) => Shows(page, v)'
      BY <1>2, <2>5, <3>1 DEF Shows, ShowsText
    <3> QED
      BY <2>1, <2>2, <2>5, <3>1, <3>2 DEF StudentPageHolds, ShowsText, Sealed
  <2> QED
    BY <2>2, <2>3, <2>4, <2>5 DEF RowMoves
<1>4. ASSUME ReviewPageHolds(page) PROVE ReviewPageHolds(page)'
  <2> DEFINE v == page.version
  <2>1. v \in 1..Latest' /\ versions'[v] = versions[v]
    BY <1>4 DEF ReviewPageHolds, Sealed, VersionsMove, RowMoves
  <2> QED
    BY <1>2, <1>4, <2>1 DEF ReviewPageHolds, Sealed
<1> QED
  BY <1>3, <1>4 DEF StudentPageHolds

\* The page a caller loads now is honest.
LEMMA StudentPageLoads ==
  ASSUME TypeOK, VersionsFollowState PROVE StudentPageHolds(Page)
<1>1. CASE versions = <<>>
  BY <1>1 DEF StudentPageHolds, Page
<1>2. CASE versions # <<>>
  <2>1. Latest \in Nat \ {0} /\ Current \in Versions /\ Current.revision \in Nat \ {0}
    BY <1>2, CurrentType
  <2>2. Latest \in 1..Latest
    BY <2>1, LastIndex, Zenon
  <2>3. /\ Page.version = Latest /\ Page.text = Current.text
        /\ Page.images = Current.images /\ Page.loaded
        /\ Page.revision = IF submission.state = "revision_requested" THEN 0
                           ELSE Current.revision
    BY <1>2 DEF Page
  <2>4. submission.state = "revision_requested" => Sealed(Latest)
    <3>1. submission.state = "revision_requested" => Current.status # "draft"
      BY <2>2 DEF VersionsFollowState, Current
    <3> QED
      BY <2>1, <2>2, <3>1 DEF Sealed, Versions, Current
  <2>5. Page.revision <= Current.revision /\ (Page.revision = 0 => Sealed(Latest))
    BY <2>1, <2>3, <2>4
  <2> QED
    BY <2>2, <2>3, <2>5 DEF StudentPageHolds, Shows, ShowsText, SeenOn, Shown, Current
<1> QED
  BY <1>1, <1>2

\* So is the page of a session that resolves a conflict.
LEMMA ConflictPageHolds ==
  ASSUME TypeOK, VersionsFollowState, NEW c \in Tabs, calls[c].op \in {"save", "submit"},
         StaleRevision(calls[c])
  PROVE  StudentPageHolds(AfterConflict(calls[c]))
<1> DEFINE op == calls[c].op
<1>1. /\ op \in {"save", "submit"}
      /\ submission.state \in {"draft", "revision_requested"}
      /\ submission.state = "revision_requested" => op = "save"
  BY DEF StaleRevision
<1>2. /\ versions # <<>> /\ Latest \in Nat \ {0}
      /\ Current \in Versions /\ Current.revision \in Nat \ {0}
  BY <1>1, CurrentType DEF TypeOK
<1>3. calls[c].page \in Pages
  BY RequestType DEF Callers
<1> DEFINE page == AfterConflict(calls[c])
<1>4. /\ page.version = Latest /\ page.text = ToldText(op) /\ ~page.loaded
      /\ page.revision = IF submission.state = "revision_requested" THEN 0
                         ELSE Current.revision
  BY <1>2, <1>3 DEF AfterConflict, Page, StaleRevision, NamesCurrent, Pages
<1>5. Latest \in 1..Latest
  BY <1>2, LastIndex, Zenon
<1>6. submission.state = "revision_requested" => Sealed(Latest)
  <2>1. submission.state = "revision_requested" => Current.status # "draft"
    BY <1>5 DEF VersionsFollowState, Current
  <2> QED
    BY <1>2, <1>5, <2>1 DEF Sealed, Versions, Current
<1> HIDE DEF page
<1>7. page.revision <= Current.revision /\ (page.revision = 0 => Sealed(Latest) /\ op = "save")
  BY <1>1, <1>2, <1>4, <1>6
<1>8. page.text = IF op = "save" THEN Current.text ELSE Untold
  BY <1>4 DEF ToldText
<1>9. StudentPageHolds(page)
  BY <1>1, <1>4, <1>5, <1>7, <1>8 DEF StudentPageHolds, Shows, ShowsText, Current
<1> QED
  BY <1>9 DEF page

LEMMA ReviewPageLoads ==
  ASSUME TypeOK, VersionsStory, submission.state \in Reviewable PROVE ReviewPageHolds(Page)
<1>1. Latest \in Nat \ {0} /\ Current \in Versions /\ versions # <<>>
  BY CurrentType DEF Reviewable, TypeOK
<1>2. Latest \in 1..Latest
  BY <1>1, LastIndex, Zenon
<1>3. Current.status # "draft"
  BY <1>2 DEF VersionsStory, VersionsFollowState, Current, Reviewable
<1>4. Sealed(Latest)
  BY <1>1, <1>2, <1>3 DEF Sealed, Versions, Current
<1>5. Page.version = Latest /\ SeenOn(Page) = Shown(Latest)
  BY <1>1 DEF Page, SeenOn, Shown, Current
<1> QED
  BY <1>2, <1>4, <1>5 DEF ReviewPageHolds, VersionsStory, SealedShowsEvidence, Sealed

\* No step reopens a purged course.
LEMMA PurgedStays == [Next]_vars /\ retention = "purged" => retention' = "purged"
  BY DEF Next, StudentStep, TeacherStep, JobStep, StudentAsks,
     ResolveConflict, Forget, RecordAttempt, RecordVisit, SaveDraft, UploadImage, RemoveImage, Submit,
     TeacherAsks, SaveFeedback, Decide, ReserveAi, CompleteAi, FailAi, CrashAi,
     ArchiveActivity, CloseRecords, PurgeRecords, vars

LEMMA PagesStep ==
  /\ TypeOK /\ TypeOK' /\ VersionsStory /\ PagesTellTruth /\ [Next]_vars
  => PagesTellTruth'
<1> SUFFICES ASSUME TypeOK, TypeOK', VersionsStory, PagesTellTruth, [Next]_vars,
                    retention' # "purged"
             PROVE  /\ \A c \in Tabs : \A p :
                         calls'[c] # Idle /\ p = calls'[c].page => StudentPageHolds(p)'
                    /\ \A c \in Desks : \A p :
                         calls'[c] # Idle /\ p = calls'[c].page => ReviewPageHolds(p)'
                    /\ \A job \in jobs' : \A p : p = job.page => ReviewPageHolds(p)'
  BY DEF PagesTellTruth, StudentPageHolds, ReviewPageHolds, Sealed, Shown, SeenOn, Latest,
         Shows, ShowsText
<1>1. VersionsMove /\ VersionsFollowState
  BY VersionsStep DEF VersionsStory
<1>2. /\ \A c \in Tabs : \A p : calls[c] # Idle /\ p = calls[c].page => StudentPageHolds(p)
      /\ \A c \in Desks : \A p : calls[c] # Idle /\ p = calls[c].page => ReviewPageHolds(p)
      /\ \A job \in jobs : \A p : p = job.page => ReviewPageHolds(p)
  BY PurgedStays DEF PagesTellTruth
<1>3. /\ \A c \in Callers : calls[c] # Idle => calls[c].page \in Pages
      /\ \A job \in jobs : job.page \in Pages
  <2>1. \A c \in Callers : calls[c] # Idle => calls[c] \in Requests
    BY DEF TypeOK
  <2>2. \A request \in Requests : request.page \in Pages
    BY DEF Requests
  <2> QED
    BY <2>1, <2>2 DEF TypeOK
<1>4. \A p \in Pages : /\ StudentPageHolds(p) => StudentPageHolds(p)'
                       /\ ReviewPageHolds(p) => ReviewPageHolds(p)'
  BY <1>1, PagesKept
\* Requests and generations that are there already stay honest.
<1>5. /\ \A c \in Tabs : \A p : calls[c] # Idle /\ p = calls[c].page => StudentPageHolds(p)'
      /\ \A c \in Desks : \A p : calls[c] # Idle /\ p = calls[c].page => ReviewPageHolds(p)'
      /\ \A job \in jobs : \A p : p = job.page => ReviewPageHolds(p)'
  BY <1>2, <1>3, <1>4 DEF Callers
<1>6. ASSUME NEW c \in Tabs, StudentAsks(c)
      PROVE  /\ calls'[c].page = Page /\ jobs' = jobs
             /\ \A other \in Callers : other # c => calls'[other] = calls[other]
  BY <1>6 DEF StudentAsks, TypeOK, Callers
<1>7. ASSUME NEW c \in Desks, TeacherAsks(c)
      PROVE  /\ calls'[c].page = Page /\ jobs' = jobs /\ submission.state \in Reviewable
             /\ \A other \in Callers : other # c => calls'[other] = calls[other]
  BY <1>7 DEF TeacherAsks, TypeOK, Callers
<1>8. \A p : p = Page => /\ p \in Pages /\ StudentPageHolds(p)
                         /\ submission.state \in Reviewable => ReviewPageHolds(p)
  BY <1>1, PageType, StudentPageLoads, ReviewPageLoads
<1>9. ASSUME NEW c \in Callers, Forget(c)
      PROVE  /\ jobs' = jobs
             /\ \A other \in Callers : calls'[other] \in {calls[other], Idle}
  BY <1>9 DEF Forget, TypeOK
<1>10. ASSUME NEW c \in Desks, ReserveAi(c)
       PROVE  /\ calls' = calls
              /\ \A job \in jobs' : job \in jobs \/ job.page = calls[c].page
              /\ calls[c] # Idle
  BY <1>10 DEF ReserveAi, Asks, Idle
<1>11. ASSUME NEW job \in jobs, JobStep(job) PROVE calls' = calls /\ jobs' \subseteq jobs
  BY <1>11 DEF JobStep, CompleteAi, FailAi, CrashAi
<1>12. ASSUME NEW c \in Tabs,
              \/ RecordAttempt(c) \/ RecordVisit(c) \/ SaveDraft(c)
              \/ UploadImage(c) \/ RemoveImage(c) \/ Submit(c)
       PROVE  UNCHANGED <<calls, jobs>>
  BY <1>12 DEF RecordAttempt, RecordVisit, SaveDraft, UploadImage, RemoveImage, Submit
<1>13. ASSUME NEW c \in Desks, SaveFeedback(c) \/ Decide(c) PROVE UNCHANGED <<calls, jobs>>
  BY <1>13 DEF SaveFeedback, Decide
<1>14. ASSUME ArchiveActivity \/ CloseRecords \/ PurgeRecords \/ UNCHANGED vars
       PROVE  UNCHANGED <<calls, jobs>>
  BY <1>14 DEF ArchiveActivity, CloseRecords, PurgeRecords, vars
<1>15. CASE UNCHANGED <<calls, jobs>>
  BY <1>5, <1>15
<1>21. ASSUME NEW c \in Tabs, ResolveConflict(c)
       PROVE  /\ calls'[c].page = AfterConflict(calls[c]) /\ jobs' = jobs
              /\ \A other \in Callers : other # c => calls'[other] = calls[other]
  BY <1>21 DEF ResolveConflict, TypeOK, Callers
<1>22. ASSUME NEW c \in Tabs, ResolveConflict(c)
       PROVE  \A p : p = AfterConflict(calls[c]) => p \in Pages /\ StudentPageHolds(p)
  BY <1>1, <1>22, ConflictPageType, ConflictPageHolds DEF ResolveConflict
<1>23. CASE \E c \in Tabs : ResolveConflict(c)
  BY <1>4, <1>5, <1>21, <1>22, <1>23, CallersAssumption DEF Callers
<1>16. CASE \E c \in Tabs : StudentAsks(c)
  BY <1>4, <1>5, <1>6, <1>8, <1>16, CallersAssumption DEF Callers
<1>17. CASE \E c \in Desks : TeacherAsks(c)
  BY <1>4, <1>5, <1>7, <1>8, <1>17, CallersAssumption DEF Callers
<1>18. CASE \E c \in Callers : Forget(c)
  BY <1>5, <1>9, <1>18 DEF Callers
<1>19. CASE \E c \in Desks : ReserveAi(c)
  BY <1>5, <1>10, <1>19
<1>20. CASE \E job \in jobs : JobStep(job)
  BY <1>5, <1>11, <1>20
<1> QED
  BY <1>12, <1>13, <1>14, <1>15, <1>16, <1>17, <1>18, <1>19, <1>20, <1>23
     DEF Next, StudentStep, TeacherStep, Callers

\* However late a request arrives, and whatever others did meanwhile, the page it
\* was built from names an older revision, or shows what that revision holds: text and
\* images as loaded, the text after a refused save, and after a refused submit the
\* text unless the page was told none.
THEOREM PagesCorrect == Spec => []PagesTellTruth
<1>1. Init => PagesTellTruth
  BY DEF Init, PagesTellTruth, Callers
<1>2. VersionsFollowState /\ SealedShowsEvidence => VersionsStory
  BY DEF VersionsStory
<1> QED
  BY <1>1, <1>2, TypeCorrect, VersionsCorrect, PagesStep, PTL DEF Spec

(***************************************************************************)
(* What is overwritten, and what a revision starts from                    *)
(***************************************************************************)
AuthorsSaw ==
  \A v \in (DOMAIN versions) \cap (DOMAIN versions') :
    versions'[v] # versions[v] =>
      \E c \in Tabs :
        /\ calls[c] # Idle
        /\ calls[c].page.version = v
        /\ Shows(calls[c].page, v)
RevisionsBuild ==
  (Latest > 0 /\ Len(versions') > Latest) =>
    /\ \E c \in Tabs :
         /\ calls[c] # Idle
         /\ calls[c].page.version = Latest
         /\ calls[c].page.text = Current.evidence.text
    /\ versions'[Latest + 1].images = Current.images

Authors == AuthorsSaw /\ RevisionsBuild

\* A session that replaces the open draft shows it, at the revision it has now.
LEMMA DraftReplacedByReader ==
  ASSUME TypeOK, PagesTellTruth, retention = "open", submission.state = "draft",
         NEW c \in Tabs, calls[c] # Idle, NamesCurrent(calls[c].page),
         calls[c].page.revision = Current.revision,
         NEW row, versions' = [versions EXCEPT ![Latest] = row]
  PROVE  Authors
<1>1. /\ Latest' = Latest /\ Latest \in Nat \ {0}
      /\ \A v \in 1..Latest : v # Latest => versions'[v] = versions[v]
  BY ReplacedCurrent
<1>2. calls[c].page.version = Latest /\ Shows(calls[c].page, Latest)
  BY <1>1 DEF PagesTellTruth, StudentPageHolds, NamesCurrent, Current
<1>3. DOMAIN versions = 1..Latest
  BY DEF TypeOK, Latest
<1>4. AuthorsSaw
  BY <1>1, <1>2, <1>3 DEF AuthorsSaw
<1>5. RevisionsBuild
  <2>1. Len(versions') = Latest
    BY <1>1 DEF Latest
  <2> QED
    BY <1>1, <2>1 DEF RevisionsBuild
<1> QED
  BY <1>4, <1>5 DEF Authors

LEMMA AuthorsStep ==
  TypeOK /\ VersionsStory /\ PagesTellTruth /\ [Next]_vars => Authors
<1> SUFFICES ASSUME TypeOK, VersionsStory, PagesTellTruth, [Next]_vars
             PROVE  Authors
  OBVIOUS
<1>1. ASSUME UNCHANGED versions PROVE Authors
  <2>1. Len(versions') = Latest /\ Latest \in Nat
    BY <1>1 DEF Latest, TypeOK
  <2> QED
    BY <1>1, <2>1 DEF Authors, AuthorsSaw, RevisionsBuild
<1>2. ASSUME NEW c \in Tabs, SaveDraft(c) PROVE Authors
  <2>1. /\ calls[c] # Idle /\ retention = "open" /\ NamesCurrent(calls[c].page)
    BY <1>2 DEF SaveDraft, Asks, Idle, RecordWritable
  <2>2. CASE submission.state = "absent"
    <3>1. Latest = 0 /\ DOMAIN versions = {}
      BY <2>2 DEF TypeOK, Latest
    <3> QED
      BY <3>1 DEF Authors, AuthorsSaw, RevisionsBuild
  <2>3. CASE submission.state = "revision_requested"
    <3> DEFINE row == NewVersion(calls[c].text, Current.images)
    <3>1. versions' = Append(versions, row) /\ calls[c].page.revision = 0
      BY <1>2, <2>3 DEF SaveDraft
    <3>2. row.images = Current.images
      BY DEF NewVersion
    <3> HIDE DEF row
    <3>3. Latest \in Nat \ {0}
      BY <2>3, CurrentType
    <3>4. /\ DOMAIN versions = 1..Latest /\ versions'[Latest + 1] = row
          /\ \A v \in 1..Latest : versions'[v] = versions[v]
      BY <3>1 DEF TypeOK, Latest
    <3>5. /\ calls[c].page.version = Latest /\ Sealed(Latest)
          /\ calls[c].page.text = versions[Latest].text
      BY <2>1, <3>1, <3>3 DEF PagesTellTruth, StudentPageHolds, ShowsText, NamesCurrent
    <3>6. versions[Latest].text = Current.evidence.text
      <4>1. versions[Latest].evidence = Shown(Latest)
        BY <3>5 DEF VersionsStory, SealedShowsEvidence, Sealed
      <4> QED
        BY <4>1 DEF Shown, Current
    <3> QED
      BY <2>1, <3>2, <3>4, <3>5, <3>6 DEF Authors, AuthorsSaw, RevisionsBuild
  <2>4. CASE submission.state = "draft"
    <3>1. /\ calls[c].page.revision = Current.revision
          /\ versions' = [versions EXCEPT ![Latest] =
               [Current EXCEPT !.text = calls[c].text, !.revision = NextRevision]]
      BY <1>2, <2>4 DEF SaveDraft
    <3> QED
      BY <2>1, <2>4, <3>1, DraftReplacedByReader
  <2> QED
    BY <1>2, <2>2, <2>3, <2>4 DEF SaveDraft
<1>3. ASSUME NEW c \in Tabs, UploadImage(c) \/ RemoveImage(c) \/ Submit(c)
      PROVE  Authors
  <2>1. /\ calls[c] # Idle /\ retention = "open" /\ NamesCurrent(calls[c].page)
        /\ submission.state = "draft" /\ calls[c].page.revision = Current.revision
    BY <1>3 DEF UploadImage, RemoveImage, Submit, Asks, Idle, DraftWritable, RecordWritable
  <2>2. \E row : versions' = [versions EXCEPT ![Latest] = row]
    BY <1>3 DEF UploadImage, RemoveImage, Submit
  <2> QED
    BY <2>1, <2>2, DraftReplacedByReader
<1>4. ASSUME PurgeRecords PROVE Authors
  <2>1. versions' = <<>> /\ Latest \in Nat
    BY <1>4 DEF PurgeRecords, Latest, TypeOK
  <2> QED
    BY <2>1 DEF Authors, AuthorsSaw, RevisionsBuild
<1>5. ASSUME NEW c \in Tabs, StudentAsks(c) \/ ResolveConflict(c) \/ Forget(c) \/ RecordAttempt(c)
             \/ RecordVisit(c)
      PROVE  UNCHANGED versions
  BY <1>5 DEF StudentAsks, ResolveConflict, Forget, RecordAttempt, RecordVisit, records
<1>6. ASSUME NEW c \in Desks, TeacherStep(c) PROVE UNCHANGED versions
  BY <1>6 DEF TeacherStep, TeacherAsks, Forget, SaveFeedback, Decide, ReserveAi, records
<1>7. ASSUME NEW job \in jobs, JobStep(job) PROVE UNCHANGED versions
  BY <1>7 DEF JobStep, CompleteAi, FailAi, CrashAi, records
<1>8. ASSUME ArchiveActivity \/ CloseRecords \/ UNCHANGED vars PROVE UNCHANGED versions
  BY <1>8 DEF ArchiveActivity, CloseRecords, vars, records
<1> QED
  BY <1>1, <1>2, <1>3, <1>4, <1>5, <1>6, <1>7, <1>8 DEF Next, StudentStep

LEMMA AuthorsAlways == Spec => [][Authors]_vars
<1>1. VersionsFollowState /\ SealedShowsEvidence => VersionsStory
  BY DEF VersionsStory
<1>2. TypeOK /\ VersionsStory /\ PagesTellTruth /\ [Next]_vars => [Authors]_vars
  BY AuthorsStep
<1> QED
  BY <1>1, <1>2, TypeCorrect, VersionsCorrect, PagesCorrect, PTL DEF Spec

\* No session overwrites or submits what it was not shown, save the text that a refused
\* submit keeps from it.
THEOREM ChangesAreRead == Spec => ChangedByReader
<1>1. [Authors]_vars => [AuthorsSaw]_vars
  BY DEF Authors
<1>2. Spec => [][AuthorsSaw]_vars
  BY <1>1, AuthorsAlways, PTL
<1> QED
  BY <1>2 DEF ChangedByReader, AuthorsSaw

\* A revision is opened by a session that has read the evidence that was decided,
\* and keeps its images.
THEOREM RevisionsFollow == Spec => RevisionBuildsOnLast
<1>1. [Authors]_vars => [RevisionsBuild]_vars
  BY DEF Authors
<1>2. Spec => [][RevisionsBuild]_vars
  BY <1>1, AuthorsAlways, PTL
<1> QED
  BY <1>2 DEF RevisionBuildsOnLast, RevisionsBuild

(***************************************************************************)
(* Feedback and the evidence it is about                                   *)
(***************************************************************************)

\* FeedbackBoundToEvidence is not inductive: a draft of feedback stays true only
\* because the version it is for is sealed by then.
NotesOnSealed == \A v \in 1..Latest : notes[v].revision > 0 => Sealed(v)
FeedbackStory == FeedbackBoundToEvidence /\ NotesOnSealed

\* A command of the teacher or a generation that names the current version knows
\* its evidence.
LEMMA ReaderKnowsEvidence ==
  ASSUME NEW page, ReviewPageHolds(page), NamesCurrent(page)
  PROVE  /\ Sealed(Latest) /\ SeenOn(page) = versions[Latest].evidence
         /\ GeneratorSees(page) = [text |-> versions[Latest].evidence.text]
BY DEF ReviewPageHolds, NamesCurrent, SeenOn, GeneratorSees

LEMMA NoteKeepsStory ==
  ASSUME TypeOK, FeedbackStory, NEW page, ReviewPageHolds(page),
         NEW seen \in {SeenOn(page), GeneratorSees(page)}, WriteNote(page, seen),
         UNCHANGED <<versions, released>>
  PROVE  FeedbackStory'
<1>1. /\ Sealed(Latest)
      /\ \/ seen = versions[Latest].evidence
         \/ seen = [text |-> versions[Latest].evidence.text]
  BY ReaderKnowsEvidence DEF WriteNote, UnderReview
<1> DEFINE note == [revision |-> notes[Latest].revision + 1, seen |-> seen]
<1>2. notes' = [notes EXCEPT ![Latest] = note] /\ Latest' = Latest
  BY DEF WriteNote, Latest
<1>3. /\ \A v \in 1..Latest : v # Latest => notes'[v] = notes[v]
      /\ Latest \in 1..Latest => notes'[Latest] = note
  BY <1>2 DEF TypeOK, Latest
<1>4. \/ note.seen = versions[Latest].evidence
      \/ note.seen = [text |-> versions[Latest].evidence.text]
  BY <1>1
<1> HIDE DEF note
<1>5. NotesOnSealed'
  BY <1>1, <1>2, <1>3 DEF FeedbackStory, NotesOnSealed, Sealed
<1>6. \A v \in 1..Latest : notes'[v].revision > 0 =>
        \/ notes'[v].seen = versions[v].evidence
        \/ notes'[v].seen = [text |-> versions[v].evidence.text]
  BY <1>3, <1>4 DEF FeedbackStory, FeedbackBoundToEvidence
<1>7. \A i \in DOMAIN released :
        LET v == released[i].version IN Sealed(v)' /\ released[i].seen = versions[v].evidence
  BY <1>2 DEF FeedbackStory, FeedbackBoundToEvidence, Sealed
<1> QED
  BY <1>2, <1>5, <1>6, <1>7 DEF FeedbackStory, FeedbackBoundToEvidence

LEMMA FeedbackStep ==
  TypeOK /\ VersionsStory /\ PagesTellTruth /\ FeedbackStory /\ [Next]_vars => FeedbackStory'
<1> SUFFICES ASSUME TypeOK, VersionsStory, PagesTellTruth, FeedbackStory, [Next]_vars
             PROVE  FeedbackStory'
  OBVIOUS
<1>1. ASSUME UNCHANGED <<versions, notes, released>> PROVE FeedbackStory'
  BY <1>1 DEF FeedbackStory, FeedbackBoundToEvidence, NotesOnSealed, Sealed, Latest
\* Editing or sealing the open draft, or opening another, leaves sealed versions.
<1>2. ASSUME VersionsMove, UNCHANGED released,
             \A v \in 1..Latest' : IF v \in 1..Latest THEN notes'[v] = notes[v]
                                   ELSE notes'[v].revision = 0
      PROVE  FeedbackStory'
  <2>1. \A v \in 1..Latest : Sealed(v) => Sealed(v)' /\ versions'[v] = versions[v]
    BY <1>2 DEF VersionsMove, RowMoves, Sealed
  <2>2. \A v : Sealed(v) => v \in 1..Latest
    BY DEF Sealed
  <2>3. \A v \in 1..Latest' : notes'[v].revision > 0 =>
          /\ Sealed(v)'
          /\ \/ notes'[v].seen = versions'[v].evidence
             \/ notes'[v].seen = [text |-> versions'[v].evidence.text]
    BY <1>2, <2>1 DEF FeedbackStory, FeedbackBoundToEvidence, NotesOnSealed
  <2>4. \A i \in DOMAIN released :
          LET v == released[i].version
          IN  v \in 1..Latest' /\ versions'[v].status = "sealed"
              /\ released[i].seen = versions'[v].evidence
    <3>1. \A v : Sealed(v) => /\ v \in 1..Latest' /\ versions'[v].status = "sealed"
                              /\ versions'[v] = versions[v]
      BY <2>1, <2>2 DEF Sealed
    <3> QED
      BY <3>1 DEF FeedbackStory, FeedbackBoundToEvidence
  <2> QED
    BY <1>2, <2>3, <2>4 DEF FeedbackStory, FeedbackBoundToEvidence, NotesOnSealed, Sealed
<1>3. ASSUME NEW c \in Tabs, SaveDraft(c) PROVE FeedbackStory'
  <2>1. VersionsMove
    BY <1>3, VersionsStep
       DEF SaveDraft, RecordWritable, Next, StudentStep, VersionsStory
  <2>2. \A v \in 1..Latest' : IF v \in 1..Latest THEN notes'[v] = notes[v]
                              ELSE notes'[v].revision = 0
    <3>1. CASE submission.state = "absent"
      <4>1. notes' = <<NewNote>> /\ versions' = <<NewVersion(calls[c].text, {})>>
        BY <1>3, <3>1 DEF SaveDraft
      <4>2. Latest = 0 /\ Latest' = 1 /\ notes'[1].revision = 0
        BY <3>1, <4>1 DEF TypeOK, Latest, NewNote
      <4> QED
        BY <4>2
    <3>2. CASE submission.state = "revision_requested"
      <4>1. /\ notes' = Append(notes, NewNote)
            /\ versions' = Append(versions, NewVersion(calls[c].text, Current.images))
        BY <1>3, <3>2 DEF SaveDraft
      <4> QED
        BY <4>1 DEF TypeOK, Latest, NewNote
    <3>3. CASE submission.state = "draft"
      <4>1. /\ notes' = notes
            /\ versions' = [versions EXCEPT ![Latest] =
                 [Current EXCEPT !.text = calls[c].text, !.revision = NextRevision]]
        BY <1>3, <3>3 DEF SaveDraft
      <4>2. Latest' = Latest
        BY <3>3, <4>1, ReplacedCurrent
      <4> QED
        BY <4>1, <4>2
    <3> QED
      BY <1>3, <3>1, <3>2, <3>3 DEF SaveDraft
  <2> QED
    BY <1>2, <1>3, <2>1, <2>2 DEF SaveDraft
<1>4. ASSUME NEW c \in Tabs, UploadImage(c) \/ RemoveImage(c) \/ Submit(c)
      PROVE  FeedbackStory'
  <2>1. VersionsMove
    BY <1>4, VersionsStep
       DEF UploadImage, RemoveImage, Submit, DraftWritable, RecordWritable, VersionsStory
  <2>2. /\ \E row : versions' = [versions EXCEPT ![Latest] = row]
        /\ submission.state = "draft" /\ UNCHANGED <<notes, released>>
    BY <1>4 DEF UploadImage, RemoveImage, Submit, DraftWritable
  <2>3. Latest' = Latest
    BY <2>2, ReplacedCurrent
  <2> QED
    BY <1>2, <2>1, <2>2, <2>3
<1>5. ASSUME NEW c \in Desks, SaveFeedback(c) PROVE FeedbackStory'
  <2>1. ReviewPageHolds(calls[c].page) /\ calls[c].page \in Pages
    BY <1>5, RequestType
       DEF SaveFeedback, Asks, Idle, WriteNote, UnderReview, RecordReviewable,
           PagesTellTruth, Callers
  <2> QED
    BY <1>5, <2>1, NoteKeepsStory DEF SaveFeedback
<1>6. ASSUME NEW job \in jobs, CompleteAi(job) PROVE FeedbackStory'
  <2>1. ReviewPageHolds(job.page) /\ job.page \in Pages
    BY <1>6 DEF CompleteAi, WriteNote, UnderReview, RecordReviewable, PagesTellTruth, TypeOK
  <2> QED
    BY <1>6, <2>1, NoteKeepsStory DEF CompleteAi
<1>7. ASSUME NEW c \in Desks, Decide(c) PROVE FeedbackStory'
  <2> DEFINE page == calls[c].page
             new == [version |-> Latest, status |-> "released",
                     verdict |-> calls[c].verdict, seen |-> SeenOn(page)]
  <2>1. ReviewPageHolds(page) /\ NamesCurrent(page)
    BY <1>7 DEF Decide, Asks, Idle, UnderReview, RecordReviewable, PagesTellTruth
  <2>2. new.version = Latest /\ Sealed(Latest) /\ new.seen = versions[Latest].evidence
    BY <2>1, ReaderKnowsEvidence
  <2>3. /\ DOMAIN Supersede(page) = DOMAIN released
        /\ \A i \in DOMAIN released :
             /\ Supersede(page)[i].version = released[i].version
             /\ Supersede(page)[i].seen = released[i].seen
    <3>1. \A i \in DOMAIN released : released[i] \in Releases
      BY DEF TypeOK
    <3> QED
      BY <3>1 DEF Supersede, Releases
  <2>4. Supersede(page) \in Seq(Releases) /\ Len(Supersede(page)) = Len(released)
    <3>1. \A i \in DOMAIN released : Supersede(page)[i] \in Releases
      <4>1. \A i \in DOMAIN released : released[i] \in Releases
        BY DEF TypeOK
      <4> QED
        BY <4>1 DEF Supersede, Releases
    <3>2. DOMAIN Supersede(page) = 1..Len(released) /\ Len(released) \in Nat
      BY <2>3 DEF TypeOK
    <3>3. Supersede(page) \in [1..Len(released) -> Releases]
      BY <3>1, <3>2 DEF Supersede, TypeOK
    <3> QED
      BY <3>2, <3>3
  <2>5. released' = Append(Supersede(page), new) /\ UNCHANGED <<versions, notes>>
    BY <1>7 DEF Decide
  <2> HIDE DEF page, new
  <2>6. /\ DOMAIN released' = 1..(Len(released) + 1)
        /\ released'[Len(released) + 1] = new
        /\ \A i \in 1..Len(released) : released'[i] = Supersede(page)[i]
    BY <2>4, <2>5
  <2>7. \A i \in DOMAIN released' :
          LET v == released'[i].version
          IN  Sealed(v) /\ released'[i].seen = versions[v].evidence
    <3>1. ASSUME NEW i \in 1..Len(released)
          PROVE  LET v == released'[i].version
                 IN  Sealed(v) /\ released'[i].seen = versions[v].evidence
      <4>1. /\ i \in DOMAIN released
            /\ released'[i].version = released[i].version
            /\ released'[i].seen = released[i].seen
        BY <2>3, <2>6 DEF TypeOK
      <4> QED
        BY <4>1 DEF FeedbackStory, FeedbackBoundToEvidence
    <3>2. \A i \in DOMAIN released' : i \in 1..Len(released) \/ i = Len(released) + 1
      BY <2>6 DEF TypeOK
    <3> QED
      BY <2>2, <2>6, <3>1, <3>2
  <2>8. NotesOnSealed' /\ \A v \in 1..Latest : notes[v].revision > 0 =>
                            \/ notes[v].seen = versions[v].evidence
                            \/ notes[v].seen = [text |-> versions[v].evidence.text]
    BY <2>5 DEF FeedbackStory, FeedbackBoundToEvidence, NotesOnSealed, Sealed, Latest
  <2> QED
    BY <2>5, <2>7, <2>8 DEF FeedbackStory, FeedbackBoundToEvidence, Sealed, Latest
<1>8. ASSUME PurgeRecords PROVE FeedbackStory'
  BY <1>8 DEF PurgeRecords, FeedbackStory, FeedbackBoundToEvidence, NotesOnSealed, Latest
<1>9. ASSUME NEW c \in Tabs, StudentAsks(c) \/ ResolveConflict(c) \/ Forget(c) \/ RecordAttempt(c)
             \/ RecordVisit(c)
      PROVE  UNCHANGED <<versions, notes, released>>
  BY <1>9 DEF StudentAsks, ResolveConflict, Forget, RecordAttempt, RecordVisit, records
<1>10. ASSUME NEW c \in Desks, TeacherAsks(c) \/ Forget(c) \/ ReserveAi(c)
       PROVE  UNCHANGED <<versions, notes, released>>
  BY <1>10 DEF TeacherAsks, Forget, ReserveAi, records
<1>11. ASSUME NEW job \in jobs, FailAi(job) \/ CrashAi(job)
       PROVE  UNCHANGED <<versions, notes, released>>
  BY <1>11 DEF FailAi, CrashAi, records
<1>12. ASSUME ArchiveActivity \/ CloseRecords \/ UNCHANGED vars
       PROVE  UNCHANGED <<versions, notes, released>>
  BY <1>12 DEF ArchiveActivity, CloseRecords, vars, records
<1> QED
  BY <1>1, <1>3, <1>4, <1>5, <1>6, <1>7, <1>8, <1>9, <1>10, <1>11, <1>12
     DEF Next, StudentStep, TeacherStep, JobStep

\* Released feedback is about the sealed evidence its author had seen; a draft of
\* feedback too, or about its text when a generator wrote it.
THEOREM FeedbackCorrect == Spec => []FeedbackBoundToEvidence
<1>1. Init => FeedbackStory
  BY DEF Init, FeedbackStory, FeedbackBoundToEvidence, NotesOnSealed, Latest
<1>2. VersionsFollowState /\ SealedShowsEvidence => VersionsStory
  BY DEF VersionsStory
<1>3. FeedbackStory => FeedbackBoundToEvidence
  BY DEF FeedbackStory
<1> QED
  BY <1>1, <1>2, <1>3, TypeCorrect, VersionsCorrect, PagesCorrect, FeedbackStep, PTL DEF Spec
=============================================================================
