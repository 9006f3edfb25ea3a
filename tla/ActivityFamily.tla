---------------------------- MODULE ActivityFamily ----------------------------
(***************************************************************************)
(* The versions of one learning activity (the rows of uais_assessments     *)
(* with one lesson and activity_key) and the commands that make, publish,  *)
(* edit and archive them: createActivity and updateActivity of             *)
(* learning-loop/postgres-store.ts, and the lesson publisher of            *)
(* classroom-lessons/store.ts, which adds a version of its own.            *)
(*                                                                         *)
(* Each command is one transaction at READ COMMITTED.  A statement reads   *)
(* what is committed when it starts and waits for the locks it needs, so a *)
(* command is a step per lock or statement whose order others can see; its *)
(* writes appear when it ends.  A command that needs a single lock is one  *)
(* step.  The database breaks a cycle of waiting transactions by aborting  *)
(* one of them.  Receipts and the closing of a course's records are        *)
(* modelled elsewhere and left out here.                                   *)
(***************************************************************************)
EXTENDS Integers, FiniteSets, Sequences

CONSTANTS
  Editors,       \* updateActivity requests, each sent once from its own page
  Publishers,    \* requests to publish the lesson
  Savers         \* requests to save the lesson's draft

Requests == Editors \cup Publishers \cup Savers

ASSUME RequestsAssumption ==
  /\ Editors \cap Publishers = {} /\ Editors \cap Savers = {} /\ Publishers \cap Savers = {}
  /\ IsFiniteSet(Editors) /\ IsFiniteSet(Publishers)
  /\ "nobody" \notin Requests  \* see Nobody

VARIABLES
  lessonTask,    \* whether the family is a lesson's task or stands alone
  rows,          \* the committed rows of the family, by version
  lesson,        \* draft_revision and draft_package of the lesson
  lessonVersions,\* the packages of uais_lesson_versions, by version_no
  owner,         \* which request holds each lock
  at,            \* how far each request is
  page,          \* what its page showed when the command was given
  todo,          \* published siblings a publish has found and not yet archived
  taken,         \* siblings it has locked in order to archive them
  next           \* the sibling it waits for, or the version number allocated

vars == <<lessonTask, rows, lesson, lessonVersions, owner, at, page, todo, taken, next>>
waits == <<todo, taken, next>>
-----------------------------------------------------------------------------
MaxVersion == 1 + Cardinality(Editors) + Cardinality(Publishers)
Versions == 1..MaxVersion
Nobody == "nobody"
First == "first"
NoPage == [op |-> "none", version |-> 0, rev |-> 0, text |-> First, due |-> First, live |-> {}]

\* Row locks, the advisory lock of the family and the row of the lesson.
Family == <<"family">>
Lesson == <<"lesson">>
Row(v) == <<"row", v>>
Locks == {Family, Lesson} \cup {Row(v) : v \in Versions}

Stages == {"idle", "sent", "row", "siblings", "lesson", "family",
           "allocated", "done", "refused", "aborted"}
Texts == Requests \cup {First}
Operations == {"save", "publish", "archive", "adjust-due-date", "create-version"}
Rows == [status: {"draft", "published", "archived"}, rev: Nat \ {0}, text: Texts, due: Texts]
Pages == [op: Operations \cup {"lesson"}, version: 0..MaxVersion, rev: Nat,
          text: Texts, due: Texts, live: SUBSET Versions]

TypeOK ==
  /\ lessonTask \in BOOLEAN
  /\ DOMAIN rows \subseteq Versions
  /\ \A v \in DOMAIN rows : rows[v] \in Rows
  /\ lesson.rev \in Nat /\ lesson.text \in Texts
  /\ lessonVersions \in Seq(Texts)
  /\ owner \in [Locks -> Requests \cup {Nobody}]
  /\ at \in [Requests -> Stages]
  /\ page \in [Requests -> Pages \cup {NoPage}]
  /\ todo \in [Requests -> SUBSET Versions]
  /\ taken \in [Requests -> SUBSET Versions]
  /\ next \in [Requests -> 0..MaxVersion]

Init ==
  /\ lessonTask \in BOOLEAN
  /\ rows = [v \in {} |-> First]
  /\ lesson = [rev |-> 1, text |-> First]
  /\ lessonVersions = <<>>
  /\ owner = [l \in Locks |-> Nobody]
  /\ at = [c \in Requests |-> "idle"]
  /\ page = [c \in Requests |-> NoPage]
  /\ todo = [c \in Requests |-> {}]
  /\ taken = [c \in Requests |-> {}]
  /\ next = [c \in Requests |-> 0]

Live == {v \in DOMAIN rows : rows[v].status = "published"}
Drafts == {v \in DOMAIN rows : rows[v].status = "draft"}
HighestVersion ==
  IF DOMAIN rows = {} THEN 0
  ELSE CHOOSE v \in DOMAIN rows : \A w \in DOMAIN rows : w <= v

\* Mutant: the next version without the step past the last.
LastVersion == HighestVersion

NextVersion == HighestVersion + 1
WithRow(v, row) == [w \in DOMAIN rows \cup {v} |-> IF w = v THEN row ELSE rows[w]]
-----------------------------------------------------------------------------
(* Locks *)

\* Mutant: publish locks the family too, as create-version does.
NeedsWithFamilyAtPublish(c) ==
  CASE at[c] = "sent" ->
         IF page[c].op = "lesson" THEN {Lesson} ELSE {Row(page[c].version)}
    [] at[c] \in {"row", "lesson"} -> {Family}
    [] at[c] = "siblings" -> IF next[c] = 0 THEN {} ELSE {Row(next[c])}
    [] at[c] = "allocated" -> IF page[c].op = "create-version" THEN {Lesson} ELSE {}
    [] OTHER -> {}

\* What the next statement of a request waits for.
Needs(c) ==
  CASE at[c] = "sent" ->
         IF page[c].op = "lesson" THEN {Lesson} ELSE {Row(page[c].version)}
    [] at[c] = "row" ->
         IF page[c].op = "create-version" THEN {Family} ELSE {}
    [] at[c] = "siblings" -> IF next[c] = 0 THEN {} ELSE {Row(next[c])}
    [] at[c] = "lesson" -> {Family}
    [] at[c] = "allocated" ->
         \* the foreign key of the new row shares the row of the lesson
         IF page[c].op = "create-version" THEN {Lesson} ELSE {}
    [] OTHER -> {}

Blockers(c) == {owner[l] : l \in Needs(c)} \ {c, Nobody}
Unblocked(c) == Blockers(c) = {}
Acquire(c) == owner' = [l \in Locks |-> IF l \in Needs(c) THEN c ELSE owner[l]]

\* Mutant: the family lock is taken for the session, not for the transaction.
ReleaseRowsOnly(c) ==
  owner' = [l \in Locks |-> IF owner[l] = c /\ l # Family THEN Nobody ELSE owner[l]]

\* The locks of a transaction, advisory ones included, end with it.
Release(c) == owner' = [l \in Locks |-> IF owner[l] = c THEN Nobody ELSE owner[l]]

Ends(c, outcome) ==
  /\ at' = [at EXCEPT ![c] = outcome]
  /\ Release(c)

WaitCycle(c) ==
  Blockers(c) # {} /\ \E S \in SUBSET Requests :
    c \in S /\ \A d \in S : Blockers(d) \cap S # {}

\* Deadlock detection aborts a transaction of the cycle; its route answers 500.
AbortVictim(c) ==
  /\ WaitCycle(c)
  /\ Ends(c, "aborted")
  /\ UNCHANGED <<lessonTask, rows, lesson, lessonVersions, page, waits>>
-----------------------------------------------------------------------------
(* Pages and the commands given on them *)

\* createActivity: the activity_key of a family that stands alone is the id
\* of its first row.
CreateActivity ==
  /\ ~lessonTask /\ DOMAIN rows = {}
  /\ rows' = WithRow(1, [status |-> "draft", rev |-> 1, text |-> First, due |-> First])
  /\ UNCHANGED <<lessonTask, lesson, lessonVersions, owner, at, page, waits>>

Open(c, shown) ==
  /\ at[c] = "idle"
  /\ page' = [page EXCEPT ![c] = shown]
  /\ at' = [at EXCEPT ![c] = "sent"]
  /\ UNCHANGED <<lessonTask, rows, lesson, lessonVersions, owner, waits>>

OpenActivity(c, v, op) ==
  /\ v \in DOMAIN rows
  /\ Open(c, [op |-> op, version |-> v, rev |-> rows[v].rev, text |-> rows[v].text,
              due |-> rows[v].due, live |-> Live])

OpenLesson(c) ==
  /\ lessonTask
  /\ Open(c, [op |-> "lesson", version |-> 0, rev |-> lesson.rev,
              text |-> lesson.text, due |-> First, live |-> Live])
-----------------------------------------------------------------------------
(* updateActivity *)

Target(c) == rows[page[c].version]

\* The revision the page showed, and the state each operation asks for.
Accepted(c) ==
  /\ Target(c).rev = page[c].rev
  /\ CASE page[c].op \in {"publish", "save"} -> Target(c).status = "draft"
       [] page[c].op \in {"archive", "create-version"} -> Target(c).status = "published"
       [] page[c].op = "adjust-due-date" -> Target(c).status # "archived"

Revised(c, row) == [row EXCEPT !.rev = @ + 1]

RefuseEdit(c) ==
  /\ at[c] = "sent" /\ Unblocked(c) /\ ~Accepted(c)
  /\ Ends(c, "refused")
  /\ UNCHANGED <<lessonTask, rows, lesson, lessonVersions, page, waits>>

\* save, archive and adjust-due-date touch the one row they lock.
EditRow(c) ==
  /\ at[c] = "sent" /\ Unblocked(c) /\ Accepted(c)
  /\ page[c].op \in {"save", "archive", "adjust-due-date"}
  /\ LET row == Revised(c, Target(c)) IN
     rows' = WithRow(page[c].version,
       CASE page[c].op = "save" -> [row EXCEPT !.text = c, !.due = c]
         [] page[c].op = "archive" -> [row EXCEPT !.status = "archived"]
         [] page[c].op = "adjust-due-date" -> [row EXCEPT !.due = c])
  /\ Ends(c, "done")
  /\ UNCHANGED <<lessonTask, lesson, lessonVersions, page, waits>>

\* Mutant: the row is read without FOR UPDATE.
ReadRow(c) ==
  /\ at[c] = "sent" /\ Unblocked(c) /\ Accepted(c)
  /\ page[c].op \in {"publish", "create-version"}
  /\ at' = [at EXCEPT ![c] = "row"]
  /\ UNCHANGED <<lessonTask, rows, lesson, lessonVersions, owner, page, waits>>

\* publish and create-version keep the row locked while they go on.
LockRow(c) ==
  /\ at[c] = "sent" /\ Unblocked(c) /\ Accepted(c)
  /\ page[c].op \in {"publish", "create-version"}
  /\ Acquire(c)
  /\ at' = [at EXCEPT ![c] = "row"]
  /\ UNCHANGED <<lessonTask, rows, lesson, lessonVersions, page, waits>>

\* The rest of a set of siblings, one of them next; the scan has no fixed order.
Visit(c, rest) ==
  \/ /\ rest = {}
     /\ next' = [next EXCEPT ![c] = 0]
     /\ todo' = [todo EXCEPT ![c] = {}]
  \/ \E v \in rest :
       /\ next' = [next EXCEPT ![c] = v]
       /\ todo' = [todo EXCEPT ![c] = rest \ {v}]

\* Mutant: only versions newer than the one published are archived.
FindNewerPublished(c) ==
  /\ at[c] = "row" /\ page[c].op = "publish" /\ Unblocked(c)
  /\ Acquire(c)
  /\ Visit(c, {v \in Live : v > page[c].version})
  /\ at' = [at EXCEPT ![c] = "siblings"]
  /\ UNCHANGED <<lessonTask, rows, lesson, lessonVersions, page, taken>>

\* The statement that archives the siblings starts: it sees those published now.
FindPublished(c) ==
  /\ at[c] = "row" /\ page[c].op = "publish" /\ Unblocked(c)
  /\ Acquire(c)
  /\ Visit(c, Live \ {page[c].version})
  /\ at' = [at EXCEPT ![c] = "siblings"]
  /\ UNCHANGED <<lessonTask, rows, lesson, lessonVersions, page, taken>>

\* It waits for the lock of each and looks at its state again.
ArchiveSibling(c) ==
  /\ at[c] = "siblings" /\ next[c] # 0 /\ Unblocked(c)
  /\ IF rows[next[c]].status = "published"
     THEN Acquire(c) /\ taken' = [taken EXCEPT ![c] = @ \cup {next[c]}]
     ELSE UNCHANGED <<owner, taken>>
  /\ Visit(c, todo[c])
  /\ UNCHANGED <<lessonTask, rows, lesson, lessonVersions, at, page>>

\* The revision of an archived sibling stays as it is.
CommitPublish(c) ==
  /\ at[c] = "siblings" /\ next[c] = 0
  /\ rows' = [v \in DOMAIN rows |->
       IF v = page[c].version THEN [Revised(c, rows[v]) EXCEPT !.status = "published"]
       ELSE IF v \in taken[c] THEN [rows[v] EXCEPT !.status = "archived"]
       ELSE rows[v]]
  /\ Ends(c, "done")
  /\ UNCHANGED <<lessonTask, lesson, lessonVersions, page, waits>>
-----------------------------------------------------------------------------
(* Version numbers: create-version and the lesson publisher *)

\* Mutant: create-version reads the next version without the family lock.
LockFamilyAtPublicationOnly(c) ==
  /\ \/ at[c] = "row" /\ page[c].op = "create-version" /\ UNCHANGED owner
     \/ at[c] = "lesson" /\ Unblocked(c) /\ Acquire(c)
  /\ at' = [at EXCEPT ![c] = "family"]
  /\ UNCHANGED <<lessonTask, rows, lesson, lessonVersions, page, waits>>

LockFamily(c) ==
  /\ \/ at[c] = "row" /\ page[c].op = "create-version"
     \/ at[c] = "lesson"
  /\ Unblocked(c)
  /\ Acquire(c)
  /\ at' = [at EXCEPT ![c] = "family"]
  /\ UNCHANGED <<lessonTask, rows, lesson, lessonVersions, page, waits>>

\* Mutant: the pending draft is looked for only below the version shown.
OlderDraftPending(c) == \E v \in Drafts : v < page[c].version

\* A draft newer than the version the page showed stands in the way.
DraftPending(c) == \E v \in Drafts : v > page[c].version

Allocate(c) ==
  /\ at[c] = "family"
  /\ page[c].op = "create-version" => ~DraftPending(c)
  /\ next' = [next EXCEPT ![c] = NextVersion]
  /\ at' = [at EXCEPT ![c] = "allocated"]
  /\ UNCHANGED <<lessonTask, rows, lesson, lessonVersions, owner, page, todo, taken>>

RefusePending(c) ==
  /\ at[c] = "family" /\ page[c].op = "create-version" /\ DraftPending(c)
  /\ Ends(c, "refused")
  /\ UNCHANGED <<lessonTask, rows, lesson, lessonVersions, page, waits>>

InsertDraft(c) ==
  /\ at[c] = "allocated" /\ page[c].op = "create-version" /\ Unblocked(c)
  /\ IF next[c] \in DOMAIN rows
     THEN Ends(c, "refused") /\ UNCHANGED rows
     ELSE /\ rows' = WithRow(next[c], [status |-> "draft", rev |-> 1, text |-> c, due |-> c])
          /\ Ends(c, "done")
  /\ UNCHANGED <<lessonTask, lesson, lessonVersions, page, waits>>

\* publish of the lesson: its row, then the families of its tasks.
LockLesson(c) ==
  /\ at[c] = "sent" /\ c \in Publishers /\ Unblocked(c)
  /\ IF lesson.rev = page[c].rev
     THEN Acquire(c) /\ at' = [at EXCEPT ![c] = "lesson"]
     ELSE Ends(c, "refused")
  /\ UNCHANGED <<lessonTask, rows, lesson, lessonVersions, page, waits>>

\* The new version joins those already published.
InsertTask(c) ==
  /\ at[c] = "allocated" /\ page[c].op = "lesson"
  /\ IF next[c] \in DOMAIN rows
     THEN Ends(c, "aborted") /\ UNCHANGED <<rows, lessonVersions>>
     ELSE /\ rows' = WithRow(next[c], [status |-> "published", rev |-> 1,
                                       text |-> lesson.text, due |-> First])
          /\ lessonVersions' = Append(lessonVersions, lesson.text)
          /\ Ends(c, "done")
  /\ UNCHANGED <<lessonTask, lesson, page, waits>>

SaveLesson(c) ==
  /\ at[c] = "sent" /\ c \in Savers /\ Unblocked(c)
  /\ IF lesson.rev = page[c].rev
     THEN /\ lesson' = [rev |-> lesson.rev + 1, text |-> c]
          /\ Ends(c, "done")
     ELSE UNCHANGED lesson /\ Ends(c, "refused")
  /\ UNCHANGED <<lessonTask, rows, lessonVersions, page, waits>>
-----------------------------------------------------------------------------
Update(c) == \/ RefuseEdit(c) \/ EditRow(c) \/ LockRow(c)
             \/ FindPublished(c) \/ ArchiveSibling(c) \/ CommitPublish(c)
             \/ RefusePending(c) \/ InsertDraft(c)
Publish(c) == LockLesson(c) \/ InsertTask(c)

\* What a request does once it is sent.
Serve(c) ==
  \/ c \in Editors /\ Update(c)
  \/ c \in Publishers /\ Publish(c)
  \/ SaveLesson(c)
  \/ LockFamily(c)
  \/ Allocate(c)

Next ==
  \/ CreateActivity
  \/ \E c \in Editors, v \in Versions, op \in Operations : OpenActivity(c, v, op)
  \/ \E c \in Publishers \cup Savers : OpenLesson(c)
  \/ \E c \in Requests : Serve(c)
  \/ \E c \in Requests : AbortVictim(c)

\* The database serves every transaction that can go on and finds every cycle.
Fairness ==
  /\ \A c \in Requests : WF_vars(Serve(c))
  /\ WF_vars(\E c \in Requests : AbortVictim(c))

Spec == Init /\ [][Next]_vars /\ Fairness
-----------------------------------------------------------------------------
(* Properties *)

\* A version number that max(version)+1 gave out is still free when its row is
\* inserted, whichever of the two publishers asks: the unique index never
\* refuses a command that was allowed to go on.
AllocationIsFresh ==
  \A c \in Requests : at[c] = "allocated" => next[c] \notin DOMAIN rows

\* Where the lesson publisher has no part, students see one version at most and
\* the teacher edits one draft at most, though the statement that archives the
\* siblings takes no family lock.
OneLiveVersion ==
  ~lessonTask => Cardinality(Live) <= 1 /\ Cardinality(Drafts) <= 1

\* Commands on a family that stands alone never wait for each other in a cycle.
NoWaitCycleAlone ==
  ~lessonTask => \A c \in Requests : ~WaitCycle(c)

\* Publishing a version takes from the students every other version that was
\* published when the teacher's page was loaded, newer ones included.
PublishSupersedes ==
  [][\A c \in Editors :
       (at[c] = "siblings" /\ at'[c] = "done") =>
         \A v \in page[c].live \ {page[c].version} : rows'[v].status # "published"]_vars

\* A command acts on what its page showed, however long it waited for its locks:
\* a save, an archiving and a rescheduling replace the text and due date the
\* teacher saw, a version is published, or copied to a new draft, while it still
\* has them, and the lesson that is saved or goes out is the one shown.
ActsOnWhatWasShown ==
  [][\A c \in Requests : (at[c] # "done" /\ at'[c] = "done") =>
       CASE page[c].op \in {"save", "archive", "adjust-due-date"} ->
              /\ rows[page[c].version].text = page[c].text
              /\ rows[page[c].version].due = page[c].due
         [] page[c].op \in {"publish", "create-version"} ->
              /\ rows'[page[c].version].text = page[c].text
              /\ rows'[page[c].version].due = page[c].due
         [] c \in Savers -> lesson.text = page[c].text
         [] c \in Publishers -> lessonVersions'[Len(lessonVersions')] = page[c].text]_vars

\* Every command that is sent is answered, those caught in a cycle included.
EveryCommandEnds ==
  \A c \in Requests : (at[c] = "sent") ~> (at[c] \in {"done", "refused", "aborted"})
=============================================================================
