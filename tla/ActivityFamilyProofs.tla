------------------------- MODULE ActivityFamilyProofs -------------------------
(***************************************************************************)
(* The versions of an activity, proved for any number of teachers and of   *)
(* lesson publishers.                                                      *)
(*                                                                         *)
(* Commands protect themselves with three kinds of locks at READ           *)
(* COMMITTED, and not all with the same: publish locks its row and each    *)
(* sibling it archives but not the family, create-version locks its row    *)
(* and the family, the lesson publisher the lesson and the family.  The    *)
(* invariant says what each lock protects while it is held: a locked row   *)
(* stays as it was accepted, under the lock of the family no version is    *)
(* added, and what a publish has found to archive covers what is live.     *)
(* The versions carry no gap, so a number past the last is free.  In a     *)
(* family that stands alone the one draft is the newest version, and two   *)
(* publishes would need two drafts.                                        *)
(***************************************************************************)
EXTENDS ActivityFamily, FiniteSetTheorems, TLAPS

\* Where a transaction has locks.
Holding == {"row", "siblings", "lesson", "family", "allocated"}

\* The row c locked for update, as it was accepted.
KeepsRow(c) == c \in Editors /\ owner[Row(page[c].version)] = c /\ Accepted(c)
\* The draft of the lesson c locked, as its page showed it.
KeepsLesson(c) == c \in Publishers /\ owner[Lesson] = c /\ lesson.rev = page[c].rev
\* The siblings a publish has to archive, locked or not yet.
Found(c) == taken[c] \cup todo[c] \cup {next[c]}

\* A page is at most as new as what it showed, and right while that has not been revised.
PageInv(c) == at[c] # "idle" =>
  IF c \in Editors
  THEN /\ page[c].op \in Operations
       /\ page[c].version \in DOMAIN rows
       /\ page[c].rev <= Target(c).rev
       /\ page[c].rev = Target(c).rev => /\ Target(c).text = page[c].text
                                         /\ Target(c).due = page[c].due
       /\ \A v \in page[c].live : v \in DOMAIN rows /\ rows[v].status # "draft"
  ELSE /\ lessonTask
       /\ page[c].op = "lesson"
       /\ page[c].rev <= lesson.rev
       /\ page[c].rev = lesson.rev => lesson.text = page[c].text

\* A publish misses no version its page showed as live.
SiblingsInv(c) ==
  /\ todo[c] \subseteq DOMAIN rows
  /\ next[c] \in DOMAIN rows \cup {0}
  /\ next[c] = 0 => todo[c] = {}
  /\ \A v \in taken[c] : v \in DOMAIN rows /\ rows[v].status = "published" /\ owner[Row(v)] = c
  /\ \A v \in page[c].live \ {page[c].version} : rows[v].status = "published" => v \in Found(c)

\* What a request has established by the time it is so far.
StageInv(c) ==
  /\ at[c] \in {"idle", "sent", "row"} => taken[c] = {}
  /\ at[c] = "row" => KeepsRow(c) /\ page[c].op \in {"publish", "create-version"}
  /\ at[c] = "siblings" => KeepsRow(c) /\ page[c].op = "publish" /\ SiblingsInv(c)
  /\ at[c] = "lesson" => KeepsLesson(c)
  /\ at[c] \in {"family", "allocated"} =>
       /\ owner[Family] = c
       /\ \/ KeepsRow(c) /\ page[c].op = "create-version"
          \/ KeepsLesson(c)
  /\ at[c] = "allocated" => /\ next[c] = HighestVersion + 1
                            /\ c \in Editors => ~DraftPending(c)

\* Who holds a lock.
HolderInv == \A l \in Locks : owner[l] # Nobody =>
  /\ at[owner[l]] \in Holding
  /\ l = Family => at[owner[l]] \in {"family", "allocated"}
  /\ l = Lesson => owner[l] \in Publishers

\* The versions have no gap, and each but the first has a command that made it.
Answered == {c \in Editors \cup Publishers : at[c] = "done"}
NumberInv == /\ HighestVersion \in Nat
             /\ DOMAIN rows = 1..HighestVersion
             /\ HighestVersion <= 1 + Cardinality(Answered)

\* A family without a lesson: the draft is the newest version, one version is live.
AloneInv == ~lessonTask =>
  /\ \A v \in Drafts : v = HighestVersion
  /\ \A v, w \in Live : v = w
  /\ \A c \in Editors : at[c] = "siblings" => Live \ {page[c].version} \subseteq Found(c)

IInv == /\ TypeOK /\ NumberInv /\ HolderInv /\ AloneInv
        /\ \A c \in Requests : PageInv(c) /\ StageInv(c)
-----------------------------------------------------------------------------
(* What a step of one request may do to what others rely on.                *)

\* How a row may change while nobody else has it locked.
Moved(r, s) ==
  /\ s \in Rows
  /\ r.rev <= s.rev
  /\ r.rev = s.rev => r.text = s.text /\ r.due = s.due
  /\ \/ s.status = r.status
     \/ r.status = "draft" /\ s.status = "published"
     \/ r.status = "published" /\ s.status = "archived"

RowsStep(c) ==
  /\ DOMAIN rows \subseteq DOMAIN rows'
  /\ \A v \in DOMAIN rows : \/ rows'[v] = rows[v]
                            \/ owner[Row(v)] \in {c, Nobody} /\ Moved(rows[v], rows'[v])
  /\ \/ DOMAIN rows' = DOMAIN rows
     \/ owner[Family] = c
OwnersStep(c) ==
  /\ owner' \in [Locks -> Requests \cup {Nobody}]
  /\ \A l \in Locks : \/ owner'[l] = owner[l]
                      \/ owner[l] \in {c, Nobody} /\ owner'[l] \in {c, Nobody}
LessonStep(c) ==
  \/ lesson' = lesson
  \/ owner[Lesson] \in {c, Nobody} /\ lesson'.rev \in Nat /\ lesson'.rev > lesson.rev
OthersStep(c) ==
  \A d \in Requests \ {c} :
    /\ at'[d] = at[d] /\ page'[d] = page[d]
    /\ todo'[d] = todo[d] /\ taken'[d] = taken[d] /\ next'[d] = next[d]

Step(c) == /\ RowsStep(c) /\ OwnersStep(c) /\ LessonStep(c) /\ OthersStep(c)
           /\ lessonTask' = lessonTask

Proper(l, c) == /\ at[c] \in Holding
                /\ l = Family => at[c] \in {"family", "allocated"}
                /\ l = Lesson => c \in Publishers
-----------------------------------------------------------------------------
(* The locks of the family, of the lesson and of each row are different    *)
(* locks (lockActivityFamily and the FOR UPDATE clauses).                  *)
LEMMA LockFacts ==
  /\ Family \in Locks /\ Lesson \in Locks /\ Family # Lesson
  /\ \A v \in Versions : Row(v) \in Locks /\ Row(v) # Family /\ Row(v) # Lesson
  /\ \A v, w : Row(v) = Row(w) => v = w
BY DEF Family, Lesson, Row, Locks

(* The largest number of 1..k is k.                                        *)
LEMMA LastOf ==
  ASSUME NEW k \in Nat, k # 0
  PROVE  (CHOOSE v \in 1..k : \A w \in 1..k : w <= v) = k
<1>1. k \in 1..k /\ \A w \in 1..k : w <= k
  OBVIOUS
<1>2. \A v \in 1..k : (\A w \in 1..k : w <= v) => v = k
  OBVIOUS
<1> QED BY <1>1, <1>2

(* max(version) of rows numbered without a gap is how many there are.      *)
LEMMA HighestOf ==
  ASSUME NEW f, NEW k \in Nat, DOMAIN f = 1..k
  PROVE  (IF DOMAIN f = {} THEN 0
          ELSE CHOOSE v \in DOMAIN f : \A w \in DOMAIN f : w <= v) = k
<1>1. CASE k = 0
  BY <1>1
<1>2. CASE k # 0
  <2>1. 1 \in 1..k
    BY <1>2
  <2> QED BY <1>2, <2>1, LastOf
<1> QED BY <1>1, <1>2

(* max(version) depends on nothing but which versions there are.           *)
LEMMA SameHighest ==
  ASSUME DOMAIN rows' = DOMAIN rows
  PROVE  HighestVersion' = HighestVersion
BY DEF HighestVersion
-----------------------------------------------------------------------------
(* Whatever another command commits, a page stays behind what it showed or *)
(* right about it: every change of a text or a due date moves the          *)
(* revision.                                                               *)
LEMMA PageKept ==
  ASSUME IInv, NEW c \in Requests, Step(c), NEW d \in Requests,
         at[d] # "idle", page'[d] = page[d]
  PROVE  PageInv(d)'
<1>1. CASE d \in Editors
  <2> DEFINE v == page[d].version
  <2>1. /\ page[d].op \in Operations /\ v \in DOMAIN rows
        /\ page[d].rev <= rows[v].rev
        /\ page[d].rev = rows[v].rev => rows[v].text = page[d].text /\ rows[v].due = page[d].due
        /\ \A w \in page[d].live : w \in DOMAIN rows /\ rows[w].status # "draft"
    BY <1>1 DEF IInv, PageInv, Target
  <2>2. page[d].rev \in Nat
    BY <2>1 DEF IInv, TypeOK, Pages, NoPage
  <2>3. \A w \in DOMAIN rows : /\ w \in DOMAIN rows'
                               /\ rows'[w] = rows[w] \/ Moved(rows[w], rows'[w])
                               /\ rows[w] \in Rows
    BY DEF Step, RowsStep, IInv, TypeOK
  <2>4. \A w \in page[d].live : w \in DOMAIN rows' /\ rows'[w].status # "draft"
    BY <2>1, <2>3 DEF Moved
  <2>5. page[d].rev <= rows'[v].rev
    BY <2>1, <2>2, <2>3 DEF Moved, Rows
  <2>6. page[d].rev = rows'[v].rev => rows'[v].text = page[d].text /\ rows'[v].due = page[d].due
    BY <2>1, <2>2, <2>3 DEF Moved, Rows
  <2> QED BY <1>1, <2>1, <2>3, <2>4, <2>5, <2>6 DEF PageInv, Target
<1>2. CASE d \notin Editors
  <2>1. /\ lessonTask /\ page[d].op = "lesson"
        /\ page[d].rev <= lesson.rev
        /\ page[d].rev = lesson.rev => lesson.text = page[d].text
    BY <1>2 DEF IInv, PageInv
  <2>2. page[d].rev \in Nat /\ lesson.rev \in Nat
    BY <2>1 DEF IInv, TypeOK, Pages, NoPage
  <2> QED BY <1>2, <2>1, <2>2 DEF PageInv, Step, LessonStep
<1> QED BY <1>1, <1>2

(* A row that a request has locked and accepted stays as it was accepted   *)
(* while the others go on (SELECT ... FOR UPDATE).                         *)
LEMMA KeptRow ==
  ASSUME IInv, NEW c \in Requests, Step(c), NEW d \in Requests \ {c}, at[d] # "idle", KeepsRow(d)
  PROVE  KeepsRow(d)'
<1> DEFINE v == page[d].version
<1>1. v \in DOMAIN rows /\ v \in Versions
  BY DEF KeepsRow, IInv, PageInv, TypeOK
<1>2. d # Nobody
  BY RequestsAssumption DEF Nobody
<1>3. rows'[v] = rows[v]
  BY <1>1, <1>2 DEF KeepsRow, Step, RowsStep
<1>4. owner'[Row(v)] = d
  BY <1>1, <1>2, LockFacts DEF KeepsRow, Step, OwnersStep
<1> QED BY <1>3, <1>4 DEF KeepsRow, Accepted, Target, Step, OthersStep

(* The draft of a lesson that a publisher has locked stays as its page     *)
(* showed it.                                                              *)
LEMMA KeptLesson ==
  ASSUME IInv, NEW c \in Requests, Step(c), NEW d \in Requests \ {c}, KeepsLesson(d)
  PROVE  KeepsLesson(d)'
<1>1. d # Nobody
  BY RequestsAssumption DEF Nobody
<1>2. owner'[Lesson] = d /\ lesson' = lesson
  BY <1>1, LockFacts DEF KeepsLesson, Step, OwnersStep, LessonStep
<1> QED BY <1>2 DEF KeepsLesson, Step, OthersStep

(* What a publish has found to archive stays found, and what it has locked *)
(* stays published, while the others go on.                                *)
LEMMA KeptSiblings ==
  ASSUME IInv, NEW c \in Requests, Step(c), NEW d \in Requests \ {c}, at[d] = "siblings"
  PROVE  SiblingsInv(d)'
<1>1. SiblingsInv(d) /\ d \in Editors
  BY DEF IInv, StageInv, KeepsRow
<1>2. d # Nobody
  BY RequestsAssumption DEF Nobody
<1>3. DOMAIN rows \subseteq DOMAIN rows' /\ DOMAIN rows \subseteq Versions
  BY DEF Step, RowsStep, IInv, TypeOK
<1>4. \A v \in taken[d] : v \in DOMAIN rows' /\ rows'[v].status = "published" /\ owner'[Row(v)] = d
  <2> TAKE v \in taken[d]
  <2>1. v \in DOMAIN rows /\ rows[v].status = "published" /\ owner[Row(v)] = d
    BY <1>1 DEF SiblingsInv
  <2>2. rows'[v] = rows[v]
    BY <1>2, <2>1 DEF Step, RowsStep
  <2>3. owner'[Row(v)] = d
    BY <1>2, <1>3, <2>1, LockFacts DEF Step, OwnersStep
  <2> QED BY <1>3, <2>1, <2>2, <2>3
<1>5. \A v \in page[d].live \ {page[d].version} : rows'[v].status = "published" => v \in Found(d)
  <2> TAKE v \in page[d].live \ {page[d].version}
  <2>1. v \in DOMAIN rows /\ rows[v].status # "draft"
    BY <1>1 DEF IInv, PageInv
  <2>2. rows'[v] = rows[v] \/ Moved(rows[v], rows'[v])
    BY <2>1 DEF Step, RowsStep
  <2> QED BY <1>1, <2>1, <2>2 DEF SiblingsInv, Moved
<1>6. /\ page'[d] = page[d] /\ todo'[d] = todo[d] /\ taken'[d] = taken[d] /\ next'[d] = next[d]
  BY DEF Step, OthersStep
<1> QED BY <1>1, <1>3, <1>4, <1>5, <1>6 DEF SiblingsInv, Found

(* While a request holds the lock of the family no other command adds a    *)
(* version.                                                                *)
LEMMA KeptNumber ==
  ASSUME IInv, NEW c \in Requests, Step(c), NEW d \in Requests \ {c}, at[d] = "allocated"
  PROVE  /\ HighestVersion' = HighestVersion
         /\ d \in Editors => ~DraftPending(d)'
<1>1. owner[Family] = d
  BY DEF IInv, StageInv
<1>2. DOMAIN rows' = DOMAIN rows
  BY <1>1 DEF Step, RowsStep
<1>3. ASSUME d \in Editors, NEW v \in Drafts', v > page[d].version
      PROVE  FALSE
  <2>1. v \in DOMAIN rows /\ rows'[v].status = "draft"
    BY <1>2, <1>3 DEF Drafts
  <2>2. rows[v].status = "draft"
    BY <2>1 DEF Step, RowsStep, Moved
  <2> QED BY <1>3, <2>1, <2>2 DEF IInv, StageInv, DraftPending, Drafts
<1> QED BY <1>2, <1>3, SameHighest DEF DraftPending, Step, OthersStep

(* A step of one request leaves what every other request has established   *)
(* as it is.                                                               *)
LEMMA StageKept ==
  ASSUME IInv, NEW c \in Requests, Step(c), NEW d \in Requests \ {c}
  PROVE  StageInv(d)'
<1>1. StageInv(d)
  BY DEF IInv
<1>2. /\ at'[d] = at[d] /\ page'[d] = page[d] /\ todo'[d] = todo[d]
      /\ taken'[d] = taken[d] /\ next'[d] = next[d]
  BY DEF Step, OthersStep
<1>3. at[d] = "row" => KeepsRow(d)'
  BY <1>1, KeptRow DEF StageInv
<1>4. at[d] = "siblings" => KeepsRow(d)' /\ SiblingsInv(d)'
  BY <1>1, KeptRow, KeptSiblings DEF StageInv
<1>5. at[d] = "lesson" => KeepsLesson(d)'
  BY <1>1, KeptLesson DEF StageInv
<1>6. at[d] \in {"family", "allocated"} =>
        /\ owner'[Family] = d
        /\ \/ KeepsRow(d)' /\ page[d].op = "create-version"
           \/ KeepsLesson(d)'
  <2>1. d # Nobody
    BY RequestsAssumption DEF Nobody
  <2>2. at[d] \in {"family", "allocated"} => owner'[Family] = d
    BY <1>1, <2>1, LockFacts DEF StageInv, Step, OwnersStep
  <2> QED BY <1>1, <2>2, KeptRow, KeptLesson DEF StageInv
<1>7. at[d] = "allocated" => /\ next[d] = HighestVersion'+ 1
                             /\ d \in Editors => ~DraftPending(d)'
  BY <1>1, KeptNumber DEF StageInv
<1> QED BY <1>1, <1>2, <1>3, <1>4, <1>5, <1>6, <1>7 DEF StageInv

(* Only a request inside its transaction holds a lock, and the lock of the *)
(* family or the lesson only where the code takes it.                      *)
LEMMA HoldersKept ==
  ASSUME IInv, NEW c \in Requests, Step(c), \A l \in Locks : owner'[l] = c => Proper(l, c)'
  PROVE  HolderInv'
<1> SUFFICES ASSUME NEW l \in Locks, owner'[l] # Nobody
             PROVE  Proper(l, owner[l])'
  BY DEF HolderInv, Proper
<1>1. CASE owner'[l] = c
  BY <1>1
<1>2. CASE owner'[l] # c
  <2>1. owner'[l] = owner[l] /\ owner[l] \in Requests \ {c}
    BY <1>2 DEF Step, OwnersStep, IInv, TypeOK
  <2>2. Proper(l, owner[l])
    BY <2>1 DEF IInv, HolderInv, Proper, Nobody
  <2> QED BY <2>1, <2>2 DEF Proper, Step, OthersStep
<1> QED BY <1>1, <1>2
-----------------------------------------------------------------------------
(* The end of a transaction gives up all its locks and touches nobody      *)
(* else's.                                                                 *)
LEMMA Released ==
  ASSUME IInv, NEW c \in Requests, Release(c)
  PROVE  OwnersStep(c) /\ \A l \in Locks : owner'[l] # c
<1>1. c # Nobody /\ owner \in [Locks -> Requests \cup {Nobody}]
  BY RequestsAssumption DEF Nobody, IInv, TypeOK
<1> QED BY <1>1 DEF Release, OwnersStep

(* A statement that waited for its locks takes those and no more, from     *)
(* nobody.                                                                 *)
LEMMA Acquired ==
  ASSUME IInv, NEW c \in Requests, Acquire(c), Unblocked(c)
  PROVE  /\ OwnersStep(c)
         /\ \A l \in Locks : (owner'[l] = c) <=> (l \in Needs(c) \/ owner[l] = c)
<1>1. c # Nobody /\ owner \in [Locks -> Requests \cup {Nobody}]
  BY RequestsAssumption DEF Nobody, IInv, TypeOK
<1>2. \A l \in Needs(c) : owner[l] \in {c, Nobody}
  BY DEF Unblocked, Blockers
<1>3. owner' = [l \in Locks |-> IF l \in Needs(c) THEN c ELSE owner[l]]
  BY DEF Acquire
<1> QED BY <1>1, <1>2, <1>3 DEF OwnersStep

(* A step that takes and gives up no lock is a step of any request.        *)
LEMMA KeptOwners ==
  ASSUME IInv, NEW c \in Requests, owner' = owner
  PROVE  OwnersStep(c)
BY DEF IInv, TypeOK, OwnersStep

(* Editors and lesson publishers are counted apart, as no request is both. *)
LEMMA AnsweredFacts ==
  /\ IsFiniteSet(Editors \cup Publishers)
  /\ Cardinality(Editors \cup Publishers) = Cardinality(Editors) + Cardinality(Publishers)
  /\ Cardinality(Editors) \in Nat /\ Cardinality(Publishers) \in Nat
<1>1. Editors \cap Publishers = {} /\ IsFiniteSet(Editors) /\ IsFiniteSet(Publishers)
  BY RequestsAssumption
<1>2. Cardinality(Editors \cap Publishers) = 0
  BY <1>1, FS_EmptySet
<1>3. Cardinality(Editors) \in Nat /\ Cardinality(Publishers) \in Nat
  BY <1>1, FS_CardinalityType
<1>4. Cardinality(Editors \cup Publishers)
        = Cardinality(Editors) + Cardinality(Publishers) - Cardinality(Editors \cap Publishers)
  BY <1>1, FS_Union
<1>5. IsFiniteSet(Editors \cup Publishers)
  BY <1>1, FS_Union
<1> QED BY <1>2, <1>3, <1>4, <1>5

(* A step that adds no version keeps the numbering without gaps.           *)
LEMMA NumberKept ==
  ASSUME IInv, DOMAIN rows' = DOMAIN rows,
         \A d \in Editors \cup Publishers : at[d] = "done" => at'[d] = "done"
  PROVE  NumberInv'
<1>1. Answered \subseteq Answered' /\ Answered' \subseteq Editors \cup Publishers
  BY DEF Answered
<1>2. IsFiniteSet(Answered') /\ IsFiniteSet(Answered)
  BY <1>1, AnsweredFacts, FS_Subset
<1>3. Cardinality(Answered) <= Cardinality(Answered')
  BY <1>1, <1>2, FS_Subset
<1>4. Cardinality(Answered) \in Nat /\ Cardinality(Answered') \in Nat
  BY <1>2, FS_CardinalityType
<1>5. NumberInv /\ HighestVersion' = HighestVersion
  BY SameHighest DEF IInv
<1> QED BY <1>3, <1>4, <1>5 DEF NumberInv

(* max(version) + 1 is free, and within the versions the requests can      *)
(* make.                                                                   *)
LEMMA NumberFree ==
  ASSUME IInv, NEW c \in Editors \cup Publishers, at[c] # "done"
  PROVE  /\ NextVersion \in Versions /\ NextVersion \notin DOMAIN rows
         /\ Cardinality(Answered) + 1 <= Cardinality(Editors \cup Publishers)
<1>1. /\ Answered \cup {c} \subseteq Editors \cup Publishers /\ c \notin Answered
  BY DEF Answered
<1>2. IsFiniteSet(Answered) /\ IsFiniteSet(Answered \cup {c})
  BY <1>1, AnsweredFacts, FS_Subset
<1>3. Cardinality(Answered \cup {c}) = Cardinality(Answered) + 1
  BY <1>1, <1>2, FS_AddElement
<1>4. Cardinality(Answered \cup {c}) <= Cardinality(Editors \cup Publishers)
  BY <1>1, AnsweredFacts, FS_Subset
<1>5. Cardinality(Answered) \in Nat
  BY <1>2, FS_CardinalityType
<1>6. NumberInv
  BY DEF IInv
<1> QED BY <1>3, <1>4, <1>5, <1>6, AnsweredFacts DEF NumberInv, NextVersion, Versions, MaxVersion

(* The version a command adds follows the last, and its command has ended. *)
LEMMA NumberGrown ==
  ASSUME IInv, NEW c \in Editors \cup Publishers, at[c] # "done", at'[c] = "done",
         \A d \in Requests \ {c} : at'[d] = at[d],
         DOMAIN rows' = DOMAIN rows \cup {NextVersion}
  PROVE  NumberInv' /\ HighestVersion' = NextVersion
<1>1. /\ Answered' = Answered \cup {c} /\ c \notin Answered
      /\ Answered \subseteq Editors \cup Publishers
  BY DEF Answered, Requests
<1>2. IsFiniteSet(Answered)
  BY <1>1, AnsweredFacts, FS_Subset
<1>3. Cardinality(Answered') = Cardinality(Answered) + 1 /\ Cardinality(Answered) \in Nat
  BY <1>1, <1>2, FS_AddElement, FS_CardinalityType
<1>4. NumberInv
  BY DEF IInv
<1>5. DOMAIN rows' = 1..NextVersion /\ NextVersion \in Nat
  BY <1>4 DEF NumberInv, NextVersion
<1>6. HighestVersion' = NextVersion
  BY <1>5, HighestOf DEF HighestVersion
<1> QED BY <1>3, <1>4, <1>5, <1>6 DEF NumberInv, NextVersion

(* Archiving a version, or touching none, keeps one live version and one   *)
(* draft at most.                                                          *)
LEMMA AloneKept ==
  ASSUME IInv, lessonTask' = lessonTask, DOMAIN rows' = DOMAIN rows,
         \A v \in DOMAIN rows : \/ rows'[v].status = rows[v].status
                                \/ rows'[v].status = "archived",
         \A d \in Editors : at'[d] = "siblings" =>
           \/ at[d] = "siblings" /\ page'[d] = page[d] /\ Found(d) \subseteq Found(d)'
           \/ Live' \ {page'[d].version} \subseteq Found(d)'
  PROVE  AloneInv'
<1>1. Live' \subseteq Live /\ Drafts' \subseteq Drafts
  BY DEF Live, Drafts
<1>2. HighestVersion' = HighestVersion
  BY SameHighest
<1>3. AloneInv
  BY DEF IInv
<1>4. ASSUME ~lessonTask, NEW d \in Editors, at'[d] = "siblings"
      PROVE  Live' \ {page'[d].version} \subseteq Found(d)'
  <2>1. CASE at[d] = "siblings" /\ page'[d] = page[d] /\ Found(d) \subseteq Found(d)'
    BY <1>1, <1>3, <1>4, <2>1 DEF AloneInv
  <2> QED BY <1>4, <2>1
<1> QED BY <1>1, <1>2, <1>3, <1>4 DEF AloneInv
-----------------------------------------------------------------------------
(* Ends and beginnings of a step.                                          *)

RowsTyped == DOMAIN rows \subseteq Versions /\ \A v \in DOMAIN rows : rows[v] \in Rows
LessonTyped == lesson.rev \in Nat /\ lesson.text \in Texts /\ lessonVersions \in Seq(Texts)

(* A step keeps the invariant when it does so for the request that takes   *)
(* it.                                                                     *)
LEMMA WholeStep ==
  ASSUME IInv, NEW c \in Requests, Step(c), \A l \in Locks : owner'[l] = c => Proper(l, c)',
         PageInv(c)', StageInv(c)',
         TypeOK', NumberInv', AloneInv'
  PROVE  IInv'
<1>1. HolderInv'
  BY HoldersKept
<1>2. ASSUME NEW d \in Requests PROVE PageInv(d)'
  <2>1. CASE d # c /\ at[d] # "idle"
    BY <2>1, PageKept DEF Step, OthersStep
  <2>2. CASE d # c /\ at[d] = "idle"
    BY <2>2 DEF Step, OthersStep, PageInv
  <2> QED BY <2>1, <2>2
<1>3. ASSUME NEW d \in Requests PROVE StageInv(d)'
  BY StageKept
<1> QED BY <1>1, <1>2, <1>3 DEF IInv

(* A command that ends gives up its locks and leaves a legal state behind  *)
(* when its rows are legal.                                                *)
LEMMA EndsWell ==
  ASSUME IInv, NEW c \in Requests, NEW outcome \in {"done", "refused", "aborted"},
         at[c] # "idle", Ends(c, outcome), UNCHANGED <<lessonTask, page, waits>>,
         RowsStep(c), LessonStep(c), RowsTyped', LessonTyped', NumberInv', AloneInv'
  PROVE  IInv'
<1>1. OwnersStep(c) /\ \A l \in Locks : owner'[l] # c
  BY Released DEF Ends
<1>2. at' = [at EXCEPT ![c] = outcome] /\ at \in [Requests -> Stages]
  BY DEF Ends, IInv, TypeOK
<1>3. page' = page /\ todo' = todo /\ taken' = taken /\ next' = next /\ lessonTask' = lessonTask
  BY DEF waits
<1>4. Step(c)
  BY <1>1, <1>2, <1>3 DEF Step, OthersStep
<1>5. PageInv(c)'
  BY <1>3, <1>4, PageKept
<1>6. StageInv(c)'
  BY <1>2 DEF StageInv
<1>7. TypeOK'
  <2>1. at' \in [Requests -> Stages]
    BY <1>2 DEF Stages
  <2> QED BY <1>1, <1>3, <2>1 DEF TypeOK, IInv, RowsTyped, LessonTyped, OwnersStep
<1> QED BY <1>1, <1>4, <1>5, <1>6, <1>7, WholeStep

(* A command that ends without a new version keeps the numbering.          *)
LEMMA EndsKeepNumber ==
  ASSUME IInv, NEW c \in Requests, NEW outcome \in {"done", "refused", "aborted"},
         at[c] # "done", Ends(c, outcome), DOMAIN rows' = DOMAIN rows
  PROVE  NumberInv'
<1>1. \A d \in Editors \cup Publishers : at[d] = "done" => at'[d] = "done"
  BY DEF Ends, Requests, IInv, TypeOK
<1> QED BY <1>1, NumberKept

(* A command that ends and at most archives keeps one live version and one *)
(* draft.                                                                  *)
LEMMA EndsKeepAlone ==
  ASSUME IInv, NEW c \in Requests, NEW outcome \in {"done", "refused", "aborted"},
         Ends(c, outcome), UNCHANGED <<lessonTask, page, waits>>, DOMAIN rows' = DOMAIN rows,
         \A v \in DOMAIN rows : \/ rows'[v].status = rows[v].status
                                \/ rows'[v].status = "archived"
  PROVE  AloneInv'
<1>1. \A d \in Editors : at'[d] = "siblings" => at[d] = "siblings"
  BY DEF Ends, Requests, IInv, TypeOK
<1>2. \A d : page'[d] = page[d] /\ Found(d)' = Found(d)
  BY DEF Found, waits
<1> QED BY <1>1, <1>2, AloneKept

(* A command that is refused or aborted changes nothing but its locks.     *)
LEMMA RefusedWell ==
  ASSUME IInv, NEW c \in Requests, NEW outcome \in {"done", "refused", "aborted"},
         at[c] \notin {"idle", "done"}, Ends(c, outcome),
         UNCHANGED <<lessonTask, rows, lesson, lessonVersions, page, waits>>
  PROVE  IInv'
<1>1. RowsStep(c) /\ LessonStep(c)
  BY DEF RowsStep, LessonStep
<1>2. RowsTyped' /\ LessonTyped'
  BY DEF RowsTyped, LessonTyped, IInv, TypeOK
<1> QED BY <1>1, <1>2, EndsKeepNumber, EndsKeepAlone, EndsWell
-----------------------------------------------------------------------------
(* A step inside a transaction, with no row written yet, keeps the         *)
(* invariant.                                                              *)
LEMMA GoesOn ==
  ASSUME IInv, NEW c \in Requests,
         NEW stage \in {"sent", "row", "siblings", "lesson", "family", "allocated"},
         at[c] # "done", at' = [at EXCEPT ![c] = stage],
         UNCHANGED <<lessonTask, rows, lesson, lessonVersions>>,
         OwnersStep(c), \A l \in Locks : owner'[l] = c => Proper(l, c)',
         page' \in [Requests -> Pages \cup {NoPage}],
         todo' \in [Requests -> SUBSET Versions], taken' \in [Requests -> SUBSET Versions],
         next' \in [Requests -> 0..MaxVersion],
         \A d \in Requests \ {c} : /\ page'[d] = page[d] /\ todo'[d] = todo[d]
                                   /\ taken'[d] = taken[d] /\ next'[d] = next[d],
         PageInv(c)', StageInv(c)',
         stage = "siblings" => Live \ {page'[c].version} \subseteq Found(c)'
  PROVE  IInv'
<1>1. at \in [Requests -> Stages]
  BY DEF IInv, TypeOK
<1>2. at'[c] = stage /\ \A d \in Requests \ {c} : at'[d] = at[d]
  BY <1>1
<1>3. RowsStep(c) /\ LessonStep(c)
  BY DEF RowsStep, LessonStep
<1>4. Step(c)
  BY <1>2, <1>3 DEF Step, OthersStep
<1>5. TypeOK'
  <2>1. at' \in [Requests -> Stages]
    BY <1>1 DEF Stages
  <2> QED BY <2>1 DEF IInv, TypeOK, OwnersStep
<1>6. NumberInv'
  <2>1. \A d \in Editors \cup Publishers : at[d] = "done" => at'[d] = "done"
    BY <1>2 DEF Requests
  <2> QED BY <2>1, NumberKept
<1>7. AloneInv'
  <2>1. \A d \in Editors : at'[d] = "siblings" =>
          \/ at[d] = "siblings" /\ page'[d] = page[d] /\ Found(d) \subseteq Found(d)'
          \/ Live' \ {page'[d].version} \subseteq Found(d)'
    <3> TAKE d \in Editors
    <3> HAVE at'[d] = "siblings"
    <3>1. CASE d = c
      <4>1. Live' = Live
        BY DEF Live
      <4> QED BY <1>2, <3>1, <4>1
    <3>2. CASE d # c
      <4>1. d \in Requests \ {c}
        BY <3>2 DEF Requests
      <4>2. Found(d)' = Found(d)
        BY <4>1 DEF Found
      <4> QED BY <1>2, <4>1, <4>2
    <3> QED BY <3>1, <3>2
  <2> QED BY <2>1, AloneKept
<1> QED BY <1>4, <1>5, <1>6, <1>7, WholeStep

(* A command given on a page that shows what is committed keeps the        *)
(* invariant.                                                              *)
LEMMA OpensWell ==
  ASSUME IInv, NEW c \in Requests, NEW shown \in Pages, Open(c, shown), PageInv(c)'
  PROVE  IInv'
<1>1. /\ at[c] = "idle" /\ at' = [at EXCEPT ![c] = "sent"]
      /\ page' = [page EXCEPT ![c] = shown]
      /\ UNCHANGED <<lessonTask, rows, lesson, lessonVersions, owner>>
      /\ todo' = todo /\ taken' = taken /\ next' = next
  BY DEF Open, waits
<1>2. OwnersStep(c)
  BY <1>1, KeptOwners
<1>3. \A l \in Locks : owner'[l] # c
  <2>1. c # Nobody
    BY RequestsAssumption DEF Nobody
  <2> QED BY <1>1, <2>1 DEF IInv, HolderInv, Holding
<1>4. TypeOK
  BY DEF IInv
<1>5. page' \in [Requests -> Pages \cup {NoPage}]
  BY <1>1, <1>4 DEF TypeOK
<1>6. \A d \in Requests \ {c} : page'[d] = page[d]
  BY <1>1, <1>4 DEF TypeOK
<1>7. at'[c] = "sent"
  BY <1>1, <1>4 DEF TypeOK
<1>8. StageInv(c)'
  BY <1>1, <1>7 DEF IInv, StageInv
<1> QED BY <1>1, <1>2, <1>3, <1>4, <1>5, <1>6, <1>8, GoesOn DEF TypeOK

(* A teacher's page on a version keeps the invariant (the activity route). *)
LEMMA OpenActivityWell ==
  ASSUME IInv, NEW c \in Editors, NEW v \in Versions, NEW op \in Operations, OpenActivity(c, v, op)
  PROVE  IInv'
<1> DEFINE shown == [op |-> op, version |-> v, rev |-> rows[v].rev, text |-> rows[v].text,
                     due |-> rows[v].due, live |-> Live]
<1>1. v \in DOMAIN rows /\ Open(c, shown) /\ c \in Requests
  BY DEF OpenActivity, Requests
<1>2. rows[v] \in Rows /\ DOMAIN rows \subseteq Versions
  BY <1>1 DEF IInv, TypeOK
<1>3. Cardinality(Editors) \in Nat /\ Cardinality(Publishers) \in Nat
  BY AnsweredFacts
<1>4. shown \in Pages
  <2>1. Live \subseteq Versions
    BY <1>2 DEF Live
  <2>2. v \in 0..MaxVersion
    BY <1>3 DEF Versions, MaxVersion
  <2> QED BY <1>2, <2>1, <2>2 DEF Pages, Rows
<1>5. page'[c] = shown /\ rows' = rows
  BY <1>1 DEF Open, IInv, TypeOK
<1>6. PageInv(c)'
  BY <1>1, <1>2, <1>5 DEF PageInv, Target, Live, Rows
<1> QED BY <1>1, <1>4, <1>6, OpensWell

(* A teacher's page on the lesson keeps the invariant (the lesson route).  *)
LEMMA OpenLessonWell ==
  ASSUME IInv, NEW c \in Publishers \cup Savers, OpenLesson(c)
  PROVE  IInv'
<1> DEFINE shown == [op |-> "lesson", version |-> 0, rev |-> lesson.rev,
                     text |-> lesson.text, due |-> First, live |-> Live]
<1>1. lessonTask /\ Open(c, shown) /\ c \in Requests
  BY DEF OpenLesson, Requests
<1>2. TypeOK
  BY DEF IInv
<1>3. Cardinality(Editors) \in Nat /\ Cardinality(Publishers) \in Nat
  BY AnsweredFacts
<1>4. shown \in Pages
  <2>1. Live \subseteq Versions
    BY <1>2 DEF Live, TypeOK
  <2>2. 0 \in 0..MaxVersion /\ First \in Texts
    BY <1>3 DEF MaxVersion, Texts
  <2> QED BY <1>2, <2>1, <2>2 DEF Pages, TypeOK
<1>5. page'[c] = shown /\ lesson' = lesson /\ lessonTask' = lessonTask
  BY <1>1, <1>2 DEF Open, TypeOK
<1>6. c \notin Editors
  BY RequestsAssumption
<1>7. PageInv(c)'
  BY <1>1, <1>2, <1>5, <1>6 DEF PageInv, TypeOK
<1> QED BY <1>1, <1>4, <1>7, OpensWell
-----------------------------------------------------------------------------
(* Choosing the next sibling loses none of those found.                    *)
LEMMA VisitFacts ==
  ASSUME IInv, NEW c \in Requests, NEW rest \in SUBSET DOMAIN rows, Visit(c, rest)
  PROVE  /\ next' \in [Requests -> 0..MaxVersion] /\ todo' \in [Requests -> SUBSET Versions]
         /\ \A d \in Requests \ {c} : next'[d] = next[d] /\ todo'[d] = todo[d]
         /\ todo'[c] \subseteq rest /\ next'[c] \in rest \cup {0}
         /\ rest \subseteq todo'[c] \cup {next'[c]}
         /\ next'[c] = 0 => todo'[c] = {}
<1>1. /\ next \in [Requests -> 0..MaxVersion] /\ todo \in [Requests -> SUBSET Versions]
      /\ DOMAIN rows \subseteq Versions
  BY DEF IInv, TypeOK
<1>2. MaxVersion \in Nat
  BY AnsweredFacts DEF MaxVersion
<1>3. \A v \in rest : v \in 1..MaxVersion
  BY <1>1 DEF Versions
<1>4. CASE rest = {} /\ next' = [next EXCEPT ![c] = 0] /\ todo' = [todo EXCEPT ![c] = {}]
  BY <1>1, <1>2, <1>4
<1>5. ASSUME NEW v \in rest, next' = [next EXCEPT ![c] = v],
             todo' = [todo EXCEPT ![c] = rest \ {v}]
      PROVE  /\ next' \in [Requests -> 0..MaxVersion] /\ todo' \in [Requests -> SUBSET Versions]
             /\ \A d \in Requests \ {c} : next'[d] = next[d] /\ todo'[d] = todo[d]
             /\ todo'[c] = rest \ {v} /\ next'[c] = v /\ v # 0
  <2>1. v \in 1..MaxVersion /\ rest \ {v} \subseteq Versions
    BY <1>1, <1>3
  <2> QED BY <1>1, <1>2, <1>5, <2>1
<1> QED BY <1>4, <1>5 DEF Visit

(* What a page knows stays true where nothing is committed.                *)
LEMMA PageStays ==
  ASSUME IInv, NEW c \in Requests, at[c] # "idle",
         UNCHANGED <<lessonTask, rows, lesson, page>>
  PROVE  PageInv(c)'
BY DEF IInv, PageInv, Target

(* The parts of the type invariant the steps below use.                    *)
LEMMA Alike ==
  ASSUME IInv
  PROVE  /\ at \in [Requests -> Stages]
         /\ page \in [Requests -> Pages \cup {NoPage}]
         /\ todo \in [Requests -> SUBSET Versions]
         /\ taken \in [Requests -> SUBSET Versions]
         /\ next \in [Requests -> 0..MaxVersion]
         /\ owner \in [Locks -> Requests \cup {Nobody}]
         /\ DOMAIN rows \subseteq Versions
         /\ \A v \in DOMAIN rows : rows[v] \in Rows
BY DEF IInv, TypeOK

(* A request outside its transaction holds no lock.                        *)
LEMMA NothingHeld ==
  ASSUME IInv, NEW c \in Requests, at[c] \notin Holding
  PROVE  \A l \in Locks : owner[l] # c
<1>1. c # Nobody
  BY RequestsAssumption DEF Nobody
<1> QED BY <1>1 DEF IInv, HolderInv

(* A lock is held where the code takes it.                                 *)
LEMMA HeldProperly ==
  ASSUME IInv, NEW c \in Requests, NEW l \in Locks, owner[l] = c
  PROVE  Proper(l, c)
<1>1. c # Nobody
  BY RequestsAssumption DEF Nobody
<1> QED BY <1>1 DEF IInv, HolderInv, Proper

(* Locking the row of a version keeps the invariant (updateActivity).      *)
LEMMA LockRowWell ==
  ASSUME IInv, NEW c \in Editors, LockRow(c)
  PROVE  IInv'
<1>1. /\ c \in Requests /\ at[c] = "sent" /\ Acquire(c) /\ Unblocked(c) /\ Accepted(c)
      /\ page[c].op \in {"publish", "create-version"}
      /\ at' = [at EXCEPT ![c] = "row"]
      /\ UNCHANGED <<lessonTask, rows, lesson, lessonVersions>>
      /\ page' = page /\ todo' = todo /\ taken' = taken /\ next' = next
  BY DEF LockRow, waits, Requests
<1>2. Needs(c) = {Row(page[c].version)}
  BY <1>1 DEF Needs
<1>3. page[c].version \in Versions
  BY <1>1, Alike DEF IInv, PageInv
<1>4. OwnersStep(c) /\ owner'[Row(page[c].version)] = c
  BY <1>1, <1>2, <1>3, Acquired, LockFacts
<1>5. at'[c] = "row"
  BY <1>1, Alike
<1>6. \A l \in Locks : owner'[l] = c => l = Row(page[c].version)
  BY <1>1, <1>2, Acquired, NothingHeld DEF Holding
<1>7. \A l \in Locks : owner'[l] = c => Proper(l, c)'
  BY <1>3, <1>5, <1>6, LockFacts DEF Proper, Holding
<1>8. StageInv(c)'
  <2>1. KeepsRow(c)'
    BY <1>1, <1>4 DEF KeepsRow, Accepted, Target
  <2>2. taken'[c] = {}
    BY <1>1 DEF IInv, StageInv
  <2> QED BY <1>1, <1>5, <2>1, <2>2 DEF StageInv
<1> QED BY <1>1, <1>4, <1>7, <1>8, GoesOn, PageStays, Alike

(* The archiving statement of publish keeps the invariant when it starts.  *)
LEMMA FindPublishedWell ==
  ASSUME IInv, NEW c \in Editors, FindPublished(c)
  PROVE  IInv'
<1>1. /\ c \in Requests /\ at[c] = "row" /\ Acquire(c) /\ Unblocked(c)
      /\ page[c].op = "publish" /\ Visit(c, Live \ {page[c].version})
      /\ at' = [at EXCEPT ![c] = "siblings"]
      /\ UNCHANGED <<lessonTask, rows, lesson, lessonVersions>>
      /\ page' = page /\ taken' = taken
  BY DEF FindPublished, Requests
<1>2. Needs(c) = {}
  BY <1>1 DEF Needs
<1>3. OwnersStep(c) /\ \A l \in Locks : owner'[l] = c <=> owner[l] = c
  BY <1>1, <1>2, Acquired
<1>4. at'[c] = "siblings"
  BY <1>1, Alike
<1>5. \A l \in Locks : owner'[l] = c => Proper(l, c)'
  BY <1>1, <1>3, <1>4, HeldProperly DEF Proper, Holding
<1>6. Live \ {page[c].version} \in SUBSET DOMAIN rows
  BY DEF Live
<1>7. /\ next' \in [Requests -> 0..MaxVersion] /\ todo' \in [Requests -> SUBSET Versions]
      /\ \A d \in Requests \ {c} : next'[d] = next[d] /\ todo'[d] = todo[d]
      /\ todo'[c] \subseteq Live \ {page[c].version}
      /\ next'[c] \in (Live \ {page[c].version}) \cup {0}
      /\ Live \ {page[c].version} \subseteq todo'[c] \cup {next'[c]}
      /\ next'[c] = 0 => todo'[c] = {}
  BY <1>1, <1>6, VisitFacts
<1>8. KeepsRow(c)' /\ taken[c] = {}
  <2>1. KeepsRow(c) /\ taken[c] = {}
    BY <1>1 DEF IInv, StageInv
  <2>2. Row(page[c].version) \in Locks
    BY <1>1, Alike, LockFacts DEF IInv, PageInv
  <2> QED BY <1>1, <1>3, <2>1, <2>2 DEF KeepsRow, Accepted, Target
<1>9. SiblingsInv(c)'
  <2>1. /\ todo'[c] \subseteq DOMAIN rows' /\ next'[c] \in DOMAIN rows' \cup {0}
        /\ next'[c] = 0 => todo'[c] = {}
        /\ taken'[c] = {}
    BY <1>1, <1>6, <1>7, <1>8
  <2>2. \A v \in page[c].live \ {page[c].version} :
          rows[v].status = "published" => v \in Found(c)'
    <3> TAKE v \in page[c].live \ {page[c].version}
    <3>1. v \in DOMAIN rows
      BY <1>1 DEF IInv, PageInv
    <3> QED BY <1>7, <3>1 DEF Live, Found
  <2> QED BY <1>1, <2>1, <2>2 DEF SiblingsInv
<1>10. StageInv(c)'
  BY <1>1, <1>4, <1>8, <1>9 DEF StageInv
<1>11. Live \ {page'[c].version} \subseteq Found(c)'
  BY <1>1, <1>7 DEF Found
<1>12. PageInv(c)'
  BY <1>1, PageStays
<1> QED BY <1>1, <1>3, <1>5, <1>7, <1>10, <1>11, <1>12, GoesOn, Alike

(* Locking a sibling, or passing over one archived meanwhile, keeps the    *)
(* invariant.                                                              *)
LEMMA ArchiveSiblingWell ==
  ASSUME IInv, NEW c \in Editors, ArchiveSibling(c)
  PROVE  IInv'
<1> DEFINE n == next[c]
<1>1. /\ c \in Requests /\ at[c] = "siblings" /\ n # 0 /\ Unblocked(c)
      /\ IF rows[n].status = "published"
         THEN Acquire(c) /\ taken' = [taken EXCEPT ![c] = @ \cup {n}]
         ELSE UNCHANGED <<owner, taken>>
      /\ Visit(c, todo[c])
      /\ UNCHANGED <<lessonTask, rows, lesson, lessonVersions, at, page>>
  BY DEF ArchiveSibling, Requests
<1>2. SiblingsInv(c) /\ KeepsRow(c) /\ page[c].op = "publish"
  BY <1>1 DEF IInv, StageInv
<1>3. n \in DOMAIN rows /\ n \in Versions /\ todo[c] \in SUBSET DOMAIN rows
  BY <1>1, <1>2, Alike DEF SiblingsInv
<1>4. Needs(c) = {Row(n)}
  BY <1>1 DEF Needs
<1>5. /\ next' \in [Requests -> 0..MaxVersion] /\ todo' \in [Requests -> SUBSET Versions]
      /\ \A d \in Requests \ {c} : next'[d] = next[d] /\ todo'[d] = todo[d]
      /\ todo'[c] \subseteq todo[c] /\ next'[c] \in todo[c] \cup {0}
      /\ todo[c] \subseteq todo'[c] \cup {next'[c]}
      /\ next'[c] = 0 => todo'[c] = {}
  BY <1>1, <1>3, VisitFacts
<1>6. /\ OwnersStep(c)
      /\ \A l \in Locks : owner'[l] = c => owner[l] = c \/ l = Row(n)
      /\ \A l \in Locks : owner[l] = c => owner'[l] = c
      /\ rows[n].status = "published" => owner'[Row(n)] = c
  <2>1. CASE rows[n].status = "published"
    BY <1>1, <1>3, <1>4, <2>1, Acquired, LockFacts
  <2>2. CASE rows[n].status # "published"
    BY <1>1, <2>2, KeptOwners
  <2> QED BY <2>1, <2>2
<1>7. /\ taken' \in [Requests -> SUBSET Versions]
      /\ \A d \in Requests \ {c} : taken'[d] = taken[d]
      /\ taken'[c] = IF rows[n].status = "published" THEN taken[c] \cup {n} ELSE taken[c]
  <2>1. CASE rows[n].status = "published"
    <3>1. taken' = [taken EXCEPT ![c] = @ \cup {n}]
      BY <1>1, <2>1
    <3> QED BY <1>1, <1>3, <2>1, <3>1, Alike
  <2>2. CASE rows[n].status # "published"
    BY <1>1, <2>2, Alike
  <2> QED BY <2>1, <2>2
<1>8. at' = [at EXCEPT ![c] = "siblings"]
  BY <1>1, Alike
<1>9. \A l \in Locks : owner'[l] = c => Proper(l, c)'
  <2> TAKE l \in Locks
  <2> HAVE owner'[l] = c
  <2>1. CASE owner[l] = c
    BY <1>1, <2>1, HeldProperly DEF Proper
  <2>2. CASE l = Row(n)
    BY <1>1, <1>3, <2>2, LockFacts DEF Proper, Holding
  <2> QED BY <1>6, <2>1, <2>2
<1>10. KeepsRow(c)'
  <2>1. Row(page[c].version) \in Locks
    BY <1>1, <1>2, Alike, LockFacts DEF IInv, PageInv
  <2> QED BY <1>1, <1>2, <1>6, <2>1 DEF KeepsRow, Accepted, Target
<1>11. \A v \in taken'[c] : v \in DOMAIN rows /\ rows[v].status = "published" /\ owner'[Row(v)] = c
  <2> TAKE v \in taken'[c]
  <2>1. CASE v \in taken[c]
    <3>1. v \in DOMAIN rows /\ rows[v].status = "published" /\ owner[Row(v)] = c
      BY <1>2, <2>1 DEF SiblingsInv
    <3>2. Row(v) \in Locks
      BY <3>1, Alike, LockFacts
    <3> QED BY <1>6, <3>1, <3>2
  <2>2. CASE v = n /\ rows[n].status = "published"
    BY <1>3, <1>6, <2>2
  <2> QED BY <1>7, <2>1, <2>2
<1>12. \A v : rows[v].status = "published" /\ v \in Found(c) => v \in Found(c)'
  BY <1>5, <1>7 DEF Found
<1>13. SiblingsInv(c)'
  <2>1. \A v \in page[c].live \ {page[c].version} :
          rows[v].status = "published" => v \in Found(c)'
    BY <1>2, <1>12 DEF SiblingsInv
  <2>2. todo'[c] \subseteq DOMAIN rows /\ next'[c] \in DOMAIN rows \cup {0}
    BY <1>3, <1>5
  <2> QED BY <1>1, <1>5, <1>11, <2>1, <2>2 DEF SiblingsInv
<1>14. StageInv(c)'
  BY <1>1, <1>2, <1>10, <1>13 DEF StageInv
<1>15. PageInv(c)'
  BY <1>1, PageStays
<1>16. Step(c)
  BY <1>1, <1>5, <1>6, <1>7 DEF Step, RowsStep, LessonStep, OthersStep
<1>17. TypeOK'
  BY <1>1, <1>5, <1>6, <1>7 DEF TypeOK, IInv, OwnersStep
<1>18. NumberInv'
  BY <1>1, NumberKept
<1>19. AloneInv'
  <2>1. \A d \in Editors : at'[d] = "siblings" => lessonTask \/ Live' \ {page'[d].version} \subseteq Found(d)'
    <3> TAKE d \in Editors
    <3> HAVE at'[d] = "siblings"
    <3>1. lessonTask \/ Live \ {page[d].version} \subseteq Found(d)
      BY <1>1 DEF IInv, AloneInv
    <3>2. CASE d = c
      BY <1>1, <1>12, <3>1, <3>2 DEF Live
    <3>3. CASE d # c
      <4>1. Found(d)' = Found(d)
        BY <1>5, <1>7, <3>3 DEF Found, Requests
      <4> QED BY <1>1, <3>1, <4>1 DEF Live
    <3> QED BY <3>2, <3>3
  <2>2. Live' = Live /\ Drafts' = Drafts /\ HighestVersion' = HighestVersion
    BY <1>1 DEF Live, Drafts, HighestVersion
  <2>3. ~lessonTask => /\ \A v \in Drafts : v = HighestVersion
                       /\ \A v, w \in Live : v = w
    BY DEF AloneInv, IInv
  <2>4. ~lessonTask' => /\ \A v \in Drafts' : v = HighestVersion'
                        /\ \A v, w \in Live' : v = w
    BY <1>1, <2>2, <2>3
  <2>5. ASSUME ~lessonTask', NEW d \in Editors, at'[d] = "siblings"
        PROVE  Live' \ {page'[d].version} \subseteq Found(d)'
    BY <1>1, <2>1, <2>5
  <2> QED BY <2>4, <2>5 DEF AloneInv
<1> QED BY <1>1, <1>9, <1>14, <1>15, <1>16, <1>17, <1>18, <1>19, WholeStep

(* Taking the advisory lock of the family keeps the invariant.             *)
LEMMA LockFamilyWell ==
  ASSUME IInv, NEW c \in Requests, LockFamily(c)
  PROVE  IInv'
<1>1. /\ \/ at[c] = "row" /\ page[c].op = "create-version"
         \/ at[c] = "lesson"
      /\ Unblocked(c) /\ Acquire(c)
      /\ at' = [at EXCEPT ![c] = "family"]
      /\ UNCHANGED <<lessonTask, rows, lesson, lessonVersions>>
      /\ page' = page /\ todo' = todo /\ taken' = taken /\ next' = next
  BY DEF LockFamily, waits
<1>2. Needs(c) = {Family}
  BY <1>1 DEF Needs
<1>3. /\ OwnersStep(c) /\ owner'[Family] = c
      /\ \A l \in Locks : owner'[l] = c => owner[l] = c \/ l = Family
      /\ \A l \in Locks : owner[l] = c => owner'[l] = c
  BY <1>1, <1>2, Acquired, LockFacts
<1>4. at'[c] = "family"
  BY <1>1, Alike
<1>5. \A l \in Locks : owner'[l] = c => Proper(l, c)'
  BY <1>3, <1>4, HeldProperly, LockFacts DEF Proper, Holding
<1>6. \/ KeepsRow(c) /\ page[c].op = "create-version"
      \/ KeepsLesson(c)
  BY <1>1 DEF IInv, StageInv
<1>7. KeepsRow(c) => KeepsRow(c)'
  <2>1. ASSUME KeepsRow(c) PROVE Row(page[c].version) \in Locks
    BY <1>1, <2>1, Alike, LockFacts DEF IInv, PageInv, KeepsRow
  <2> QED BY <1>1, <1>3, <2>1 DEF KeepsRow, Accepted, Target
<1>8. KeepsLesson(c) => KeepsLesson(c)'
  BY <1>1, <1>3, LockFacts DEF KeepsLesson
<1>9. StageInv(c)'
  BY <1>1, <1>3, <1>4, <1>6, <1>7, <1>8 DEF StageInv
<1>10. PageInv(c)'
  BY <1>1, PageStays
<1> QED BY <1>1, <1>3, <1>5, <1>9, <1>10, GoesOn, Alike

(* Reading max(version) + 1 under the lock of the family keeps the         *)
(* invariant.                                                              *)
LEMMA AllocateWell ==
  ASSUME IInv, NEW c \in Requests, Allocate(c)
  PROVE  IInv'
<1>1. /\ at[c] = "family"
      /\ page[c].op = "create-version" => ~DraftPending(c)
      /\ at' = [at EXCEPT ![c] = "allocated"]
      /\ next' = [next EXCEPT ![c] = NextVersion]
      /\ UNCHANGED <<lessonTask, rows, lesson, lessonVersions>>
      /\ owner' = owner /\ page' = page /\ todo' = todo /\ taken' = taken
  BY DEF Allocate
<1>2. /\ owner[Family] = c
      /\ \/ KeepsRow(c) /\ page[c].op = "create-version"
         \/ KeepsLesson(c)
  BY <1>1 DEF IInv, StageInv
<1>3. c \in Editors \cup Publishers
  BY <1>2 DEF KeepsRow, KeepsLesson
<1>4. NextVersion \in 0..MaxVersion
  BY <1>1, <1>3, NumberFree, AnsweredFacts DEF Versions, MaxVersion
<1>5. /\ next' \in [Requests -> 0..MaxVersion] /\ next'[c] = NextVersion
      /\ \A d \in Requests \ {c} : next'[d] = next[d]
  BY <1>1, <1>4, Alike
<1>6. at'[c] = "allocated"
  BY <1>1, Alike
<1>7. OwnersStep(c)
  BY <1>1, KeptOwners
<1>8. \A l \in Locks : owner'[l] = c => Proper(l, c)'
  BY <1>1, <1>6, HeldProperly DEF Proper, Holding
<1>9. \/ KeepsRow(c)' /\ page[c].op = "create-version"
      \/ KeepsLesson(c)'
  BY <1>1, <1>2 DEF KeepsRow, KeepsLesson, Accepted, Target
<1>10. c \in Editors => ~DraftPending(c)
  BY <1>1, <1>2, RequestsAssumption DEF KeepsLesson
<1>11. HighestVersion' = HighestVersion /\ (DraftPending(c)' <=> DraftPending(c))
  BY <1>1, SameHighest DEF DraftPending, Drafts
<1>12. StageInv(c)'
  BY <1>1, <1>2, <1>5, <1>6, <1>9, <1>10, <1>11 DEF StageInv, NextVersion
<1>13. PageInv(c)'
  BY <1>1, PageStays
<1> QED BY <1>1, <1>5, <1>7, <1>8, <1>12, <1>13, GoesOn, Alike
-----------------------------------------------------------------------------
(* A refused update keeps the invariant.                                   *)
LEMMA RefuseEditWell ==
  ASSUME IInv, NEW c \in Editors, RefuseEdit(c)
  PROVE  IInv'
BY RefusedWell DEF RefuseEdit, Requests

(* A new version refused for a pending draft keeps the invariant.          *)
LEMMA RefusePendingWell ==
  ASSUME IInv, NEW c \in Editors, RefusePending(c)
  PROVE  IInv'
BY RefusedWell DEF RefusePending, Requests

(* Deadlock detection keeps the invariant.                                 *)
LEMMA AbortVictimWell ==
  ASSUME IInv, NEW c \in Requests, AbortVictim(c)
  PROVE  IInv'
<1>1. Blockers(c) # {} /\ Ends(c, "aborted")
      /\ UNCHANGED <<lessonTask, rows, lesson, lessonVersions, page, waits>>
  BY DEF AbortVictim, WaitCycle
<1>2. Needs(c) # {}
  BY <1>1 DEF Blockers
<1>3. at[c] \notin {"idle", "done"}
  BY <1>2 DEF Needs
<1> QED BY <1>1, <1>3, RefusedWell

(* The fields the writes of updateActivity leave alone.                    *)
LEMMA RowFields ==
  ASSUME NEW r \in Rows, NEW x \in Texts
  PROVE  /\ [r EXCEPT !.text = x, !.due = x] \in Rows
         /\ [r EXCEPT !.text = x, !.due = x].rev = r.rev
         /\ [r EXCEPT !.text = x, !.due = x].status = r.status
         /\ [r EXCEPT !.due = x] \in Rows
         /\ [r EXCEPT !.due = x].rev = r.rev /\ [r EXCEPT !.due = x].status = r.status
         /\ [r EXCEPT !.status = "archived"] \in Rows
         /\ [r EXCEPT !.status = "archived"].rev = r.rev
         /\ [r EXCEPT !.status = "archived"].status = "archived"
         /\ [r EXCEPT !.status = "archived"].text = r.text
         /\ [r EXCEPT !.status = "archived"].due = r.due
BY DEF Rows

(* save, archive and adjust-due-date keep the invariant.                   *)
LEMMA EditRowWell ==
  ASSUME IInv, NEW c \in Editors, EditRow(c)
  PROVE  IInv'
<1> DEFINE v == page[c].version
           row == Revised(c, Target(c))
           new == CASE page[c].op = "save" -> [row EXCEPT !.text = c, !.due = c]
                    [] page[c].op = "archive" -> [row EXCEPT !.status = "archived"]
                    [] page[c].op = "adjust-due-date" -> [row EXCEPT !.due = c]
<1>1. /\ c \in Requests /\ at[c] = "sent" /\ Unblocked(c) /\ Accepted(c)
      /\ page[c].op \in {"save", "archive", "adjust-due-date"}
      /\ rows' = WithRow(v, new) /\ Ends(c, "done")
      /\ UNCHANGED <<lessonTask, lesson, lessonVersions, page, waits>>
  BY DEF EditRow, Requests
<1>2. v \in DOMAIN rows /\ rows[v] \in Rows /\ v \in Versions
  BY <1>1, Alike DEF IInv, PageInv
<1>3. owner[Row(v)] \in {c, Nobody}
  BY <1>1, LockFacts DEF Unblocked, Blockers, Needs
<1>4. Moved(rows[v], new) /\ (new.status = rows[v].status \/ new.status = "archived")
  <2>1. /\ row \in Rows /\ row.rev = rows[v].rev + 1 /\ row.status = rows[v].status
        /\ c \in Texts
    BY <1>1, <1>2 DEF Revised, Target, Rows, Texts
  <2> HIDE DEF row
  <2>2. rows[v].rev \in Nat
    BY <1>2 DEF Rows
  <2>3. CASE page[c].op = "save"
    <3>1. new = [row EXCEPT !.text = c, !.due = c]
      BY <2>3
    <3> HIDE DEF new
    <3>2. /\ [row EXCEPT !.text = c, !.due = c] \in Rows
          /\ [row EXCEPT !.text = c, !.due = c].rev = row.rev
          /\ [row EXCEPT !.text = c, !.due = c].status = row.status
      BY <2>1, RowFields, Zenon
    <3>4. new \in Rows /\ new.rev = row.rev /\ new.status = row.status
      BY <3>1, <3>2, Zenon
    <3> QED BY <2>1, <2>2, <3>4 DEF Moved
  <2>4. CASE page[c].op = "archive"
    <3>1. new = [row EXCEPT !.status = "archived"]
      BY <2>4
    <3> HIDE DEF new
    <3>2. /\ [row EXCEPT !.status = "archived"] \in Rows
          /\ [row EXCEPT !.status = "archived"].rev = row.rev
          /\ [row EXCEPT !.status = "archived"].status = "archived"
      BY <2>1, RowFields, Zenon
    <3>4. new \in Rows /\ new.rev = row.rev /\ new.status = "archived"
      BY <3>1, <3>2, Zenon
    <3>3. rows[v].status = "published"
      BY <1>1, <2>4 DEF Accepted, Target
    <3> QED BY <2>1, <2>2, <3>4, <3>3 DEF Moved
  <2>5. CASE page[c].op = "adjust-due-date"
    <3>1. new = [row EXCEPT !.due = c]
      BY <2>5
    <3> HIDE DEF new
    <3>2. /\ [row EXCEPT !.due = c] \in Rows
          /\ [row EXCEPT !.due = c].rev = row.rev
          /\ [row EXCEPT !.due = c].status = row.status
      BY <2>1, RowFields, Zenon
    <3>4. new \in Rows /\ new.rev = row.rev /\ new.status = row.status
      BY <3>1, <3>2, Zenon
    <3> QED BY <2>1, <2>2, <3>4 DEF Moved
  <2> QED BY <1>1, <2>3, <2>4, <2>5
<1> HIDE DEF new, row
<1>5. /\ DOMAIN rows' = DOMAIN rows
      /\ \A w \in DOMAIN rows : rows'[w] = IF w = v THEN new ELSE rows[w]
  BY <1>1, <1>2 DEF WithRow
<1>6. RowsStep(c) /\ LessonStep(c)
  BY <1>1, <1>3, <1>4, <1>5 DEF RowsStep, LessonStep
<1>7. RowsTyped' /\ LessonTyped'
  <2>1. new \in Rows
    BY <1>4 DEF Moved
  <2> QED BY <1>1, <1>5, <2>1, Alike DEF RowsTyped, LessonTyped, IInv, TypeOK
<1>8. NumberInv'
  BY <1>1, <1>5, EndsKeepNumber
<1>9. AloneInv'
  <2>1. \A w \in DOMAIN rows : rows'[w].status = rows[w].status \/ rows'[w].status = "archived"
    BY <1>4, <1>5
  <2> QED BY <1>1, <1>5, <2>1, EndsKeepAlone
<1> QED BY <1>1, <1>6, <1>7, <1>8, <1>9, EndsWell

(* The commit of a publish keeps the invariant: every other live version   *)
(* was found, and is archived with it.                                     *)
LEMMA CommitPublishWell ==
  ASSUME IInv, NEW c \in Editors, CommitPublish(c)
  PROVE  IInv'
<1> DEFINE v == page[c].version
           pub == [Revised(c, rows[v]) EXCEPT !.status = "published"]
           arch(w) == [rows[w] EXCEPT !.status = "archived"]
<1>1. /\ c \in Requests /\ at[c] = "siblings" /\ next[c] = 0
      /\ rows' = [w \in DOMAIN rows |->
           IF w = v THEN [Revised(c, rows[w]) EXCEPT !.status = "published"]
           ELSE IF w \in taken[c] THEN [rows[w] EXCEPT !.status = "archived"]
           ELSE rows[w]]
      /\ Ends(c, "done")
      /\ UNCHANGED <<lessonTask, lesson, lessonVersions, page, waits>>
  BY DEF CommitPublish, Requests
<1>2. KeepsRow(c) /\ page[c].op = "publish" /\ SiblingsInv(c)
  BY <1>1 DEF IInv, StageInv
<1>3. v \in DOMAIN rows /\ rows[v] \in Rows /\ rows[v].status = "draft" /\ owner[Row(v)] = c
  BY <1>1, <1>2, Alike DEF IInv, PageInv, KeepsRow, Accepted, Target
<1>4. Moved(rows[v], pub) /\ pub.status = "published"
  <2> DEFINE rev == Revised(c, rows[v])
  <2>1. rev \in Rows /\ rev.rev = rows[v].rev + 1
    BY <1>3 DEF Revised, Rows
  <2> HIDE DEF rev
  <2>2. pub = [rev EXCEPT !.status = "published"]
    BY DEF rev
  <2>3. pub \in Rows /\ pub.rev = rev.rev /\ pub.status = "published"
    BY <2>1, <2>2 DEF Rows
  <2> HIDE DEF pub
  <2> QED BY <1>3, <2>1, <2>3 DEF Moved, Rows
<1>5. \A w \in taken[c] : /\ w \in DOMAIN rows /\ owner[Row(w)] = c
                          /\ Moved(rows[w], arch(w)) /\ arch(w).status = "archived"
  <2> TAKE w \in taken[c]
  <2>1. w \in DOMAIN rows /\ rows[w].status = "published" /\ owner[Row(w)] = c /\ rows[w] \in Rows
    BY <1>2, Alike DEF SiblingsInv
  <2> QED BY <2>1 DEF Moved, Rows
<1>6. /\ DOMAIN rows' = DOMAIN rows /\ rows'[v] = pub
      /\ \A w \in DOMAIN rows \ {v} : rows'[w] = IF w \in taken[c] THEN arch(w) ELSE rows[w]
  BY <1>1, <1>3
<1> HIDE DEF pub, arch
<1>7. RowsStep(c) /\ LessonStep(c)
  <2>1. \A w \in DOMAIN rows : \/ rows'[w] = rows[w]
                               \/ owner[Row(w)] \in {c, Nobody} /\ Moved(rows[w], rows'[w])
    BY <1>3, <1>4, <1>5, <1>6
  <2> QED BY <1>1, <1>6, <2>1 DEF RowsStep, LessonStep
<1>8. RowsTyped' /\ LessonTyped'
  <2>1. \A w \in DOMAIN rows : rows'[w] \in Rows
    BY <1>4, <1>5, <1>6, Alike DEF Moved
  <2> QED BY <1>1, <1>6, <2>1, Alike DEF RowsTyped, LessonTyped, IInv, TypeOK
<1>9. NumberInv'
  BY <1>1, <1>6, EndsKeepNumber
<1>10. AloneInv'
  <2> SUFFICES ASSUME ~lessonTask PROVE AloneInv'
    BY <1>1 DEF AloneInv
  <2>1. /\ \A w \in Drafts : w = HighestVersion
        /\ \A w, x \in Live : w = x
        /\ Live \ {v} \subseteq Found(c)
    BY <1>1 DEF IInv, AloneInv
  <2>2. Live' \subseteq {v}
    <3> SUFFICES ASSUME NEW w \in Live', w # v PROVE FALSE
      OBVIOUS
    <3>1. w \in DOMAIN rows /\ rows'[w].status = "published"
      BY <1>6 DEF Live
    <3>2. w \notin taken[c] /\ w \in Live
      BY <1>5, <1>6, <3>1 DEF Live
    <3>3. w \in Found(c) /\ w # 0
      <4>1. w \in Versions
        BY <3>1, Alike
      <4> QED BY <2>1, <3>2, <4>1 DEF Versions
    <3> QED BY <1>1, <1>2, <3>2, <3>3 DEF Found, SiblingsInv
  <2>3. Drafts' \subseteq Drafts
    BY <1>4, <1>5, <1>6 DEF Drafts
  <2>4. HighestVersion' = HighestVersion
    BY <1>6, SameHighest
  <2>5. ASSUME NEW d \in Editors, at'[d] = "siblings" PROVE FALSE
    <3>1. d # c /\ at[d] = "siblings" /\ d \in Requests
      BY <1>1, <2>5, Alike DEF Ends, Requests
    <3>2. KeepsRow(d) /\ page[d].op = "publish" /\ page[d].version \in DOMAIN rows
      BY <3>1 DEF IInv, StageInv, PageInv
    <3>3. page[d].version \in Drafts /\ v \in Drafts
      BY <1>3, <3>2 DEF KeepsRow, Accepted, Target, Drafts
    <3>4. page[d].version = v
      BY <2>1, <3>3
    <3> QED BY <1>3, <3>1, <3>2, <3>4 DEF KeepsRow
  <2> QED BY <2>1, <2>2, <2>3, <2>4, <2>5 DEF AloneInv
<1> QED BY <1>1, <1>7, <1>8, <1>9, <1>10, EndsWell

(* A new draft keeps the invariant: the version it was made of is          *)
(* published, so no older draft is left, and no newer one stood in the     *)
(* way.                                                                    *)
LEMMA InsertDraftWell ==
  ASSUME IInv, NEW c \in Editors, InsertDraft(c)
  PROVE  IInv'
<1> DEFINE v == page[c].version
           new == [status |-> "draft", rev |-> 1, text |-> c, due |-> c]
<1>1. /\ c \in Requests /\ at[c] = "allocated" /\ page[c].op = "create-version"
      /\ IF next[c] \in DOMAIN rows
         THEN Ends(c, "refused") /\ UNCHANGED rows
         ELSE rows' = WithRow(next[c], new) /\ Ends(c, "done")
      /\ UNCHANGED <<lessonTask, lesson, lessonVersions, page, waits>>
  BY DEF InsertDraft, Requests
<1>2. /\ owner[Family] = c /\ KeepsRow(c)
      /\ next[c] = NextVersion /\ ~DraftPending(c)
  BY <1>1, RequestsAssumption DEF IInv, StageInv, KeepsLesson, NextVersion
<1>3. NextVersion \in Versions /\ NextVersion \notin DOMAIN rows
  BY <1>1, NumberFree
<1>4. rows' = WithRow(NextVersion, new) /\ Ends(c, "done")
  BY <1>1, <1>2, <1>3
<1>5. new \in Rows
  BY <1>1 DEF Rows, Texts
<1> HIDE DEF new
<1>6. /\ DOMAIN rows' = DOMAIN rows \cup {NextVersion} /\ rows'[NextVersion] = new
      /\ \A w \in DOMAIN rows : rows'[w] = rows[w]
  BY <1>3, <1>4 DEF WithRow
<1>7. RowsStep(c) /\ LessonStep(c)
  BY <1>1, <1>2, <1>6 DEF RowsStep, LessonStep
<1>8. RowsTyped' /\ LessonTyped'
  BY <1>1, <1>3, <1>5, <1>6, Alike DEF RowsTyped, LessonTyped, IInv, TypeOK
<1>9. at'[c] = "done" /\ \A d \in Requests \ {c} : at'[d] = at[d]
  BY <1>1, <1>4, Alike DEF Ends
<1>10. NumberInv' /\ HighestVersion' = NextVersion
  BY <1>1, <1>6, <1>9, NumberGrown
<1>11. AloneInv'
  <2> SUFFICES ASSUME ~lessonTask PROVE AloneInv'
    BY <1>1 DEF AloneInv
  <2>1. Drafts = {}
    <3> SUFFICES ASSUME NEW w \in Drafts PROVE FALSE
      OBVIOUS
    <3>1. w = HighestVersion /\ w \in DOMAIN rows /\ rows[w].status = "draft"
      BY DEF IInv, AloneInv, Drafts
    <3>2. v \in DOMAIN rows /\ rows[v].status = "published"
      BY <1>1, <1>2 DEF IInv, PageInv, KeepsRow, Accepted, Target
    <3>3. v <= w /\ v # w /\ v \in Nat /\ w \in Nat
      BY <3>1, <3>2 DEF IInv, NumberInv
    <3> QED BY <1>2, <3>3 DEF DraftPending
  <2>2. Live' = Live
    BY <1>3, <1>6 DEF Live, new
  <2>3. Drafts' \subseteq {NextVersion}
    BY <1>3, <1>6, <2>1 DEF Drafts
  <2>4. ASSUME NEW d \in Editors, at'[d] = "siblings"
        PROVE  Live' \ {page'[d].version} \subseteq Found(d)'
    <3>1. at[d] = "siblings"
      BY <1>9, <2>4 DEF Requests
    <3> QED BY <1>1, <2>2, <3>1 DEF IInv, AloneInv, Found, waits
  <2>5. \A w, x \in Live : w = x
    BY DEF IInv, AloneInv
  <2> QED BY <1>1, <1>10, <2>2, <2>3, <2>4, <2>5 DEF AloneInv
<1> QED BY <1>1, <1>4, <1>7, <1>8, <1>10, <1>11, EndsWell

(* A task the lesson publisher adds keeps the invariant.                   *)
LEMMA InsertTaskWell ==
  ASSUME IInv, NEW c \in Publishers, InsertTask(c)
  PROVE  IInv'
<1> DEFINE new == [status |-> "published", rev |-> 1, text |-> lesson.text, due |-> First]
<1>1. /\ c \in Requests /\ at[c] = "allocated"
      /\ IF next[c] \in DOMAIN rows
         THEN Ends(c, "aborted") /\ UNCHANGED <<rows, lessonVersions>>
         ELSE /\ rows' = WithRow(next[c], new)
              /\ lessonVersions' = Append(lessonVersions, lesson.text)
              /\ Ends(c, "done")
      /\ UNCHANGED <<lessonTask, lesson, page, waits>>
  BY DEF InsertTask, Requests
<1>2. owner[Family] = c /\ next[c] = NextVersion /\ c \notin Editors
  BY <1>1, RequestsAssumption DEF IInv, StageInv, NextVersion
<1>3. NextVersion \in Versions /\ NextVersion \notin DOMAIN rows
  BY <1>1, NumberFree
<1>4. /\ rows' = WithRow(NextVersion, new) /\ Ends(c, "done")
      /\ lessonVersions' = Append(lessonVersions, lesson.text)
  BY <1>1, <1>2, <1>3
<1>5. TypeOK
  BY DEF IInv
<1>6. new \in Rows
  BY <1>5 DEF TypeOK, Rows, Texts
<1> HIDE DEF new
<1>7. /\ DOMAIN rows' = DOMAIN rows \cup {NextVersion} /\ rows'[NextVersion] = new
      /\ \A w \in DOMAIN rows : rows'[w] = rows[w]
  BY <1>3, <1>4 DEF WithRow
<1>8. RowsStep(c) /\ LessonStep(c)
  BY <1>1, <1>2, <1>7 DEF RowsStep, LessonStep
<1>9. RowsTyped' /\ LessonTyped'
  BY <1>1, <1>3, <1>4, <1>5, <1>6, <1>7 DEF RowsTyped, LessonTyped, TypeOK
<1>10. at'[c] = "done" /\ \A d \in Requests \ {c} : at'[d] = at[d]
  BY <1>1, <1>4, Alike DEF Ends
<1>11. NumberInv'
  BY <1>1, <1>7, <1>10, NumberGrown
<1>12. AloneInv'
  <2>1. lessonTask
    BY <1>1, <1>2 DEF IInv, PageInv
  <2> QED BY <1>1, <2>1 DEF AloneInv
<1> QED BY <1>1, <1>4, <1>8, <1>9, <1>11, <1>12, EndsWell

(* Locking the lesson keeps the invariant.                                 *)
LEMMA LockLessonWell ==
  ASSUME IInv, NEW c \in Publishers, LockLesson(c)
  PROVE  IInv'
<1>1. /\ c \in Requests /\ c \notin Editors /\ at[c] = "sent" /\ Unblocked(c)
      /\ UNCHANGED <<lessonTask, rows, lesson, lessonVersions, page, waits>>
  BY RequestsAssumption DEF LockLesson, Requests
<1>2. CASE lesson.rev # page[c].rev
  BY <1>1, <1>2, RefusedWell DEF LockLesson
<1>3. CASE lesson.rev = page[c].rev
  <2>1. Acquire(c) /\ at' = [at EXCEPT ![c] = "lesson"]
    BY <1>3 DEF LockLesson
  <2>2. Needs(c) = {Lesson}
    BY <1>1 DEF IInv, PageInv, Needs
  <2>3. OwnersStep(c) /\ owner'[Lesson] = c /\ \A l \in Locks : owner'[l] = c => l = Lesson
    BY <1>1, <2>1, <2>2, Acquired, NothingHeld, LockFacts DEF Holding
  <2>4. at'[c] = "lesson"
    BY <1>1, <2>1, Alike
  <2>5. \A l \in Locks : owner'[l] = c => Proper(l, c)'
    BY <2>3, <2>4, LockFacts DEF Proper, Holding
  <2>6. StageInv(c)'
    BY <1>1, <1>3, <2>3, <2>4 DEF StageInv, KeepsLesson
  <2>7. PageInv(c)'
    BY <1>1, PageStays
  <2>8. page' = page /\ todo' = todo /\ taken' = taken /\ next' = next
    BY <1>1 DEF waits
  <2> QED BY <1>1, <2>1, <2>3, <2>5, <2>6, <2>7, <2>8, GoesOn, Alike
<1> QED BY <1>2, <1>3

(* Saving the draft of the lesson keeps the invariant.                     *)
LEMMA SaveLessonWell ==
  ASSUME IInv, NEW c \in Requests, SaveLesson(c)
  PROVE  IInv'
<1>1. /\ at[c] = "sent" /\ c \in Savers /\ Unblocked(c)
      /\ UNCHANGED <<lessonTask, rows, lessonVersions, page, waits>>
  BY DEF SaveLesson
<1>2. CASE lesson.rev # page[c].rev
  BY <1>1, <1>2, RefusedWell DEF SaveLesson
<1>3. CASE lesson.rev = page[c].rev
  <2>1. lesson' = [rev |-> lesson.rev + 1, text |-> c] /\ Ends(c, "done")
    BY <1>3 DEF SaveLesson
  <2>2. Needs(c) = {Lesson}
    BY <1>1, RequestsAssumption DEF IInv, PageInv, Needs
  <2>3. owner[Lesson] \in {c, Nobody}
    BY <1>1, <2>2 DEF Unblocked, Blockers
  <2>4. lesson.rev \in Nat
    BY DEF IInv, TypeOK
  <2>5. RowsStep(c) /\ LessonStep(c)
    BY <1>1, <2>1, <2>3, <2>4 DEF RowsStep, LessonStep
  <2>6. RowsTyped' /\ LessonTyped'
    BY <1>1, <2>1, <2>4 DEF RowsTyped, LessonTyped, IInv, TypeOK, Texts
  <2> QED BY <1>1, <2>1, <2>5, <2>6, EndsKeepNumber, EndsKeepAlone, EndsWell
<1> QED BY <1>2, <1>3

(* The first row of a family keeps the invariant: nobody has a page on it  *)
(* yet.                                                                    *)
LEMMA CreateActivityWell ==
  ASSUME IInv, CreateActivity
  PROVE  IInv'
<1> DEFINE new == [status |-> "draft", rev |-> 1, text |-> First, due |-> First]
<1>1. /\ ~lessonTask /\ DOMAIN rows = {} /\ rows' = WithRow(1, new)
      /\ UNCHANGED <<lessonTask, lesson, lessonVersions, owner, at, page, waits>>
  BY DEF CreateActivity
<1>2. \A c \in Requests : at[c] = "idle"
  BY <1>1 DEF IInv, PageInv
<1>3. DOMAIN rows' = {1} /\ rows'[1] = new
  BY <1>1 DEF WithRow
<1>4. new \in Rows /\ 1 \in Versions
  BY AnsweredFacts DEF Rows, Texts, Versions, MaxVersion
<1>5. TypeOK'
  <2>1. DOMAIN rows' \subseteq Versions /\ \A v \in DOMAIN rows' : rows'[v] \in Rows
    BY <1>3, <1>4
  <2> QED BY <1>1, <2>1 DEF IInv, TypeOK, waits
<1>6. HighestVersion' = 1
  <2>1. DOMAIN rows' = 1..1
    BY <1>3
  <2> QED BY <2>1, HighestOf DEF HighestVersion
<1>7. NumberInv'
  <2>1. Answered' = {}
    BY <1>1, <1>2 DEF Answered, Requests
  <2> QED BY <1>3, <1>6, <2>1, FS_EmptySet DEF NumberInv
<1>8. HolderInv'
  BY <1>1 DEF IInv, HolderInv
<1>9. AloneInv'
  <2>1. Live' = {} /\ Drafts' \subseteq {1}
    BY <1>3 DEF Live, Drafts
  <2>2. \A c \in Editors : at'[c] # "siblings"
    BY <1>1, <1>2 DEF Requests
  <2> QED BY <1>6, <2>1, <2>2 DEF AloneInv
<1>10. \A c \in Requests : PageInv(c)' /\ StageInv(c)'
  <2> TAKE c \in Requests
  <2>1. at'[c] = "idle" /\ taken'[c] = taken[c] /\ taken[c] = {}
    BY <1>1, <1>2 DEF waits, IInv, StageInv
  <2> QED BY <2>1 DEF PageInv, StageInv
<1> QED BY <1>5, <1>7, <1>8, <1>9, <1>10 DEF IInv

(* The invariant holds at the start.                                       *)
LEMMA InitIInv == Init => IInv
<1> SUFFICES ASSUME Init PROVE IInv
  OBVIOUS
<1>1. /\ rows = [v \in {} |-> First] /\ DOMAIN rows = {}
      /\ \A c \in Requests : at[c] = "idle" /\ taken[c] = {}
      /\ \A l \in Locks : owner[l] = Nobody
  BY DEF Init
<1>2. MaxVersion \in Nat
  BY AnsweredFacts DEF MaxVersion
<1>3. TypeOK
  BY <1>1, <1>2 DEF Init, TypeOK, Stages, Texts
<1>4. HighestVersion = 0 /\ Live = {} /\ Drafts = {}
  BY <1>1 DEF HighestVersion, Live, Drafts
<1>5. Answered = {}
  BY <1>1 DEF Answered, Requests
<1>6. NumberInv
  BY <1>1, <1>4, <1>5, FS_EmptySet DEF NumberInv
<1>7. HolderInv /\ AloneInv
  BY <1>1, <1>4 DEF HolderInv, AloneInv, Requests
<1>8. \A c \in Requests : PageInv(c) /\ StageInv(c)
  BY <1>1 DEF PageInv, StageInv
<1> QED BY <1>3, <1>6, <1>7, <1>8 DEF IInv

(* Every step keeps the invariant.                                         *)
LEMMA NextIInv == IInv /\ [Next]_vars => IInv'
<1> SUFFICES ASSUME IInv, [Next]_vars PROVE IInv'
  OBVIOUS
<1>1. CASE CreateActivity
  BY <1>1, CreateActivityWell
<1>2. ASSUME NEW c \in Editors, NEW v \in Versions, NEW op \in Operations, OpenActivity(c, v, op)
      PROVE  IInv'
  BY <1>2, OpenActivityWell
<1>3. ASSUME NEW c \in Publishers \cup Savers, OpenLesson(c) PROVE IInv'
  BY <1>3, OpenLessonWell
<1>4. ASSUME NEW c \in Editors, Update(c) PROVE IInv'
  <2>1. CASE RefuseEdit(c)
    BY <2>1, RefuseEditWell
  <2>2. CASE EditRow(c)
    BY <2>2, EditRowWell
  <2>3. CASE LockRow(c)
    BY <2>3, LockRowWell
  <2>4. CASE FindPublished(c)
    BY <2>4, FindPublishedWell
  <2>5. CASE ArchiveSibling(c)
    BY <2>5, ArchiveSiblingWell
  <2>6. CASE CommitPublish(c)
    BY <2>6, CommitPublishWell
  <2>7. CASE RefusePending(c)
    BY <2>7, RefusePendingWell
  <2>8. CASE InsertDraft(c)
    BY <2>8, InsertDraftWell
  <2> QED BY <1>4, <2>1, <2>2, <2>3, <2>4, <2>5, <2>6, <2>7, <2>8 DEF Update
<1>5. ASSUME NEW c \in Publishers, Publish(c) PROVE IInv'
  BY <1>5, LockLessonWell, InsertTaskWell DEF Publish
<1>6. ASSUME NEW c \in Requests, Serve(c) PROVE IInv'
  BY <1>4, <1>5, <1>6, SaveLessonWell, LockFamilyWell, AllocateWell DEF Serve
<1>7. ASSUME NEW c \in Requests, AbortVictim(c) PROVE IInv'
  BY <1>7, AbortVictimWell
<1>8. CASE UNCHANGED vars
  <2>1. /\ UNCHANGED <<lessonTask, rows, lesson, lessonVersions, owner, at, page>>
        /\ UNCHANGED <<todo, taken, next>>
    BY <1>8 DEF vars
  <2>2. TypeOK' /\ HolderInv'
    BY <2>1 DEF IInv, TypeOK, HolderInv
  <2>5. NumberInv'
    BY <2>1, NumberKept
  <2>3. AloneInv'
    BY <2>1 DEF IInv, AloneInv, Live, Drafts, HighestVersion, Found
  <2>4. ASSUME NEW c \in Requests PROVE PageInv(c)' /\ StageInv(c)'
    <3>1. PageInv(c)'
      BY <2>1 DEF IInv, PageInv, Target
    <3>2. /\ KeepsRow(c)' <=> KeepsRow(c)
          /\ KeepsLesson(c)' <=> KeepsLesson(c)
      BY <2>1 DEF KeepsRow, KeepsLesson, Accepted, Target
    <3>3. SiblingsInv(c)' <=> SiblingsInv(c)
      BY <2>1 DEF SiblingsInv, Found
    <3>4. (DraftPending(c)' <=> DraftPending(c)) /\ HighestVersion' = HighestVersion
      BY <2>1 DEF DraftPending, Drafts, HighestVersion
    <3>5. StageInv(c)
      BY DEF IInv
    <3>6. StageInv(c)'
      BY <2>1, <3>2, <3>3, <3>4, <3>5 DEF StageInv
    <3> QED BY <3>1, <3>6
  <2> QED BY <2>2, <2>3, <2>4, <2>5 DEF IInv
<1> QED BY <1>1, <1>2, <1>3, <1>6, <1>7, <1>8 DEF Next
-----------------------------------------------------------------------------
(* The variables keep their types; above all, no version passes the bound  *)
(* the number of requests sets.                                            *)
THEOREM TypeCorrect == Spec => []TypeOK
<1>1. IInv => TypeOK
  BY DEF IInv
<1> QED BY InitIInv, NextIInv, <1>1, PTL DEF Spec

(* The unique index on (lesson, activity_key, version) never refuses a     *)
(* command that was allowed to go on: max(version) + 1, read under the     *)
(* lock of the family, is still free when its row is inserted.             *)
THEOREM FreshAllocation == Spec => []AllocationIsFresh
<1>1. IInv => AllocationIsFresh
  <2> SUFFICES ASSUME IInv, NEW c \in Requests, at[c] = "allocated"
               PROVE  next[c] \notin DOMAIN rows
    BY DEF AllocationIsFresh
  <2>1. next[c] = HighestVersion + 1
    BY DEF IInv, StageInv
  <2> QED BY <2>1 DEF IInv, NumberInv
<1> QED BY InitIInv, NextIInv, <1>1, PTL DEF Spec

(* A set whose elements are all equal has one at most.                     *)
LEMMA AtMostOne ==
  ASSUME NEW S, \A x, y \in S : x = y
  PROVE  Cardinality(S) <= 1
<1>1. CASE S = {}
  BY <1>1, FS_EmptySet
<1>2. CASE S # {}
  <2>1. PICK x \in S : S = {x}
    BY <1>2
  <2> QED BY <2>1, FS_Singleton
<1> QED BY <1>1, <1>2

(* A family that stands alone has one published version at most and one    *)
(* draft at most, though publish archives its siblings without the lock of *)
(* the family.                                                             *)
THEOREM OneLive == Spec => []OneLiveVersion
<1>1. IInv => OneLiveVersion
  BY AtMostOne DEF IInv, AloneInv, OneLiveVersion
<1> QED BY InitIInv, NextIInv, <1>1, PTL DEF Spec
-----------------------------------------------------------------------------
(* A request waits only for another that holds one of its locks properly.  *)
LEMMA HolderOf ==
  ASSUME IInv, NEW c \in Requests, NEW d \in Blockers(c)
  PROVE  /\ d # c /\ d \in Requests
         /\ \E l \in Needs(c) : l \in Locks /\ owner[l] = d /\ Proper(l, d)
<1>1. PICK l \in Needs(c) : owner[l] = d /\ d # c /\ d # Nobody
  BY DEF Blockers
<1>2. l \in Locks
  <2>1. CASE at[c] = "sent" /\ page[c].op # "lesson"
    <3>1. l = Row(page[c].version) /\ c \in Editors
      BY <1>1, <2>1 DEF Needs, IInv, PageInv
    <3>2. page[c].version \in Versions
      BY <2>1, <3>1, Alike DEF IInv, PageInv
    <3> QED BY <3>1, <3>2, LockFacts
  <2>2. CASE at[c] = "siblings"
    <3>1. l = Row(next[c]) /\ next[c] # 0
      BY <1>1, <2>2 DEF Needs
    <3>2. next[c] \in Versions
      BY <2>2, <3>1, Alike DEF IInv, StageInv, SiblingsInv
    <3> QED BY <3>1, <3>2, LockFacts
  <2>3. CASE ~(at[c] = "sent" /\ page[c].op # "lesson") /\ at[c] # "siblings"
    BY <1>1, <2>3, LockFacts DEF Needs
  <2> QED BY <2>1, <2>2, <2>3
<1>3. d \in Requests
  BY <1>1, <1>2, Alike
<1>4. Proper(l, d)
  BY <1>1, <1>2, <1>3, HeldProperly
<1> QED BY <1>1, <1>2, <1>3, <1>4

(* In a family that stands alone no commands ever wait for each other in a *)
(* cycle: rows before the family, and two publishes never lock each        *)
(* other's drafts, as there is one draft.                                  *)
THEOREM AloneNoWaitCycle == Spec => []NoWaitCycleAlone
<1>1. IInv => NoWaitCycleAlone
  <2> SUFFICES ASSUME IInv, ~lessonTask, NEW c \in Requests, Blockers(c) # {},
                      NEW S \in SUBSET Requests, c \in S,
                      \A d \in S : Blockers(d) \cap S # {}
               PROVE  FALSE
    BY DEF NoWaitCycleAlone, WaitCycle
  <2>1. \A d \in S : at[d] \in {"sent", "row", "siblings", "allocated"} /\ d \in Editors
    <3> TAKE d \in S
    <3>1. Needs(d) # {}
      BY DEF Blockers
    <3>2. d \in Editors
      BY <3>1 DEF IInv, PageInv, Needs
    <3>3. at[d] # "lesson"
      BY <3>2, RequestsAssumption DEF IInv, StageInv, KeepsLesson
    <3> QED BY <3>1, <3>2, <3>3 DEF Needs
  <2>2. \A d \in S : at[d] # "allocated"
    <3> SUFFICES ASSUME NEW d \in S, at[d] = "allocated" PROVE FALSE
      OBVIOUS
    <3>1. PICK e \in S : e \in Blockers(d)
      OBVIOUS
    <3>2. PICK l \in Needs(d) : l \in Locks /\ owner[l] = e /\ Proper(l, e)
      BY <3>1, HolderOf
    <3>3. l = Lesson
      BY <3>2 DEF Needs
    <3> QED BY <2>1, <3>1, <3>2, <3>3, RequestsAssumption DEF Proper
  <2>3. \A d \in S : at[d] # "row"
    <3> SUFFICES ASSUME NEW d \in S, at[d] = "row" PROVE FALSE
      OBVIOUS
    <3>1. PICK e \in S : e \in Blockers(d)
      OBVIOUS
    <3>2. PICK l \in Needs(d) : l \in Locks /\ owner[l] = e /\ Proper(l, e)
      BY <3>1, HolderOf
    <3>3. l = Family
      BY <3>2 DEF Needs
    <3> QED BY <2>1, <2>2, <3>1, <3>2, <3>3 DEF Proper
  <2>4. \A d \in S : \E e \in S : e # d /\ at[e] = "siblings"
    <3> TAKE d \in S
    <3>1. PICK e \in S : e \in Blockers(d)
      OBVIOUS
    <3>2. e # d /\ \E l \in Needs(d) : l \in Locks /\ owner[l] = e /\ Proper(l, e)
      BY <3>1, HolderOf
    <3> QED BY <2>1, <2>2, <2>3, <3>1, <3>2 DEF Proper, Holding
  <2>5. PICK d \in S : at[d] = "siblings"
    BY <2>4
  <2>6. PICK e \in S : e # d /\ at[e] = "siblings"
    BY <2>4
  <2>7. \A x \in {d, e} : page[x].version \in Drafts /\ owner[Row(page[x].version)] = x
    <3> TAKE x \in {d, e}
    <3>1. KeepsRow(x) /\ page[x].op = "publish"
      BY <2>5, <2>6 DEF IInv, StageInv
    <3>2. page[x].version \in DOMAIN rows
      BY <2>5, <2>6, <3>1 DEF IInv, PageInv, KeepsRow
    <3> QED BY <3>1, <3>2 DEF KeepsRow, Accepted, Target, Drafts
  <2>8. page[d].version = page[e].version
    BY <2>7 DEF IInv, AloneInv
  <2> QED BY <2>6, <2>7, <2>8
<1> QED BY InitIInv, NextIInv, <1>1, PTL DEF Spec
-----------------------------------------------------------------------------
(* Which steps answer a command with success.                              *)
LEMMA DoneBy ==
  ASSUME IInv, [Next]_vars, NEW c \in Requests, at[c] # "done", at'[c] = "done"
  PROVE  \/ c \in Editors /\ (EditRow(c) \/ CommitPublish(c) \/ InsertDraft(c))
         \/ c \in Publishers /\ InsertTask(c)
         \/ SaveLesson(c)
<1>1. at \in [Requests -> Stages]
  BY Alike
<1>2. CASE UNCHANGED vars
  BY <1>2 DEF vars
<1>3. CASE CreateActivity
  BY <1>3 DEF CreateActivity
<1>4. ASSUME NEW d \in Requests, NEW shown, Open(d, shown) PROVE FALSE
  BY <1>1, <1>4 DEF Open
<1>5. ASSUME NEW d \in Requests, AbortVictim(d) PROVE FALSE
  BY <1>1, <1>5 DEF AbortVictim, Ends
<1>6. ASSUME NEW d \in Requests, Serve(d)
      PROVE  \/ d = c /\ SaveLesson(d)
             \/ d = c /\ d \in Publishers /\ InsertTask(d)
             \/ d = c /\ d \in Editors /\ (EditRow(d) \/ CommitPublish(d) \/ InsertDraft(d))
  <2>1. CASE LockFamily(d) \/ Allocate(d)
    BY <1>1, <2>1 DEF LockFamily, Allocate
  <2>2. CASE d \in Publishers /\ LockLesson(d)
    BY <1>1, <2>2 DEF LockLesson, Ends
  <2>3. CASE RefuseEdit(d) \/ LockRow(d) \/ FindPublished(d) \/ ArchiveSibling(d) \/ RefusePending(d)
    BY <1>1, <2>3 DEF RefuseEdit, LockRow, FindPublished, ArchiveSibling, RefusePending, Ends
  <2>4. CASE SaveLesson(d)
    BY <1>1, <2>4 DEF SaveLesson, Ends
  <2>5. CASE d \in Publishers /\ InsertTask(d)
    BY <1>1, <2>5 DEF InsertTask, Ends
  <2>6. CASE d \in Editors /\ (EditRow(d) \/ CommitPublish(d) \/ InsertDraft(d))
    <3>1. at' = at \/ \E outcome : at' = [at EXCEPT ![d] = outcome]
      BY <2>6 DEF EditRow, CommitPublish, InsertDraft, Ends
    <3> QED BY <1>1, <2>6, <3>1
  <2> QED BY <1>6, <2>1, <2>2, <2>3, <2>4, <2>5, <2>6 DEF Serve, Update, Publish
<1>7. ASSUME NEW d \in Requests, Serve(d)
      PROVE  \/ c \in Editors /\ (EditRow(c) \/ CommitPublish(c) \/ InsertDraft(c))
             \/ c \in Publishers /\ InsertTask(c)
             \/ SaveLesson(c)
  BY <1>6, <1>7
<1> QED BY <1>2, <1>3, <1>4, <1>5, <1>7 DEF Next, OpenActivity, OpenLesson, Requests

(* A publish that has looked for its siblings ends with its commit.        *)
LEMMA CommitIsLast ==
  ASSUME IInv, [Next]_vars, NEW c \in Editors, at[c] = "siblings", at'[c] = "done"
  PROVE  CommitPublish(c)
<1>1. c \in Requests /\ c \notin Publishers
  BY RequestsAssumption DEF Requests
<1>2. \/ c \in Editors /\ (EditRow(c) \/ CommitPublish(c) \/ InsertDraft(c))
      \/ c \in Publishers /\ InsertTask(c)
      \/ SaveLesson(c)
  BY <1>1, DoneBy
<1> QED BY <1>1, <1>2 DEF EditRow, InsertDraft, SaveLesson

(* Publishing a version archives every other version that was live when    *)
(* the teacher's page was loaded.                                          *)
THEOREM PublicationSupersedes == Spec => PublishSupersedes
<1>1. IInv /\ [Next]_vars =>
       [\A c \in Editors :
          (at[c] = "siblings" /\ at'[c] = "done") =>
            \A v \in page[c].live \ {page[c].version} : rows'[v].status # "published"]_vars
  <2> SUFFICES ASSUME IInv, [Next]_vars, NEW c \in Editors, at[c] = "siblings", at'[c] = "done",
                      NEW v \in page[c].live \ {page[c].version}
               PROVE  rows'[v].status # "published"
    OBVIOUS
  <2>1. CommitPublish(c)
    BY CommitIsLast
  <2>2. SiblingsInv(c) /\ v \in DOMAIN rows /\ v \in Versions
    BY Alike DEF IInv, StageInv, PageInv, Requests
  <2>3. next[c] = 0 /\ todo[c] = {} /\ v # 0
    BY <2>1, <2>2 DEF CommitPublish, SiblingsInv, Versions
  <2>4. rows[v].status = "published" => v \in taken[c]
    BY <2>2, <2>3 DEF SiblingsInv, Found
  <2>5. rows'[v] = IF v \in taken[c] THEN [rows[v] EXCEPT !.status = "archived"] ELSE rows[v]
    BY <2>1, <2>2 DEF CommitPublish
  <2>6. rows[v] \in Rows
    BY <2>2, Alike
  <2> QED BY <2>4, <2>5, <2>6 DEF Rows
<1> QED BY InitIInv, NextIInv, <1>1, PTL DEF Spec, PublishSupersedes

(* A command acts on what its page showed: the text and due date that are  *)
(* published, saved over, rescheduled, archived or copied to a new draft,  *)
(* and the lesson that is saved or goes out.                               *)
THEOREM CommandsActOnPages == Spec => ActsOnWhatWasShown
<1>1. IInv /\ [Next]_vars =>
        [\A c \in Requests : (at[c] # "done" /\ at'[c] = "done") =>
           CASE page[c].op \in {"save", "archive", "adjust-due-date"} ->
                  /\ rows[page[c].version].text = page[c].text
                  /\ rows[page[c].version].due = page[c].due
             [] page[c].op \in {"publish", "create-version"} ->
                  /\ rows'[page[c].version].text = page[c].text
                  /\ rows'[page[c].version].due = page[c].due
             [] c \in Savers -> lesson.text = page[c].text
             [] c \in Publishers -> lessonVersions'[Len(lessonVersions')] = page[c].text]_vars
  <2> SUFFICES ASSUME IInv, [Next]_vars, NEW c \in Requests, at[c] # "done", at'[c] = "done"
               PROVE  CASE page[c].op \in {"save", "archive", "adjust-due-date"} ->
                             /\ rows[page[c].version].text = page[c].text
                             /\ rows[page[c].version].due = page[c].due
                        [] page[c].op \in {"publish", "create-version"} ->
                             /\ rows'[page[c].version].text = page[c].text
                             /\ rows'[page[c].version].due = page[c].due
                        [] c \in Savers -> lesson.text = page[c].text
                        [] c \in Publishers -> lessonVersions'[Len(lessonVersions')] = page[c].text
    OBVIOUS
  <2> DEFINE v == page[c].version
  <2>1. CASE c \in Editors /\ EditRow(c)
    <3>1. Accepted(c) /\ page[c].op \in {"save", "archive", "adjust-due-date"} /\ at[c] = "sent"
      BY <2>1 DEF EditRow
    <3>2. rows[v].text = page[c].text /\ rows[v].due = page[c].due
      BY <2>1, <3>1 DEF IInv, PageInv, Accepted, Target
    <3> QED BY <2>1, <3>1, <3>2, RequestsAssumption
  <2>2. CASE c \in Editors /\ CommitPublish(c)
    <3>1. at[c] = "siblings"
      BY <2>2 DEF CommitPublish
    <3>2. Accepted(c) /\ page[c].op = "publish" /\ v \in DOMAIN rows /\ rows[v] \in Rows
      BY <2>2, <3>1, Alike DEF IInv, StageInv, KeepsRow, PageInv
    <3>3. rows[v].text = page[c].text /\ rows[v].due = page[c].due
      BY <2>2, <3>1, <3>2 DEF IInv, PageInv, Accepted, Target
    <3>4. rows'[v] = [Revised(c, rows[v]) EXCEPT !.status = "published"]
      BY <2>2, <3>2 DEF CommitPublish
    <3>5. rows'[v].text = rows[v].text /\ rows'[v].due = rows[v].due
      <4> DEFINE rev == Revised(c, rows[v])
      <4>1. rev \in Rows /\ rev.text = rows[v].text /\ rev.due = rows[v].due
        BY <3>2 DEF Revised, Rows
      <4> HIDE DEF rev
      <4>2. rows'[v] = [rev EXCEPT !.status = "published"]
        BY <3>4 DEF rev
      <4> QED BY <4>1, <4>2 DEF Rows
    <3> QED BY <2>2, <3>2, <3>3, <3>5, RequestsAssumption
  <2>3. CASE c \in Editors /\ InsertDraft(c)
    <3>1. at[c] = "allocated" /\ page[c].op = "create-version"
      BY <2>3 DEF InsertDraft
    <3>2. Accepted(c) /\ v \in DOMAIN rows
      <4>1. StageInv(c) /\ PageInv(c) /\ c \notin Publishers
        BY <2>3, RequestsAssumption DEF IInv
      <4>2. KeepsRow(c)
        BY <3>1, <4>1 DEF StageInv, KeepsLesson
      <4> QED BY <2>3, <3>1, <4>1, <4>2 DEF KeepsRow, PageInv
    <3>3. rows[v].text = page[c].text /\ rows[v].due = page[c].due
      BY <2>3, <3>1, <3>2 DEF IInv, PageInv, Accepted, Target
    <3>4. next[c] \notin DOMAIN rows
      BY <3>1 DEF IInv, StageInv, NumberInv
    <3>5. rows'[v] = rows[v]
      BY <2>3, <3>2, <3>4 DEF InsertDraft, WithRow
    <3> QED BY <2>3, <3>1, <3>3, <3>5, RequestsAssumption
  <2>4. CASE c \in Publishers /\ InsertTask(c)
    <3>1. at[c] = "allocated" /\ c \notin Editors /\ c \notin Savers /\ page[c].op = "lesson"
      BY <2>4, RequestsAssumption DEF InsertTask
    <3>2. lesson.text = page[c].text
      BY <3>1 DEF IInv, StageInv, PageInv, KeepsRow, KeepsLesson
    <3>3. next[c] \notin DOMAIN rows
      BY <3>1 DEF IInv, StageInv, NumberInv
    <3>4. lessonVersions' = Append(lessonVersions, lesson.text)
      BY <2>4, <3>3 DEF InsertTask
    <3>5. lessonVersions \in Seq(Texts) /\ lesson.text \in Texts
      BY DEF IInv, TypeOK
    <3>6. lessonVersions'[Len(lessonVersions')] = lesson.text
      BY <3>4, <3>5
    <3> QED BY <2>4, <3>1, <3>2, <3>6
  <2>5. CASE SaveLesson(c)
    <3>1. c \in Savers /\ c \notin Editors /\ c \notin Publishers /\ at[c] = "sent"
      BY <2>5, RequestsAssumption DEF SaveLesson
    <3>2. lesson.rev = page[c].rev
      BY <2>5, <3>1, Alike DEF SaveLesson, Ends
    <3>3. lesson.text = page[c].text /\ page[c].op = "lesson"
      BY <3>1, <3>2 DEF IInv, PageInv
    <3> QED BY <3>1, <3>3
  <2> QED BY <2>1, <2>2, <2>3, <2>4, <2>5, DoneBy
<1> QED BY InitIInv, NextIInv, <1>1, PTL DEF Spec, ActsOnWhatWasShown
=============================================================================
