-------------------------- MODULE CourseRosterProofs --------------------------
(***************************************************************************)
(* A student joins with a bare code, so a code must name one class in the  *)
(* whole deployment while every course writes its row by itself.  Proved   *)
(* for any number of courses, classes, codes and requests.                 *)
(*                                                                         *)
(* Across courses the claims do it: every code of a row is claimed by its  *)
(* course, and a write that holds another course's code is refused.        *)
(* Within a course they cannot, as the course may claim its codes again.   *)
(* There it is the order of the two reads: a request reads its row before  *)
(* it reads the codes of all rows, so while the revision it read still     *)
(* stands, what it saw of its own course is what stands now.  The same     *)
(* holds of what a handler checked about the seats and the groups: a write *)
(* lands on the very row it was worked out of.                             *)
(***************************************************************************)
EXTENDS CourseRoster, FiniteSetTheorems, TLAPS

Fields == {"code", "limit", "expires", "disabled", "announced", "draft", "member", "group", "headcount"}
Shaped(d) == DOMAIN d = Fields /\ d.code \in [Classes -> Codes \cup {None}]

UniqueIn(d) == \A x, y \in Classes : d.code[x] = d.code[y] /\ d.code[x] # None => x = y

Typed(d) == /\ d.member \in [Classes -> [Students -> Members]]
            /\ d.group \in [Groups -> {None} \cup GroupRecords]
            /\ d.headcount \in [Classes -> Nat]
            /\ d.limit \in [Classes -> Nat]
Orderly(d) == Typed(d) /\ OneLiveSeat(d) /\ GroupsFollowRoster(d) /\ HeadcountsAgree(d)

\* Nobody takes a seat between row d and row next.
NoNewSeat(d, next) == \A x \in Classes, s \in Students :
  next.member[x][s].status \in Live => ~Unseated(d, x, s)

\* What JoinsMeetPolicy asks of a step from row d to row next: of the code, the
\* switch and the limit, and of the request q that makes the step.
PolicyMet(d, next) == \A x \in Classes :
  LET new == {s \in Students : Unseated(d, x, s) /\ next.member[x][s].status \in Live}
  IN new # {} => /\ \A s \in new : next.member[x][s].code = d.code[x]
                 /\ x \notin d.disabled
                 /\ d.limit[x] # 0 => Cardinality(JoinedWithCode(next, x)) <= d.limit[x]
InTime(d, next, q) == \A x \in Classes, s \in Students :
  (Unseated(d, x, s) /\ next.member[x][s].status \in Live) =>
    q.op = "join" /\ q.student = s /\ (d.expires[x] # 0 => q.since < d.expires[x])
Allowed(d, next) == Orderly(next) /\ PolicyMet(d, next)

RowOps == {"join", "approve", "close", "draft", "group", "regroup", "split", "ungroup"}
Sound(q) ==
  /\ q.course \in Courses
  /\ \/ q.op = "create" /\ q.class \in Classes
     \/ q.op = "publish" /\ q.class \in Classes /\ q.code \in Codes /\ q.patch \in Patches
     \/ q.op = "join" /\ q.code \in Codes /\ q.student \in Students
     \/ q.op = "approve" /\ q.class \in Classes /\ q.students \subseteq Students
     \/ /\ q.op = "close" /\ q.class \in Classes /\ q.student \in Students
        /\ q.to \in {"rejected", "removed"}
     \/ q.op = "draft"
     \/ /\ q.op = "group" /\ q.group \in Groups /\ q.scope \in Classes \cup {None}
        /\ q.students \subseteq Students
     \/ q.op = "regroup" /\ q.group \in Groups /\ q.students \subseteq Students
     \/ q.op = "split" /\ q.scope \in Classes \cup {None}
     \/ q.op = "ungroup" /\ q.group \in Groups

RowsInv == /\ row \in [Courses -> {row[c] : c \in Courses}]
           /\ \A c \in Courses : Shaped(row[c]) /\ UniqueIn(row[c]) /\ Orderly(row[c])

ClaimsInv == /\ claims \in [Codes -> Courses \cup {None}]
             /\ \A c \in Courses : \A k \in CodesOf(row[c]) : claims[k] = c

RequestInv(w) ==
  /\ at[w] \in {"idle", "reading", "looking", "writing"}
  /\ at[w] # "idle" => Sound(req[w])
  /\ at[w] = "looking" => /\ req[w].op \in {"create", "publish"}
                          /\ Shaped(work[w])
                          /\ fresh[w] => work[w] = row[req[w].course]
  /\ at[w] = "writing" => /\ Shaped(work[w])
                          /\ fresh[w] => /\ UniqueIn(work[w])
                                         /\ Allowed(row[req[w].course], work[w])
                                         /\ InTime(row[req[w].course], work[w], req[w])

FunctionsInv == /\ DOMAIN at = Workers /\ DOMAIN req = Workers /\ DOMAIN work = Workers
                /\ fresh \in [Workers -> BOOLEAN]

IInv == RowsInv /\ ClaimsInv /\ FunctionsInv /\ \A w \in Workers : RequestInv(w)
-----------------------------------------------------------------------------
(* No request but create and publish touches the codes of the classes.     *)

(* A recount leaves the codes of a row alone                               *)
(* (countApprovedMembershipsForClass).                                     *)
LEMMA RecountedKeepsCodes ==
  ASSUME NEW d, Shaped(d), NEW x
  PROVE  Shaped(Recounted(d, x)) /\ Recounted(d, x).code = d.code
BY DEF Recounted, Shaped, Fields

(* Releasing the seats of a student leaves the codes alone                 *)
(* (releaseStudentFromLearningGroups).                                     *)
LEMMA ReleasedKeepsCodes ==
  ASSUME NEW d, Shaped(d), NEW s
  PROVE  Shaped(Released(d, s)) /\ Released(d, s).code = d.code
BY DEF Released, Shaped, Fields

(* Whatever a handler other than create and publish makes of a row, its    *)
(* classes have the codes they had.                                        *)
LEMMA PlansKeepCodes ==
  ASSUME NEW d, Shaped(d), NEW q, q.op \in RowOps, NEW next \in Plans(d, q)
  PROVE  Shaped(next) /\ next.code = d.code
<1>1. CASE q.op = "join"
  <2>1. next \in Joined(d, q)
    BY <1>1 DEF Plans
  <2>2. PICK x \in Classes :
          next = [d EXCEPT !.member[x][q.student] = [status |-> "pending", code |-> q.code]]
    BY <2>1 DEF Joined
  <2> QED BY <2>2 DEF Shaped, Fields
<1>2. CASE q.op = "approve"
  <2>1. next \in ApprovedRows(d, q)
    BY <1>2 DEF Plans
  <2>2. \E m : next = Recounted([d EXCEPT !.member[q.class] = m], q.class)
    BY <2>1 DEF ApprovedRows
  <2>3. PICK m : next = Recounted([d EXCEPT !.member[q.class] = m], q.class)
    BY <2>2
  <2>4. Shaped([d EXCEPT !.member[q.class] = m]) /\ [d EXCEPT !.member[q.class] = m].code = d.code
    BY DEF Shaped, Fields
  <2> QED BY <2>3, <2>4, RecountedKeepsCodes
<1>3. CASE q.op = "close"
  <2> DEFINE closed == [d EXCEPT !.member[q.class][q.student].status = q.to]
  <2>1. next \in ClosedRows(d, q)
    BY <1>3 DEF Plans
  <2>2. next = Recounted(Released(closed, q.student), q.class)
    BY <2>1 DEF ClosedRows
  <2>3. Shaped(closed) /\ closed.code = d.code
    BY DEF Shaped, Fields
  <2> HIDE DEF closed
  <2>4. Shaped(Released(closed, q.student)) /\ Released(closed, q.student).code = d.code
    BY <2>3, ReleasedKeepsCodes
  <2> QED BY <2>2, <2>4, RecountedKeepsCodes
<1>4. CASE q.op = "draft"
  <2>1. next = [d EXCEPT !.draft[q.code] = q.class]
    BY <1>4 DEF Plans, DraftedRows
  <2> QED BY <2>1 DEF Shaped, Fields
<1>5. CASE q.op = "group"
  <2>1. next \in GroupedRows(d, q)
    BY <1>5 DEF Plans
  <2>2. PICK g : next = [d EXCEPT !.group[g] = [scope |-> q.scope, members |-> q.students]]
    BY <2>1 DEF GroupedRows
  <2> QED BY <2>2 DEF Shaped, Fields
<1>6. CASE q.op = "regroup"
  <2>1. next \in RegroupedRows(d, q)
    BY <1>6 DEF Plans
  <2>2. PICK g : next = [d EXCEPT !.group[g].members = q.students]
    BY <2>1 DEF RegroupedRows
  <2> QED BY <2>2 DEF Shaped, Fields
<1>7. CASE q.op = "split"
  <2>1. next \in SplitRows(d, q)
    BY <1>7 DEF Plans
  <2>2. \E g : next = [d EXCEPT !.group = g]
    BY <2>1 DEF SplitRows
  <2>3. PICK g : next = [d EXCEPT !.group = g]
    BY <2>2
  <2> QED BY <2>3 DEF Shaped, Fields
<1>8. CASE q.op = "ungroup"
  <2>1. next = [d EXCEPT !.group[q.group] = None]
    BY <1>8 DEF Plans
  <2> QED BY <2>1 DEF Shaped, Fields
<1> QED BY <1>1, <1>2, <1>3, <1>4, <1>5, <1>6, <1>7, <1>8 DEF RowOps
-----------------------------------------------------------------------------
(* Every request leaves an orderly roster orderly, and seats nobody the    *)
(* policy of the code does not let in.                                     *)

(* One element more makes a finite set larger by one at most.              *)
LEMMA OneMore ==
  ASSUME NEW S, IsFiniteSet(S), NEW e, NEW T \in SUBSET (S \cup {e})
  PROVE  /\ Cardinality(S) \in Nat /\ Cardinality(T) \in Nat
         /\ Cardinality(T) <= Cardinality(S) + 1
<1> DEFINE U == S \cup {e}
<1>1. Cardinality(S) \in Nat
  BY FS_CardinalityType
<1>2. IsFiniteSet(U) /\ Cardinality(U) = IF e \in S THEN Cardinality(S) ELSE Cardinality(S) + 1
  BY FS_AddElement
<1> HIDE DEF U
<1>3. Cardinality(U) \in Nat
  BY <1>2, FS_CardinalityType
<1>4. T \in SUBSET U
  BY DEF U
<1>5. IsFiniteSet(T) /\ Cardinality(T) <= Cardinality(U)
  BY <1>2, <1>4, FS_Subset
<1>6. Cardinality(T) \in Nat
  BY <1>5, FS_CardinalityType
<1> QED BY <1>1, <1>2, <1>3, <1>5, <1>6

(* A request that touches neither members nor groups.                      *)
LEMMA SameRosterAllowed ==
  ASSUME NEW d, Orderly(d), NEW next,
         next.member = d.member, next.group = d.group, next.headcount = d.headcount,
         next.limit \in [Classes -> Nat]
  PROVE  Allowed(d, next)
<1>1. PolicyMet(d, next)
  BY DEF PolicyMet, Unseated
<1>2. Typed(next)
  BY DEF Orderly, Typed
<1>3. OneLiveSeat(next)
  BY DEF Orderly, OneLiveSeat, Unseated
<1>4. GroupsFollowRoster(next)
  BY DEF Orderly, GroupsFollowRoster, MaySit, Approved
<1>5. HeadcountsAgree(next)
  BY DEF Orderly, HeadcountsAgree
<1> QED BY <1>1, <1>2, <1>3, <1>4, <1>5 DEF Allowed, Orderly

(* A request that touches the groups alone, if it seats whom it may.       *)
LEMMA SameMembersAllowed ==
  ASSUME NEW d, Orderly(d), NEW next,
         next.member = d.member, next.headcount = d.headcount, next.limit = d.limit,
         next.group \in [Groups -> {None} \cup GroupRecords],
         GroupsFollowRoster(next)
  PROVE  Allowed(d, next)
<1>1. PolicyMet(d, next)
  BY DEF PolicyMet, Unseated
<1>2. Typed(next)
  BY DEF Orderly, Typed
<1>3. OneLiveSeat(next)
  BY DEF Orderly, OneLiveSeat, Unseated
<1>4. HeadcountsAgree(next)
  BY DEF Orderly, HeadcountsAgree
<1> QED BY <1>1, <1>2, <1>3, <1>4 DEF Allowed, Orderly

(* A join takes the one seat the student has in the course, in a class     *)
(* whose code is open and has room (joinTeachingClassByInviteCode).        *)
LEMMA JoinAllowed ==
  ASSUME NEW d, Shaped(d), Orderly(d), NEW q, q.student \in Students, q.code \in Codes,
         NEW next \in Joined(d, q)
  PROVE  Allowed(d, next) /\ (q.op = "join" => InTime(d, next, q))
<1> DEFINE s == q.student
           seat == [status |-> "pending", code |-> q.code]
<1>1. PICK y \in Classes :
        /\ d.code[y] = q.code /\ \A z \in Classes : Unseated(d, z, s)
        /\ y \notin d.disabled
        /\ d.expires[y] # 0 => q.since < d.expires[y]
        /\ d.limit[y] # 0 => Cardinality(JoinedWithCode(d, y)) < d.limit[y]
        /\ next = [d EXCEPT !.member[y][s] = seat]
  BY DEF Joined
<1>2. /\ next.member = [d.member EXCEPT ![y][s] = seat] /\ next.code = d.code
      /\ next.group = d.group /\ next.headcount = d.headcount /\ next.limit = d.limit
  BY <1>1 DEF Shaped, Fields
<1>3. /\ d.member \in [Classes -> [Students -> Members]] /\ d.limit \in [Classes -> Nat]
      /\ seat \in Members
  BY DEF Orderly, Typed, Members, Live
<1>4. \A x \in Classes, t \in Students :
        next.member[x][t] = IF x = y /\ t = s THEN seat ELSE d.member[x][t]
  BY <1>2, <1>3
<1>5. Typed(next)
  <2>1. next.member \in [Classes -> [Students -> Members]]
    BY <1>2, <1>3
  <2> QED BY <1>2, <2>1 DEF Orderly, Typed
<1>6. OneLiveSeat(next)
  BY <1>1, <1>4 DEF Orderly, OneLiveSeat, Unseated
<1>7. \A x \in Classes, t \in Students :
        (next.member[x][t].status = "approved") <=> (d.member[x][t].status = "approved")
  BY <1>1, <1>4 DEF Unseated, Live
<1>8. GroupsFollowRoster(next)
  <2>1. \A scope : Approved(next, scope) = Approved(d, scope)
    BY <1>7 DEF Approved
  <2> QED BY <1>2, <2>1 DEF Orderly, GroupsFollowRoster, MaySit
<1>9. HeadcountsAgree(next)
  <2>1. \A x \in Classes : {t \in Students : next.member[x][t].status = "approved"}
                             = {t \in Students : d.member[x][t].status = "approved"}
    BY <1>7
  <2> QED BY <1>2, <2>1 DEF Orderly, HeadcountsAgree
<1>10. PolicyMet(d, next)
  <2> SUFFICES ASSUME NEW x \in Classes, NEW t \in Students,
                      Unseated(d, x, t), next.member[x][t].status \in Live
               PROVE  /\ next.member[x][t].code = d.code[x]
                      /\ x \notin d.disabled
                      /\ d.limit[x] # 0 => Cardinality(JoinedWithCode(next, x)) <= d.limit[x]
    BY DEF PolicyMet
  <2>1. x = y /\ t = s
    BY <1>4 DEF Unseated
  <2>2. next.member[x][t].code = d.code[x] /\ x \notin d.disabled
    BY <1>1, <1>4, <2>1
  <2>3. ASSUME d.limit[x] # 0 PROVE Cardinality(JoinedWithCode(next, x)) <= d.limit[x]
    <3>1. JoinedWithCode(next, x) \subseteq JoinedWithCode(d, x) \cup {s}
      BY <1>2, <1>4 DEF JoinedWithCode, Unseated
    <3>2. IsFiniteSet(JoinedWithCode(d, x))
      BY StudentsAssumption, FS_Subset DEF JoinedWithCode
    <3>3. /\ Cardinality(JoinedWithCode(d, x)) \in Nat /\ Cardinality(JoinedWithCode(next, x)) \in Nat
          /\ Cardinality(JoinedWithCode(next, x)) <= Cardinality(JoinedWithCode(d, x)) + 1
      BY <3>1, <3>2, OneMore
    <3>4. d.limit[x] \in Nat /\ Cardinality(JoinedWithCode(d, x)) < d.limit[x]
      BY <1>1, <1>3, <2>1, <2>3
    <3> QED BY <3>3, <3>4
  <2> QED BY <2>2, <2>3
<1>11. ASSUME q.op = "join" PROVE InTime(d, next, q)
  <2> SUFFICES ASSUME NEW x \in Classes, NEW t \in Students,
                      Unseated(d, x, t), next.member[x][t].status \in Live
               PROVE  t = s /\ (d.expires[x] # 0 => q.since < d.expires[x])
    BY <1>11 DEF InTime
  <2>1. x = y /\ t = s
    BY <1>4 DEF Unseated
  <2> QED BY <1>1, <2>1
<1> QED BY <1>5, <1>6, <1>8, <1>9, <1>10, <1>11 DEF Allowed, Orderly

(* Changing the status of members of one class, to approve some who wait   *)
(* or to close the membership of one, seats nobody anew.                   *)
LEMMA NoNewSeatMeetsPolicy ==
  ASSUME NEW d, NEW next, NoNewSeat(d, next), NEW q
  PROVE  PolicyMet(d, next) /\ InTime(d, next, q)
BY DEF NoNewSeat, PolicyMet, InTime

(* A member whose status changes keeps the code it joined with.            *)
LEMMA StatusChange ==
  ASSUME NEW m \in Members, NEW to \in {"approved", "rejected", "removed"}
  PROVE  /\ [m EXCEPT !.status = to] \in Members
         /\ [m EXCEPT !.status = to].status = to
BY DEF Members, Live

(* An approval moves waiting students to the roster of their class, and    *)
(* the class is counted again (approveTeachingClassMemberships).           *)
LEMMA ApproveAllowed ==
  ASSUME NEW d, Shaped(d), Orderly(d), NEW q, q.class \in Classes, q.students \subseteq Students,
         NEW next \in ApprovedRows(d, q)
  PROVE  Allowed(d, next) /\ NoNewSeat(d, next)
<1> DEFINE y == q.class
           waiting == {s \in q.students : d.member[y][s].status = "pending"}
           members == [s \in Students |->
                         IF s \in waiting THEN [d.member[y][s] EXCEPT !.status = "approved"]
                         ELSE d.member[y][s]]
           mid == [d EXCEPT !.member[y] = members]
<1>1. next = Recounted(mid, y)
  BY DEF ApprovedRows
<1>2. /\ mid.member = [d.member EXCEPT ![y] = members] /\ DOMAIN mid = DOMAIN d
      /\ mid.group = d.group /\ mid.headcount = d.headcount /\ mid.limit = d.limit
  BY DEF Shaped, Fields
<1> HIDE DEF mid
<1>3. /\ next.member = mid.member /\ next.group = d.group /\ next.limit = d.limit
      /\ next.headcount = [d.headcount EXCEPT ![y] =
                             Cardinality({s \in Students : mid.member[y][s].status = "approved"})]
  BY <1>1, <1>2 DEF Recounted, Shaped, Fields
<1>4. /\ d.member \in [Classes -> [Students -> Members]] /\ d.headcount \in [Classes -> Nat]
      /\ d.limit \in [Classes -> Nat] /\ d.group \in [Groups -> {None} \cup GroupRecords]
  BY DEF Orderly, Typed
<1>5. members \in [Students -> Members]
  <2>1. ASSUME NEW s \in Students
        PROVE (IF s \in waiting THEN [d.member[y][s] EXCEPT !.status = "approved"]
               ELSE d.member[y][s]) \in Members
    <3>1. d.member[y][s] \in Members
      BY <1>4
    <3> QED BY <3>1, StatusChange
  <2> QED BY <2>1
<1>6. \A x \in Classes, s \in Students :
        next.member[x][s] = IF x = y THEN members[s] ELSE d.member[x][s]
  <2> HIDE DEF members
  <2> QED BY <1>2, <1>3, <1>4
<1>7. \A x \in Classes, s \in Students :
        next.member[x][s].status = IF x = y /\ s \in waiting THEN "approved"
                                   ELSE d.member[x][s].status
  <2>1. \A s \in Students : members[s].status = IF s \in waiting THEN "approved"
                                                 ELSE d.member[y][s].status
    BY <1>4 DEF Members
  <2> HIDE DEF members, waiting
  <2> QED BY <1>6, <2>1
<1>8. Typed(next)
  <2>1. next.member \in [Classes -> [Students -> Members]]
    <3> HIDE DEF members
    <3> QED BY <1>2, <1>3, <1>4, <1>5
  <2>2. Cardinality({s \in Students : mid.member[y][s].status = "approved"}) \in Nat
    BY StudentsAssumption, FS_Subset, FS_CardinalityType
  <2>3. next.headcount \in [Classes -> Nat]
    BY <1>3, <1>4, <2>2
  <2> QED BY <1>3, <1>4, <2>1, <2>3 DEF Typed
<1>9. \A x \in Classes, s \in Students : Unseated(next, x, s) <=> Unseated(d, x, s)
  BY <1>7 DEF Unseated, Live
<1>10. OneLiveSeat(next)
  BY <1>9 DEF Orderly, OneLiveSeat
<1>11. GroupsFollowRoster(next)
  <2>1. \A scope : Approved(d, scope) \subseteq Approved(next, scope)
    BY <1>7 DEF Approved
  <2> QED BY <1>3, <2>1 DEF Orderly, GroupsFollowRoster, MaySit
<1>12. HeadcountsAgree(next)
  <2> SUFFICES ASSUME NEW x \in Classes
               PROVE next.headcount[x] = Cardinality({s \in Students : next.member[x][s].status = "approved"})
    BY DEF HeadcountsAgree
  <2>1. CASE x = y
    BY <1>3, <1>4, <2>1
  <2>2. CASE x # y
    <3>1. {s \in Students : next.member[x][s].status = "approved"}
            = {s \in Students : d.member[x][s].status = "approved"}
      BY <1>7, <2>2
    <3> QED BY <1>3, <1>4, <2>2, <3>1 DEF Orderly, HeadcountsAgree
  <2> QED BY <2>1, <2>2
<1>13. NoNewSeat(d, next)
  BY <1>9 DEF NoNewSeat, Unseated
<1>14. PolicyMet(d, next)
  BY <1>13, NoNewSeatMeetsPolicy
<1> QED BY <1>8, <1>10, <1>11, <1>12, <1>13, <1>14 DEF Allowed, Orderly

(* A rejection or removal takes the seat, and with it the place in every   *)
(* learning group, in the same write (setTeachingClassMembershipStatus).   *)
LEMMA CloseAllowed ==
  ASSUME NEW d, Shaped(d), Orderly(d), NEW q, q.class \in Classes, q.student \in Students,
         q.to \in {"rejected", "removed"}, NEW next \in ClosedRows(d, q)
  PROVE  Allowed(d, next) /\ NoNewSeat(d, next)
<1> DEFINE y == q.class
           t == q.student
           closed == [d EXCEPT !.member[y][t].status = q.to]
           mid == Released(closed, t)
<1>1. next = Recounted(mid, y) /\ ~Unseated(d, y, t)
  BY DEF ClosedRows, Unseated, Live
<1>2. /\ closed.member = [d.member EXCEPT ![y] = [d.member[y] EXCEPT ![t] =
                            [d.member[y][t] EXCEPT !.status = q.to]]]
      /\ DOMAIN closed = Fields /\ closed.group = d.group
      /\ closed.headcount = d.headcount /\ closed.limit = d.limit
  BY DEF Shaped, Fields
<1> HIDE DEF closed
<1>3. /\ mid.member = closed.member /\ DOMAIN mid = Fields /\ mid.headcount = d.headcount
      /\ mid.limit = d.limit
      /\ mid.group = [g \in Groups |-> IF d.group[g] = None THEN None
                        ELSE [d.group[g] EXCEPT !.members = d.group[g].members \ {t}]]
  BY <1>2 DEF Released, Fields
<1> HIDE DEF mid
<1>4. /\ next.member = closed.member /\ next.group = mid.group /\ next.limit = d.limit
      /\ next.headcount = [d.headcount EXCEPT ![y] =
                             Cardinality({s \in Students : next.member[y][s].status = "approved"})]
  BY <1>1, <1>3 DEF Recounted, Fields
<1>5. /\ d.member \in [Classes -> [Students -> Members]] /\ d.headcount \in [Classes -> Nat]
      /\ d.limit \in [Classes -> Nat] /\ d.group \in [Groups -> {None} \cup GroupRecords]
  BY DEF Orderly, Typed
<1>6. [d.member[y][t] EXCEPT !.status = q.to] \in Members
  <2>1. d.member[y][t] \in Members
    BY <1>5
  <2> QED BY <2>1, StatusChange
<1>7. \A x \in Classes, s \in Students :
        next.member[x][s].status = IF x = y /\ s = t THEN q.to ELSE d.member[x][s].status
  <2>1. [d.member[y][t] EXCEPT !.status = q.to].status = q.to
    BY <1>5 DEF Members
  <2>2. \A x \in Classes, s \in Students :
          next.member[x][s] = IF x = y /\ s = t THEN [d.member[y][t] EXCEPT !.status = q.to]
                              ELSE d.member[x][s]
    BY <1>2, <1>4, <1>5
  <2> QED BY <2>1, <2>2
<1>8. Typed(next)
  <2>1. next.member \in [Classes -> [Students -> Members]]
    BY <1>2, <1>4, <1>5, <1>6
  <2>2. Cardinality({s \in Students : next.member[y][s].status = "approved"}) \in Nat
    BY StudentsAssumption, FS_Subset, FS_CardinalityType
  <2>3. next.headcount \in [Classes -> Nat]
    BY <1>4, <1>5, <2>2
  <2>4. next.group \in [Groups -> {None} \cup GroupRecords]
    BY <1>3, <1>4, <1>5 DEF GroupRecords
  <2> QED BY <1>4, <1>5, <2>1, <2>3, <2>4 DEF Typed
<1>9. /\ \A x \in Classes, s \in Students : ~Unseated(next, x, s) => ~Unseated(d, x, s)
      /\ \A x \in Classes : next.member[x][t].status # "approved"
  <2>1. q.to \notin Live /\ q.to # "approved"
    BY DEF Live
  <2>2. \A x \in Classes : x # y => Unseated(d, x, t)
    BY <1>1 DEF Orderly, OneLiveSeat
  <2>3. ASSUME NEW x \in Classes, NEW s \in Students, ~Unseated(next, x, s)
        PROVE  ~Unseated(d, x, s)
    <3>1. ~(x = y /\ s = t)
      BY <1>7, <2>1, <2>3 DEF Unseated
    <3> QED BY <1>7, <2>3, <3>1 DEF Unseated
  <2>4. ASSUME NEW x \in Classes PROVE next.member[x][t].status # "approved"
    <3>1. CASE x = y
      BY <1>7, <2>1, <3>1
    <3>2. CASE x # y
      BY <1>7, <2>2, <3>2 DEF Unseated, Live
    <3> QED BY <3>1, <3>2
  <2> QED BY <2>3, <2>4
<1>10. OneLiveSeat(next)
  BY <1>9 DEF Orderly, OneLiveSeat
<1>11. GroupsFollowRoster(next)
  <2> SUFFICES ASSUME NEW g \in Groups, next.group[g] # None
               PROVE MaySit(next, g, next.group[g].scope, next.group[g].members)
    BY DEF GroupsFollowRoster
  <2>1. d.group[g] # None
    BY <1>3, <1>4
  <2>2. \A h \in Groups : d.group[h] # None =>
          next.group[h].scope = d.group[h].scope
          /\ next.group[h].members = d.group[h].members \ {t}
    BY <1>3, <1>4, <1>5 DEF GroupRecords
  <2>3. MaySit(d, g, d.group[g].scope, d.group[g].members)
    BY <2>1 DEF Orderly, GroupsFollowRoster
  <2>4. \A scope : Approved(d, scope) \ {t} \subseteq Approved(next, scope)
    BY <1>7 DEF Approved
  <2>5. \A h \in Groups : next.group[h] # None => d.group[h] # None
    BY <1>3, <1>4
  <2> HIDE DEF t
  <2> QED BY <2>1, <2>2, <2>3, <2>4, <2>5 DEF MaySit
<1>12. HeadcountsAgree(next)
  <2> SUFFICES ASSUME NEW x \in Classes
               PROVE next.headcount[x] = Cardinality({s \in Students : next.member[x][s].status = "approved"})
    BY DEF HeadcountsAgree
  <2>1. CASE x = y
    BY <1>4, <1>5, <2>1
  <2>2. CASE x # y
    <3>1. {s \in Students : next.member[x][s].status = "approved"}
            = {s \in Students : d.member[x][s].status = "approved"}
      BY <1>7, <2>2
    <3> QED BY <1>4, <1>5, <2>2, <3>1 DEF Orderly, HeadcountsAgree
  <2> QED BY <2>1, <2>2
<1>13. NoNewSeat(d, next)
  BY <1>9 DEF NoNewSeat, Unseated
<1>14. PolicyMet(d, next)
  BY <1>13, NoNewSeatMeetsPolicy
<1> QED BY <1>8, <1>10, <1>11, <1>12, <1>13, <1>14 DEF Allowed, Orderly

(* A group gets students who may sit in it (createTeachingLearningGroup,   *)
(* updateTeachingLearningGroupMembers).                                    *)
LEMMA SeatedAllowed ==
  ASSUME NEW d, Orderly(d), NEW g \in Groups, NEW next,
         next.member = d.member, next.headcount = d.headcount, next.limit = d.limit,
         next.group \in [Groups -> {None} \cup GroupRecords],
         \A h \in Groups \ {g} : next.group[h] = d.group[h],
         MaySit(d, g, next.group[g].scope, next.group[g].members)
  PROVE  Allowed(d, next)
<1>1. \A x : Approved(next, x) = Approved(d, x)
  BY DEF Approved
<1>2. ASSUME NEW h \in Groups, next.group[h] # None
      PROVE  MaySit(next, h, next.group[h].scope, next.group[h].members)
  <2>1. CASE h = g
    BY <1>1, <2>1 DEF MaySit
  <2>2. CASE h # g
    <3>1. MaySit(d, h, d.group[h].scope, d.group[h].members) /\ next.group[h] = d.group[h]
      BY <1>2, <2>2 DEF Orderly, GroupsFollowRoster
    <3>2. d.group[h].members \cap next.group[g].members = {}
      BY <1>2, <2>2 DEF MaySit
    <3> QED BY <1>1, <3>1, <3>2 DEF MaySit
  <2> QED BY <2>1, <2>2
<1>3. GroupsFollowRoster(next)
  BY <1>2 DEF GroupsFollowRoster
<1> QED BY <1>3, SameMembersAllowed

(* A split seats approved students who sat nowhere, each in one new group  *)
(* (autoCreateTeachingLearningGroups).                                     *)
LEMMA SplitAllowed ==
  ASSUME NEW d, Shaped(d), Orderly(d), NEW q, q.scope \in Classes \cup {None},
         NEW next \in SplitRows(d, q)
  PROVE  Allowed(d, next)
<1> DEFINE free == {g \in Groups : d.group[g] = None}
           loose == Approved(d, q.scope) \ Grouped(d)
           seat(f, g) == {s \in loose : f[s] = g}
           groups(f) == [g \in Groups |->
             IF g \in free /\ seat(f, g) # {} THEN [scope |-> q.scope, members |-> seat(f, g)]
             ELSE d.group[g]]
<1>1. \E f : next = [d EXCEPT !.group = groups(f)]
  BY DEF SplitRows
<1>2. PICK f : next = [d EXCEPT !.group = groups(f)]
  BY <1>1
<1>3. /\ next.member = d.member /\ next.headcount = d.headcount /\ next.limit = d.limit
      /\ next.group = groups(f)
  <2> HIDE DEF groups
  <2> QED BY <1>2 DEF Shaped, Fields
<1>4. d.group \in [Groups -> {None} \cup GroupRecords]
  BY DEF Orderly, Typed
<1>5. loose \subseteq Students /\ loose \subseteq Approved(d, q.scope)
  BY DEF Approved
<1>6. \A h \in Groups : d.group[h] # None => d.group[h].members \cap loose = {}
  BY DEF Grouped
<1> HIDE DEF loose
<1>7. next.group \in [Groups -> {None} \cup GroupRecords]
  BY <1>3, <1>4, <1>5 DEF GroupRecords
<1>8. \A h \in Groups :
        \/ next.group[h] = d.group[h]
        \/ next.group[h] = [scope |-> q.scope, members |-> seat(f, h)] /\ d.group[h] = None
  BY <1>3
<1>9. ASSUME NEW g \in Groups, next.group[g] # None
      PROVE  MaySit(next, g, next.group[g].scope, next.group[g].members)
  <2>1. \A x : Approved(next, x) = Approved(d, x)
    BY <1>3 DEF Approved
  <2>2. CASE next.group[g] = d.group[g]
    <3>1. MaySit(d, g, d.group[g].scope, d.group[g].members)
      BY <1>9, <2>2 DEF Orderly, GroupsFollowRoster
    <3>2. ASSUME NEW h \in Groups \ {g}, next.group[h] # None
          PROVE  next.group[h].members \cap d.group[g].members = {}
      <4>1. CASE next.group[h] = d.group[h]
        BY <3>1, <3>2, <4>1 DEF MaySit
      <4>2. CASE next.group[h] = [scope |-> q.scope, members |-> seat(f, h)]
        <5>1. next.group[h].members \subseteq loose
          BY <4>2
        <5> QED BY <1>6, <1>9, <2>2, <5>1
      <4> QED BY <1>8, <4>1, <4>2
    <3> QED BY <2>1, <2>2, <3>1, <3>2 DEF MaySit
  <2>3. CASE next.group[g] = [scope |-> q.scope, members |-> seat(f, g)]
    <3>1. ASSUME NEW h \in Groups \ {g}, next.group[h] # None
          PROVE  next.group[h].members \cap seat(f, g) = {}
      <4>1. CASE next.group[h] = d.group[h]
        BY <1>6, <3>1, <4>1
      <4>2. CASE next.group[h] = [scope |-> q.scope, members |-> seat(f, h)]
        <5>1. next.group[h].members = seat(f, h)
          BY <4>2
        <5> QED BY <5>1
      <4> QED BY <1>8, <4>1, <4>2
    <3> QED BY <1>5, <2>1, <2>3, <3>1 DEF MaySit
  <2> QED BY <1>8, <2>2, <2>3
<1>10. GroupsFollowRoster(next)
  BY <1>9 DEF GroupsFollowRoster
<1> QED BY <1>3, <1>7, <1>10, SameMembersAllowed

(* A dissolved group leaves the others as they were                        *)
(* (deleteTeachingLearningGroup).                                          *)
LEMMA UngroupAllowed ==
  ASSUME NEW d, Shaped(d), Orderly(d), NEW g \in Groups
  PROVE  Allowed(d, [d EXCEPT !.group[g] = None])
<1> DEFINE next == [d EXCEPT !.group[g] = None]
<1>1. /\ next.member = d.member /\ next.headcount = d.headcount /\ next.limit = d.limit
      /\ next.group = [d.group EXCEPT ![g] = None]
  BY DEF Shaped, Fields
<1> HIDE DEF next
<1>2. d.group \in [Groups -> {None} \cup GroupRecords]
  BY DEF Orderly, Typed
<1>3. next.group \in [Groups -> {None} \cup GroupRecords]
  BY <1>1, <1>2
<1>4. \A h \in Groups : next.group[h] # None => next.group[h] = d.group[h]
  BY <1>1, <1>2
<1>5. \A x : Approved(next, x) = Approved(d, x)
  BY <1>1 DEF Approved
<1>6. GroupsFollowRoster(next)
  BY <1>4, <1>5 DEF Orderly, GroupsFollowRoster, MaySit
<1>7. Allowed(d, next)
  BY <1>1, <1>3, <1>6, SameMembersAllowed
<1> QED BY <1>7 DEF next

(* The same, of the row a handler writes.                                  *)
LEMMA RecordSeated ==
  ASSUME NEW d, Shaped(d), Orderly(d), NEW g \in Groups, NEW rec \in GroupRecords,
         MaySit(d, g, rec.scope, rec.members)
  PROVE  Allowed(d, [d EXCEPT !.group[g] = rec])
<1> DEFINE next == [d EXCEPT !.group[g] = rec]
<1>1. /\ next.member = d.member /\ next.headcount = d.headcount /\ next.limit = d.limit
      /\ next.group = [d.group EXCEPT ![g] = rec]
  BY DEF Shaped, Fields
<1> HIDE DEF next
<1>2. d.group \in [Groups -> {None} \cup GroupRecords]
  BY DEF Orderly, Typed
<1>3. /\ next.group \in [Groups -> {None} \cup GroupRecords] /\ next.group[g] = rec
      /\ \A h \in Groups \ {g} : next.group[h] = d.group[h]
  BY <1>1, <1>2
<1>4. Allowed(d, next)
  BY <1>1, <1>3, SeatedAllowed
<1> QED BY <1>4 DEF next

(* Whatever a handler other than create and publish makes of an orderly    *)
(* row is orderly, and meets the policy of the codes in the row it read.   *)
LEMMA PlansAreAllowed ==
  ASSUME NEW d, Shaped(d), Orderly(d), NEW q, Sound(q), q.op \in RowOps,
         NEW next \in Plans(d, q)
  PROVE  Allowed(d, next)
<1>1. CASE q.op = "join"
  BY <1>1, JoinAllowed DEF Plans, Sound
<1>2. CASE q.op = "approve"
  BY <1>2, ApproveAllowed DEF Plans, Sound
<1>3. CASE q.op = "close"
  BY <1>3, CloseAllowed DEF Plans, Sound
<1>4. CASE q.op = "draft"
  <2>1. next = [d EXCEPT !.draft[q.code] = q.class]
    BY <1>4 DEF Plans, DraftedRows
  <2>2. /\ next.member = d.member /\ next.group = d.group /\ next.headcount = d.headcount
        /\ next.limit = d.limit
    BY <2>1 DEF Shaped, Fields
  <2>3. next.limit \in [Classes -> Nat]
    BY <2>2 DEF Orderly, Typed
  <2> QED BY <2>2, <2>3, SameRosterAllowed
<1>5. CASE q.op = "group"
  <2> DEFINE g == q.group
             rec == [scope |-> q.scope, members |-> q.students]
  <2>1. next \in GroupedRows(d, q) /\ rec \in GroupRecords /\ g \in Groups
    BY <1>5 DEF Plans, Sound, GroupRecords
  <2>2. MaySit(d, g, rec.scope, rec.members) /\ next = [d EXCEPT !.group[g] = rec]
    BY <2>1 DEF GroupedRows
  <2> HIDE DEF rec
  <2> QED BY <2>1, <2>2, RecordSeated
<1>6. CASE q.op = "regroup"
  <2> DEFINE g == q.group
             rec == [d.group[g] EXCEPT !.members = q.students]
  <2>1. next \in RegroupedRows(d, q) /\ q.students \in SUBSET Students /\ g \in Groups
    BY <1>6 DEF Plans, Sound
  <2>2. /\ d.group[g] # None /\ MaySit(d, g, d.group[g].scope, q.students)
        /\ next = [d EXCEPT !.group[g].members = q.students]
    BY <2>1 DEF RegroupedRows
  <2>3. d.group[g] \in GroupRecords
    BY <2>1, <2>2 DEF Orderly, Typed
  <2>4. rec \in GroupRecords /\ rec.scope = d.group[g].scope /\ rec.members = q.students
    BY <2>1, <2>3 DEF GroupRecords
  <2>5. next = [d EXCEPT !.group[g] = rec]
    BY <2>2 DEF Shaped, Fields
  <2> HIDE DEF rec
  <2> QED BY <2>1, <2>2, <2>4, <2>5, RecordSeated
<1>7. CASE q.op = "split"
  BY <1>7, SplitAllowed DEF Plans, Sound
<1>8. CASE q.op = "ungroup"
  <2>1. next = [d EXCEPT !.group[q.group] = None] /\ q.group \in Groups
    BY <1>8 DEF Plans, Sound
  <2> QED BY <2>1, UngroupAllowed
<1> QED BY <1>1, <1>2, <1>3, <1>4, <1>5, <1>6, <1>7, <1>8 DEF RowOps

(* Only a join seats anybody, and only with a request sent in time         *)
(* (assertTeachingClassInviteCodeUsable).                                  *)
LEMMA PlansAreInTime ==
  ASSUME NEW d, Shaped(d), Orderly(d), NEW q, Sound(q), q.op \in RowOps,
         NEW next \in Plans(d, q)
  PROVE  InTime(d, next, q)
<1>1. CASE q.op = "join"
  BY <1>1, JoinAllowed DEF Plans, Sound
<1>2. CASE q.op = "approve"
  <2>1. NoNewSeat(d, next)
    BY <1>2, ApproveAllowed DEF Plans, Sound
  <2> QED BY <2>1, NoNewSeatMeetsPolicy
<1>3. CASE q.op = "close"
  <2>1. NoNewSeat(d, next)
    BY <1>3, CloseAllowed DEF Plans, Sound
  <2> QED BY <2>1, NoNewSeatMeetsPolicy
<1>4. CASE q.op \in {"draft", "group", "regroup", "split", "ungroup"}
  <2>1. next.member = d.member
    <3>1. CASE q.op = "draft"
      BY <3>1 DEF Plans, DraftedRows, Shaped, Fields
    <3>2. CASE q.op = "group"
      BY <3>2 DEF Plans, GroupedRows, Shaped, Fields
    <3>3. CASE q.op = "regroup"
      BY <3>3 DEF Plans, RegroupedRows, Shaped, Fields
    <3>4. CASE q.op = "split"
      <4>1. \E groups : next = [d EXCEPT !.group = groups]
        BY <3>4 DEF Plans, SplitRows
      <4> QED BY <4>1 DEF Shaped, Fields
    <3>5. CASE q.op = "ungroup"
      BY <3>5 DEF Plans, Shaped, Fields
    <3> QED BY <1>4, <3>1, <3>2, <3>3, <3>4, <3>5
  <2> QED BY <2>1 DEF InTime, Unseated
<1> QED BY <1>1, <1>2, <1>3, <1>4 DEF RowOps
-----------------------------------------------------------------------------
(* The two handlers that hand out a code, and what they saw before.        *)

(* A class takes a code that no other class of the row it read has: the    *)
(* codes stay different (publishTeachingClassInviteCode).                  *)
LEMMA PublishedStaysUnique ==
  ASSUME NEW d, Shaped(d), UniqueIn(d), NEW x \in Classes, NEW k \in Codes, NEW next,
         Shaped(next), next.code = [d.code EXCEPT ![x] = k],
         \A y \in Classes \ {x} : d.code[y] # k
  PROVE  UniqueIn(next)
BY DEF Shaped, UniqueIn

(* A publication changes the code and its policy, nothing else.            *)
LEMMA PublishedFields ==
  ASSUME NEW d, Shaped(d), NEW q
  PROVE  /\ DOMAIN Published(d, q) = Fields
         /\ Published(d, q).code = [d.code EXCEPT ![q.class] = q.code]
         /\ Published(d, q).limit = [d.limit EXCEPT ![q.class] =
              IF q.patch.limit # None THEN q.patch.limit
              ELSE IF d.code[q.class] = q.code THEN d.limit[q.class] ELSE 0]
         /\ Published(d, q).member = d.member
         /\ Published(d, q).group = d.group
         /\ Published(d, q).headcount = d.headcount
BY DEF Published, Shaped, Fields

(* What the second read lets pass: a row of good shape, and one whose      *)
(* codes differ if the row it was made from still stands (createTeaching-  *)
(* ClassRecord, publishTeachingClassInviteCode).                           *)
LEMMA LookedUpRows ==
  ASSUME IInv, NEW w \in Workers, at[w] = "looking",
         NEW next \in IF req[w].op = "create" THEN CreatedRows(work[w], req[w])
                      ELSE PublishedRows(work[w], req[w])
  PROVE  /\ Shaped(next)
         /\ fresh[w] => /\ UniqueIn(next)
                        /\ Allowed(row[req[w].course], next)
                        /\ InTime(row[req[w].course], next, req[w])
<1> DEFINE q == req[w]
           d == work[w]
<1>1. /\ Sound(q) /\ Shaped(d) /\ q.op \in {"create", "publish"}
      /\ q.class \in Classes /\ q.course \in Courses
      /\ fresh[w] => d = row[q.course] /\ UniqueIn(d) /\ Orderly(d)
  BY DEF IInv, RequestInv, Sound, RowsInv
<1>2. \E k \in Codes : /\ Shaped(next)
                       /\ next.code = [d.code EXCEPT ![q.class] = k]
                       /\ d = row[q.course] => \A y \in Classes \ {q.class} : d.code[y] # k
  <2>1. CASE q.op = "create"
    <3>1. PICK k \in Codes \ UsedCodes : next = [d EXCEPT !.code[q.class] = k]
      BY <2>1 DEF CreatedRows
    <3>2. Shaped(next) /\ next.code = [d.code EXCEPT ![q.class] = k]
      BY <3>1, <1>1 DEF Shaped, Fields
    <3>3. \A y \in Classes : row[q.course].code[y] # k
      BY <1>1, <3>1 DEF UsedCodes, CodesOf
    <3> QED BY <3>1, <3>2, <3>3
  <2>2. CASE q.op = "publish"
    <3>1. next = Published(d, q) /\ ~\E c \in Courses : \E x \in Classes \ {q.class} : row[c].code[x] = q.code
      BY <2>2 DEF PublishedRows
    <3>2. Shaped(next) /\ next.code = [d.code EXCEPT ![q.class] = q.code]
      <4>1. q.code \in Codes
        BY <1>1, <2>2 DEF Sound
      <4>2. DOMAIN next = Fields /\ next.code = [d.code EXCEPT ![q.class] = q.code]
        <5> HIDE DEF q, d
        <5>0. Shaped(d)
          BY <1>1
        <5>1. /\ DOMAIN Published(d, q) = Fields
              /\ Published(d, q).code = [d.code EXCEPT ![q.class] = q.code]
          BY ONLY <5>0, PublishedFields
        <5> QED BY <3>1, <5>1
      <4> QED BY <4>1, <4>2, <1>1 DEF Shaped
    <3>3. q.code \in Codes
      BY <1>1, <2>2 DEF Sound
    <3> QED BY <3>1, <3>2, <3>3, <1>1
  <2> QED BY <1>1, <2>1, <2>2
<1>3. PICK k \in Codes : /\ Shaped(next)
                         /\ next.code = [d.code EXCEPT ![q.class] = k]
                         /\ d = row[q.course] => \A y \in Classes \ {q.class} : d.code[y] # k
  BY <1>2
<1>4. ASSUME fresh[w] PROVE UniqueIn(next)
  <2> HIDE DEF q, d
  <2> QED BY <1>1, <1>3, <1>4, PublishedStaysUnique
<1>5. ASSUME fresh[w] PROVE Allowed(d, next)
  <2>0. Orderly(d) /\ d.limit \in [Classes -> Nat]
    BY <1>1, <1>5 DEF Orderly, Typed
  <2>1. CASE q.op = "create"
    <3>1. PICK drawn \in Codes \ UsedCodes : next = [d EXCEPT !.code[q.class] = drawn]
      BY <2>1 DEF CreatedRows
    <3>2. /\ next.member = d.member /\ next.group = d.group /\ next.headcount = d.headcount
          /\ next.limit = d.limit
      BY <3>1, <1>1 DEF Shaped, Fields
    <3> QED BY <2>0, <3>2, SameRosterAllowed
  <2>2. CASE q.op = "publish"
    <3> DEFINE limit == IF q.patch.limit # None THEN q.patch.limit
                        ELSE IF d.code[q.class] = q.code THEN d.limit[q.class] ELSE 0
    <3>1. next = Published(d, q) /\ q.patch \in Patches
      BY <1>1, <2>2 DEF PublishedRows, Sound
    <3>3. limit \in Nat
      BY <1>1, <2>0, <3>1, PatchesAssumption
    <3>4. /\ next.member = d.member /\ next.group = d.group /\ next.headcount = d.headcount
          /\ next.limit = [d.limit EXCEPT ![q.class] = limit]
      <4> HIDE DEF q, d
      <4>1. /\ Published(d, q).member = d.member
            /\ Published(d, q).group = d.group
            /\ Published(d, q).headcount = d.headcount
            /\ Published(d, q).limit = [d.limit EXCEPT ![q.class] = limit]
        BY <1>1, PublishedFields
      <4> QED BY <3>1, <4>1
    <3> HIDE DEF limit
    <3>5. next.limit \in [Classes -> Nat]
      BY <2>0, <3>3, <3>4
    <3> QED BY <2>0, <3>4, <3>5, SameRosterAllowed
  <2> QED BY <1>1, <2>1, <2>2
<1>6. next.member = d.member
  <2>1. CASE q.op = "create"
    BY <1>1, <2>1 DEF CreatedRows, Shaped, Fields
  <2>2. CASE q.op = "publish"
    <3>1. next = Published(d, q)
      BY <2>2 DEF PublishedRows
    <3> HIDE DEF q, d
    <3> QED BY <1>1, <3>1, PublishedFields
  <2> QED BY <1>1, <2>1, <2>2
<1>7. InTime(d, next, q)
  <2> HIDE DEF q, d
  <2> QED BY <1>6 DEF InTime, Unseated
<1> QED BY <1>1, <1>3, <1>4, <1>5, <1>7
-----------------------------------------------------------------------------
(* The inductive invariant                                                 *)

(* A code of a row that was just opened is the code of a class of it.      *)
LEMMA OpenedRows ==
  ASSUME NEW c \in Courses, NEW code \in [Classes -> Codes \cup {None}],
         NEW seat \in [Students -> Classes \cup {None}],
         \A x, y \in Classes : code[x] = code[y] /\ code[x] # None => x = y
  PROVE  /\ Shaped(Opened(c, code, seat))
         /\ UniqueIn(Opened(c, code, seat))
         /\ Orderly(Opened(c, code, seat))
         /\ \A k \in CodesOf(Opened(c, code, seat)) :
              \E x \in Classes : CourseOf[x] = c /\ code[x] = k
<1> DEFINE d == Opened(c, code, seat)
<1>1. d.code = [x \in Classes |-> IF CourseOf[x] = c THEN code[x] ELSE None]
  BY DEF Opened
<1>2. Shaped(d)
  <2>1. DOMAIN d = Fields
    BY DEF Opened, Fields
  <2> QED BY <1>1, <2>1 DEF Shaped
<1>3. UniqueIn(d)
  BY <1>1 DEF UniqueIn
<1>4. ASSUME NEW k \in CodesOf(d) PROVE \E x \in Classes : CourseOf[x] = c /\ code[x] = k
  <2>0. k \in Codes /\ k # None
    BY NoneAssumption DEF CodesOf
  <2>1. d.draft[k] = None
    BY <2>0 DEF Opened
  <2>2. CASE \E x \in Classes : d.code[x] = k
    BY <2>0, <2>2, <1>1
  <2>3. CASE \E x \in Classes, s \in Students : d.member[x][s].code = k
    <3>1. PICK x \in Classes, s \in Students : d.member[x][s].code = k
      BY <2>3
    <3>2. d.member[x][s] = IF CourseOf[x] = c /\ s \in {t \in Students : seat[t] = x /\ code[x] # None}
                           THEN [status |-> "approved", code |-> code[x]] ELSE NoMember
      BY DEF Opened
    <3>3. NoMember.code = None
      BY DEF NoMember
    <3> QED BY <2>0, <3>1, <3>2, <3>3
  <2> QED BY <2>1, <2>2, <2>3 DEF CodesOf
<1>5. \A x \in Classes, s \in Students :
        d.member[x][s] = IF CourseOf[x] = c /\ seat[s] = x /\ code[x] # None
                         THEN [status |-> "approved", code |-> code[x]] ELSE NoMember
  BY DEF Opened
<1>6. \A x \in Classes, s \in Students :
        /\ d.member[x][s] \in Members
        /\ d.member[x][s].status \in {"approved", "none"}
        /\ (d.member[x][s].status = "approved") <=> (CourseOf[x] = c /\ seat[s] = x /\ code[x] # None)
  <2> SUFFICES ASSUME NEW x \in Classes, NEW s \in Students
               PROVE  /\ d.member[x][s] \in Members
                      /\ d.member[x][s].status \in {"approved", "none"}
                      /\ (d.member[x][s].status = "approved")
                           <=> (CourseOf[x] = c /\ seat[s] = x /\ code[x] # None)
    OBVIOUS
  <2>1. CASE CourseOf[x] = c /\ seat[s] = x /\ code[x] # None
    <3>1. d.member[x][s] = [status |-> "approved", code |-> code[x]]
      BY <1>5, <2>1
    <3> HIDE DEF d
    <3> QED BY <2>1, <3>1 DEF Members, Live
  <2>2. CASE ~(CourseOf[x] = c /\ seat[s] = x /\ code[x] # None)
    <3>1. d.member[x][s] = NoMember
      BY <1>5, <2>2
    <3> HIDE DEF d
    <3> QED BY <2>2, <3>1 DEF Members, Live, NoMember
  <2> QED BY <2>1, <2>2
<1>7. d.group = [g \in Groups |-> None] /\ d.limit = [x \in Classes |-> 0]
  BY DEF Opened
<1>8. \A x \in Classes :
        d.headcount[x] = Cardinality({s \in Students : d.member[x][s].status = "approved"})
  <2> SUFFICES ASSUME NEW x \in Classes
               PROVE d.headcount[x] = Cardinality({s \in Students : d.member[x][s].status = "approved"})
    OBVIOUS
  <2>1. d.headcount[x] = IF CourseOf[x] = c
                         THEN Cardinality({s \in Students : seat[s] = x /\ code[x] # None}) ELSE 0
    BY DEF Opened
  <2>2. CASE CourseOf[x] = c
    <3>1. {s \in Students : d.member[x][s].status = "approved"}
            = {s \in Students : seat[s] = x /\ code[x] # None}
      BY <1>6, <2>2
    <3> QED BY <2>1, <2>2, <3>1
  <2>3. CASE CourseOf[x] # c
    <3>1. {s \in Students : d.member[x][s].status = "approved"} = {}
      BY <1>6, <2>3
    <3> QED BY <2>1, <2>3, <3>1, FS_EmptySet
  <2> QED BY <2>2, <2>3
<1>9. Typed(d)
  <2>1. d.member \in [Classes -> [Students -> Members]]
    <3>1. d.member = [x \in Classes |-> [s \in Students |-> d.member[x][s]]]
      BY DEF Opened
    <3> HIDE DEF d
    <3> QED BY <1>6, <3>1
  <2>2. d.headcount \in [Classes -> Nat]
    <3>1. d.headcount = [x \in Classes |-> d.headcount[x]]
      BY DEF Opened
    <3> HIDE DEF d
    <3>2. ASSUME NEW x \in Classes PROVE d.headcount[x] \in Nat
      <4> DEFINE S == {s \in Students : d.member[x][s].status = "approved"}
      <4>1. IsFiniteSet(S)
        BY StudentsAssumption, FS_Subset
      <4>2. d.headcount[x] = Cardinality(S)
        BY <1>8
      <4> HIDE DEF S
      <4> QED BY <4>1, <4>2, FS_CardinalityType
    <3> QED BY <3>1, <3>2
  <2> HIDE DEF d
  <2> QED BY <1>7, <2>1, <2>2 DEF Typed
<1> HIDE DEF d
<1>10. OneLiveSeat(d) /\ GroupsFollowRoster(d) /\ HeadcountsAgree(d)
  BY <1>6, <1>7, <1>8 DEF OneLiveSeat, GroupsFollowRoster, HeadcountsAgree, Unseated, Live
<1>11. Orderly(d)
  BY <1>9, <1>10 DEF Orderly
<1> QED BY <1>2, <1>3, <1>4, <1>11 DEF d

(* It holds of every roster the program may start from.                    *)
LEMMA InitInv == Init => IInv
<1> SUFFICES ASSUME Init PROVE IInv
  OBVIOUS
<1>1. PICK code \in [Classes -> Codes \cup {None}], seat \in [Students -> Classes \cup {None}] :
        /\ \A x, y \in Classes : code[x] = code[y] /\ code[x] # None => x = y
        /\ row = [c \in Courses |-> Opened(c, code, seat)]
        /\ claims = [k \in Codes |-> IF \E x \in Classes : code[x] = k
                                     THEN CourseOf[CHOOSE x \in Classes : code[x] = k]
                                     ELSE None]
  BY DEF Init
<1>2. RowsInv
  BY <1>1, OpenedRows DEF RowsInv
<1>3. ClaimsInv
  <2>1. claims \in [Codes -> Courses \cup {None}]
    BY <1>1, CourseOfAssumption
  <2>2. ASSUME NEW c \in Courses, NEW k \in CodesOf(row[c]) PROVE claims[k] = c
    <3>1. k \in Codes /\ k # None
      BY NoneAssumption DEF CodesOf
    <3>2. PICK x \in Classes : CourseOf[x] = c /\ code[x] = k
      BY <1>1, <2>2, OpenedRows
    <3>3. (CHOOSE y \in Classes : code[y] = k) = x
      BY <1>1, <3>1, <3>2
    <3> QED BY <1>1, <3>1, <3>2, <3>3
  <2> QED BY <2>1, <2>2 DEF ClaimsInv
<1>4. FunctionsInv /\ \A w \in Workers : RequestInv(w)
  BY DEF Init, FunctionsInv, RequestInv
<1> QED BY <1>2, <1>3, <1>4 DEF IInv

(* Beginning a request names a course, and for a publication a code.       *)
LEMMA BeginKeepsInv ==
  ASSUME IInv, NEW w \in Workers, NEW q, Sound(q), Begin(w, q)
  PROVE  IInv'
<1>1. RowsInv' /\ ClaimsInv'
  BY DEF IInv, Begin, RowsInv, ClaimsInv
<1>2. FunctionsInv'
  BY DEF IInv, Begin, FunctionsInv
<1>3. ASSUME NEW v \in Workers PROVE RequestInv(v)'
  <2>1. CASE v = w
    BY <2>1 DEF IInv, Begin, FunctionsInv, RequestInv
  <2>2. CASE v # w
    BY <2>2 DEF IInv, Begin, FunctionsInv, RequestInv
  <2> QED BY <2>1, <2>2
<1> QED BY <1>1, <1>2, <1>3 DEF IInv

(* Every request that is begun is one the handlers know.                   *)
LEMMA AsksKeepInv ==
  ASSUME IInv, NEW w \in Workers,
         \/ AskToCreate(w) \/ AskToDraft(w) \/ AskToPublish(w) \/ AskToJoin(w)
         \/ AskToApprove(w) \/ AskToClose(w) \/ AskToGroup(w) \/ AskToRegroup(w)
  PROVE  IInv'
<1>0. \A x \in Classes : CourseOf[x] \in Courses
  BY CourseOfAssumption
<1>1. CASE AskToCreate(w)
  BY <1>0, <1>1, BeginKeepsInv DEF AskToCreate, Sound
<1>2. CASE AskToDraft(w)
  <2>1. PICK x \in Existing, k \in Codes \ UsedCodes :
          Begin(w, [op |-> "draft", course |-> CourseOf[x], class |-> x, code |-> k])
    BY <1>2 DEF AskToDraft
  <2>2. x \in Classes
    BY DEF Existing
  <2> QED BY <1>0, <2>1, <2>2, BeginKeepsInv DEF Sound
<1>3. CASE AskToPublish(w)
  <2>0. PICK x \in Existing, p \in Patches : \E k \in TargetCodes(x) :
          Begin(w, [op |-> "publish", course |-> CourseOf[x], class |-> x, code |-> k, patch |-> p])
    BY <1>3 DEF AskToPublish
  <2>1. PICK k \in TargetCodes(x) :
          Begin(w, [op |-> "publish", course |-> CourseOf[x], class |-> x, code |-> k, patch |-> p])
    BY <2>0
  <2>2. x \in Classes /\ row[CourseOf[x]].code[x] # None
    BY DEF Existing, Created
  <2>3. row[CourseOf[x]].code[x] \in Codes
    BY <1>0, <2>2 DEF IInv, RowsInv, Shaped
  <2>4. k \in Codes
    BY <2>1, <2>3 DEF TargetCodes, Drafted
  <2> QED BY <1>0, <2>1, <2>2, <2>4, BeginKeepsInv DEF Sound
<1>4. CASE AskToJoin(w)
  <2>1. PICK x \in Existing, s \in Students :
          Begin(w, [op |-> "join", course |-> CourseOf[x],
                    code |-> row[CourseOf[x]].code[x], student |-> s, since |-> now])
    BY <1>4 DEF AskToJoin
  <2>2. x \in Classes /\ row[CourseOf[x]].code[x] # None
    BY DEF Existing, Created
  <2>3. row[CourseOf[x]].code[x] \in Codes
    BY <1>0, <2>2 DEF IInv, RowsInv, Shaped
  <2> QED BY <1>0, <2>1, <2>2, <2>3, BeginKeepsInv DEF Sound
<1>5. CASE AskToApprove(w)
  <2>1. PICK x \in Existing, S \in SUBSET Students \ {{}} :
          Begin(w, [op |-> "approve", course |-> CourseOf[x], class |-> x, students |-> S])
    BY <1>5 DEF AskToApprove
  <2>2. x \in Classes
    BY DEF Existing
  <2> QED BY <1>0, <2>1, <2>2, BeginKeepsInv DEF Sound
<1>6. CASE AskToClose(w)
  <2>1. PICK x \in Existing, s \in Students, to \in {"rejected", "removed"} :
          Begin(w, [op |-> "close", course |-> CourseOf[x], class |-> x, student |-> s, to |-> to])
    BY <1>6 DEF AskToClose
  <2>2. x \in Classes
    BY DEF Existing
  <2> QED BY <1>0, <2>1, <2>2, BeginKeepsInv DEF Sound
<1>7. CASE AskToGroup(w)
  <2>1. PICK c \in Courses, g \in Groups, scope \in Classes \cup {None}, S \in Teams :
          \/ Begin(w, [op |-> "group", course |-> c, group |-> g, scope |-> scope, students |-> S])
          \/ Begin(w, [op |-> "split", course |-> c, scope |-> scope])
    BY <1>7 DEF AskToGroup
  <2>2. S \subseteq Students
    BY DEF Teams
  <2> QED BY <2>1, <2>2, BeginKeepsInv DEF Sound
<1>8. CASE AskToRegroup(w)
  <2>1. PICK c \in Courses, g \in Groups :
          \/ \E S \in Teams :
               Begin(w, [op |-> "regroup", course |-> c, group |-> g, students |-> S])
          \/ Begin(w, [op |-> "ungroup", course |-> c, group |-> g])
    BY <1>8 DEF AskToRegroup
  <2>2. \A S \in Teams : S \subseteq Students
    BY DEF Teams
  <2> QED BY <2>1, <2>2, BeginKeepsInv DEF Sound
<1> QED BY <1>1, <1>2, <1>3, <1>4, <1>5, <1>6, <1>7, <1>8

(* A step of one request that neither the rows nor the claims feel, and    *)
(* that leaves the request itself sound, keeps the invariant.              *)
LEMMA OwnStepKeepsInv ==
  ASSUME IInv, NEW w \in Workers, UNCHANGED <<row, claims>>,
         FunctionsInv', RequestInv(w)',
         \A v \in Workers \ {w} : /\ at'[v] = at[v] /\ req'[v] = req[v]
                                  /\ work'[v] = work[v] /\ fresh'[v] = fresh[v]
  PROVE  IInv'
<1>1. RowsInv' /\ ClaimsInv'
  BY DEF IInv, RowsInv, ClaimsInv
<1>2. ASSUME NEW v \in Workers \ {w} PROVE RequestInv(v)'
  BY <1>2 DEF IInv, RequestInv
<1> QED BY <1>1, <1>2 DEF IInv

(* Reading the row takes it as it is.                                      *)
LEMMA ReadKeepsInv ==
  ASSUME IInv, NEW w \in Workers, Read(w)
  PROVE  IInv'
<1> DEFINE q == req[w]
           d == row[q.course]
<1>1. /\ at[w] = "reading" /\ Sound(q) /\ q.course \in Courses
      /\ Shaped(d) /\ UniqueIn(d) /\ Orderly(d) /\ UNCHANGED <<row, claims>>
  BY DEF IInv, Read, RequestInv, Sound, RowsInv
<1>2. CASE /\ Looks(q)
           /\ work' = [work EXCEPT ![w] = d]
           /\ at' = [at EXCEPT ![w] = "looking"]
           /\ fresh' = [fresh EXCEPT ![w] = TRUE]
           /\ UNCHANGED <<req, attempts>>
  <2>1. FunctionsInv'
    BY <1>2 DEF IInv, FunctionsInv
  <2>2. RequestInv(w)'
    BY <1>1, <1>2 DEF IInv, FunctionsInv, RequestInv, Looks
  <2> QED BY <1>1, <1>2, <2>1, <2>2, OwnStepKeepsInv DEF IInv, FunctionsInv
<1>3. CASE /\ ~Looks(q)
           /\ fresh' = [fresh EXCEPT ![w] = TRUE]
           /\ \E next \in Plans(d, q) : Write(w, next)
  <2>1. PICK next \in Plans(d, q) : Write(w, next)
    BY <1>3
  <2>2. Shaped(next) /\ next.code = d.code /\ Allowed(d, next) /\ InTime(d, next, q)
    <3>1. q.op \in RowOps
      BY <1>1, <1>3 DEF Sound, Looks, RowOps
    <3> QED BY <1>1, <3>1, PlansKeepCodes, PlansAreAllowed, PlansAreInTime
  <2>3. UniqueIn(next)
    BY <1>1, <2>2 DEF UniqueIn
  <2>4. FunctionsInv'
    BY <1>3, <2>1 DEF IInv, FunctionsInv, Write
  <2>5. RequestInv(w)'
    BY <1>1, <1>3, <2>1, <2>2, <2>3 DEF IInv, FunctionsInv, RequestInv, Write
  <2> QED BY <1>1, <1>3, <2>1, <2>4, <2>5, OwnStepKeepsInv DEF IInv, FunctionsInv, Write
<1>4. CASE fresh' = [fresh EXCEPT ![w] = FALSE] /\ Finish(w)
  <2>1. FunctionsInv' /\ RequestInv(w)'
    BY <1>4 DEF IInv, FunctionsInv, RequestInv, Finish
  <2> QED BY <1>1, <1>4, <2>1, OwnStepKeepsInv DEF IInv, FunctionsInv, Finish
<1> QED BY <1>2, <1>3, <1>4 DEF Read

(* Reading the codes of all rows.                                          *)
LEMMA LookKeepsInv ==
  ASSUME IInv, NEW w \in Workers, Look(w)
  PROVE  IInv'
<1> DEFINE plans == IF req[w].op = "create" THEN CreatedRows(work[w], req[w])
                    ELSE PublishedRows(work[w], req[w])
<1>1. at[w] = "looking" /\ Sound(req[w]) /\ UNCHANGED <<row, claims>>
  BY DEF IInv, Look, RequestInv
<1>2. CASE (\E next \in plans : Write(w, next)) /\ UNCHANGED fresh
  <2>1. PICK next \in plans : Write(w, next)
    BY <1>2
  <2>2. Shaped(next) /\ (fresh[w] => /\ UniqueIn(next)
                                     /\ Allowed(row[req[w].course], next)
                                     /\ InTime(row[req[w].course], next, req[w]))
    BY <1>1, LookedUpRows
  <2>3. FunctionsInv'
    BY <1>2, <2>1 DEF IInv, FunctionsInv, Write
  <2>4. RequestInv(w)'
    BY <1>1, <1>2, <2>1, <2>2 DEF IInv, FunctionsInv, RequestInv, Write
  <2> QED BY <1>1, <1>2, <2>1, <2>3, <2>4, OwnStepKeepsInv DEF IInv, FunctionsInv, Write
<1>3. CASE fresh' = [fresh EXCEPT ![w] = FALSE] /\ Finish(w)
  <2>1. FunctionsInv' /\ RequestInv(w)'
    BY <1>3 DEF IInv, FunctionsInv, RequestInv, Finish
  <2> QED BY <1>1, <1>3, <2>1, OwnStepKeepsInv DEF IInv, FunctionsInv, Finish
<1> QED BY <1>2, <1>3 DEF Look

(* A write whose revision stands and whose codes no other course claims.   *)
LEMMA CommitKeepsInv ==
  ASSUME IInv, NEW w \in Workers, Commit(w)
  PROVE  IInv'
<1> DEFINE c == req[w].course
           d == work[w]
<1>1. /\ at[w] = "writing" /\ fresh[w] /\ c \in Courses /\ Shaped(d) /\ UniqueIn(d)
      /\ Allowed(row[c], d)
      /\ \A k \in CodesOf(d) : claims[k] \in {c, None}
  BY DEF IInv, Commit, RequestInv, Overtaken, ClaimRefused, Sound
<1>2. /\ row' = [row EXCEPT ![c] = d] /\ claims' = Reconciled(c, d) /\ Finish(w)
      /\ fresh' = [v \in Workers |-> fresh[v] /\ v # w /\ req[v].course # c]
  BY DEF Commit
<1>3. \A e \in Courses : row'[e] = IF e = c THEN d ELSE row[e]
  BY <1>1, <1>2 DEF IInv, RowsInv
<1>4. RowsInv'
  <2>1. row' \in [Courses -> {row'[e] : e \in Courses}]
    BY <1>2 DEF IInv, RowsInv
  <2>2. Orderly(d)
    BY <1>1 DEF Allowed
  <2>3. ASSUME NEW e \in Courses PROVE Shaped(row'[e]) /\ UniqueIn(row'[e]) /\ Orderly(row'[e])
    BY <1>1, <1>3, <2>2 DEF IInv, RowsInv
  <2> QED BY <2>1, <2>3 DEF RowsInv
<1>5. ClaimsInv'
  <2>1. claims' \in [Codes -> Courses \cup {None}]
    BY <1>1, <1>2 DEF IInv, ClaimsInv, Reconciled
  <2>2. ASSUME NEW e \in Courses, NEW k \in CodesOf(row'[e]) PROVE claims'[k] = e
    <3>1. k \in Codes /\ e # None
      BY NoneAssumption DEF CodesOf
    <3>2. CASE e = c
      BY <1>2, <1>3, <3>1, <3>2 DEF Reconciled
    <3>3. CASE e # c
      <4>1. claims[k] = e
        BY <1>3, <2>2, <3>3 DEF IInv, ClaimsInv
      <4>2. k \notin CodesOf(d)
        BY <1>1, <3>1, <3>3, <4>1
      <4> QED BY <1>2, <3>1, <3>3, <4>1, <4>2 DEF Reconciled
    <3> QED BY <3>2, <3>3
  <2> QED BY <2>1, <2>2 DEF ClaimsInv
<1>6. FunctionsInv'
  <2>1. fresh' \in [Workers -> BOOLEAN]
    BY <1>2
  <2> QED BY <1>2, <2>1 DEF IInv, FunctionsInv, Finish
<1>7. ASSUME NEW v \in Workers PROVE RequestInv(v)'
  <2>1. CASE v = w
    BY <1>2, <2>1 DEF IInv, FunctionsInv, RequestInv, Finish
  <2>2. CASE v # w
    <3>1. at'[v] = at[v] /\ req'[v] = req[v] /\ work'[v] = work[v]
      BY <1>2, <2>2 DEF IInv, FunctionsInv, Finish
    <3>2. fresh'[v] => fresh[v] /\ req[v].course # c
      BY <1>2
    <3>3. fresh'[v] /\ req[v].course \in Courses => row'[req[v].course] = row[req[v].course]
      BY <1>3, <3>2
    <3> QED BY <3>1, <3>2, <3>3 DEF IInv, RequestInv, Sound
  <2> QED BY <2>1, <2>2
<1> QED BY <1>4, <1>5, <1>6, <1>7 DEF IInv

(* A refused write starts over or gives up.                                *)
LEMMA ConflictKeepsInv ==
  ASSUME IInv, NEW w \in Workers, Conflict(w)
  PROVE  IInv'
<1>1. /\ at[w] = "writing" /\ Sound(req[w]) /\ UNCHANGED <<row, claims>>
      /\ fresh' = [fresh EXCEPT ![w] = FALSE]
  BY DEF IInv, Conflict, RequestInv
<1>2. \/ /\ at' = [at EXCEPT ![w] = "reading"]
         /\ work' = [work EXCEPT ![w] = None]
         /\ UNCHANGED req
      \/ Finish(w)
  BY DEF Conflict
<1>3. FunctionsInv'
  BY <1>1, <1>2 DEF IInv, FunctionsInv, Finish
<1>4. RequestInv(w)'
  BY <1>1, <1>2 DEF IInv, FunctionsInv, RequestInv, Finish
<1> QED BY <1>1, <1>2, <1>3, <1>4, OwnStepKeepsInv DEF IInv, FunctionsInv, Finish

(* Every step of every request keeps it.                                   *)
LEMMA StepKeepsInv == IInv /\ [Next]_vars => IInv'
<1> SUFFICES ASSUME IInv, [Next]_vars PROVE IInv'
  OBVIOUS
<1>1. CASE UNCHANGED vars
  BY <1>1 DEF vars, IInv, RowsInv, ClaimsInv, FunctionsInv, RequestInv
<1>2. CASE Tick
  BY <1>2 DEF Tick, IInv, RowsInv, ClaimsInv, FunctionsInv, RequestInv
<1>3. CASE Next /\ ~Tick
  BY <1>3, AsksKeepInv, ReadKeepsInv, LookKeepsInv, CommitKeepsInv, ConflictKeepsInv DEF Next
<1> QED BY <1>1, <1>2, <1>3

(* Two classes with one code would both have their course's claim on it.   *)
LEMMA InvNamesOneClass == IInv => CodeNamesOneClass
<1> SUFFICES ASSUME IInv, NEW c \in Courses, NEW e \in Courses,
                    NEW x \in Classes, NEW y \in Classes,
                    row[c].code[x] = row[e].code[y], row[c].code[x] # None
             PROVE  c = e /\ x = y
  BY DEF CodeNamesOneClass
<1>1. row[c].code[x] \in Codes
  BY DEF IInv, RowsInv, Shaped
<1>2. row[c].code[x] \in CodesOf(row[c]) /\ row[c].code[x] \in CodesOf(row[e])
  BY <1>1 DEF CodesOf
<1>3. c = e
  BY <1>2 DEF IInv, ClaimsInv
<1>4. x = y
  BY <1>3 DEF IInv, RowsInv, UniqueIn
<1> QED BY <1>3, <1>4

(* An invite code names one class at most in the whole deployment          *)
(* (publishTeachingClassInviteCode, createTeachingClassRecord,             *)
(* reconcileTeachingClassInviteCodeClaims).                                *)
THEOREM InviteCodes == Spec => []CodeNamesOneClass
BY InitInv, StepKeepsInv, InvNamesOneClass, PTL DEF Spec

(* The claims a course holds cover every code its row holds, so a code in  *)
(* use, drafted, or kept by a membership is never handed out elsewhere     *)
(* (selectTeachingClassInviteCodeClaims).                                  *)
THEOREM CodesAreClaimed == Spec => []ClaimsInv
<1>1. IInv => ClaimsInv
  BY DEF IInv
<1> QED BY InitInv, StepKeepsInv, <1>1, PTL DEF Spec

(* However the requests cross, no student has two live seats in a course,  *)
(* the learning groups hold approved students, each in one group, and a    *)
(* class shows as many students as were approved                           *)
(* (setTeachingClassMembershipStatus, createTeachingLearningGroup).        *)
THEOREM RostersAgree == Spec => []RosterAgrees
<1>1. IInv => RosterAgrees
  BY DEF IInv, RowsInv, Orderly, RosterAgrees
<1> QED BY InitInv, StepKeepsInv, <1>1, PTL DEF Spec

(* A row changes only when a write lands, and the write was worked out of  *)
(* the row it replaces.                                                    *)
LEMMA StepMeetsPolicy ==
  ASSUME IInv, [Next]_vars, NEW c \in Courses, row'[c] # row[c]
  PROVE  /\ PolicyMet(row[c], row'[c])
         /\ \E w \in Workers : at[w] = "writing" /\ InTime(row[c], row'[c], req[w])
<1>1. ~UNCHANGED row
  OBVIOUS
<1>2. UNCHANGED row \/ \E w \in Workers : Commit(w)
  BY DEF Next, vars, Tick, AskToCreate, AskToDraft, AskToPublish, AskToJoin, AskToApprove,
         AskToClose, AskToGroup, AskToRegroup, Begin, Read, Look, Conflict
<1>3. PICK w \in Workers : Commit(w)
  BY <1>1, <1>2
<1>4. /\ at[w] = "writing" /\ req[w].course \in Courses
      /\ Allowed(row[req[w].course], work[w])
      /\ InTime(row[req[w].course], work[w], req[w])
  BY <1>3 DEF IInv, Commit, RequestInv, Overtaken, Sound
<1>5. row'[c] = IF c = req[w].course THEN work[w] ELSE row[c]
  BY <1>3, <1>4 DEF IInv, RowsInv, Commit
<1>6. c = req[w].course /\ row'[c] = work[w]
  BY <1>5
<1> QED BY <1>4, <1>6 DEF Allowed

(* No burst of joins passes the limit of a code, and none lands in a class *)
(* that has since taken another code or switched its own off, or was sent  *)
(* after the deadline that stands when it lands                            *)
(* (joinTeachingClassByInviteCode, assertTeachingClassInviteCodeUsable).   *)
THEOREM JoinsFollowPolicy == Spec => JoinsMeetPolicy
<1>1. IInv /\ [Next]_vars =>
        [\A c \in Courses, x \in Classes : NewlySeated(c, x) # {} =>
           /\ \A s \in NewlySeated(c, x) : /\ row'[c].member[x][s].code = row[c].code[x]
                                           /\ SentInTime(c, x, s)
           /\ x \notin row[c].disabled
           /\ row[c].limit[x] # 0 => Cardinality(JoinedWithCode(row'[c], x)) <= row[c].limit[x]]_vars
  <2> SUFFICES ASSUME IInv, [Next]_vars, NEW c \in Courses, NEW x \in Classes,
                      NewlySeated(c, x) # {}
               PROVE  /\ \A s \in NewlySeated(c, x) : /\ row'[c].member[x][s].code = row[c].code[x]
                                                      /\ SentInTime(c, x, s)
                      /\ x \notin row[c].disabled
                      /\ row[c].limit[x] # 0 =>
                           Cardinality(JoinedWithCode(row'[c], x)) <= row[c].limit[x]
    OBVIOUS
  <2>1. row'[c] # row[c]
    BY DEF NewlySeated, Unseated
  <2>2. PolicyMet(row[c], row'[c])
    BY <2>1, StepMeetsPolicy
  <2>3. PICK w \in Workers : at[w] = "writing" /\ InTime(row[c], row'[c], req[w])
    BY <2>1, StepMeetsPolicy
  <2>4. ASSUME NEW s \in NewlySeated(c, x) PROVE SentInTime(c, x, s)
    BY <2>3 DEF InTime, NewlySeated, SentInTime
  <2> QED BY <2>2, <2>4 DEF PolicyMet, NewlySeated
<1> QED BY InitInv, StepKeepsInv, <1>1, PTL DEF Spec, JoinsMeetPolicy
=============================================================================
