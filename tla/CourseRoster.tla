----------------------------- MODULE CourseRoster -----------------------------
(***************************************************************************)
(* The roster of a course: classes and their invite codes, the students    *)
(* who join with a code, and the learning groups they sit in.  One row     *)
(* holds everything of one course, so a request reads the row, works the   *)
(* new row out in memory and writes it if the revision it read still       *)
(* stands, else it starts over (teaching-course-management-*-handlers.ts,  *)
(* teaching-course-management-postgres-store.ts).                          *)
(*                                                                         *)
(* Invite codes are the one thing that is not of one course: a student     *)
(* joins with the bare code.  A request that hands one out also reads all  *)
(* the rows, and the write claims the codes of its row in a table of their *)
(* own.                                                                    *)
(***************************************************************************)
EXTENDS Naturals, FiniteSets

CONSTANTS
  Courses, Classes, Codes, Students,
  Groups,        \* the ids learning groups may get
  Workers,       \* the requests that may run at once
  CourseOf,      \* the course of each class
  Patches,       \* what a publication may change of the policy of the code
  MaxAttempts,   \* attempts of a request against a row that moves
  MaxRequests,   \* requests in all
  None

ASSUME CourseOfAssumption == CourseOf \in [Classes -> Courses]
ASSUME BoundsAssumption == MaxAttempts \in Nat \ {0} /\ MaxRequests \in Nat
ASSUME StudentsAssumption == IsFiniteSet(Students)
ASSUME PatchesAssumption ==
  \A p \in Patches : /\ p.limit # None => p.limit \in Nat     \* 0 lifts the limit
                     /\ p.expires # None => p.expires \in Nat   \* 0 lifts the deadline
                     /\ p.disabled # None => p.disabled \in BOOLEAN
ASSUME NoneAssumption == None \notin Courses \cup Classes \cup Codes \cup Groups

MinMembers == 2

VARIABLES
  row,           \* the row of each course
  claims,        \* the course that has claimed each code
  at,            \* how far the request of each worker is
  req,           \* what it asks for
  work,          \* the row it read, then the row it wants to write
  fresh,         \* whether the revision it read still stands
  attempts,
  asked,         \* requests so far
  now            \* the clock of the server

vars == <<row, claims, at, req, work, fresh, attempts, asked, now>>
-----------------------------------------------------------------------------
(* The row of a course *)

ClassesOf(c) == {x \in Classes : CourseOf[x] = c}
Live == {"pending", "approved"}
NoMember == [status |-> "none", code |-> None]
Members == [status: Live \cup {"none", "rejected", "removed"}, code: Codes \cup {None}]
GroupRecords == [scope: Classes \cup {None}, members: SUBSET Students]

Rows == [code: [Classes -> Codes \cup {None}],      \* None: not created
         limit: [Classes -> Nat],            \* 0: none
         expires: [Classes -> Nat],                 \* 0: never
         disabled: SUBSET Classes,                  \* the code is switched off
         announced: SUBSET Classes,                 \* a code was published
         draft: [Codes -> Classes \cup {None}],     \* the class a code was drafted for
         member: [Classes -> [Students -> Members]],
         group: [Groups -> {None} \cup GroupRecords],
         headcount: [Classes -> Nat]]

\* Every code a row holds: of its classes, of its drafts, and the copy a
\* membership keeps of the code it joined with.
CodesOf(d) == {k \in Codes : \/ \E x \in Classes : d.code[x] = k
                             \/ d.draft[k] # None
                             \/ \E x \in Classes, s \in Students : d.member[x][s].code = k}

Created(d) == {x \in Classes : d.code[x] # None}
Unseated(d, x, s) == d.member[x][s].status \notin Live
Approved(d, scope) == {s \in Students : \E x \in Classes :
                         d.member[x][s].status = "approved" /\ scope \in {x, None}}
Grouped(d) == UNION {d.group[g].members : g \in {h \in Groups : d.group[h] # None}}

\* The students whose live seat in the class was taken with its present code.
JoinedWithCode(d, x) == {s \in Students : ~Unseated(d, x, s) /\ d.member[x][s].code = d.code[x]}

Recounted(d, x) ==
  [d EXCEPT !.headcount[x] = Cardinality({s \in Students : d.member[x][s].status = "approved"})]

UsedCodes == UNION {CodesOf(row[c]) : c \in Courses}

(* A row in which the classes have their first codes, and some students    *)
(* were approved with them.                                                *)
Opened(c, code, seat) ==
  LET sits(x) == {s \in Students : seat[s] = x /\ code[x] # None}
  IN [code |-> [x \in Classes |-> IF CourseOf[x] = c THEN code[x] ELSE None],
      limit |-> [x \in Classes |-> 0],
      expires |-> [x \in Classes |-> 0],
      disabled |-> {},
      announced |-> {},
      draft |-> [k \in Codes |-> None],
      member |-> [x \in Classes |-> [s \in Students |->
                    IF CourseOf[x] = c /\ s \in sits(x)
                    THEN [status |-> "approved", code |-> code[x]] ELSE NoMember]],
      group |-> [g \in Groups |-> None],
      headcount |-> [x \in Classes |-> IF CourseOf[x] = c THEN Cardinality(sits(x)) ELSE 0]]

Init ==
  /\ \E code \in [Classes -> Codes \cup {None}], seat \in [Students -> Classes \cup {None}] :
       /\ \A x, y \in Classes : code[x] = code[y] /\ code[x] # None => x = y
       /\ row = [c \in Courses |-> Opened(c, code, seat)]
       /\ claims = [k \in Codes |-> IF \E x \in Classes : code[x] = k
                                    THEN CourseOf[CHOOSE x \in Classes : code[x] = k]
                                    ELSE None]
  /\ at = [w \in Workers |-> "idle"]
  /\ req = [w \in Workers |-> None]
  /\ work = [w \in Workers |-> None]
  /\ fresh = [w \in Workers |-> FALSE]
  /\ attempts = [w \in Workers |-> 0]
  /\ asked = 0
  /\ now = 0

\* Time matters when it reaches the deadline of a code that a class has.
Tick ==
  /\ \E c \in Courses, x \in Classes : row[c].expires[x] > now
  /\ now' = now + 1
  /\ UNCHANGED <<row, claims, at, req, work, fresh, attempts, asked>>
-----------------------------------------------------------------------------
(* Requests.  The reads a handler makes before its loop fix the course of  *)
(* a join, the code of a draft and the code to publish; a join also reads  *)
(* the clock there, once for all its attempts.                             *)

Existing == {x \in Classes : x \in Created(row[CourseOf[x]])}
Drafted(x) == {k \in Codes : row[CourseOf[x]].draft[k] = x}
TargetCodes(x) == IF Drafted(x) # {} THEN Drafted(x) ELSE {row[CourseOf[x]].code[x]}
Teams == {S \in SUBSET Students : Cardinality(S) >= MinMembers}

Begin(w, q) ==
  /\ at[w] = "idle"
  /\ asked < MaxRequests
  /\ asked' = asked + 1
  /\ req' = [req EXCEPT ![w] = q]
  /\ at' = [at EXCEPT ![w] = "reading"]
  /\ UNCHANGED <<row, claims, work, fresh, attempts, now>>

AskToCreate(w) == \E x \in Classes :
  Begin(w, [op |-> "create", course |-> CourseOf[x], class |-> x])

AskToDraft(w) == \E x \in Existing, k \in Codes \ UsedCodes :
  Begin(w, [op |-> "draft", course |-> CourseOf[x], class |-> x, code |-> k])

AskToPublish(w) == \E x \in Existing, p \in Patches : \E k \in TargetCodes(x) :
  Begin(w, [op |-> "publish", course |-> CourseOf[x], class |-> x, code |-> k, patch |-> p])

AskToJoin(w) == \E x \in Existing, s \in Students :
  Begin(w, [op |-> "join", course |-> CourseOf[x], code |-> row[CourseOf[x]].code[x],
            student |-> s, since |-> now])

AskToApprove(w) == \E x \in Existing, S \in SUBSET Students \ {{}} :
  Begin(w, [op |-> "approve", course |-> CourseOf[x], class |-> x, students |-> S])

AskToClose(w) == \E x \in Existing, s \in Students, to \in {"rejected", "removed"} :
  Begin(w, [op |-> "close", course |-> CourseOf[x], class |-> x, student |-> s, to |-> to])

AskToGroup(w) == \E c \in Courses, g \in Groups, scope \in Classes \cup {None}, S \in Teams :
  /\ scope \in ClassesOf(c) \cup {None}
  /\ \/ Begin(w, [op |-> "group", course |-> c, group |-> g, scope |-> scope, students |-> S])
     \/ Begin(w, [op |-> "split", course |-> c, scope |-> scope])

AskToRegroup(w) == \E c \in Courses : \E g \in {h \in Groups : row[c].group[h] # None} :
  \/ \E S \in Teams :
       Begin(w, [op |-> "regroup", course |-> c, group |-> g, students |-> S])
  \/ Begin(w, [op |-> "ungroup", course |-> c, group |-> g])
-----------------------------------------------------------------------------
(* What each request makes of the row it read: the rows it may write, none *)
(* when it is refused or finds its work done.                              *)

Joined(d, q) ==
  {[d EXCEPT !.member[x][q.student] = [status |-> "pending", code |-> q.code]] :
     x \in {y \in Classes :
              /\ d.code[y] = q.code
              /\ \A z \in Classes : Unseated(d, z, q.student)
              /\ y \notin d.disabled
              /\ d.expires[y] # 0 => q.since < d.expires[y]
              /\ d.limit[y] # 0 => Cardinality(JoinedWithCode(d, y)) < d.limit[y]}}

ApprovedRows(d, q) ==
  LET x == q.class
      waiting == {s \in q.students : d.member[x][s].status = "pending"}
  IN IF waiting = {} \/ \E s \in q.students : d.member[x][s].status = "none" THEN {}
     ELSE {Recounted([d EXCEPT !.member[x] = [s \in Students |->
             IF s \in waiting THEN [d.member[x][s] EXCEPT !.status = "approved"]
             ELSE d.member[x][s]]], x)}

KeptSeats(d, s) ==                         \* mutant: a removed student keeps the seat
  IF s \in Students THEN d ELSE d

\* A student who leaves the roster leaves the learning groups of the course.
Released(d, s) ==
  [d EXCEPT !.group = [g \in Groups |->
     IF d.group[g] = None THEN None
     ELSE [d.group[g] EXCEPT !.members = d.group[g].members \ {s}]]]

ClosedRows(d, q) ==
  LET from == IF q.to = "rejected" THEN "pending" ELSE "approved"
      closed == [d EXCEPT !.member[q.class][q.student].status = q.to]
  IN IF d.member[q.class][q.student].status # from THEN {}
     ELSE {Recounted(Released(closed, q.student), q.class)}

DraftedRows(d, q) == {[d EXCEPT !.draft[q.code] = q.class]}

\* Whether all of S may sit in group g of the scope.
MaySit(d, g, scope, S) ==
  /\ S \subseteq Approved(d, scope)
  /\ \A h \in Groups \ {g} : d.group[h] # None => d.group[h].members \cap S = {}

GroupedRows(d, q) ==
  {[d EXCEPT !.group[g] = [scope |-> q.scope, members |-> q.students]] :
     g \in {h \in {q.group} : d.group[h] = None /\ MaySit(d, h, q.scope, q.students)}}

RegroupedRows(d, q) ==
  {[d EXCEPT !.group[g].members = q.students] :
     g \in {h \in {q.group} : d.group[h] # None /\ MaySit(d, h, d.group[h].scope, q.students)}}

\* Every approved student who sits nowhere gets a seat in a new group; which
\* of them sit together is left open.
SplitRows(d, q) ==
  LET free == {g \in Groups : d.group[g] = None}
      loose == Approved(d, q.scope) \ Grouped(d)
      seat(f, g) == {s \in loose : f[s] = g}
  IN IF Cardinality(loose) < MinMembers THEN {}
     ELSE {[d EXCEPT !.group = [g \in Groups |->
              IF g \in free /\ seat(f, g) # {} THEN [scope |-> q.scope, members |-> seat(f, g)]
              ELSE d.group[g]]] :
             f \in {h \in [loose -> free] :
                      \A g \in free : Cardinality(seat(h, g)) \notin 1..(MinMembers - 1)}}

Plans(d, q) ==
  CASE q.op = "join" -> Joined(d, q)
    [] q.op = "approve" -> ApprovedRows(d, q)
    [] q.op = "close" -> ClosedRows(d, q)
    [] q.op = "draft" -> DraftedRows(d, q)
    [] q.op = "group" -> GroupedRows(d, q)
    [] q.op = "regroup" -> RegroupedRows(d, q)
    [] q.op = "split" -> SplitRows(d, q)
    [] q.op = "ungroup" -> {[d EXCEPT !.group[q.group] = None]}

\* A new code brings a new policy, the code the class has keeps its own.
Published(d, q) ==
  LET x == q.class
      same == d.code[x] = q.code
      limit == IF q.patch.limit # None THEN q.patch.limit ELSE IF same THEN d.limit[x] ELSE 0
      expires == IF q.patch.expires # None THEN q.patch.expires
                 ELSE IF same THEN d.expires[x] ELSE 0
      off == IF q.patch.disabled # None THEN q.patch.disabled ELSE same /\ x \in d.disabled
  IN [d EXCEPT !.code[x] = q.code,
               !.limit[x] = limit,
               !.expires[x] = expires,
               !.disabled = IF off THEN @ \cup {x} ELSE @ \ {x},
               !.announced = @ \cup {x}]

PublishedRows(d, q) ==
  IF \E c \in Courses : \E x \in Classes \ {q.class} : row[c].code[x] = q.code THEN {}
  ELSE {Published(d, q)} \ {d}

CreatedRows(d, q) == {[d EXCEPT !.code[q.class] = k] : k \in Codes \ UsedCodes}
-----------------------------------------------------------------------------
(* One attempt: read the row, read the codes of all rows if need be, write *)

Looks(q) == q.op \in {"create", "publish"}

Finish(w) ==
  /\ at' = [at EXCEPT ![w] = "idle"]
  /\ req' = [req EXCEPT ![w] = None]
  /\ work' = [work EXCEPT ![w] = None]
  /\ attempts' = [attempts EXCEPT ![w] = 0]

Write(w, d) ==
  /\ work' = [work EXCEPT ![w] = d]
  /\ at' = [at EXCEPT ![w] = "writing"]
  /\ UNCHANGED <<req, attempts>>

Read(w) ==
  LET q == req[w]
      d == row[q.course]
  IN /\ at[w] = "reading"
     /\ \/ /\ Looks(q)
           /\ (q.op = "create") <=> (d.code[q.class] = None)
           /\ work' = [work EXCEPT ![w] = d]
           /\ at' = [at EXCEPT ![w] = "looking"]
           /\ fresh' = [fresh EXCEPT ![w] = TRUE]
           /\ UNCHANGED <<req, attempts>>
        \/ /\ ~Looks(q)
           /\ fresh' = [fresh EXCEPT ![w] = TRUE]
           /\ \E next \in Plans(d, q) : Write(w, next)
        \/ /\ IF Looks(q) THEN q.op = "create" /\ d.code[q.class] # None ELSE Plans(d, q) = {}
           /\ fresh' = [fresh EXCEPT ![w] = FALSE]
           /\ Finish(w)
     /\ UNCHANGED <<row, claims, asked, now>>

Look(w) ==
  LET q == req[w]
      next == IF q.op = "create" THEN CreatedRows(work[w], q) ELSE PublishedRows(work[w], q)
  IN /\ at[w] = "looking"
     /\ \/ /\ \E d \in next : Write(w, d)
           /\ UNCHANGED fresh
        \/ /\ next = {}
           /\ fresh' = [fresh EXCEPT ![w] = FALSE]
           /\ Finish(w)
     /\ UNCHANGED <<row, claims, asked, now>>

OvertakenNever(w) == w \notin Workers       \* mutant: the revision is not compared

\* Whether the revision a request read is no longer the row's.
Overtaken(w) == ~fresh[w]

ClaimUnseen(c, d) ==                       \* mutant: claims of other courses are overwritten
  \E k \in CodesOf(d) : claims[k] \notin Courses \cup {c, None}

\* Whether another course has claimed a code of the row.
ClaimRefused(c, d) == \E k \in CodesOf(d) : claims[k] \notin {c, None}

Reconciled(c, d) == [k \in Codes |-> IF k \in CodesOf(d) THEN c
                                     ELSE IF claims[k] = c THEN None ELSE claims[k]]

Commit(w) ==
  LET c == req[w].course
  IN /\ at[w] = "writing"
     /\ ~Overtaken(w)
     /\ ~ClaimRefused(c, work[w])
     /\ row' = [row EXCEPT ![c] = work[w]]
     /\ claims' = Reconciled(c, work[w])
     /\ fresh' = [v \in Workers |-> fresh[v] /\ v # w /\ req[v].course # c]
     /\ Finish(w)
     /\ UNCHANGED <<asked, now>>

\* A write that was refused starts over, while it has attempts left.
Conflict(w) ==
  /\ at[w] = "writing"
  /\ Overtaken(w) \/ ClaimRefused(req[w].course, work[w])
  /\ fresh' = [fresh EXCEPT ![w] = FALSE]
  /\ \/ /\ attempts[w] + 1 < MaxAttempts
        /\ attempts' = [attempts EXCEPT ![w] = @ + 1]
        /\ at' = [at EXCEPT ![w] = "reading"]
        /\ work' = [work EXCEPT ![w] = None]
        /\ UNCHANGED req
     \/ /\ attempts[w] + 1 >= MaxAttempts
        /\ Finish(w)
  /\ UNCHANGED <<row, claims, asked, now>>

Next ==
  \/ Tick
  \/ \E w \in Workers :
       \/ AskToCreate(w) \/ AskToDraft(w) \/ AskToPublish(w)
       \/ AskToJoin(w) \/ AskToApprove(w) \/ AskToClose(w)
       \/ AskToGroup(w) \/ AskToRegroup(w)
       \/ Read(w) \/ Look(w) \/ Commit(w) \/ Conflict(w)

Spec == Init /\ [][Next]_vars
-----------------------------------------------------------------------------
(* Properties *)

TypeOK ==
  /\ row \in [Courses -> Rows]
  /\ claims \in [Codes -> Courses \cup {None}]
  /\ at \in [Workers -> {"idle", "reading", "looking", "writing"}]
  /\ \A w \in Workers : at[w] # "idle" => req[w].course \in Courses
  /\ \A w \in Workers : work[w] \in Rows \cup {None}
  /\ fresh \in [Workers -> BOOLEAN]
  /\ attempts \in [Workers -> 0..MaxAttempts]
  /\ asked \in 0..MaxRequests
  /\ now \in Nat

(* A student types a code and nothing else: it names one class at most,    *)
(* whatever courses handed out codes at the same time                      *)
(* (reconcileTeachingClassInviteCodeClaims).                               *)
CodeNamesOneClass ==
  \A c, e \in Courses : \A x, y \in Classes :
    row[c].code[x] = row[e].code[y] /\ row[c].code[x] # None => c = e /\ x = y

(* However joins, approvals, removals and grouping cross, no student has   *)
(* two live seats in a course, no one sits in two groups or in a group of  *)
(* a class whose roster lacks them, and a class shows as many students as  *)
(* were approved.                                                          *)
OneLiveSeat(d) == \A s \in Students : \A x, y \in Classes :
  ~Unseated(d, x, s) /\ ~Unseated(d, y, s) => x = y
GroupsFollowRoster(d) == \A g \in Groups : d.group[g] # None =>
  MaySit(d, g, d.group[g].scope, d.group[g].members)
HeadcountsAgree(d) == \A x \in Classes :
  d.headcount[x] = Cardinality({s \in Students : d.member[x][s].status = "approved"})
RosterAgrees == \A c \in Courses :
  OneLiveSeat(row[c]) /\ GroupsFollowRoster(row[c]) /\ HeadcountsAgree(row[c])

(* No burst of joins passes the limit of a code, and no join lands in a    *)
(* class that has since taken another code or switched its own off, or was *)
(* sent after the deadline of the code, an earlier one set since included. *)
NewlySeated(c, x) == {s \in Students :
  Unseated(row[c], x, s) /\ row'[c].member[x][s].status \in Live}
SentInTime(c, x, s) == \E w \in Workers :
  /\ at[w] = "writing" /\ req[w].op = "join" /\ req[w].student = s
  /\ row[c].expires[x] # 0 => req[w].since < row[c].expires[x]
JoinsMeetPolicy == [][\A c \in Courses, x \in Classes : NewlySeated(c, x) # {} =>
  /\ \A s \in NewlySeated(c, x) : /\ row'[c].member[x][s].code = row[c].code[x]
                                  /\ SentInTime(c, x, s)
  /\ x \notin row[c].disabled
  /\ row[c].limit[x] # 0 => Cardinality(JoinedWithCode(row'[c], x)) <= row[c].limit[x]]_vars
=============================================================================
