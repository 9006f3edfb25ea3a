------------------------ MODULE RecordRetentionProofs ------------------------
(***************************************************************************)
(* Closing, purging and writing the records of courses, proved for any     *)
(* number of courses, stores and requests.  The invariant follows the      *)
(* locks: a request that has not yet taken the records of a course still   *)
(* has them in its plan, one that has taken them holds them, and the       *)
(* course is as the request saw it when it got them, because whoever could *)
(* change that needs them alone.  A writer is at most as new as the store, *)
(* and right about it while the revision is the same.  Every plan takes    *)
(* its locks in one order, and the locks in hand come before those ahead;  *)
(* a waiting cycle would need a last lock.                                 *)
(***************************************************************************)
EXTENDS RecordRetention, FunctionTheorems, FiniteSetTheorems, SequenceTheorems, TLAPS

\* The locks a request has yet to take.
Ahead(r, l) == \E i \in 1..Len(plan[r]) : plan[r][i] = l

\* The records of c, not yet locked or locked and as they had to be.
Covered(r, c, asRequired) ==
  \/ Ahead(r, Records(c))
  \/ r \in holders[Records(c)] /\ asRequired

CommandInv(r) ==
  LET c == job[r].course IN
  job[r].op \in Kinds /\ c \in Courses /\ Covered(r, c, retention[c] # "purged")

WriterInv(r) ==
  LET s == job[r].store IN
  /\ job[r].op = "change" /\ job[r].course \in Courses /\ s \in Stores
  /\ \A c \in CoursesWritten(job[r].course, job[r].saw) : Covered(r, c, retention[c] # "purged")
  /\ job[r].rev <= stored[s].rev
  /\ job[r].rev = stored[s].rev => job[r].saw = stored[s].changes

OwnerInv(r) ==
  LET c == job[r].course IN
  /\ job[r].op \in {"close", "purge"} /\ c \in Courses
  /\ Covered(r, c, IF job[r].op = "close" THEN retention[c] = "open" ELSE Confirmed(r, c))

RequestInv(r) ==
  /\ at[r] = "active" => /\ r \in Commands => CommandInv(r)
                         /\ r \in Writers => WriterInv(r)
                         /\ r \in Owners => OwnerInv(r)
  /\ at[r] # "active" => plan[r] = <<>> /\ \A l \in Locks : r \notin holders[l]

\* close and purge hold the records of a course alone.
ExclusiveInv == \A c \in Courses : \A o \in Owners :
  o \in holders[Records(c)] => holders[Records(c)] = {o}

\* The order all requests take their locks in.
Level(l) == CASE l[1] = "submit" -> 0 [] l[1] = "records" -> 1 [] l[1] = "review" -> 2
              [] l[1] = "work" -> 3 [] l[1] = "store" -> 4
Before(l, m) == \/ Level(l) < Level(m)
                \/ Level(l) = Level(m) /\ l[2] < m[2]

Ordered(locks) == \A i, j \in 1..Len(locks) : i < j => Before(locks[i], locks[j])
OrderInv(r) ==
  /\ Ordered(plan[r])
  /\ \A l \in Locks : r \in holders[l] => \A i \in 1..Len(plan[r]) : Before(l, plan[r][i])

IInv == /\ TypeOK /\ PurgedStaysGone /\ NoChangeLost /\ ExclusiveInv
        /\ \A r \in Requests : RequestInv(r) /\ OrderInv(r)
-----------------------------------------------------------------------------
(* A finite set of numbers can be listed in ascending order: the rank of   *)
(* an element, the number of elements up to it, is one to one onto 1..n.   *)
LEMMA SortedExists ==
  ASSUME NEW S \in SUBSET Nat, IsFiniteSet(S)
  PROVE  \E f \in [1..Cardinality(S) -> S] : \A i, j \in DOMAIN f : i < j => f[i] < f[j]
<1> DEFINE n == Cardinality(S)
           below(x) == {y \in S : y <= x}
           rank == [x \in S |-> Cardinality(below(x))]
<1>1. n \in Nat
  BY FS_CardinalityType
<1>2. \A x \in S : IsFiniteSet(below(x)) /\ Cardinality(below(x)) \in 1..n
  <2> TAKE x \in S
  <2>1. below(x) \in SUBSET S /\ x \in below(x)
    OBVIOUS
  <2>2. IsFiniteSet(below(x)) /\ Cardinality(below(x)) <= n /\ Cardinality(below(x)) \in Nat
    BY <2>1, FS_Subset, FS_CardinalityType
  <2>3. Cardinality(below(x)) # 0
    BY <2>1, <2>2, FS_EmptySet
  <2> QED BY <1>1, <2>2, <2>3
<1>3. \A x, y \in S : x < y => Cardinality(below(x)) < Cardinality(below(y))
  <2> SUFFICES ASSUME NEW x \in S, NEW y \in S, x < y
               PROVE  Cardinality(below(x)) < Cardinality(below(y))
    OBVIOUS
  <2>1. below(x) \in SUBSET below(y) /\ y \in below(y) /\ y \notin below(x)
    <3>1. \A z \in S : z \in Nat
      OBVIOUS
    <3>2. \A z \in S : z <= x => z <= y
      BY <3>1
    <3>3. y <= y /\ ~(y <= x)
      BY <3>1
    <3>4. \A z \in below(x) : z \in below(y)
      BY <3>2
    <3>5. y \in below(y) /\ y \notin below(x)
      BY <3>3
    <3> HIDE DEF below
    <3> QED BY <3>4, <3>5
  <2>2. /\ Cardinality(below(x)) <= Cardinality(below(y))
        /\ Cardinality(below(x)) = Cardinality(below(y)) => below(x) = below(y)
    BY <1>2, <2>1, FS_Subset
  <2> QED BY <1>2, <2>1, <2>2
<1> HIDE DEF below
<1>4. rank \in Injection(S, 1..n)
  <2>1. rank \in [S -> 1..n]
    BY <1>2
  <2>2. \A x, y \in S : rank[x] = rank[y] => x = y
    <3> SUFFICES ASSUME NEW x \in S, NEW y \in S, rank[x] = rank[y] PROVE x = y
      OBVIOUS
    <3>1. ~(x < y) /\ ~(y < x)
      BY <1>2, <1>3
    <3> QED BY <3>1
  <2> HIDE DEF rank
  <2> QED BY <2>1, <2>2, Fun_IsInj
<1>5. \A x, y \in S : rank[x] < rank[y] => x < y
  <2> SUFFICES ASSUME NEW x \in S, NEW y \in S, rank[x] < rank[y], ~(x < y) PROVE FALSE
    OBVIOUS
  <2>1. x = y \/ y < x
    OBVIOUS
  <2> QED BY <1>2, <1>3, <2>1
<1> HIDE DEF rank
<1>6. rank \in Surjection(S, 1..n)
  <2>1. IsFiniteSet(1..n) /\ Cardinality(1..n) = n
    BY <1>1, FS_Interval
  <2> QED BY <1>4, <2>1, FS_Injection
<1> DEFINE f == [i \in 1..n |-> CHOOSE x \in S : rank[x] = i]
<1>7. \A i \in 1..n : f[i] \in S /\ rank[f[i]] = i
  <2>1. \A i \in 1..n : \E x \in S : rank[x] = i
    BY <1>6 DEF Surjection
  <2> QED BY <2>1
<1>8. f \in [1..n -> S]
  BY <1>7
<1>9. \A i, j \in DOMAIN f : i < j => f[i] < f[j]
  <2> SUFFICES ASSUME NEW i \in 1..n, NEW j \in 1..n, i < j PROVE f[i] < f[j]
    BY <1>8
  <2>1. /\ f[i] \in S /\ rank[f[i]] = i
        /\ f[j] \in S /\ rank[f[j]] = j
    BY <1>7
  <2> HIDE DEF f
  <2> QED BY <1>5, <2>1
<1> QED BY <1>8, <1>9

(* What listing the courses or the stores in order gives: all of them,     *)
(* each once, ascending.                                                   *)
LEMMA SortedFacts ==
  ASSUME NEW S \in SUBSET Nat, IsFiniteSet(S)
  PROVE  /\ Sorted(S) \in Seq(S) /\ Len(Sorted(S)) = Cardinality(S)
         /\ \A i, j \in 1..Len(Sorted(S)) : i < j => Sorted(S)[i] < Sorted(S)[j]
         /\ \A x \in S : \E i \in 1..Len(Sorted(S)) : Sorted(S)[i] = x
<1> DEFINE n == Cardinality(S)
           f == Sorted(S)
<1>1. f \in [1..n -> S] /\ \A i, j \in DOMAIN f : i < j => f[i] < f[j]
  BY SortedExists DEF Sorted
<1>2. n \in Nat
  BY FS_CardinalityType
<1>3. f \in Seq(S) /\ Len(f) = n
  BY <1>1, <1>2
<1> HIDE DEF f
<1>4. f \in Injection(1..n, S)
  <2>1. \A i, j \in 1..n : f[i] = f[j] => i = j
    <3> SUFFICES ASSUME NEW i \in 1..n, NEW j \in 1..n, f[i] = f[j], i # j PROVE FALSE
      OBVIOUS
    <3>1. i < j \/ j < i
      BY <1>2
    <3>2. f[i] \in Nat /\ f[j] \in Nat
      BY <1>1
    <3> QED BY <1>1, <3>1, <3>2
  <2> QED BY <1>1, <2>1, Fun_IsInj
<1>5. f \in Surjection(1..n, S)
  <2>1. Cardinality(1..n) = n
    BY <1>2, FS_Interval
  <2> QED BY <1>4, <2>1, FS_Injection
<1>6. \A x \in S : \E i \in 1..n : f[i] = x
  BY <1>5 DEF Surjection
<1> QED BY <1>1, <1>2, <1>3, <1>6 DEF f
-----------------------------------------------------------------------------
(* The locks, told apart by the kind and the number they are made of.      *)
LEMMA LockFacts ==
  /\ \A c \in Courses : /\ Records(c) \in Locks /\ Records(c)[1] = "records" /\ Records(c)[2] = c
                        /\ Work(c) \in Locks /\ Work(c)[1] = "work" /\ Work(c)[2] = c
  /\ \A k \in Kinds, c \in Courses : Key(k, c) \in Locks /\ Key(k, c)[1] = k /\ Key(k, c)[2] = c
  /\ \A s \in Stores : Row(s) \in Locks /\ Row(s)[1] = "store" /\ Row(s)[2] = s
  /\ \A l \in Locks : \/ \E c \in Courses : l = Records(c) \/ l = Work(c)
                      \/ \E k \in Kinds, c \in Courses : l = Key(k, c)
                      \/ \E s \in Stores : l = Row(s)
  /\ "records" \notin Kinds /\ "work" \notin Kinds /\ "store" \notin Kinds
BY DEF Records, Work, Key, Row, Locks, Kinds

(* The types of the variables one by one, for steps that need a few of     *)
(* them.                                                                   *)
LEMMA Typed ==
  ASSUME TypeOK
  PROVE  /\ retention \in [Courses -> {"open", "closed", "expired", "purged"}]
         /\ evidence \in [Courses -> SUBSET Changes]
         /\ stored \in [Stores -> [rev: Nat, changes: SUBSET Changes]]
         /\ holders \in [Locks -> SUBSET Requests]
         /\ job \in [Requests -> Jobs]
         /\ plan \in [Requests -> Seq(Locks)]
         /\ at \in [Requests -> {"idle", "active", "done", "refused"}]
         /\ attempts \in [Requests -> 0..MaxAttempts]
         /\ committed \subseteq Changes
BY DEF TypeOK

\* A request that takes no part in a step.
Unmoved(d) == /\ plan'[d] = plan[d] /\ at'[d] = at[d] /\ job'[d] = job[d]
              /\ \A l \in Locks : d \in holders'[l] <=> d \in holders[l]

StoresStep == \A s \in Stores : \/ stored'[s] = stored[s]
                                \/ stored'[s].rev \in Nat /\ stored'[s].rev > stored[s].rev
RetentionStep(c) == \/ retention'[c] = retention[c]
                    \/ retention[c] = "closed" /\ retention'[c] = "expired"

(* A request that takes no part in a step keeps what it has established,   *)
(* as long as the step raises the revision of every store it touches, ends *)
(* no course's period whose records the request has locked, and changes    *)
(* nothing in a course its owner has locked.                               *)
LEMMA OthersKeep ==
  ASSUME IInv, NEW d \in Requests, Unmoved(d), StoresStep,
         \A c \in Courses : d \in holders[Records(c)] => RetentionStep(c),
         \A c \in Courses : d \in Owners /\ d \in holders[Records(c)] => Kept(c)' = Kept(c)
  PROVE  RequestInv(d)'
<1>1. RequestInv(d) /\ TypeOK
  BY DEF IInv
<1>2. \A l : Ahead(d, l)' <=> Ahead(d, l)
  BY DEF Unmoved, Ahead
<1>3. \A c \in Courses : Records(c) \in Locks
  BY LockFacts
<1>4. CASE at[d] # "active"
  BY <1>1, <1>4 DEF Unmoved, RequestInv
<1>5. CASE at[d] = "active"
  <2>1. d \in Commands => CommandInv(d)'
    BY <1>1, <1>2, <1>3, <1>5 DEF RequestInv, CommandInv, Covered, Unmoved, RetentionStep
  <2>2. d \in Writers => WriterInv(d)'
    <3> SUFFICES ASSUME d \in Writers PROVE WriterInv(d)'
      OBVIOUS
    <3> DEFINE s == job[d].store
    <3>1. /\ job[d].op = "change" /\ job[d].course \in Courses /\ s \in Stores
          /\ \A c \in CoursesWritten(job[d].course, job[d].saw) : Covered(d, c, retention[c] # "purged")
          /\ job[d].rev <= stored[s].rev
          /\ job[d].rev = stored[s].rev => job[d].saw = stored[s].changes
      BY <1>1, <1>5 DEF RequestInv, WriterInv
    <3>2. CoursesWritten(job[d].course, job[d].saw) \subseteq Courses
      <4>1. job[d].saw \subseteq Changes
        BY <1>1, Typed DEF Jobs
      <4> QED BY <3>1, <4>1 DEF CoursesWritten, Changes
    <3>3. \A c \in CoursesWritten(job[d].course, job[d].saw) :
            Ahead(d, Records(c))' \/ (d \in holders'[Records(c)] /\ retention'[c] # "purged")
      <4> TAKE c \in CoursesWritten(job[d].course, job[d].saw)
      <4>1. c \in Courses /\ Records(c) \in Locks
        BY <1>3, <3>2
      <4>2. CASE Ahead(d, Records(c))
        BY <1>2, <4>2
      <4>3. CASE d \in holders[Records(c)] /\ retention[c] # "purged"
        <5>1. d \in holders'[Records(c)]
          BY <4>1, <4>3 DEF Unmoved
        <5>2. RetentionStep(c)
          BY <4>1, <4>3
        <5> QED BY <4>3, <5>1, <5>2 DEF RetentionStep
      <4> QED BY <3>1, <4>2, <4>3 DEF Covered
    <3>4. job[d].rev \in Nat /\ stored[s].rev \in Nat
      BY <1>1, <3>1, Typed DEF Jobs
    <3>5. /\ job[d].rev <= stored'[s].rev
          /\ job[d].rev = stored'[s].rev => job[d].saw = stored'[s].changes
      BY <3>1, <3>4 DEF StoresStep
    <3>6. job'[d] = job[d]
      BY DEF Unmoved
    <3> QED BY <3>1, <3>3, <3>5, <3>6 DEF WriterInv, Covered
  <2>3. d \in Owners => OwnerInv(d)'
    BY <1>1, <1>2, <1>3, <1>5 DEF RequestInv, OwnerInv, Covered, Confirmed, Unmoved, RetentionStep
  <2> QED BY <1>5, <2>1, <2>2, <2>3 DEF RequestInv, Unmoved
<1> QED BY <1>4, <1>5

-----------------------------------------------------------------------------
(* The order of the locks that a request takes one after the other.        *)
LEMMA BeforeFacts ==
  /\ \A c, d \in Courses : c < d => Before(Records(c), Records(d))
  /\ \A s, t \in Stores : s < t => Before(Row(s), Row(t))
  /\ \A c \in Courses, s \in Stores : Before(Records(c), Row(s)) /\ Before(Work(c), Row(s))
  /\ \A c \in Courses : /\ Before(Records(c), Work(c))
                        /\ Before(Key("submit", c), Records(c)) /\ Before(Key("submit", c), Work(c))
                        /\ Before(Records(c), Key("review", c)) /\ Before(Key("review", c), Work(c))
<1>1. \A c : Level(Records(c)) = 1 /\ Level(Work(c)) = 3 /\ Records(c)[2] = c /\ Work(c)[2] = c
  BY DEF Level, Records, Work
<1>2. \A s : Level(Row(s)) = 4 /\ Row(s)[2] = s
  BY DEF Level, Row
<1>3. \A c : Level(Key("submit", c)) = 0 /\ Level(Key("review", c)) = 2
  BY DEF Level, Key
<1> QED BY <1>1, <1>2, <1>3 DEF Before

(* A writer takes its locks in order and locks the records of every course *)
(* it writes about.                                                        *)
LEMMA WriterPlanFacts ==
  ASSUME NEW c \in Courses, NEW s \in Stores, NEW changes \in SUBSET Changes
  PROVE  /\ WriterPlan(c, s, changes) \in Seq(Locks) /\ Ordered(WriterPlan(c, s, changes))
         /\ \A x \in CoursesWritten(c, changes) :
              \E i \in 1..Len(WriterPlan(c, s, changes)) : WriterPlan(c, s, changes)[i] = Records(x)
<1> DEFINE S == CoursesWritten(c, changes)
           f == Sorted(S)
           a == [i \in DOMAIN f |-> Records(f[i])]
           p == a \o <<Row(s)>>
<1>1. S \in SUBSET Courses /\ S \in SUBSET Nat /\ IsFiniteSet(S)
  <2>1. S \in SUBSET Courses
    BY DEF CoursesWritten, Changes
  <2> QED BY <2>1, NumbersAssumption, FS_Subset
<1> HIDE DEF S
<1>2. /\ f \in Seq(S)
      /\ \A i, j \in 1..Len(f) : i < j => f[i] < f[j]
      /\ \A x \in S : \E i \in 1..Len(f) : f[i] = x
  BY <1>1, SortedFacts
<1>3. WriterPlan(c, s, changes) = p
  BY DEF WriterPlan, S
<1> HIDE DEF f
<1>4. DOMAIN f = 1..Len(f) /\ Len(f) \in Nat /\ \A i \in 1..Len(f) : f[i] \in S
  BY <1>2
<1>5. a \in Seq(Locks) /\ Len(a) = Len(f) /\ \A i \in 1..Len(f) : a[i] = Records(f[i])
  <2>1. \A i \in 1..Len(f) : Records(f[i]) \in Locks
    BY <1>1, <1>4, LockFacts
  <2>2. a \in [1..Len(f) -> Locks]
    BY <1>4, <2>1
  <2> QED BY <1>4, <2>2
<1> HIDE DEF a
<1>6. <<Row(s)>> \in Seq(Locks)
  BY LockFacts
<1>7. /\ p \in Seq(Locks) /\ Len(p) = Len(f) + 1
      /\ \A i \in 1..Len(f) : p[i] = Records(f[i])
      /\ p[Len(f) + 1] = Row(s)
  BY <1>4, <1>5, <1>6, ConcatProperties
<1> HIDE DEF p
<1>8. Ordered(p)
  <2> SUFFICES ASSUME NEW i \in 1..Len(p), NEW j \in 1..Len(p), i < j PROVE Before(p[i], p[j])
    BY DEF Ordered
  <2>0. i \in 1..Len(f)
    BY <1>4, <1>7
  <2>1. i \in 1..Len(f) /\ p[i] = Records(f[i]) /\ f[i] \in Courses
    BY <1>1, <1>4, <1>7, <2>0
  <2>2. CASE j \in 1..Len(f)
    BY <1>1, <1>2, <1>4, <1>7, <2>1, <2>2, BeforeFacts
  <2>3. CASE j = Len(f) + 1
    BY <1>7, <2>1, <2>3, BeforeFacts
  <2> QED BY <1>4, <1>7, <2>2, <2>3
<1>9. \A x \in S : \E i \in 1..Len(p) : p[i] = Records(x)
  <2> TAKE x \in S
  <2>1. PICK i \in 1..Len(f) : f[i] = x
    BY <1>2
  <2>2. i \in 1..Len(p) /\ p[i] = Records(x)
    BY <1>4, <1>7, <2>1
  <2> QED BY <2>2
<1> QED BY <1>3, <1>7, <1>8, <1>9 DEF S

(* The second of two sequences put together.                               *)
LEMMA ConcatSecond ==
  ASSUME NEW L, NEW x \in Seq(L), NEW y \in Seq(L), NEW i \in 1..Len(y)
  PROVE  (x \o y)[Len(x) + i] = y[i]
<1>1. Len(x) \in Nat /\ Len(y) \in Nat
  OBVIOUS
<1>2. /\ Len(x) + i \in 1..(Len(x) + Len(y)) /\ ~(Len(x) + i <= Len(x))
      /\ (Len(x) + i) - Len(x) = i
  BY <1>1
<1> QED BY <1>2, ConcatProperties

(* A purge takes its locks in order, the records of its course first.      *)
LEMMA PurgePlanFacts ==
  ASSUME NEW c \in Courses
  PROVE  /\ PurgePlan(c) \in Seq(Locks) /\ Ordered(PurgePlan(c))
         /\ Len(PurgePlan(c)) >= 1 /\ PurgePlan(c)[1] = Records(c)
<1> DEFINE f == Sorted(Stores)
           a == [i \in DOMAIN f |-> Row(f[i])]
           h == <<Records(c), Work(c)>>
           p == h \o a
<1>1. /\ f \in Seq(Stores)
      /\ \A i, j \in 1..Len(f) : i < j => f[i] < f[j]
  BY NumbersAssumption, SortedFacts
<1>2. PurgePlan(c) = p
  BY DEF PurgePlan
<1> HIDE DEF f
<1>3. DOMAIN f = 1..Len(f) /\ Len(f) \in Nat /\ \A i \in 1..Len(f) : f[i] \in Stores
  BY <1>1
<1>4. a \in Seq(Locks) /\ Len(a) = Len(f) /\ \A i \in 1..Len(f) : a[i] = Row(f[i])
  <2>1. \A i \in 1..Len(f) : Row(f[i]) \in Locks
    BY <1>3, LockFacts
  <2>2. a \in [1..Len(f) -> Locks]
    BY <1>3, <2>1
  <2> QED BY <1>3, <2>2
<1> HIDE DEF a
<1>5. h \in Seq(Locks) /\ Len(h) = 2 /\ h[1] = Records(c) /\ h[2] = Work(c)
  BY LockFacts
<1> HIDE DEF h
<1>6. /\ p \in Seq(Locks) /\ Len(p) = Len(f) + 2
      /\ p[1] = Records(c) /\ p[2] = Work(c)
      /\ \A i \in 3..(Len(f) + 2) : p[i] = Row(f[i - 2]) /\ f[i - 2] \in Stores
  <2>1. /\ p \in Seq(Locks) /\ Len(p) = Len(f) + 2
        /\ p[1] = h[1] /\ p[2] = h[2]
        /\ \A i \in 3..(Len(f) + 2) : p[i] = a[i - 2]
    <3>1. /\ p \in Seq(Locks) /\ Len(p) = Len(h) + Len(a)
      BY <1>3, <1>4, <1>5, ConcatProperties
    <3>3. \A i \in 1..Len(h) : p[i] = h[i]
      BY <1>3, <1>4, <1>5, ConcatProperties
    <3>4. ASSUME NEW i \in 3..(Len(f) + 2) PROVE p[i] = a[i - 2]
      <4>2. i - 2 \in 1..Len(a) /\ Len(h) + (i - 2) = i
        BY <1>3, <1>4, <1>5
      <4> HIDE DEF p
      <4>3. (h \o a)[Len(h) + (i - 2)] = a[i - 2]
        <5>1. a \in Seq(Locks) /\ h \in Seq(Locks) /\ i - 2 \in 1..Len(a)
          BY <1>4, <1>5, <4>2
        <5> DEFINE k == i - 2
        <5>2. k \in 1..Len(a)
          BY <5>1
        <5> HIDE DEF k
        <5>3. (h \o a)[Len(h) + k] = a[k]
          BY <5>1, <5>2, ConcatSecond
        <5> QED BY <5>3 DEF k
      <4> QED BY <4>2, <4>3 DEF p
    <3>2. Len(h) + Len(a) = Len(f) + 2
      BY <1>3, <1>4, <1>5
    <3> QED BY <1>5, <3>1, <3>2, <3>3, <3>4
  <2>2. ASSUME NEW i \in 3..(Len(f) + 2) PROVE i - 2 \in 1..Len(f)
    BY <1>3
  <2>3. 1 \in 1..Len(p) /\ 2 \in 1..Len(p)
    BY <1>3, <2>1
  <2> QED BY <1>3, <1>4, <1>5, <2>1, <2>2, <2>3
<1> HIDE DEF p
<1>7. Ordered(p)
  <2> SUFFICES ASSUME NEW i \in 1..Len(p), NEW j \in 1..Len(p), i < j PROVE Before(p[i], p[j])
    BY DEF Ordered
  <2>1. CASE i = 1 /\ j = 2
    BY <1>6, <2>1, BeforeFacts
  <2>2. CASE i \in {1, 2} /\ j \in 3..(Len(f) + 2)
    BY <1>6, <2>2, BeforeFacts
  <2>3. CASE i \in 3..(Len(f) + 2) /\ j \in 3..(Len(f) + 2)
    <3>1. i - 2 \in 1..Len(f) /\ j - 2 \in 1..Len(f) /\ i - 2 < j - 2
      BY <1>3, <2>3
    <3>2. f[i - 2] < f[j - 2]
      BY <1>1, <3>1
    <3> QED BY <1>6, <2>3, <3>2, BeforeFacts
  <2> QED BY <1>3, <1>6, <2>1, <2>2, <2>3
<1> QED BY <1>2, <1>3, <1>6, <1>7

(* A command takes its locks in order, the records of its course among     *)
(* them.                                                                   *)
LEMMA CommandPlanFacts ==
  ASSUME NEW kind \in Kinds, NEW c \in Courses
  PROVE  /\ CommandPlan(kind, c) \in Seq(Locks) /\ Ordered(CommandPlan(kind, c))
         /\ \E i \in 1..Len(CommandPlan(kind, c)) : CommandPlan(kind, c)[i] = Records(c)
<1>1. CASE kind = "submit"
  <2> DEFINE p == <<Key("submit", c), Records(c), Work(c)>>
  <2>1. CommandPlan(kind, c) = p
    BY <1>1 DEF CommandPlan
  <2>2. p \in Seq(Locks) /\ Len(p) = 3 /\ p[1] = Key("submit", c) /\ p[2] = Records(c) /\ p[3] = Work(c)
    BY <1>1, LockFacts
  <2>3. /\ Before(Key("submit", c), Records(c)) /\ Before(Key("submit", c), Work(c))
        /\ Before(Records(c), Work(c))
    BY BeforeFacts
  <2> HIDE DEF p
  <2>4. Ordered(p)
    BY <2>2, <2>3 DEF Ordered
  <2> QED BY <2>1, <2>2, <2>4
<1>2. CASE kind = "review"
  <2> DEFINE p == <<Records(c), Key("review", c), Work(c)>>
  <2>1. CommandPlan(kind, c) = p
    BY <1>2 DEF CommandPlan
  <2>2. p \in Seq(Locks) /\ Len(p) = 3 /\ p[1] = Records(c) /\ p[2] = Key("review", c) /\ p[3] = Work(c)
    BY <1>2, LockFacts
  <2>3. /\ Before(Key("review", c), Work(c)) /\ Before(Records(c), Key("review", c))
        /\ Before(Records(c), Work(c))
    BY BeforeFacts
  <2> HIDE DEF p
  <2>4. Ordered(p)
    BY <2>2, <2>3 DEF Ordered
  <2> QED BY <2>1, <2>2, <2>4
<1> QED BY <1>1, <1>2 DEF Kinds
-----------------------------------------------------------------------------
(* Membership in what a purge would delete, before and after a step.       *)
LEMMA KeptFacts ==
  /\ \A c, x : x \in Kept(c) <=>
       x \in evidence[c] \/ \E s \in Stores : x \in stored[s].changes /\ x.course = c
  /\ \A c, x : x \in Kept(c)' <=>
       x \in evidence'[c] \/ \E s \in Stores : x \in stored'[s].changes /\ x.course = c
BY DEF Kept, Of

(* The invariant after a step of one request: it keeps its own part and    *)
(* the parts about all, and the others keep theirs.                        *)
LEMMA Whole ==
  ASSUME IInv, NEW r, \A d \in Requests \ {r} : Unmoved(d),
         StoresStep,
         \A d \in Requests \ {r}, c \in Courses : d \in holders[Records(c)] => RetentionStep(c),
         \A d \in Requests \ {r}, c \in Courses :
           d \in Owners /\ d \in holders[Records(c)] => Kept(c)' = Kept(c),
         TypeOK', PurgedStaysGone', NoChangeLost', ExclusiveInv',
         r \in Requests => RequestInv(r)' /\ OrderInv(r)'
  PROVE  IInv'
<1>1. ASSUME NEW d \in Requests, d # r PROVE RequestInv(d)' /\ OrderInv(d)'
  <2>1. d \in Requests \ {r} /\ Unmoved(d)
    BY <1>1
  <2>2. RequestInv(d)'
    BY <2>1, OthersKeep
  <2>3. OrderInv(d)'
    <3>1. OrderInv(d) /\ plan'[d] = plan[d] /\ \A l \in Locks : d \in holders'[l] <=> d \in holders[l]
      BY <2>1 DEF IInv, Unmoved
    <3> QED BY <3>1 DEF OrderInv
  <2> QED BY <2>2, <2>3
<1> QED BY <1>1 DEF IInv

(* The same for a step that leaves the tables alone.                       *)
LEMMA Quiet ==
  ASSUME IInv, NEW r \in Requests, \A d \in Requests \ {r} : Unmoved(d), UNCHANGED tables,
         TypeOK', ExclusiveInv', RequestInv(r)', OrderInv(r)'
  PROVE  IInv'
<1>1. /\ retention' = retention /\ evidence' = evidence /\ receipts' = receipts
      /\ stored' = stored /\ committed' = committed
  BY DEF tables
<1>2. \A c : Kept(c)' = Kept(c)
  BY <1>1 DEF Kept
<1>3. PurgedStaysGone' /\ NoChangeLost'
  BY <1>1, <1>2 DEF IInv, PurgedStaysGone, NoChangeLost
<1>4. StoresStep /\ \A c : RetentionStep(c)
  BY <1>1 DEF StoresStep, RetentionStep
<1> QED BY <1>2, <1>3, <1>4, Whole

(* A request that ends gives up its locks and keeps the others from        *)
(* nothing.                                                                *)
LEMMA EndsFacts ==
  ASSUME IInv, NEW r \in Requests, NEW outcome \in {"idle", "done", "refused"}, Ends(r, outcome)
  PROVE  /\ \A d \in Requests \ {r} : Unmoved(d)
         /\ ExclusiveInv' /\ RequestInv(r)' /\ OrderInv(r)'
         /\ holders' \in [Locks -> SUBSET Requests] /\ job' \in [Requests -> Jobs]
         /\ plan' \in [Requests -> Seq(Locks)]
         /\ at' \in [Requests -> {"idle", "active", "done", "refused"}]
<1>1. /\ at' = [at EXCEPT ![r] = outcome] /\ plan' = [plan EXCEPT ![r] = <<>>]
      /\ holders' = [l \in Locks |-> holders[l] \ {r}] /\ job' = job
  BY DEF Ends, Without
<1>2. TypeOK
  BY DEF IInv
<1>3. /\ holders \in [Locks -> SUBSET Requests] /\ job \in [Requests -> Jobs]
      /\ plan \in [Requests -> Seq(Locks)]
      /\ at \in [Requests -> {"idle", "active", "done", "refused"}]
  BY <1>2, Typed
<1>4. at'[r] = outcome /\ plan'[r] = <<>> /\ \A l \in Locks : holders'[l] = holders[l] \ {r}
  BY <1>1, <1>3
<1>5. ASSUME NEW d \in Requests \ {r} PROVE Unmoved(d)
  <2>1. plan'[d] = plan[d] /\ at'[d] = at[d]
    BY <1>1, <1>3
  <2> QED BY <1>1, <1>4, <2>1 DEF Unmoved
<1>6. ExclusiveInv'
  <2> SUFFICES ASSUME NEW c \in Courses, NEW o \in Owners, o \in holders'[Records(c)]
               PROVE  holders'[Records(c)] = {o}
    BY DEF ExclusiveInv
  <2>1. Records(c) \in Locks
    BY LockFacts
  <2>2. o \in holders[Records(c)] /\ holders'[Records(c)] = holders[Records(c)] \ {r} /\ o # r
    BY <1>4, <2>1
  <2>3. holders[Records(c)] = {o}
    BY <2>2 DEF IInv, ExclusiveInv
  <2> QED BY <2>2, <2>3
<1>7. RequestInv(r)'
  BY <1>4 DEF RequestInv
<1>8. OrderInv(r)'
  BY <1>4 DEF OrderInv, Ordered
<1>9. /\ holders' \in [Locks -> SUBSET Requests] /\ job' \in [Requests -> Jobs]
      /\ at' \in [Requests -> {"idle", "active", "done", "refused"}]
  BY <1>1, <1>3
<1>10. plan' \in [Requests -> Seq(Locks)]
  BY <1>1, <1>3
<1> QED BY <1>5, <1>6, <1>7, <1>8, <1>9, <1>10

(* Ending without a change to the tables keeps the invariant.              *)
LEMMA GivesUp ==
  ASSUME IInv, NEW r \in Requests, NEW outcome \in {"idle", "done", "refused"}, Ends(r, outcome),
         UNCHANGED <<tables, attempts>>
  PROVE  IInv'
<1>1. /\ holders' \in [Locks -> SUBSET Requests] /\ job' \in [Requests -> Jobs]
      /\ plan' \in [Requests -> Seq(Locks)]
      /\ at' \in [Requests -> {"idle", "active", "done", "refused"}]
  BY EndsFacts
<1>2. TypeOK'
  BY <1>1 DEF IInv, TypeOK, tables
<1> QED BY <1>2, EndsFacts, Quiet

(* A refused request, or one answered from its receipt.                    *)
LEMMA Refuses ==
  ASSUME IInv, NEW r \in Requests, Refuse(r)
  PROVE  IInv'
BY GivesUp DEF Refuse

(* A writer that finds the store changed, under the row lock or when it    *)
(* inserts.                                                                *)
LEMMA Conflicts ==
  ASSUME IInv, NEW r \in Writers, Conflict(r) \/ RowAppeared(r)
  PROVE  IInv'
<1>1. r \in Requests
  BY DEF Requests
<1>2. Retry(r) /\ UNCHANGED <<tables, attempts>>
  BY DEF Conflict, RowAppeared
<1>3. CASE Ends(r, "idle")
  BY <1>1, <1>2, <1>3, GivesUp
<1>4. CASE Ends(r, "refused")
  BY <1>1, <1>2, <1>4, GivesUp
<1> QED BY <1>2, <1>3, <1>4 DEF Retry
-----------------------------------------------------------------------------
(* A request that begins with its locks in order and its part established. *)
LEMMA Begins ==
  ASSUME IInv, NEW r \in Requests, NEW what \in Jobs, NEW locks \in Seq(Locks),
         Begin(r, what, locks), Ordered(locks), attempts' \in [Requests -> 0..MaxAttempts],
         r \in Commands => CommandInv(r)', r \in Writers => WriterInv(r)',
         r \in Owners => OwnerInv(r)'
  PROVE  IInv'
<1>1. /\ job' = [job EXCEPT ![r] = what] /\ plan' = [plan EXCEPT ![r] = locks]
      /\ at' = [at EXCEPT ![r] = "active"] /\ at[r] = "idle"
      /\ UNCHANGED tables /\ holders' = holders
  BY DEF Begin
<1>2. TypeOK /\ RequestInv(r)
  BY DEF IInv
<1>3. /\ holders \in [Locks -> SUBSET Requests] /\ job \in [Requests -> Jobs]
      /\ plan \in [Requests -> Seq(Locks)]
      /\ at \in [Requests -> {"idle", "active", "done", "refused"}]
  BY <1>2, Typed
<1>4. \A l \in Locks : r \notin holders[l]
  BY <1>1, <1>2 DEF RequestInv
<1>5. at'[r] = "active" /\ plan'[r] = locks
  BY <1>1, <1>3
<1>6. \A d \in Requests \ {r} : Unmoved(d)
  BY <1>1, <1>3 DEF Unmoved
<1>7. TypeOK'
  BY <1>1, <1>2, <1>3 DEF TypeOK, tables
<1>8. ExclusiveInv'
  BY <1>1 DEF IInv, ExclusiveInv
<1>9. RequestInv(r)'
  BY <1>5 DEF RequestInv
<1>10. OrderInv(r)'
  BY <1>1, <1>4, <1>5 DEF OrderInv
<1> QED BY <1>1, <1>6, <1>7, <1>8, <1>9, <1>10, Quiet

(* Commands, writers and owners are different requests.                    *)
LEMMA RequestKinds ==
  /\ \A r \in Commands : r \in Requests /\ r \notin Writers /\ r \notin Owners
  /\ \A r \in Writers : r \in Requests /\ r \notin Commands /\ r \notin Owners
  /\ \A r \in Owners : r \in Requests /\ r \notin Commands /\ r \notin Writers
BY RequestsAssumption DEF Requests

(* The begin of a command.                                                 *)
LEMMA BeginsCommand ==
  ASSUME IInv, NEW r \in Commands, NEW kind \in Kinds, NEW c \in Courses, BeginCommand(r, kind, c)
  PROVE  IInv'
<1> DEFINE what == [NoJob EXCEPT !.op = kind, !.course = c]
<1>1. r \in Requests /\ r \notin Writers /\ r \notin Owners
  BY RequestKinds
<1>2. TypeOK
  BY DEF IInv
<1>3. what \in Jobs /\ what.op = kind /\ what.course = c
  BY DEF NoJob, Jobs
<1>4. Begin(r, what, CommandPlan(kind, c)) /\ attempts' = attempts
  BY DEF BeginCommand
<1> HIDE DEF what
<1>5. job'[r] = what /\ plan'[r] = CommandPlan(kind, c)
  BY <1>1, <1>2, <1>4, Typed DEF Begin
<1>6. CommandInv(r)'
  BY <1>3, <1>5, CommandPlanFacts DEF CommandInv, Covered, Ahead
<1>7. attempts' \in [Requests -> 0..MaxAttempts]
  BY <1>2, <1>4, Typed
<1> QED BY <1>1, <1>3, <1>4, <1>6, <1>7, CommandPlanFacts, Begins

(* The begin of a close.                                                   *)
LEMMA BeginsClose ==
  ASSUME IInv, NEW r \in Owners, NEW c \in Courses, BeginClose(r, c)
  PROVE  IInv'
<1> DEFINE what == [NoJob EXCEPT !.op = "close", !.course = c]
           locks == <<Records(c)>>
<1>1. r \in Requests /\ r \notin Writers /\ r \notin Commands
  BY RequestKinds
<1>2. TypeOK
  BY DEF IInv
<1>3. what \in Jobs /\ what.op = "close" /\ what.course = c
  BY DEF NoJob, Jobs
<1>4. Begin(r, what, locks) /\ attempts' = attempts
  BY DEF BeginClose
<1>5. locks \in Seq(Locks) /\ Len(locks) = 1 /\ locks[1] = Records(c)
  BY LockFacts
<1> HIDE DEF what, locks
<1>6. job'[r] = what /\ plan'[r] = locks
  BY <1>1, <1>2, <1>4, Typed DEF Begin
<1>7. OwnerInv(r)'
  <2>1. Ahead(r, Records(c))'
    BY <1>5, <1>6 DEF Ahead
  <2> QED BY <1>3, <1>6, <2>1 DEF OwnerInv, Covered
<1>8. attempts' \in [Requests -> 0..MaxAttempts]
  BY <1>2, <1>4, Typed
<1>9. Ordered(locks)
  BY <1>5 DEF Ordered
<1> QED BY <1>1, <1>3, <1>4, <1>5, <1>7, <1>8, <1>9, Begins

(* The begin of a purge, with what its preview showed.                     *)
LEMMA BeginsPurge ==
  ASSUME IInv, NEW r \in Owners, NEW c \in Courses, BeginPurge(r, c)
  PROVE  IInv'
<1> DEFINE what == [NoJob EXCEPT !.op = "purge", !.course = c, !.saw = Kept(c)]
<1>1. r \in Requests /\ r \notin Writers /\ r \notin Commands
  BY RequestKinds
<1>2. TypeOK
  BY DEF IInv
<1>3. Kept(c) \in SUBSET Changes
  BY <1>2, Typed DEF Kept, Of
<1>4. what \in Jobs /\ what.op = "purge" /\ what.course = c
  BY <1>3 DEF NoJob, Jobs
<1>5. Begin(r, what, PurgePlan(c)) /\ attempts' = attempts
  BY DEF BeginPurge
<1> HIDE DEF what
<1>6. job'[r] = what /\ plan'[r] = PurgePlan(c)
  BY <1>1, <1>2, <1>5, Typed DEF Begin
<1>7. /\ PurgePlan(c) \in Seq(Locks) /\ Ordered(PurgePlan(c))
      /\ 1 \in 1..Len(PurgePlan(c)) /\ PurgePlan(c)[1] = Records(c)
  BY PurgePlanFacts
<1>8. OwnerInv(r)'
  BY <1>4, <1>6, <1>7 DEF OwnerInv, Covered, Ahead
<1>9. attempts' \in [Requests -> 0..MaxAttempts]
  BY <1>2, <1>5, Typed
<1> QED BY <1>1, <1>4, <1>5, <1>7, <1>8, <1>9, Begins

(* The begin of a writer, with what it has read.                           *)
LEMMA BeginsWrite ==
  ASSUME IInv, NEW r \in Writers, NEW c \in Courses, NEW s \in Stores, BeginWrite(r, c, s)
  PROVE  IInv'
<1> DEFINE rev == stored[s].rev
           saw == stored[s].changes
           what == [op |-> "change", course |-> c, store |-> s, rev |-> rev, saw |-> saw]
           locks == WriterPlan(c, s, saw)
<1>1. r \in Requests /\ r \notin Owners /\ r \notin Commands
  BY RequestKinds
<1>2. TypeOK
  BY DEF IInv
<1>3. rev \in Nat /\ saw \in SUBSET Changes
  BY <1>2, Typed
<1>4. /\ Begin(r, what, locks) /\ attempts[r] < MaxAttempts
      /\ attempts' = [attempts EXCEPT ![r] = @ + 1]
  BY DEF BeginWrite
<1>5. stored' = stored
  BY <1>4 DEF Begin, tables
<1>6. stored'[s].rev = rev /\ stored'[s].changes = saw
  BY <1>5
<1> HIDE DEF rev, saw
<1>7. /\ what \in Jobs /\ what.op = "change" /\ what.course = c /\ what.store = s
      /\ what.rev = rev /\ what.saw = saw
  BY <1>3 DEF Jobs
<1> HIDE DEF what
<1>8. job'[r] = what /\ plan'[r] = locks
  BY <1>1, <1>2, <1>4, Typed DEF Begin
<1>9. /\ locks \in Seq(Locks) /\ Ordered(locks)
      /\ \A x \in CoursesWritten(c, saw) : \E i \in 1..Len(locks) : locks[i] = Records(x)
  BY <1>3, WriterPlanFacts
<1> HIDE DEF locks
<1>10. WriterInv(r)'
  BY <1>3, <1>6, <1>7, <1>8, <1>9 DEF WriterInv, Covered, Ahead
<1>11. attempts' \in [Requests -> 0..MaxAttempts]
  <2>1. attempts \in [Requests -> 0..MaxAttempts] /\ MaxAttempts \in Nat
    BY <1>2, Typed, AttemptsAssumption
  <2> QED BY <1>1, <1>4, <2>1
<1> QED BY <1>1, <1>4, <1>7, <1>9, <1>10, <1>11, Begins
-----------------------------------------------------------------------------
(* What a lock changes: it goes from the plan of its request to its        *)
(* holders, except that a store without a row has no lock to hold.         *)
LEMMA LockStep ==
  ASSUME IInv, NEW r \in Requests, Lock(r)
  PROVE  LET l == Head(plan[r]) IN
         /\ l \in Locks /\ l = plan[r][1] /\ Len(plan[r]) >= 1 /\ Len(plan[r]) \in Nat
         /\ Len(plan'[r]) = Len(plan[r]) - 1
         /\ \A i \in 1..Len(plan'[r]) : plan'[r][i] = plan[r][i + 1]
         /\ \A m : Ahead(r, m) => m = l \/ Ahead(r, m)'
         /\ \A m \in Locks : m # l => holders'[m] = holders[m]
         /\ holders'[l] = holders[l] \/ holders'[l] = holders[l] \cup {r}
         /\ l[1] = "records" => holders'[l] = holders[l] \cup {r}
         /\ \A d \in Requests \ {r} : Unmoved(d)
         /\ holders' \in [Locks -> SUBSET Requests] /\ plan' \in [Requests -> Seq(Locks)]
         /\ at[r] = "active" /\ at'[r] = "active" /\ job'[r] = job[r]
<1> DEFINE l == Head(plan[r])
<1>1. TypeOK /\ RequestInv(r)
  BY DEF IInv
<1>2. /\ plan[r] # <<>> /\ plan' = [plan EXCEPT ![r] = Tail(@)] /\ Locked(r, l)
      /\ job' = job /\ at' = at
  BY DEF Lock
<1>3. /\ holders \in [Locks -> SUBSET Requests] /\ plan \in [Requests -> Seq(Locks)]
      /\ plan[r] \in Seq(Locks)
  BY <1>1, Typed
<1>4. plan'[r] = Tail(plan[r]) /\ \A d \in Requests \ {r} : plan'[d] = plan[d]
  BY <1>2, <1>3
<1>5. /\ l \in Locks /\ l = plan[r][1] /\ Len(plan[r]) >= 1 /\ Len(plan[r]) \in Nat
      /\ Tail(plan[r]) \in Seq(Locks) /\ Len(plan'[r]) = Len(plan[r]) - 1
      /\ \A i \in 1..Len(plan'[r]) : plan'[r][i] = plan[r][i + 1]
  BY <1>2, <1>3, <1>4
<1> HIDE DEF l
<1>6. ASSUME NEW m, Ahead(r, m), m # l PROVE Ahead(r, m)'
  <2>1. PICK i \in 1..Len(plan[r]) : plan[r][i] = m
    BY <1>6 DEF Ahead
  <2>2. i # 1
    BY <1>5, <1>6, <2>1
  <2>3. i - 1 \in 1..Len(plan'[r]) /\ (i - 1) + 1 = i
    BY <1>5, <2>2
  <2>4. plan'[r][i - 1] = m
    BY <1>5, <2>1, <2>3
  <2> QED BY <2>3, <2>4 DEF Ahead
<1>7. /\ \A m \in Locks : m # l => holders'[m] = holders[m]
      /\ holders'[l] = holders[l] \/ holders'[l] = holders[l] \cup {r}
      /\ l[1] = "records" => holders'[l] = holders[l] \cup {r}
      /\ holders' \in [Locks -> SUBSET Requests]
  <2>1. CASE holders' = holders /\ l[1] # "records"
    BY <1>3, <2>1
  <2>2. CASE holders' = [holders EXCEPT ![l] = @ \cup {r}]
    BY <1>3, <1>5, <2>2
  <2> QED BY <1>2, <2>1, <2>2 DEF Locked
<1>8. ASSUME NEW d \in Requests \ {r} PROVE Unmoved(d)
  <2>1. \A m \in Locks : d \in holders'[m] <=> d \in holders[m]
    BY <1>5, <1>7
  <2> QED BY <1>2, <1>4, <2>1 DEF Unmoved
<1>9. plan' \in [Requests -> Seq(Locks)]
  BY <1>2, <1>3, <1>5
<1>10. at[r] = "active"
  BY <1>1, <1>2 DEF RequestInv
<1> QED BY <1>2, <1>5, <1>6, <1>7, <1>8, <1>9, <1>10 DEF l

(* Through a lock the records of a course stay ahead of the request or in  *)
(* its hands.                                                              *)
LEMMA LockKeeps ==
  ASSUME IInv, NEW r \in Requests, Lock(r), NEW c \in Courses
  PROVE  /\ Head(plan[r]) = Records(c) => r \in holders'[Records(c)]
         /\ Head(plan[r]) # Records(c) =>
              /\ holders'[Records(c)] = holders[Records(c)]
              /\ Ahead(r, Records(c)) => Ahead(r, Records(c))'
<1>1. Records(c) \in Locks /\ Records(c)[1] = "records"
  BY LockFacts
<1>2. CASE Head(plan[r]) = Records(c)
  BY <1>1, <1>2, LockStep
<1>3. CASE Head(plan[r]) # Records(c)
  BY <1>1, <1>3, LockStep
<1> QED BY <1>2, <1>3

(* What the request has read right after it got the records of a course.   *)
LEMMA AllowedRecords ==
  ASSUME NEW r, NEW l, l[1] = "records", Allowed(r, l)
  PROVE  /\ r \notin Owners => ~Barred(r, l[2])
         /\ job[r].op = "close" => retention[l[2]] = "open"
         /\ job[r].op = "purge" => Confirmed(r, l[2])
BY DEF Allowed

(* A request that gets a lock keeps its part: with the records of a course *)
(* it has seen that they are as it needs them.                             *)
LEMMA LockRequest ==
  ASSUME IInv, NEW r \in Requests, Lock(r)
  PROVE  RequestInv(r)'
<1> DEFINE l == Head(plan[r])
<1>1. RequestInv(r) /\ TypeOK /\ at[r] = "active" /\ at'[r] = "active" /\ job'[r] = job[r]
  BY LockStep DEF IInv
<1>2. /\ retention' = retention /\ evidence' = evidence /\ stored' = stored /\ job' = job
      /\ Allowed(r, l)
  BY DEF Lock, tables
<1>3. \A c \in Courses : l = Records(c) =>
        /\ r \notin Owners => ~Barred(r, c)
        /\ job[r].op = "close" => retention[c] = "open"
        /\ job[r].op = "purge" => Confirmed(r, c)
  <2> SUFFICES ASSUME NEW c \in Courses, l = Records(c)
               PROVE  /\ r \notin Owners => ~Barred(r, c)
                      /\ job[r].op = "close" => retention[c] = "open"
                      /\ job[r].op = "purge" => Confirmed(r, c)
    OBVIOUS
  <2>1. l[1] = "records" /\ l[2] = c
    BY LockFacts
  <2> QED BY <1>2, <2>1, AllowedRecords
<1> HIDE DEF l
<1>4. ASSUME r \in Commands PROVE CommandInv(r)'
  <2>1. /\ job[r].op \in Kinds /\ job[r].course \in Courses
        /\ Covered(r, job[r].course, retention[job[r].course] # "purged")
    BY <1>1, <1>4 DEF RequestInv, CommandInv
  <2>2. PICK c \in Courses : c = job[r].course
    BY <2>1
  <2>3. l = Records(c) => retention[c] # "purged"
    BY <1>3, <1>4, <2>1, <2>2, RequestKinds DEF Barred
  <2>4. Ahead(r, Records(c))' \/ (r \in holders'[Records(c)] /\ retention[c] # "purged")
    <3>1. CASE l = Records(c)
      BY <2>3, <3>1, LockKeeps DEF l
    <3>2. CASE l # Records(c)
      BY <2>1, <2>2, <3>2, LockKeeps DEF l, Covered
    <3> QED BY <3>1, <3>2
  <2> QED BY <1>1, <1>2, <2>1, <2>2, <2>4 DEF CommandInv, Covered
<1>5. ASSUME r \in Writers PROVE WriterInv(r)'
  <2> DEFINE C == CoursesWritten(job[r].course, job[r].saw)
             s == job[r].store
  <2>1. /\ job[r].op = "change" /\ job[r].course \in Courses /\ s \in Stores
        /\ \A c \in C : Covered(r, c, retention[c] # "purged")
        /\ job[r].rev <= stored[s].rev
        /\ job[r].rev = stored[s].rev => job[r].saw = stored[s].changes
    BY <1>1, <1>5 DEF RequestInv, WriterInv
  <2>2. C \subseteq Courses
    <3>1. job[r].saw \subseteq Changes
      BY <1>1, Typed DEF Jobs
    <3> QED BY <2>1, <3>1 DEF CoursesWritten, Changes
  <2>3. ASSUME NEW c \in C
        PROVE  Ahead(r, Records(c))' \/ (r \in holders'[Records(c)] /\ retention[c] # "purged")
    <3>1. c \in Courses /\ Covered(r, c, retention[c] # "purged")
      BY <2>1, <2>2
    <3>2. l = Records(c) => retention[c] # "purged"
      BY <1>3, <1>5, <3>1, RequestKinds DEF Barred
    <3> QED BY <3>1, <3>2, LockKeeps DEF l, Covered
  <2>4. \A c \in C : Covered(r, c, retention[c] # "purged")'
    BY <1>2, <2>3 DEF Covered
  <2> QED BY <1>1, <1>2, <2>1, <2>4 DEF WriterInv
<1>6. ASSUME r \in Owners PROVE OwnerInv(r)'
  <2> DEFINE required(c) == IF job[r].op = "close" THEN retention[c] = "open" ELSE Confirmed(r, c)
  <2>1. /\ job[r].op \in {"close", "purge"} /\ job[r].course \in Courses
        /\ Covered(r, job[r].course, required(job[r].course))
    BY <1>1, <1>6 DEF RequestInv, OwnerInv
  <2>2. PICK c \in Courses : c = job[r].course
    BY <2>1
  <2>3. l = Records(c) => required(c)
    BY <1>3, <1>6, <2>1, <2>2
  <2>4. required(c)' <=> required(c)
    BY <1>2 DEF Confirmed, Kept
  <2> HIDE DEF required
  <2>5. Ahead(r, Records(c))' \/ (r \in holders'[Records(c)] /\ required(c))
    <3>1. CASE l = Records(c)
      BY <2>3, <3>1, LockKeeps DEF l
    <3>2. CASE l # Records(c)
      BY <2>1, <2>2, <3>2, LockKeeps DEF l, Covered
    <3> QED BY <3>1, <3>2
  <2>6. Covered(r, c, required(c))'
    BY <2>4, <2>5 DEF Covered
  <2> QED BY <1>1, <1>2, <2>1, <2>2, <2>6 DEF OwnerInv, required
<1> QED BY <1>1, <1>4, <1>5, <1>6 DEF RequestInv

(* Close and purge get the records of a course only when nobody else has   *)
(* them, and a shared request only when no owner has them.                 *)
LEMMA LockAlone ==
  ASSUME IInv, NEW r \in Requests, Lock(r)
  PROVE  ExclusiveInv'
<1> DEFINE l == Head(plan[r])
<1> SUFFICES ASSUME NEW c \in Courses, NEW o \in Owners, o \in holders'[Records(c)]
             PROVE  holders'[Records(c)] = {o}
  BY DEF ExclusiveInv
<1>1. Records(c) \in Locks /\ Records(c)[1] = "records"
  BY LockFacts
<1>2. o \in holders[Records(c)] => holders[Records(c)] = {o}
  BY DEF IInv, ExclusiveInv
<1>3. CASE l # Records(c)
  BY <1>1, <1>2, <1>3, LockStep
<1>4. CASE l = Records(c)
  <2>1. holders'[l] = holders[l] \cup {r}
    BY <1>1, <1>4, LockStep
  <2>2. plan[r] # <<>> /\ Blockers(r) = {}
    BY DEF Lock
  <2>3. CASE r \in Owners
    <3>1. ~Shares(r, l)
      BY <2>3 DEF Shares
    <3>2. holders[l] \ {r} = {}
      BY <2>2, <3>1 DEF Blockers
    <3> QED BY <1>4, <2>1, <3>2
  <2>4. CASE r \notin Owners
    <3>1. Shares(r, l)
      BY <1>1, <1>4, <2>4 DEF Shares
    <3>2. (holders[l] \cap Owners) \ {r} = {}
      BY <2>2, <3>1 DEF Blockers
    <3> QED BY <1>4, <2>1, <2>4, <3>2
  <2> QED BY <2>3, <2>4
<1> QED BY <1>3, <1>4

(* The locks ahead stay after the locks in hand.                           *)
LEMMA LockInOrder ==
  ASSUME IInv, NEW r \in Requests, Lock(r)
  PROVE  OrderInv(r)'
<1> DEFINE l == Head(plan[r])
<1>1. /\ \A i, j \in 1..Len(plan[r]) : i < j => Before(plan[r][i], plan[r][j])
      /\ \A m \in Locks : r \in holders[m] => \A i \in 1..Len(plan[r]) : Before(m, plan[r][i])
  BY DEF IInv, OrderInv, Ordered
<1>2. /\ l \in Locks /\ l = plan[r][1] /\ Len(plan[r]) >= 1 /\ Len(plan[r]) \in Nat
      /\ Len(plan'[r]) = Len(plan[r]) - 1
      /\ \A i \in 1..Len(plan'[r]) : plan'[r][i] = plan[r][i + 1]
      /\ \A m \in Locks : m # l => holders'[m] = holders[m]
  BY LockStep
<1> HIDE DEF l
<1>3. \A i \in 1..Len(plan'[r]) : i + 1 \in 1..Len(plan[r]) /\ 1 < i + 1 /\ 1 \in 1..Len(plan[r])
  BY <1>2
<1>4. ASSUME NEW i \in 1..Len(plan'[r]), NEW j \in 1..Len(plan'[r]), i < j
      PROVE  Before(plan'[r][i], plan'[r][j])
  <2>1. i + 1 < j + 1 /\ i + 1 \in 1..Len(plan[r]) /\ j + 1 \in 1..Len(plan[r])
    BY <1>2, <1>3, <1>4
  <2> QED BY <1>1, <1>2, <2>1
<1>5. ASSUME NEW m \in Locks, r \in holders'[m], NEW i \in 1..Len(plan'[r])
      PROVE  Before(m, plan'[r][i])
  <2>1. plan'[r][i] = plan[r][i + 1] /\ i + 1 \in 1..Len(plan[r])
    BY <1>2, <1>3
  <2>2. CASE m = l
    BY <1>1, <1>2, <1>3, <2>1, <2>2
  <2>3. CASE m # l
    BY <1>1, <1>2, <1>5, <2>1, <2>3
  <2> QED BY <2>2, <2>3
<1> QED BY <1>4, <1>5 DEF OrderInv, Ordered

(* Getting a lock keeps the invariant.                                     *)
LEMMA LockTaken ==
  ASSUME IInv, NEW r \in Requests, Lock(r)
  PROVE  IInv'
<1>1. UNCHANGED <<tables, job, at, attempts>>
  BY DEF Lock
<1>2. holders' \in [Locks -> SUBSET Requests] /\ plan' \in [Requests -> Seq(Locks)]
  BY LockStep
<1>3. TypeOK'
  BY <1>1, <1>2 DEF IInv, TypeOK, tables
<1>4. \A d \in Requests \ {r} : Unmoved(d)
  BY LockStep
<1> QED BY <1>1, <1>3, <1>4, LockRequest, LockAlone, LockInOrder, Quiet
-----------------------------------------------------------------------------
(* When a request commits it holds the records of every course it writes   *)
(* about, and they still are as it saw them when it got them.              *)
LEMMA HeldAtCommit ==
  ASSUME IInv, NEW r \in Requests, Ready(r)
  PROVE  /\ r \in Commands => /\ job[r].course \in Courses /\ r \in holders[Records(job[r].course)]
                              /\ retention[job[r].course] # "purged"
         /\ r \in Writers => /\ job[r].course \in Courses /\ job[r].store \in Stores
                             /\ \A c \in CoursesWritten(job[r].course, job[r].saw) :
                                  r \in holders[Records(c)] /\ retention[c] # "purged"
                             /\ job[r].rev = stored[job[r].store].rev =>
                                  job[r].saw = stored[job[r].store].changes
         /\ r \in Owners => /\ job[r].course \in Courses /\ r \in holders[Records(job[r].course)]
                            /\ IF job[r].op = "close" THEN retention[job[r].course] = "open"
                                                      ELSE Confirmed(r, job[r].course)
<1>1. RequestInv(r) /\ at[r] = "active" /\ plan[r] = <<>>
  BY DEF IInv, Ready
<1>2. \A l : ~Ahead(r, l)
  BY <1>1 DEF Ahead
<1>3. r \in Commands => CommandInv(r)
  BY <1>1 DEF RequestInv
<1>4. r \in Writers => WriterInv(r)
  BY <1>1 DEF RequestInv
<1>5. r \in Owners => OwnerInv(r)
  BY <1>1 DEF RequestInv
<1>6. r \in Commands => /\ job[r].course \in Courses /\ r \in holders[Records(job[r].course)]
                        /\ retention[job[r].course] # "purged"
  BY <1>2, <1>3 DEF CommandInv, Covered
<1>7. r \in Writers => /\ job[r].course \in Courses /\ job[r].store \in Stores
                       /\ \A c \in CoursesWritten(job[r].course, job[r].saw) :
                            r \in holders[Records(c)] /\ retention[c] # "purged"
                       /\ job[r].rev = stored[job[r].store].rev =>
                            job[r].saw = stored[job[r].store].changes
  BY <1>2, <1>4 DEF WriterInv, Covered
<1>8. r \in Owners => /\ job[r].course \in Courses /\ r \in holders[Records(job[r].course)]
                      /\ IF job[r].op = "close" THEN retention[job[r].course] = "open"
                                                ELSE Confirmed(r, job[r].course)
  BY <1>2, <1>5 DEF OwnerInv, Covered
<1> QED BY <1>6, <1>7, <1>8

(* Nobody shares the records of a course with its owner.                   *)
LEMMA NoOtherOwner ==
  ASSUME IInv, NEW r \in Requests, NEW c \in Courses, r \in holders[Records(c)],
         NEW d \in Owners, d \in holders[Records(c)]
  PROVE  d = r
BY DEF IInv, ExclusiveInv

(* The change a request makes, and its course.                             *)
LEMMA ChangeFacts ==
  ASSUME NEW r \in Requests, job[r].course \in Courses
  PROVE  Change(r) \in Changes /\ Change(r).course = job[r].course
BY DEF Change, Changes

(* The commit of a command: the course is not purged and no owner has it   *)
(* locked.                                                                 *)
LEMMA CommandCommits ==
  ASSUME IInv, NEW r \in Commands, CommitCommand(r)
  PROVE  IInv'
<1>1. r \in Requests
  BY RequestKinds
<1>2. Ready(r) /\ Ends(r, "done") /\ UNCHANGED <<retention, stored, attempts>>
  BY DEF CommitCommand
<1>3. PICK c \in Courses : c = job[r].course /\ r \in holders[Records(c)] /\ retention[c] # "purged"
  BY <1>1, <1>2, HeldAtCommit
<1>4. PICK x \in Changes : x = Change(r) /\ x.course = c
  BY <1>1, <1>3, ChangeFacts
<1>5. PICK k \in Kinds : k = job[r].op
  BY DEF CommitCommand
<1>6. /\ evidence' = [evidence EXCEPT ![c] = @ \cup {x}]
      /\ receipts' = receipts \cup {Key(k, c)}
      /\ committed' = committed \cup {x}
  BY <1>3, <1>4, <1>5 DEF CommitCommand
<1>7. TypeOK
  BY DEF IInv
<1>8. evidence'[c] = evidence[c] \cup {x} /\ \A d \in Courses : d # c => evidence'[d] = evidence[d]
  BY <1>6, <1>7, Typed
<1>9. \A d \in Courses : d # c => Kept(d)' = Kept(d)
  BY <1>2, <1>8 DEF Kept
<1>10. Kept(c)' = Kept(c) \cup {x}
  BY <1>2, <1>8 DEF Kept
<1>11. PurgedStaysGone'
  <2> SUFFICES ASSUME NEW d \in Courses, retention'[d] = "purged"
               PROVE  Kept(d)' = {} /\ \A kk \in Kinds : Key(kk, d) \notin receipts'
    BY DEF PurgedStaysGone
  <2>1. d # c /\ retention[d] = "purged"
    BY <1>2, <1>3
  <2>2. Kept(d)' = {} /\ \A kk \in Kinds : Key(kk, d) \notin receipts
    BY <1>9, <2>1 DEF IInv, PurgedStaysGone
  <2>3. \A kk \in Kinds : Key(kk, d) # Key(k, c)
    BY <2>1 DEF Key
  <2> QED BY <1>6, <2>2, <2>3
<1>12. NoChangeLost'
  <2> SUFFICES ASSUME NEW y \in committed', retention'[y.course] # "purged"
               PROVE  y \in Kept(y.course)'
    BY DEF NoChangeLost
  <2>1. CASE y = x
    BY <1>4, <1>10, <2>1
  <2>2. CASE y \in committed
    <3>1. y.course \in Courses
      BY <1>7, <2>2, Typed DEF Changes
    <3>2. y \in Kept(y.course)
      BY <1>2, <2>2 DEF IInv, NoChangeLost
    <3> QED BY <1>9, <1>10, <3>1, <3>2
  <2> QED BY <1>6, <2>1, <2>2
<1>13. TypeOK'
  <2>1. evidence' \in [Courses -> SUBSET Changes]
    BY <1>6, <1>7, Typed
  <2>2. receipts' \subseteq {Key(kk, d) : kk \in Kinds, d \in Courses}
    BY <1>6, <1>7 DEF TypeOK
  <2>3. committed' \subseteq Changes
    BY <1>6, <1>7, Typed
  <2>4. /\ holders' \in [Locks -> SUBSET Requests] /\ job' \in [Requests -> Jobs]
        /\ plan' \in [Requests -> Seq(Locks)]
        /\ at' \in [Requests -> {"idle", "active", "done", "refused"}]
    BY <1>1, <1>2, EndsFacts
  <2> QED BY <1>2, <1>7, <2>1, <2>2, <2>3, <2>4 DEF TypeOK
<1>14. /\ \A d \in Requests \ {r} : Unmoved(d)
       /\ ExclusiveInv' /\ RequestInv(r)' /\ OrderInv(r)'
  BY <1>1, <1>2, EndsFacts
<1>15. StoresStep /\ \A d : RetentionStep(d)
  BY <1>2 DEF StoresStep, RetentionStep
<1>16. \A d \in Requests \ {r}, e \in Courses :
         d \in Owners /\ d \in holders[Records(e)] => Kept(e)' = Kept(e)
  BY <1>1, <1>3, <1>9, NoOtherOwner
<1> QED BY <1>11, <1>12, <1>13, <1>14, <1>15, <1>16, Whole

(* The commit of a writer: it adds its change to what the store still has, *)
(* and none of the courses it writes about is purged.                      *)
LEMMA WriteCommits ==
  ASSUME IInv, NEW r \in Writers, CommitWrite(r)
  PROVE  IInv'
<1>1. r \in Requests
  BY RequestKinds
<1>2. /\ Ready(r) /\ Ends(r, "done") /\ UNCHANGED <<retention, evidence, receipts, attempts>>
      /\ Unchanged(r)
  BY DEF CommitWrite
<1>3. PICK s \in Stores : s = job[r].store
  BY <1>1, <1>2, HeldAtCommit
<1>4. PICK c \in Courses : c = job[r].course
  BY <1>1, <1>2, HeldAtCommit
<1>5. PICK x \in Changes : x = Change(r) /\ x.course = c
  BY <1>1, <1>4, ChangeFacts
<1>6. TypeOK
  BY DEF IInv
<1>7. /\ job[r].saw = stored[s].changes /\ stored[s].changes \subseteq Changes
      /\ stored[s].rev \in Nat
  BY <1>1, <1>2, <1>3, <1>6, HeldAtCommit, Typed DEF Unchanged
<1>8. \A y \in stored[s].changes \cup {x} :
        /\ y.course \in Courses /\ r \in holders[Records(y.course)]
        /\ retention[y.course] # "purged"
  <2> TAKE y \in stored[s].changes \cup {x}
  <2>1. y.course \in CoursesWritten(job[r].course, job[r].saw)
    BY <1>4, <1>5, <1>7 DEF CoursesWritten
  <2>2. y.course \in Courses
    BY <1>5, <1>7 DEF Changes
  <2> QED BY <1>1, <1>2, <2>1, <2>2, HeldAtCommit
<1>9. /\ stored' = [stored EXCEPT ![s] =
                      [rev |-> @.rev + 1, changes |-> job[r].saw \cup {x}]]
      /\ committed' = committed \cup {x}
  BY <1>3, <1>5 DEF CommitWrite
<1>10. /\ stored'[s].rev = stored[s].rev + 1 /\ stored'[s].changes = stored[s].changes \cup {x}
       /\ \A t \in Stores : t # s => stored'[t] = stored[t]
  BY <1>6, <1>7, <1>9, Typed
<1>11. \A d, y : y \in Kept(d)' <=> y \in Kept(d) \/ (y = x /\ d = c)
  <2> SUFFICES ASSUME NEW d, NEW y PROVE y \in Kept(d)' <=> y \in Kept(d) \/ (y = x /\ d = c)
    OBVIOUS
  <2>1. y \in Kept(d)' <=>
          y \in evidence[d] \/ \E t \in Stores : y \in stored'[t].changes /\ y.course = d
    BY <1>2, KeptFacts
  <2>2. y \in Kept(d) <=>
          y \in evidence[d] \/ \E t \in Stores : y \in stored[t].changes /\ y.course = d
    BY KeptFacts
  <2>3. \A t \in Stores : y \in stored'[t].changes <=> y \in stored[t].changes \/ (t = s /\ y = x)
    BY <1>10
  <2> QED BY <1>5, <2>1, <2>2, <2>3
<1>12. PurgedStaysGone'
  <2> SUFFICES ASSUME NEW d \in Courses, retention'[d] = "purged"
               PROVE  Kept(d)' = {} /\ \A k \in Kinds : Key(k, d) \notin receipts'
    BY DEF PurgedStaysGone
  <2>1. d # c
    BY <1>2, <1>5, <1>8
  <2>2. Kept(d) = {} /\ \A k \in Kinds : Key(k, d) \notin receipts
    BY <1>2 DEF IInv, PurgedStaysGone
  <2>3. \A y : y \notin Kept(d)'
    BY <1>11, <2>1, <2>2
  <2> QED BY <1>2, <2>2, <2>3
<1>13. NoChangeLost'
  <2> SUFFICES ASSUME NEW y \in committed', retention'[y.course] # "purged"
               PROVE  y \in Kept(y.course)'
    BY DEF NoChangeLost
  <2>1. y \in committed => y \in Kept(y.course)
    BY <1>2 DEF IInv, NoChangeLost
  <2> QED BY <1>5, <1>9, <1>11, <2>1
<1>14. TypeOK'
  <2>1. stored' \in [Stores -> [rev: Nat, changes: SUBSET Changes]]
    <3>1. stored \in [Stores -> [rev: Nat, changes: SUBSET Changes]]
      BY <1>6, Typed
    <3>2. [rev |-> stored[s].rev + 1, changes |-> job[r].saw \cup {x}]
            \in [rev: Nat, changes: SUBSET Changes]
      BY <1>7
    <3> QED BY <1>9, <3>1, <3>2
  <2>2. committed' \subseteq Changes
    BY <1>6, <1>9, Typed
  <2>3. /\ holders' \in [Locks -> SUBSET Requests] /\ job' \in [Requests -> Jobs]
        /\ plan' \in [Requests -> Seq(Locks)]
        /\ at' \in [Requests -> {"idle", "active", "done", "refused"}]
    BY <1>1, <1>2, EndsFacts
  <2> QED BY <1>2, <1>6, <2>1, <2>2, <2>3 DEF TypeOK
<1>15. /\ \A d \in Requests \ {r} : Unmoved(d)
       /\ ExclusiveInv' /\ RequestInv(r)' /\ OrderInv(r)'
  BY <1>1, <1>2, EndsFacts
<1>16. StoresStep
  BY <1>7, <1>10 DEF StoresStep
<1>17. \A d : RetentionStep(d)
  BY <1>2 DEF RetentionStep
<1>18. ASSUME NEW d \in Requests \ {r}, NEW e \in Courses, d \in Owners, d \in holders[Records(e)]
       PROVE  Kept(e)' = Kept(e)
  <2>1. r \in holders[Records(c)]
    BY <1>5, <1>8
  <2>2. e # c
    BY <1>1, <1>18, <2>1, NoOtherOwner
  <2>3. \A y : y \in Kept(e)' <=> y \in Kept(e)
    BY <1>11, <2>2
  <2> QED BY <2>3
<1> QED BY <1>12, <1>13, <1>14, <1>15, <1>16, <1>17, <1>18, Whole
-----------------------------------------------------------------------------
(* The commit of a close: no other request has the course locked.          *)
LEMMA CloseCommits ==
  ASSUME IInv, NEW r \in Owners, CommitClose(r)
  PROVE  IInv'
<1>1. r \in Requests
  BY RequestKinds
<1>2. /\ Ready(r) /\ job[r].op = "close" /\ Ends(r, "done")
      /\ UNCHANGED <<evidence, receipts, stored, committed, attempts>>
  BY DEF CommitClose
<1>3. PICK c \in Courses : c = job[r].course /\ r \in holders[Records(c)] /\ retention[c] = "open"
  BY <1>1, <1>2, HeldAtCommit
<1>4. TypeOK
  BY DEF IInv
<1>5. /\ retention' = [retention EXCEPT ![c] = "closed"]
      /\ retention'[c] = "closed" /\ \A d \in Courses : d # c => retention'[d] = retention[d]
  BY <1>3, <1>4, Typed DEF CommitClose
<1>6. \A d : Kept(d)' = Kept(d)
  BY <1>2 DEF Kept
<1>7. \A d \in Courses : retention'[d] = "purged" <=> retention[d] = "purged"
  BY <1>3, <1>5
<1>8. PurgedStaysGone'
  BY <1>2, <1>6, <1>7 DEF IInv, PurgedStaysGone
<1>9. NoChangeLost'
  <2>1. \A y \in committed : y.course \in Courses
    BY <1>4, Typed DEF Changes
  <2> QED BY <1>2, <1>6, <1>7, <2>1 DEF IInv, NoChangeLost
<1>10. TypeOK'
  <2>1. retention' \in [Courses -> {"open", "closed", "expired", "purged"}]
    BY <1>4, <1>5, Typed
  <2>2. /\ holders' \in [Locks -> SUBSET Requests] /\ job' \in [Requests -> Jobs]
        /\ plan' \in [Requests -> Seq(Locks)]
        /\ at' \in [Requests -> {"idle", "active", "done", "refused"}]
    BY <1>1, <1>2, EndsFacts
  <2> QED BY <1>2, <1>4, <2>1, <2>2 DEF TypeOK
<1>11. /\ \A d \in Requests \ {r} : Unmoved(d)
       /\ ExclusiveInv' /\ RequestInv(r)' /\ OrderInv(r)'
  BY <1>1, <1>2, EndsFacts
<1>12. StoresStep
  BY <1>2 DEF StoresStep
<1>13. ASSUME NEW d \in Requests \ {r}, NEW e \in Courses, d \in holders[Records(e)]
       PROVE  RetentionStep(e)
  <2>1. e # c
    BY <1>3, <1>13 DEF IInv, ExclusiveInv
  <2> QED BY <1>5, <2>1 DEF RetentionStep
<1> QED BY <1>6, <1>8, <1>9, <1>10, <1>11, <1>12, <1>13, Whole

(* The commit of a purge: everything of the course goes and nothing of     *)
(* another course.                                                         *)
LEMMA PurgeCommits ==
  ASSUME IInv, NEW r \in Owners, CommitPurge(r)
  PROVE  IInv'
<1>1. r \in Requests
  BY RequestKinds
<1>2. Ready(r) /\ job[r].op = "purge" /\ Ends(r, "done") /\ UNCHANGED <<committed, attempts>>
  BY DEF CommitPurge
<1>3. PICK c \in Courses : c = job[r].course /\ r \in holders[Records(c)]
  BY <1>1, <1>2, HeldAtCommit
<1>4. TypeOK
  BY DEF IInv
<1>5. /\ receipts' = {k \in receipts : k[2] # c}
      /\ evidence' = [evidence EXCEPT ![c] = {}]
      /\ stored' = [s \in Stores |-> Stripped(c, stored[s])]
      /\ retention' = [retention EXCEPT ![c] = "purged"]
  BY <1>3 DEF CommitPurge
<1>6. /\ retention'[c] = "purged" /\ evidence'[c] = {}
      /\ \A d \in Courses : d # c => retention'[d] = retention[d] /\ evidence'[d] = evidence[d]
  BY <1>4, <1>5, Typed
<1>7. ASSUME NEW s \in Stores
      PROVE  /\ stored'[s] \in [rev: Nat, changes: SUBSET Changes]
             /\ stored'[s].changes = {y \in stored[s].changes : y.course # c}
             /\ stored'[s] = stored[s] \/ stored'[s].rev > stored[s].rev
  <2>1. stored[s] \in [rev: Nat, changes: SUBSET Changes]
    BY <1>4, Typed
  <2>2. stored'[s] = Stripped(c, stored[s])
    BY <1>5
  <2>3. CASE Of(c, stored[s].changes) = {}
    <3>1. stored'[s] = stored[s]
      BY <2>2, <2>3 DEF Stripped
    <3>2. stored[s].changes = {y \in stored[s].changes : y.course # c}
      BY <2>3 DEF Of
    <3> QED BY <2>1, <3>1, <3>2
  <2>4. CASE Of(c, stored[s].changes) # {}
    <3>1. stored'[s] = [rev |-> stored[s].rev + 1,
                        changes |-> stored[s].changes \ Of(c, stored[s].changes)]
      BY <2>2, <2>4 DEF Stripped
    <3>2. stored[s].changes \ Of(c, stored[s].changes) = {y \in stored[s].changes : y.course # c}
      BY DEF Of
    <3> QED BY <2>1, <3>1, <3>2
  <2> QED BY <2>3, <2>4
<1>8. \A d \in Courses : \A y : y \in Kept(d)' <=> y \in Kept(d) /\ d # c
  <2> SUFFICES ASSUME NEW d \in Courses, NEW y PROVE y \in Kept(d)' <=> y \in Kept(d) /\ d # c
    OBVIOUS
  <2>1. y \in Kept(d)' <=>
          y \in evidence'[d] \/ \E t \in Stores : y \in stored'[t].changes /\ y.course = d
    BY KeptFacts
  <2>2. y \in Kept(d) <=>
          y \in evidence[d] \/ \E t \in Stores : y \in stored[t].changes /\ y.course = d
    BY KeptFacts
  <2>3. \A t \in Stores : y \in stored'[t].changes <=> y \in stored[t].changes /\ y.course # c
    BY <1>7
  <2> QED BY <1>6, <2>1, <2>2, <2>3
<1>9. PurgedStaysGone'
  <2> SUFFICES ASSUME NEW d \in Courses, retention'[d] = "purged"
               PROVE  Kept(d)' = {} /\ \A k \in Kinds : Key(k, d) \notin receipts'
    BY DEF PurgedStaysGone
  <2>1. CASE d = c
    <3>1. \A y : y \notin Kept(d)'
      BY <1>8, <2>1
    <3>2. \A k \in Kinds : Key(k, d)[2] = c
      BY <2>1 DEF Key
    <3> QED BY <1>5, <3>1, <3>2
  <2>2. CASE d # c
    <3>1. Kept(d) = {} /\ \A k \in Kinds : Key(k, d) \notin receipts
      BY <1>6, <2>2 DEF IInv, PurgedStaysGone
    <3>2. \A y : y \notin Kept(d)'
      BY <1>8, <3>1
    <3> QED BY <1>5, <3>1, <3>2
  <2> QED BY <2>1, <2>2
<1>10. NoChangeLost'
  <2> SUFFICES ASSUME NEW y \in committed, retention'[y.course] # "purged"
               PROVE  y \in Kept(y.course)'
    BY <1>2 DEF NoChangeLost
  <2>1. y.course \in Courses /\ y.course # c
    BY <1>4, <1>6, Typed DEF Changes
  <2>2. y \in Kept(y.course)
    BY <1>6, <2>1 DEF IInv, NoChangeLost
  <2> QED BY <1>8, <2>1, <2>2
<1>11. TypeOK'
  <2>1. retention' \in [Courses -> {"open", "closed", "expired", "purged"}]
    BY <1>4, <1>5, Typed
  <2>2. evidence' \in [Courses -> SUBSET Changes]
    BY <1>4, <1>5, Typed
  <2>3. receipts' \subseteq {Key(k, d) : k \in Kinds, d \in Courses}
    BY <1>4, <1>5 DEF TypeOK
  <2>4. stored' \in [Stores -> [rev: Nat, changes: SUBSET Changes]]
    BY <1>5, <1>7
  <2>5. /\ holders' \in [Locks -> SUBSET Requests] /\ job' \in [Requests -> Jobs]
        /\ plan' \in [Requests -> Seq(Locks)]
        /\ at' \in [Requests -> {"idle", "active", "done", "refused"}]
    BY <1>1, <1>2, EndsFacts
  <2> QED BY <1>2, <1>4, <2>1, <2>2, <2>3, <2>4, <2>5 DEF TypeOK
<1>12. /\ \A d \in Requests \ {r} : Unmoved(d)
       /\ ExclusiveInv' /\ RequestInv(r)' /\ OrderInv(r)'
  BY <1>1, <1>2, EndsFacts
<1>13. StoresStep
  BY <1>7 DEF StoresStep
<1>14. ASSUME NEW d \in Requests \ {r}, NEW e \in Courses, d \in holders[Records(e)]
       PROVE  e # c
  BY <1>3, <1>14 DEF IInv, ExclusiveInv
<1>15. \A d \in Requests \ {r}, e \in Courses : d \in holders[Records(e)] => RetentionStep(e)
  BY <1>6, <1>14 DEF RetentionStep
<1>16. ASSUME NEW d \in Requests \ {r}, NEW e \in Courses, d \in Owners, d \in holders[Records(e)]
       PROVE  Kept(e)' = Kept(e)
  <2>1. \A y : y \in Kept(e)' <=> y \in Kept(e)
    BY <1>8, <1>14, <1>16
  <2> QED BY <2>1
<1> QED BY <1>9, <1>10, <1>11, <1>12, <1>13, <1>15, <1>16, Whole
-----------------------------------------------------------------------------
(* The end of a course's period, which no request has a part in.           *)
LEMMA PeriodEnds ==
  ASSUME IInv, NEW c \in Courses, RetentionEnds(c)
  PROVE  IInv'
<1>1. /\ retention[c] = "closed" /\ retention' = [retention EXCEPT ![c] = "expired"]
      /\ UNCHANGED <<evidence, receipts, stored, committed, holders, job, plan, at, attempts>>
  BY DEF RetentionEnds
<1>2. TypeOK
  BY DEF IInv
<1>3. retention'[c] = "expired" /\ \A d \in Courses : d # c => retention'[d] = retention[d]
  BY <1>1, <1>2, Typed
<1>4. \A d : Kept(d)' = Kept(d)
  BY <1>1 DEF Kept
<1>5. \A d \in Courses : retention'[d] = "purged" <=> retention[d] = "purged"
  BY <1>1, <1>3
<1>6. PurgedStaysGone'
  BY <1>1, <1>4, <1>5 DEF IInv, PurgedStaysGone
<1>7. NoChangeLost'
  <2>1. \A y \in committed : y.course \in Courses
    BY <1>2, Typed DEF Changes
  <2> QED BY <1>1, <1>4, <1>5, <2>1 DEF IInv, NoChangeLost
<1>8. TypeOK'
  <2>1. retention' \in [Courses -> {"open", "closed", "expired", "purged"}]
    BY <1>1, <1>2, Typed
  <2> QED BY <1>1, <1>2, <2>1 DEF TypeOK
<1>9. \A d \in Requests : Unmoved(d)
  BY <1>1 DEF Unmoved
<1>10. StoresStep /\ \A d \in Courses : RetentionStep(d)
  BY <1>1, <1>3 DEF StoresStep, RetentionStep
<1>11. ExclusiveInv'
  BY <1>1 DEF IInv, ExclusiveInv
<1>12. \A d \in Requests : RequestInv(d)'
  BY <1>4, <1>9, <1>10, OthersKeep
<1>13. \A d \in Requests : OrderInv(d)'
  BY <1>1 DEF IInv, OrderInv, Ordered
<1> QED BY <1>6, <1>7, <1>8, <1>11, <1>12, <1>13 DEF IInv

(* A step of nobody.                                                       *)
LEMMA Stutters ==
  ASSUME IInv, UNCHANGED vars
  PROVE  IInv'
<1>1. UNCHANGED <<retention, evidence, receipts, stored, holders, job, plan, at, attempts, committed>>
  BY DEF vars
<1>2. TypeOK' /\ PurgedStaysGone' /\ NoChangeLost' /\ ExclusiveInv'
  <2>1. TypeOK'
    BY <1>1 DEF IInv, TypeOK
  <2>2. PurgedStaysGone' /\ NoChangeLost'
    BY <1>1 DEF IInv, PurgedStaysGone, NoChangeLost, Kept
  <2>3. ExclusiveInv'
    BY <1>1 DEF IInv, ExclusiveInv
  <2> QED BY <2>1, <2>2, <2>3
<1>3. \A d \in Requests : Unmoved(d)
  BY <1>1 DEF Unmoved
<1>4. /\ StoresStep /\ \A d \in Courses : RetentionStep(d)
      /\ \A d \in Courses : Kept(d)' = Kept(d)
  BY <1>1 DEF StoresStep, RetentionStep, Kept
<1>5. \A d \in Requests : RequestInv(d)'
  BY <1>3, <1>4, OthersKeep
<1>6. \A d \in Requests : OrderInv(d)'
  BY <1>1 DEF IInv, OrderInv, Ordered
<1> QED BY <1>2, <1>5, <1>6 DEF IInv

(* Every step keeps the invariant.                                         *)
LEMMA NextIInv == IInv /\ [Next]_vars => IInv'
<1> SUFFICES ASSUME IInv, [Next]_vars PROVE IInv'
  OBVIOUS
<1>1. CASE \E r \in Commands, k \in Kinds, c \in Courses : BeginCommand(r, k, c)
  BY <1>1, BeginsCommand
<1>2. CASE \E r \in Writers, c \in Courses, s \in Stores : BeginWrite(r, c, s)
  BY <1>2, BeginsWrite
<1>3. CASE \E r \in Owners, c \in Courses : BeginClose(r, c)
  BY <1>3, BeginsClose
<1>4. CASE \E r \in Owners, c \in Courses : BeginPurge(r, c)
  BY <1>4, BeginsPurge
<1>5. CASE \E c \in Courses : RetentionEnds(c)
  BY <1>5, PeriodEnds
<1>6. CASE \E r \in Requests : Lock(r)
  BY <1>6, LockTaken
<1>7. CASE \E r \in Requests : Refuse(r)
  BY <1>7, Refuses
<1>8. CASE (\E r \in Writers : Conflict(r)) \/ \E r \in Writers : RowAppeared(r)
  BY <1>8, Conflicts
<1>9. CASE \E r \in Commands : CommitCommand(r)
  BY <1>9, CommandCommits
<1>10. CASE \E r \in Writers : CommitWrite(r)
  BY <1>10, WriteCommits
<1>11. CASE \E r \in Owners : CommitClose(r)
  BY <1>11, CloseCommits
<1>12. CASE \E r \in Owners : CommitPurge(r)
  BY <1>12, PurgeCommits
<1>13. CASE UNCHANGED vars
  BY <1>13, Stutters
<1> QED BY <1>1, <1>2, <1>3, <1>4, <1>5, <1>6, <1>7, <1>8, <1>9, <1>10, <1>11, <1>12, <1>13 DEF Next

(* The invariant holds at the start.                                       *)
LEMMA InitIInv == Init => IInv
<1> SUFFICES ASSUME Init PROVE IInv
  OBVIOUS
<1>1. /\ retention \in [Courses -> {"open", "expired"}]
      /\ evidence = [c \in Courses |-> {}] /\ receipts = {} /\ committed = {}
      /\ holders = [l \in Locks |-> {}]
      /\ job = [r \in Requests |-> NoJob]
      /\ plan = [r \in Requests |-> <<>>]
      /\ at = [r \in Requests |-> "idle"]
      /\ attempts = [r \in Requests |-> 0]
  BY DEF Init
<1>2. PICK rev \in {0, 1} : stored = [s \in Stores |-> [rev |-> rev, changes |-> {}]]
  BY DEF Init
<1>3. TypeOK
  <2>1. NoJob \in Jobs
    BY DEF NoJob, Jobs
  <2>2. MaxAttempts \in Nat
    BY AttemptsAssumption
  <2>3. <<>> \in Seq(Locks)
    OBVIOUS
  <2>4. stored \in [Stores -> [rev: Nat, changes: SUBSET Changes]]
    BY <1>2
  <2>5. /\ job \in [Requests -> Jobs] /\ plan \in [Requests -> Seq(Locks)]
        /\ attempts \in [Requests -> 0..MaxAttempts]
    BY <1>1, <2>1, <2>2, <2>3
  <2> QED BY <1>1, <2>4, <2>5 DEF TypeOK
<1>4. PurgedStaysGone /\ NoChangeLost
  BY <1>1 DEF PurgedStaysGone, NoChangeLost
<1>5. \A l \in Locks : holders[l] = {}
  BY <1>1
<1>6. ExclusiveInv
  BY <1>5, LockFacts DEF ExclusiveInv
<1>7. \A r \in Requests : RequestInv(r) /\ OrderInv(r)
  <2> TAKE r \in Requests
  <2>1. at[r] = "idle" /\ plan[r] = <<>>
    BY <1>1
  <2> QED BY <1>5, <2>1 DEF RequestInv, OrderInv, Ordered
<1> QED BY <1>3, <1>4, <1>6, <1>7 DEF IInv

(* The types of the variables, for any number of courses, stores and       *)
(* requests.                                                               *)
THEOREM TypeCorrect == Spec => []TypeOK
<1>1. IInv => TypeOK
  BY DEF IInv
<1> QED BY InitIInv, NextIInv, <1>1, PTL DEF Spec

(* Once a course is purged nothing of it is left in the tables or comes    *)
(* back: no work, no receipt and no record in the stores that other        *)
(* writers replace as a whole (deleteClassroomEvidence against the         *)
(* commands and the writers of both stores).                               *)
THEOREM PurgedForGood == Spec => []PurgedStaysGone
<1>1. IInv => PurgedStaysGone
  BY DEF IInv
<1> QED BY InitIInv, NextIInv, <1>1, PTL DEF Spec

(* No committed change is lost before its course is purged, whichever      *)
(* writers replace the stores and whichever other courses are purged.      *)
THEOREM ChangesSurvive == Spec => []NoChangeLost
<1>1. IInv => NoChangeLost
  BY DEF IInv
<1> QED BY InitIInv, NextIInv, <1>1, PTL DEF Spec

(* A course is purged only by a request of an owner that confirmed exactly *)
(* what the purge deletes: the digest of the preview is compared under the *)
(* lock and nothing changes before the commit (purgeClassroomRecords).     *)
THEOREM PurgeAsConfirmed == Spec => PurgesWhatWasShown
<1> DEFINE ByItsOwner(c) == \E r \in Owners : /\ at[r] = "active" /\ at'[r] = "done"
                                              /\ job[r].course = c /\ job[r].saw = Kept(c)
<1>1. ASSUME IInv, [Next]_vars, NEW c \in Courses,
             retention[c] # "purged", retention'[c] = "purged"
      PROVE  ByItsOwner(c)
  <2>1. TypeOK /\ retention' # retention
    BY <1>1 DEF IInv
  <2>2. CASE \E r \in Owners : CommitPurge(r)
    <3>1. PICK r \in Owners : CommitPurge(r)
      BY <2>2
    <3>2. r \in Requests
      BY RequestKinds
    <3>3. /\ Ready(r) /\ job[r].op = "purge" /\ Ends(r, "done")
          /\ retention' = [retention EXCEPT ![job[r].course] = "purged"]
      BY <3>1 DEF CommitPurge
    <3>4. at[r] = "active" /\ at'[r] = "done"
      BY <2>1, <3>2, <3>3, Typed DEF Ready, Ends
    <3>5. Confirmed(r, job[r].course)
      BY <1>1, <3>2, <3>3, HeldAtCommit
    <3>6. job[r].course = c
      BY <1>1, <2>1, <3>3, Typed
    <3> QED BY <3>4, <3>5, <3>6 DEF Confirmed
  <2>3. CASE \E r \in Owners : CommitClose(r)
    <3>1. PICK r \in Owners : retention' = [retention EXCEPT ![job[r].course] = "closed"]
      BY <2>3 DEF CommitClose
    <3> QED BY <1>1, <2>1, <3>1, Typed
  <2>4. CASE \E d \in Courses : RetentionEnds(d)
    BY <1>1, <2>1, <2>4, Typed DEF RetentionEnds
  <2>5. CASE UNCHANGED tables
    BY <2>1, <2>5 DEF tables
  <2>6. CASE \/ \E r \in Commands : CommitCommand(r)
             \/ \E r \in Writers : CommitWrite(r)
    BY <2>1, <2>6 DEF CommitCommand, CommitWrite
  <2>7. CASE UNCHANGED vars
    BY <2>1, <2>7 DEF vars
  <2>8. CASE \/ \E r \in Commands, k \in Kinds, d \in Courses : BeginCommand(r, k, d)
             \/ \E r \in Writers, d \in Courses, s \in Stores : BeginWrite(r, d, s)
             \/ \E r \in Owners, d \in Courses : BeginClose(r, d)
             \/ \E r \in Owners, d \in Courses : BeginPurge(r, d)
    <3>1. ASSUME NEW r, NEW what, NEW locks, Begin(r, what, locks) PROVE UNCHANGED tables
      BY <3>1 DEF Begin
    <3>2. ASSUME NEW r, NEW k, NEW d, BeginCommand(r, k, d) PROVE UNCHANGED tables
      BY <3>1, <3>2 DEF BeginCommand
    <3>3. ASSUME NEW r, NEW d, NEW s, BeginWrite(r, d, s) PROVE UNCHANGED tables
      BY <3>1, <3>3 DEF BeginWrite
    <3>4. ASSUME NEW r, NEW d, BeginClose(r, d) \/ BeginPurge(r, d) PROVE UNCHANGED tables
      BY <3>1, <3>4 DEF BeginClose, BeginPurge
    <3> QED BY <2>5, <2>8, <3>2, <3>3, <3>4
  <2>9. CASE \/ \E r \in Requests : Lock(r)
             \/ \E r \in Requests : Refuse(r)
             \/ \E r \in Writers : Conflict(r)
             \/ \E r \in Writers : RowAppeared(r)
    BY <2>5, <2>9 DEF Lock, Refuse, Conflict, RowAppeared
  <2> QED BY <1>1, <2>2, <2>3, <2>4, <2>6, <2>7, <2>8, <2>9 DEF Next
<1>2. IInv /\ [Next]_vars =>
        \A c \in Courses : (retention[c] # "purged" /\ retention'[c] = "purged") =>
          \E r \in Owners : /\ at[r] = "active" /\ at'[r] = "done"
                            /\ job[r].course = c /\ job[r].saw = Kept(c)
  BY <1>1
<1> QED BY InitIInv, NextIInv, <1>2, PTL DEF Spec, PurgesWhatWasShown
-----------------------------------------------------------------------------
(* A finite set of numbers has a greatest element: the last of the sorted. *)
LEMMA Greatest ==
  ASSUME NEW S \in SUBSET Nat, IsFiniteSet(S), S # {}
  PROVE  \E x \in S : \A y \in S : y <= x
<1> DEFINE f == Sorted(S)
<1>1. /\ f \in Seq(S) /\ \A i, j \in 1..Len(f) : i < j => f[i] < f[j]
      /\ \A x \in S : \E i \in 1..Len(f) : f[i] = x
  BY SortedFacts
<1> HIDE DEF f
<1>2. Len(f) \in Nat /\ Len(f) # 0 /\ \A i \in 1..Len(f) : f[i] \in S
  <2>1. Len(f) \in Nat /\ \A i \in 1..Len(f) : f[i] \in S
    BY <1>1
  <2>2. PICK x \in S : TRUE
    OBVIOUS
  <2>3. \E i \in 1..Len(f) : f[i] = x
    BY <1>1
  <2> QED BY <2>1, <2>3
<1>3. Len(f) \in 1..Len(f) /\ f[Len(f)] \in S
  BY <1>2
<1>4. ASSUME NEW y \in S PROVE y <= f[Len(f)]
  <2>1. PICK i \in 1..Len(f) : f[i] = y
    BY <1>1
  <2>2. CASE i = Len(f)
    BY <2>1, <2>2
  <2>3. CASE i < Len(f)
    <3>1. f[i] < f[Len(f)] /\ f[i] \in Nat /\ f[Len(f)] \in Nat
      BY <1>1, <1>2, <1>3, <2>3
    <3> QED BY <2>1, <3>1
  <2> QED BY <1>2, <2>2, <2>3
<1> QED BY <1>3, <1>4

(* The place of a lock in the order.                                       *)
LEMMA LevelFacts ==
  ASSUME NEW l \in Locks
  PROVE  Level(l) \in 0..4 /\ l[2] \in Courses \cup Stores
<1>1. \/ \E c \in Courses : l = Records(c) \/ l = Work(c)
      \/ \E k \in Kinds, c \in Courses : l = Key(k, c)
      \/ \E s \in Stores : l = Row(s)
  BY LockFacts
<1>2. ASSUME NEW c \in Courses, l = Records(c) PROVE Level(l) = 1 /\ l[2] = c
  BY <1>2 DEF Level, Records
<1>3. ASSUME NEW c \in Courses, l = Work(c) PROVE Level(l) = 3 /\ l[2] = c
  BY <1>3 DEF Level, Work
<1>4. ASSUME NEW c \in Courses, l = Key("submit", c) PROVE Level(l) = 0 /\ l[2] = c
  BY <1>4 DEF Level, Key
<1>5. ASSUME NEW c \in Courses, l = Key("review", c) PROVE Level(l) = 2 /\ l[2] = c
  BY <1>5 DEF Level, Key
<1>6. ASSUME NEW s \in Stores, l = Row(s) PROVE Level(l) = 4 /\ l[2] = s
  BY <1>6 DEF Level, Row
<1> QED BY <1>1, <1>2, <1>3, <1>4, <1>5, <1>6 DEF Kinds

(* Among some locks one comes last: of those at the highest level the one  *)
(* with the greatest number.                                               *)
LEMMA LastLock ==
  ASSUME NEW W \in SUBSET Locks, W # {}
  PROVE  \E l \in W : \A m \in W : ~Before(l, m)
<1>1. \A l \in W : Level(l) \in 0..4 /\ l[2] \in Courses \cup Stores
  BY LevelFacts
<1>2. PICK top \in 0..4 : (\E l \in W : Level(l) = top) /\ \A l \in W : Level(l) <= top
  <2>1. CASE \E l \in W : Level(l) = 4
    BY <1>1, <2>1
  <2>2. CASE (\E l \in W : Level(l) = 3) /\ ~\E l \in W : Level(l) = 4
    BY <1>1, <2>2
  <2>3. CASE (\E l \in W : Level(l) = 2) /\ ~\E l \in W : Level(l) \in 3..4
    BY <1>1, <2>3
  <2>4. CASE (\E l \in W : Level(l) = 1) /\ ~\E l \in W : Level(l) \in 2..4
    BY <1>1, <2>4
  <2>5. CASE ~\E l \in W : Level(l) \in 1..4
    BY <1>1, <2>5
  <2> QED BY <2>1, <2>2, <2>3, <2>4, <2>5
<1> DEFINE N == {l[2] : l \in {m \in W : Level(m) = top}}
<1>3. N \in SUBSET Nat /\ IsFiniteSet(N) /\ N # {}
  <2>1. N \subseteq Courses \cup Stores /\ N # {}
    BY <1>1, <1>2
  <2> HIDE DEF N
  <2>2. IsFiniteSet(Courses \cup Stores) /\ Courses \cup Stores \subseteq Nat
    BY NumbersAssumption, FS_Union
  <2> QED BY <2>1, <2>2, FS_Subset
<1> HIDE DEF N
<1>4. PICK x \in N : \A y \in N : y <= x
  BY <1>3, Greatest
<1>5. PICK l \in W : Level(l) = top /\ l[2] = x
  BY DEF N
<1>6. ASSUME NEW m \in W, Before(l, m) PROVE FALSE
  <2>1. Level(m) <= top /\ Level(m) \in 0..4
    BY <1>1, <1>2
  <2>2. Level(m) = top /\ x < m[2]
    BY <1>5, <1>6, <2>1 DEF Before
  <2>3. m[2] \in N
    BY <2>2 DEF N
  <2>4. m[2] <= x /\ m[2] \in Nat /\ x \in Nat
    BY <1>3, <1>4, <2>3
  <2> QED BY <2>2, <2>4
<1> QED BY <1>6

(* Who holds what another waits for waits for something later itself.      *)
LEMMA HeldBefore ==
  ASSUME IInv, NEW q \in Requests, NEW b \in Requests, plan[q] # <<>>, plan[b] # <<>>,
         b \in holders[Head(plan[q])]
  PROVE  Before(Head(plan[q]), Head(plan[b]))
<1>1. TypeOK /\ OrderInv(b)
  BY DEF IInv
<1>2. plan[q] \in Seq(Locks) /\ plan[b] \in Seq(Locks)
  BY <1>1, Typed
<1>3. Head(plan[q]) \in Locks /\ 1 \in 1..Len(plan[b]) /\ Head(plan[b]) = plan[b][1]
  BY <1>2
<1> QED BY <1>1, <1>3 DEF OrderInv

(* No set of requests waits within itself.  Take the last lock one of them *)
(* waits for.  Nobody of the set holds it, since its holder would wait for *)
(* a later one.  So an owner stands before it in the queue, who waits for  *)
(* a holder of the same lock.                                              *)
LEMMA NoCycle ==
  ASSUME IInv, NEW S \in SUBSET Requests, S # {}, \A q \in S : Blockers(q) \cap S # {}
  PROVE  FALSE
<1>1. TypeOK
  BY DEF IInv
<1>2. \A q \in S : plan[q] # <<>>
  BY DEF Blockers
<1> DEFINE waited == {Head(plan[q]) : q \in S}
<1>3. waited \in SUBSET Locks /\ waited # {}
  <2>1. ASSUME NEW q \in S PROVE Head(plan[q]) \in Locks
    <3>1. plan[q] \in Seq(Locks) /\ plan[q] # <<>>
      BY <1>1, <1>2, Typed
    <3> QED BY <3>1
  <2> QED BY <2>1
<1>4. PICK q \in S : \A m \in waited : ~Before(Head(plan[q]), m)
  <2>1. \E l \in waited : \A m \in waited : ~Before(l, m)
    <3> HIDE DEF waited
    <3> QED BY <1>3, LastLock
  <2> QED BY <2>1
<1>5. \A b \in S : b \notin holders[Head(plan[q])]
  <2> SUFFICES ASSUME NEW b \in S, b \in holders[Head(plan[q])] PROVE FALSE
    OBVIOUS
  <2>1. Before(Head(plan[q]), Head(plan[b]))
    BY <1>2, HeldBefore
  <2> QED BY <1>4, <2>1
<1>6. PICK b \in Blockers(q) : b \in S
  OBVIOUS
<1>7. b \in Owners /\ Head(plan[b]) = Head(plan[q])
  BY <1>2, <1>5, <1>6 DEF Blockers
<1>8. PICK d \in Blockers(b) : d \in S
  BY <1>6
<1>9. d \in holders[Head(plan[b])]
  BY <1>2, <1>6, <1>7, <1>8 DEF Blockers, Shares
<1> QED BY <1>5, <1>7, <1>8, <1>9

(* Requests never wait for each other in a cycle: plain locks, shared ones *)
(* and the queue behind an exclusive request, for any mix of commands,     *)
(* writers, closes and purges.                                             *)
THEOREM NoDeadlock == Spec => []NoWaitCycle
<1>1. IInv => NoWaitCycle
  <2> SUFFICES ASSUME IInv, NEW r \in Requests, WaitCycle(r) PROVE FALSE
    BY DEF NoWaitCycle
  <2>1. PICK S \in SUBSET Requests : r \in S /\ \A q \in S : Blockers(q) \cap S # {}
    BY DEF WaitCycle
  <2> QED BY <2>1, NoCycle
<1> QED BY InitIInv, NextIInv, <1>1, PTL DEF Spec
=============================================================================
