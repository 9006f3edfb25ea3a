------------------------ MODULE ChatroomTranscriptProofs ------------------------
(***************************************************************************)
(* The transcript of a room, proved for any number of members, requests    *)
(* and moderators and any size of the window.  Whoever changes the room    *)
(* moves its revision on, so a POST or a freeze that finds the revision it *)
(* had read finds the room it had read: the freeze it checked is still in  *)
(* force, and the window it writes back is still the end of the archive.   *)
(* A message is new to every page and to the archive until its POST is     *)
(* sent, which keeps ids from being stored twice when old transcripts come *)
(* again.                                                                  *)
(***************************************************************************)
EXTENDS ChatroomTranscript, FunctionTheorems, FiniteSetTheorems, TLAPS

\* No element twice.
Distinct(s) == \A i, j \in DOMAIN s : s[i] = s[j] => i = j

\* The rank of a place among some: how many are up to it.
LEMMA RankFacts ==
  ASSUME NEW n \in Nat, NEW S \in SUBSET (1..n)
  PROVE  /\ Cardinality(S) \in Nat
         /\ \A x \in S : Cardinality({j \in S : j <= x}) \in 1..Cardinality(S)
         /\ \A x, y \in S : Cardinality({j \in S : j <= x}) = Cardinality({j \in S : j <= y}) => x = y
         /\ \A k \in 1..Cardinality(S) : \E x \in S : Cardinality({j \in S : j <= x}) = k
<1> DEFINE size == Cardinality(S)
           below(x) == {j \in S : j <= x}
           rank == [x \in S |-> Cardinality(below(x))]
<1>1. IsFiniteSet(S) /\ size \in Nat /\ \A x \in S : x \in Nat
  <2>1. IsFiniteSet(1..n)
    BY FS_Interval
  <2>2. IsFiniteSet(S)
    BY <2>1, FS_Subset
  <2> QED BY <2>2, FS_CardinalityType
<1>2. \A x \in S : IsFiniteSet(below(x)) /\ Cardinality(below(x)) \in 1..size
  <2> TAKE x \in S
  <2>1. below(x) \in SUBSET S /\ x \in below(x)
    BY <1>1
  <2>2. IsFiniteSet(below(x)) /\ Cardinality(below(x)) <= size /\ Cardinality(below(x)) \in Nat
    BY <1>1, <2>1, FS_Subset, FS_CardinalityType
  <2>3. Cardinality(below(x)) # 0
    BY <2>1, <2>2, FS_EmptySet
  <2> QED BY <1>1, <2>2, <2>3
<1>3. ASSUME NEW x \in S, NEW y \in S, x < y
      PROVE  Cardinality(below(x)) < Cardinality(below(y))
  <2>1. below(x) \in SUBSET below(y) /\ y \in below(y) /\ y \notin below(x)
    <3>1. \A z \in S : z <= x => z <= y
      BY <1>1, <1>3
    <3>2. y <= y /\ ~(y <= x)
      BY <1>1, <1>3
    <3> QED BY <3>1, <3>2
  <2>2. /\ Cardinality(below(x)) <= Cardinality(below(y))
        /\ Cardinality(below(x)) = Cardinality(below(y)) => below(x) = below(y)
    BY <1>2, <2>1, FS_Subset
  <2> HIDE DEF below
  <2> QED BY <1>2, <2>1, <2>2
<1> HIDE DEF below
<1>4. \A x, y \in S : Cardinality(below(x)) = Cardinality(below(y)) => x = y
  <2> SUFFICES ASSUME NEW x \in S, NEW y \in S, Cardinality(below(x)) = Cardinality(below(y))
               PROVE  x = y
    OBVIOUS
  <2>1. ~(x < y) /\ ~(y < x)
    BY <1>2, <1>3
  <2> QED BY <1>1, <2>1
<1>5. rank \in Injection(S, 1..size)
  <2>1. rank \in [S -> 1..size] /\ \A x, y \in S : rank[x] = rank[y] => x = y
    BY <1>2, <1>4
  <2> HIDE DEF rank
  <2> QED BY <2>1, Fun_IsInj
<1>6. rank \in Surjection(S, 1..size)
  <2>1. IsFiniteSet(1..size) /\ Cardinality(1..size) = size
    BY <1>1, FS_Interval
  <2> HIDE DEF rank
  <2> QED BY <1>1, <1>5, <2>1, FS_Injection
<1>7. \A k \in 1..size : \E x \in S : Cardinality(below(x)) = k
  <2>1. \A k \in 1..size : \E x \in S : rank[x] = k
    BY <1>6 DEF Surjection
  <2> QED BY <2>1
<1> QED BY <1>1, <1>2, <1>4, <1>7 DEF below

\* Picked keeps the type of the sequence and takes exactly the elements at the
\* places, each once if each was there once.
LEMMA PickedFacts ==
  ASSUME NEW M, NEW s \in Seq(M), NEW places \in SUBSET (DOMAIN s)
  PROVE  /\ Picked(s, places) \in Seq(M)
         /\ ToSet(Picked(s, places)) = {s[i] : i \in places}
         /\ Distinct(s) => Distinct(Picked(s, places))
<1> DEFINE size == Cardinality(places)
           rank(x) == Cardinality({j \in places : j <= x})
           place(k) == CHOOSE i \in places : rank(i) = k
           f == Picked(s, places)
<1>1. /\ size \in Nat
      /\ \A x \in places : rank(x) \in 1..size
      /\ \A x, y \in places : rank(x) = rank(y) => x = y
      /\ \A k \in 1..size : \E x \in places : rank(x) = k
  <2>1. Len(s) \in Nat /\ places \in SUBSET (1..Len(s))
    OBVIOUS
  <2> HIDE DEF rank
  <2> QED BY <2>1, RankFacts DEF rank
<1>2. f = [k \in 1..size |-> s[place(k)]]
  BY DEF Picked
<1> HIDE DEF f, rank
<1>3. \A k \in 1..size : place(k) \in places /\ rank(place(k)) = k
  BY <1>1
<1>4. \A x \in places : place(rank(x)) = x
  BY <1>1, <1>3
<1>5. \A i \in places : i \in DOMAIN s /\ s[i] \in M
  OBVIOUS
<1> HIDE DEF place, size
<1>6. f \in Seq(M) /\ DOMAIN f = 1..size
  BY <1>1, <1>2, <1>3, <1>5
<1>7. ToSet(f) = {s[i] : i \in places}
  <2>1. \A k \in DOMAIN f : f[k] \in {s[i] : i \in places}
    BY <1>2, <1>3, <1>6
  <2>2. \A i \in places : rank(i) \in DOMAIN f /\ f[rank(i)] = s[i]
    BY <1>1, <1>2, <1>4, <1>6
  <2> QED BY <2>1, <2>2 DEF ToSet
<1>8. Distinct(s) => Distinct(f)
  BY <1>2, <1>3, <1>5, <1>6 DEF Distinct
<1> QED BY <1>6, <1>7, <1>8 DEF f

\* The same for leaving elements out.
LEMMA WithoutFacts ==
  ASSUME NEW M, NEW s \in Seq(M), NEW gone
  PROVE  /\ Without(s, gone) \in Seq(M)
         /\ ToSet(Without(s, gone)) = ToSet(s) \ gone
         /\ Distinct(s) => Distinct(Without(s, gone))
<1> DEFINE places == {i \in DOMAIN s : s[i] \notin gone}
<1>1. /\ Picked(s, places) \in Seq(M)
      /\ ToSet(Picked(s, places)) = {s[i] : i \in places}
      /\ Distinct(s) => Distinct(Picked(s, places))
  BY PickedFacts
<1>2. {s[i] : i \in places} = ToSet(s) \ gone
  BY DEF ToSet
<1> QED BY <1>1, <1>2 DEF Without

\* What a concatenation holds, where its first part stays, and when its elements
\* are distinct.
LEMMA ConcatFacts ==
  ASSUME NEW M, NEW s \in Seq(M), NEW t \in Seq(M)
  PROVE  /\ s \o t \in Seq(M) /\ ToSet(s \o t) = ToSet(s) \cup ToSet(t)
         /\ Len(s \o t) = Len(s) + Len(t)
         /\ \A i \in DOMAIN s : i \in DOMAIN (s \o t) /\ (s \o t)[i] = s[i]
         /\ Distinct(s) /\ Distinct(t) /\ ToSet(s) \cap ToSet(t) = {} => Distinct(s \o t)
<1> DEFINE u == s \o t
<1>1. /\ Len(s) \in Nat /\ Len(t) \in Nat /\ DOMAIN s = 1..Len(s) /\ DOMAIN t = 1..Len(t)
      /\ u \in Seq(M) /\ Len(u) = Len(s) + Len(t) /\ DOMAIN u = 1..(Len(s) + Len(t))
      /\ \A i \in 1..Len(s) : u[i] = s[i]
      /\ \A i \in 1..(Len(s) + Len(t)) : i > Len(s) => u[i] = t[i - Len(s)]
  OBVIOUS
<1> HIDE DEF u
<1>2. \A i \in 1..(Len(s) + Len(t)) : i \in 1..Len(s) \/ (i > Len(s) /\ i - Len(s) \in 1..Len(t))
  BY <1>1
<1>3. \A j \in 1..Len(t) : /\ Len(s) + j \in 1..(Len(s) + Len(t)) /\ Len(s) + j > Len(s)
                           /\ u[Len(s) + j] = t[j]
  <2> TAKE j \in 1..Len(t)
  <2>1. Len(s) + j \in 1..(Len(s) + Len(t)) /\ Len(s) + j > Len(s) /\ (Len(s) + j) - Len(s) = j
    BY <1>1
  <2>2. u[Len(s) + j] = t[(Len(s) + j) - Len(s)]
    BY <1>1, <2>1
  <2> QED BY <2>1, <2>2
<1>4. \A i \in 1..Len(s) : i \in 1..(Len(s) + Len(t))
  BY <1>1
<1>5. ToSet(u) = ToSet(s) \cup ToSet(t)
  <2>1. \A i \in DOMAIN u : u[i] \in ToSet(s) \cup ToSet(t)
    BY <1>1, <1>2 DEF ToSet
  <2>2. \A i \in DOMAIN s : s[i] \in ToSet(u)
    BY <1>1, <1>4 DEF ToSet
  <2>3. \A j \in DOMAIN t : t[j] \in ToSet(u)
    BY <1>1, <1>3 DEF ToSet
  <2> QED BY <2>1, <2>2, <2>3 DEF ToSet
<1>6. ASSUME Distinct(s), Distinct(t), ToSet(s) \cap ToSet(t) = {}
      PROVE  Distinct(u)
  <2> SUFFICES ASSUME NEW i \in 1..(Len(s) + Len(t)), NEW j \in 1..(Len(s) + Len(t)), u[i] = u[j]
               PROVE  i = j
    BY <1>1 DEF Distinct
  <2>1. CASE i \in 1..Len(s) /\ j \in 1..Len(s)
    BY <1>1, <1>6, <2>1 DEF Distinct
  <2>2. CASE ~(i \in 1..Len(s)) /\ ~(j \in 1..Len(s))
    <3>1. i - Len(s) \in 1..Len(t) /\ j - Len(s) \in 1..Len(t) /\ i > Len(s) /\ j > Len(s)
      BY <1>2, <2>2
    <3>2. t[i - Len(s)] = t[j - Len(s)]
      BY <1>1, <3>1
    <3>3. i - Len(s) = j - Len(s)
      BY <1>1, <1>6, <3>1, <3>2 DEF Distinct
    <3> QED BY <1>1, <3>3
  <2>3. ASSUME NEW a \in 1..(Len(s) + Len(t)), NEW b \in 1..(Len(s) + Len(t)),
               a \in 1..Len(s), ~(b \in 1..Len(s)), u[a] = u[b]
        PROVE  FALSE
    <3>1. b > Len(s) /\ b - Len(s) \in 1..Len(t)
      BY <1>2, <2>3
    <3>2. u[a] \in ToSet(s) /\ u[b] \in ToSet(t)
      BY <1>1, <2>3, <3>1 DEF ToSet
    <3> QED BY <1>6, <2>3, <3>2
  <2> QED BY <2>1, <2>2, <2>3
<1> QED BY <1>1, <1>4, <1>5, <1>6 DEF u
-----------------------------------------------------------------------------
\* The ids of stored messages in their order.
IdSeq(entries) == [i \in DOMAIN entries |-> entries[i].id]
\* No message is stored twice.
UniqueIds(entries) == \A i, j \in DOMAIN entries : entries[i].id = entries[j].id => i = j

\* Ids are the elements of the sequence of ids.
LEMMA IdSeqFacts ==
  ASSUME NEW entries \in Seq(Entries)
  PROVE  /\ IdSeq(entries) \in Seq(Messages) /\ DOMAIN IdSeq(entries) = DOMAIN entries
         /\ \A i \in DOMAIN entries : IdSeq(entries)[i] = entries[i].id
         /\ Ids(entries) = ToSet(IdSeq(entries)) /\ Ids(entries) \subseteq Messages
         /\ UniqueIds(entries) <=> Distinct(IdSeq(entries))
<1>1. /\ Len(entries) \in Nat /\ DOMAIN entries = 1..Len(entries)
      /\ \A i \in 1..Len(entries) : entries[i].id \in Messages
  <2>1. \A e \in Entries : e.id \in Messages
    BY DEF Entries
  <2>2. \A i \in 1..Len(entries) : entries[i] \in Entries
    OBVIOUS
  <2> QED BY <2>1, <2>2
<1> DEFINE f == IdSeq(entries)
<1>2. DOMAIN f = 1..Len(entries) /\ \A i \in 1..Len(entries) : f[i] = entries[i].id
  BY <1>1 DEF IdSeq
<1>3. f = [i \in 1..Len(entries) |-> f[i]]
  BY <1>1 DEF IdSeq
<1> HIDE DEF f
<1>4. f \in Seq(Messages)
  BY <1>1, <1>2, <1>3
<1>5. Ids(entries) = ToSet(f) /\ Ids(entries) \subseteq Messages
  BY <1>1, <1>2 DEF Ids, ToSet
<1>6. UniqueIds(entries) <=> Distinct(f)
  BY <1>1, <1>2 DEF UniqueIds, Distinct
<1> QED BY <1>1, <1>2, <1>4, <1>5, <1>6 DEF f

\* An append stores every message it has, once, and leaves what was stored as it
\* was, at its place (write in learning-chatroom-transcript-postgres-store.ts).
LEMMA ArchivedFacts ==
  ASSUME NEW entries \in Seq(Entries), NEW msgs \in Seq(Messages), Distinct(msgs)
  PROVE  /\ Archived(entries, msgs) \in Seq(Entries)
         /\ Ids(Archived(entries, msgs)) = Ids(entries) \cup ToSet(msgs)
         /\ \A i \in DOMAIN entries : /\ i \in DOMAIN Archived(entries, msgs)
                                      /\ Archived(entries, msgs)[i] = entries[i]
         /\ UniqueIds(entries) => UniqueIds(Archived(entries, msgs))
<1> DEFINE new == Without(msgs, Ids(entries))
           added == [i \in DOMAIN new |-> Entry(new[i])]
           all == entries \o added
<1>1. new \in Seq(Messages) /\ ToSet(new) = ToSet(msgs) \ Ids(entries) /\ Distinct(new)
  BY WithoutFacts
<1> HIDE DEF new
<1>2. /\ added \in Seq(Entries) /\ DOMAIN added = DOMAIN new
      /\ \A i \in DOMAIN new : added[i].id = new[i]
  <2>1. Len(new) \in Nat /\ DOMAIN new = 1..Len(new) /\ \A i \in 1..Len(new) : new[i] \in Messages
    BY <1>1
  <2>2. \A m \in Messages : Entry(m) \in Entries /\ Entry(m).id = m
    BY DEF Entry, Entries, Statuses
  <2> QED BY <2>1, <2>2
<1> HIDE DEF added
<1>3. IdSeq(added) = new
  <2>1. new = [i \in DOMAIN new |-> new[i]]
    BY <1>1
  <2> QED BY <1>2, <2>1 DEF IdSeq
<1>4. /\ all \in Seq(Entries) /\ Len(all) = Len(entries) + Len(added)
      /\ \A i \in DOMAIN entries : i \in DOMAIN all /\ all[i] = entries[i]
      /\ ToSet(all) = ToSet(entries) \cup ToSet(added)
  BY <1>2, ConcatFacts
<1>5. IdSeq(all) = IdSeq(entries) \o new
  <2>1. /\ Len(entries) \in Nat /\ Len(new) \in Nat /\ DOMAIN entries = 1..Len(entries)
        /\ DOMAIN added = 1..Len(new) /\ Len(added) = Len(new)
        /\ IdSeq(entries) \in Seq(Messages) /\ Len(IdSeq(entries)) = Len(entries)
        /\ \A i \in 1..Len(entries) : IdSeq(entries)[i] = entries[i].id
    BY <1>1, <1>2, IdSeqFacts
  <2>2. \A i \in 1..(Len(entries) + Len(new)) :
          all[i].id = IF i <= Len(entries) THEN entries[i].id ELSE new[i - Len(entries)]
    <3> TAKE i \in 1..(Len(entries) + Len(new))
    <3>1. all[i] = IF i <= Len(entries) THEN entries[i] ELSE added[i - Len(entries)]
      <4>1. Len(entries) \in Nat /\ Len(added) = Len(new) /\ added \in Seq(Entries)
        BY <1>2, <2>1
      <4> QED BY <4>1
    <3>2. ~(i <= Len(entries)) => i - Len(entries) \in 1..Len(new)
      BY <2>1
    <3> QED BY <1>2, <2>1, <3>1, <3>2
  <2>3. IdSeq(all) = [i \in 1..(Len(entries) + Len(new)) |-> all[i].id]
    BY <1>4, <2>1 DEF IdSeq
  <2>4. IdSeq(entries) \o new = [i \in 1..(Len(entries) + Len(new)) |->
           IF i <= Len(entries) THEN entries[i].id ELSE new[i - Len(entries)]]
    <3>1. PICK old \in Seq(Messages) : old = IdSeq(entries)
      BY <2>1
    <3>2. Len(old) = Len(entries) /\ \A i \in 1..Len(entries) : old[i] = entries[i].id
      BY <2>1, <3>1
    <3> DEFINE u == old \o new
    <3>3. /\ Len(old) \in Nat /\ Len(new) \in Nat
          /\ u \in Seq(Messages) /\ DOMAIN u = 1..(Len(old) + Len(new))
          /\ \A i \in 1..Len(old) : u[i] = old[i]
          /\ \A i \in 1..(Len(old) + Len(new)) : i > Len(old) => u[i] = new[i - Len(old)]
      <4>1. new \in Seq(Messages)
        BY <1>1
      <4> QED BY <4>1
    <3> HIDE DEF u
    <3>4. u = [i \in 1..(Len(old) + Len(new)) |-> u[i]]
      BY <3>3
    <3>5. \A i \in 1..(Len(entries) + Len(new)) : i <= Len(entries) => i \in 1..Len(entries)
      BY <2>1
    <3>6. u = [i \in 1..(Len(entries) + Len(new)) |->
                 IF i <= Len(entries) THEN entries[i].id ELSE new[i - Len(entries)]]
      <4>1. \A i \in 1..(Len(entries) + Len(new)) :
              u[i] = IF i <= Len(entries) THEN entries[i].id ELSE new[i - Len(entries)]
        <5> TAKE i \in 1..(Len(entries) + Len(new))
        <5>1. CASE i <= Len(entries)
          BY <3>2, <3>3, <3>5, <5>1
        <5>2. CASE ~(i <= Len(entries))
          BY <2>1, <3>2, <3>3, <5>2
        <5> QED BY <5>1, <5>2
      <4>2. u = [i \in 1..(Len(entries) + Len(new)) |-> u[i]]
        BY <3>2, <3>4
      <4> HIDE DEF Messages
      <4> QED BY <4>1, <4>2
    <3> QED BY <3>1, <3>6 DEF u
  <2> HIDE DEF all
  <2> QED BY <2>2, <2>3, <2>4
<1> HIDE DEF all
<1>6. Ids(all) = Ids(entries) \cup ToSet(msgs)
  <2>1. ToSet(IdSeq(entries) \o new) = ToSet(IdSeq(entries)) \cup ToSet(new)
    BY <1>1, IdSeqFacts, ConcatFacts
  <2>2. Ids(all) = ToSet(IdSeq(all)) /\ Ids(entries) = ToSet(IdSeq(entries))
    BY <1>4, IdSeqFacts
  <2> QED BY <1>1, <1>5, <2>1, <2>2
<1>7. UniqueIds(entries) => UniqueIds(all)
  <2> SUFFICES ASSUME UniqueIds(entries) PROVE UniqueIds(all)
    OBVIOUS
  <2>1. IdSeq(entries) \in Seq(Messages) /\ Distinct(IdSeq(entries)) /\ Ids(entries) = ToSet(IdSeq(entries))
    BY IdSeqFacts
  <2>2. ToSet(IdSeq(entries)) \cap ToSet(new) = {}
    BY <1>1, <2>1
  <2>3. Distinct(IdSeq(entries) \o new)
    BY <1>1, <2>1, <2>2, ConcatFacts
  <2> QED BY <1>4, <1>5, <2>3, IdSeqFacts
<1>8. Archived(entries, msgs) = all
  BY DEF Archived, all, added, new
<1> QED BY <1>4, <1>6, <1>7, <1>8

\* The window shows some entries of the archive, each at a place of its own.
LEMMA LatestFacts ==
  ASSUME NEW entries \in Seq(Entries)
  PROVE  LET from == IF Len(entries) > MaxMessages THEN Len(entries) - MaxMessages ELSE 0
             window == Latest(entries)
         IN /\ from \in 0..Len(entries)
            /\ window \in Seq(Entries) /\ Len(window) = Len(entries) - from
            /\ \A i \in 1..Len(window) : i + from \in 1..Len(entries) /\ window[i] = entries[i + from]
            /\ Ids(window) \subseteq Ids(entries)
            /\ UniqueIds(entries) => UniqueIds(window)
<1> DEFINE from == IF Len(entries) > MaxMessages THEN Len(entries) - MaxMessages ELSE 0
           window == Latest(entries)
           n == Len(entries)
<1>1. n \in Nat /\ MaxMessages \in Nat \ {0} /\ DOMAIN entries = 1..n
  BY BoundsAssumption
<1>2. from \in 0..n
  BY <1>1
<1>3. window = SubSeq(entries, from + 1, n)
  <2>1. (IF n > MaxMessages THEN n - MaxMessages + 1 ELSE 1) = from + 1
    BY <1>1
  <2> QED BY <2>1 DEF Latest
<1> HIDE DEF from, window
<1>4. \A i \in 1..(n - from) : i + from \in 1..n /\ (from + 1) + i - 1 = i + from
  BY <1>1, <1>2
<1>5. window = [i \in 1..(n - from) |-> entries[i + from]]
  <2>1. n - (from + 1) + 1 = n - from
    BY <1>1, <1>2
  <2>2. window = [i \in 1..(n - (from + 1) + 1) |-> entries[(from + 1) + i - 1]]
    BY <1>1, <1>2, <1>3
  <2> QED BY <1>4, <2>1, <2>2
<1>6. /\ window \in Seq(Entries) /\ Len(window) = n - from /\ DOMAIN window = 1..(n - from)
      /\ \A i \in 1..(n - from) : window[i] = entries[i + from]
  BY <1>1, <1>2, <1>4, <1>5
<1>7. Ids(window) \subseteq Ids(entries)
  BY <1>1, <1>4, <1>6 DEF Ids
<1>8. UniqueIds(entries) => UniqueIds(window)
  <2> SUFFICES ASSUME UniqueIds(entries), NEW i \in 1..(n - from), NEW j \in 1..(n - from),
                      window[i].id = window[j].id
               PROVE  i = j
    BY <1>6 DEF UniqueIds
  <2>1. i + from = j + from
    BY <1>1, <1>4, <1>6 DEF UniqueIds
  <2> QED BY <1>1, <1>2, <2>1
<1> QED BY <1>2, <1>4, <1>6, <1>7, <1>8 DEF from, window

\* A verdict changes no id and no length.
LEMMA MarkedFacts ==
  ASSUME NEW entries \in Seq(Entries), NEW m, NEW status \in Statuses
  PROVE  /\ Marked(entries, m, status) \in Seq(Entries)
         /\ Len(Marked(entries, m, status)) = Len(entries)
         /\ \A i \in DOMAIN entries : Marked(entries, m, status)[i].id = entries[i].id
         /\ \A i \in DOMAIN entries :
              Marked(entries, m, status)[i] =
                   IF entries[i].id = m THEN [entries[i] EXCEPT !.moderation = status]
                   ELSE entries[i]
<1>1. \A e \in Entries : /\ [e EXCEPT !.moderation = status] \in Entries
                         /\ [e EXCEPT !.moderation = status].id = e.id
  BY DEF Entries
<1>2. \A i \in DOMAIN entries : entries[i] \in Entries
  OBVIOUS
<1> DEFINE f == Marked(entries, m, status)
<1>3. /\ Len(entries) \in Nat /\ DOMAIN entries = 1..Len(entries)
      /\ f = [i \in 1..Len(entries) |->
                IF entries[i].id = m THEN [entries[i] EXCEPT !.moderation = status] ELSE entries[i]]
  BY DEF Marked
<1> HIDE DEF f
<1>4. \A i \in 1..Len(entries) :
        /\ f[i] = IF entries[i].id = m THEN [entries[i] EXCEPT !.moderation = status] ELSE entries[i]
        /\ f[i] \in Entries /\ f[i].id = entries[i].id
  BY <1>1, <1>2, <1>3
<1>5. f \in Seq(Entries) /\ Len(f) = Len(entries)
  BY <1>3, <1>4
<1> QED BY <1>3, <1>4, <1>5 DEF f

\* A verdict on the window is the window of the verdict on the archive:
\* moderateArchive may change both on their own.
LEMMA MarkedLatest ==
  ASSUME NEW entries \in Seq(Entries), NEW m, NEW status \in Statuses
  PROVE  Latest(Marked(entries, m, status)) = Marked(Latest(entries), m, status)
<1> DEFINE marked == Marked(entries, m, status)
           window == Latest(entries)
           from == IF Len(entries) > MaxMessages THEN Len(entries) - MaxMessages ELSE 0
<1>1. /\ marked \in Seq(Entries) /\ Len(marked) = Len(entries) /\ DOMAIN entries = 1..Len(entries)
      /\ \A i \in 1..Len(entries) :
           marked[i] = IF entries[i].id = m THEN [entries[i] EXCEPT !.moderation = status]
                       ELSE entries[i]
  BY MarkedFacts
<1>2. /\ window \in Seq(Entries) /\ Len(window) = Len(entries) - from
      /\ \A i \in 1..Len(window) : i + from \in 1..Len(entries) /\ window[i] = entries[i + from]
  BY LatestFacts
<1> HIDE DEF marked
<1>3. /\ Latest(marked) \in Seq(Entries) /\ Len(Latest(marked)) = Len(window)
      /\ \A i \in 1..Len(window) : Latest(marked)[i] = marked[i + from]
  <2> DEFINE start == IF Len(marked) > MaxMessages THEN Len(marked) - MaxMessages ELSE 0
  <2>1. /\ Latest(marked) \in Seq(Entries) /\ Len(Latest(marked)) = Len(marked) - start
        /\ \A i \in 1..Len(Latest(marked)) : Latest(marked)[i] = marked[i + start]
    BY <1>1, LatestFacts
  <2>2. start = from
    BY <1>1
  <2> HIDE DEF start, from, window
  <2>3. Len(Latest(marked)) = Len(window)
    BY <1>1, <1>2, <2>1, <2>2
  <2> QED BY <2>1, <2>2, <2>3
<1>4. /\ Marked(window, m, status) \in Seq(Entries) /\ Len(Marked(window, m, status)) = Len(window)
      /\ \A i \in 1..Len(window) :
           Marked(window, m, status)[i] =
             IF window[i].id = m THEN [window[i] EXCEPT !.moderation = status] ELSE window[i]
  BY <1>2, MarkedFacts
<1> HIDE DEF window, from
<1>5. \A i \in 1..Len(window) : Latest(marked)[i] = Marked(window, m, status)[i]
  <2> TAKE i \in 1..Len(window)
  <2>1. i + from \in 1..Len(entries) /\ window[i] = entries[i + from]
    BY <1>2
  <2>2. Latest(marked)[i] = marked[i + from]
    BY <1>3
  <2>3. marked[i + from] = IF entries[i + from].id = m
                           THEN [entries[i + from] EXCEPT !.moderation = status]
                           ELSE entries[i + from]
    BY <1>1, <2>1
  <2>4. Marked(window, m, status)[i] =
          IF window[i].id = m THEN [window[i] EXCEPT !.moderation = status] ELSE window[i]
    BY <1>4
  <2> QED BY <2>1, <2>2, <2>3, <2>4
<1>6. Latest(marked) = Marked(window, m, status)
  BY <1>3, <1>4, <1>5
<1> QED BY <1>6 DEF marked, window

\* A row that is written again changes no message, when its window was the end of
\* the archive.
LEMMA JudgedFacts ==
  ASSUME NEW entries \in Seq(Entries), NEW written \in Seq(Entries)
  PROVE  /\ Judged(entries, written) \in Seq(Entries)
         /\ Len(Judged(entries, written)) = Len(entries)
         /\ \A i \in DOMAIN entries : Judged(entries, written)[i].id = entries[i].id
         /\ UniqueIds(entries) /\ written = Latest(entries) => Judged(entries, written) = entries
<1> DEFINE f == Judged(entries, written)
           spoken(i) == \E j \in DOMAIN written :
                          written[j].id = entries[i].id /\ written[j].moderation # "none"
           word(i) == CHOOSE e \in ToSet(written) : e.id = entries[i].id
<1>1. /\ Len(entries) \in Nat /\ DOMAIN entries = 1..Len(entries)
      /\ f = [i \in 1..Len(entries) |-> IF spoken(i) THEN word(i) ELSE entries[i]]
      /\ \A i \in 1..Len(entries) : entries[i] \in Entries
  BY DEF Judged
<1> HIDE DEF f
<1>2. \A i \in 1..Len(entries) :
        spoken(i) => word(i) \in ToSet(written) /\ word(i).id = entries[i].id
  <2> TAKE i \in 1..Len(entries)
  <2> HAVE spoken(i)
  <2>1. \E e \in ToSet(written) : e.id = entries[i].id
    BY DEF ToSet
  <2> QED BY <2>1
<1>3. \A e \in ToSet(written) : e \in Entries
  BY DEF ToSet
<1> HIDE DEF spoken, word
<1>4. \A i \in 1..Len(entries) : f[i] \in Entries /\ f[i].id = entries[i].id
  BY <1>1, <1>2, <1>3
<1>5. f \in Seq(Entries) /\ Len(f) = Len(entries)
  BY <1>1, <1>4
<1>6. ASSUME UniqueIds(entries), written = Latest(entries)
      PROVE  f = entries
  <2>1. ASSUME NEW i \in 1..Len(entries), spoken(i) PROVE word(i) = entries[i]
    <3>1. word(i) \in ToSet(written) /\ word(i).id = entries[i].id
      BY <1>2, <2>1
    <3>2. PICK j \in DOMAIN written : word(i) = written[j]
      BY <3>1 DEF ToSet
    <3>3. PICK k \in 1..Len(entries) : written[j] = entries[k]
      <4> DEFINE from == IF Len(entries) > MaxMessages THEN Len(entries) - MaxMessages ELSE 0
                 window == Latest(entries)
      <4>1. /\ window \in Seq(Entries)
            /\ \A k_1 \in 1..Len(window) : /\ k_1 + from \in 1..Len(entries)
                                           /\ window[k_1] = entries[k_1 + from]
        BY LatestFacts
      <4>2. j \in 1..Len(window) /\ written = window
        BY <1>6, <3>2, <4>1
      <4> HIDE DEF from, window
      <4> QED BY <4>1, <4>2
    <3> QED BY <1>1, <1>6, <3>1, <3>2, <3>3 DEF UniqueIds
  <2>2. entries = [i \in 1..Len(entries) |-> entries[i]]
    BY <1>1
  <2> QED BY <1>1, <2>1, <2>2
<1> QED BY <1>1, <1>4, <1>5, <1>6 DEF f

\* A read brings messages of the window, each once.
LEMMA VisibleFacts ==
  ASSUME NEW entries \in Seq(Entries)
  PROVE  /\ Visible(entries) \in Seq(Messages) /\ ToSet(Visible(entries)) \subseteq Ids(entries)
         /\ UniqueIds(entries) => Distinct(Visible(entries))
<1> DEFINE places == {i \in DOMAIN entries : entries[i].moderation # "hidden"}
<1>1. /\ IdSeq(entries) \in Seq(Messages) /\ DOMAIN IdSeq(entries) = DOMAIN entries
      /\ \A i \in DOMAIN entries : IdSeq(entries)[i] = entries[i].id
      /\ UniqueIds(entries) <=> Distinct(IdSeq(entries))
  BY IdSeqFacts
<1>2. Visible(entries) = Picked(IdSeq(entries), places)
  BY DEF Visible, IdSeq
<1>3. /\ Picked(IdSeq(entries), places) \in Seq(Messages)
      /\ ToSet(Picked(IdSeq(entries), places)) = {IdSeq(entries)[i] : i \in places}
      /\ Distinct(IdSeq(entries)) => Distinct(Picked(IdSeq(entries), places))
  BY <1>1, PickedFacts
<1>4. {IdSeq(entries)[i] : i \in places} \subseteq Ids(entries)
  BY <1>1 DEF Ids
<1> QED BY <1>1, <1>2, <1>3, <1>4

\* A page that merges a read shows what it had or read, each once
\* (mergeRoomTranscript).
LEMMA MergedFacts ==
  ASSUME NEW current \in Seq(Messages), NEW incoming \in Seq(Messages), NEW previous,
         Distinct(current), Distinct(incoming)
  PROVE  /\ Merged(current, incoming, previous) \in Seq(Messages)
         /\ ToSet(Merged(current, incoming, previous)) \subseteq ToSet(current) \cup ToSet(incoming)
         /\ Distinct(Merged(current, incoming, previous))
<1> DEFINE read == {i \in DOMAIN current : current[i] \in ToSet(incoming)}
           tail == {i \in DOMAIN current : current[i] \notin previous /\ \A j \in read : j < i}
           rest == Picked(current, tail)
<1>1. rest \in Seq(Messages) /\ ToSet(rest) = {current[i] : i \in tail} /\ Distinct(rest)
  BY PickedFacts
<1>2. {current[i] : i \in tail} \subseteq ToSet(current)
  BY DEF ToSet
<1>3. ToSet(incoming) \cap {current[i] : i \in tail} = {}
  <2>1. \A i \in tail : i \notin read
    OBVIOUS
  <2> HIDE DEF tail
  <2>2. tail \subseteq DOMAIN current
    BY DEF tail
  <2> QED BY <2>1, <2>2
<1>4. Merged(current, incoming, previous) = IF incoming = <<>> THEN current ELSE incoming \o rest
  BY DEF Merged
<1> HIDE DEF rest, tail
<1>5. /\ incoming \o rest \in Seq(Messages)
      /\ ToSet(incoming \o rest) = ToSet(incoming) \cup ToSet(rest)
      /\ Distinct(incoming \o rest)
  BY <1>1, <1>3, ConcatFacts
<1> QED BY <1>1, <1>2, <1>4, <1>5
-----------------------------------------------------------------------------
\* What TypeOK says of requests, moderators and stages.
Requests == [tab: Tabs, sent: Posts \cup {"none"}, sends: Seq(Posts),
             turns: Seq(Turns), row: Rooms, attempt: 0..MaxAttempts]
Deeds == [at: {"idle", "read", "done", "refused"}, freeze: BOOLEAN, row: Rooms, attempt: 0..2]
Stages == {"idle", "read", "done", "frozen", "refused"}

\* The messages that were sent.
Spoken == {p \in Posts : at[p] # "idle"}
Heard == Spoken \cup Turns

\* The room: its window is the end of the archive, which has only what was said.
RoomInv ==
  /\ UniqueIds(archive)
  /\ room.window = Latest(archive)
  /\ Ids(archive) \subseteq Heard

\* A page shows only what was said, nothing twice.
ScreenInv(t) == Distinct(screen[t]) /\ ToSet(screen[t]) \subseteq Heard
\* Neither has an answer that is on its way to one.
AnswerInv(t) == \A msgs \in answer[t] :
  msgs \in Seq(Messages) /\ Distinct(msgs) /\ ToSet(msgs) \subseteq Heard

\* A POST in the store goes by a row at most as new as the room, that had nothing
\* which is not in the archive, in which its page may speak, and which is right
\* about the freeze while the revision is the same.
PostInv(p) ==
  /\ Distinct(post[p].sends) /\ ToSet(post[p].sends) \subseteq Spoken
  /\ Distinct(post[p].turns)
  /\ at[p] = "read" =>
       /\ Ids(post[p].row.window) \subseteq Ids(archive)
       /\ post[p].row.rev <= room.rev
       /\ post[p].row.rev = room.rev => post[p].row.frozen = room.frozen
       /\ MaySpeak(post[p].tab, post[p].row)
  /\ at[p] = "done" => ToSet(post[p].sends) \cup ToSet(post[p].turns) \subseteq Ids(archive)

\* A moderator's row is at most as new as the room, and right about the window
\* while the revision is the same.
DeedInv(d) ==
  deed[d].at = "read" =>
    /\ deed[d].row.rev <= room.rev
    /\ deed[d].row.rev = room.rev => deed[d].row.window = room.window

\* The inductive invariant.
IInv ==
  /\ TypeOK
  /\ RoomInv
  /\ \A t \in Tabs : ScreenInv(t) /\ AnswerInv(t)
  /\ \A p \in Posts : PostInv(p)
  /\ \A d \in Moderators : DeedInv(d)

\* A step that changes the room moves its revision on, keeps every message and
\* renews the window.
RoomMoves ==
  /\ room'.rev = room.rev + 1
  /\ UniqueIds(archive') /\ room'.window = Latest(archive')
  /\ Ids(archive) \subseteq Ids(archive') /\ Ids(archive') \subseteq Heard'
-----------------------------------------------------------------------------
\* A sequence whose elements are in a set is a sequence over the set.
LEMMA SeqOver ==
  ASSUME NEW M, NEW N, NEW s \in Seq(M), ToSet(s) \subseteq N
  PROVE  s \in Seq(N)
<1>1. Len(s) \in Nat /\ s = [i \in 1..Len(s) |-> s[i]] /\ \A i \in 1..Len(s) : s[i] \in N
  BY DEF ToSet
<1> QED BY <1>1

\* The empty sequence.
LEMMA NothingSent ==
  ASSUME NEW M, NEW s, s = <<>>
  PROVE  s \in Seq(M) /\ Distinct(s) /\ ToSet(s) = {}
<1>1. s \in Seq(M) /\ Len(s) = 0
  OBVIOUS
<1>2. \A i \in DOMAIN s : FALSE
  BY <1>1
<1> QED BY <1>1, <1>2 DEF Distinct, ToSet

\* The row of a room that is absent.
LEMMA EmptyRoom == NoRoom \in Rooms
BY DEF NoRoom, Rooms

\* A moderator who has not begun.
LEMMA EmptyDeed == NoDeed \in Deeds
BY EmptyRoom DEF NoDeed, Deeds

\* A request that was not accepted.
LEMMA EmptyPost ==
  ASSUME NEW t \in Tabs, NEW p \in Posts
  PROVE  /\ NoPost \in Requests
         /\ [NoPost EXCEPT !.tab = t, !.sent = p] \in Requests
<1>1. (CHOOSE u \in Tabs : TRUE) \in Tabs
  BY TeachersAssumption
<1>2. 0 \in 0..MaxAttempts /\ <<>> \in Seq(Posts) /\ <<>> \in Seq(Turns)
  BY BoundsAssumption
<1>3. NoPost \in Requests
  BY <1>1, <1>2, EmptyRoom DEF NoPost, Requests
<1>4. [NoPost EXCEPT !.tab = t, !.sent = p] \in Requests
  BY <1>3 DEF Requests
<1> QED BY <1>3, <1>4

\* What a POST appends: what it sends and the agents' answer, each once, but for
\* what the window it goes by has.
LEMMA FreshFacts ==
  ASSUME TypeOK, NEW p \in Posts, PostInv(p)
  PROVE  /\ Fresh(p) \in Seq(Messages) /\ Distinct(Fresh(p))
         /\ ToSet(Fresh(p)) =
              (ToSet(post[p].sends) \cup ToSet(post[p].turns)) \ Ids(post[p].row.window)
<1>1. PICK s \in Seq(Posts) : s = post[p].sends
  BY DEF TypeOK
<1>2. PICK u \in Seq(Turns) : u = post[p].turns
  BY DEF TypeOK
<1>3. ToSet(s) \subseteq Posts /\ ToSet(u) \subseteq Turns
  BY DEF ToSet
<1>4. Distinct(s) /\ Distinct(u) /\ ToSet(s) \cap ToSet(u) = {}
  BY <1>1, <1>2, <1>3, MessagesAssumption DEF PostInv
<1>5. s \in Seq(Messages) /\ u \in Seq(Messages)
  BY <1>3, SeqOver DEF Messages
<1>6. /\ s \o u \in Seq(Messages) /\ ToSet(s \o u) = ToSet(s) \cup ToSet(u)
      /\ Distinct(s \o u)
  BY <1>4, <1>5, ConcatFacts
<1> DEFINE all == s \o u
<1> HIDE DEF all
<1>7. /\ Without(all, Ids(post[p].row.window)) \in Seq(Messages)
      /\ ToSet(Without(all, Ids(post[p].row.window))) = ToSet(all) \ Ids(post[p].row.window)
      /\ Distinct(Without(all, Ids(post[p].row.window)))
  BY <1>6, WithoutFacts DEF all
<1>8. Fresh(p) = Without(all, Ids(post[p].row.window))
  BY <1>1, <1>2 DEF Fresh, all
<1> QED BY <1>1, <1>2, <1>6, <1>7, <1>8 DEF all

\* A POST that ends keeps what it sent.
LEMMA EndsFacts ==
  ASSUME TypeOK, NEW p \in Posts, NEW how \in Stages, Ends(p, how)
  PROVE  /\ post' \in [Posts -> Requests] /\ at' \in [Posts -> Stages]
         /\ at'[p] = how
         /\ post'[p].sends = post[p].sends /\ post'[p].turns = post[p].turns
         /\ post'[p].tab = post[p].tab
         /\ \A q \in Posts \ {p} : post'[q] = post[q] /\ at'[q] = at[q]
<1>1. post \in [Posts -> Requests] /\ at \in [Posts -> Stages]
  BY DEF TypeOK, Requests, Stages
<1>2. PICK r \in Requests : r = [post[p] EXCEPT !.row = NoRoom, !.attempt = 0]
  <2>1. 0 \in 0..MaxAttempts /\ NoRoom \in Rooms /\ post[p] \in Requests
    <3>1. 0 \in 0..MaxAttempts /\ post[p] \in Requests
      BY <1>1, BoundsAssumption
    <3>2. NoRoom \in Rooms
      BY EmptyRoom
    <3> QED BY <3>1, <3>2
  <2> HIDE DEF Rooms
  <2> QED BY <2>1 DEF Requests
<1>3. post' = [post EXCEPT ![p] = r] /\ at' = [at EXCEPT ![p] = how]
  BY <1>2 DEF Ends
<1>4. r.sends = post[p].sends /\ r.turns = post[p].turns /\ r.tab = post[p].tab
  BY <1>1, <1>2 DEF Requests
<1> QED BY <1>1, <1>3, <1>4

\* What a request leaves: what its page showed of members' messages, each once, and
\* the room it read, in which it may speak.
LEMMA RequestFacts ==
  ASSUME IInv, NEW p \in Posts, NEW t \in Tabs, NEW sent \in Posts, NEW turns \in Seq(Turns),
         NEW shown \in Seq(Messages), Distinct(shown), Distinct(turns),
         Request(p, t, sent, shown, turns)
  PROVE  /\ post' \in [Posts -> Requests] /\ at' \in [Posts -> Stages]
         /\ at[p] = "idle" /\ at'[p] \in {"read", "frozen", "refused"}
         /\ Distinct(post'[p].sends) /\ Distinct(post'[p].turns)
         /\ ToSet(post'[p].sends) \subseteq ToSet(shown) \cap Posts
         /\ at'[p] = "read" => post'[p].row = room /\ MaySpeak(post'[p].tab, room)
         /\ \A q \in Posts \ {p} : post'[q] = post[q] /\ at'[q] = at[q]
<1> DEFINE accepted == course = "open" /\ MaySpeak(t, room)
           sends == Without(shown, Turns)
           taken == [tab |-> t, sent |-> sent, turns |-> turns, row |-> room, attempt |-> 1,
                     sends |-> sends]
           refused == [NoPost EXCEPT !.tab = t, !.sent = sent]
           row == IF accepted THEN taken ELSE refused
           stage == IF accepted THEN "read" ELSE IF course = "open" THEN "frozen" ELSE "refused"
<1>1. /\ post \in [Posts -> Requests] /\ at \in [Posts -> Stages] /\ room \in Rooms
      /\ at[p] = "idle"
  BY DEF IInv, TypeOK, Requests, Stages, Request
<1>2. sends \in Seq(Posts) /\ Distinct(sends) /\ ToSet(sends) \subseteq ToSet(shown) \cap Posts
  <2>1. sends \in Seq(Messages) /\ ToSet(sends) = ToSet(shown) \ Turns /\ Distinct(sends)
    BY WithoutFacts
  <2>2. ToSet(shown) \subseteq Messages
    BY DEF ToSet
  <2>3. ToSet(sends) \subseteq Posts
    BY <2>1, <2>2 DEF Messages
  <2> HIDE DEF sends
  <2> QED BY <2>1, <2>3, SeqOver
<1>3. post' = [post EXCEPT ![p] = row] /\ at' = [at EXCEPT ![p] = stage]
  BY DEF Request
<1> HIDE DEF sends
<1>4. taken \in Requests
  <2>1. 1 \in 0..MaxAttempts
    BY BoundsAssumption
  <2> HIDE DEF Rooms
  <2> QED BY <1>1, <1>2, <2>1 DEF Requests
<1>5. refused \in Requests /\ refused.sends = <<>> /\ refused.turns = <<>>
  <2>1. refused \in Requests
    <3>1. [NoPost EXCEPT !.tab = t, !.sent = sent] \in Requests
      BY EmptyPost
    <3> QED BY <3>1
  <2> QED BY <2>1 DEF NoPost
<1>6. taken.sends = sends /\ taken.turns = turns /\ taken.row = room /\ taken.tab = t
  OBVIOUS
<1> HIDE DEF taken, refused
<1>7. row \in Requests /\ stage \in {"read", "frozen", "refused"}
  BY <1>4, <1>5
<1>8. Distinct(row.sends) /\ Distinct(row.turns) /\ ToSet(row.sends) \subseteq ToSet(shown) \cap Posts
  <2>1. /\ Distinct(refused.sends) /\ Distinct(refused.turns)
        /\ ToSet(refused.sends) = {}
    BY <1>5, NothingSent
  <2> QED BY <1>2, <1>6, <2>1
<1>9. stage = "read" => row.row = room /\ MaySpeak(row.tab, room)
  BY <1>6
<1> HIDE DEF row, stage
<1>10. post'[p] = row /\ at'[p] = stage /\ \A q \in Posts \ {p} : post'[q] = post[q] /\ at'[q] = at[q]
  BY <1>1, <1>3
<1>11. post' \in [Posts -> Requests] /\ at' \in [Posts -> Stages]
  BY <1>1, <1>3, <1>7 DEF Stages
<1> QED BY <1>1, <1>7, <1>8, <1>9, <1>10, <1>11
-----------------------------------------------------------------------------
\* A step that leaves the room alone or moves it on keeps the invariant of the
\* room, and of every page, POST and moderator it does not touch.
LEMMA Kept ==
  ASSUME IInv, TypeOK', UNCHANGED <<room, archive>> \/ RoomMoves, Spoken \subseteq Spoken'
  PROVE  /\ RoomInv'
         /\ \A t \in Tabs : screen'[t] = screen[t] => ScreenInv(t)'
         /\ \A t \in Tabs : answer'[t] = answer[t] => AnswerInv(t)'
         /\ \A p \in Posts : post'[p] = post[p] /\ at'[p] = at[p] => PostInv(p)'
         /\ \A d \in Moderators : deed'[d] = deed[d] => DeedInv(d)'
<1>1. Heard \subseteq Heard'
  BY DEF Heard
<1>2. RoomInv'
  <2>1. CASE UNCHANGED <<room, archive>>
    BY <1>1, <2>1 DEF IInv, RoomInv
  <2>2. CASE RoomMoves
    BY <2>2 DEF RoomMoves, RoomInv
  <2> QED BY <2>1, <2>2
<1>3. ASSUME NEW t \in Tabs, screen'[t] = screen[t] PROVE ScreenInv(t)'
  BY <1>1, <1>3 DEF IInv, ScreenInv
<1>7. ASSUME NEW t \in Tabs, answer'[t] = answer[t] PROVE AnswerInv(t)'
  BY <1>1, <1>7 DEF IInv, AnswerInv
<1>4. /\ Ids(archive) \subseteq Ids(archive') /\ room.rev \in Nat
      /\ \/ room' = room
         \/ room'.rev = room.rev + 1
  BY DEF RoomMoves, IInv, TypeOK, Rooms
<1>5. ASSUME NEW p \in Posts, post'[p] = post[p], at'[p] = at[p] PROVE PostInv(p)'
  <2>1. PostInv(p) /\ post[p].row.rev \in Nat
    BY DEF IInv, TypeOK, Rooms
  <2>2. at[p] = "read" => /\ post[p].row.rev <= room'.rev
                          /\ post[p].row.rev = room'.rev => post[p].row.frozen = room'.frozen
    BY <1>4, <2>1 DEF PostInv
  <2> QED BY <1>4, <1>5, <2>1, <2>2 DEF PostInv, MaySpeak
<1>6. ASSUME NEW d \in Moderators, deed'[d] = deed[d] PROVE DeedInv(d)'
  <2>1. DeedInv(d) /\ deed[d].row.rev \in Nat
    BY DEF IInv, TypeOK, Rooms
  <2> QED BY <1>4, <1>6, <2>1 DEF DeedInv
<1> QED BY <1>2, <1>3, <1>5, <1>6, <1>7

\* A POST that ends is right, if what it was answered to have stored is in the
\* archive.
LEMMA PostEnded ==
  ASSUME IInv, NEW p \in Posts, NEW how \in {"done", "frozen", "refused"}, Ends(p, how),
         Spoken \subseteq Spoken',
         how = "done" => ToSet(post[p].sends) \cup ToSet(post[p].turns) \subseteq Ids(archive')
  PROVE  PostInv(p)'
<1>1. how \in Stages
  BY DEF Stages
<1>2. /\ at'[p] = how /\ post'[p].sends = post[p].sends /\ post'[p].turns = post[p].turns
  BY <1>1, EndsFacts DEF IInv
<1>3. PostInv(p)
  BY DEF IInv
<1> QED BY <1>2, <1>3 DEF PostInv

\* A message that was sent stays one.
LEMMA SpokenGrows ==
  ASSUME NEW p \in Posts, at' \in [Posts -> Stages], at'[p] # "idle",
         \A q \in Posts \ {p} : at'[q] = at[q]
  PROVE  Spoken \subseteq Spoken' /\ p \in Spoken'
BY DEF Spoken

\* A read answers a page with nothing but messages that were sent.
LEMMA ReadRoomStep == ASSUME IInv, NEW t \in Tabs, ReadRoom(t) PROVE IInv'
<1>1. PICK incoming \in {Visible(room.window), <<>>} : answer' = [answer EXCEPT ![t] = {incoming}]
  BY DEF ReadRoom
<1>2. UNCHANGED <<course, room, archive, screen, replayed, post, at, replied, deed, verdicts>>
  BY DEF ReadRoom
<1>3. /\ room.window \in Seq(Entries) /\ archive \in Seq(Entries)
      /\ answer \in [Tabs -> SUBSET Seq(Messages)]
  BY DEF IInv, TypeOK, Rooms
<1>4. UniqueIds(room.window) /\ Ids(room.window) \subseteq Heard
  BY <1>3, LatestFacts DEF IInv, RoomInv
<1>5. incoming \in Seq(Messages) /\ Distinct(incoming) /\ ToSet(incoming) \subseteq Heard
  <2>1. CASE incoming = <<>>
    BY <2>1, NothingSent
  <2>2. CASE incoming = Visible(room.window)
    BY <1>3, <1>4, <2>2, VisibleFacts
  <2> QED BY <2>1, <2>2
<1>6. answer' \in [Tabs -> SUBSET Seq(Messages)]
  BY <1>1, <1>3, <1>5
<1>7. TypeOK'
  BY <1>2, <1>6 DEF IInv, TypeOK
<1>8. Spoken' = Spoken /\ Heard' = Heard
  BY <1>2 DEF Spoken, Heard
<1>9. \A u \in Tabs : ScreenInv(u)' /\ AnswerInv(u)'
  <2> TAKE u \in Tabs
  <2>1. ScreenInv(u)'
    BY <1>2, <1>7, <1>8, Kept
  <2>2. CASE u = t
    <3>1. \A msgs \in answer'[u] : msgs = incoming
      BY <1>1, <1>3, <2>2
    <3> QED BY <1>5, <1>8, <2>1, <3>1 DEF AnswerInv
  <2>3. CASE u # t
    <3>1. answer'[u] = answer[u]
      BY <1>1, <1>3, <2>3
    <3> QED BY <1>2, <1>7, <1>8, <2>1, <3>1, Kept
  <2> QED BY <2>2, <2>3
<1>10. /\ RoomInv'
       /\ \A q \in Posts : PostInv(q)'
       /\ \A d \in Moderators : DeedInv(d)'
  BY <1>2, <1>7, <1>8, Kept
<1> QED BY <1>7, <1>9, <1>10 DEF IInv

\* A page that takes an answer, however late, shows nothing else.
LEMMA TakeAnswerStep == ASSUME IInv, NEW t \in Tabs, TakeAnswer(t) PROVE IInv'
<1>1. PICK incoming \in answer[t] :
        /\ screen' = [screen EXCEPT ![t] = Merged(@, incoming, replayed[t])]
        /\ replayed' = [replayed EXCEPT ![t] = ToSet(incoming)]
  BY DEF TakeAnswer
<1>2. /\ answer' = [answer EXCEPT ![t] = {}]
      /\ UNCHANGED <<course, room, archive, post, at, replied, deed, verdicts>>
  BY DEF TakeAnswer
<1>3. /\ answer \in [Tabs -> SUBSET Seq(Messages)]
      /\ screen \in [Tabs -> Seq(Messages)] /\ replayed \in [Tabs -> SUBSET Messages]
  BY DEF IInv, TypeOK
<1>5. incoming \in Seq(Messages) /\ Distinct(incoming) /\ ToSet(incoming) \subseteq Heard
  BY DEF IInv, AnswerInv
<1> DEFINE shown == Merged(screen[t], incoming, replayed[t])
<1>6. shown \in Seq(Messages) /\ Distinct(shown) /\ ToSet(shown) \subseteq Heard
  <2>1. screen[t] \in Seq(Messages) /\ Distinct(screen[t]) /\ ToSet(screen[t]) \subseteq Heard
    BY <1>3 DEF IInv, ScreenInv
  <2>2. /\ shown \in Seq(Messages) /\ Distinct(shown)
        /\ ToSet(shown) \subseteq ToSet(screen[t]) \cup ToSet(incoming)
    BY <1>5, <2>1, MergedFacts
  <2> HIDE DEF shown
  <2> QED BY <1>5, <2>1, <2>2
<1>7. screen' = [screen EXCEPT ![t] = shown]
  BY <1>1
<1> HIDE DEF shown
<1>8. TypeOK'
  <2>1. ToSet(incoming) \subseteq Messages
    BY <1>5 DEF ToSet
  <2>2. /\ screen' \in [Tabs -> Seq(Messages)] /\ replayed' \in [Tabs -> SUBSET Messages]
        /\ answer' \in [Tabs -> SUBSET Seq(Messages)]
    BY <1>1, <1>2, <1>3, <1>6, <1>7, <2>1
  <2> QED BY <1>2, <2>2 DEF IInv, TypeOK
<1>9. Spoken' = Spoken /\ Heard' = Heard
  BY <1>2 DEF Spoken, Heard
<1>10. \A u \in Tabs : ScreenInv(u)' /\ AnswerInv(u)'
  <2> TAKE u \in Tabs
  <2>1. CASE u = t
    <3>1. answer'[u] = {}
      BY <1>2, <1>3, <2>1
    <3> QED BY <1>3, <1>6, <1>7, <1>9, <2>1, <3>1 DEF ScreenInv, AnswerInv
  <2>2. CASE u # t
    <3>1. answer'[u] = answer[u] /\ screen'[u] = screen[u]
      BY <1>2, <1>3, <1>7, <2>2
    <3> QED BY <1>2, <1>8, <1>9, <3>1, Kept
  <2> QED BY <2>1, <2>2
<1> QED BY <1>2, <1>8, <1>9, <1>10, Kept DEF IInv

\* A request adds one POST and may add its message to its page.
LEMMA RequestStep ==
  ASSUME IInv, NEW p \in Posts, NEW t \in Tabs, NEW sent \in Posts, NEW turns \in Seq(Turns),
         NEW shown \in Seq(Messages), Distinct(shown), Distinct(turns),
         ToSet(shown) \subseteq Heard \cup {p},
         Request(p, t, sent, shown, turns),
         screen' = [screen EXCEPT ![t] = shown],
         UNCHANGED <<course, room, archive, answer, replayed, replied, deed, verdicts>>
  PROVE  IInv'
<1>1. /\ post' \in [Posts -> Requests] /\ at' \in [Posts -> Stages]
      /\ at[p] = "idle" /\ at'[p] \in {"read", "frozen", "refused"}
      /\ Distinct(post'[p].sends) /\ Distinct(post'[p].turns)
      /\ ToSet(post'[p].sends) \subseteq ToSet(shown) \cap Posts
      /\ at'[p] = "read" => post'[p].row = room /\ MaySpeak(post'[p].tab, room)
      /\ \A q \in Posts \ {p} : post'[q] = post[q] /\ at'[q] = at[q]
  BY RequestFacts
<1>2. screen \in [Tabs -> Seq(Messages)] /\ room.window \in Seq(Entries) /\ archive \in Seq(Entries)
      /\ room.rev \in Nat
  BY DEF IInv, TypeOK, Rooms
<1>3. screen' \in [Tabs -> Seq(Messages)]
  BY <1>2
<1>4. TypeOK'
  BY <1>1, <1>3 DEF IInv, TypeOK, Requests, Stages
<1>5. Spoken \subseteq Spoken' /\ p \in Spoken'
  BY <1>1, SpokenGrows
<1>6. Heard \cup {p} \subseteq Heard' /\ Heard \cap Posts \subseteq Spoken
  BY <1>5, MessagesAssumption DEF Heard, Spoken
<1>7. PostInv(p)'
  <2>1. ToSet(post'[p].sends) \subseteq Spoken'
    BY <1>1, <1>5, <1>6
  <2>2. Ids(room.window) \subseteq Ids(archive)
    BY <1>2, LatestFacts DEF IInv, RoomInv
  <2>3. /\ at'[p] # "done" /\ room' = room /\ archive' = archive /\ room.rev <= room.rev
        /\ at'[p] = "read" => post'[p].row = room /\ MaySpeak(post'[p].tab, room)
    BY <1>1, <1>2
  <2> QED BY <1>1, <2>1, <2>2, <2>3 DEF PostInv, MaySpeak
<1>8. \A u \in Tabs : ScreenInv(u)'
  <2> TAKE u \in Tabs
  <2>1. CASE u = t
    <3>1. screen'[u] = shown
      BY <1>2, <2>1
    <3> QED BY <1>6, <3>1 DEF ScreenInv
  <2>2. CASE u # t
    <3>1. screen'[u] = screen[u]
      BY <1>2, <2>2
    <3> QED BY <1>4, <1>5, <3>1, Kept
  <2> QED BY <2>1, <2>2
<1>9. /\ RoomInv' /\ \A u \in Tabs : AnswerInv(u)'
      /\ \A q \in Posts \ {p} : PostInv(q)'
      /\ \A d \in Moderators : DeedInv(d)'
  BY <1>1, <1>4, <1>5, Kept
<1> QED BY <1>4, <1>7, <1>8, <1>9 DEF IInv

\* A new message is new to its page.
LEMMA SendStep == ASSUME IInv, NEW p \in Posts, NEW t \in Tabs, Send(p, t) PROVE IInv'
<1>1. /\ screen' = [screen EXCEPT ![t] = Append(@, p)]
      /\ UNCHANGED <<course, room, archive, answer, replayed, replied, deed, verdicts>>
  BY DEF Send
<1>2. PICK turns \in {<<>>, <<Turn(p)>>} : Request(p, t, p, screen'[t], turns)
  BY DEF Send
<1>3. turns \in Seq(Turns) /\ Distinct(turns)
  <2>1. CASE turns = <<>>
    BY <2>1, NothingSent
  <2>2. CASE turns = <<Turn(p)>>
    <3>1. Turn(p) \in Turns
      BY DEF Turns
    <3>2. turns \in Seq(Turns) /\ Len(turns) = 1
      BY <2>2, <3>1
    <3>3. \A i \in DOMAIN turns : i = 1
      BY <3>2
    <3> QED BY <3>2, <3>3 DEF Distinct
  <2> QED BY <2>1, <2>2
<1>4. PICK old \in Seq(Messages) : old = screen[t]
  BY DEF IInv, TypeOK
<1>5. Distinct(old) /\ ToSet(old) \subseteq Heard /\ p \notin Heard
  <2>1. at[p] = "idle"
    BY <1>2 DEF Request
  <2> QED BY <1>4, <2>1, MessagesAssumption DEF IInv, ScreenInv, Heard, Spoken
<1> DEFINE shown == Append(old, p)
<1>6. /\ Len(old) \in Nat /\ DOMAIN old = 1..Len(old) /\ DOMAIN shown = 1..(Len(old) + 1)
      /\ shown \in Seq(Messages) /\ shown[Len(old) + 1] = p
      /\ \A i \in 1..Len(old) : shown[i] = old[i]
  BY DEF Messages
<1> HIDE DEF shown
<1>7. \A i \in 1..(Len(old) + 1) : i = Len(old) + 1 \/ (i \in 1..Len(old) /\ shown[i] \in ToSet(old))
  BY <1>6 DEF ToSet
<1>8. ToSet(shown) \subseteq Heard \cup {p}
  <2>1. \A i \in DOMAIN shown : shown[i] \in Heard \cup {p}
    BY <1>5, <1>6, <1>7
  <2> QED BY <2>1 DEF ToSet
<1>9. Distinct(shown)
  <2> SUFFICES ASSUME NEW i \in 1..(Len(old) + 1), NEW j \in 1..(Len(old) + 1), shown[i] = shown[j]
               PROVE  i = j
    BY <1>6 DEF Distinct
  <2> QED BY <1>5, <1>6, <1>7 DEF Distinct
<1>10. screen' = [screen EXCEPT ![t] = shown] /\ screen'[t] = shown
  BY <1>1, <1>4 DEF shown, IInv, TypeOK
<1>11. Request(p, t, p, shown, turns)
  BY <1>2, <1>10
<1> QED BY <1>1, <1>3, <1>6, <1>8, <1>9, <1>10, <1>11, RequestStep

\* A retry sends what the page shows again.
LEMMA ResendStep ==
  ASSUME IInv, NEW p \in Posts, NEW t \in Tabs, NEW m \in Posts, Resend(p, t, m)
  PROVE  IInv'
<1>1. /\ Request(p, t, m, screen[t], <<>>)
      /\ UNCHANGED <<course, room, archive, screen, answer, replayed, replied, deed, verdicts>>
  BY DEF Resend, pages
<1>2. /\ screen[t] \in Seq(Messages) /\ Distinct(screen[t]) /\ ToSet(screen[t]) \subseteq Heard
  BY DEF IInv, TypeOK, ScreenInv
<1>3. PICK turns : turns = <<>>
  OBVIOUS
<1>4. turns \in Seq(Turns) /\ Distinct(turns)
  BY <1>3, NothingSent
<1>5. screen' = [screen EXCEPT ![t] = screen[t]]
  BY <1>1 DEF IInv, TypeOK
<1>6. Request(p, t, m, screen[t], turns)
  BY <1>1, <1>3
<1> QED BY <1>1, <1>2, <1>4, <1>5, <1>6, RequestStep
-----------------------------------------------------------------------------
\* Only one page changes.
LEMMA ShownStep ==
  ASSUME IInv, NEW t \in Tabs, NEW shown \in Seq(Messages), Distinct(shown),
         ToSet(shown) \subseteq Heard, screen' = [screen EXCEPT ![t] = shown],
         replied' \subseteq Posts,
         UNCHANGED <<course, room, archive, answer, replayed, post, at, deed, verdicts>>
  PROVE  IInv'
<1>1. screen \in [Tabs -> Seq(Messages)]
  BY DEF IInv, TypeOK
<1>2. TypeOK'
  <2>1. screen' \in [Tabs -> Seq(Messages)]
    BY <1>1
  <2> QED BY <2>1 DEF IInv, TypeOK
<1>3. Spoken' = Spoken /\ Heard' = Heard
  BY DEF Spoken, Heard
<1>4. \A u \in Tabs : ScreenInv(u)'
  <2> TAKE u \in Tabs
  <2>1. CASE u = t
    BY <1>1, <1>3, <2>1 DEF ScreenInv
  <2>2. CASE u # t
    BY <1>1, <1>2, <1>3, <2>2, Kept
  <2> QED BY <2>1, <2>2
<1> QED BY <1>2, <1>3, <1>4, Kept DEF IInv

\* The agents' answer is added to the page that asked unless it is there; a refusal
\* takes the message away.
LEMMA ReplyStep == ASSUME IInv, NEW p \in Posts, Reply(p) PROVE IInv'
<1> DEFINE t == post[p].tab
<1>1. PICK old \in Seq(Messages) : old = screen[t]
  BY DEF IInv, TypeOK
<1>2. PICK turns \in Seq(Turns) : turns = post[p].turns
  BY DEF IInv, TypeOK
<1> DEFINE shown == CASE at[p] = "frozen"  -> Without(old, {post[p].sent})
                      [] at[p] = "refused" -> old
                      [] OTHER -> old \o Without(turns, ToSet(old))
<1>3. t \in Tabs /\ Distinct(old) /\ ToSet(old) \subseteq Heard /\ Distinct(turns)
  BY <1>1, <1>2 DEF IInv, TypeOK, ScreenInv, PostInv
<1>4. screen' = [screen EXCEPT ![t] = shown] /\ replied' \subseteq Posts
  BY <1>1, <1>2 DEF Reply, IInv, TypeOK
<1>5. shown \in Seq(Messages) /\ Distinct(shown) /\ ToSet(shown) \subseteq Heard
  <2>1. CASE at[p] = "frozen"
    <3>1. shown = Without(old, {post[p].sent})
      BY <2>1
    <3> HIDE DEF shown
    <3> QED BY <1>3, <3>1, WithoutFacts
  <2>2. CASE at[p] = "refused"
    <3>1. shown = old
      BY <2>2
    <3> HIDE DEF shown
    <3> QED BY <1>3, <3>1
  <2>3. CASE at[p] \notin {"frozen", "refused"}
    <3> DEFINE new == Without(turns, ToSet(old))
    <3>1. shown = old \o new
      BY <2>3
    <3> HIDE DEF shown
    <3>2. new \in Seq(Turns) /\ ToSet(new) = ToSet(turns) \ ToSet(old) /\ Distinct(new)
      BY <1>3, WithoutFacts
    <3> HIDE DEF new
    <3>3. ToSet(new) \subseteq Turns
      BY <3>2 DEF ToSet
    <3>4. new \in Seq(Messages) /\ ToSet(new) \subseteq Heard
      BY <3>2, <3>3, SeqOver DEF Messages, Heard
    <3>5. /\ old \o new \in Seq(Messages) /\ ToSet(old \o new) = ToSet(old) \cup ToSet(new)
          /\ Distinct(old \o new)
      BY <1>3, <3>2, <3>4, ConcatFacts
    <3> QED BY <1>3, <3>1, <3>4, <3>5
  <2> QED BY <2>1, <2>2, <2>3
<1>6. UNCHANGED <<course, room, archive, answer, replayed, post, at, deed, verdicts>>
  BY DEF Reply
<1> HIDE DEF shown, t
<1> QED BY <1>3, <1>4, <1>5, <1>6, ShownStep

\* A message leaves a page.
LEMMA DropHiddenStep ==
  ASSUME IInv, NEW t \in Tabs, NEW m, DropHidden(t, m)
  PROVE  IInv'
<1>1. /\ screen' = [screen EXCEPT ![t] = Without(screen[t], {m})]
      /\ UNCHANGED <<course, room, archive, answer, replayed, post, at, replied, deed, verdicts>>
  BY DEF DropHidden
<1>2. /\ screen[t] \in Seq(Messages) /\ Distinct(screen[t]) /\ ToSet(screen[t]) \subseteq Heard
      /\ replied \subseteq Posts
  BY DEF IInv, TypeOK, ScreenInv
<1> DEFINE shown == Without(screen[t], {m})
<1>3. shown \in Seq(Messages) /\ Distinct(shown) /\ ToSet(shown) \subseteq ToSet(screen[t])
  BY <1>2, WithoutFacts
<1> HIDE DEF shown
<1>4. screen' = [screen EXCEPT ![t] = shown]
  BY <1>1 DEF shown
<1> QED BY <1>1, <1>2, <1>3, <1>4, ShownStep

\* Pages, POSTs and room stay as they are.
LEMMA StillStep ==
  ASSUME IInv, course' \in {"open", "closed"}, replied' \subseteq Posts,
         UNCHANGED <<room, archive, screen, answer, replayed, post, at, deed, verdicts>>
  PROVE  IInv'
<1>1. TypeOK'
  BY DEF IInv, TypeOK
<1>2. Spoken' = Spoken
  BY DEF Spoken
<1> QED BY <1>1, <1>2, Kept DEF IInv

\* A POST that is refused leaves the room alone.
LEMMA EndedStep ==
  ASSUME IInv, NEW p \in Posts, NEW how \in {"frozen", "refused"}, Ends(p, how),
         UNCHANGED <<course, room, archive, pages, deed, verdicts>>
  PROVE  IInv'
<1>1. how \in Stages /\ how \in {"done", "frozen", "refused"}
  BY DEF Stages
<1>2. /\ post' \in [Posts -> Requests] /\ at' \in [Posts -> Stages] /\ at'[p] = how
      /\ \A q \in Posts \ {p} : post'[q] = post[q] /\ at'[q] = at[q]
  BY <1>1, EndsFacts DEF IInv
<1>3. TypeOK'
  BY <1>2 DEF IInv, TypeOK, Requests, Stages, pages
<1>4. Spoken \subseteq Spoken'
  BY <1>2, SpokenGrows
<1>5. PostInv(p)'
  BY <1>1, <1>4, PostEnded
<1>6. /\ RoomInv'
      /\ \A t \in Tabs : ScreenInv(t)' /\ AnswerInv(t)'
      /\ \A q \in Posts \ {p} : PostInv(q)'
      /\ \A d \in Moderators : DeedInv(d)'
  BY <1>2, <1>3, <1>4, Kept DEF pages
<1> QED BY <1>3, <1>5, <1>6 DEF IInv

\* A store appends to the archive, changes nothing that was there, and in a frozen
\* room is a teacher's: the row it goes by is the room, and was checked when it was
\* read.
LEMMA StoreStep ==
  ASSUME IInv, NEW p \in Posts, Store(p)
  PROVE  /\ IInv'
         /\ \A i \in DOMAIN archive : i \in DOMAIN archive' /\ archive'[i] = archive[i]
         /\ room.frozen => post[p].tab \in TeacherTabs
         /\ course = "open" /\ at[p] # "done" /\ at'[p] = "done"
<1>1. /\ Storing(p) /\ course = "open" /\ room.rev = post[p].row.rev
      /\ archive' = Archived(archive, Fresh(p))
      /\ room' = [rev |-> room.rev + 1, frozen |-> post[p].row.frozen, window |-> Latest(archive')]
      /\ Ends(p, "done")
      /\ UNCHANGED <<course, pages, deed, verdicts>>
  BY DEF Store
<1>2. /\ archive \in Seq(Entries) /\ room.rev \in Nat /\ post[p].row.frozen \in BOOLEAN
      /\ at[p] = "read" /\ PostInv(p) /\ TypeOK
  BY <1>1 DEF IInv, TypeOK, Rooms, Storing
<1>3. /\ Fresh(p) \in Seq(Messages) /\ Distinct(Fresh(p))
      /\ ToSet(Fresh(p)) = (ToSet(post[p].sends) \cup ToSet(post[p].turns)) \ Ids(post[p].row.window)
  BY <1>2, FreshFacts
<1>4. /\ archive' \in Seq(Entries)
      /\ Ids(archive') = Ids(archive) \cup ToSet(Fresh(p))
      /\ \A i \in DOMAIN archive : i \in DOMAIN archive' /\ archive'[i] = archive[i]
      /\ UniqueIds(archive')
  BY <1>1, <1>2, <1>3, ArchivedFacts DEF IInv, RoomInv
<1>5. "done" \in Stages
  BY DEF Stages
<1>6. /\ post' \in [Posts -> Requests] /\ at' \in [Posts -> Stages] /\ at'[p] = "done"
      /\ \A q \in Posts \ {p} : post'[q] = post[q] /\ at'[q] = at[q]
  BY <1>1, <1>2, <1>5, EndsFacts
<1>7. Latest(archive') \in Seq(Entries)
  BY <1>4, LatestFacts
<1>8. room' \in Rooms /\ room'.rev = room.rev + 1 /\ room'.window = Latest(archive')
  <2> DEFINE window == Latest(archive')
  <2>1. window \in Seq(Entries) /\ room' = [rev |-> room.rev + 1, frozen |-> post[p].row.frozen,
                                            window |-> window]
    BY <1>1, <1>7
  <2> HIDE DEF window
  <2>2. room' \in Rooms /\ room'.rev = room.rev + 1 /\ room'.window = window
    BY <1>2, <2>1 DEF Rooms
  <2> QED BY <2>2 DEF window
<1>9. TypeOK'
  BY <1>1, <1>2, <1>4, <1>6, <1>8 DEF TypeOK, Requests, Stages, pages
<1>10. Spoken \subseteq Spoken'
  BY <1>6, SpokenGrows
<1>11. ToSet(post[p].sends) \cup ToSet(post[p].turns) \subseteq Ids(archive')
  BY <1>2, <1>3, <1>4 DEF PostInv
<1>12. Ids(archive') \subseteq Heard'
  <2>1. Ids(archive) \subseteq Heard /\ ToSet(post[p].sends) \subseteq Spoken
    BY <1>2 DEF IInv, RoomInv, PostInv
  <2>2. ToSet(post[p].turns) \subseteq Turns
    <3>1. post[p].turns \in Seq(Turns)
      BY <1>2 DEF TypeOK
    <3> QED BY <3>1 DEF ToSet
  <2> QED BY <1>3, <1>4, <1>10, <2>1, <2>2 DEF Heard
<1>13. RoomMoves
  BY <1>4, <1>8, <1>12 DEF RoomMoves
<1>14. PostInv(p)'
  BY <1>1, <1>10, <1>11, PostEnded
<1>15. /\ RoomInv'
       /\ \A t \in Tabs : ScreenInv(t)' /\ AnswerInv(t)'
       /\ \A q \in Posts \ {p} : PostInv(q)'
       /\ \A d \in Moderators : DeedInv(d)'
  BY <1>1, <1>6, <1>9, <1>10, <1>13, Kept DEF pages
<1>16. IInv'
  BY <1>9, <1>14, <1>15 DEF IInv
<1>17. room.frozen => post[p].tab \in TeacherTabs
  BY <1>1, <1>2 DEF PostInv, MaySpeak
<1> QED BY <1>1, <1>2, <1>4, <1>6, <1>16, <1>17

\* The next attempt goes by the room as it is, if the page may speak in it.
LEMMA RetryStep == ASSUME IInv, NEW p \in Posts, Retry(p) PROVE IInv'
<1>1. CASE ~MaySpeak(post[p].tab, room)
  <2>1. Ends(p, "frozen") /\ UNCHANGED <<course, room, archive, pages, deed, verdicts>>
    BY <1>1 DEF Retry
  <2> QED BY <2>1, EndedStep
<1>2. CASE MaySpeak(post[p].tab, room)
  <2>1. /\ at[p] = "read" /\ post[p].attempt < MaxAttempts
        /\ post' = [post EXCEPT ![p].row = room, ![p].attempt = @ + 1]
        /\ UNCHANGED <<course, room, archive, pages, at, deed, verdicts>>
    BY <1>2 DEF Retry, Overtaken, Storing
  <2>2. /\ post \in [Posts -> Requests] /\ room \in Rooms /\ post[p].attempt \in 0..MaxAttempts
        /\ room.window \in Seq(Entries) /\ archive \in Seq(Entries) /\ room.rev \in Nat
        /\ PostInv(p)
    BY DEF IInv, TypeOK, Requests, Rooms
  <2>3. PICK r \in Requests : /\ r = [post[p] EXCEPT !.row = room, !.attempt = post[p].attempt + 1]
                              /\ r.sends = post[p].sends /\ r.turns = post[p].turns
                              /\ r.tab = post[p].tab /\ r.row = room
    <3>1. post[p].attempt + 1 \in 0..MaxAttempts
      BY <2>1, <2>2, BoundsAssumption
    <3> DEFINE next == [post[p] EXCEPT !.row = room, !.attempt = post[p].attempt + 1]
    <3>2. post[p] \in Requests /\ room \in Rooms
      BY <2>2
    <3>3. /\ next \in Requests
          /\ next.sends = post[p].sends /\ next.turns = post[p].turns
          /\ next.tab = post[p].tab /\ next.row = room
      BY <3>1, <3>2 DEF Requests
    <3> HIDE DEF next
    <3> QED BY <3>3 DEF next
  <2>4. post' = [post EXCEPT ![p] = r]
    BY <2>1, <2>3
  <2>5. post' \in [Posts -> Requests] /\ post'[p] = r /\ \A q \in Posts \ {p} : post'[q] = post[q]
    BY <2>2, <2>4
  <2>6. TypeOK'
    BY <2>1, <2>5 DEF IInv, TypeOK, Requests, pages
  <2>7. Spoken' = Spoken
    BY <2>1 DEF Spoken
  <2>8. PostInv(p)'
    <3>1. Ids(room.window) \subseteq Ids(archive)
      BY <2>2, LatestFacts DEF IInv, RoomInv
    <3>2. room.rev <= room.rev /\ at'[p] = "read" /\ room' = room /\ archive' = archive
      BY <2>1, <2>2
    <3> QED BY <1>2, <2>2, <2>3, <2>5, <2>7, <3>1, <3>2 DEF PostInv, MaySpeak
  <2>9. /\ RoomInv'
        /\ \A t \in Tabs : ScreenInv(t)' /\ AnswerInv(t)'
        /\ \A q \in Posts \ {p} : PostInv(q)'
        /\ \A d \in Moderators : DeedInv(d)'
    BY <2>1, <2>5, <2>6, <2>7, Kept DEF pages
  <2> QED BY <2>6, <2>8, <2>9 DEF IInv
<1> QED BY <1>1, <1>2
\* A verdict moves no message.
LEMMA JudgeStep ==
  ASSUME IInv, NEW m, NEW status \in {"hidden", "visible"}, Judge(m, status)
  PROVE  /\ IInv'
         /\ \A i \in DOMAIN archive : i \in DOMAIN archive' /\ archive'[i].id = archive[i].id
         /\ DOMAIN archive' = DOMAIN archive /\ verdicts' # verdicts
<1>1. /\ verdicts < MaxVerdicts /\ verdicts' = verdicts + 1
      /\ archive' = Marked(archive, m, status)
      /\ room' = [room EXCEPT !.rev = @ + 1, !.window = Marked(room.window, m, status)]
      /\ UNCHANGED <<course, screen, answer, replayed, post, at, replied, deed>>
  BY DEF Judge, JudgedWindow
<1>2. /\ archive \in Seq(Entries) /\ room \in Rooms /\ room.window \in Seq(Entries)
      /\ room.rev \in Nat /\ status \in Statuses /\ verdicts \in 0..MaxVerdicts
      /\ UniqueIds(archive) /\ room.window = Latest(archive) /\ Ids(archive) \subseteq Heard
  BY DEF IInv, RoomInv, TypeOK, Rooms, Statuses
<1>3. /\ archive' \in Seq(Entries) /\ Len(archive') = Len(archive)
      /\ \A i \in DOMAIN archive : archive'[i].id = archive[i].id
  <2> DEFINE marked == Marked(archive, m, status)
  <2>1. /\ marked \in Seq(Entries) /\ Len(marked) = Len(archive)
        /\ \A i \in DOMAIN archive : marked[i].id = archive[i].id
    <3>1. archive \in Seq(Entries) /\ status \in Statuses
      BY <1>2
    <3> QED BY <3>1, MarkedFacts
  <2>2. archive' = marked
    BY <1>1
  <2> HIDE DEF marked
  <2> QED BY <2>1, <2>2
<1>4. DOMAIN archive' = DOMAIN archive
  BY <1>2, <1>3
<1>5. Ids(archive') = Ids(archive) /\ UniqueIds(archive')
  BY <1>2, <1>3, <1>4 DEF Ids, UniqueIds
<1> DEFINE window == Marked(room.window, m, status)
<1>6. window \in Seq(Entries)
  BY <1>2, MarkedFacts
<1>7. window = Latest(archive')
  BY <1>1, <1>2, MarkedLatest
<1>8. room' = [room EXCEPT !.rev = @ + 1, !.window = window]
  BY <1>1
<1> HIDE DEF window
<1>9. room' \in Rooms /\ room'.rev = room.rev + 1 /\ room'.window = window
  <2>1. PICK row \in Rooms : row = room
    BY <1>2
  <2>2. room' = [row EXCEPT !.rev = row.rev + 1, !.window = window]
    BY <1>8, <2>1
  <2>3. row.rev \in Nat /\ row.frozen \in BOOLEAN
    BY DEF Rooms
  <2>4. room' = [rev |-> row.rev + 1, frozen |-> row.frozen, window |-> window]
    BY <2>2 DEF Rooms
  <2>5. room' \in Rooms /\ room'.rev = row.rev + 1 /\ room'.window = window
    BY <1>6, <2>3, <2>4 DEF Rooms
  <2> QED BY <2>1, <2>5
<1>10. verdicts' \in 0..MaxVerdicts /\ verdicts' # verdicts
  BY <1>1, <1>2, BoundsAssumption
<1>11. TypeOK'
  BY <1>1, <1>3, <1>9, <1>10 DEF IInv, TypeOK
<1>12. Spoken' = Spoken /\ Heard' = Heard
  BY <1>1 DEF Spoken, Heard
<1>13. RoomMoves
  BY <1>2, <1>5, <1>7, <1>9, <1>12 DEF RoomMoves
<1>14. IInv'
  BY <1>1, <1>11, <1>12, <1>13, Kept DEF IInv
<1> QED BY <1>3, <1>4, <1>10, <1>14

\* A moderator reads the room as it is.
LEMMA ReadToModerateStep ==
  ASSUME IInv, NEW d \in Moderators, NEW freeze \in BOOLEAN, ReadToModerate(d, freeze)
  PROVE  IInv'
<1> DEFINE row == [at |-> "read", freeze |-> freeze, row |-> room, attempt |-> 1]
<1>1. /\ deed' = [deed EXCEPT ![d] = row]
      /\ UNCHANGED <<course, room, archive, pages, post, at, verdicts>>
  BY DEF ReadToModerate
<1>2. deed \in [Moderators -> Deeds] /\ room \in Rooms /\ room.rev \in Nat
  BY DEF IInv, TypeOK, Deeds, Rooms
<1>3. row \in Deeds /\ row.row = room
  BY <1>2 DEF Deeds
<1> HIDE DEF row
<1>4. deed' \in [Moderators -> Deeds] /\ deed'[d] = row /\ \A e \in Moderators \ {d} : deed'[e] = deed[e]
  BY <1>1, <1>2, <1>3
<1>5. TypeOK'
  BY <1>1, <1>4 DEF IInv, TypeOK, Deeds, pages
<1>6. Spoken' = Spoken
  BY <1>1 DEF Spoken
<1>7. DeedInv(d)'
  <2>1. room' = room /\ room.rev <= room.rev
    BY <1>1, <1>2
  <2> QED BY <1>3, <1>4, <2>1 DEF DeedInv
<1>8. /\ RoomInv'
      /\ \A t \in Tabs : ScreenInv(t)' /\ AnswerInv(t)'
      /\ \A q \in Posts : PostInv(q)'
      /\ \A e \in Moderators \ {d} : DeedInv(e)'
  BY <1>1, <1>4, <1>5, <1>6, Kept DEF pages
<1> QED BY <1>5, <1>7, <1>8 DEF IInv

\* A deed that is through leaves no row to go by.
LEMMA DeedEnds ==
  ASSUME IInv, NEW d \in Moderators, NEW how \in {"done", "refused"},
         deed' = [deed EXCEPT ![d] = [NoDeed EXCEPT !.at = how]]
  PROVE  /\ deed' \in [Moderators -> Deeds] /\ DeedInv(d)'
         /\ \A e \in Moderators \ {d} : deed'[e] = deed[e]
<1>1. deed \in [Moderators -> Deeds]
  BY DEF IInv, TypeOK, Deeds
<1> DEFINE row == [NoDeed EXCEPT !.at = how]
<1>2. row \in Deeds /\ row.at # "read"
  <2>1. NoDeed \in Deeds
    BY EmptyDeed
  <2> QED BY <2>1 DEF Deeds
<1>3. deed' = [deed EXCEPT ![d] = row]
  OBVIOUS
<1> HIDE DEF row
<1>4. deed'[d] = row
  BY <1>1, <1>3
<1> QED BY <1>1, <1>2, <1>3, <1>4 DEF DeedInv

\* Freezing and opening change no message: the row that was read is still the room,
\* and its window the end of the archive.
LEMMA ModerateStep ==
  ASSUME IInv, NEW d \in Moderators, Moderate(d)
  PROVE  IInv' /\ archive' = archive
<1>1. /\ deed[d].at = "read" /\ room.rev = deed[d].row.rev
      /\ archive' = Judged(archive, deed[d].row.window)
      /\ room' = [rev |-> room.rev + 1, frozen |-> deed[d].freeze, window |-> Latest(archive')]
      /\ deed' = [deed EXCEPT ![d] = [NoDeed EXCEPT !.at = "done"]]
      /\ UNCHANGED <<course, pages, post, at, verdicts>>
  BY DEF Moderate
<1>2. /\ archive \in Seq(Entries) /\ room.rev \in Nat /\ deed[d].freeze \in BOOLEAN
      /\ UniqueIds(archive) /\ room.window = Latest(archive) /\ Ids(archive) \subseteq Heard
      /\ DeedInv(d)
  BY DEF IInv, RoomInv, TypeOK, Rooms
<1>3. deed[d].row.window = Latest(archive)
  BY <1>1, <1>2 DEF DeedInv
<1>4. Latest(archive) \in Seq(Entries)
  BY <1>2, LatestFacts
<1>5. archive' = archive
  BY <1>1, <1>2, <1>3, <1>4, JudgedFacts
<1> DEFINE window == Latest(archive)
<1>6. room' = [rev |-> room.rev + 1, frozen |-> deed[d].freeze, window |-> window]
  BY <1>1, <1>5
<1>7. window \in Seq(Entries)
  BY <1>4
<1> HIDE DEF window
<1>8. room' \in Rooms /\ room'.rev = room.rev + 1 /\ room'.window = window
  BY <1>2, <1>6, <1>7 DEF Rooms
<1>9. /\ deed' \in [Moderators -> Deeds] /\ DeedInv(d)'
      /\ \A e \in Moderators \ {d} : deed'[e] = deed[e]
  BY <1>1, DeedEnds
<1>10. TypeOK'
  BY <1>1, <1>5, <1>8, <1>9 DEF IInv, TypeOK, Deeds, pages
<1>11. Spoken' = Spoken /\ Heard' = Heard
  BY <1>1 DEF Spoken, Heard
<1>12. RoomMoves
  <2>1. UniqueIds(archive') /\ Ids(archive') = Ids(archive) /\ Latest(archive') = window
    BY <1>2, <1>5 DEF window
  <2> QED BY <1>2, <1>8, <1>11, <2>1 DEF RoomMoves
<1>13. /\ RoomInv'
       /\ \A t \in Tabs : ScreenInv(t)' /\ AnswerInv(t)'
       /\ \A q \in Posts : PostInv(q)'
       /\ \A e \in Moderators \ {d} : DeedInv(e)'
  BY <1>1, <1>9, <1>10, <1>11, <1>12, Kept DEF pages
<1> QED BY <1>5, <1>9, <1>10, <1>13 DEF IInv

\* A moderator who was overtaken reads again, or gives up.
LEMMA ModerateAgainStep == ASSUME IInv, NEW d \in Moderators, ModerateAgain(d) PROVE IInv'
<1>1. deed[d].at = "read" /\ UNCHANGED <<course, room, archive, pages, post, at, verdicts>>
  BY DEF ModerateAgain
<1>2. /\ deed' \in [Moderators -> Deeds] /\ DeedInv(d)'
      /\ \A e \in Moderators \ {d} : deed'[e] = deed[e]
  <2>1. CASE ~(deed[d].attempt < 2)
    <3>1. deed' = [deed EXCEPT ![d] = [NoDeed EXCEPT !.at = "refused"]]
      BY <2>1 DEF ModerateAgain
    <3> QED BY <3>1, DeedEnds
  <2>2. CASE deed[d].attempt < 2
    <3>1. deed' = [deed EXCEPT ![d].row = room, ![d].attempt = @ + 1]
      BY <2>2 DEF ModerateAgain
    <3>2. /\ deed \in [Moderators -> Deeds] /\ room \in Rooms /\ room.rev \in Nat
          /\ deed[d] \in Deeds /\ deed[d].attempt + 1 \in 0..2
      BY <2>2 DEF IInv, TypeOK, Deeds, Rooms
    <3> DEFINE row == [deed[d] EXCEPT !.row = room, !.attempt = deed[d].attempt + 1]
    <3>3. row \in Deeds /\ row.row = room
      BY <3>2 DEF Deeds
    <3>4. deed' = [deed EXCEPT ![d] = row]
      BY <3>1
    <3> HIDE DEF row
    <3>5. deed' \in [Moderators -> Deeds] /\ deed'[d] = row
          /\ \A e \in Moderators \ {d} : deed'[e] = deed[e]
      BY <3>2, <3>3, <3>4
    <3>6. room' = room /\ room.rev <= room.rev
      BY <1>1, <3>2
    <3> QED BY <3>3, <3>5, <3>6 DEF DeedInv
  <2> QED BY <2>1, <2>2
<1>3. TypeOK'
  BY <1>1, <1>2 DEF IInv, TypeOK, Deeds, pages
<1>4. Spoken' = Spoken
  BY <1>1 DEF Spoken
<1>5. /\ RoomInv'
      /\ \A t \in Tabs : ScreenInv(t)' /\ AnswerInv(t)'
      /\ \A q \in Posts : PostInv(q)'
      /\ \A e \in Moderators \ {d} : DeedInv(e)'
  BY <1>1, <1>2, <1>3, <1>4, Kept DEF pages
<1> QED BY <1>2, <1>3, <1>5 DEF IInv
-----------------------------------------------------------------------------
\* The invariant holds at the start.
LEMMA InitIInv == Init => IInv
<1> SUFFICES ASSUME Init PROVE IInv
  OBVIOUS
<1>1. /\ course = "open" /\ room = NoRoom /\ archive = <<>>
      /\ screen = [t \in Tabs |-> <<>>] /\ answer = [t \in Tabs |-> {}] /\ replayed = [t \in Tabs |-> {}]
      /\ post = [p \in Posts |-> NoPost] /\ at = [p \in Posts |-> "idle"]
      /\ replied = {} /\ deed = [d \in Moderators |-> NoDeed] /\ verdicts = 0
  BY DEF Init
<1>2. NoRoom \in Rooms
  BY EmptyRoom
<1>3. post \in [Posts -> Requests]
  <2>1. ASSUME NEW p \in Posts PROVE NoPost \in Requests
    <3>1. PICK t : t \in Tabs
      BY TeachersAssumption
    <3> QED BY <3>1, EmptyPost
  <2> QED BY <1>1, <2>1
<1>4. deed \in [Moderators -> Deeds]
  BY <1>1, EmptyDeed
<1>5. screen \in [Tabs -> Seq(Messages)] /\ answer \in [Tabs -> SUBSET Seq(Messages)]
      /\ archive \in Seq(Entries) /\ 0 \in 0..MaxVerdicts
  BY <1>1, BoundsAssumption
<1>6. TypeOK
  BY <1>1, <1>2, <1>3, <1>4, <1>5 DEF TypeOK, Requests, Deeds
<1>7. RoomInv
  <2>1. Len(archive) = 0 /\ DOMAIN archive = 1..0
    BY <1>1, <1>5
  <2>2. \A i \in DOMAIN archive : FALSE
    BY <2>1
  <2>3. UniqueIds(archive) /\ Ids(archive) = {}
    BY <2>2 DEF UniqueIds, Ids
  <2>4. Latest(archive) \in Seq(Entries) /\ Len(Latest(archive)) = 0
    <3> DEFINE from == IF Len(archive) > MaxMessages THEN Len(archive) - MaxMessages ELSE 0
    <3>1. /\ Latest(archive) \in Seq(Entries) /\ Len(Latest(archive)) = Len(archive) - from
          /\ from \in 0..Len(archive)
      BY <1>5, LatestFacts
    <3>2. Len(archive) = 0
      BY <2>1
    <3> HIDE DEF from
    <3>3. from = 0
      BY <3>1, <3>2
    <3> QED BY <3>1, <3>2, <3>3
  <2>5. room.window = <<>>
    BY <1>1 DEF NoRoom
  <2> QED BY <2>3, <2>4, <2>5 DEF RoomInv
<1>8. ASSUME NEW t \in Tabs PROVE ScreenInv(t) /\ AnswerInv(t)
  <2>1. screen[t] = <<>> /\ answer[t] = {}
    BY <1>1
  <2> QED BY <2>1, NothingSent DEF ScreenInv, AnswerInv
<1>9. ASSUME NEW p \in Posts PROVE PostInv(p)
  <2>1. post[p].sends = <<>> /\ post[p].turns = <<>> /\ at[p] = "idle"
    BY <1>1 DEF NoPost
  <2>2. Distinct(post[p].sends) /\ Distinct(post[p].turns) /\ ToSet(post[p].sends) = {}
    BY <2>1, NothingSent
  <2> QED BY <2>1, <2>2 DEF PostInv
<1>10. ASSUME NEW d \in Moderators PROVE DeedInv(d)
  BY <1>1 DEF DeedInv, NoDeed
<1> QED BY <1>6, <1>7, <1>8, <1>9, <1>10 DEF IInv

\* Every step keeps the invariant.
LEMMA NextIInv == IInv /\ [Next]_vars => IInv'
<1> SUFFICES ASSUME IInv, [Next]_vars PROVE IInv'
  OBVIOUS
<1>1. ASSUME NEW t \in Tabs, ReadRoom(t) \/ TakeAnswer(t) PROVE IInv'
  BY <1>1, ReadRoomStep, TakeAnswerStep
<1>2. ASSUME NEW p \in Posts, NEW t \in Tabs, Send(p, t) PROVE IInv'
  BY <1>2, SendStep
<1>3. ASSUME NEW p \in Posts, NEW t \in Tabs, NEW m \in Posts, Resend(p, t, m) PROVE IInv'
  BY <1>3, ResendStep
<1>4. ASSUME NEW p \in Posts, Reply(p) PROVE IInv'
  BY <1>4, ReplyStep
<1>5. ASSUME NEW p \in Posts, LoseReply(p) PROVE IInv'
  <2>1. course' \in {"open", "closed"} /\ replied' \subseteq Posts
    BY <1>5 DEF LoseReply, IInv, TypeOK
  <2> QED BY <1>5, <2>1, StillStep DEF LoseReply
<1>6. ASSUME NEW p \in Posts, Store(p) PROVE IInv'
  BY <1>6, StoreStep
<1>7. ASSUME NEW p \in Posts, StoreClosed(p) PROVE IInv'
  BY <1>7, EndedStep DEF StoreClosed
<1>8. ASSUME NEW p \in Posts, Retry(p) PROVE IInv'
  BY <1>8, RetryStep
<1>9. ASSUME NEW p \in Posts, GiveUp(p) PROVE IInv'
  BY <1>9, EndedStep DEF GiveUp
<1>10. ASSUME NEW m \in Messages, NEW status \in {"hidden", "visible"}, Judge(m, status) PROVE IInv'
  BY <1>10, JudgeStep
<1>11. ASSUME NEW t \in TeacherTabs, NEW m \in Messages, DropHidden(t, m) PROVE IInv'
  <2>1. t \in Tabs
    BY TeachersAssumption
  <2> QED BY <1>11, <2>1, DropHiddenStep
<1>12. ASSUME NEW d \in Moderators, NEW freeze \in BOOLEAN, ReadToModerate(d, freeze) PROVE IInv'
  BY <1>12, ReadToModerateStep
<1>13. ASSUME NEW d \in Moderators, Moderate(d) PROVE IInv'
  BY <1>13, ModerateStep
<1>14. ASSUME NEW d \in Moderators, ModerateAgain(d) PROVE IInv'
  BY <1>14, ModerateAgainStep
<1>15. CASE CloseRecords
  <2>1. course' \in {"open", "closed"} /\ replied' \subseteq Posts
    BY <1>15 DEF CloseRecords, IInv, TypeOK, pages
  <2> QED BY <1>15, <2>1, StillStep DEF CloseRecords, pages
<1>16. CASE UNCHANGED vars
  <2>1. course' \in {"open", "closed"} /\ replied' \subseteq Posts
    BY <1>16 DEF vars, IInv, TypeOK
  <2> QED BY <1>16, <2>1, StillStep DEF vars
<1> QED
  BY <1>1, <1>2, <1>3, <1>4, <1>5, <1>6, <1>7, <1>8, <1>9, <1>10, <1>11, <1>12, <1>13, <1>14,
     <1>15, <1>16 DEF Next
-----------------------------------------------------------------------------
\* Types of the room, its archive, the pages, the POSTs and the moderators (use-
\* learning-chatroom.ts, handler.ts, learning-chatroom-transcript-store.ts).
THEOREM TypeCorrect == Spec => []TypeOK
<1>1. IInv => TypeOK
  BY DEF IInv
<1> QED BY InitIInv, NextIInv, <1>1, PTL DEF Spec

\* The window of the room is the end of its archive and no message is stored twice,
\* for any members, requests and sizes of the window (write and moderateArchive in
\* learning-chatroom-transcript-postgres-store.ts).
THEOREM WindowCorrect == Spec => []WindowIsArchiveTail
<1>1. IInv => WindowIsArchiveTail
  BY DEF IInv, RoomInv, UniqueIds, WindowIsArchiveTail
<1> QED BY InitIInv, NextIInv, <1>1, PTL DEF Spec

\* A POST answered as persisted has all it sent in the archive, however often it
\* was overtaken (appendLearningChatroomTranscriptMessagesLocked).
THEOREM NothingLost == Spec => []PersistedIsKept
<1>1. IInv => PersistedIsKept
  BY DEF IInv, PostInv, PersistedIsKept
<1> QED BY InitIInv, NextIInv, <1>1, PTL DEF Spec

\* The archive changes with a POST that is stored, a verdict and a freeze.
LEMMA ArchiveMoves ==
  ASSUME Next, archive' # archive
  PROVE  \/ \E p \in Posts : Store(p)
         \/ \E m \in Messages, status \in {"hidden", "visible"} : Judge(m, status)
         \/ \E d \in Moderators : Moderate(d)
<1> USE DEF pages
<1>1. \A t \in Tabs : ~ReadRoom(t) /\ ~TakeAnswer(t) /\ \A p \in Posts : ~Send(p, t) /\ \A m \in Posts : ~Resend(p, t, m)
  BY DEF ReadRoom, TakeAnswer, Send, Resend
<1>2. \A p \in Posts : ~Reply(p) /\ ~LoseReply(p) /\ ~StoreClosed(p) /\ ~Retry(p) /\ ~GiveUp(p)
  BY DEF Reply, LoseReply, StoreClosed, Retry, GiveUp
<1>3. \A t \in TeacherTabs, m \in Messages : ~DropHidden(t, m)
  BY DEF DropHidden
<1>4. \A d \in Moderators : ~ModerateAgain(d) /\ \A freeze \in BOOLEAN : ~ReadToModerate(d, freeze)
  BY DEF ModerateAgain, ReadToModerate
<1>5. ~CloseRecords
  BY DEF CloseRecords
<1> QED BY <1>1, <1>2, <1>3, <1>4, <1>5 DEF Next

\* A stored message keeps its place, and its moderation but for a teacher's
\* verdict: neither resends of old transcripts nor a freeze prepared from an older
\* room change it (moderateArchive, write).
THEOREM VerdictsStand == Spec => StoredStaysAsJudged
<1> DEFINE A == \A i \in DOMAIN archive :
       /\ i \in DOMAIN archive' /\ archive'[i].id = archive[i].id
       /\ archive'[i].moderation # archive[i].moderation => verdicts' # verdicts
<1>1. IInv /\ [Next]_vars => [A]_vars
  <2> SUFFICES ASSUME IInv, Next, archive' # archive PROVE A
    BY DEF vars
  <2>1. ASSUME NEW p \in Posts, Store(p) PROVE A
    BY <2>1, StoreStep
  <2>2. ASSUME NEW m \in Messages, NEW status \in {"hidden", "visible"}, Judge(m, status) PROVE A
    BY <2>2, JudgeStep
  <2>3. ASSUME NEW d \in Moderators, Moderate(d) PROVE A
    BY <2>3, ModerateStep
  <2> QED BY <2>1, <2>2, <2>3, ArchiveMoves
<1> QED BY InitIInv, NextIInv, <1>1, PTL DEF Spec, StoredStaysAsJudged

\* A frozen room takes messages of teachers only, and a room with closed records
\* none, the requests that had read it before included (the check at every attempt,
\* and the revision compared by write).
THEOREM FreezeHolds == Spec => FrozenStaysSilent
<1> DEFINE A == \A i \in DOMAIN archive' \ DOMAIN archive :
       /\ course = "open"
       /\ room.frozen => \E p \in Posts : /\ at[p] # "done" /\ at'[p] = "done"
                                          /\ post[p].tab \in TeacherTabs
<1>1. IInv /\ [Next]_vars => [A]_vars
  <2> SUFFICES ASSUME IInv, Next, archive' # archive PROVE A
    BY DEF vars
  <2>1. ASSUME NEW p \in Posts, Store(p) PROVE A
    BY <2>1, StoreStep
  <2>2. ASSUME NEW m \in Messages, NEW status \in {"hidden", "visible"}, Judge(m, status) PROVE A
    BY <2>2, JudgeStep
  <2>3. ASSUME NEW d \in Moderators, Moderate(d) PROVE A
    BY <2>3, ModerateStep
  <2> QED BY <2>1, <2>2, <2>3, ArchiveMoves
<1> QED BY InitIInv, NextIInv, <1>1, PTL DEF Spec, FrozenStaysSilent
=============================================================================
