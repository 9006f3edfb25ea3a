----------------------- MODULE SubmissionRefinementProofs -----------------------
(***************************************************************************)
(* The command store implements the lifecycle, for every value of the      *)
(* constants.  A hand-in is a hand-in, a verdict a verdict, the purge      *)
(* erases, closing the records closes them, and every other step leaves    *)
(* the rounds as they are.                                                 *)
(***************************************************************************)
EXTENDS SubmissionRefinement, SubmissionHistoryProofs

\* A round as the tables hold it.
Round(v) == [evidence |-> versions[v].evidence,
             verdict |-> IF v <= Judged THEN released[v].verdict ELSE "undecided"]

\* The rounds of the lifecycle, as the refinement reads them from the tables, are
\* the versions handed in, with the verdict of the feedback row of the same number.
LEMMA RoundsAre ==
  TypeOK /\ VersionsFollowState /\ FeedbackInv
    => Handed \in Nat /\ Rounds = [v \in 1..Handed |-> Round(v)]
<1> SUFFICES ASSUME TypeOK, VersionsFollowState, FeedbackInv
             PROVE  Handed \in Nat /\ Rounds = [v \in 1..Handed |-> Round(v)]
  OBVIOUS
<1>1. /\ Handed \in Nat /\ Judged \in Nat /\ Handed <= Latest /\ Latest \in Nat
      /\ \A v \in Nat : Sealed(v) <=> v \in 1..Handed
  BY RoundFacts
<1>2. SealedVersions = 1..Handed
  BY <1>1 DEF SealedVersions, Sealed
<1>3. Cardinality(SealedVersions) = Handed
  BY <1>1, <1>2, FS_Interval
<1>4. DOMAIN released = 1..Judged /\ \A i \in 1..Judged : released[i].version = i
  BY DEF FeedbackInv, TypeOK
<1>5. ASSUME NEW v \in 1..Handed
      PROVE  /\ v <= Judged => Decisions(v) = {v} /\ LastDecision(v) = v
             /\ ~(v <= Judged) => Decisions(v) = {}
  <2>1. ASSUME v <= Judged PROVE Decisions(v) = {v}
    BY <1>1, <1>4, <2>1 DEF Decisions
  <2>2. ASSUME v <= Judged PROVE LastDecision(v) = v
    <3>1. v <= v
      OBVIOUS
    <3> QED BY <2>1, <2>2, <3>1 DEF LastDecision
  <2>3. ASSUME ~(v <= Judged) PROVE Decisions(v) = {}
    BY <1>1, <1>4, <2>3 DEF Decisions
  <2> QED BY <2>1, <2>2, <2>3
<1>6. ASSUME NEW v \in 1..Handed
      PROVE  (IF Decisions(v) = {} THEN "undecided" ELSE released[LastDecision(v)].verdict)
               = (IF v <= Judged THEN released[v].verdict ELSE "undecided")
  BY <1>5
<1> QED BY <1>1, <1>3, <1>6 DEF Rounds, Round

\* Evidence that was handed in is not empty.
Accounted == \A v \in 1..Handed :
  versions[v].evidence \in Evidence /\ HasEvidence(versions[v].evidence)

\* What was handed in stays until it is purged.
LEMMA HandedStays ==
  ASSUME TypeOK, VersionsFollowState, PurgeIsFinal, SealedStays, RoundStep
  PROVE  AllGone \/ \A v \in 1..Handed : versions'[v] = versions[v]
<1>1. /\ Handed \in Nat /\ Handed <= Latest /\ Latest \in Nat
      /\ \A v \in Nat : Sealed(v) <=> v \in 1..Handed
  BY RoundFacts
<1>2. CASE retention' # "purged"
  BY <1>1, <1>2 DEF SealedStays
<1>3. CASE retention = "purged"
  <2>1. Latest = 0
    BY <1>3 DEF PurgeIsFinal, Latest
  <2> QED BY <1>1, <2>1
<1>4. CASE retention' = "purged" /\ retention # "purged"
  BY <1>4 DEF RoundStep, NoRound, Noted, HandedIn, Judges
<1> QED BY <1>2, <1>3, <1>4

\* Every round handed in had evidence, and keeps it.
LEMMA AccountedRound ==
  ASSUME TypeOK, VersionsFollowState, PurgeIsFinal, SealedStays, RoundStep, Accounted
  PROVE  Accounted'
<1>1. Handed \in Nat
  BY RoundFacts
<1>2. CASE AllGone
  BY <1>2 DEF AllGone, Accounted
<1>3. CASE ~AllGone
  <2>1. \A v \in 1..Handed : versions'[v] = versions[v]
    BY <1>3, HandedStays
  <2>2. CASE Handed' = Handed
    BY <2>1, <2>2 DEF Accounted, HasEvidence
  <2>3. CASE \E k \in Keys, kind \in SubmitKinds : HandedIn(k, kind)
    <3>1. PICK k \in Keys, kind \in SubmitKinds : HandedIn(k, kind)
      BY <2>3
    <3>2. PICK h \in Nat : h = Handed + 1
      BY <1>1
    <3>3. /\ Handed' = h
          /\ versions'[h].evidence \in Evidence /\ HasEvidence(versions'[h].evidence)
      BY <3>1, <3>2 DEF HandedIn
    <3>4. \A v \in 1..Handed' : v = h \/ v \in 1..Handed
      BY <1>1, <3>2, <3>3
    <3>5. \A v \in 1..Handed' :
            versions'[v].evidence \in Evidence /\ HasEvidence(versions'[v].evidence)
      BY <2>1, <3>3, <3>4 DEF Accounted
    <3> QED BY <3>5 DEF Accounted, HasEvidence
  <2> QED BY <1>3, <2>2, <2>3 DEF RoundStep, NoRound, Noted, Judges
<1> QED BY <1>2, <1>3

\* What the refinement rests on.
Ready == History /\ PurgeIsFinal /\ Accounted

\* What the refinement needs is kept by every step.
LEMMA ReadyStep == Ready /\ [Next]_vars => Ready' /\ RoundStep /\ SealedStays
<1> SUFFICES ASSUME Ready, [Next]_vars PROVE Ready' /\ RoundStep /\ SealedStays
  OBVIOUS
<1>1. /\ History /\ PurgeIsFinal /\ Accounted
      /\ TypeOK /\ VersionsFollowState /\ ReceiptsInv
  BY DEF Ready, History, VersionsStory
<1>2. RoundStep /\ SealedStays
  BY <1>1, EachStepIsARound, SealedStep
<1>3. History' /\ PurgeIsFinal' /\ Accounted'
  BY <1>1, <1>2, HistoryStep, PurgeStep, AccountedRound
<1> QED BY <1>2, <1>3 DEF Ready

\* And holds at the start.
LEMMA ReadyInit == Init => Ready
<1>1. Init => Handed = 0 /\ PurgeIsFinal
  BY DEF Init, Handed, Latest, Absent, PurgeIsFinal
<1> QED BY <1>1, HistoryInit DEF Ready, Accounted

\* Evidence of the store that is not empty is evidence of the lifecycle.
LEMMA EvidenceOfRound ==
  ASSUME NEW e \in Evidence, HasEvidence(e)
  PROVE  e \in Accountable
BY DEF Evidence, Accountable, HasEvidence

-----------------------------------------------------------------------------
\* The store starts as the lifecycle does.
LEMMA LifecycleInit == Init => Lifecycle!Init
<1> SUFFICES ASSUME Init PROVE Rounds = <<>> /\ retention = "open"
  BY DEF Lifecycle!Init
<1>1. Cardinality(SealedVersions) = 0
  <2>1. SealedVersions = {}
    BY DEF Init, SealedVersions, Latest
  <2> QED BY <2>1, FS_EmptySet
<1>2. Rounds = <<>>
  BY <1>1 DEF Rounds
<1> QED BY <1>2 DEF Init

\* The rounds of the lifecycle, round by round.
RoundsMatch ==
  /\ Handed \in Nat /\ Judged \in Nat /\ Judged <= Handed
  /\ Rounds = [v \in 1..Handed |-> Round(v)]

\* The rounds before a step.
LEMMA RoundsNow == Ready => RoundsMatch
<1> SUFFICES ASSUME Ready PROVE RoundsMatch
  OBVIOUS
<1>1. TypeOK /\ VersionsFollowState /\ FeedbackInv
  BY DEF Ready, History, VersionsStory
<1> QED BY <1>1, RoundsAre, RoundFacts DEF RoundsMatch

\* The rounds after it.
LEMMA RoundsNext == Ready' => RoundsMatch'
BY RoundsNow, PTL

\* The same verdicts on the same evidence are the same rounds.
LEMMA RoundsStill ==
  ASSUME RoundsMatch, RoundsMatch', Handed' = Handed, Judged' = Judged, UNCHANGED released,
         \A v \in 1..Handed : versions'[v] = versions[v]
  PROVE  Rounds' = Rounds
<1>1. /\ Handed \in Nat /\ Rounds = [v \in 1..Handed |-> Round(v)]
      /\ Rounds' = [v \in 1..Handed' |-> Round(v)']
  BY DEF RoundsMatch
<1>2. ASSUME NEW v \in 1..Handed PROVE Round(v)' = Round(v)
  BY DEF Round
<1> QED BY <1>1, <1>2

\* A submit is a hand-in of the lifecycle: the round before it, if any, was sent
\* back.
LEMMA HandInStep ==
  ASSUME Ready, RoundsMatch, RoundsMatch', NEW k \in Keys, NEW kind \in SubmitKinds,
         HandedIn(k, kind), \A v \in 1..Handed : versions'[v] = versions[v]
  PROVE  Lifecycle!Next
<1>0. /\ Handed \in Nat /\ Judged = Handed
      /\ Rounds = [v \in 1..Handed |-> Round(v)]
      /\ Rounds' = [v \in 1..Handed' |-> Round(v)']
  BY DEF RoundsMatch, HandedIn
<1> PICK h \in Nat : h = Handed + 1
  BY <1>0
<1>1. /\ Handed' = h /\ Judged' = Judged /\ released' = released
      /\ submission.accepted = 0
      /\ retention = "open" /\ retention' = retention
      /\ versions'[h].evidence \in Evidence /\ HasEvidence(versions'[h].evidence)
  BY DEF HandedIn
<1> PICK e \in Evidence : e = versions'[h].evidence /\ HasEvidence(e)
  BY <1>1
<1> DEFINE new == [evidence |-> e, verdict |-> "undecided"]
<1>2. e \in Accountable
  BY EvidenceOfRound
<1>3. Round(h)' = new
  <2>1. ~(h <= Judged')
    BY <1>0, <1>1
  <2> QED BY <2>1 DEF Round
<1>4. ASSUME NEW v \in 1..Handed PROVE Round(v)' = Round(v)
  BY <1>1 DEF Round
<1>5. Rounds' = Append(Rounds, new)
  <2> HIDE DEF new
  <2>1. Rounds' = [v \in 1..h |-> IF v = h THEN new ELSE Round(v)]
    <3>1. \A v \in 1..h : Round(v)' = IF v = h THEN new ELSE Round(v)
      BY <1>0, <1>3, <1>4
    <3> QED BY <1>0, <1>1, <3>1
  <2>2. Append(Rounds, new) = [v \in 1..h |-> IF v = h THEN new ELSE Round(v)]
    BY <1>0
  <2> QED BY <2>1, <2>2
<1>6. Lifecycle!MayHandIn
  <2>1. CASE Handed = 0
    BY <1>0, <2>1 DEF Lifecycle!MayHandIn
  <2>2. CASE Handed # 0
    <3>1. Len(Rounds) = Handed /\ Rounds[Handed] = Round(Handed)
      BY <1>0, <2>2
    <3>2. Round(Handed).verdict = released[Handed].verdict
      BY <1>0 DEF Round
    <3>3. released[Handed].verdict = "request-revision"
      <4>1. FeedbackInv /\ released \in Seq(Releases)
        BY DEF Ready, History, TypeOK
      <4>2. Handed \in 1..Judged /\ Len(released) = Judged /\ Handed # submission.accepted
        BY <1>0, <1>1, <2>2, <4>1 DEF FeedbackInv
      <4>3. released[Handed] \in Releases /\ released[Handed].verdict # "accept"
        BY <4>1, <4>2 DEF FeedbackInv
      <4> QED BY <4>3 DEF Releases, Verdicts
    <3> QED BY <3>1, <3>2, <3>3 DEF Lifecycle!MayHandIn, Lifecycle!Last
  <2> QED BY <2>1, <2>2
<1>7. Lifecycle!HandIn(e)
  BY <1>1, <1>5, <1>6 DEF Lifecycle!HandIn, Lifecycle!Undecided
<1> QED BY <1>2, <1>7 DEF Lifecycle!Next

\* A decision is a verdict of the lifecycle on the evidence of the last round.
LEMMA JudgeStep ==
  ASSUME Ready, RoundsMatch, RoundsMatch',
         NEW k \in Keys, NEW page \in Pages, NEW verdict \in Verdicts,
         Judges(k, page, verdict), \A v \in 1..Handed : versions'[v] = versions[v]
  PROVE  Lifecycle!Next
<1>0. /\ Handed \in Nat /\ Judged \in Nat /\ Handed = Judged + 1
      /\ Rounds = [v \in 1..Handed |-> Round(v)]
      /\ Rounds' = [v \in 1..Handed' |-> Round(v)']
  BY DEF RoundsMatch, Judges
<1> PICK h \in Nat \ {0} : h = Handed
  BY <1>0
<1>1. /\ Handed' = h /\ Judged' = h /\ page.version = h
      /\ released' = Append(Supersede(page), [version |-> Handed, status |-> "released",
                                              verdict |-> verdict, seen |-> SeenOn(page)])
      /\ retention # "purged" /\ retention' = retention
  BY <1>0 DEF Judges
<1>2. TypeOK /\ FeedbackInv /\ Accounted
  BY DEF Ready, History
<1>3. Len(released) = Judged
  BY <1>2 DEF FeedbackInv
<1>4. /\ released'[h].verdict = verdict
      /\ \A v \in 1..Judged : released'[v].verdict = released[v].verdict
  <2> DEFINE old == Supersede(page)
             new == [version |-> Handed, status |-> "released",
                     verdict |-> verdict, seen |-> SeenOn(page)]
  <2>1. /\ old \in Seq(Releases) /\ Len(old) = Judged
        /\ \A i \in 1..Judged : old[i].verdict = released[i].verdict
    BY <1>2, <1>3, SupersedeFacts
  <2>2. new.verdict = verdict /\ released' = Append(old, new)
    BY <1>1
  <2> HIDE DEF old, new
  <2>3. /\ released'[h] = new /\ \A v \in 1..Judged : released'[v] = old[v]
    BY <1>0, <2>1, <2>2
  <2> QED BY <2>1, <2>2, <2>3
<1> PICK e \in Evidence : e = versions[h].evidence /\ HasEvidence(e)
  BY <1>2 DEF Accounted
<1>5. e \in Accountable
  BY EvidenceOfRound
<1>6. Round(h) = [evidence |-> e, verdict |-> "undecided"]
  BY <1>0 DEF Round
<1>7. Round(h)' = [evidence |-> e, verdict |-> verdict]
  <2>1. versions'[h].evidence = e
    BY <1>0
  <2>2. h <= Judged'
    BY <1>1
  <2> QED BY <1>4, <2>1, <2>2 DEF Round
<1>8. ASSUME NEW v \in 1..Handed, v # h PROVE Round(v)' = Round(v)
  <2>1. v \in 1..Judged /\ v <= h
    BY <1>0, <1>8
  <2>2. versions'[v] = versions[v] /\ released'[v].verdict = released[v].verdict
    BY <1>4, <2>1
  <2>3. v <= Judged /\ v <= Judged'
    BY <1>0, <1>1, <2>1
  <2> QED BY <2>2, <2>3 DEF Round
<1>9. Len(Rounds) = h /\ Rounds[h] = [evidence |-> e, verdict |-> "undecided"]
  BY <1>0, <1>6
<1>10. Rounds' = [Rounds EXCEPT ![h].verdict = verdict]
  <2>1. [Rounds EXCEPT ![h].verdict = verdict]
          = [v \in 1..Handed |-> IF v = h THEN [evidence |-> e, verdict |-> verdict]
                                          ELSE Rounds[v]]
    <3>1. h \in 1..Handed /\ DOMAIN Rounds = 1..Handed
      BY <1>0
    <3>2. [Rounds[h] EXCEPT !.verdict = verdict] = [evidence |-> e, verdict |-> verdict]
      BY <1>9
    <3>3. [Rounds EXCEPT ![h].verdict = verdict]
            = [Rounds EXCEPT ![h] = [Rounds[h] EXCEPT !.verdict = verdict]]
      OBVIOUS
    <3>4. Rounds = [v \in 1..Handed |-> Rounds[v]]
      BY <1>0
    <3> QED BY <3>1, <3>2, <3>3, <3>4
  <2>2. \A v \in 1..Handed : Round(v)' = IF v = h THEN [evidence |-> e, verdict |-> verdict]
                                          ELSE Rounds[v]
    BY <1>0, <1>7, <1>8
  <2> QED BY <1>0, <1>1, <2>1, <2>2
<1>11. Rounds # <<>>
  BY <1>9
<1>12. Lifecycle!Judge(e, verdict)
  BY <1>1, <1>9, <1>10, <1>11 DEF Lifecycle!Judge, Lifecycle!Last, Lifecycle!Undecided
<1> QED BY <1>5, <1>12 DEF Lifecycle!Next

\* Every step of the store is a step of the lifecycle or none.
LEMMA LifecycleStep ==
  Ready /\ [Next]_vars => [Lifecycle!Next]_<<Rounds, retention>>
<1> SUFFICES ASSUME Ready, [Next]_vars
             PROVE  Lifecycle!Next \/ (Rounds' = Rounds /\ retention' = retention)
  OBVIOUS
<1>1. Ready' /\ RoundStep /\ SealedStays
  BY ReadyStep
<1>2. RoundsMatch /\ RoundsMatch'
  BY <1>1, RoundsNow, RoundsNext
<1>3. CASE AllGone
  <2>1. Rounds' = <<>>
    BY <1>2, <1>3 DEF RoundsMatch, AllGone
  <2>2. Lifecycle!Erase
    BY <1>3, <2>1 DEF AllGone, Lifecycle!Erase
  <2> QED BY <2>2 DEF Lifecycle!Next
<1>4. CASE ~AllGone
  <2>1. \A v \in 1..Handed : versions'[v] = versions[v]
    <3>1. TypeOK /\ VersionsFollowState /\ PurgeIsFinal
      BY DEF Ready, History, VersionsStory
    <3> QED BY <1>1, <1>4, <3>1, HandedStays
  <2>2. CASE NoRound
    <3>1. Rounds' = Rounds
      BY <1>2, <2>1, <2>2, RoundsStill DEF NoRound
    <3> QED BY <2>2, <3>1 DEF NoRound, Lifecycle!Close, Lifecycle!Next
  <2>3. CASE \E k \in Keys, kind \in NotedKinds : Noted(k, kind)
    BY <1>2, <2>1, <2>3, RoundsStill DEF Noted
  <2>4. CASE \E k \in Keys, kind \in SubmitKinds : HandedIn(k, kind)
    BY <1>2, <2>1, <2>4, HandInStep
  <2>5. CASE \E k \in Keys, page \in Pages, verdict \in Verdicts : Judges(k, page, verdict)
    BY <1>2, <2>1, <2>5, JudgeStep
  <2> QED BY <1>1, <1>4, <2>2, <2>3, <2>4, <2>5 DEF RoundStep
<1> QED BY <1>3, <1>4

\* The command store implements the lifecycle: evidence is handed in once per round
\* and stays, every round gets at most one verdict, in order, and nothing comes
\* back after the purge, for any number of tabs, desks, keys, texts, images and
\* bounds.
THEOREM StoreImplementsLifecycle == Spec => ImplementsLifecycle
<1>1. Spec => []Ready
  BY ReadyInit, ReadyStep, PTL DEF Spec
<1> QED
  BY <1>1, LifecycleInit, LifecycleStep, PTL DEF Spec, ImplementsLifecycle, Lifecycle!Spec
=============================================================================
