-------------------------- MODULE SubmissionLifecycle --------------------------
(***************************************************************************)
(* What the learning loop promises its users about one student's work on   *)
(* one activity, with no drafts, rows, keys or retries: a sequence of      *)
(* rounds.  A round opens when evidence is handed in and ends with one     *)
(* verdict by someone who had read that evidence.  A request for revision  *)
(* opens the next round, an acceptance ends the work.  Nothing handed in   *)
(* or decided changes until the course erases everything.                  *)
(***************************************************************************)
EXTENDS Naturals, Sequences

CONSTANTS
  Evidence,      \* what a student may hand in
  Verdicts       \* request-revision and accept

VARIABLES
  rounds,        \* the rounds so far
  records        \* open, closed to students, or erased for good

Undecided == "undecided"
Rounds == [evidence: Evidence, verdict: Verdicts \cup {Undecided}]

Last == rounds[Len(rounds)]
MayHandIn == rounds = <<>> \/ Last.verdict = "request-revision"

Init == rounds = <<>> /\ records = "open"

HandIn(evidence) ==
  /\ records = "open" /\ MayHandIn
  /\ rounds' = Append(rounds, [evidence |-> evidence, verdict |-> Undecided])
  /\ UNCHANGED records

\* The verdict is on the evidence the reader had read.
Judge(evidence, verdict) ==
  /\ records # "purged"
  /\ rounds # <<>> /\ Last = [evidence |-> evidence, verdict |-> Undecided]
  /\ rounds' = [rounds EXCEPT ![Len(rounds)].verdict = verdict]
  /\ UNCHANGED records

Close == records = "open" /\ records' = "closed" /\ UNCHANGED rounds
Erase == records = "closed" /\ records' = "purged" /\ rounds' = <<>>

Next ==
  \/ \E evidence \in Evidence :
       HandIn(evidence) \/ \E verdict \in Verdicts : Judge(evidence, verdict)
  \/ Close \/ Erase

Spec == Init /\ [][Next]_<<rounds, records>>
=============================================================================
