------------------------- MODULE SubmissionRefinement -------------------------
(***************************************************************************)
(* The command store implements the lifecycle: a sealed version is a round *)
(* handed in, and the feedback row last released for it holds its verdict. *)
(***************************************************************************)
EXTENDS SubmissionLoop

\* Evidence that is not empty, enumerated rather than taken from a record set: TLC's
\* workers share the elements of a constant record set.
Accountable ==
  {evidence \in {[text |-> text, images |-> shown] : text \in Contents,
                                                    shown \in SUBSET Images} :
     HasEvidence(evidence)}

SealedVersions == {v \in 1..Latest : versions[v].status = "sealed"}
Decisions(v) == {i \in DOMAIN released : released[i].version = v}
LastDecision(v) == CHOOSE i \in Decisions(v) : \A j \in Decisions(v) : j <= i
Rounds ==
  [v \in 1..Cardinality(SealedVersions) |->
    [evidence |-> versions[v].evidence,
     verdict |-> IF Decisions(v) = {} THEN "undecided"
                 ELSE released[LastDecision(v)].verdict]]

Lifecycle == INSTANCE SubmissionLifecycle
  WITH Evidence <- Accountable, Verdicts <- Verdicts,
       rounds <- Rounds, records <- retention

\* Every behaviour of the store is a behaviour of the lifecycle: evidence is handed
\* in once per round and stays, every round gets at most one verdict, in order, and
\* nothing comes back after the purge.
ImplementsLifecycle == Lifecycle!Spec
=============================================================================
