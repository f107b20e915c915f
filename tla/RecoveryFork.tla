---------------------------- MODULE RecoveryFork ----------------------------
(***************************************************************************)
(* Comparison of two recovered histories and the operator's choice between *)
(* them (internal/recovery/fork.go, resolution.go), as operators.  A       *)
(* history is the list of its commit identities, the root first.           *)
(***************************************************************************)
EXTENDS Naturals, Sequences, FiniteSets, SequencesExt

validateHistory(history) == history # << >> /\ IsInjective(history)

(* The loop of Classify: how many commits the two have in common.          *)
CommonLength(a, b) ==
  Cardinality({n \in 1..Len(a) : n <= Len(b) /\ SubSeq(a, 1, n) = SubSeq(b, 1, n)})

(* Variant: only the heads are compared.                                   *)
ClassifyByHeads(a, b) ==
  [kind |-> IF a[Len(a)] = b[Len(b)] THEN "identical" ELSE "divergent",
   ancestor |-> a[1], headA |-> a[Len(a)], headB |-> b[Len(b)]]

Classify(a, b) ==
  LET common == CommonLength(a, b)
  IN  [kind |-> CASE common = 0 -> "unrelated"
                  [] common > 0 /\ common = Len(a) /\ common = Len(b) -> "identical"
                  [] common > 0 /\ common < Len(a) /\ common = Len(b) -> "a_descends_b"
                  [] common > 0 /\ common = Len(a) /\ common < Len(b) -> "b_descends_a"
                  [] OTHER -> "divergent",
       ancestor |-> IF common = 0 THEN << >> ELSE a[common],
       headA |-> a[Len(a)], headB |-> b[Len(b)]]

(* OpenForkCase takes only histories of which neither continues the other. *)
ForkRequired(a, b) ==
  /\ validateHistory(a) /\ validateHistory(b)
  /\ Classify(a, b).kind \in {"divergent", "unrelated"}

OpenForkCase(a, b) == [status |-> "open", fork |-> Classify(a, b)]

(* ValidateResolution: one head is selected, the other one is rejected and *)
(* preserved; signed says that actor, decision, reason and time are given. *)
ValidateResolution(case, candidate) ==
  LET heads == {case.fork.headA, case.fork.headB}
  IN  /\ case.status = "open"
      /\ candidate.selected \in heads
      /\ heads = {candidate.selected, candidate.rejected}
      /\ candidate.signed /\ candidate.preserved
=============================================================================
