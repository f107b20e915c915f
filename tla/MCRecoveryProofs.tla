-------------------------- MODULE MCRecoveryProofs ---------------------------
(***************************************************************************)
(* A small instance of RecoveryProofs for TLC: two directories, the ledger *)
(* with one commit to start with.                                          *)
(***************************************************************************)
EXTENDS RecoveryProofs

CONSTANTS d1, d2, base, w1, w2

Ledger(history) == [d \in Dirs |-> IF d = d1 THEN history ELSE << "y" >>]

(* Two recovery proofs against a filesystem in motion; a load proof over a *)
(* ledger that goes on; a restore that is complete, too old or too new.    *)
Scenario(task, callers, env, budget, history, changes) ==
  [task |-> task, callers |-> callers, env |-> env, moves |-> budget, ledger |-> d1,
   ref |-> Ledger(history), primary |-> << "x" >>, changes |-> changes]

MCScenarios ==
  {Scenario("prove", {base, w1}, {"swap", "tamper", "advance", "close"}, 2, << "x" >>, {"x"}),
   Scenario("prove", {base}, {"swap", "tamper", "advance", "close"}, 4, << "x" >>, {"x"}),
   Scenario("load", {}, {"advance", "cancel"}, 0, << "x" >>, {"x"}),
   Scenario("load", {}, {"close"}, 0, << "x" >>, {"x"})}
  \cup
  {Scenario("restore", {}, {"io", "advance", "backup", "primary", "fork"}, 0, h, {"x", "y"}) :
     h \in {<< "x" >>, << "x", "y" >>, << "y" >>}}

Sampled(u, h, a) == [use |-> u, handles |-> h, available |-> a]

(* Calm, busy, beyond every limit, and without the handle metric.          *)
MCSnapshots == {Sampled(0, 0, TRUE), Sampled(1, 1, TRUE), Sampled(2, 2, TRUE),
                Sampled(0, 0, FALSE)}

Declared(W, n, settled, req) ==
  [workers |-> W, iterations |-> n, peakUse |-> 1, settledUse |-> settled,
   peakHandles |-> 1, settledHandles |-> 0, required |-> req]

(* One is invalid: its settled limit is above its peak limit.              *)
MCEnvelopes == {Declared({w1, w2}, 1, 0, TRUE), Declared({w1}, 2, 1, FALSE),
                Declared({w1}, 1, 2, TRUE)}

Document(second, evidence, whole) ==
  [intact |-> whole, primaryDomain |-> 1, secondaryDomain |-> second,
   capturedAt |-> 0, restoredAt |-> 1, evidence |-> evidence]

MCProvenances == {Document(2, << 1, 2 >>, TRUE), Document(1, << 1 >>, TRUE)}
=============================================================================
