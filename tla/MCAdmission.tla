---------------------------- MODULE MCAdmission -----------------------------
(***************************************************************************)
(* A small instance of Admission for TLC.  Alice holds two keys and may    *)
(* rotate the policy, Bob may write a record.                              *)
(***************************************************************************)
EXTENDS Admission

CONSTANTS c1, c2, c3

Key(a, k, r)  == [actor |-> a, id |-> k, revoked |-> r]
Grant(a, t)   == [actor |-> a, target |-> t]

MCRootPolicy ==
  [keys |-> {Key("alice", 1, FALSE), Key("bob", 1, FALSE)},
   grants |-> {Grant("alice", PolicyTarget), Grant("bob", "record")}, life |-> 1]

(* Alice's first key is revoked in favour of her second, Bob loses his     *)
(* grant to Alice.                                                         *)
Rotated ==
  [keys |-> {Key("alice", 1, TRUE), Key("alice", 2, FALSE), Key("bob", 1, FALSE)},
   grants |-> {Grant("alice", PolicyTarget), Grant("alice", "record")}, life |-> 2]

MCPolicies == {Rotated, MCRootPolicy}

Signing(l, a, k, t, i, skew, life, good) ==
  [ledger |-> l, actor |-> a, key |-> k, target |-> t, idem |-> i,
   skew |-> skew, life |-> life, good |-> good]

Rotate == Signing("here", "alice", 1, PolicyTarget, "i", 0, 1, TRUE)
Again  == Signing("here", "alice", 2, PolicyTarget, "j", 0, 2, TRUE)
Write  == Signing("here", "bob", 1, "record", "k", 0, 1, TRUE)

(* Each would be refused for one reason.                                   *)
Flawed == {Signing("there", "bob", 1, "record", "k", 0, 1, TRUE),
           Signing("here", "bob", 1, PolicyTarget, "k", 0, 1, TRUE),
           Signing("here", "bob", 2, "record", "k", 0, 1, TRUE),
           Signing("here", "bob", 1, "record", "k", 1, 1, TRUE),
           Signing("here", "bob", 1, "record", "k", 0, 0, TRUE),
           Signing("here", "bob", 1, "record", "k", 0, 2, TRUE),
           Signing("here", "bob", 1, "record", "k", 0, 1, FALSE)}

Scenario(open, cap, clients, ticks, faults, policies, signings) ==
  [gate |-> open, capacity |-> cap, clients |-> clients, ticks |-> ticks,
   faults |-> faults, policies |-> policies, signings |-> signings]

(* A rotation races with writes; the same with failures, time and two      *)
(* policies under one idempotency key; rotation, then revocation; flawed   *)
(* proofs; the gate closed, and slots released twice.                      *)
MCScenarios ==
  {Scenario(TRUE, 2, {c1, c2, c3}, 0, {}, {Rotated}, {Rotate, Write}),
   Scenario(TRUE, 2, {c1, c2}, 1, {"io"}, MCPolicies, {Rotate, Write}),
   Scenario(TRUE, 1, {c1, c2, c3}, 0, {}, {Rotated}, {Rotate, Again}),
   Scenario(TRUE, 1, {c1, c2}, 1, {}, {Rotated}, Flawed \cup {Write}),
   Scenario(FALSE, 1, {c1, c2, c3}, 0, {"twice"}, {}, {Write})}
=============================================================================
