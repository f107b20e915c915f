------------------------------- MODULE Reducer ------------------------------
(***************************************************************************)
(* The exclusive-governed-record-v1 reducer (internal/reducer/record.go)   *)
(* behind its governance checks (applyGovernedRecordEvent of               *)
(* internal/ledger/replay.go), as operators on a projection: a function    *)
(* from the targets that have a record to their states.  JSON values and   *)
(* assertions are compared as values; canonicalisation is what makes that  *)
(* comparison meaningful and is not repeated here.                         *)
(***************************************************************************)
EXTENDS Naturals, Sequences

CONSTANTS PolicyKind,    \* actorauth.PolicyRecordKind
          PolicyTarget,  \* actorauth.PolicyTarget
          PolicyValues,  \* the values that parse as an actor policy
          Nil            \* no value, no previous event, no state

Status == {"active", "revoked"}

(* State of a target.                                                      *)
State(Targets, Kinds, EventIDs, Values) ==
  [target_id : Targets, record_kind : Kinds, status : Status,
   revision : Nat \ {0}, current_event_id : EventIDs,
   previous_event_id : EventIDs \cup {Nil}, value : Values \cup {Nil}]

EmptyProjection == << >>

(* The state a prior assertion must equal; an absent target asserts Nil.   *)
Prior(proj, t) == IF t \in DOMAIN proj THEN proj[t] ELSE Nil

(* The state that the transition of e produces on target t.                *)
Successor(proj, t, e) ==
  IF e.type = "created"
  THEN [target_id |-> t, record_kind |-> e.kind, status |-> "active",
        revision |-> 1, current_event_id |-> e.id,
        previous_event_id |-> Nil, value |-> e.value]
  ELSE [target_id |-> t, record_kind |-> proj[t].record_kind,
        status |-> IF e.type = "revoked" THEN "revoked" ELSE "active",
        revision |-> proj[t].revision + 1, current_event_id |-> e.id,
        previous_event_id |-> proj[t].current_event_id,
        value |-> IF e.type = "revoked" THEN Nil ELSE e.value]

(* validateState on what is already there.                                 *)
ValidState(t, s) ==
  /\ s.target_id = t /\ s.revision # 0
  /\ \/ s.status = "active"  /\ s.value # Nil
     \/ s.status = "revoked" /\ s.value = Nil

(* An actor policy lives at its reserved target and carries a policy.      *)
PolicyConforms(t, e) ==
  e.kind = PolicyKind =>
    /\ t = PolicyTarget
    /\ e.type \in {"created", "replaced"} => e.value \in PolicyValues

(* Variant: a record created again.                                        *)
CreateAgain(proj, t, e) == e.value # Nil

applyCreate(proj, t, e) ==
  /\ t \notin DOMAIN proj
  /\ e.value # Nil

(* Variants: a revoked record may be replaced; the kind is not compared.   *)
ReplaceRevoked(proj, t, e) ==
  t \in DOMAIN proj /\ e.kind = proj[t].record_kind /\ e.value # Nil

ReplaceAnyKind(proj, t, e) ==
  t \in DOMAIN proj /\ proj[t].status # "revoked" /\ e.value # Nil

applyReplace(proj, t, e) ==
  /\ t \in DOMAIN proj
  /\ proj[t].status # "revoked"
  /\ e.kind = proj[t].record_kind
  /\ e.value # Nil

applyRevoke(proj, t, e) ==
  /\ t \in DOMAIN proj
  /\ proj[t].status # "revoked"
  /\ e.kind = proj[t].record_kind
  /\ e.value = Nil

(* Variant: assertions are not compared.                                   *)
AssertionIgnored(asserted, actual) == TRUE

(* requireAssertion: an asserted state must equal the state it asserts.    *)
requireAssertion(asserted, actual) == asserted = actual

(* applyGovernedRecordEvent: the kind has a reducer binding, and the event *)
(* is written under the terms (event schema and authority policy version)  *)
(* of that binding.                                                        *)
Governed(bindings, e) ==
  e.kind \in DOMAIN bindings /\ e.terms = bindings[e.kind]

(* The event is accepted: governed, exactly one target, a transition that  *)
(* the current state allows, and both state assertions exact.              *)
Reduces(proj, bindings, e) ==
  /\ Governed(bindings, e)
  /\ Len(e.targets) = 1
  /\ LET t == e.targets[1]
     IN  /\ PolicyConforms(t, e)
         /\ t \in DOMAIN proj => ValidState(t, proj[t])
         /\ \/ e.type = "created"  /\ applyCreate(proj, t, e)
            \/ e.type = "replaced" /\ applyReplace(proj, t, e)
            \/ e.type = "revoked"  /\ applyRevoke(proj, t, e)
         /\ requireAssertion(e.prior_state, Prior(proj, t))
         /\ requireAssertion(e.resulting_state, Successor(proj, t, e))

(* The projection afterwards.                                              *)
Apply(proj, e) ==
  LET t == e.targets[1]
  IN  [u \in DOMAIN proj \cup {t} |->
         IF u = t THEN Successor(proj, t, e) ELSE proj[u]]

(* The projection Replay builds from the first n events of a history.      *)
Project(events) ==
  LET after[n \in 0..Len(events)] ==
        IF n = 0 THEN EmptyProjection ELSE Apply(after[n - 1], events[n])
  IN  after[Len(events)]
=============================================================================
