----------------------- MODULE GovernedRecordsProofs -----------------------
(***************************************************************************)
(* Proofs about GovernedRecords, for any number of writers, targets, kinds *)
(* and values and histories of any length.                                 *)
(***************************************************************************)
EXTENDS GovernedRecords, SequenceFacts

States == State(Targets, Kinds, Nat, Values)

(* A projection as a writer reads it and Replay builds it.                 *)
IsProjection(p) ==
  /\ DOMAIN p \subseteq Targets
  /\ \A t \in DOMAIN p : p[t] \in States /\ ValidState(t, p[t])

(* An event that some writer may submit: what EventFrom composes.          *)
Submitted(e) ==
  \E w \in Writers, type \in Types, ts \in TargetLists, k \in Kinds,
     v \in Values \cup {Nil}, terms \in Terms : e = EventFrom(w, type, ts, k, v, terms)

(* One step of the specification: a write, or a step that leaves the       *)
(* history and the records alone.                                          *)
LEMMA StepCases ==
  ASSUME [Next]_vars
  PROVE  \/ \E w \in Writers : \E e : Submitted(e) /\ Write(w, e)
         \/ UNCHANGED << log, proj >>
PROOF
  <1>1. CASE UNCHANGED vars
    BY <1>1 DEF vars
  <1>2. ASSUME NEW w \in Writers, Read(w)
        PROVE  UNCHANGED << log, proj >>
    BY <1>2 DEF Read
  <1>3. ASSUME NEW k \in Kinds, NEW terms \in Terms, AddBinding(k, terms)
        PROVE  UNCHANGED << log, proj >>
    BY <1>3 DEF AddBinding
  <1>4. ASSUME NEW w \in Writers, NEW type \in Types, NEW ts \in TargetLists,
               NEW k \in Kinds, NEW v \in Values \cup {Nil}, NEW terms \in Terms,
               Write(w, EventFrom(w, type, ts, k, v, terms))
        PROVE  \E x \in Writers : \E e : Submitted(e) /\ Write(x, e)
    BY <1>4 DEF Submitted
  <1> QED
    BY <1>1, <1>2, <1>3, <1>4 DEF Next

(* What Reduces and Apply do to the records.                               *)
LEMMA ApplyEffect ==
  ASSUME NEW p, NEW b, NEW e, Reduces(p, b, e), NEW t, t = e.targets[1]
  PROVE  /\ DOMAIN Apply(p, e) = DOMAIN p \cup {t}
         /\ Apply(p, e)[t] = Successor(p, t, e)
         /\ \A u \in DOMAIN p : u # t => Apply(p, e)[u] = p[u]
         /\ e.prior_state = Prior(p, t)
         /\ PolicyConforms(t, e)
         /\ \/ e.type = "created"  /\ applyCreate(p, t, e)
            \/ e.type = "replaced" /\ applyReplace(p, t, e)
            \/ e.type = "revoked"  /\ applyRevoke(p, t, e)
PROOF
  BY DEF Reduces, Apply, requireAssertion

(* Revocation is terminal, no record disappears or changes kind, and each  *)
(* step advances a record by exactly one linked revision.                  *)
THEOREM RecordsOnlyAdvance == Spec => RecordsAdvance
PROOF
  <1> DEFINE Advance ==
        \A t \in DOMAIN proj :
          /\ t \in DOMAIN proj'
          /\ proj'[t].record_kind = proj[t].record_kind
          /\ proj[t].status = "revoked" => proj'[t] = proj[t]
          /\ proj'[t] # proj[t] =>
               /\ proj'[t].revision = proj[t].revision + 1
               /\ proj'[t].previous_event_id = proj[t].current_event_id
  <1>1. ASSUME [Next]_vars PROVE Advance
    <2>1. CASE UNCHANGED << log, proj >>
      BY <2>1
    <2>2. ASSUME NEW w \in Writers, NEW e, Write(w, e)
          PROVE  Advance
      <3>0. PICK u : u = e.targets[1]
        OBVIOUS
      <3>1. Reduces(proj, bindings, e) /\ proj' = Apply(proj, e)
        BY <2>2 DEF Write
      <3>2. /\ DOMAIN proj' = DOMAIN proj \cup {u}
            /\ proj'[u] = Successor(proj, u, e)
            /\ \A t \in DOMAIN proj : t # u => proj'[t] = proj[t]
            /\ u \in DOMAIN proj => e.type # "created" /\ proj[u].status # "revoked"
        BY <3>0, <3>1, ApplyEffect DEF applyCreate, applyReplace, applyRevoke
      <3> QED
        BY <3>2 DEF Successor
    <2> QED
      BY <1>1, <2>1, <2>2, StepCases
  <1> QED
    BY <1>1, PTL DEF Spec, RecordsAdvance

-----------------------------------------------------------------------------
(* Type correctness.                                                       *)

Events ==
  [type : Types, id : Nat, targets : Seq(Targets), kind : Kinds,
   terms : Terms, value : Values \cup {Nil},
   prior_state : States \cup {Nil}, resulting_state : States \cup {Nil}]

ViewsTyped ==
  /\ DOMAIN view = Writers
  /\ \A w \in Writers : IsProjection(view[w])

TypeInv == TypeOK /\ ViewsTyped

LEMMA SuccessorType ==
  ASSUME NEW p, IsProjection(p), NEW t \in Targets, NEW e,
         e.type = "created" \/ t \in DOMAIN p,
         e.kind \in Kinds, e.id \in Nat, e.value \in Values \cup {Nil}
  PROVE  Successor(p, t, e) \in States
PROOF
  <1>1. CASE e.type = "created"
    BY <1>1 DEF Successor, States, State, Status
  <1>2. CASE e.type # "created"
    <2>1. p[t] \in States
      BY <1>2 DEF IsProjection
    <2>2. /\ p[t].record_kind \in Kinds /\ p[t].revision + 1 \in Nat \ {0}
          /\ p[t].current_event_id \in Nat
      BY <2>1 DEF States, State
    <2> QED
      BY <1>2, <2>2 DEF Successor, States, State, Status
  <1> QED
    BY <1>1, <1>2

(* What a writer submits is an event, whatever it has read.                *)
LEMMA EventType ==
  ASSUME TypeInv, NEW e, Submitted(e)
  PROVE  e \in Events /\ e.targets[1] \in Targets
PROOF
  <1>1. PICK w \in Writers, type \in Types, ts \in TargetLists, k \in Kinds,
             v \in Values \cup {Nil}, terms \in Terms :
               e = EventFrom(w, type, ts, k, v, terms)
    BY DEF Submitted
  <1>2. ts \in Seq(Targets) /\ ts[1] \in Targets
    <2>1. CASE ts \in {<< t >> : t \in Targets}
      <3>1. PICK t \in Targets : ts = << t >>
        BY <2>1
      <3>2. << t >> \in Seq(Targets) /\ << t >>[1] = t
        OBVIOUS
      <3> QED
        BY <3>1, <3>2
    <2>2. CASE ts \in Targets \X Targets
      <3>1. PICK t \in Targets, u \in Targets : ts = << t, u >>
        BY <2>2
      <3>2. << t, u >> \in Seq(Targets) /\ << t, u >>[1] = t
        OBVIOUS
      <3> QED
        BY <3>1, <3>2
    <2> QED
      BY <2>1, <2>2 DEF TargetLists
  <1>3. Len(log) + 1 \in Nat
    BY DEF TypeInv, TypeOK
  <1>4. IsProjection(view[w])
    BY DEF TypeInv, ViewsTyped
  <1>5. Prior(view[w], ts[1]) \in States \cup {Nil}
    BY <1>4 DEF Prior, IsProjection
  <1> DEFINE draft == [type |-> type, id |-> Len(log) + 1, targets |-> ts, kind |-> k,
                       terms |-> terms, value |-> v, prior_state |-> Prior(view[w], ts[1])]
  <1>6. type = "created" \/ ts[1] \in DOMAIN view[w] =>
          Successor(view[w], ts[1], draft) \in States
    <2>1. /\ draft.type = type /\ draft.kind \in Kinds /\ draft.id \in Nat
          /\ draft.value \in Values \cup {Nil}
      BY <1>3
    <2> HIDE DEF draft
    <2> QED
      BY <1>2, <1>4, <2>1, SuccessorType
  <1>7. e = [type |-> type, id |-> Len(log) + 1, targets |-> ts, kind |-> k,
             terms |-> terms, value |-> v, prior_state |-> Prior(view[w], ts[1]),
             resulting_state |->
               IF type = "created" \/ ts[1] \in DOMAIN view[w]
               THEN Successor(view[w], ts[1], draft) ELSE Nil]
    BY <1>1 DEF EventFrom
  <1> HIDE DEF draft
  <1> QED
    BY <1>2, <1>3, <1>5, <1>6, <1>7 DEF Events

(* The reducer turns a projection into a projection.                       *)
LEMMA ApplyType ==
  ASSUME NEW p, IsProjection(p), NEW b, NEW e \in Events,
         e.targets[1] \in Targets, Reduces(p, b, e)
  PROVE  IsProjection(Apply(p, e))
PROOF
  <1>1. PICK t \in Targets : t = e.targets[1]
    OBVIOUS
  <1>2. /\ DOMAIN Apply(p, e) = DOMAIN p \cup {t}
        /\ Apply(p, e)[t] = Successor(p, t, e)
        /\ \A u \in DOMAIN p : u # t => Apply(p, e)[u] = p[u]
        /\ \/ e.type = "created"  /\ applyCreate(p, t, e)
           \/ e.type = "replaced" /\ applyReplace(p, t, e)
           \/ e.type = "revoked"  /\ applyRevoke(p, t, e)
    BY <1>1, ApplyEffect
  <1>3. Successor(p, t, e) \in States
    BY <1>2, SuccessorType DEF Events, applyReplace, applyRevoke
  <1>4. ValidState(t, Successor(p, t, e))
    <2>1. t \in DOMAIN p => p[t].revision \in Nat
      BY DEF IsProjection, States, State
    <2> QED
      BY <1>2, <2>1 DEF ValidState, Successor, applyCreate, applyReplace, applyRevoke
  <1> QED
    BY <1>2, <1>3, <1>4 DEF IsProjection

LEMMA TypeInvInit == Init => TypeInv
PROOF
  <1> SUFFICES ASSUME Init PROVE TypeInv
    OBVIOUS
  <1>1. DOMAIN EmptyProjection = {}
    BY DEF EmptyProjection
  <1>2. DOMAIN bindings = {PolicyKind}
    BY DEF Init
  <1>3. ViewsTyped
    BY <1>1 DEF Init, ViewsTyped, IsProjection
  <1>4. TypeOK
    BY <1>1, <1>2, PolicyAssumption DEF Init, TypeOK
  <1> QED
    BY <1>3, <1>4 DEF TypeInv

LEMMA TypeInvNext == TypeInv /\ [Next]_vars => TypeInv'
PROOF
  <1> SUFFICES ASSUME TypeInv, [Next]_vars PROVE TypeInv'
    OBVIOUS
  <1> USE DEF TypeInv
  <1>0. /\ log \in Seq(Events) /\ IsProjection(proj) /\ DOMAIN bindings \subseteq Kinds
    BY DEF TypeOK, IsProjection, Events, States
  <1>1. ASSUME NEW w \in Writers, NEW e, Submitted(e), Write(w, e)
        PROVE  TypeInv'
    <2>1. e \in Events /\ e.targets[1] \in Targets
      BY <1>1, EventType
    <2>2. log' \in Seq(Events)
      BY <1>0, <1>1, <2>1 DEF Write
    <2>3. IsProjection(proj')
      BY <1>0, <1>1, <2>1, ApplyType DEF Write
    <2>4. UNCHANGED << bindings, view >>
      BY <1>1 DEF Write
    <2> QED
      BY <1>0, <2>2, <2>3, <2>4 DEF TypeOK, ViewsTyped, IsProjection, Events, States
  <1>2. ASSUME NEW w \in Writers, Read(w)
        PROVE  TypeInv'
    BY <1>0, <1>2 DEF Read, TypeOK, ViewsTyped, IsProjection, States
  <1>3. ASSUME NEW k \in Kinds, NEW terms \in Terms, AddBinding(k, terms)
        PROVE  TypeInv'
    BY <1>3 DEF AddBinding, TypeOK, ViewsTyped, IsProjection
  <1>4. CASE UNCHANGED vars
    BY <1>4 DEF vars, TypeOK, ViewsTyped, IsProjection
  <1>5. ASSUME NEW w \in Writers, NEW type \in Types, NEW ts \in TargetLists,
               NEW k \in Kinds, NEW v \in Values \cup {Nil}, NEW terms \in Terms,
               Write(w, EventFrom(w, type, ts, k, v, terms))
        PROVE  TypeInv'
    BY <1>1, <1>5 DEF Submitted
  <1> QED
    BY <1>2, <1>3, <1>4, <1>5 DEF Next

(* Every event and every record of the history is well formed, however     *)
(* stale the reads of the writers: a record belongs to its target, and it  *)
(* is active with a value or revoked without one.                          *)
THEOREM RecordsTyped == Spec => []TypeOK
PROOF
  <1>1. Spec => []TypeInv
    BY TypeInvInit, TypeInvNext, PTL DEF Spec
  <1> QED
    BY <1>1, PTL DEF TypeInv

-----------------------------------------------------------------------------
(* Policies and lost updates.                                              *)

LEMMA PolicyInit == Init => PolicyReserved
PROOF
  BY DEF Init, PolicyReserved, EmptyProjection

(* A replacement must carry the kind of its record, so that a policy can   *)
(* only be replaced by an event whose value was parsed as a policy.        *)
LEMMA PolicyNext == PolicyReserved /\ [Next]_vars => PolicyReserved'
PROOF
  <1> SUFFICES ASSUME PolicyReserved, [Next]_vars PROVE PolicyReserved'
    OBVIOUS
  <1>1. CASE UNCHANGED << log, proj >>
    BY <1>1 DEF PolicyReserved
  <1>2. ASSUME NEW w \in Writers, NEW e, Write(w, e)
        PROVE  PolicyReserved'
    <2>1. PICK t : t = e.targets[1]
      OBVIOUS
    <2>2. Reduces(proj, bindings, e) /\ proj' = Apply(proj, e)
      BY <1>2 DEF Write
    <2>3. /\ DOMAIN proj' = DOMAIN proj \cup {t}
          /\ proj'[t] = Successor(proj, t, e)
          /\ \A u \in DOMAIN proj : u # t => proj'[u] = proj[u]
          /\ PolicyConforms(t, e)
          /\ \/ e.type = "created"
             \/ /\ e.type \in {"replaced", "revoked"}
                /\ t \in DOMAIN proj /\ e.kind = proj[t].record_kind
      BY <2>1, <2>2, ApplyEffect DEF applyReplace, applyRevoke
    <2>4. proj'[t].record_kind = PolicyKind =>
            /\ t = PolicyTarget
            /\ proj'[t].status = "active" => proj'[t].value \in PolicyValues
      BY <2>3 DEF Successor, PolicyConforms
    <2> QED
      BY <2>3, <2>4 DEF PolicyReserved
  <1> QED
    BY <1>1, <1>2, StepCases

(* Actor policies live only at the reserved target, and an active one is   *)
(* always a parsed policy.                                                 *)
THEOREM PolicyAlwaysReserved == Spec => []PolicyReserved
PROOF
  BY PolicyInit, PolicyNext, PTL DEF Spec

(* The strengthening of NoLostUpdate: the state that an event asserted is  *)
(* in the past of its target.                                              *)
PriorsPassed ==
  \A i \in 1..Len(log) :
    LET t == log[i].targets[1]
    IN  /\ t \in DOMAIN proj
        /\ log[i].prior_state # Nil =>
             log[i].prior_state.revision < proj[t].revision

LostInv == TypeInv /\ PriorsPassed /\ NoLostUpdate

LEMMA LostInit == Init => LostInv
PROOF
  BY TypeInvInit DEF Init, LostInv, PriorsPassed, NoLostUpdate

LEMMA LostNext == LostInv /\ [Next]_vars => LostInv'
PROOF
  <1> SUFFICES ASSUME LostInv, [Next]_vars PROVE LostInv'
    OBVIOUS
  <1> USE DEF LostInv
  <1>0. TypeInv'
    BY TypeInvNext
  <1>1. CASE UNCHANGED << log, proj >>
    BY <1>0, <1>1 DEF PriorsPassed, NoLostUpdate
  <1>2. ASSUME NEW w \in Writers, NEW e, Submitted(e), Write(w, e)
        PROVE  LostInv'
    <2>1. e \in Events /\ e.targets[1] \in Targets
      BY <1>2, EventType
    <2>2. PICK t \in Targets : t = e.targets[1]
      BY <2>1
    <2>3. log \in Seq(Events) /\ IsProjection(proj)
      BY DEF TypeInv, TypeOK, IsProjection, Events, States
    <2>4. /\ Len(log') = Len(log) + 1 /\ log'[Len(log) + 1] = e
          /\ \A i \in 1..Len(log) : log'[i] = log[i]
      BY <1>2, <2>1, <2>3 DEF Write
    <2>5. Reduces(proj, bindings, e) /\ proj' = Apply(proj, e)
      BY <1>2 DEF Write
    <2>6. /\ DOMAIN proj' = DOMAIN proj \cup {t}
          /\ proj'[t] = Successor(proj, t, e)
          /\ \A u \in DOMAIN proj : u # t => proj'[u] = proj[u]
          /\ e.prior_state = Prior(proj, t)
          /\ e.type = "created" => t \notin DOMAIN proj
      <3>1. \/ e.type = "created"  /\ applyCreate(proj, t, e)
            \/ e.type = "replaced" /\ applyReplace(proj, t, e)
            \/ e.type = "revoked"  /\ applyRevoke(proj, t, e)
        BY <2>2, <2>5, ApplyEffect
      <3>2. e.type = "created" => t \notin DOMAIN proj
        BY <3>1 DEF applyCreate
      <3> QED
        BY <2>2, <2>5, <3>2, ApplyEffect
    <2>7. t \in DOMAIN proj =>
            /\ proj[t].revision \in Nat /\ proj[t] # Nil
            /\ proj'[t].revision = proj[t].revision + 1
      BY <2>3, <2>6, NilAssumption DEF IsProjection, States, State, Successor
    <2>8. \A i \in 1..Len(log) :
            log[i].prior_state # Nil => log[i].prior_state.revision \in Nat
      <3>1. \A i \in 1..Len(log) : log[i] \in Events
        BY <2>3
      <3>2. \A i \in 1..Len(log) : log[i].prior_state \in States \cup {Nil}
        BY <3>1 DEF Events
      <3>3. \A st \in States : st.revision \in Nat
        BY DEF States, State
      <3> QED
        BY <3>2, <3>3
    <2>9. ASSUME NEW i \in 1..Len(log)
          PROVE  /\ log[i].targets[1] \in DOMAIN proj
                 /\ log[i].targets[1] \in DOMAIN proj'
                 /\ log[i].prior_state # Nil =>
                      /\ log[i].prior_state.revision < proj[log[i].targets[1]].revision
                      /\ log[i].prior_state.revision < proj'[log[i].targets[1]].revision
                 /\ log[i].targets[1] = t => log[i].prior_state # e.prior_state
      <3>1. /\ log[i].targets[1] \in DOMAIN proj
            /\ log[i].prior_state # Nil =>
                 log[i].prior_state.revision < proj[log[i].targets[1]].revision
        BY DEF PriorsPassed
      <3>2. log[i].targets[1] = t => log[i].prior_state # e.prior_state
        BY <2>6, <2>7, <2>8, <3>1 DEF Prior
      <3>3. log[i].prior_state # Nil =>
              log[i].prior_state.revision < proj'[log[i].targets[1]].revision
        BY <2>6, <2>7, <2>8, <3>1
      <3> QED
        BY <2>6, <3>1, <3>2, <3>3
    <2>10. t \in DOMAIN proj' /\ (e.prior_state # Nil =>
                                   e.prior_state.revision < proj'[t].revision)
      BY <2>6, <2>7 DEF Prior
    <2>11. Len(log) \in Nat
      BY <2>3
    <2>12. PriorsPassed'
      BY <2>2, <2>4, <2>9, <2>10, <2>11 DEF PriorsPassed
    <2>13. NoLostUpdate'
      BY <2>2, <2>4, <2>9, <2>11 DEF NoLostUpdate
    <2> QED
      BY <1>0, <2>12, <2>13
  <1> QED
    BY <1>1, <1>2, StepCases

(* No update is lost: two accepted events for a target never come from the *)
(* same state of it, however many writers compose events from stale reads. *)
THEOREM UpdatesNeverLost == Spec => []NoLostUpdate
PROOF
  <1>1. Spec => []LostInv
    BY LostInit, LostNext, PTL DEF Spec
  <1> QED
    BY <1>1, PTL DEF LostInv

-----------------------------------------------------------------------------
(* Lineage.                                                                *)

(* One target, and one event of it, in LineageIntact.                      *)
TargetLineage(t) ==
  /\ t \in DOMAIN proj <=> EventsOf(t) # {}
  /\ t \in DOMAIN proj =>
       /\ proj[t].revision = Cardinality(EventsOf(t))
       /\ proj[t].current_event_id \in EventsOf(t)

EventLineage(t, i) ==
  LET before == {j \in EventsOf(t) : j < i}
  IN  IF before = {}
      THEN log[i].prior_state = Nil /\ log[i].type = "created"
      ELSE \E j \in before :
             /\ \A m \in before : m <= j
             /\ log[i].prior_state = log[j].resulting_state
             /\ log[i].resulting_state.previous_event_id = log[j].id

(* What LineageIntact leaves out: events are numbered by their position,   *)
(* and the state of a record is the one that its newest event asserted.    *)
NewestState ==
  /\ \A i \in 1..Len(log) : log[i].id = i
  /\ \A t \in DOMAIN proj :
       /\ \A i \in EventsOf(t) : i <= proj[t].current_event_id
       /\ proj[t] = log[proj[t].current_event_id].resulting_state

LineageInv == TypeInv /\ LineageIntact /\ NewestState

LEMMA LineageInit == Init => LineageInv
PROOF
  <1> SUFFICES ASSUME Init PROVE LineageInv
    OBVIOUS
  <1>1. DOMAIN proj = {} /\ Len(log) = 0
    BY DEF Init, EmptyProjection
  <1>2. \A t : EventsOf(t) = {}
    BY <1>1 DEF EventsOf
  <1> QED
    BY <1>1, <1>2, TypeInvInit DEF LineageInv, LineageIntact, NewestState

(* What the write of event e to target t does to the history and to the    *)
(* record of t.                                                            *)
Written(t, e) ==
  /\ t \in Targets /\ e \in Events
  /\ Len(log) \in Nat /\ Len(log') = Len(log) + 1 /\ log'[Len(log) + 1] = e
  /\ \A i \in 1..Len(log) : log'[i] = log[i]
  /\ e.id = Len(log) + 1
  /\ DOMAIN proj' = DOMAIN proj \cup {t} /\ proj'[t] = Successor(proj, t, e)
  /\ \A u \in DOMAIN proj : u # t => proj'[u] = proj[u]
  /\ e.prior_state = Prior(proj, t) /\ e.resulting_state = Successor(proj, t, e)
  /\ e.type = "created" <=> t \notin DOMAIN proj

LEMMA WriteEffect ==
  ASSUME TypeInv, NEW w \in Writers, NEW e, Submitted(e), Write(w, e)
  PROVE  Written(e.targets[1], e)
PROOF
  <1>0. PICK t : t = e.targets[1]
    OBVIOUS
  <1>1. e \in Events /\ t \in Targets
    BY <1>0, EventType
  <1>2. log \in Seq(Events)
    BY DEF TypeInv, TypeOK, Events, States
  <1>3. /\ Len(log) \in Nat /\ Len(log') = Len(log) + 1 /\ log'[Len(log) + 1] = e
        /\ \A i \in 1..Len(log) : log'[i] = log[i]
    BY <1>1, <1>2 DEF Write
  <1>4. e.id = Len(log) + 1
    BY DEF Submitted, EventFrom
  <1>5. Reduces(proj, bindings, e) /\ proj' = Apply(proj, e)
    BY DEF Write
  <1>6. e.resulting_state = Successor(proj, t, e)
    BY <1>0, <1>5 DEF Reduces, requireAssertion
  <1>7. e.type = "created" <=> t \notin DOMAIN proj
    <2>1. \/ e.type = "created"  /\ applyCreate(proj, t, e)
          \/ e.type = "replaced" /\ applyReplace(proj, t, e)
          \/ e.type = "revoked"  /\ applyRevoke(proj, t, e)
      BY <1>0, <1>5, ApplyEffect
    <2> QED
      BY <2>1 DEF applyCreate, applyReplace, applyRevoke
  <1>8. /\ DOMAIN proj' = DOMAIN proj \cup {t} /\ proj'[t] = Successor(proj, t, e)
        /\ \A u \in DOMAIN proj : u # t => proj'[u] = proj[u]
        /\ e.prior_state = Prior(proj, t)
    BY <1>0, <1>5, ApplyEffect
  <1> QED
    BY <1>0, <1>1, <1>3, <1>4, <1>6, <1>7, <1>8 DEF Written

LEMMA LineageNext == LineageInv /\ [Next]_vars => LineageInv'
PROOF
  <1> SUFFICES ASSUME LineageInv, [Next]_vars PROVE LineageInv'
    OBVIOUS
  <1> USE DEF LineageInv
  <1>0. TypeInv'
    BY TypeInvNext
  <1>1. CASE UNCHANGED << log, proj >>
    <2>1. \A u : EventsOf(u)' = EventsOf(u)
      BY <1>1 DEF EventsOf
    <2>2. LineageIntact'
      BY <1>1, <2>1 DEF LineageIntact
    <2>3. NewestState'
      BY <1>1, <2>1 DEF NewestState
    <2> QED
      BY <1>0, <2>2, <2>3
  <1>2. ASSUME NEW w \in Writers, NEW e, Submitted(e), Write(w, e)
        PROVE  LineageInv'
    <2>0. PICK n : n = Len(log) + 1
      OBVIOUS
    <2>1. PICK t : t = e.targets[1]
      OBVIOUS
    <2>2. /\ t \in Targets /\ e \in Events
          /\ Len(log) \in Nat /\ Len(log') = n /\ log'[n] = e
          /\ \A i \in 1..Len(log) : log'[i] = log[i]
          /\ e.id = n
          /\ DOMAIN proj' = DOMAIN proj \cup {t} /\ proj'[t] = Successor(proj, t, e)
          /\ \A u \in DOMAIN proj : u # t => proj'[u] = proj[u]
          /\ e.prior_state = Prior(proj, t) /\ e.resulting_state = Successor(proj, t, e)
          /\ e.type = "created" <=> t \notin DOMAIN proj
      <3>1. TypeInv /\ Submitted(e) /\ Write(w, e)
        BY <1>2
      <3>2. Written(t, e)
        BY <2>1, <3>1, WriteEffect
      <3> QED
        BY <2>0, <3>2 DEF Written
    <2>3. /\ \A u : EventsOf(u) \subseteq 1..Len(log)
          /\ EventsOf(t)' = EventsOf(t) \cup {n}
          /\ \A u : u # t => EventsOf(u)' = EventsOf(u)
      BY <2>0, <2>1, <2>2 DEF EventsOf
    <2>4. \A u \in Targets : TargetLineage(u) /\ \A i \in EventsOf(u) : EventLineage(u, i)
      BY DEF LineageIntact, TargetLineage, EventLineage
    <2>5. DOMAIN proj \subseteq Targets /\ \A u \in DOMAIN proj : proj[u] \in States
      BY DEF TypeInv, TypeOK, States
    <2>6. n \in Nat /\ n \notin EventsOf(t) /\ \A i \in 1..Len(log) : i < n /\ i \in Nat
      BY <2>0, <2>2, <2>3
    (* The records count their events, and know the newest.                *)
    <2>7. ASSUME NEW u \in Targets PROVE TargetLineage(u)'
      <3>1. CASE u # t
        BY <2>2, <2>3, <2>4, <3>1 DEF TargetLineage
      <3>2. CASE u = t
        <4>1. IsFiniteSet(EventsOf(t)) /\ Cardinality(EventsOf(t)) \in Nat
          <5>1. IsFiniteSet(1..Len(log))
            BY <2>2, FS_Interval, SMT
          <5>2. EventsOf(t) \in SUBSET (1..Len(log))
            BY <2>3
          <5> QED
            BY <5>1, <5>2, FS_Subset, FS_CardinalityType
        <4>2. Cardinality(EventsOf(t)') = Cardinality(EventsOf(t)) + 1
          BY <2>3, <2>6, <4>1, FS_AddElement
        <4>3. proj'[t].current_event_id = n
          BY <2>2 DEF Successor
        <4>4. proj'[t].revision = Cardinality(EventsOf(t)) + 1
          <5>1. CASE t \notin DOMAIN proj
            <6>1. EventsOf(t) = {} /\ proj'[t].revision = 1
              BY <2>2, <2>4, <5>1 DEF TargetLineage, Successor
            <6> QED
              BY <6>1, FS_EmptySet
          <5>2. CASE t \in DOMAIN proj
            BY <2>2, <2>4, <5>2 DEF TargetLineage, Successor
          <5> QED
            BY <5>1, <5>2
        <4> QED
          BY <2>2, <2>3, <3>2, <4>2, <4>3, <4>4 DEF TargetLineage
      <3> QED
        BY <3>1, <3>2
    (* Events that are there keep their predecessors.                      *)
    <2>8. ASSUME NEW u \in Targets, NEW i \in EventsOf(u) PROVE EventLineage(u, i)'
      <3>1. {j \in EventsOf(u) : j < i} = {j \in EventsOf(u)' : j < i}
        BY <2>2, <2>3, <2>6
      <3>2. EventLineage(u, i)
        BY <2>4
      <3>3. i \in 1..Len(log) /\ EventsOf(u) \subseteq 1..Len(log)
        BY <2>3
      <3> QED
        BY <2>2, <3>1, <3>2, <3>3 DEF EventLineage
    (* The new event asserts the state that its predecessor left.          *)
    <2>9. EventLineage(t, n)'
      <3>1. {j \in EventsOf(t)' : j < n} = EventsOf(t)
        BY <2>3, <2>6
      <3>2. CASE t \notin DOMAIN proj
        <4>1. EventsOf(t) = {} /\ e.prior_state = Nil /\ e.type = "created"
          BY <2>2, <2>4, <3>2 DEF TargetLineage, Prior
        <4> QED
          BY <2>2, <3>1, <4>1 DEF EventLineage
      <3>3. CASE t \in DOMAIN proj
        <4>0. PICK j : j = proj[t].current_event_id
          OBVIOUS
        <4>1. /\ j \in EventsOf(t) /\ \A i \in EventsOf(t) : i <= j
              /\ proj[t] = log[j].resulting_state
          BY <2>2, <2>4, <3>3, <4>0 DEF TargetLineage, NewestState
        <4>2. j \in 1..Len(log) /\ log[j].id = j /\ log'[j] = log[j]
          BY <2>2, <2>3, <4>1 DEF NewestState
        <4>3. e.prior_state = log[j].resulting_state /\ e.resulting_state.previous_event_id = j
          BY <2>2, <3>3, <4>0, <4>1 DEF Prior, Successor
        <4>4. EventsOf(t) # {}
          BY <4>1
        <4> QED
          BY <2>2, <3>1, <4>1, <4>2, <4>3, <4>4 DEF EventLineage
      <3> QED
        BY <3>2, <3>3
    <2>10. LineageIntact'
      <3>1. \A u \in Targets : \A i \in EventsOf(u)' : EventLineage(u, i)'
        BY <2>3, <2>8, <2>9
      <3> QED
        BY <2>7, <3>1 DEF LineageIntact, TargetLineage, EventLineage
    <2>11. NewestState'
      <3>1. \A i \in 1..Len(log') : log'[i].id = i
        BY <2>0, <2>2, <2>6 DEF NewestState
      <3>2. ASSUME NEW u \in DOMAIN proj, u # t
            PROVE  /\ \A i \in EventsOf(u)' : i <= proj'[u].current_event_id
                   /\ proj'[u] = log'[proj'[u].current_event_id].resulting_state
        <4>1. proj'[u] = proj[u] /\ EventsOf(u)' = EventsOf(u) /\ u \in Targets
          BY <2>2, <2>3, <2>5, <3>2
        <4>2. proj[u].current_event_id \in 1..Len(log)
          BY <2>3, <2>4, <3>2, <4>1 DEF TargetLineage
        <4> QED
          BY <2>2, <4>1, <4>2 DEF NewestState
      <3>3. proj'[t].current_event_id = n /\ proj'[t] = log'[n].resulting_state
        BY <2>2 DEF Successor
      <3>4. \A i \in EventsOf(t)' : i <= n
        BY <2>3, <2>6
      <3> QED
        BY <2>2, <3>1, <3>2, <3>3, <3>4 DEF NewestState
    <2> QED
      BY <1>0, <2>10, <2>11
  <1> QED
    BY <1>1, <1>2, StepCases

(* The lineage of every record can be read back from the history: each     *)
(* event asserts the state that the event before it left, and revisions    *)
(* count the events (applyReplace, applyRevoke, requireAssertion).         *)
THEOREM LineageAlwaysIntact == Spec => []LineageIntact
PROOF
  <1>1. Spec => []LineageInv
    BY LineageInit, LineageNext, PTL DEF Spec
  <1> QED
    BY <1>1, PTL DEF LineageInv

-----------------------------------------------------------------------------
(* Replay.  f is the projection after each of the first n events of s; it  *)
(* exists, and the events alone determine it.                              *)
Replayed(s, n, f) ==
  f = [m \in 0..n |-> IF m = 0 THEN EmptyProjection ELSE Apply(f[m - 1], s[m])]

LEMMA ReplayedExists ==
  ASSUME NEW s, NEW n \in Nat
  PROVE  \E f : Replayed(s, n, f)
PROOF
  <1> DEFINE Bad == {m \in Nat : ~ \E f : Replayed(s, m, f)}
  <1>1. SUFFICES ASSUME Bad # {} PROVE FALSE
    OBVIOUS
  <1>2. PICK k \in Bad : \A m \in Bad : k <= m
    <2>1. Bad \subseteq Nat
      OBVIOUS
    <2> QED
      BY <1>1, <2>1, LeastNumber
  <1>3. CASE k = 0
    <2> DEFINE f == [m \in 0..0 |-> EmptyProjection]
    <2>1. Replayed(s, 0, f)
      BY DEF Replayed
    <2> QED
      BY <1>3, <2>1
  <1>4. CASE k # 0
    <2>1. k - 1 \in Nat /\ k - 1 \notin Bad
      BY <1>2, <1>4
    <2>2. PICK g : Replayed(s, k - 1, g)
      BY <2>1
    <2> DEFINE f == [m \in 0..k |-> IF m < k THEN g[m] ELSE Apply(g[k - 1], s[k])]
    <2>3. ASSUME NEW m \in 0..k
          PROVE  f[m] = IF m = 0 THEN EmptyProjection ELSE Apply(f[m - 1], s[m])
      <3>1. CASE m = k
        <4>1. f[m] = Apply(g[k - 1], s[k]) /\ f[m - 1] = g[k - 1]
          BY <1>2, <2>1, <3>1
        <4> QED
          BY <1>4, <3>1, <4>1
      <3>2. CASE m # k
        <4>1. f[m] = g[m] /\ m \in 0..(k - 1) /\ (m # 0 => f[m - 1] = g[m - 1])
          BY <1>2, <2>1, <3>2
        <4>2. g[m] = IF m = 0 THEN EmptyProjection ELSE Apply(g[m - 1], s[m])
          BY <2>2, <4>1 DEF Replayed
        <4> QED
          BY <4>1, <4>2
      <3> QED
        BY <3>1, <3>2
    <2>4. f = [m \in 0..k |-> f[m]]
      OBVIOUS
    <2> HIDE DEF f
    <2>5. Replayed(s, k, f)
      BY <2>3, <2>4 DEF Replayed
    <2> QED
      BY <1>2, <2>5
  <1> QED
    BY <1>3, <1>4

LEMMA ReplayedAgrees ==
  ASSUME NEW s, NEW u, NEW n \in Nat, NEW k \in Nat, k <= n,
         NEW f, Replayed(s, n, f), NEW g, Replayed(u, k, g),
         \A m \in 1..k : s[m] = u[m]
  PROVE  \A m \in 0..k : f[m] = g[m]
PROOF
  <1> DEFINE Bad == {m \in 0..k : f[m] # g[m]}
  <1>1. SUFFICES ASSUME Bad # {} PROVE FALSE
    OBVIOUS
  <1>2. PICK j \in Bad : \A m \in Bad : j <= m
    <2>1. Bad \subseteq Nat
      OBVIOUS
    <2> QED
      BY <1>1, <2>1, LeastNumber
  <1>3. /\ f[j] = IF j = 0 THEN EmptyProjection ELSE Apply(f[j - 1], s[j])
        /\ g[j] = IF j = 0 THEN EmptyProjection ELSE Apply(g[j - 1], u[j])
    <2>1. j \in 0..n /\ j \in 0..k
      OBVIOUS
    <2> QED
      BY <2>1 DEF Replayed
  <1>4. CASE j = 0
    BY <1>3, <1>4
  <1>5. CASE j # 0
    <2>1. j - 1 \in 0..k /\ j - 1 \notin Bad /\ j \in 1..k
      BY <1>2, <1>5
    <2>2. f[j - 1] = g[j - 1] /\ s[j] = u[j]
      BY <2>1
    <2> QED
      BY <1>3, <1>5, <2>2
  <1> QED
    BY <1>4, <1>5

(* What Replay computes.                                                   *)
LEMMA ProjectReplays ==
  ASSUME NEW s, Len(s) \in Nat
  PROVE  \E f : Replayed(s, Len(s), f) /\ Project(s) = f[Len(s)]
PROOF
  <1> DEFINE h == CHOOSE f : Replayed(s, Len(s), f)
  <1>1. \E f : Replayed(s, Len(s), f)
    BY ReplayedExists
  <1>2. Replayed(s, Len(s), h)
    BY <1>1
  <1>3. Project(s) = h[Len(s)]
    BY Zenon DEF Project, Replayed
  <1> QED
    BY <1>2, <1>3

(* An event more is one step of the reducer more.                          *)
LEMMA ProjectAppend ==
  ASSUME NEW S, NEW s \in Seq(S), NEW e \in S
  PROVE  Project(Append(s, e)) = Apply(Project(s), e)
PROOF
  <1> DEFINE u == Append(s, e)
  <1>1. /\ Len(s) \in Nat /\ Len(u) = Len(s) + 1 /\ u[Len(s) + 1] = e
        /\ \A m \in 1..Len(s) : u[m] = s[m]
    OBVIOUS
  <1> HIDE DEF u
  <1>2. PICK f : Replayed(u, Len(u), f) /\ Project(u) = f[Len(u)]
    BY <1>1, ProjectReplays
  <1>3. PICK g : Replayed(s, Len(s), g) /\ Project(s) = g[Len(s)]
    BY <1>1, ProjectReplays
  <1>4. f[Len(s)] = g[Len(s)]
    <2>1. \A m \in 0..Len(s) : f[m] = g[m]
      <3>1. Len(s) \in Nat /\ Len(u) \in Nat /\ Len(s) <= Len(u)
        BY <1>1
      <3> QED
        BY <1>1, <1>2, <1>3, <3>1, ReplayedAgrees
    <2> QED
      BY <1>1, <2>1
  <1>5. f[Len(u)] = Apply(f[Len(s)], e)
    BY <1>1, <1>2 DEF Replayed
  <1> QED
    BY <1>2, <1>3, <1>4, <1>5 DEF u

LEMMA ProjectEmpty == Project(<< >>) = EmptyProjection
PROOF
  <1>1. Len(<< >>) = 0
    OBVIOUS
  <1>2. PICK f : Replayed(<< >>, Len(<< >>), f) /\ Project(<< >>) = f[Len(<< >>)]
    BY <1>1, ProjectReplays
  <1>3. f[0] = EmptyProjection
    BY <1>1, <1>2 DEF Replayed
  <1> QED
    BY <1>1, <1>2, <1>3

(* Every kind that an event relies on keeps its terms.                     *)
LEMMA BindingsKept ==
  ASSUME [Next]_vars
  PROVE  \A k \in DOMAIN bindings : k \in DOMAIN bindings' /\ bindings'[k] = bindings[k]
PROOF
  <1>1. CASE UNCHANGED vars
    BY <1>1 DEF vars
  <1>2. ASSUME NEW w \in Writers, Read(w) PROVE UNCHANGED bindings
    BY <1>2 DEF Read
  <1>3. ASSUME NEW w \in Writers, NEW e, Write(w, e) PROVE UNCHANGED bindings
    BY <1>3 DEF Write
  <1>4. ASSUME NEW k \in Kinds, NEW terms \in Terms, AddBinding(k, terms)
        PROVE  \A j \in DOMAIN bindings : j \in DOMAIN bindings' /\ bindings'[j] = bindings[j]
    BY <1>4 DEF AddBinding
  <1> QED
    BY <1>1, <1>2, <1>3, <1>4 DEF Next

ReplayInv == TypeInv /\ ReplayStable

LEMMA ReplayInit == Init => ReplayInv
PROOF
  <1> SUFFICES ASSUME Init PROVE ReplayInv
    OBVIOUS
  <1>1. log = << >> /\ proj = EmptyProjection /\ 1..Len(log) = {}
    BY DEF Init
  <1> QED
    BY <1>1, TypeInvInit, ProjectEmpty DEF ReplayInv, ReplayStable

LEMMA ReplayNext == ReplayInv /\ [Next]_vars => ReplayInv'
PROOF
  <1> SUFFICES ASSUME ReplayInv, [Next]_vars PROVE ReplayInv'
    OBVIOUS
  <1>0. TypeInv /\ TypeInv' /\ ReplayStable
    BY TypeInvNext DEF ReplayInv
  <1>1. log \in Seq(Events) /\ Len(log) \in Nat
    BY <1>0 DEF TypeInv, TypeOK, Events, States
  <1>2. ASSUME NEW p, NEW e, Reduces(p, bindings, e)
        PROVE  Reduces(p, bindings', e)
    <2>1. Governed(bindings, e) => Governed(bindings', e)
      BY BindingsKept DEF Governed
    <2> QED
      BY <1>2, <2>1 DEF Reduces
  <1>3. \A i \in 1..Len(log) : Reduces(Project(SubSeq(log, 1, i - 1)), bindings', log[i])
    BY <1>0, <1>2 DEF ReplayStable
  <1>4. CASE UNCHANGED << log, proj >>
    BY <1>0, <1>3, <1>4 DEF ReplayInv, ReplayStable
  <1>5. ASSUME NEW w \in Writers, NEW e, Submitted(e), Write(w, e)
        PROVE  ReplayInv'
    <2>1. e \in Events /\ Reduces(proj, bindings, e) /\ log' = Append(log, e) /\ proj' = Apply(proj, e)
      BY <1>0, <1>5, EventType DEF Write
    <2>2. /\ Len(log') = Len(log) + 1 /\ log'[Len(log) + 1] = e
          /\ \A i \in 1..Len(log) : log'[i] = log[i]
      BY <1>1, <2>1
    <2>3. proj' = Project(log')
      BY <1>0, <1>1, <2>1, ProjectAppend DEF ReplayStable
    <2>4. \A i \in 1..Len(log) + 1 : SubSeq(log', 1, i - 1) = SubSeq(log, 1, i - 1)
      BY <1>1, <2>1
    <2>5. SubSeq(log, 1, Len(log)) = log
      BY <1>1
    <2>6. ASSUME NEW i \in 1..Len(log')
          PROVE  Reduces(Project(SubSeq(log', 1, i - 1)), bindings', log'[i])
      <3>1. CASE i \in 1..Len(log)
        <4>1. SubSeq(log', 1, i - 1) = SubSeq(log, 1, i - 1) /\ log'[i] = log[i]
          BY <1>1, <2>2, <2>4, <3>1
        <4> QED
          BY <1>3, <3>1, <4>1
      <3>2. CASE i = Len(log) + 1
        <4>1. SubSeq(log', 1, i - 1) = log /\ log'[i] = e
          BY <1>1, <2>2, <2>4, <2>5, <3>2
        <4>2. Reduces(Project(log), bindings', e)
          BY <1>0, <1>2, <2>1 DEF ReplayStable
        <4> QED
          BY <4>1, <4>2
      <3> QED
        BY <1>1, <2>2, <3>1, <3>2
    <2> QED
      BY <1>0, <2>3, <2>6 DEF ReplayInv, ReplayStable
  <1> QED
    BY <1>4, <1>5, StepCases

(* A restart at any time rebuilds the projection in use from the history,  *)
(* and every accepted event still reduces: configuration that is added     *)
(* later never invalidates what was accepted (Replay,                      *)
(* LoadReducerBindingsAt).                                                 *)
THEOREM ReplayAlwaysStable == Spec => []ReplayStable
PROOF
  <1>1. Spec => []ReplayInv
    BY ReplayInit, ReplayNext, PTL DEF Spec
  <1> QED
    BY <1>1, PTL DEF ReplayInv
=============================================================================
