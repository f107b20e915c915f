-------------------------- MODULE GovernedRecords --------------------------
(***************************************************************************)
(* Governed records over the life of a ledger: what Replay                 *)
(* (internal/ledger/replay.go) projects from the accepted core.record      *)
(* events, while writers compose events from what they last read.          *)
(*                                                                         *)
(* A writer names the current head in expected_ledger_commit but may still *)
(* assert states from an older read: it retries on a new head without      *)
(* reading again.  Configuration commits add reducer bindings.  MaxEvents  *)
(* bounds the length of the history.                                       *)
(***************************************************************************)
EXTENDS Reducer, FiniteSets

CONSTANTS Writers, Targets, Kinds, Values, Terms, MaxEvents

ASSUME NilAssumption ==
  Nil \notin Values /\ Nil \notin Nat /\ Nil \notin State(Targets, Kinds, Nat, Values)
ASSUME PolicyAssumption == PolicyKind \in Kinds /\ PolicyValues \subseteq Values
ASSUME MaxEventsAssumption == MaxEvents \in Nat

VARIABLES
  log,       \* the accepted events, in the order of the history
  proj,      \* the governed-record projection after log
  bindings,  \* record kind -> terms, for the kinds that have a binding
  view       \* view[w]: the projection writer w last read

vars == << log, proj, bindings, view >>

Types == {"created", "replaced", "revoked"}

(* The states that writer w takes for the ones before and after its event. *)
EventFrom(w, type, ts, k, v, terms) ==
  LET t == ts[1]
      e == [type |-> type, id |-> Len(log) + 1, targets |-> ts, kind |-> k,
            terms |-> terms, value |-> v, prior_state |-> Prior(view[w], t)]
  IN  [type |-> e.type, id |-> e.id, targets |-> e.targets, kind |-> e.kind,
       terms |-> e.terms, value |-> e.value, prior_state |-> e.prior_state,
       resulting_state |->
         IF type = "created" \/ t \in DOMAIN view[w]
         THEN Successor(view[w], t, e)
         ELSE Nil]

Read(w) ==
  /\ view[w] # proj
  /\ view' = [view EXCEPT ![w] = proj]
  /\ UNCHANGED << log, proj, bindings >>

(* An event is appended exactly if it reduces on the current projection.   *)
Write(w, e) ==
  /\ Len(log) < MaxEvents
  /\ Reduces(proj, bindings, e)
  /\ log' = Append(log, e)
  /\ proj' = Apply(proj, e)
  /\ UNCHANGED << bindings, view >>

(* Variant: a later binding of the same kind wins.                         *)
Rebind(k, terms) ==
  /\ bindings' = [j \in DOMAIN bindings \cup {k} |->
                    IF j = k THEN terms ELSE bindings[j]]
  /\ UNCHANGED << log, proj, view >>

(* LoadReducerBindingsAt refuses a second binding of a record kind, and    *)
(* accepted binding files are immutable.                                   *)
AddBinding(k, terms) ==
  /\ k \notin DOMAIN bindings
  /\ bindings' = [j \in DOMAIN bindings \cup {k} |->
                    IF j = k THEN terms ELSE bindings[j]]
  /\ UNCHANGED << log, proj, view >>

Init ==
  /\ log = << >> /\ proj = EmptyProjection
  /\ bindings \in [{PolicyKind} -> Terms]
  /\ view = [w \in Writers |-> EmptyProjection]

TargetLists == {<< t >> : t \in Targets} \cup (Targets \X Targets)

Next ==
  \/ \E w \in Writers :
       \/ Read(w)
       \/ \E type \in Types, ts \in TargetLists, k \in Kinds,
             v \in Values \cup {Nil}, terms \in Terms :
            Write(w, EventFrom(w, type, ts, k, v, terms))
  \/ \E k \in Kinds, terms \in Terms : AddBinding(k, terms)

Spec == Init /\ [][Next]_vars

-----------------------------------------------------------------------------
(* Every state of the projection is well formed: it belongs to its target, *)
(* an active record has a value and a revoked one is a tombstone.          *)
TypeOK ==
  /\ log \in Seq([type : Types, id : Nat, targets : Seq(Targets), kind : Kinds,
                  terms : Terms, value : Values \cup {Nil},
                  prior_state : State(Targets, Kinds, Nat, Values) \cup {Nil},
                  resulting_state : State(Targets, Kinds, Nat, Values) \cup {Nil}])
  /\ DOMAIN proj \subseteq Targets
  /\ \A t \in DOMAIN proj :
       proj[t] \in State(Targets, Kinds, Nat, Values) /\ ValidState(t, proj[t])
  /\ DOMAIN bindings \subseteq Kinds

(* The history of one target.                                              *)
EventsOf(t) == {i \in 1..Len(log) : log[i].targets[1] = t}

(* The lineage of a target can be read back from the history: an event of  *)
(* the target asserts exactly the state its predecessor left, the first    *)
(* one asserts absence, and the projected revision counts them all.        *)
LineageIntact ==
  \A t \in Targets :
    /\ t \in DOMAIN proj <=> EventsOf(t) # {}
    /\ t \in DOMAIN proj =>
         /\ proj[t].revision = Cardinality(EventsOf(t))
         /\ proj[t].current_event_id \in EventsOf(t)
    /\ \A i \in EventsOf(t) :
         LET before == {j \in EventsOf(t) : j < i}
         IN  IF before = {}
             THEN log[i].prior_state = Nil /\ log[i].type = "created"
             ELSE \E j \in before :
                    /\ \A m \in before : m <= j
                    /\ log[i].prior_state = log[j].resulting_state
                    /\ log[i].resulting_state.previous_event_id = log[j].id

(* No lost update: of the writers that composed an event for a target from *)
(* the same state of it, at most one is accepted, however often the others *)
(* retry on newer heads and whatever they assert.                          *)
NoLostUpdate ==
  \A i, j \in 1..Len(log) :
    /\ i # j
    /\ log[i].targets[1] = log[j].targets[1]
    => log[i].prior_state # log[j].prior_state

(* A restart that rebuilds the records from the history arrives at this    *)
(* projection, and finds every accepted event valid under the bindings now *)
(* in force: configuration added later never invalidates what was          *)
(* accepted.                                                               *)
ReplayStable ==
  /\ proj = Project(log)
  /\ \A i \in 1..Len(log) :
       Reduces(Project(SubSeq(log, 1, i - 1)), bindings, log[i])

(* Revocation is terminal, records never change kind or disappear, and a   *)
(* record advances by one revision at a time.                              *)
RecordsAdvance ==
  [][\A t \in DOMAIN proj :
       /\ t \in DOMAIN proj'
       /\ proj'[t].record_kind = proj[t].record_kind
       /\ proj[t].status = "revoked" => proj'[t] = proj[t]
       /\ proj'[t] # proj[t] =>
            /\ proj'[t].revision = proj[t].revision + 1
            /\ proj'[t].previous_event_id = proj[t].current_event_id]_vars

(* Actor policies exist only at the reserved target, and the active one    *)
(* always carries a well-formed policy.                                    *)
PolicyReserved ==
  \A t \in DOMAIN proj :
    proj[t].record_kind = PolicyKind =>
      /\ t = PolicyTarget
      /\ proj[t].status = "active" => proj[t].value \in PolicyValues
=============================================================================
