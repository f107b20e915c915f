-------------------------- MODULE AdmissionProofs ---------------------------
(***************************************************************************)
(* Proofs about Admission, for any clients, policies, signings and faults. *)
(***************************************************************************)
EXTENDS Admission, TLAPS, SequenceTheorems, FiniteSetTheorems, WellFoundedInduction

-----------------------------------------------------------------------------
(* Types.                                                                  *)

Contexts == [ledger : {s.ledger : s \in Signings}, target : {s.target : s \in Signings},
             idem : {s.idem : s \in Signings}, state : Nat]

Proofs == [actor : {s.actor : s \in Signings}, key : {s.key : s \in Signings},
           issued : Nat, expires : Nat, context : Contexts,
           good : {s.good : s \in Signings}]

(* An event at the policy target holds a policy, or revokes it.            *)
GoodEvents ==
  {e \in [target : {s.target : s \in Signings}, idem : {s.idem : s \in Signings}, on : Nat,
          value : {s.target : s \in Signings} \cup Policies \cup {None}] :
     e.target = PolicyTarget => e.value \in Policies \cup {None}}

Matching(context, event) == event.target = context.target /\ event.idem = context.idem

GoodRequests ==
  {r \in [proof : Proofs, context : Contexts, event : GoodEvents] :
     Matching(r.context, r.event)}

Steps == {"idle", "admit", "load", "prepare", "accept", "verify", "release", "again", "done"}

Types ==
  /\ scenario \in Scenarios /\ now \in Nat
  /\ ledger \in Seq(GoodEvents)
  /\ grounds \in Seq([client : Clients, proof : Proofs, at : Nat])
  /\ Len(grounds) = Len(ledger)
  /\ slots \in Nat
  /\ pc \in [Clients -> Steps]
  /\ request \in [Clients -> GoodRequests \cup {None}]
  /\ \A c \in Clients : pc[c] # "idle" => request[c] \in GoodRequests
  /\ at \in [Clients -> Nat]
  /\ released \in [Clients -> BOOLEAN]

(* What a client signs and submits is a request whose event matches its    *)
(* context.                                                                *)
LEMMA SigningTyped ==
  ASSUME Types, NEW s \in scenario.signings
  PROVE  s \in Signings /\ s.skew \in Nat /\ s.life \in Nat
PROOF
  BY ScenariosAssumption DEF Types, Signings

LEMMA SignTyped ==
  ASSUME Types, NEW s \in scenario.signings
  PROVE  Context(s) \in Contexts /\ Sign(s) \in Proofs
PROOF
  <1>1. Commit \in Nat
    BY LenProperties DEF Types, Commit
  <1>2. Context(s) \in Contexts
    BY <1>1, SigningTyped DEF Context, Contexts
  <1>3. now + s.skew \in Nat /\ now + s.skew + s.life \in Nat
    BY SigningTyped DEF Types
  <1> QED
    BY <1>2, <1>3, SigningTyped DEF Sign, Proofs

LEMMA EventTyped ==
  ASSUME Types, NEW x \in Contexts, NEW v \in Values(x.target, scenario.policies)
  PROVE  Event(x, v) \in GoodEvents /\ Matching(x, Event(x, v))
PROOF
  <1>1. scenario.policies \subseteq Policies
    BY ScenariosAssumption DEF Types
  <1>2. /\ x.target \in {s.target : s \in Signings} /\ x.idem \in {s.idem : s \in Signings}
        /\ x.state \in Nat
    BY DEF Contexts
  <1> QED
    BY <1>1, <1>2 DEF Values, Event, GoodEvents, Matching

LEMMA SubmitTakes ==
  ASSUME Types, NEW c \in Clients, Submit(c)
  PROVE  \E req \in GoodRequests : TryAcquire(c, req)
PROOF
  <1>0. PICK s \in scenario.signings : \E v \in Values(s.target, scenario.policies) :
          TryAcquire(c, Request(Sign(s), Context(s), Event(Context(s), v)))
    BY DEF Submit
  <1>1. PICK v \in Values(s.target, scenario.policies) :
          TryAcquire(c, Request(Sign(s), Context(s), Event(Context(s), v)))
    BY <1>0
  <1>2. Context(s).target = s.target
    BY DEF Context
  <1>3. Event(Context(s), v) \in GoodEvents /\ Matching(Context(s), Event(Context(s), v))
    BY <1>2, SignTyped, EventTyped
  <1>4. Request(Sign(s), Context(s), Event(Context(s), v)) \in GoodRequests
    BY <1>3, SignTyped DEF Request, GoodRequests
  <1> QED
    BY <1>1, <1>4

LEMMA ResubmitTakes ==
  ASSUME Types, NEW c \in Clients, NEW d \in Clients, Resubmit(c, d)
  PROVE  \E req \in GoodRequests : TryAcquire(c, req)
PROOF
  <1>1. request[d] \in GoodRequests
    BY DEF Types, Resubmit
  <1>2. /\ request[d].proof \in Proofs /\ request[d].context \in Contexts
        /\ request[d].event \in GoodEvents
    BY <1>1 DEF GoodRequests
  <1>3. ASSUME NEW x \in {request[d].context} \cup {Context(s) : s \in scenario.signings},
               NEW v \in Values(x.target, scenario.policies),
               TryAcquire(c, Request(request[d].proof, x, Event(x, v)))
        PROVE  \E req \in GoodRequests : TryAcquire(c, req)
    <2>1. x \in Contexts
      BY <1>2, SignTyped
    <2>2. Request(request[d].proof, x, Event(x, v)) \in GoodRequests
      BY <1>2, <2>1, EventTyped DEF Request, GoodRequests
    <2> QED
      BY <1>3, <2>2
  <1>4. ASSUME NEW s \in scenario.signings,
               s.target = request[d].event.target, s.idem = request[d].event.idem,
               TryAcquire(c, Request(Sign(s), Context(s), request[d].event))
        PROVE  \E req \in GoodRequests : TryAcquire(c, req)
    <2>1. Matching(Context(s), request[d].event)
      BY <1>4 DEF Matching, Context
    <2>2. Request(Sign(s), Context(s), request[d].event) \in GoodRequests
      BY <1>2, <2>1, SignTyped DEF Request, GoodRequests
    <2> QED
      BY <1>4, <2>2
  <1> QED
    BY <1>3, <1>4 DEF Resubmit

-----------------------------------------------------------------------------
(* The steps between taking a slot and releasing it.                       *)

Busy == {"admit", "load", "prepare", "accept", "verify", "release"}

Serve(c) == Enter(c) \/ Admit(c) \/ Prepare(c) \/ Accept(c) \/ Verify(c)

LEMMA ServeMoves ==
  ASSUME NEW c \in Clients, Serve(c)
  PROVE  /\ pc[c] \in Busy
         /\ \E l \in Busy : pc' = [pc EXCEPT ![c] = l]
         /\ UNCHANGED << scenario, now, slots, request, released >>
PROOF
  <1>1. CASE Enter(c)
    BY <1>1 DEF Enter, Goto, Answer, Busy
  <1>2. CASE Admit(c)
    BY <1>2 DEF Admit, Goto, Answer, Busy
  <1>3. CASE Prepare(c)
    BY <1>3 DEF Prepare, Settled, Goto, Answer, Busy
  <1>4. CASE Accept(c)
    BY <1>4 DEF Accept, Settled, MoveRef, Goto, Answer, Busy
  <1>5. CASE Verify(c)
    BY <1>5 DEF Verify, Goto, Answer, Busy
  <1> QED
    BY <1>1, <1>2, <1>3, <1>4, <1>5 DEF Serve

(* Only MoveRef touches the ledger.                                        *)
LEMMA ServeLedger ==
  ASSUME NEW c \in Clients, Serve(c)
  PROVE  \/ UNCHANGED << ledger, grounds >>
         \/ pc[c] = "accept" /\ request[c].event.on = Commit /\ MoveRef(c)
PROOF
  <1>1. CASE Enter(c)
    BY <1>1 DEF Enter
  <1>2. CASE Admit(c)
    BY <1>2 DEF Admit
  <1>3. CASE Prepare(c)
    BY <1>3 DEF Prepare
  <1>4. CASE Accept(c)
    BY <1>4 DEF Accept
  <1>5. CASE Verify(c)
    BY <1>5 DEF Verify
  <1> QED
    BY <1>1, <1>2, <1>3, <1>4, <1>5 DEF Serve

(* Every step takes a slot, serves, releases, or is a tick of the clock.   *)
LEMMA NextCases ==
  ASSUME Types, Next
  PROVE  \/ \E c \in Clients : \E req \in GoodRequests : TryAcquire(c, req)
         \/ \E c \in Clients : Serve(c)
         \/ \E c \in Clients : Release(c)
         \/ Tick
PROOF
  <1>1. ASSUME NEW c \in Clients, Submit(c)
        PROVE  \E req \in GoodRequests : TryAcquire(c, req)
    BY <1>1, SubmitTakes
  <1>2. ASSUME NEW c \in Clients, NEW d \in Clients, Resubmit(c, d)
        PROVE  \E req \in GoodRequests : TryAcquire(c, req)
    BY <1>2, ResubmitTakes
  <1> QED
    BY <1>1, <1>2 DEF Next, Progress, Serve

-----------------------------------------------------------------------------
(* Type correctness.                                                       *)

LEMMA ServeTypes ==
  ASSUME Types, NEW c \in Clients, Serve(c)
  PROVE  Types'
PROOF
  <1>1. /\ scenario' \in Scenarios /\ now' \in Nat /\ slots' \in Nat
        /\ request' \in [Clients -> GoodRequests \cup {None}]
        /\ released' \in [Clients -> BOOLEAN]
    BY ServeMoves DEF Types
  <1>2. /\ pc' \in [Clients -> Steps]
        /\ \A d \in Clients : pc'[d] # "idle" => request'[d] \in GoodRequests
    BY ServeMoves DEF Types, Steps, Busy
  <1>3. at' \in [Clients -> Nat]
    BY DEF Types, Serve, Enter, Admit, Prepare, Accept, Verify
  <1>4. /\ ledger' \in Seq(GoodEvents)
        /\ grounds' \in Seq([client : Clients, proof : Proofs, at : Nat])
        /\ Len(grounds') = Len(ledger')
    <2>1. CASE UNCHANGED << ledger, grounds >>
      BY <2>1 DEF Types
    <2>2. CASE pc[c] = "accept" /\ MoveRef(c)
      <3>1. request[c].event \in GoodEvents /\ request[c].proof \in Proofs
        BY <2>2 DEF Types, GoodRequests
      <3>2. [client |-> c, proof |-> request[c].proof, at |-> at[c]]
              \in [client : Clients, proof : Proofs, at : Nat]
        BY <3>1 DEF Types
      <3> QED
        BY <2>2, <3>1, <3>2, AppendProperties DEF Types, MoveRef
    <2> QED
      BY <2>1, <2>2, ServeLedger
  <1> QED
    BY <1>1, <1>2, <1>3, <1>4 DEF Types

LEMMA TypesStep ==
  Types /\ [Next]_vars => Types'
PROOF
  <1> SUFFICES ASSUME Types, [Next]_vars
               PROVE  Types'
    OBVIOUS
  <1>1. ASSUME NEW c \in Clients, NEW req \in GoodRequests, TryAcquire(c, req)
        PROVE  Types'
    <2>1. slots' \in Nat
      BY <1>1 DEF Types, TryAcquire
    <2>2. pc' \in [Clients -> Steps]
      BY <1>1 DEF Types, TryAcquire, Steps
    <2>3. /\ request' \in [Clients -> GoodRequests \cup {None}]
          /\ \A d \in Clients : pc'[d] # "idle" => request'[d] \in GoodRequests
      BY <1>1 DEF Types, TryAcquire
    <2> QED
      BY <1>1, <2>1, <2>2, <2>3 DEF Types, TryAcquire
  <1>2. ASSUME NEW c \in Clients, Serve(c)
        PROVE  Types'
    BY <1>2, ServeTypes
  <1>3. ASSUME NEW c \in Clients, Release(c)
        PROVE  Types'
    <2>0. TakeSlot(c)
      BY <1>3 DEF Release
    <2>1. slots' \in Nat /\ released' \in [Clients -> BOOLEAN]
      <3>1. CASE slots > 0 /\ slots' = slots - 1 /\ released' = [released EXCEPT ![c] = TRUE]
        BY <3>1 DEF Types
      <3>2. CASE UNCHANGED << slots, released >>
        BY <3>2 DEF Types
      <3> QED
        BY <2>0, <3>1, <3>2 DEF TakeSlot
    <2>2. pc' \in [Clients -> Steps] /\ \A d \in Clients : pc'[d] # "idle" => pc[d] # "idle"
      BY <1>3 DEF Types, Release, Steps
    <2> QED
      BY <1>3, <2>1, <2>2 DEF Types, Release
  <1>4. CASE Tick
    BY <1>4 DEF Types, Tick, local
  <1>5. CASE UNCHANGED vars
    BY <1>5 DEF Types, vars, local
  <1> QED
    BY <1>1, <1>2, <1>3, <1>4, <1>5, NextCases

LEMMA TypesInit ==
  Init => Types
PROOF
  BY EmptySeq DEF Init, Types, Steps

-----------------------------------------------------------------------------
(* The limiter.                                                            *)

Occupants == {c \in Clients : Inside(c) /\ ~released[c]}

(* Besides the count, the flag of a release function says where its caller *)
(* is: unset until the first call of it, set before the second.            *)
SlotsInv ==
  /\ WithinCapacity
  /\ slots <= Capacity
  /\ \A c \in Clients : pc[c] \in Busy \cup {"idle"} => ~released[c]
  /\ \A c \in Clients : pc[c] = "again" => released[c]

LEMMA OccupantsFinite ==
  IsFiniteSet(Occupants) /\ IsFiniteSet(Occupants')
PROOF
  BY ClientsAssumption, FS_Subset DEF Occupants

LEMMA SlotsStep ==
  Types /\ SlotsInv /\ [Next]_vars => SlotsInv'
PROOF
  <1> SUFFICES ASSUME Types, SlotsInv, [Next]_vars
               PROVE  SlotsInv'
    OBVIOUS
  <1> USE DEF Capacity
  <1>0. slots = Cardinality(Occupants)
    BY DEF SlotsInv, WithinCapacity, Occupants
  <1>s. SUFFICES /\ slots' = Cardinality(Occupants') /\ slots' <= Capacity'
                 /\ \A c \in Clients : pc'[c] \in Busy \cup {"idle"} => ~released'[c]
                 /\ \A c \in Clients : pc'[c] = "again" => released'[c]
    BY DEF SlotsInv, WithinCapacity, Occupants
  <1>1. ASSUME NEW c \in Clients, NEW req \in GoodRequests, TryAcquire(c, req)
        PROVE  /\ slots' = Cardinality(Occupants') /\ slots' <= Capacity'
               /\ \A d \in Clients : pc'[d] \in Busy \cup {"idle"} => ~released'[d]
               /\ \A d \in Clients : pc'[d] = "again" => released'[d]
    <2>1. pc[c] = "idle" /\ ~released[c] /\ released' = released /\ scenario' = scenario
      BY <1>1 DEF TryAcquire, SlotsInv
    <2>2. c \notin Occupants
      BY <2>1 DEF Occupants, Inside
    <2>3. CASE Room /\ slots' = slots + 1 /\ pc' = [pc EXCEPT ![c] = "admit"]
      <3>1. Occupants' = Occupants \cup {c}
        BY <2>1, <2>3 DEF Occupants, Inside, Types
      <3>2. slots' = Cardinality(Occupants')
        BY <1>0, <2>2, <2>3, <3>1, OccupantsFinite, FS_AddElement
      <3>3. slots' <= Capacity'
        BY <2>1, <2>3, ScenariosAssumption DEF Room, Types
      <3> QED
        BY <2>1, <2>3, <3>2, <3>3 DEF Types, SlotsInv, Busy
    <2>4. CASE slots' = slots /\ pc' = [pc EXCEPT ![c] = "done"]
      <3>1. Occupants' = Occupants
        BY <2>1, <2>4 DEF Occupants, Inside, Types
      <3> QED
        BY <1>0, <2>1, <2>4, <3>1 DEF Types, SlotsInv, Busy
    <2> QED
      BY <1>1, <2>3, <2>4 DEF TryAcquire
  <1>2. ASSUME NEW c \in Clients, Serve(c)
        PROVE  /\ slots' = Cardinality(Occupants') /\ slots' <= Capacity'
               /\ \A d \in Clients : pc'[d] \in Busy \cup {"idle"} => ~released'[d]
               /\ \A d \in Clients : pc'[d] = "again" => released'[d]
    <2>1. PICK l \in Busy : pc' = [pc EXCEPT ![c] = l]
      BY <1>2, ServeMoves
    <2>2. pc[c] \in Busy /\ UNCHANGED << scenario, slots, released >>
      BY <1>2, ServeMoves
    <2>3. Occupants' = Occupants
      BY <2>1, <2>2 DEF Occupants, Inside, Types, Busy
    <2> QED
      BY <1>0, <2>1, <2>2, <2>3 DEF Types, SlotsInv, Busy
  <1>3. ASSUME NEW c \in Clients, Release(c)
        PROVE  /\ slots' = Cardinality(Occupants') /\ slots' <= Capacity'
               /\ \A d \in Clients : pc'[d] \in Busy \cup {"idle"} => ~released'[d]
               /\ \A d \in Clients : pc'[d] = "again" => released'[d]
    <2>1. /\ pc[c] \in {"release", "again"} /\ TakeSlot(c) /\ scenario' = scenario
          /\ \E l \in {"again", "done"} : pc' = [pc EXCEPT ![c] = l]
      BY <1>3 DEF Release
    <2>2. PICK l \in {"again", "done"} : pc' = [pc EXCEPT ![c] = l]
      BY <2>1
    <2>3. CASE ~released[c] /\ slots' = slots - 1 /\ released' = [released EXCEPT ![c] = TRUE]
      <3>1. c \in Occupants
        BY <2>1, <2>3 DEF Occupants, Inside
      <3>2. Occupants' = Occupants \ {c}
        BY <2>2, <2>3 DEF Occupants, Inside, Types
      <3>3. slots' = Cardinality(Occupants')
        BY <1>0, <2>3, <3>1, <3>2, OccupantsFinite, FS_RemoveElement
      <3>4. slots' <= Capacity'
        BY <2>1, <2>3, ScenariosAssumption DEF Types, SlotsInv
      <3> QED
        BY <2>2, <2>3, <3>3, <3>4 DEF Types, SlotsInv, Busy
    <2>4. CASE released[c] /\ UNCHANGED << slots, released >>
      <3>1. Occupants' = Occupants
        BY <2>2, <2>4 DEF Occupants, Inside, Types
      <3> QED
        BY <1>0, <2>1, <2>2, <2>4, <3>1 DEF Types, SlotsInv, Busy
    <2> QED
      BY <2>1, <2>3, <2>4 DEF TakeSlot
  <1>4. CASE Tick \/ UNCHANGED vars
    <2>1. UNCHANGED << scenario, slots, pc, released >>
      BY <1>4 DEF Tick, local, vars
    <2>2. Occupants' = Occupants
      BY <2>1 DEF Occupants, Inside
    <2> QED
      BY <1>0, <2>1, <2>2 DEF SlotsInv
  <1> QED
    BY <1>1, <1>2, <1>3, <1>4, NextCases

LEMMA SlotsInvariant == Spec => [](Types /\ SlotsInv)
PROOF
  <1>1. Init => SlotsInv
    <2> SUFFICES ASSUME Init
                 PROVE  SlotsInv
      OBVIOUS
    <2>1. {c \in Clients : Inside(c) /\ ~released[c]} = {}
      BY DEF Init, Inside
    <2>2. slots <= Capacity
      BY ScenariosAssumption DEF Init, Capacity
    <2> QED
      BY <2>1, <2>2, FS_EmptySet DEF Init, SlotsInv, WithinCapacity, Busy
  <1> QED
    BY <1>1, TypesInit, TypesStep, SlotsStep, PTL DEF Spec

(* For any number of clients and any capacity, the limiter's slots are     *)
(* exactly the submissions that hold one and never exceed the capacity,    *)
(* however often a release function is called (limiter.go TryAcquire).     *)
THEOREM SlotsExact ==
  Spec => [](WithinCapacity /\ slots <= Capacity)
PROOF
  <1>1. SlotsInv => WithinCapacity /\ slots <= Capacity
    BY DEF SlotsInv
  <1> QED
    BY <1>1, SlotsInvariant, PTL

-----------------------------------------------------------------------------
(* Authorisation.                                                          *)

(* The policy of a commit is the value of the last policy event up to it.  *)
LEMMA LastPolicyEvent ==
  ASSUME ledger \in Seq(GoodEvents), NEW n \in 0..Commit, PolicyEvents(n) # {}
  PROVE  Max(PolicyEvents(n)) \in PolicyEvents(n)
PROOF
  <1> DEFINE S == PolicyEvents(n)
             T == {n - i : i \in S}
  <1>1. n \in Nat /\ S \subseteq 1..n
    BY LenProperties DEF Commit, PolicyEvents
  <1>2. T \subseteq Nat /\ T # {}
    BY <1>1
  <1>3. PICK t \in T : \A u \in T : ~(<< u, t >> \in OpToRel(<, Nat))
    <2> HIDE DEF T
    <2> QED
      BY <1>2, NatLessThanWellFounded, WFMin
  <1>4. \A u \in T : ~(u < t)
    BY <1>2, <1>3 DEF OpToRel
  <1>5. PICK i \in S : t = n - i
    OBVIOUS
  <1>6. ASSUME NEW j \in S
        PROVE  i >= j
    <2>1. n - j \in T /\ ~(n - j < n - i)
      BY <1>4, <1>5
    <2>2. i \in Int /\ j \in Int
      BY <1>1
    <2> HIDE DEF S, T
    <2> QED
      BY <1>1, <2>1, <2>2
  <1> QED
    BY <1>6 DEF Max

(* An accepted event does not change the policy of the commits before it.  *)
LEMMA PolicyStable ==
  ASSUME Types, NEW e \in GoodEvents, ledger' = Append(ledger, e), NEW n \in 0..Commit
  PROVE  PolicyAt(n)' = PolicyAt(n)
PROOF
  <1>1. \A i \in 1..n : ledger'[i] = ledger[i]
    BY AppendProperties, LenProperties DEF Types, Commit
  <1>2. PolicyEvents(n)' = PolicyEvents(n)
    BY <1>1 DEF PolicyEvents
  <1>3. PolicyEvents(n) # {} => Max(PolicyEvents(n)) \in 1..n
    BY LastPolicyEvent DEF Types, PolicyEvents
  <1> QED
    BY <1>1, <1>2, <1>3 DEF PolicyAt

LEMMA PolicyTyped ==
  ASSUME Types, NEW n \in 0..Commit, PolicyAt(n) # None
  PROVE  PolicyAt(n) \in Policies \cup {RootPolicy}
PROOF
  <1>1. CASE PolicyEvents(n) = {}
    BY <1>1 DEF PolicyAt
  <1>2. CASE PolicyEvents(n) # {}
    <2> DEFINE i == Max(PolicyEvents(n))
    <2>1. i \in 1..n /\ ledger[i].target = PolicyTarget
      BY <1>2, LastPolicyEvent DEF Types, PolicyEvents
    <2>2. i \in 1..Len(ledger)
      BY <2>1, LenProperties DEF Types, Commit
    <2>3. ledger[i] \in GoodEvents
      BY <2>2, ElementOfSeq DEF Types
    <2> QED
      BY <1>2, <2>1, <2>3 DEF PolicyAt, GoodEvents
  <1> QED
    BY <1>1, <1>2

(* Authorised under the policy of the commit that the context names.       *)
AuthorisedFor(r, time) ==
  LET n == r.context.state
  IN  /\ scenario.gate
      /\ n \in 0..Commit
      /\ PolicyAt(n) # None
      /\ authenticateAuthoritativePolicySnapshot(n, r, time)

(* A submission on its way through candidate write was authorised for the  *)
(* commit that its context names, and its candidate has that commit as its *)
(* parent.                                                                 *)
Admitted(c) ==
  /\ pc[c] = "load" => scenario.gate
  /\ pc[c] \in {"prepare", "accept"} => AuthorisedFor(request[c], at[c])
  /\ pc[c] = "accept" => request[c].event.on = request[c].context.state

AdmittedInv == \A c \in Clients : Admitted(c)

(* One commit of AuthorisedAtParent.                                       *)
Grounded(n) ==
  LET p == grounds[n].proof
      policy == PolicyAt(n - 1)
  IN  /\ scenario.gate
      /\ p.good
      /\ p.context = [ledger |-> LedgerID, target |-> ledger[n].target,
                      idem |-> ledger[n].idem, state |-> n - 1]
      /\ policy # None
      /\ [actor |-> p.actor, id |-> p.key, revoked |-> FALSE] \in policy.keys
      /\ [actor |-> p.actor, target |-> ledger[n].target] \in policy.grants
      /\ grounds[n].at \in p.issued..(p.expires - 1)
      /\ p.expires - p.issued \in 1..policy.life

LEMMA GroundedAll ==
  AuthorisedAtParent <=> \A n \in 1..Commit : Grounded(n)
PROOF
  BY DEF AuthorisedAtParent, Grounded

(* Authorisation speaks of the past only, so it is not lost.               *)
LEMMA AuthorisedStays ==
  ASSUME Types, NEW r, NEW t, AuthorisedFor(r, t), scenario' = scenario,
         \/ ledger' = ledger
         \/ \E e \in GoodEvents : ledger' = Append(ledger, e)
  PROVE  AuthorisedFor(r, t)'
PROOF
  <1> DEFINE n == r.context.state
  <1>1. n \in 0..Commit /\ n \in 0..Commit'
    BY AppendProperties, LenProperties DEF AuthorisedFor, Types, Commit
  <1>2. PolicyAt(n)' = PolicyAt(n)
    <2>1. CASE ledger' = ledger
      BY <2>1 DEF PolicyAt, PolicyEvents
    <2>2. CASE \E e \in GoodEvents : ledger' = Append(ledger, e)
      BY <1>1, <2>2, PolicyStable
    <2> QED
      BY <2>1, <2>2
  <1> QED
    BY <1>1, <1>2 DEF AuthorisedFor, authenticateAuthoritativePolicySnapshot

LEMMA GroundedStays ==
  ASSUME Types, NEW n \in 1..Commit, Grounded(n), scenario' = scenario,
         \/ UNCHANGED << ledger, grounds >>
         \/ /\ \E e \in GoodEvents : ledger' = Append(ledger, e)
            /\ \E g \in [client : Clients, proof : Proofs, at : Nat] :
                 grounds' = Append(grounds, g)
  PROVE  Grounded(n)'
PROOF
  <1>0. n \in 1..Len(ledger) /\ n \in 1..Len(grounds)
    BY DEF Types, Commit
  <1>1. ledger'[n] = ledger[n] /\ grounds'[n] = grounds[n]
    <2>1. CASE UNCHANGED << ledger, grounds >>
      BY <2>1
    <2>2. CASE /\ \E e \in GoodEvents : ledger' = Append(ledger, e)
               /\ \E g \in [client : Clients, proof : Proofs, at : Nat] :
                    grounds' = Append(grounds, g)
      <3>1. ledger'[n] = ledger[n]
        BY <1>0, <2>2, AppendProperties DEF Types
      <3>2. grounds'[n] = grounds[n]
        BY <1>0, <2>2, AppendProperties DEF Types
      <3> QED
        BY <3>1, <3>2
    <2> QED
      BY <2>1, <2>2
  <1>2. n - 1 \in 0..Commit
    BY LenProperties DEF Types, Commit
  <1>3. PolicyAt(n - 1)' = PolicyAt(n - 1)
    <2>1. CASE ledger' = ledger
      BY <2>1 DEF PolicyAt, PolicyEvents
    <2>2. CASE \E e \in GoodEvents : ledger' = Append(ledger, e)
      BY <1>2, <2>2, PolicyStable
    <2> QED
      BY <2>1, <2>2
  <1> QED
    BY <1>1, <1>3 DEF Grounded

(* A commit appended to the head its proof was authorised for is grounded. *)
LEMMA MoveGrounded ==
  ASSUME Types, NEW c \in Clients, pc[c] = "accept", MoveRef(c), scenario' = scenario,
         AuthorisedFor(request[c], at[c]), NEW m \in Nat, m = Commit,
         request[c].context.state = m
  PROVE  Grounded(m + 1)'
PROOF
  <1> DEFINE r == request[c]
             p == r.proof
             g == [client |-> c, proof |-> p, at |-> at[c]]
             policy == PolicyAt(m)
  <1>1. /\ r \in GoodRequests /\ r.event \in GoodEvents /\ p \in Proofs
        /\ r.context \in Contexts /\ Matching(r.context, r.event)
    BY DEF Types, GoodRequests
  <1>2. at[c] \in Nat /\ g \in [client : Clients, proof : Proofs, at : Nat]
    BY <1>1, LenProperties DEF Types, Commit
  <1>3. /\ ledger'[m + 1] = r.event /\ grounds'[m + 1] = g
        /\ ledger' = Append(ledger, r.event)
    <2>1. ledger' = Append(ledger, r.event) /\ grounds' = Append(grounds, g)
      BY DEF MoveRef
    <2>2. ledger'[Len(ledger) + 1] = r.event
      BY <1>1, <2>1, AppendProperties DEF Types
    <2>3. grounds'[Len(grounds) + 1] = g
      BY <1>2, <2>1, AppendProperties DEF Types
    <2> QED
      BY <2>1, <2>2, <2>3 DEF Types, Commit
  <1>4. policy # None /\ PolicyAt(m)' = PolicyAt(m)
    <2>1. m \in 0..Commit
      OBVIOUS
    <2>2. policy # None
      BY DEF AuthorisedFor
    <2>3. PolicyAt(m)' = PolicyAt(m)
      BY <1>1, <1>3, <2>1, PolicyStable
    <2> QED
      BY <2>2, <2>3
  <1>5. /\ scenario.gate /\ r.context.ledger = LedgerID
        /\ AuthenticateAndAuthorize(policy, p, r.context, at[c])
    BY DEF AuthorisedFor, authenticateAuthoritativePolicySnapshot
  <1>6. p.context = [ledger |-> LedgerID, target |-> r.event.target, idem |-> r.event.idem,
                     state |-> m]
    BY <1>1, <1>5 DEF AuthenticateAndAuthorize, Contexts, Matching
  <1>7. policy \in Policies \cup {RootPolicy}
    BY <1>4, PolicyTyped
  <1>8. [actor |-> p.actor, id |-> p.key, revoked |-> FALSE] \in policy.keys
    <2>1. PICK k \in policy.keys : k.actor = p.actor /\ k.id = p.key /\ ~k.revoked
      BY <1>5 DEF AuthenticateAndAuthorize, findKey
    <2>2. k.revoked \in BOOLEAN /\ k = [actor |-> k.actor, id |-> k.id, revoked |-> k.revoked]
      BY <1>7, <2>1, PoliciesAssumption
    <2>3. k.revoked = FALSE
      BY <2>1, <2>2
    <2> QED
      BY <2>1, <2>2, <2>3
  <1>9. [actor |-> p.actor, target |-> r.event.target] \in policy.grants /\ p.good
    BY <1>1, <1>5 DEF AuthenticateAndAuthorize, hasGrant, Matching
  <1>10. at[c] \in p.issued..(p.expires - 1) /\ p.expires - p.issued \in 1..policy.life
    <2>1. p.issued \in Nat /\ p.expires \in Nat /\ policy.life \in Nat
      BY <1>1, <1>7, PoliciesAssumption DEF Proofs
    <2>2. /\ p.expires > p.issued /\ p.expires - p.issued <= policy.life
          /\ p.issued <= at[c] /\ at[c] < p.expires
      BY <1>5 DEF AuthenticateAndAuthorize
    <2> HIDE DEF p, policy
    <2> QED
      BY <1>2, <2>1, <2>2
  <1>11. (m + 1) - 1 = m
    OBVIOUS
  <1> HIDE DEF p, policy, r
  <1>12. g.proof = p /\ g.at = at[c]
    OBVIOUS
  <1> HIDE DEF g
  <1> USE DEF policy
  <1> QED
    BY <1>3, <1>4, <1>5, <1>6, <1>8, <1>9, <1>10, <1>11, <1>12 DEF Grounded

(* What a step may do to the ledger.                                       *)
Extends ==
  /\ scenario' = scenario
  /\ \/ UNCHANGED << ledger, grounds >>
     \/ /\ \E e \in GoodEvents : ledger' = Append(ledger, e)
        /\ \E g \in [client : Clients, proof : Proofs, at : Nat] :
             grounds' = Append(grounds, g)

LEMMA NextExtends ==
  ASSUME Types, [Next]_vars
  PROVE  Extends
PROOF
  <1>1. ASSUME NEW c \in Clients, NEW req \in GoodRequests, TryAcquire(c, req)
        PROVE  Extends
    BY <1>1 DEF TryAcquire, Extends
  <1>2. ASSUME NEW c \in Clients, Serve(c)
        PROVE  Extends
    <2>1. scenario' = scenario
      BY <1>2, ServeMoves
    <2>2. CASE UNCHANGED << ledger, grounds >>
      BY <2>1, <2>2 DEF Extends
    <2>3. CASE pc[c] = "accept" /\ MoveRef(c)
      <3>1. request[c].event \in GoodEvents /\ request[c].proof \in Proofs
        BY <2>3 DEF Types, GoodRequests
      <3>2. [client |-> c, proof |-> request[c].proof, at |-> at[c]]
              \in [client : Clients, proof : Proofs, at : Nat]
        BY <3>1 DEF Types
      <3> QED
        BY <2>1, <2>3, <3>1, <3>2 DEF MoveRef, Extends
    <2> QED
      BY <1>2, <2>2, <2>3, ServeLedger
  <1>3. ASSUME NEW c \in Clients, Release(c)
        PROVE  Extends
    BY <1>3 DEF Release, Extends
  <1>4. CASE Tick \/ UNCHANGED vars
    BY <1>4 DEF Tick, vars, Extends
  <1> QED
    BY <1>1, <1>2, <1>3, <1>4, NextCases

(* A submission that does not move stays admitted, and so does one that    *)
(* goes on without a new time.                                             *)
LEMMA AuthorisedKept ==
  ASSUME Types, Extends, NEW c \in Clients, AuthorisedFor(request[c], at[c]),
         request'[c] = request[c], at'[c] = at[c]
  PROVE  AuthorisedFor(request[c], at[c])'
PROOF
  <1>1. PICK r : r = request[c]
    OBVIOUS
  <1>2. PICK t : t = at[c]
    OBVIOUS
  <1>3. AuthorisedFor(r, t)
    BY <1>1, <1>2
  <1>4. AuthorisedFor(r, t)'
    BY <1>3, AuthorisedStays DEF Extends
  <1> QED
    BY <1>1, <1>2, <1>4 DEF AuthorisedFor, authenticateAuthoritativePolicySnapshot

LEMMA OthersAdmitted ==
  ASSUME Types, Extends, NEW c \in Clients, Admitted(c),
         pc'[c] = pc[c], request'[c] = request[c], at'[c] = at[c]
  PROVE  Admitted(c)'
PROOF
  BY AuthorisedKept DEF Admitted, Extends

LEMMA ServeAdmitted ==
  ASSUME Types, Extends, NEW c \in Clients, Admitted(c), Serve(c)
  PROVE  Admitted(c)'
PROOF
  <1>1. CASE Enter(c)
    <2>1. \/ pc' = [pc EXCEPT ![c] = "load"] /\ scenario.gate
          \/ pc' = [pc EXCEPT ![c] = "release"]
      BY <1>1 DEF Enter, Goto, Answer
    <2> QED
      BY <2>1 DEF Admitted, Types, Extends
  <1>2. CASE Admit(c)
    <2>1. CASE Authorised(c) /\ pc' = [pc EXCEPT ![c] = "prepare"]
      <3>1. Commit \in 0..Commit
        BY LenProperties DEF Types, Commit
      <3>2. AuthorisedFor(request[c], at[c])
        BY <1>2, <2>1, <3>1 DEF Admit, Admitted, Authorised, AuthorisedFor,
                                authenticateAuthoritativePolicySnapshot
      <3>3. AuthorisedFor(request[c], at[c])'
        BY <1>2, <3>2, AuthorisedKept DEF Admit
      <3> QED
        BY <2>1, <3>3 DEF Admitted, Types
    <2>2. CASE pc' = [pc EXCEPT ![c] = "release"]
      BY <2>2 DEF Admitted, Types
    <2> QED
      BY <1>2, <2>1, <2>2 DEF Admit, Goto, Answer
  <1>3. CASE Prepare(c)
    <2>1. CASE /\ request[c].context.state = Commit /\ request[c].event.on = Commit
               /\ pc' = [pc EXCEPT ![c] = "accept"]
      <3>1. AuthorisedFor(request[c], at[c])'
        BY <1>3, AuthorisedKept DEF Prepare, Admitted
      <3>2. request' = request
        BY <1>3 DEF Prepare
      <3> QED
        BY <2>1, <3>1, <3>2 DEF Admitted, Types
    <2>2. CASE pc' = [pc EXCEPT ![c] = "release"]
      BY <2>2 DEF Admitted, Types
    <2> QED
      BY <1>3, <2>1, <2>2 DEF Prepare, Settled, Goto, Answer
  <1>4. CASE Accept(c) \/ Verify(c)
    <2>1. \E l \in {"verify", "release"} : pc' = [pc EXCEPT ![c] = l]
      BY <1>4 DEF Accept, Verify, Settled, MoveRef, Goto, Answer
    <2> QED
      BY <2>1 DEF Admitted, Types
  <1> QED
    BY <1>1, <1>2, <1>3, <1>4 DEF Serve

LEMMA AdmittedStep ==
  Types /\ AdmittedInv /\ [Next]_vars => AdmittedInv'
PROOF
  <1> SUFFICES ASSUME Types, AdmittedInv, [Next]_vars, NEW d \in Clients
               PROVE  Admitted(d)'
    BY DEF AdmittedInv
  <1>0. Extends /\ Admitted(d)
    BY NextExtends DEF AdmittedInv
  <1>1. ASSUME NEW c \in Clients, NEW req \in GoodRequests, TryAcquire(c, req)
        PROVE  Admitted(d)'
    <2>1. CASE d = c
      <3>1. \E l \in {"admit", "done"} : pc' = [pc EXCEPT ![c] = l]
        BY <1>1 DEF TryAcquire
      <3> QED
        BY <2>1, <3>1 DEF Admitted, Types
    <2>2. CASE d # c
      <3>1. pc'[d] = pc[d] /\ request'[d] = request[d] /\ at'[d] = at[d]
        BY <1>1, <2>2 DEF TryAcquire, Types
      <3> QED
        BY <1>0, <3>1, OthersAdmitted
    <2> QED
      BY <2>1, <2>2
  <1>2. ASSUME NEW c \in Clients, Serve(c)
        PROVE  Admitted(d)'
    <2>1. CASE d = c
      BY <1>0, <1>2, <2>1, ServeAdmitted
    <2>2. CASE d # c
      <3>1. pc'[d] = pc[d] /\ request'[d] = request[d]
        BY <1>2, <2>2, ServeMoves DEF Types
      <3>2. at'[d] = at[d]
        BY <1>2, <2>2 DEF Serve, Enter, Admit, Prepare, Accept, Verify, Types
      <3> QED
        BY <1>0, <3>1, <3>2, OthersAdmitted
    <2> QED
      BY <2>1, <2>2
  <1>3. ASSUME NEW c \in Clients, Release(c)
        PROVE  Admitted(d)'
    <2>1. CASE d = c
      <3>1. \E l \in {"again", "done"} : pc' = [pc EXCEPT ![c] = l]
        BY <1>3 DEF Release
      <3> QED
        BY <2>1, <3>1 DEF Admitted, Types
    <2>2. CASE d # c
      <3>1. pc'[d] = pc[d] /\ request'[d] = request[d] /\ at'[d] = at[d]
        BY <1>3, <2>2 DEF Release, Types
      <3> QED
        BY <1>0, <3>1, OthersAdmitted
    <2> QED
      BY <2>1, <2>2
  <1>4. CASE Tick \/ UNCHANGED vars
    BY <1>0, <1>4, OthersAdmitted DEF Tick, vars, local
  <1> QED
    BY <1>1, <1>2, <1>3, <1>4, NextCases

LEMMA GroundedStep ==
  Types /\ AdmittedInv /\ AuthorisedAtParent /\ [Next]_vars => AuthorisedAtParent'
PROOF
  <1> SUFFICES ASSUME Types, AdmittedInv, AuthorisedAtParent, [Next]_vars
               PROVE  AuthorisedAtParent'
    OBVIOUS
  <1>1. Extends /\ \A n \in 1..Commit : Grounded(n)
    BY NextExtends, GroundedAll
  <1>2. \A n \in 1..Commit : Grounded(n)'
    BY <1>1, GroundedStays DEF Extends
  <1>3. CASE ledger' = ledger
    <2>1. Commit' = Commit
      BY <1>3 DEF Commit
    <2> QED
      BY <1>2, <2>1 DEF AuthorisedAtParent, Grounded
  <1>4. CASE \E c \in Clients : Serve(c) /\ ledger' # ledger
    <2>1. PICK c \in Clients : Serve(c) /\ ledger' # ledger
      BY <1>4
    <2>2. pc[c] = "accept" /\ request[c].event.on = Commit /\ MoveRef(c)
      BY <2>1, ServeLedger
    <2>3. AuthorisedFor(request[c], at[c]) /\ request[c].context.state = Commit
      BY <2>2 DEF AdmittedInv, Admitted
    <2>4. PICK m \in Nat : m = Commit
      BY LenProperties DEF Types, Commit
    <2>5. Grounded(m + 1)'
      BY <1>1, <2>2, <2>3, <2>4, MoveGrounded DEF Extends
    <2>6. request[c].event \in GoodEvents
      BY <2>2 DEF Types, GoodRequests
    <2>7. Len(ledger') = m + 1
      BY <2>2, <2>4, <2>6, AppendProperties DEF MoveRef, Types, Commit
    <2>8. \A n \in 1..(m + 1) : Grounded(n)'
      BY <1>2, <2>4, <2>5
    <2>9. Commit' = m + 1
      BY <2>7 DEF Commit
    <2> QED
      BY <2>8, <2>9 DEF AuthorisedAtParent, Grounded
  <1> QED
    BY <1>3, <1>4, NextCases DEF TryAcquire, Release, Tick, vars

(* For any clients, policies, proofs and faults, every accepted commit was *)
(* signed for exactly its parent and authorised by the policy in force     *)
(* there, although policies are rotated and revoked between admission and  *)
(* acceptance (writegate.go AdmitAuthorityWrite, candidate_write.go).      *)
THEOREM AlwaysAuthorised ==
  Spec => []AuthorisedAtParent
PROOF
  <1>1. Init => AdmittedInv /\ AuthorisedAtParent
    <2> SUFFICES ASSUME Init
                 PROVE  AdmittedInv /\ AuthorisedAtParent
      OBVIOUS
    <2>1. AdmittedInv
      BY DEF Init, AdmittedInv, Admitted
    <2>2. Commit = 0
      BY EmptySeq DEF Init, Commit
    <2> QED
      BY <2>1, <2>2 DEF AuthorisedAtParent
  <1> QED
    BY <1>1, TypesInit, TypesStep, AdmittedStep, GroundedStep, PTL DEF Spec

-----------------------------------------------------------------------------
(* Refinement of AbstractLedger.  None is not a record.                    *)
NoneApart == None \notin Events /\ \A p, x, e : None # Request(p, x, e)

(* What a client submits names the target and key of a signing.            *)
Named(x) == x.state \in 0..MaxLength /\ \E s \in Signings : x.target = s.target /\ x.idem = s.idem

Traceable(req) == req # None /\ req.event \in Events /\ Named(req.context)

LEMMA EventNamed ==
  ASSUME Types, NEW x, Named(x), NEW v \in Values(x.target, scenario.policies)
  PROVE  Event(x, v) \in Events
PROOF
  <1>1. PICK s \in Signings : x.target = s.target /\ x.idem = s.idem
    BY DEF Named
  <1>2. v \in Values(s.target, Policies)
    BY <1>1, ScenariosAssumption DEF Types, Values
  <1>3. Event(x, v) \in [target : {s.target}, idem : {s.idem}, on : 0..MaxLength,
                         value : Values(s.target, Policies)]
    BY <1>1, <1>2 DEF Named, Event
  <1> QED
    BY <1>3 DEF Events

LEMMA ContextNamed ==
  ASSUME Types, Commit <= MaxLength, NEW s \in scenario.signings
  PROVE  Named(Context(s))
PROOF
  <1>1. s \in Signings /\ Commit \in Nat
    BY SigningTyped, LenProperties DEF Types, Commit
  <1>2. MaxLength \in Nat
    BY ClientsAssumption, FS_CardinalityType DEF MaxLength
  <1>3. Commit \in 0..MaxLength
    BY <1>1, <1>2
  <1> QED
    BY <1>1, <1>3 DEF Named, Context

LEMMA SubmitTraceable ==
  ASSUME NoneApart, Types, Commit <= MaxLength, NEW c \in Clients, Submit(c)
  PROVE  \E req : Traceable(req) /\ TryAcquire(c, req)
PROOF
  <1>0. PICK s \in scenario.signings : \E v \in Values(s.target, scenario.policies) :
          TryAcquire(c, Request(Sign(s), Context(s), Event(Context(s), v)))
    BY DEF Submit
  <1>1. PICK v \in Values(s.target, scenario.policies) :
          TryAcquire(c, Request(Sign(s), Context(s), Event(Context(s), v)))
    BY <1>0
  <1>2. Context(s).target = s.target /\ Named(Context(s))
    BY ContextNamed DEF Context
  <1>3. Event(Context(s), v) \in Events
    BY <1>2, EventNamed
  <1>4. Traceable(Request(Sign(s), Context(s), Event(Context(s), v)))
    BY <1>2, <1>3 DEF Request, Traceable, NoneApart
  <1> QED
    BY <1>1, <1>4

LEMMA ResubmitTraceable ==
  ASSUME NoneApart, Types, Commit <= MaxLength, NEW c \in Clients, NEW d \in Clients,
         request[d] # None => Traceable(request[d]), Resubmit(c, d)
  PROVE  \E req : Traceable(req) /\ TryAcquire(c, req)
PROOF
  <1>1. Traceable(request[d])
    BY DEF Resubmit
  <1>2. ASSUME NEW x \in {request[d].context} \cup {Context(s) : s \in scenario.signings},
               NEW v \in Values(x.target, scenario.policies),
               TryAcquire(c, Request(request[d].proof, x, Event(x, v)))
        PROVE  \E req : Traceable(req) /\ TryAcquire(c, req)
    <2>1. Named(x)
      BY <1>1, ContextNamed DEF Traceable
    <2>2. Traceable(Request(request[d].proof, x, Event(x, v)))
      BY <2>1, EventNamed DEF Request, Traceable, NoneApart
    <2> QED
      BY <1>2, <2>2
  <1>3. ASSUME NEW s \in scenario.signings,
               TryAcquire(c, Request(Sign(s), Context(s), request[d].event))
        PROVE  \E req : Traceable(req) /\ TryAcquire(c, req)
    <2>1. Traceable(Request(Sign(s), Context(s), request[d].event))
      BY <1>1, ContextNamed DEF Request, Traceable, NoneApart
    <2> QED
      BY <1>3, <2>1
  <1> QED
    BY <1>2, <1>3 DEF Resubmit

-----------------------------------------------------------------------------
(* A key is used once, and every client moves the ref once at most.        *)
KeysUnique == \A i, j \in 1..Commit : ledger[i].idem = ledger[j].idem => i = j

LedgerInv == ledger \in Seq(Events) /\ KeysUnique /\ Commit = Cardinality(Movers)

Unanswered == {"idle", "admit", "load", "prepare", "accept", "verify"}

(* A submission is answered once, and moves the ref once at most, between  *)
(* its acceptance and its verification.                                    *)
Traced(c) ==
  /\ pc[c] = "idle" => request[c] = None
  /\ pc[c] # "idle" => Traceable(request[c])
  /\ pc[c] \in Unanswered => reply[c] = "none"
  /\ c \in Movers => pc[c] \in {"verify", "release", "again", "done"}
  /\ pc[c] = "verify" => c \in Movers /\ Accepted(request[c].event)

TraceInv ==
  /\ Types /\ LedgerInv /\ reply \in [Clients -> Replies]
  /\ \A c \in Clients : Traced(c)

(* So the clients bound the length of the history.                         *)
LEMMA LengthBounded ==
  ASSUME Types, LedgerInv
  PROVE  Commit \in Nat /\ Commit <= MaxLength /\ Movers \subseteq Clients /\ IsFiniteSet(Movers)
PROOF
  <1>1. ASSUME NEW n \in 1..Len(grounds) PROVE grounds[n].client \in Clients
    <2>1. grounds[n] \in [client : Clients, proof : Proofs, at : Nat]
      BY ElementOfSeq DEF Types
    <2> QED
      BY <2>1
  <1>2. Movers \subseteq Clients
    BY <1>1 DEF Movers
  <1>3. IsFiniteSet(Movers) /\ Cardinality(Movers) <= Cardinality(Clients)
    BY <1>2, ClientsAssumption, FS_Subset
  <1>4. Commit \in Nat
    BY LenProperties DEF Types, Commit
  <1> QED
    BY <1>2, <1>3, <1>4 DEF LedgerInv, MaxLength

LEMMA TraceCases ==
  ASSUME NoneApart, TraceInv, Next
  PROVE  \/ \E c \in Clients : \E req : Traceable(req) /\ TryAcquire(c, req)
         \/ \E c \in Clients : Serve(c)
         \/ \E c \in Clients : Release(c)
         \/ Tick
PROOF
  <1>0. Types /\ Commit <= MaxLength
    BY LengthBounded DEF TraceInv
  <1>1. ASSUME NEW c \in Clients, Submit(c)
        PROVE  \E req : Traceable(req) /\ TryAcquire(c, req)
    BY <1>0, <1>1, SubmitTraceable
  <1>2. ASSUME NEW c \in Clients, NEW d \in Clients, Resubmit(c, d)
        PROVE  \E req : Traceable(req) /\ TryAcquire(c, req)
    <2>1. request[d] # None => Traceable(request[d])
      BY DEF TraceInv, Traced
    <2> QED
      BY <1>0, <1>2, <2>1, ResubmitTraceable
  <1> QED
    BY <1>1, <1>2 DEF Next, Progress, Serve

(* What the ref's move does to the ledger and its movers.                  *)
LEMMA MoveEffect ==
  ASSUME Types, NEW c \in Clients, pc[c] = "accept", MoveRef(c)
  PROVE  /\ Len(ledger) \in Nat /\ Len(ledger') = Len(ledger) + 1
         /\ ledger'[Len(ledger) + 1] = request[c].event
         /\ \A i \in 1..Len(ledger) : ledger'[i] = ledger[i]
         /\ Movers' = Movers \cup {c}
PROOF
  <1>1. request[c].event \in GoodEvents /\ request[c].proof \in Proofs
    BY DEF Types, GoodRequests
  <1>2. PICK g : g = [client |-> c, proof |-> request[c].proof, at |-> at[c]]
    OBVIOUS
  <1>3. g \in [client : Clients, proof : Proofs, at : Nat] /\ g.client = c
    BY <1>1, <1>2 DEF Types
  <1>4. ledger' = Append(ledger, request[c].event) /\ grounds' = Append(grounds, g)
    BY <1>2 DEF MoveRef
  <1>5. /\ Len(ledger) \in Nat /\ Len(ledger') = Len(ledger) + 1
        /\ ledger'[Len(ledger) + 1] = request[c].event
        /\ \A i \in 1..Len(ledger) : ledger'[i] = ledger[i]
    BY <1>1, <1>4, AppendProperties, LenProperties DEF Types
  <1>6. /\ Len(grounds) \in Nat /\ Len(grounds') = Len(grounds) + 1
        /\ grounds'[Len(grounds) + 1] = g
        /\ \A i \in 1..Len(grounds) : grounds'[i] = grounds[i]
    BY <1>3, <1>4, AppendProperties, LenProperties DEF Types
  <1>7. Movers' = Movers \cup {c}
    <2>1. 1..Len(grounds') = 1..Len(grounds) \cup {Len(grounds) + 1}
      BY <1>6
    <2> QED
      BY <1>3, <1>6, <2>1 DEF Movers
  <1> QED
    BY <1>5, <1>7

-----------------------------------------------------------------------------
(* The steps of a submission: it goes on, it moves the ref, or it is       *)
(* answered, for a reason.                                                 *)
Justified(c, a) ==
  \/ a \in {"disabled", "denied", "error"} /\ pc[c] # "verify"
  \/ a = "already_accepted" /\ Accepted(request[c].event)
  \/ a = "conflict" /\ KeyConflict(request[c].event)
  \/ a = "rejected" /\ Unused(request[c].event)
  \/ a = "acceptance_unknown"
  \/ a \in {"accepted", "accepted_verification_failed"} /\ pc[c] = "verify"

GoesOn(c) ==
  /\ \E l \in {"load", "prepare", "accept"} : pc' = [pc EXCEPT ![c] = l]
  /\ pc[c] \in Unanswered \ {"idle", "verify"}
  /\ UNCHANGED << reply, ledger, grounds >>

MovesRef(c) == pc[c] = "accept" /\ Unused(request[c].event) /\ MoveRef(c)

IsAnswered(c) ==
  /\ \E a \in Replies \ {"none", "overloaded"} : Justified(c, a) /\ Answer(c, a)
  /\ pc[c] \in Unanswered \ {"idle"}
  /\ UNCHANGED << ledger, grounds >>

LEMMA SettledAnswers ==
  ASSUME NEW c, Settled(c), pc[c] \in {"prepare", "accept"}, UNCHANGED << ledger, grounds >>
  PROVE  IsAnswered(c)
PROOF
  <1>1. /\ "already_accepted" \in Replies \ {"none", "overloaded"}
        /\ "conflict" \in Replies \ {"none", "overloaded"}
        /\ "error" \in Replies \ {"none", "overloaded"}
    BY DEF Replies
  <1>2. pc[c] \in Unanswered \ {"idle"} /\ pc[c] # "verify"
    BY DEF Unanswered
  <1> QED
    BY <1>1, <1>2 DEF Settled, IsAnswered, Justified

LEMMA ServeForms ==
  ASSUME NEW c \in Clients, Serve(c)
  PROVE  GoesOn(c) \/ MovesRef(c) \/ IsAnswered(c)
PROOF
  <1>0. \A a \in {"disabled", "denied", "error", "rejected", "acceptance_unknown", "accepted",
                  "accepted_verification_failed"} : a \in Replies \ {"none", "overloaded"}
    BY DEF Replies
  <1>1. CASE Enter(c)
    <2>1. pc[c] \in Unanswered \ {"idle", "verify"} /\ UNCHANGED << ledger, grounds >>
      BY <1>1 DEF Enter, Unanswered
    <2>2. Answer(c, "disabled") => IsAnswered(c)
      BY <1>0, <2>1 DEF IsAnswered, Justified
    <2> QED
      BY <1>1, <2>1, <2>2 DEF Enter, Goto, GoesOn
  <1>2. CASE Admit(c)
    <2>1. pc[c] \in Unanswered \ {"idle", "verify"} /\ UNCHANGED << ledger, grounds >>
      BY <1>2 DEF Admit, Unanswered
    <2>2. Answer(c, "denied") \/ Answer(c, "error") => IsAnswered(c)
      BY <1>0, <2>1 DEF IsAnswered, Justified
    <2> QED
      BY <1>2, <2>1, <2>2 DEF Admit, Goto, GoesOn
  <1>3. CASE Prepare(c)
    <2>1. pc[c] = "prepare" /\ pc[c] \in Unanswered \ {"idle", "verify"} /\ UNCHANGED << ledger, grounds >>
      BY <1>3 DEF Prepare, Unanswered
    <2>2. Settled(c) => IsAnswered(c)
      BY <2>1, SettledAnswers
    <2>3. Unused(request[c].event) /\ Answer(c, "rejected") => IsAnswered(c)
      BY <1>0, <2>1 DEF IsAnswered, Justified
    <2>4. Goto(c, "accept") /\ UNCHANGED reply => GoesOn(c)
      BY <2>1 DEF Goto, GoesOn
    <2> QED
      BY <1>3, <2>2, <2>3, <2>4 DEF Prepare
  <1>4. CASE Accept(c)
    <2>1. pc[c] = "accept" /\ pc[c] \in Unanswered \ {"idle"}
      BY <1>4 DEF Accept, Unanswered
    <2>2. Settled(c) /\ UNCHANGED << ledger, grounds >> => IsAnswered(c)
      BY <2>1, SettledAnswers
    <2>3. Unused(request[c].event) /\ Answer(c, "rejected") /\ UNCHANGED << ledger, grounds >>
            => IsAnswered(c)
      BY <1>0, <2>1 DEF IsAnswered, Justified
    <2>4. Answer(c, "acceptance_unknown") /\ UNCHANGED << ledger, grounds >> => IsAnswered(c)
      BY <1>0, <2>1 DEF IsAnswered, Justified
    <2> QED
      BY <1>4, <2>1, <2>2, <2>3, <2>4 DEF Accept, MovesRef
  <1>5. CASE Verify(c)
    <2>1. pc[c] = "verify" /\ pc[c] \in Unanswered \ {"idle"} /\ UNCHANGED << ledger, grounds >>
      BY <1>5 DEF Verify, Unanswered
    <2>2. PICK a \in {"accepted", "accepted_verification_failed", "acceptance_unknown"} : Answer(c, a)
      BY <1>5 DEF Verify
    <2> QED
      BY <1>0, <2>1, <2>2 DEF IsAnswered, Justified
  <1> QED
    BY <1>1, <1>2, <1>3, <1>4, <1>5 DEF Serve

LEMMA TraceInit == ASSUME NoneApart PROVE Init => TraceInv
PROOF
  <1> SUFFICES ASSUME Init PROVE TraceInv
    OBVIOUS
  <1>1. Types
    BY TypesInit
  <1>2. Len(ledger) = 0 /\ Len(grounds) = 0 /\ ledger \in Seq(Events)
    BY EmptySeq DEF Init
  <1>3. Movers = {}
    BY <1>2 DEF Movers
  <1>4. LedgerInv
    BY <1>2, <1>3, FS_EmptySet DEF LedgerInv, KeysUnique, Commit
  <1>5. reply \in [Clients -> Replies]
    BY DEF Init, Replies
  <1>6. \A c \in Clients : Traced(c)
    BY <1>3 DEF Init, Traced, Unanswered
  <1> QED
    BY <1>1, <1>4, <1>5, <1>6 DEF TraceInv

(* A client that does not move stays traced.                               *)
LEMMA OthersTraced ==
  ASSUME Types, Extends, NEW d \in Clients, Traced(d),
         pc'[d] = pc[d], request'[d] = request[d], reply'[d] = reply[d],
         d \in Movers' <=> d \in Movers
  PROVE  Traced(d)'
PROOF
  <1>1. ASSUME Accepted(request[d].event) PROVE Accepted(request[d].event)'
    <2>1. PICK i \in 1..Commit : ledger[i] = request[d].event
      BY <1>1 DEF Accepted
    <2>2. i \in 1..Len(ledger') /\ ledger'[i] = ledger[i]
      <3>1. CASE ledger' = ledger
        BY <2>1, <3>1 DEF Commit
      <3>2. CASE \E e \in GoodEvents : ledger' = Append(ledger, e)
        <4>1. PICK e \in GoodEvents : ledger' = Append(ledger, e)
          BY <3>2
        <4>2. Len(ledger) \in Nat /\ Len(ledger') = Len(ledger) + 1 /\ i \in 1..Len(ledger)
          BY <2>1, <4>1, AppendProperties, LenProperties DEF Types, Commit
        <4>3. ledger'[i] = ledger[i]
          BY <4>1, <4>2, AppendProperties DEF Types
        <4> QED
          BY <4>2, <4>3
      <3> QED
        BY <3>1, <3>2 DEF Extends
    <2> QED
      BY <2>1, <2>2 DEF Accepted, Commit
  <1> QED
    BY <1>1 DEF Traced, Traceable, Named

LEMMA MoversKept == ASSUME UNCHANGED grounds PROVE Movers' = Movers
PROOF
  BY DEF Movers

LEMMA LedgerKept ==
  ASSUME LedgerInv, UNCHANGED << ledger, grounds >> PROVE LedgerInv'
PROOF
  BY MoversKept DEF LedgerInv, KeysUnique, Commit

LEMMA MoveKeepsLedger ==
  ASSUME TraceInv, NEW c \in Clients, MovesRef(c) PROVE LedgerInv'
PROOF
  <1>1. Types /\ LedgerInv /\ Traced(c) /\ pc[c] = "accept" /\ MoveRef(c) /\ Unused(request[c].event)
    BY DEF TraceInv, MovesRef
  <1>2. PICK e : e = request[c].event
    OBVIOUS
  <1>3. e \in Events /\ ledger \in Seq(Events) /\ ledger' = Append(ledger, e)
    BY <1>1, <1>2 DEF Traced, Traceable, LedgerInv, MoveRef
  <1>4. ledger' \in Seq(Events)
    BY <1>3, AppendProperties
  <1>5. /\ Len(ledger) \in Nat /\ Len(ledger') = Len(ledger) + 1 /\ ledger'[Len(ledger) + 1] = e
        /\ \A i \in 1..Len(ledger) : ledger'[i] = ledger[i]
        /\ Movers' = Movers \cup {c}
    BY <1>1, <1>2, MoveEffect
  <1>6. \A i \in 1..Len(ledger) : ledger[i].idem # e.idem
    BY <1>1, <1>2 DEF Unused, Accepted, KeyConflict, Commit
  <1>7. KeysUnique'
    <2>1. \A i, j \in 1..Len(ledger) : ledger[i].idem = ledger[j].idem => i = j
      BY <1>1 DEF LedgerInv, KeysUnique, Commit
    <2>2. ASSUME NEW i \in 1..Len(ledger'), NEW j \in 1..Len(ledger'), ledger'[i].idem = ledger'[j].idem
          PROVE  i = j
      BY <1>5, <1>6, <2>1, <2>2
    <2> QED
      BY <2>2 DEF KeysUnique, Commit
  <1>8. Len(ledger') = Cardinality(Movers')
    <2>1. c \notin Movers
      BY <1>1 DEF Traced
    <2>2. IsFiniteSet(Movers) /\ Len(ledger) = Cardinality(Movers)
      BY <1>1, LengthBounded DEF LedgerInv, Commit
    <2> QED
      BY <1>5, <2>1, <2>2, FS_AddElement
  <1> QED
    BY <1>4, <1>7, <1>8 DEF LedgerInv, Commit

LEMMA ServeTraced ==
  ASSUME TraceInv, NEW c \in Clients, Serve(c)
  PROVE  LedgerInv' /\ reply' \in [Clients -> Replies] /\ Traced(c)'
PROOF
  <1>1. Types /\ LedgerInv /\ Traced(c) /\ reply \in [Clients -> Replies] /\ pc \in [Clients -> Steps]
    BY DEF TraceInv, Types
  <1>2. request' = request
    BY ServeMoves
  <1>3. CASE GoesOn(c)
    <2>1. PICK l \in {"load", "prepare", "accept"} : pc' = [pc EXCEPT ![c] = l]
      BY <1>3 DEF GoesOn
    <2>2. UNCHANGED << reply, ledger, grounds >> /\ pc[c] \in Unanswered \ {"idle", "verify"}
      BY <1>3 DEF GoesOn
    <2>3. pc'[c] = l /\ LedgerInv' /\ Movers' = Movers
      BY <1>1, <2>1, <2>2, LedgerKept, MoversKept
    <2>4. c \notin Movers /\ reply[c] = "none" /\ Traceable(request[c])
      BY <1>1, <2>2 DEF Traced, Unanswered
    <2>5. Traced(c)'
      BY <1>2, <2>1, <2>2, <2>3, <2>4 DEF Traced, Traceable, Named
    <2> QED
      BY <1>1, <2>2, <2>3, <2>5
  <1>4. CASE MovesRef(c)
    <2>1. pc[c] = "accept" /\ MoveRef(c) /\ UNCHANGED reply /\ pc'[c] = "verify"
      BY <1>1, <1>4 DEF MovesRef, MoveRef, Goto
    <2>2. LedgerInv'
      BY <1>4, MoveKeepsLedger
    <2>3. c \in Movers' /\ Accepted(request[c].event)'
      <3>1. Len(ledger) \in Nat /\ Len(ledger') = Len(ledger) + 1
            /\ ledger'[Len(ledger) + 1] = request[c].event /\ c \in Movers'
        BY <1>1, <2>1, MoveEffect
      <3>2. Len(ledger) + 1 \in 1..Len(ledger')
        BY <3>1
      <3> QED
        BY <1>2, <3>1, <3>2 DEF Accepted, Commit
    <2>4. reply[c] = "none" /\ Traceable(request[c])
      BY <1>1, <2>1 DEF Traced, Unanswered
    <2>5. Traced(c)'
      BY <1>2, <2>1, <2>3, <2>4 DEF Traced, Traceable, Named
    <2> QED
      BY <1>1, <2>1, <2>2, <2>5
  <1>5. CASE IsAnswered(c)
    <2>1. PICK a \in Replies : Answer(c, a)
      BY <1>5 DEF IsAnswered
    <2>2. UNCHANGED << ledger, grounds >> /\ pc[c] \in Unanswered \ {"idle"}
      BY <1>5 DEF IsAnswered
    <2>3. pc'[c] = "release" /\ reply' \in [Clients -> Replies]
      BY <1>1, <2>1 DEF Answer, Goto
    <2>4. LedgerInv' /\ Traceable(request[c])
      BY <1>1, <2>2, LedgerKept DEF Traced
    <2>5. Traced(c)'
      BY <1>2, <2>3, <2>4 DEF Traced, Traceable, Named, Unanswered
    <2> QED
      BY <2>3, <2>4, <2>5
  <1> QED
    BY <1>3, <1>4, <1>5, ServeForms

LEMMA TraceStep == ASSUME NoneApart PROVE TraceInv /\ [Next]_vars => TraceInv'
PROOF
  <1> SUFFICES ASSUME TraceInv, [Next]_vars PROVE TraceInv'
    OBVIOUS
  <1>0. /\ Types /\ Types' /\ Extends /\ LedgerInv /\ reply \in [Clients -> Replies]
        /\ pc \in [Clients -> Steps] /\ DOMAIN request = Clients
        /\ \A c \in Clients : Traced(c)
    BY TypesStep, NextExtends DEF TraceInv, Types
  <1>1. ASSUME NEW c \in Clients, NEW req, Traceable(req), TryAcquire(c, req)
        PROVE  TraceInv'
    <2>1. /\ pc[c] = "idle" /\ request' = [request EXCEPT ![c] = req]
          /\ UNCHANGED << ledger, grounds >>
      BY <1>1 DEF TryAcquire
    <2>2. PICK l \in {"admit", "done"} : pc' = [pc EXCEPT ![c] = l]
      BY <1>1 DEF TryAcquire
    <2>3. reply' \in [Clients -> Replies]
      BY <1>0, <1>1 DEF TryAcquire, Replies
    <2>4. \A d \in Clients \ {c} : reply'[d] = reply[d]
      BY <1>0, <1>1 DEF TryAcquire
    <2>5. l = "admit" => reply'[c] = reply[c]
      <3>1. CASE Room
        BY <1>1, <3>1 DEF TryAcquire
      <3>2. CASE ~Room
        <4>1. pc' = [pc EXCEPT ![c] = "done"]
          BY <1>1, <3>2 DEF TryAcquire
        <4>2. l = "done"
          BY <1>0, <2>2, <4>1
        <4> QED
          BY <4>2
      <3> QED
        BY <3>1, <3>2
    <2>6. LedgerInv' /\ Movers' = Movers
      BY <1>0, <2>1, LedgerKept, MoversKept
    <2>7. Traced(c)'
      <3>1. pc'[c] = l /\ request'[c] = req /\ c \notin Movers /\ reply[c] = "none"
        BY <1>0, <2>1, <2>2 DEF Traced, Unanswered
      <3> QED
        BY <1>1, <2>2, <2>5, <2>6, <3>1 DEF Traced, Traceable, Named, Unanswered
    <2>8. \A d \in Clients \ {c} : Traced(d)'
      <3>1. ASSUME NEW d \in Clients, d # c PROVE Traced(d)'
        <4>1. pc'[d] = pc[d] /\ request'[d] = request[d] /\ reply'[d] = reply[d]
          BY <1>0, <2>1, <2>2, <2>4, <3>1
        <4> QED
          BY <1>0, <2>6, <4>1, OthersTraced
      <3> QED
        BY <3>1
    <2> QED
      BY <1>0, <2>3, <2>6, <2>7, <2>8 DEF TraceInv
  <1>2. ASSUME NEW c \in Clients, Serve(c)
        PROVE  TraceInv'
    <2>1. LedgerInv' /\ reply' \in [Clients -> Replies] /\ Traced(c)'
      BY <1>2, ServeTraced
    <2>2. ASSUME NEW d \in Clients, d # c PROVE Traced(d)'
      <3>1. pc'[d] = pc[d] /\ request'[d] = request[d]
        BY <1>0, <1>2, <2>2, ServeMoves
      <3>2. reply'[d] = reply[d] /\ (d \in Movers' <=> d \in Movers)
        <4>1. CASE GoesOn(c)
          BY <4>1, MoversKept DEF GoesOn
        <4>2. CASE MovesRef(c)
          <5>1. Movers' = Movers \cup {c} /\ UNCHANGED reply
            BY <1>0, <4>2, MoveEffect DEF MovesRef, MoveRef
          <5> QED
            BY <2>2, <5>1
        <4>3. CASE IsAnswered(c)
          <5>1. PICK a : reply' = [reply EXCEPT ![c] = a]
            BY <4>3 DEF IsAnswered, Answer
          <5>2. Movers' = Movers
            BY <4>3, MoversKept DEF IsAnswered
          <5> QED
            BY <1>0, <2>2, <5>1, <5>2
        <4> QED
          BY <1>2, <4>1, <4>2, <4>3, ServeForms
      <3> QED
        BY <1>0, <3>1, <3>2, OthersTraced
    <2> QED
      BY <1>0, <2>1, <2>2 DEF TraceInv
  <1>3. ASSUME NEW c \in Clients, Release(c)
        PROVE  TraceInv'
    <2>1. pc[c] \in {"release", "again"} /\ UNCHANGED << ledger, grounds, request, reply >>
      BY <1>3 DEF Release
    <2>2. PICK l \in {"again", "done"} : pc' = [pc EXCEPT ![c] = l]
      BY <1>3 DEF Release
    <2>3. LedgerInv' /\ Movers' = Movers
      BY <1>0, <2>1, LedgerKept, MoversKept
    <2>4. Traced(c)'
      <3>1. pc'[c] = l /\ Traceable(request[c])
        BY <1>0, <2>1, <2>2 DEF Traced
      <3> QED
        BY <2>1, <2>2, <3>1 DEF Traced, Traceable, Named, Unanswered
    <2>5. ASSUME NEW d \in Clients, d # c PROVE Traced(d)'
      <3>1. pc'[d] = pc[d]
        BY <1>0, <2>2, <2>5
      <3> QED
        BY <1>0, <2>1, <2>3, <3>1, OthersTraced
    <2> QED
      BY <1>0, <2>1, <2>3, <2>4, <2>5 DEF TraceInv
  <1>4. CASE Tick \/ UNCHANGED vars
    <2>1. UNCHANGED << ledger, grounds, pc, request, reply >>
      BY <1>4 DEF Tick, vars, local
    <2>2. LedgerInv' /\ Movers' = Movers
      BY <1>0, <2>1, LedgerKept, MoversKept
    <2>3. \A d \in Clients : Traced(d)'
      BY <1>0, <2>1, <2>2, OthersTraced
    <2> QED
      BY <1>0, <2>1, <2>2, <2>3 DEF TraceInv
  <1> QED
    BY <1>1, <1>2, <1>3, <1>4, TraceCases

-----------------------------------------------------------------------------
(* The abstract ledger's reading of the history.                           *)
LEMMA AbstractReading ==
  ASSUME LedgerInv, NEW e \in Events
  PROVE  /\ Ledger!Holds(e) <=> Accepted(e)
         /\ Ledger!KeyTaken(e) <=> \E i \in 1..Commit : ledger[i].idem = e.idem
PROOF
  <1>1. ASSUME NEW i \in 1..Len(ledger) PROVE ledger[i] \in Events
    BY ElementOfSeq DEF LedgerInv
  <1>2. \A x \in Events : BytesOf[x] = x /\ KeyOf[x] = x.idem
    BY DEF BytesOf, KeyOf
  <1> QED
    BY <1>1, <1>2 DEF Ledger!Holds, Ledger!Identical, Ledger!KeyTaken, Accepted, Commit

(* An answer that is justified is one that the abstract ledger may give.   *)
LEMMA JustifiedTruthful ==
  ASSUME TraceInv, NEW c \in Clients, pc[c] # "idle", pc[c] \in Unanswered,
         NEW a \in Replies \ {"none", "overloaded"}, Justified(c, a)
  PROVE  Ledger!Truthful(c, request[c].event, Outcome(a)) /\ Outcome(a) \in Ledger!Outcomes
PROOF
  <1>1. PICK e : e = request[c].event
    OBVIOUS
  <1>2. LedgerInv /\ Traced(c) /\ e \in Events
    BY <1>1 DEF TraceInv, Traced, Traceable
  <1>3. /\ Ledger!Holds(e) <=> Accepted(e)
        /\ Ledger!KeyTaken(e) <=> \E i \in 1..Commit : ledger[i].idem = e.idem
    BY <1>2, AbstractReading
  <1>4. CASE a \in {"disabled", "denied", "error"} /\ pc[c] # "verify"
    <2>1. Outcome(a) = "error"
      BY <1>4 DEF Outcome
    <2>2. c \notin Movers
      BY <1>2, <1>4 DEF Traced, Unanswered
    <2> QED
      BY <1>1, <2>1, <2>2 DEF Ledger!Truthful, Ledger!Outcomes
  <1>5. CASE a = "already_accepted" /\ Accepted(e)
    <2>1. Outcome(a) = "already_accepted"
      BY <1>5 DEF Outcome
    <2> QED
      BY <1>1, <1>3, <1>5, <2>1 DEF Ledger!Truthful, Ledger!Outcomes
  <1>6. CASE a = "conflict" /\ KeyConflict(e)
    <2>1. Outcome(a) = "conflict"
      BY <1>6 DEF Outcome
    <2>2. PICK i \in 1..Commit : ledger[i].idem = e.idem /\ ledger[i] # e
      BY <1>6 DEF KeyConflict
    <2>3. ~Accepted(e)
      BY <1>2, <2>2 DEF Accepted, LedgerInv, KeysUnique
    <2> QED
      BY <1>1, <1>3, <2>1, <2>2, <2>3 DEF Ledger!Truthful, Ledger!Outcomes
  <1>7. CASE a = "rejected" /\ Unused(e)
    <2>1. Outcome(a) = "rejected"
      BY <1>7 DEF Outcome
    <2> QED
      BY <1>1, <1>3, <1>7, <2>1 DEF Ledger!Truthful, Ledger!Outcomes, Unused
  <1>8. CASE a = "acceptance_unknown"
    <2>1. Outcome(a) = "acceptance_unknown"
      BY <1>8 DEF Outcome
    <2> QED
      BY <1>1, <2>1 DEF Ledger!Truthful, Ledger!Outcomes
  <1>9. CASE a \in {"accepted", "accepted_verification_failed"} /\ pc[c] = "verify"
    <2>1. Outcome(a) = a
      BY <1>9 DEF Outcome
    <2>2. c \in Movers /\ Accepted(e)
      BY <1>1, <1>2, <1>9 DEF Traced
    <2> QED
      BY <1>1, <1>3, <1>9, <2>1, <2>2 DEF Ledger!Truthful, Ledger!Outcomes
  <1> QED
    BY <1>1, <1>4, <1>5, <1>6, <1>7, <1>8, <1>9 DEF Justified

(* The mapping of one client's state.                                      *)
LEMMA AskedOf ==
  ASSUME TraceInv, NEW c \in Clients
  PROVE  Asked[c] = IF pc[c] = "idle" THEN None ELSE request[c].event
PROOF
  BY DEF TraceInv, Traced, Traceable, Asked

LEMMA ToldChanges ==
  ASSUME reply \in [Clients -> Replies], NEW c \in Clients, NEW a, reply' = [reply EXCEPT ![c] = a]
  PROVE  Told' = [Told EXCEPT ![c] = Outcome(a)]
PROOF
  BY DEF Told

LEMMA StepImplements ==
  ASSUME NoneApart, TraceInv, [Next]_vars
  PROVE  [Ledger!Next]_(Ledger!vars)
PROOF
  <1>0. /\ Types /\ LedgerInv /\ reply \in [Clients -> Replies] /\ DOMAIN request = Clients
        /\ \A c \in Clients : Traced(c)
    BY DEF TraceInv, Types
  <1>1. ASSUME NEW c \in Clients, NEW req, Traceable(req), TryAcquire(c, req)
        PROVE  Ledger!Next
    <2>1. /\ pc[c] = "idle" /\ request' = [request EXCEPT ![c] = req]
          /\ UNCHANGED << ledger, grounds >>
      BY <1>1 DEF TryAcquire
    <2>2. Asked[c] = None /\ reply[c] = "none" /\ c \notin Movers /\ Told[c] = "open"
      BY <1>0, <2>1, AskedOf DEF Traced, Unanswered, Told, Outcome
    <2>3. PICK e \in Events : e = req.event
      BY <1>1 DEF Traceable
    <2>4. Asked' = [Asked EXCEPT ![c] = e]
      <3>1. req # None
        BY <1>1 DEF Traceable
      <3> QED
        BY <1>0, <2>1, <2>3, <3>1 DEF Asked
    <2>5. Movers' = Movers
      BY <2>1, MoversKept
    <2>6. CASE UNCHANGED reply
      <3>1. Told' = Told
        BY <2>6 DEF Told
      <3>2. Ledger!Invoke(c, e)
        BY <2>1, <2>2, <2>4, <2>5, <3>1 DEF Ledger!Invoke
      <3> QED
        BY <3>2 DEF Ledger!Next
    <2>7. CASE reply' = [reply EXCEPT ![c] = "overloaded"]
      <3>1. Told' = [Told EXCEPT ![c] = "error"]
        <4>1. Outcome("overloaded") = "error"
          BY DEF Outcome
        <4> QED
          BY <1>0, <2>7, <4>1, ToldChanges
      <3>2. Ledger!Truthful(c, e, "error") /\ "error" \in Ledger!Outcomes
        BY <2>2 DEF Ledger!Truthful, Ledger!Outcomes
      <3>3. Ledger!Reply(c, e, "error")
        BY <2>1, <2>2, <2>4, <2>5, <3>1, <3>2 DEF Ledger!Reply
      <3> QED
        BY <3>2, <3>3 DEF Ledger!Next
    <2> QED
      BY <1>1, <2>6, <2>7 DEF TryAcquire
  <1>2. ASSUME NEW c \in Clients, Serve(c)
        PROVE  Ledger!Next \/ UNCHANGED Ledger!vars
    <2>1. request' = request /\ pc[c] # "idle"
      BY <1>2, ServeMoves DEF Busy
    <2>2. Asked' = Asked
      BY <2>1 DEF Asked
    <2>3. PICK e \in Events : e = request[c].event
      BY <1>0, <2>1 DEF Traced, Traceable
    <2>4. Asked[c] = e
      BY <2>1, <2>3, AskedOf
    <2>5. CASE GoesOn(c)
      <3>1. UNCHANGED << ledger, grounds, reply >>
        BY <2>5 DEF GoesOn
      <3>2. Told' = Told /\ Movers' = Movers
        BY <3>1, MoversKept DEF Told
      <3> QED
        BY <2>2, <3>1, <3>2 DEF Ledger!vars
    <2>6. CASE MovesRef(c)
      <3>1. pc[c] = "accept" /\ MoveRef(c) /\ Unused(e)
        BY <2>3, <2>6 DEF MovesRef
      <3>2. ledger' = Append(ledger, e) /\ UNCHANGED reply
        BY <2>3, <3>1 DEF MoveRef
      <3>3. Told' = Told /\ Movers' = Movers \cup {c}
        BY <1>0, <3>1, <3>2, MoveEffect DEF Told
      <3>4. Told[c] = "open" /\ c \notin Movers
        BY <1>0, <3>1 DEF Traced, Unanswered, Told, Outcome
      <3>5. ~Ledger!KeyTaken(e) /\ e # None
        BY <1>0, <2>3, <3>1, AbstractReading DEF Unused, Accepted, KeyConflict, NoneApart
      <3>6. Ledger!Accept(c)
        BY <2>2, <2>4, <3>2, <3>3, <3>4, <3>5 DEF Ledger!Accept
      <3> QED
        BY <3>6 DEF Ledger!Next
    <2>7. CASE IsAnswered(c)
      <3>1. PICK a \in Replies \ {"none", "overloaded"} : Justified(c, a) /\ Answer(c, a)
        BY <2>7 DEF IsAnswered
      <3>2. pc[c] \in Unanswered /\ UNCHANGED << ledger, grounds >>
        BY <2>7 DEF IsAnswered
      <3>3. PICK o : o = Outcome(a)
        OBVIOUS
      <3>4. Ledger!Truthful(c, e, o) /\ o \in Ledger!Outcomes
        BY <2>1, <2>3, <3>1, <3>2, <3>3, JustifiedTruthful
      <3>5. Told' = [Told EXCEPT ![c] = o] /\ Told[c] = "open"
        <4>1. reply' = [reply EXCEPT ![c] = a]
          BY <3>1 DEF Answer
        <4>2. Told[c] = "open"
          BY <1>0, <3>2 DEF Traced, Told, Outcome
        <4> QED
          BY <1>0, <3>3, <4>1, <4>2, ToldChanges
      <3>6. Asked' = [Asked EXCEPT ![c] = e] /\ Movers' = Movers
        <4>1. Asked = [Asked EXCEPT ![c] = e]
          BY <2>4 DEF Asked
        <4> QED
          BY <2>2, <3>2, <4>1, MoversKept
      <3>7. Ledger!Reply(c, e, o)
        BY <2>4, <3>2, <3>4, <3>5, <3>6 DEF Ledger!Reply
      <3> QED
        BY <3>4, <3>7 DEF Ledger!Next
    <2> QED
      BY <1>2, <2>5, <2>6, <2>7, ServeForms
  <1>3. ASSUME UNCHANGED << ledger, grounds, request, reply >>
        PROVE  UNCHANGED Ledger!vars
    <2>1. Asked' = Asked /\ Told' = Told /\ Movers' = Movers
      BY <1>3, MoversKept DEF Asked, Told
    <2> QED
      BY <1>3, <2>1 DEF Ledger!vars
  <1>4. ASSUME NEW c \in Clients, Release(c) PROVE UNCHANGED Ledger!vars
    BY <1>3, <1>4 DEF Release
  <1>5. CASE Tick \/ UNCHANGED vars
    BY <1>3, <1>5 DEF Tick, vars, local
  <1> QED
    BY <1>1, <1>2, <1>4, <1>5, TraceCases

LEMMA TraceInvariant == ASSUME NoneApart PROVE Spec => []TraceInv
PROOF
  BY TraceInit, TraceStep, PTL DEF Spec

(* For any clients, policies, proofs and faults, the ledger seen through   *)
(* admission is the one that candidate write promises: one event with an   *)
(* unused key per submission, and no answer that is not true of the ledger *)
(* when it is given (writegate.go, candidate_write.go).                    *)
THEOREM AdmissionImplementsLedger == ASSUME NoneApart PROVE Spec => ImplementsLedger
PROOF
  <1>1. Init => Ledger!Init
    <2> SUFFICES ASSUME Init PROVE Ledger!Init
      OBVIOUS
    <2>1. Len(grounds) = 0
      BY EmptySeq DEF Init
    <2>2. Movers = {}
      BY <2>1 DEF Movers
    <2>3. Asked = [c \in Clients |-> None] /\ Told = [c \in Clients |-> "open"]
      BY DEF Init, Asked, Told, Outcome
    <2> QED
      BY <2>2, <2>3 DEF Init, Ledger!Init
  <1>2. TraceInv /\ [Next]_vars => [Ledger!Next]_(Ledger!vars)
    BY StepImplements
  <1> QED
    BY <1>1, <1>2, TraceInvariant, PTL DEF Spec, ImplementsLedger, Ledger!Spec

-----------------------------------------------------------------------------
(* Type correctness, with the bounds that the other invariants give.       *)
ClockInv == now \in 0..scenario.ticks /\ at \in [Clients -> 0..now]

LEMMA ClockStep == Types /\ ClockInv /\ [Next]_vars => ClockInv'
PROOF
  <1> SUFFICES ASSUME Types, ClockInv, [Next]_vars PROVE ClockInv'
    OBVIOUS
  <1>1. scenario.ticks \in Nat /\ scenario' = scenario /\ now \in Nat
    BY ScenariosAssumption, NextExtends DEF Types, Extends
  <1>2. CASE UNCHANGED << now, at >>
    BY <1>1, <1>2 DEF ClockInv
  <1>3. ASSUME NEW c \in Clients, Serve(c) PROVE ClockInv'
    <2>1. UNCHANGED now
      BY <1>3, ServeMoves
    <2>2. UNCHANGED at \/ at' = [at EXCEPT ![c] = now]
      BY <1>3 DEF Serve, Enter, Admit, Prepare, Accept, Verify
    <2>3. at' \in [Clients -> 0..now]
      BY <1>1, <2>2 DEF ClockInv
    <2> QED
      BY <1>1, <2>1, <2>3 DEF ClockInv
  <1>4. CASE Tick
    <2>1. now < scenario.ticks /\ now' = now + 1 /\ UNCHANGED at
      BY <1>4 DEF Tick, local
    <2>2. 0..now \subseteq 0..now' /\ now' \in 0..scenario.ticks
      BY <1>1, <2>1
    <2>3. at' \in [Clients -> 0..now']
      BY <2>1, <2>2 DEF ClockInv
    <2> QED
      BY <1>1, <2>2, <2>3 DEF ClockInv
  <1>5. ASSUME NEW c \in Clients, Release(c) PROVE UNCHANGED << now, at >>
    BY <1>5 DEF Release
  <1>6. ASSUME NEW c \in Clients, NEW req, TryAcquire(c, req) PROVE UNCHANGED << now, at >>
    BY <1>6 DEF TryAcquire
  <1>7. CASE UNCHANGED vars
    BY <1>2, <1>7 DEF vars, local
  <1> QED
    BY <1>2, <1>3, <1>4, <1>5, <1>6, <1>7, NextCases

(* Types; the slots stay within the capacity, the history within the       *)
(* number of clients, and nobody is admitted at a time to come.            *)
THEOREM TypeCorrect == ASSUME NoneApart PROVE Spec => []TypeOK
PROOF
  <1>1. Init => ClockInv
    <2> SUFFICES ASSUME Init PROVE ClockInv
      OBVIOUS
    <2>1. scenario.ticks \in Nat
      BY ScenariosAssumption DEF Init
    <2>2. 0 \in 0..scenario.ticks /\ 0 \in 0..0
      BY <2>1
    <2> QED
      BY <2>2 DEF Init, ClockInv
  <1>2. Spec => []ClockInv
    BY <1>1, TypesInit, TypesStep, ClockStep, PTL DEF Spec
  <1>3. ASSUME SlotsInv, TraceInv, ClockInv PROVE TypeOK
    <2>1. Types /\ LedgerInv /\ reply \in [Clients -> Replies]
      BY <1>3 DEF TraceInv
    <2>2. Commit <= MaxLength /\ Len(grounds) = Commit
      BY <2>1, LengthBounded DEF Types, Commit
    <2>3. slots \in 0..Capacity
      BY <1>3, <2>1, ScenariosAssumption DEF SlotsInv, Types, Capacity
    <2> QED
      BY <1>3, <2>1, <2>2, <2>3 DEF TypeOK, ClockInv, Types, Steps
  <1> QED
    BY <1>2, <1>3, SlotsInvariant, TraceInvariant, PTL
=============================================================================
