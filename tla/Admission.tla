----------------------------- MODULE Admission ------------------------------
(***************************************************************************)
(* Authority writes through the service boundary: the limiter              *)
(* (internal/service/limiter.go), the release gate and AdmitAuthorityWrite *)
(* (internal/service/writegate.go), the authentication and authorisation   *)
(* of a signed proof (internal/actorauth/auth.go) under the actor policy   *)
(* of a ledger snapshot (internal/ledger/actor_policy.go), and then        *)
(* candidate write.  The policy is itself a governed record, so            *)
(* submissions rotate and revoke the keys that admit other submissions.    *)
(*                                                                         *)
(* No transport makes these calls yet: the steps of a submission and their *)
(* order are those of internal/service/release_e2e_test.go, within a slot  *)
(* of the limiter as in load_concurrency_test.go.  The release gate is     *)
(* closed in this release; a scenario may open it.                         *)
(*                                                                         *)
(* A ledger is the sequence of its events, a commit the length of its      *)
(* history.  CandidateWrite has the write in full; here it is the steps    *)
(* that AbstractLedger tells apart.  A signature is good or it is not.     *)
(***************************************************************************)
EXTENDS Naturals, Sequences, FiniteSets, FiniteSetsExt

CONSTANTS Clients,     \* one submission each; a retry is another client
          Scenarios,   \* gate, capacity, clients, signings, policies, ticks, faults
          RootPolicy,  \* the actor policy of the Genesis root
          Policies,    \* policies that an event may put in force
          LedgerID, None,
          PolicyTarget \* actorauth.PolicyTarget

(* parsePolicyDocument and validatePolicy, over the keys and grants.       *)
ValidPolicy(policy) ==
  /\ policy.life > 0
  /\ policy.keys # {} /\ policy.grants # {}
  /\ \A k, l \in policy.keys : k.actor = l.actor /\ k.id = l.id => k = l
  /\ \A g \in policy.grants : \E k \in policy.keys : k.actor = g.actor /\ ~k.revoked

ASSUME PoliciesAssumption ==
  /\ None \notin Policies
  /\ \A p \in Policies \cup {RootPolicy} :
       /\ p.life \in Nat /\ ValidPolicy(p)
       /\ \A k \in p.keys :
            k.revoked \in BOOLEAN /\ k = [actor |-> k.actor, id |-> k.id, revoked |-> k.revoked]

ASSUME ClientsAssumption == IsFiniteSet(Clients)

ASSUME ScenariosAssumption ==
  \A s \in Scenarios :
    /\ s.capacity \in Nat \ {0} /\ s.ticks \in Nat /\ s.gate \in BOOLEAN
    /\ s.clients \subseteq Clients /\ s.policies \subseteq Policies
    /\ s.faults \subseteq {"io", "twice"}
    /\ \A x \in s.signings : x.skew \in Nat /\ x.life \in Nat

VARIABLES
  scenario,
  now,      \* the service's clock
  ledger,   \* the accepted events, in order
  grounds,  \* grounds[n]: the submission behind commit n (history variable)
  slots,    \* how many slots of the limiter's channel are taken
  pc,       \* pc[c]: the next step of the submission of client c
  request,  \* request[c]: its proof, its context and its event
  at,       \* at[c]: the time c passed to AdmitAuthorityWrite
  released, \* released[c]: the flag of c's release function
  reply     \* reply[c]: what c is told

local == << pc, request, at, released, reply >>
vars  == << scenario, now, ledger, grounds, slots, local >>

Commit == Len(ledger)

(* LoadCurrentActorPolicy: the last policy event, or the policy of the     *)
(* root if there is none; None after a revocation.                         *)
PolicyEvents(n) == {i \in 1..n : ledger[i].target = PolicyTarget}

PolicyAt(n) ==
  IF PolicyEvents(n) = {} THEN RootPolicy ELSE ledger[Max(PolicyEvents(n))].value

-----------------------------------------------------------------------------
(* The limiter.                                                            *)

Capacity == scenario.capacity

(* Variant: off by one.                                                    *)
RoomForOneMore == slots <= Capacity

(* The send on the channel does not block.                                 *)
Room == slots < Capacity

TryAcquire(c, req) ==
  /\ pc[c] = "idle" /\ c \in scenario.clients
  /\ request' = [request EXCEPT ![c] = req]
  /\ \/ /\ Room
        /\ slots' = slots + 1
        /\ pc' = [pc EXCEPT ![c] = "admit"]
        /\ UNCHANGED reply
     \/ /\ ~Room
        /\ reply' = [reply EXCEPT ![c] = "overloaded"]
        /\ pc' = [pc EXCEPT ![c] = "done"]
        /\ UNCHANGED slots
  /\ UNCHANGED << scenario, now, ledger, grounds, at, released >>

(* Variant: the release function has no flag.                              *)
TakeEveryTime(c) ==
  /\ slots > 0 /\ slots' = slots - 1
  /\ released' = [released EXCEPT ![c] = TRUE]

(* The release function: it frees the slot the first time it is called.    *)
TakeSlot(c) ==
  \/ /\ ~released[c] /\ slots > 0
     /\ slots' = slots - 1
     /\ released' = [released EXCEPT ![c] = TRUE]
  \/ released[c] /\ UNCHANGED << slots, released >>

(* A caller may call it twice, say explicitly and deferred.                *)
Release(c) ==
  /\ pc[c] \in {"release", "again"}
  /\ TakeSlot(c)
  /\ \/ pc' = [pc EXCEPT ![c] = "done"]
     \/ "twice" \in scenario.faults /\ pc[c] = "release" /\ pc' = [pc EXCEPT ![c] = "again"]
  /\ UNCHANGED << scenario, now, ledger, grounds, request, at, reply >>

-----------------------------------------------------------------------------
(* Signing and submitting.                                                 *)

(* The context of a request that expects the current head, and a proof     *)
(* that an actor signs for it by its own clock.                            *)
Context(s) == [ledger |-> s.ledger, target |-> s.target, idem |-> s.idem, state |-> Commit]

Sign(s) ==
  [actor |-> s.actor, key |-> s.key, issued |-> now + s.skew,
   expires |-> now + s.skew + s.life, context |-> Context(s), good |-> s.good]

Values(target, policies) == IF target = PolicyTarget THEN policies \cup {None} ELSE {target}

(* The event agrees with the context on target and idempotency key.        *)
Event(context, value) ==
  [target |-> context.target, idem |-> context.idem, on |-> context.state, value |-> value]

Request(proof, context, event) == [proof |-> proof, context |-> context, event |-> event]

Submit(c) ==
  \E s \in scenario.signings : \E v \in Values(s.target, scenario.policies) :
    TryAcquire(c, Request(Sign(s), Context(s), Event(Context(s), v)))

(* A retry: the same proof again, for its own context or for a new one,    *)
(* with the same event or another; or a new proof for the same event.      *)
Resubmit(c, d) ==
  /\ request[d] # None
  /\ \/ \E x \in {request[d].context} \cup {Context(s) : s \in scenario.signings} :
          \E v \in Values(x.target, scenario.policies) :
            TryAcquire(c, Request(request[d].proof, x, Event(x, v)))
     \/ \E s \in scenario.signings :
          /\ s.target = request[d].event.target /\ s.idem = request[d].event.idem
          /\ TryAcquire(c, Request(Sign(s), Context(s), request[d].event))

-----------------------------------------------------------------------------
(* AdmitAuthorityWrite.                                                    *)

findKey(policy, actor, key) == {k \in policy.keys : k.actor = actor /\ k.id = key}

hasGrant(policy, actor, target) == [actor |-> actor, target |-> target] \in policy.grants

(* Variant: the proof's own context is not compared with the request's.    *)
AuthenticateAnyContext(policy, proof, expected, time) ==
  /\ proof.expires > proof.issued
  /\ proof.expires - proof.issued <= policy.life
  /\ proof.issued <= time /\ time < proof.expires
  /\ \E k \in findKey(policy, proof.actor, proof.key) : ~k.revoked
  /\ proof.good
  /\ hasGrant(policy, proof.actor, expected.target)

AuthenticateAndAuthorize(policy, proof, expected, time) ==
  /\ proof.context = expected
  /\ proof.expires > proof.issued
  /\ proof.expires - proof.issued <= policy.life
  /\ proof.issued <= time /\ time < proof.expires
  /\ \E k \in findKey(policy, proof.actor, proof.key) : ~k.revoked
  /\ proof.good
  /\ hasGrant(policy, proof.actor, expected.target)

authenticateAuthoritativePolicySnapshot(n, r, time) ==
  /\ r.context.ledger = LedgerID
  /\ r.context.state = n
  /\ AuthenticateAndAuthorize(PolicyAt(n), r.proof, r.context, time)

Goto(c, step) == pc' = [pc EXCEPT ![c] = step]

Answer(c, a) == reply' = [reply EXCEPT ![c] = a] /\ Goto(c, "release")

(* The gate comes before any read; the caller passes the time of the call. *)
Enter(c) ==
  /\ pc[c] = "admit"
  /\ \/ scenario.gate /\ Goto(c, "load") /\ UNCHANGED reply
     \/ ~scenario.gate /\ Answer(c, "disabled")
  /\ at' = [at EXCEPT ![c] = now]
  /\ UNCHANGED << scenario, now, ledger, grounds, slots, request, released >>

(* One replay gives head and policy; the rest is a pure function of them.  *)
Authorised(c) ==
  /\ PolicyAt(Commit) # None
  /\ authenticateAuthoritativePolicySnapshot(Commit, request[c], at[c])

Admit(c) ==
  /\ pc[c] = "load"
  /\ \/ Authorised(c) /\ Goto(c, "prepare") /\ UNCHANGED reply
     \/ ~Authorised(c) /\ Answer(c, "denied")
     \/ "io" \in scenario.faults /\ Answer(c, "error")
  /\ UNCHANGED << scenario, now, ledger, grounds, slots, request, at, released >>

-----------------------------------------------------------------------------
(* Candidate write on behalf of the admitted principal.                    *)

Accepted(e)    == \E i \in 1..Commit : ledger[i] = e
KeyConflict(e) == \E i \in 1..Commit : ledger[i].idem = e.idem /\ ledger[i] # e

(* Variant: any event with the key is taken for a retry.                   *)
RetryByKey(c) ==
  \/ (Accepted(request[c].event) \/ KeyConflict(request[c].event))
       /\ Answer(c, "already_accepted")
  \/ "io" \in scenario.faults /\ Answer(c, "error")

(* What both calls find out first: an accepted retry, or a taken key.      *)
Settled(c) ==
  \/ Accepted(request[c].event) /\ Answer(c, "already_accepted")
  \/ KeyConflict(request[c].event) /\ Answer(c, "conflict")
  \/ "io" \in scenario.faults /\ Answer(c, "error")

(* A revoked record takes no further event; only a governed one can be     *)
(* revoked.  Event types are chosen to fit the record otherwise.           *)
Applies(e) ==
  e.target = PolicyTarget =>
    PolicyAt(Commit) # None /\ (e.value = None => PolicyEvents(Commit) # {})

Unused(e) == ~Accepted(e) /\ ~KeyConflict(e)

Prepare(c) ==
  /\ pc[c] = "prepare"
  /\ LET e == request[c].event
     IN  \/ Settled(c)
         \/ /\ Unused(e)
            /\ request[c].context.state = Commit /\ e.on = Commit /\ Applies(e)
            /\ Goto(c, "accept") /\ UNCHANGED reply
         \/ /\ Unused(e)
            /\ request[c].context.state # Commit \/ e.on # Commit \/ ~Applies(e)
            /\ Answer(c, "rejected")
  /\ UNCHANGED << scenario, now, ledger, grounds, slots, request, at, released >>

MoveRef(c) ==
  /\ ledger' = Append(ledger, request[c].event)
  /\ grounds' = Append(grounds, [client |-> c, proof |-> request[c].proof, at |-> at[c]])
  /\ Goto(c, "verify") /\ UNCHANGED reply

(* Variant: a candidate whose parent is no longer the head is rebased.     *)
AcceptRebased(c) ==
  /\ pc[c] = "accept"
  /\ \/ Settled(c) /\ UNCHANGED << ledger, grounds >>
     \/ Unused(request[c].event) /\ MoveRef(c)
  /\ UNCHANGED << scenario, now, slots, request, at, released >>

(* AcceptWriteCandidate: the ref moves from the candidate's parent or not  *)
(* at all.                                                                 *)
Accept(c) ==
  /\ pc[c] = "accept"
  /\ \/ Settled(c) /\ UNCHANGED << ledger, grounds >>
     \/ Unused(request[c].event) /\ request[c].event.on = Commit /\ MoveRef(c)
     \/ /\ Unused(request[c].event) /\ request[c].event.on # Commit
        /\ Answer(c, "rejected") /\ UNCHANGED << ledger, grounds >>
     \/ /\ "io" \in scenario.faults
        /\ Answer(c, "acceptance_unknown") /\ UNCHANGED << ledger, grounds >>
  /\ UNCHANGED << scenario, now, slots, request, at, released >>

(* The replay after the ref moved, which may fail.                         *)
Verify(c) ==
  /\ pc[c] = "verify"
  /\ \/ Answer(c, "accepted")
     \/ /\ "io" \in scenario.faults
        /\ \E a \in {"accepted_verification_failed", "acceptance_unknown"} : Answer(c, a)
  /\ UNCHANGED << scenario, now, ledger, grounds, slots, request, at, released >>

-----------------------------------------------------------------------------
Tick ==
  /\ now < scenario.ticks /\ now' = now + 1
  /\ UNCHANGED << scenario, ledger, grounds, slots, local >>

Init ==
  /\ scenario \in Scenarios
  /\ now = 0 /\ ledger = << >> /\ grounds = << >> /\ slots = 0
  /\ pc = [c \in Clients |-> "idle"]
  /\ request = [c \in Clients |-> None]
  /\ at = [c \in Clients |-> 0]
  /\ released = [c \in Clients |-> FALSE]
  /\ reply = [c \in Clients |-> "none"]

Progress(c) == Enter(c) \/ Admit(c) \/ Prepare(c) \/ Accept(c) \/ Verify(c) \/ Release(c)

Next ==
  \/ \E c \in Clients : Submit(c) \/ Progress(c) \/ \E d \in Clients : Resubmit(c, d)
  \/ Tick

Spec == Init /\ [][Next]_vars

(* Every goroutine that serves a submission is eventually scheduled.       *)
FairSpec == Spec /\ \A c \in Clients : WF_vars(Progress(c))

-----------------------------------------------------------------------------
(* Properties.                                                             *)

Replies == {"none", "overloaded", "disabled", "denied", "error", "conflict", "rejected",
            "already_accepted", "accepted", "accepted_verification_failed",
            "acceptance_unknown"}

Inside(c) == pc[c] \notin {"idle", "done"}

(* A submission moves the ref once at most.                                *)
MaxLength == Cardinality(Clients)

(* Types; the limiter's channel is never beyond its capacity.              *)
TypeOK ==
  /\ scenario \in Scenarios /\ now \in 0..scenario.ticks
  /\ Commit <= MaxLength /\ Len(grounds) = Commit
  /\ slots \in 0..Capacity
  /\ pc \in [Clients -> {"idle", "admit", "load", "prepare", "accept", "verify",
                         "release", "again", "done"}]
  /\ at \in [Clients -> 0..now]
  /\ released \in [Clients -> BOOLEAN]
  /\ reply \in [Clients -> Replies]

(* The limiter's slots are exactly the submissions that were admitted and  *)
(* have not released theirs, even when a release function is called twice  *)
(* while another client has taken the slot (limiter.go TryAcquire).        *)
WithinCapacity == slots = Cardinality({c \in Clients : Inside(c) /\ ~released[c]})

(* Every accepted commit was signed for exactly its parent and authorised  *)
(* by the policy in force there: no submission slips past a rotation or a  *)
(* revocation that is accepted between its admission and its acceptance,   *)
(* no proof is spent twice, and nothing is accepted while the gate is      *)
(* closed (writegate.go AdmitAuthorityWrite, candidate_write.go).          *)
AuthorisedAtParent ==
  \A n \in 1..Commit :
    LET p == grounds[n].proof
        policy == PolicyAt(n - 1)
    IN  /\ scenario.gate
        /\ p.good
        /\ p.context = [ledger |-> LedgerID, target |-> ledger[n].target,
                        idem |-> ledger[n].idem, state |-> n - 1]
        /\ policy # None
        /\ [actor |-> p.actor, id |-> p.key, revoked |-> FALSE] \in policy.keys
        /\ [actor |-> p.actor, target |-> ledger[n].target] \in policy.grants
        /\ grounds[n].at \in p.issued..(p.expires - 1)
        /\ p.expires - p.issued \in 1..policy.life

(* Every submission is answered and gives its slot back, whatever the      *)
(* other clients do (writegate.go, limiter.go).                            *)
EverySubmissionReturns == \A c \in Clients : Inside(c) ~> pc[c] = "done"

Signings == UNION {s.signings : s \in Scenarios}
Events ==
  UNION {[target : {s.target}, idem : {s.idem}, on : 0..MaxLength, value : Values(s.target, Policies)] :
           s \in Signings}
KeyOf   == [e \in Events |-> e.idem]
BytesOf == [e \in Events |-> e]

Outcome(a) ==
  CASE a = "none" -> "open"
    [] a \in {"overloaded", "disabled", "denied", "error"} -> "error"
    [] OTHER -> a

(* What the clients asked for, who moved the ref, and what they were told. *)
Asked  == [c \in Clients |-> IF request[c] = None THEN None ELSE request[c].event]
Movers == {grounds[n].client : n \in 1..Len(grounds)}
Told   == [c \in Clients |-> Outcome(reply[c])]

Ledger == INSTANCE AbstractLedger WITH
            Calls <- Clients, Requests <- Events, NoRequest <- None,
            key <- KeyOf, eventID <- BytesOf, content <- BytesOf,
            log <- ledger, ask <- Asked, movers <- Movers, outcome <- Told

(* Seen through admission the ledger is still the one candidate write      *)
(* promises: it grows by one event with an unused key per submission, and  *)
(* every answer is true of it when it is given.                            *)
ImplementsLedger == Ledger!Spec
=============================================================================
