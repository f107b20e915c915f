--------------------------- MODULE AbstractLedger ---------------------------
(***************************************************************************)
(* What candidate write promises to its callers, with no snapshots, refs,  *)
(* locks, candidates or quarantine: a log that only grows, in which an     *)
(* idempotency key is used once, and for every invocation one answer that  *)
(* was true of the log at the moment it was given.                         *)
(***************************************************************************)
EXTENDS Naturals, Sequences

CONSTANTS Calls, Requests, key, eventID, content, NoRequest

VARIABLES
  log,      \* the accepted requests, in order
  ask,      \* ask[c]: the request call c was invoked with
  movers,   \* the calls that appended their request
  outcome   \* outcome[c]: "open", or the kind of answer c was given

vars == << log, ask, movers, outcome >>

Identical(r, s) == content[r] = content[s] /\ eventID[r] = eventID[s]

Holds(r)    == \E i \in 1..Len(log) : Identical(log[i], r)
KeyTaken(r) == \E i \in 1..Len(log) : key[log[i]] = key[r]

Init ==
  /\ log = << >> /\ movers = {}
  /\ ask = [c \in Calls |-> NoRequest]
  /\ outcome = [c \in Calls |-> "open"]

Invoke(c, r) ==
  /\ ask[c] = NoRequest
  /\ ask' = [ask EXCEPT ![c] = r]
  /\ UNCHANGED << log, movers, outcome >>

(* The linearisation point of an acceptance.                               *)
Accept(c) ==
  /\ ask[c] # NoRequest /\ outcome[c] = "open" /\ c \notin movers
  /\ ~KeyTaken(ask[c])
  /\ log' = Append(log, ask[c])
  /\ movers' = movers \cup {c}
  /\ UNCHANGED << ask, outcome >>

(* When an answer may be given to call c about request r:                  *)
(*   accepted             c itself appended r                              *)
(*   already_accepted     r is in the log                                  *)
(*   verification_failed  r is in the log                                  *)
(*   unknown              always: it claims nothing                        *)
(*   prepared, rejected   r is not in the log                              *)
(*   conflict             another request holds r's key                    *)
(*   error                c did not append r                               *)
Truthful(c, r, o) ==
  \/ o = "accepted" /\ c \in movers
  \/ o \in {"already_accepted", "accepted_verification_failed"} /\ Holds(r)
  \/ o = "acceptance_unknown"
  \/ o \in {"prepared", "rejected"} /\ ~Holds(r)
  \/ o = "conflict" /\ KeyTaken(r) /\ ~Holds(r)
  \/ o = "error" /\ c \notin movers

Outcomes == {"accepted", "already_accepted", "accepted_verification_failed",
             "acceptance_unknown", "prepared", "rejected", "conflict", "error"}

Reply(c, r, o) ==
  /\ ask[c] \in {NoRequest, r} /\ outcome[c] = "open"
  /\ Truthful(c, r, o)
  /\ ask' = [ask EXCEPT ![c] = r]
  /\ outcome' = [outcome EXCEPT ![c] = o]
  /\ UNCHANGED << log, movers >>

Next ==
  \E c \in Calls :
    \/ Accept(c)
    \/ \E r \in Requests : Invoke(c, r) \/ \E o \in Outcomes : Reply(c, r, o)

Spec == Init /\ [][Next]_vars
=============================================================================
