---------------------- MODULE CandidateWriteRefinement ----------------------
(***************************************************************************)
(* The candidate-write protocol implements AbstractLedger: the log is the  *)
(* history of the authoritative ref, the moment of acceptance is the       *)
(* rename inside git update-ref, and an invocation is answered when it     *)
(* returns.  Snapshots, candidates, locks and quarantine are internal.     *)
(***************************************************************************)
EXTENDS CandidateWrite

CONSTANT NoRequest

ASSUME NoRequestAssumption == NoRequest \notin Requests

ask == [c \in Calls |-> IF pc[c] = "idle" THEN NoRequest ELSE req[c]]

(* The kind of answer: an error of the code that denies the request after  *)
(* consulting the ledger is "rejected", one that only reports that         *)
(* something failed is "error".                                            *)
Kind(resp) ==
  IF resp.status # "none" THEN resp.status
  ELSE CASE resp.err \in {"stale", "invalid", "event_id"} -> "rejected"
         [] resp.err = "conflict"                         -> "conflict"
         [] OTHER                                         -> "error"

outcome == [c \in Calls |-> IF pc[c] = "done" THEN Kind(reply[c]) ELSE "open"]

Ledger == INSTANCE AbstractLedger WITH log <- head, movers <- published

(* Every answer of PrepareWriteCandidate and AcceptWriteCandidate was true *)
(* of the authoritative history at the moment it was given, and the        *)
(* history grows only by one request with an unused idempotency key, by an *)
(* invocation that is still unanswered or dead.                            *)
ImplementsLedger == Ledger!Spec
=============================================================================
