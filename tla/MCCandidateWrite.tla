-------------------------- MODULE MCCandidateWrite --------------------------
(***************************************************************************)
(* Small instances of CandidateWrite for TLC.  Whether a request validates *)
(* on a history is decided by the governed-record reducer: each request    *)
(* carries the reducer event of its document.                              *)
(***************************************************************************)
EXTENDS CandidateWriteRefinement, TLC

CONSTANTS c1, c2, c3, c4, Nil

R == INSTANCE Reducer WITH PolicyKind <- "policy", PolicyTarget <- "P",
                           PolicyValues <- {"v1"}

(* a, b: one document under two event paths.  x competes with it for its   *)
(* idempotency key.  z follows a.  After a, the others are refused: y for  *)
(* a's event ID, w for a's path, v by the reducer.                         *)
RaceRequests == {"a", "b", "x", "z"}
SequelRequests == {"a", "z"}
AllRequests  == RaceRequests \cup {"v", "w", "y"}

MCkey      == [r \in AllRequests |->
                 CASE r \in {"a", "b", "x"} -> "k1" [] OTHER -> r]
MCeventID  == [r \in AllRequests |->
                 CASE r \in {"a", "b", "y"} -> "e1" [] OTHER -> r]
MCcontent  == [r \in AllRequests |->
                 CASE r \in {"a", "b"} -> "d1" [] OTHER -> r]
MCpath     == [r \in AllRequests |->
                 CASE r \in {"a", "w"} -> "p1" [] OTHER -> r]
MCexpected == [r \in AllRequests |->
                 CASE r \in {"a", "b", "x"} -> << >> [] OTHER -> << "a" >>]

Created(id, t) ==
  [target_id |-> t, record_kind |-> "note", status |-> "active", revision |-> 1,
   current_event_id |-> id, previous_event_id |-> Nil, value |-> "v1"]

Creation(id, t) ==
  [type |-> "created", id |-> id, targets |-> << t >>, kind |-> "note",
   terms |-> "policy-1", value |-> "v1", prior_state |-> Nil,
   resulting_state |-> Created(id, t)]

Replacement(id, t, prior) ==
  [Creation(id, t) EXCEPT
     !.type = "replaced", !.prior_state = prior,
     !.resulting_state = [prior EXCEPT !.revision = 2, !.current_event_id = id,
                                       !.previous_event_id = prior.current_event_id]]

MCevent ==
  [r \in AllRequests |->
     CASE r \in {"a", "b", "x", "v"} -> Creation(MCeventID[r], "T")
       [] r = "z" -> Replacement("z", "T", Created("e1", "T"))
       [] OTHER   -> Creation(MCeventID[r], "U")]

(* applyGovernedRecordEvent also demands the expected parent, so an event  *)
(* is only ever reduced on the history its document names.                 *)
Reducible ==
  {r \in AllRequests :
     LET h == MCexpected[r]
     IN  R!Reduces(R!Project([i \in 1..Len(h) |-> MCevent[h[i]]]), "note" :> "policy-1", MCevent[r])}

MCApplies(h, r) == h = MCexpected[r] /\ r \in Reducible

Symmetry == Permutations(Calls)
=============================================================================
