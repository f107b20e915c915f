-------------------------- MODULE MCQuarantineStore --------------------------
(***************************************************************************)
(* Small instances of QuarantineStore for TLC: p1 and p2 publish the same  *)
(* candidate, p3 reuses its ID for other bytes; s1 prunes, s2 cleans up.   *)
(***************************************************************************)
EXTENDS QuarantineStore

CONSTANTS p1, p2, p3, s1, s2, i1

MCid      == [p \in Procs |-> i1]
MCcontent == [p \in Publishers |-> IF p = p3 THEN "other" ELSE "bytes"]

(* Publication under crashes and against a conflicting publisher;          *)
(* publication against expiry and cleanup; a prune against both.           *)
PublishAndSweep ==
  {[procs |-> {p1, p2, p3}, faults |-> {"io", "crash"}],
   [procs |-> {p1, p2, s2}, faults |-> {"io", "age"}],
   [procs |-> {p1, s1, s2}, faults |-> {"io", "crash", "age"}]}

CleanUpAlone == {[procs |-> {p1, p2, s2}, faults |-> {}]}
=============================================================================
