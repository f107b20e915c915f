-------------------------- MODULE AbstractQuarantine --------------------------
(***************************************************************************)
(* What the quarantine promises to candidate write, with no inodes, links, *)
(* private files or directory syncs: one entry per candidate ID, which is  *)
(* absent or holds complete bytes.  Bytes are never replaced by others in  *)
(* one step, and a publisher is told what it found at that moment.         *)
(***************************************************************************)
CONSTANTS Publishers, Ids, id, content,
          None         \* the entry is absent

VARIABLES
  entry,   \* entry[i]: the bytes that a reader of ID i finds
  kept,    \* kept[i]: what a power failure may leave of entry[i]
  answer   \* answer[p]: what Ensure told publisher p, or "none" so far

vars == << entry, kept, answer >>

Init ==
  /\ entry = [i \in Ids |-> None]
  /\ kept = [i \in Ids |-> {None}]
  /\ answer = [p \in Publishers |-> "none"]

Becomes(i, bytes) ==
  /\ entry' = [entry EXCEPT ![i] = bytes]
  /\ kept' = [kept EXCEPT ![i] = @ \cup {bytes}]
  /\ UNCHANGED answer

(* The linearisation point of a publication: only an absent entry can be   *)
(* published, by a publisher that has not been answered.                   *)
Publish(p) ==
  /\ answer[p] = "none" /\ entry[id[p]] = None
  /\ Becomes(id[p], content[p])

Withdraw(i) == entry[i] # None /\ Becomes(i, None)

Settle == kept' = [i \in Ids |-> {entry[i]}] /\ UNCHANGED << entry, answer >>

(* A power failure takes the quarantine back to something it held since it *)
(* was settled, and to nothing else.                                       *)
Fail ==
  /\ \A i \in Ids : entry'[i] \in kept[i]
  /\ kept' = [i \in Ids |-> {entry'[i]}]
  /\ UNCHANGED answer

Truthful(p, a) ==
  \/ a = "ok" /\ entry[id[p]] = content[p]
  \/ a = "conflict" /\ entry[id[p]] \notin {None, content[p]}
  \/ a = "error"

Answer(p, a) ==
  /\ answer[p] = "none" /\ Truthful(p, a)
  /\ answer' = [answer EXCEPT ![p] = a]
  /\ UNCHANGED << entry, kept >>

Next ==
  \/ \E p \in Publishers : Publish(p) \/ \E a \in {"ok", "conflict", "error"} : Answer(p, a)
  \/ \E i \in Ids : Withdraw(i)
  \/ Settle
  \/ Fail

Spec == Init /\ [][Next]_vars
=============================================================================
