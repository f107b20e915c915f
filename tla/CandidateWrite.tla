--------------------------- MODULE CandidateWrite ---------------------------
(***************************************************************************)
(* The candidate-write protocol of threadkeeper-core: the concurrent       *)
(* invocations of PrepareWriteCandidate and AcceptWriteCandidate           *)
(* (internal/ledger/candidate_write.go) over one authoritative Git ref     *)
(* (internal/gitledger/writer.go) and one candidate quarantine directory.  *)
(*                                                                         *)
(* A commit is the sequence of requests its linear history adds, the       *)
(* genesis root being << >>: PrepareEventCommit fixes author, dates and    *)
(* message, so a commit is a function of its parent, the event bytes and   *)
(* the event path, and "H1 is in the history of H" is "H1 is a prefix      *)
(* of H".  The bound quarantine ID hashes H0, H1, path and the event       *)
(* identities, all of which H1 determines: a bound entry is named by H1.   *)
(* A staging entry has a random ID per Prepare invocation and is named by  *)
(* the call.                                                               *)
(*                                                                         *)
(* One call runs one invocation, from "idle" to "done" (or "crashed"); a   *)
(* retry is another call.  Faults selects what may go wrong:               *)
(*   "io"     a Git, filesystem, timeout or cancellation error of a step   *)
(*   "kill"   git update-ref dies before or after the ref moves            *)
(*   "crash"  the process of a call dies between two of its steps          *)
(*   "age"    the 24 hour retention of quarantine entries elapses          *)
(***************************************************************************)
EXTENDS Naturals, Sequences

CONSTANTS Calls,       \* the invocations; their number bounds the behaviour
          Requests,    \* candidate requests: event document and event path
          key,         \* key[r]: idempotency_key of r's event document
          eventID,     \* eventID[r]: its event_id
          content,     \* content[r]: its content_sha256, i.e. its bytes
          path,        \* path[r]: the event path asked for
          expected,    \* expected[r]: its expected_ledger_commit
          Applies(_, _), \* Applies(h, r): r validates and reduces on h
          Faults,
          NoCommit, NoCall

Commits == Seq(Requests)

ASSUME CallsAssumption == NoCall \notin Calls

ASSUME RequestsAssumption == Requests # {}

ASSUME DocumentsAssumption ==
  /\ \A r \in Requests : expected[r] \in Commits
  /\ \A r, s \in Requests :
       content[r] = content[s] =>
         key[r] = key[s] /\ eventID[r] = eventID[s] /\ expected[r] = expected[s]

ASSUME FaultsAssumption == Faults \subseteq {"io", "kill", "crash", "age"}

VARIABLES
  head,       \* the commit the authoritative ref names
  refLock,    \* the call whose git update-ref holds the ref's lock file
  objects,    \* candidate commits present in the Git object store
  staged,     \* calls whose staging entry is in the quarantine directory
  bound,      \* commits whose bound entry is in the quarantine directory
  oldStaged,  \* the staging entries older than the retention window
  oldBound,   \* the bound entries older than the retention window
  judged,     \* judged[s]: the entry sweep s found past retention and will remove
  overtaken,  \* sweeps whose judged name was freed since (history variable)
  pc,         \* pc[c]: the next step of call c
  req,        \* req[c]: the request (candidate handle) c works on
  base,       \* base[c]: H0, the snapshot c works against
  reply,      \* reply[c]: what c returns, or the error it is recovering
  published   \* the calls whose update-ref moved the ref (history variable)

authority == << head, refLock, objects, published >>
entries   == << staged, bound, oldStaged, oldBound >>
sweeps    == << judged, overtaken >>
store     == << entries, sweeps >>
locals    == << pc, req, base, reply >>
vars      == << authority, store, locals >>

-----------------------------------------------------------------------------
(* Histories.                                                              *)

InHistory(g, h) == Len(g) <= Len(h) /\ \A i \in 1..Len(g) : g[i] = h[i]

KeyFree(h, r)     == \A i \in 1..Len(h) : key[h[i]] # key[r]
EventIDFree(h, r) == \A i \in 1..Len(h) : eventID[h[i]] # eventID[r]
PathFree(h, r)    == \A i \in 1..Len(h) : path[h[i]] # path[r]

SameRequest(r, s) == content[r] = content[s] /\ eventID[r] = eventID[s]

(* findAcceptedIdempotencyAt: the first event of h that carries r's key.   *)
FoundAt(h, r) == CHOOSE i \in 1..Len(h) :
                   /\ key[h[i]] = key[r]
                   /\ \A j \in 1..(i - 1) : key[h[j]] # key[r]

(* Variant: the key alone identifies a retry.                              *)
RetryByKey(h, r) == ~KeyFree(h, r)

Retry(h, r)    == ~KeyFree(h, r) /\ SameRequest(h[FoundAt(h, r)], r)
Conflict(h, r) == ~KeyFree(h, r) /\ ~SameRequest(h[FoundAt(h, r)], r)

(* What a new event must satisfy on snapshot h, and what Replay demands of *)
(* every event of an authoritative history.                                *)
Admissible(h, r) ==
  /\ EventIDFree(h, r)
  /\ expected[r] = h
  /\ Applies(h, r)

Replayable(h) ==
  \A i \in 1..Len(h) :
    LET before == SubSeq(h, 1, i - 1)
    IN  /\ KeyFree(before, h[i])
        /\ PathFree(before, h[i])
        /\ Admissible(before, h[i])

-----------------------------------------------------------------------------
(* Responses: status, ledger_commit, accepted_commit and the error.        *)

Statuses == {"none", "prepared", "accepted", "already_accepted",
             "acceptance_unknown", "accepted_verification_failed"}
Errors   == {"nil", "stale", "conflict", "event_id", "invalid", "staging",
             "commit", "git", "replay", "recovery_failed",
             "recovery_required", "verification_failed", "cleanup_failed"}
Response == [status : Statuses, ledger : {NoCommit} \cup Commits,
             accepted : {NoCommit} \cup Commits, err : Errors]

Refuse(e) == [status |-> "none", ledger |-> NoCommit, accepted |-> NoCommit, err |-> e]
Prepared  == [Refuse("nil") EXCEPT !.status = "prepared"]

responseFromAccepted(status, h, r) ==
  [status |-> status, ledger |-> h,
   accepted |-> SubSeq(h, 1, FoundAt(h, r)), err |-> "nil"]

(* recoverCandidateAfterStaleCAS on the replayed head h: the durable       *)
(* answer for r, or otherwise what the caller already had.                 *)
Traced(h, r, otherwise) ==
  CASE Retry(h, r)    -> responseFromAccepted("already_accepted", h, r)
    [] Conflict(h, r) -> Refuse("conflict")
    [] OTHER          -> otherwise

unknown(ledger) ==
  [status |-> "acceptance_unknown", ledger |-> ledger,
   accepted |-> NoCommit, err |-> "recovery_required"]

(* Variant: the error is not one callers can recognise.                    *)
UnnamedFailure(cand, ledger) ==
  [status |-> "accepted_verification_failed", ledger |-> ledger,
   accepted |-> cand, err |-> "unnamed"]

verificationFailed(cand, ledger) ==
  [status |-> "accepted_verification_failed", ledger |-> ledger,
   accepted |-> cand, err |-> "verification_failed"]

-----------------------------------------------------------------------------
(* Step helpers.                                                           *)

candidate(c) == Append(base[c], req[c])

Goto(c, l)      == pc' = [pc EXCEPT ![c] = l]
Answer(c, resp) == reply' = [reply EXCEPT ![c] = resp]
Return(c, resp) == Goto(c, "done") /\ Answer(c, resp)
Work(c, r, h)   == req' = [req EXCEPT ![c] = r] /\ base' = [base EXCEPT ![c] = h]

IoFails     == "io" \in Faults
ReplayFails == IoFails \/ ~Replayable(head)

Running(c) == pc[c] \notin {"idle", "done", "crashed", "orphan"}

(* The older heads that a caller's ExpectedHead may still name.            *)
OlderHeads == {SubSeq(head, 1, n) : n \in 0..(Len(head) - 1)}

(* The handle names a stored child commit of its H0 that adds one event,   *)
(* and the event ID is new.                                                *)
preflightCandidateForAcceptance(c) ==
  candidate(c) \in objects /\ EventIDFree(base[c], req[c])

-----------------------------------------------------------------------------
(* The names in the quarantine directory, and the sweep of it.             *)

StageEntry(c) == [kind |-> "stage", of |-> c]
BoundEntry(g) == [kind |-> "bound", of |-> g]
NoEntry       == [kind |-> "none"]

Entries == [kind : {"stage"}, of : Calls] \cup [kind : {"bound"}, of : Commits]

Listing == [kind : {"stage"}, of : staged] \cup [kind : {"bound"}, of : bound]
Expired == [kind : {"stage"}, of : oldStaged] \cup [kind : {"bound"}, of : oldBound]

(* A sweep runs in every call that opens the quarantine, and in the        *)
(* maintenance hook, which belongs to no call.                             *)
Sweepers == Calls \cup {NoCall}

RemoveStage(c) == staged' = staged \ {c} /\ oldStaged' = oldStaged \ {c}

(* Removal is by name: another sweep that has judged this entry does not   *)
(* notice that it has gone, if the name is taken again.                    *)
RemoveBound(s, g) ==
  /\ bound' = bound \ {g} /\ oldBound' = oldBound \ {g}
  /\ overtaken' = (overtaken \cup {t \in Sweepers : judged[t] = BoundEntry(g)}) \ {s}

Sweeping(s) ==
  \/ s = NoCall
  \/ s # NoCall /\ pc[s] \in {"stage", "cleanup"}
  \/ s # NoCall /\ pc[s] = "open" /\ preflightCandidateForAcceptance(s)

Judge(s, Names) ==
  /\ Sweeping(s) /\ judged[s] = NoEntry
  /\ \E n \in Names : judged' = [judged EXCEPT ![s] = n]
  /\ UNCHANGED << authority, entries, overtaken, locals >>

(* Variant: the retention cutoff is not applied.                           *)
SweepStatAll(s) == Judge(s, Listing)

(* PruneBefore compares the mtime that Lstat reports with the cutoff.  It  *)
(* lists the directory first; which entries grow old before they are       *)
(* examined, and which after, is left open, so a sweep judges any of them. *)
SweepStat(s) == Judge(s, Expired)

(* Then it removes what has that name now.                                 *)
SweepUnlink(s) ==
  /\ Sweeping(s) /\ judged[s] \in Listing
  /\ judged' = [judged EXCEPT ![s] = NoEntry]
  /\ \/ \E c \in staged : /\ judged[s] = StageEntry(c) /\ RemoveStage(c)
                           /\ UNCHANGED << bound, oldBound, overtaken >>
     \/ \E g \in bound : /\ judged[s] = BoundEntry(g) /\ RemoveBound(s, g)
                          /\ UNCHANGED << staged, oldStaged >>
  /\ UNCHANGED << authority, locals >>

GiveUpSweep(s) ==
  /\ judged' = [judged EXCEPT ![s] = NoEntry] /\ overtaken' = overtaken \ {s}
  /\ UNCHANGED entries

(* Reader.PruneCandidateQuarantine, the maintenance hook, is told that a   *)
(* sweep failed; nothing waits for it.                                     *)
HookFails(s) ==
  /\ s = NoCall /\ judged[s] # NoEntry
  /\ judged[s] \notin Listing \/ IoFails
  /\ GiveUpSweep(s)
  /\ UNCHANGED << authority, locals >>

PruneBefore(s) == SweepStat(s) \/ SweepUnlink(s) \/ HookFails(s)

(* PruneBefore gives up on the first listed entry that somebody removes    *)
(* before it has examined or removed it, so opening can fail whenever      *)
(* another call or the hook is at work.                                    *)
OpenRaces(c) ==
  \/ \E d \in Calls \ {c} : Running(d)
  \/ judged[NoCall] # NoEntry
  \/ judged[c] \notin Listing \cup {NoEntry}

OpenFails(c) == IoFails \/ OpenRaces(c)

-----------------------------------------------------------------------------
(* PrepareWriteCandidate.                                                  *)

(* The key is already accepted for the identical request: the answer is    *)
(* reconstructed from the snapshot, the accepted quarantine is cleaned.    *)
PrepareRetry(c, r) ==
  /\ pc[c] = "idle"
  /\ Replayable(head) /\ Retry(head, r)
  /\ Work(c, r, head)
  /\ Answer(c, responseFromAccepted("already_accepted", head, r))
  /\ Goto(c, "cleanup")
  /\ UNCHANGED << authority, store >>

(* Rejections on the snapshot, in the order of the code.  The caller names *)
(* the current head or an older one as the ExpectedHead.                   *)
PrepareReject(c, r) ==
  /\ pc[c] = "idle"
  /\ Work(c, r, head)
  /\ \/ ReplayFails /\ Return(c, Refuse("replay"))
     \/ /\ Replayable(head) /\ Conflict(head, r)
        /\ Return(c, Refuse("conflict"))
     \/ /\ Replayable(head) /\ KeyFree(head, r)
        /\ ~EventIDFree(head, r)
        /\ Return(c, Refuse("event_id"))
     \/ /\ Replayable(head) /\ KeyFree(head, r) /\ EventIDFree(head, r)
        /\ OlderHeads # {}
        /\ Return(c, Refuse("stale"))
     \/ /\ Replayable(head) /\ KeyFree(head, r) /\ EventIDFree(head, r)
        /\ ~Admissible(head, r)
        /\ Return(c, Refuse("invalid"))
  /\ UNCHANGED << authority, store >>

PrepareAdmit(c, r) ==
  /\ pc[c] = "idle"
  /\ Replayable(head) /\ KeyFree(head, r) /\ Admissible(head, r)
  /\ Work(c, r, head)
  /\ Goto(c, "stage")
  /\ UNCHANGED << authority, store, reply >>

(* OpenCandidateQuarantine ends its sweep, Ensure(stage) publishes, Read   *)
(* verifies.  A failure returns at once and may leave the staging entry.   *)
PrepareStage(c) ==
  /\ pc[c] = "stage"
  /\ \/ /\ OpenFails(c)
        /\ GiveUpSweep(c)
        /\ Return(c, Refuse("staging"))
     \/ /\ judged[c] = NoEntry
        /\ staged' = staged \cup {c}
        /\ UNCHANGED << bound, oldStaged, oldBound, sweeps >>
        /\ \/ Goto(c, "commit") /\ UNCHANGED reply
           \/ IoFails /\ Return(c, Refuse("staging"))
  /\ UNCHANGED << authority, req, base >>

(* Variant: the event path may already exist.                              *)
PrepareCommitOverPath(c) ==
  /\ pc[c] = "commit"
  /\ \/ /\ head # base[c]
        /\ Answer(c, Refuse("stale")) /\ Goto(c, "recover")
        /\ UNCHANGED objects
     \/ /\ head = base[c]
        /\ objects' = objects \cup {candidate(c)}
        /\ Goto(c, "bind") /\ UNCHANGED reply
  /\ UNCHANGED << head, refLock, published, store, req, base >>

(* PrepareEventCommit: the exact head is re-read, then the deterministic   *)
(* unreachable commit is built.  Only STALE_STATE is reconciled; any other *)
(* failure, one after the commit exists included, leaves the staging entry.*)
PrepareCommit(c) ==
  /\ pc[c] = "commit"
  /\ \/ /\ head # base[c]
        /\ Answer(c, Refuse("stale")) /\ Goto(c, "recover")
        /\ UNCHANGED objects
     \/ /\ head = base[c] /\ PathFree(head, req[c])
        /\ objects' = objects \cup {candidate(c)}
        /\ Goto(c, "bind") /\ UNCHANGED reply
     \/ /\ head = base[c] /\ ~PathFree(head, req[c])
        /\ Return(c, Refuse("commit"))
        /\ UNCHANGED objects
     \/ /\ IoFails
        /\ Return(c, Refuse("commit"))
        /\ \/ UNCHANGED objects
           \/ /\ head = base[c] /\ PathFree(head, req[c])
              /\ objects' = objects \cup {candidate(c)}
  /\ UNCHANGED << head, refLock, published, store, req, base >>

(* Ensure(bound): a failure may leave the final name visible.              *)
PrepareBind(c) ==
  /\ pc[c] = "bind"
  /\ \/ /\ bound' = bound \cup {candidate(c)}
        /\ Goto(c, "verify") /\ UNCHANGED reply
     \/ /\ IoFails
        /\ bound' \in {bound, bound \cup {candidate(c)}}
        /\ Answer(c, Refuse("invalid")) /\ Goto(c, "recover")
  /\ UNCHANGED << authority, staged, oldStaged, oldBound, sweeps, req, base >>

(* Read(bound), then the staging entry is removed.                         *)
PrepareVerify(c) ==
  /\ pc[c] = "verify"
  /\ \/ /\ candidate(c) \in bound
        /\ RemoveStage(c)
        /\ Goto(c, "reconcile") /\ UNCHANGED reply
     \/ /\ IoFails \/ candidate(c) \notin bound
        /\ Answer(c, Refuse("invalid")) /\ Goto(c, "recover")
        /\ UNCHANGED << staged, oldStaged >>
     \/ /\ IoFails /\ candidate(c) \in bound
        /\ Return(c, Refuse("staging"))
        /\ UNCHANGED << staged, oldStaged >>
  /\ UNCHANGED << authority, bound, oldBound, sweeps, req, base >>

(* Variant: prepared is returned without looking at the head again.        *)
PrepareReconcileBlind(c) ==
  /\ pc[c] = "reconcile"
  /\ Return(c, Prepared)
  /\ UNCHANGED << authority, store, req, base >>

(* Variant: a settled call keeps its bound entry.                          *)
PrepareReconcileKeeping(c) ==
  /\ pc[c] = "reconcile"
  /\ \/ head = base[c] /\ Return(c, Prepared)
     \/ /\ head # base[c] /\ Replayable(head)
        /\ Return(c, Traced(head, req[c], Refuse("stale")))
  /\ UNCHANGED << authority, store, req, base >>

(* reconcilePreparedCandidate: a current H0 keeps the candidate; anything  *)
(* else settles the call, and a settled call removes the bound entry.      *)
PrepareReconcile(c) ==
  /\ pc[c] = "reconcile"
  /\ \/ /\ head = base[c]
        /\ Return(c, Prepared)
     \/ /\ IoFails
        /\ Answer(c, unknown(NoCommit)) /\ Goto(c, "unbind")
     \/ /\ head # base[c]
        /\ Goto(c, "unbind")
        /\ \/ ReplayFails /\ Answer(c, unknown(head))
           \/ /\ Replayable(head)
              /\ Answer(c, Traced(head, req[c], Refuse("stale")))
  /\ UNCHANGED << authority, store, req, base >>

(* Variant: the staging entry is left to its retention.                    *)
ReturnStaged(c, resp) == Return(c, resp) /\ UNCHANGED << staged, oldStaged >>

ReturnUnstaged(c, resp) ==
  \/ Return(c, resp) /\ RemoveStage(c)
  \/ /\ IoFails /\ c \in staged
     /\ Return(c, [resp EXCEPT !.err = "cleanup_failed"])
     /\ UNCHANGED << staged, oldStaged >>

(* Variant: the failure is returned as the old snapshot explained it.      *)
ReturnSnapshotFailure(c) ==
  /\ pc[c] = "recover"
  /\ ReturnUnstaged(c, reply[c])
  /\ UNCHANGED << authority, bound, oldBound, sweeps, req, base >>

(* Variant: the bound entry, which other calls share, is removed as well.  *)
RecoverAndUnbind(c) ==
  /\ pc[c] = "recover"
  /\ RemoveBound(c, candidate(c))
  /\ \/ ReplayFails /\ ReturnUnstaged(c, unknown(NoCommit))
     \/ Replayable(head) /\ ReturnUnstaged(c, Traced(head, req[c], reply[c]))
  /\ UNCHANGED << authority, judged, req, base >>

(* recoverAfterSnapshotFailure: a failure seen after the H0 snapshot is    *)
(* evaluated against a fresh replay before it is returned; a Prepare also  *)
(* removes its staging entry.                                              *)
RecoverAfterSnapshotFailure(c) ==
  /\ pc[c] = "recover"
  /\ \/ ReplayFails /\ ReturnUnstaged(c, unknown(NoCommit))
     \/ Replayable(head) /\ ReturnUnstaged(c, Traced(head, req[c], reply[c]))
  /\ UNCHANGED << authority, bound, oldBound, sweeps, req, base >>

-----------------------------------------------------------------------------
(* AcceptWriteCandidate.  The handle is untrusted: any request on any      *)
(* commit of the history, prepared or not.                                 *)

AcceptRetry(c, r) ==
  /\ pc[c] = "idle"
  /\ Replayable(head) /\ Retry(head, r)
  /\ Work(c, r, head)
  /\ Answer(c, responseFromAccepted("already_accepted", head, r))
  /\ Goto(c, "cleanup")
  /\ UNCHANGED << authority, store >>

AcceptReject(c, r) ==
  /\ pc[c] = "idle"
  /\ Work(c, r, head)
  /\ \/ ReplayFails /\ Return(c, Refuse("replay"))
     \/ /\ Replayable(head) /\ Conflict(head, r)
        /\ Return(c, Refuse("conflict"))
     \/ /\ Replayable(head) /\ KeyFree(head, r) /\ OlderHeads # {}
        /\ Return(c, Refuse("stale"))
  /\ UNCHANGED << authority, store >>

AcceptAdmit(c, r) ==
  /\ pc[c] = "idle"
  /\ Replayable(head) /\ KeyFree(head, r)
  /\ Work(c, r, head)
  /\ Goto(c, "open")
  /\ UNCHANGED << authority, store, reply >>

(* The candidate's own event document, against the snapshot.               *)
validateCandidateForAcceptance(c) == Admissible(base[c], req[c])

(* Variant: opening is repeated until no other call can race with it.      *)
AcceptOpenAlone(c) ==
  /\ pc[c] = "open" /\ ~OpenRaces(c)
  /\ preflightCandidateForAcceptance(c)
  /\ Goto(c, "read")
  /\ UNCHANGED << authority, store, req, base, reply >>

(* The preflight, validateQuarantineHandle, and the end of the sweep in    *)
(* OpenExistingCandidateQuarantine.                                        *)
AcceptOpen(c) ==
  /\ pc[c] = "open"
  /\ \/ /\ preflightCandidateForAcceptance(c)
        /\ judged[c] = NoEntry
        /\ Goto(c, "read") /\ UNCHANGED << store, reply >>
     \/ /\ \/ OpenFails(c) /\ GiveUpSweep(c)
           \/ ~preflightCandidateForAcceptance(c) /\ UNCHANGED store
        /\ Answer(c, Refuse("invalid")) /\ Goto(c, "recover")
  /\ UNCHANGED << authority, req, base >>

(* The bound bytes are read back and the candidate is revalidated.         *)
AcceptRead(c) ==
  /\ pc[c] = "read"
  /\ \/ /\ candidate(c) \in bound /\ validateCandidateForAcceptance(c)
        /\ Goto(c, "cas") /\ UNCHANGED reply
     \/ /\ \/ IoFails
           \/ candidate(c) \notin bound
           \/ ~validateCandidateForAcceptance(c)
        /\ Answer(c, Refuse("invalid")) /\ Goto(c, "recover")
  /\ UNCHANGED << authority, store, req, base >>

-----------------------------------------------------------------------------
(* CompareAndSwap.                                                         *)

(* The checks before update-ref.                                           *)
CasCheck(c) ==
  /\ pc[c] = "cas"
  /\ \/ /\ head = base[c]
        /\ Goto(c, "update") /\ UNCHANGED reply
     \/ /\ head # base[c]
        /\ Goto(c, "stale") /\ UNCHANGED reply
     \/ /\ IoFails /\ Return(c, Refuse("git"))
  /\ UNCHANGED << authority, store, req, base >>

(* Variant: old and new value of update-ref exchanged.                     *)
UpdateRefExchanged(c) ==
  /\ pc[c] = "update"
  /\ \/ /\ refLock = NoCall /\ head = candidate(c)
        /\ refLock' = c /\ Goto(c, "locked")
     \/ /\ refLock # NoCall \/ head # candidate(c)
        /\ Goto(c, "failed") /\ UNCHANGED refLock
  /\ UNCHANGED << head, objects, published, store, req, base, reply >>

(* git update-ref takes the ref's lock file and compares the old value     *)
(* under it, or fails because the lock is held or the value differs.       *)
UpdateRefLock(c) ==
  /\ pc[c] = "update"
  /\ \/ /\ refLock = NoCall /\ head = base[c]
        /\ refLock' = c /\ Goto(c, "locked")
     \/ /\ refLock # NoCall \/ head # base[c] \/ IoFails
        /\ Goto(c, "failed") /\ UNCHANGED refLock
  /\ UNCHANGED << head, objects, published, store, req, base, reply >>

(* The lock file is renamed over the ref.  A killed update-ref reports an  *)
(* error although the ref moved.                                           *)
UpdateRefPublish(c) ==
  /\ pc[c] = "locked"
  /\ head' = candidate(c) /\ refLock' = NoCall
  /\ published' = published \cup {c}
  /\ \/ Goto(c, "updated")
     \/ "kill" \in Faults /\ Goto(c, "failed")
  /\ UNCHANGED << objects, store, req, base, reply >>

(* Killed while it holds the lock: the lock file stays behind.             *)
UpdateRefKilled(c) ==
  /\ pc[c] = "locked" /\ "kill" \in Faults
  /\ Goto(c, "failed")
  /\ UNCHANGED << authority, store, req, base, reply >>

(* update-ref succeeded: recoverStateAfterCAS must find H1 in history.     *)
CasVerify(c) ==
  /\ pc[c] = "updated"
  /\ \/ /\ InHistory(candidate(c), head)
        /\ Goto(c, "post") /\ UNCHANGED reply
     \/ /\ IoFails \/ ~InHistory(candidate(c), head)
        /\ Return(c, verificationFailed(candidate(c), NoCommit))
  /\ UNCHANGED << authority, store, req, base >>

(* Variant: a failed update-ref is taken for an unmoved ref.               *)
CasTakenForFailed(c) ==
  /\ pc[c] \in {"failed", "settle"}
  /\ Return(c, Refuse("git"))
  /\ UNCHANGED << authority, store, req, base >>

(* update-ref failed: detached recovery resolves what happened; while H0   *)
(* is still visible the call waits out the bounded settle window.          *)
CasRecover(c) ==
  /\ pc[c] \in {"failed", "settle"}
  /\ \/ /\ InHistory(candidate(c), head)
        /\ Goto(c, "recovered") /\ UNCHANGED reply
     \/ /\ head # base[c] /\ ~InHistory(candidate(c), head)
        /\ Goto(c, "stale") /\ UNCHANGED reply
     \/ /\ pc[c] = "failed" /\ head = base[c]
        /\ Goto(c, "settle") /\ UNCHANGED reply
     \/ /\ IoFails \/ (pc[c] = "settle" /\ head = base[c])
        /\ Return(c, unknown(NoCommit))
  /\ UNCHANGED << authority, store, req, base >>

-----------------------------------------------------------------------------
(* Outcomes of the compare-and-swap.                                       *)

(* ErrStaleState: replay the new head.                                     *)
AcceptStale(c) ==
  /\ pc[c] = "stale"
  /\ \/ ReplayFails /\ Return(c, Refuse("recovery_failed"))
     \/ /\ Replayable(head) /\ Conflict(head, req[c])
        /\ Return(c, Refuse("conflict"))
     \/ /\ Replayable(head) /\ Retry(head, req[c])
        /\ Answer(c, responseFromAccepted("already_accepted", head, req[c]))
        /\ Goto(c, "unbind")
     \/ /\ Replayable(head) /\ KeyFree(head, req[c])
        /\ Return(c, Refuse("stale"))
  /\ UNCHANGED << authority, store, req, base >>

(* Variant: a recovered acceptance is claimed by the call that found it.   *)
AcceptRecoveredAsOwn(c) ==
  /\ pc[c] = "recovered"
  /\ Replayable(head) /\ Retry(head, req[c])
  /\ Answer(c, responseFromAccepted("accepted", head, req[c]))
  /\ Goto(c, "unbind")
  /\ UNCHANGED << authority, store, req, base >>

(* ErrCASAcceptanceRecovered: H1 is accepted, by whom is not known.        *)
AcceptRecovered(c) ==
  /\ pc[c] = "recovered"
  /\ \/ /\ ReplayFails \/ ~Retry(head, req[c])
        /\ Return(c, verificationFailed(candidate(c), NoCommit))
     \/ /\ Replayable(head) /\ Retry(head, req[c])
        /\ Answer(c, responseFromAccepted("already_accepted", head, req[c]))
        /\ Goto(c, "unbind")
  /\ UNCHANGED << authority, store, req, base >>

(* The post-CAS replay must recover this very candidate.                   *)
AcceptVerified(c) ==
  LET mine == /\ Retry(head, req[c])
              /\ SubSeq(head, 1, FoundAt(head, req[c])) = candidate(c)
  IN
  /\ pc[c] = "post"
  /\ \/ /\ ReplayFails
        /\ Return(c, verificationFailed(candidate(c), candidate(c)))
     \/ /\ Replayable(head) /\ (IoFails \/ ~mine)
        /\ Return(c, verificationFailed(candidate(c), head))
     \/ /\ Replayable(head) /\ mine
        /\ Answer(c, responseFromAccepted("accepted", head, req[c]))
        /\ Goto(c, "unbind")
  /\ UNCHANGED << authority, store, req, base >>

-----------------------------------------------------------------------------
(* Quarantine cleanup.                                                     *)

(* The call's own bound entry; a missing one is fine.                      *)
Unbind(c) ==
  /\ pc[c] = "unbind"
  /\ Goto(c, "done")
  /\ \/ RemoveBound(c, candidate(c)) /\ UNCHANGED reply
     \/ /\ IoFails
        /\ Answer(c, [reply[c] EXCEPT !.err = "cleanup_failed"])
        /\ UNCHANGED << bound, oldBound, overtaken >>
  /\ UNCHANGED << authority, staged, oldStaged, judged, req, base >>

(* cleanupAcceptedQuarantine: the entry is derived from the durable event. *)
(* A sweep that lost a race looks like a missing directory: cleanup is     *)
(* then skipped without an error.                                          *)
Cleanup(c) ==
  /\ pc[c] = "cleanup"
  /\ Goto(c, "done")
  /\ \/ /\ judged[c] = NoEntry
        /\ RemoveBound(c, reply[c].accepted)
        /\ UNCHANGED << staged, oldStaged, judged, reply >>
     \/ /\ OpenRaces(c)
        /\ GiveUpSweep(c) /\ UNCHANGED reply
     \/ /\ IoFails
        /\ GiveUpSweep(c)
        /\ Answer(c, [reply[c] EXCEPT !.err = "cleanup_failed"])
  /\ UNCHANGED << authority, req, base >>

-----------------------------------------------------------------------------
(* The environment.                                                        *)

(* A process dies between two steps.  Its git update-ref child may live    *)
(* on and still move the ref.                                              *)
Crash(c) ==
  /\ "crash" \in Faults /\ Running(c)
  /\ Goto(c, IF pc[c] = "locked" THEN "orphan" ELSE "crashed")
  /\ UNCHANGED << authority, store, req, base, reply >>

OrphanPublish(c) ==
  /\ pc[c] = "orphan"
  /\ head' = candidate(c) /\ refLock' = NoCall
  /\ published' = published \cup {c}
  /\ Goto(c, "crashed")
  /\ UNCHANGED << objects, store, req, base, reply >>

(* The retention window of everything now in the quarantine elapses.       *)
Age ==
  /\ "age" \in Faults
  /\ << oldStaged, oldBound >> # << staged, bound >>
  /\ oldStaged' = staged /\ oldBound' = bound
  /\ UNCHANGED << authority, staged, bound, sweeps, locals >>

-----------------------------------------------------------------------------
Init ==
  /\ head = << >> /\ refLock = NoCall /\ objects = {} /\ published = {}
  /\ staged = {} /\ bound = {} /\ oldStaged = {} /\ oldBound = {}
  /\ judged = [s \in Sweepers |-> NoEntry] /\ overtaken = {}
  /\ pc = [c \in Calls |-> "idle"]
  /\ req = [c \in Calls |-> CHOOSE r \in Requests : TRUE]
  /\ base = [c \in Calls |-> << >>]
  /\ reply = [c \in Calls |-> Refuse("nil")]

Begin(c) ==
  \E r \in Requests :
    \/ PrepareRetry(c, r) \/ PrepareReject(c, r) \/ PrepareAdmit(c, r)
    \/ AcceptRetry(c, r) \/ AcceptReject(c, r) \/ AcceptAdmit(c, r)

Step(c) ==
  \/ PrepareStage(c) \/ PrepareCommit(c) \/ PrepareBind(c)
  \/ PrepareVerify(c) \/ PrepareReconcile(c)
  \/ RecoverAfterSnapshotFailure(c)
  \/ AcceptOpen(c) \/ AcceptRead(c)
  \/ CasCheck(c) \/ UpdateRefLock(c) \/ UpdateRefPublish(c) \/ UpdateRefKilled(c)
  \/ CasVerify(c) \/ CasRecover(c)
  \/ AcceptStale(c) \/ AcceptRecovered(c) \/ AcceptVerified(c)
  \/ Unbind(c) \/ Cleanup(c)

Next ==
  \/ \E c \in Calls : Begin(c) \/ Step(c) \/ Crash(c) \/ OrphanPublish(c)
  \/ \E s \in Sweepers : PruneBefore(s)
  \/ Age

Spec == Init /\ [][Next]_vars

(* Every step of an invocation is bounded by a timeout of its own and its  *)
(* goroutine is scheduled: a running call keeps taking steps.              *)
FairSpec == Spec /\ \A c \in Calls : WF_vars(Step(c) \/ PruneBefore(c))

-----------------------------------------------------------------------------
Labels == {"idle", "stage", "commit", "bind", "verify", "reconcile", "recover",
           "open", "read", "cas", "update", "locked", "updated", "failed",
           "settle", "stale", "recovered", "post", "unbind", "cleanup",
           "done", "crashed", "orphan"}

(* Every variable keeps its type: the ref and the quarantine hold commits, *)
(* every call has a label, a request, a snapshot and a response.           *)
TypeOK ==
  /\ head \in Commits
  /\ refLock \in Calls \cup {NoCall}
  /\ objects \subseteq Commits
  /\ published \subseteq Calls
  /\ oldStaged \subseteq staged /\ staged \subseteq Calls
  /\ oldBound \subseteq bound /\ bound \subseteq Commits
  /\ judged \in [Sweepers -> Entries \cup {NoEntry}]
  /\ overtaken \subseteq Sweepers
  /\ pc \in [Calls -> Labels]
  /\ req \in [Calls -> Requests]
  /\ base \in [Calls -> Commits]
  /\ reply \in [Calls -> Response]

(* Whatever the interleaving, the ref only ever names a history that the   *)
(* full Replay accepts: unique idempotency keys, event IDs and paths, each *)
(* event formed for and valid on exactly its parent.  Acceptance checks    *)
(* these on a snapshot; the compare-and-swap must make them hold at the    *)
(* moment the ref moves.                                                   *)
HeadReplays == Replayable(head)

(* A success response is about the caller's request and is consistent with *)
(* one snapshot: the accepted commit lies in the history of the reported   *)
(* ledger commit, which lies in the authoritative history (CW-25, CW-32).  *)
(* accepted_verification_failed is only said of a candidate that really is *)
(* accepted.                                                               *)
RepliesTruthful ==
  \A c \in Calls :
    LET resp == reply[c]
    IN  /\ resp.status \in {"accepted", "already_accepted"} =>
             /\ resp.accepted # << >>
             /\ InHistory(resp.accepted, resp.ledger)
             /\ InHistory(resp.ledger, head)
             /\ SameRequest(resp.accepted[Len(resp.accepted)], req[c])
        /\ resp.status = "accepted_verification_failed" =>
             InHistory(resp.accepted, head)

(* The call whose update-ref moved the ref never reports an ordinary       *)
(* failure, whatever was killed, cancelled or unreadable afterwards; and   *)
(* only such a call reports "accepted".                                    *)
MoverAnswered ==
  \A c \in Calls :
    /\ c \in published /\ pc[c] = "done" =>
         reply[c].status \in {"accepted", "already_accepted",
                              "acceptance_unknown", "accepted_verification_failed"}
    /\ reply[c].status = "accepted" =>
         c \in published /\ reply[c].accepted = candidate(c)

(* At most one invocation is told "accepted" for an idempotency key.       *)
AcceptedOnce ==
  \A c, d \in Calls :
    /\ reply[c].status = "accepted" /\ reply[d].status = "accepted"
    /\ key[req[c]] = key[req[d]]
    => c = d

(* The authoritative ref moves only to an exact child of what it names.    *)
AuthorityAppendOnly ==
  [][\E r \in Requests : head' = Append(head, r)]_head

(* An ordinary stale or candidate/quarantine failure is never returned for *)
(* a request that is durably accepted at that moment (Issues #25 and #32). *)
NoRejectionOfAccepted ==
  [][\A c \in Calls :
       /\ pc[c] # "done" /\ pc'[c] = "done"
       /\ reply'[c].status = "none" /\ reply'[c].err \in {"stale", "invalid"}
       => \A i \in 1..Len(head') : ~SameRequest(head'[i], req'[c])]_vars

(* A capability that can still be accepted, its H0 being the current head, *)
(* leaves the quarantine only when its retention has elapsed: neither the  *)
(* cleanup of another invocation nor a crash takes it from its holder.     *)
(* There are two exceptions.  A sweep judged an older entry of that name   *)
(* to be past retention, and somebody else freed the name before this      *)
(* sweep removed it, so that an identical Prepare could publish it again.  *)
(* Or an identical Prepare could not read the head once it had bound the   *)
(* entry; it answers acceptance_unknown and removes it.                    *)
LiveCapabilityKept ==
  [][\A g \in bound \ bound' :
       \/ g \in oldBound
       \/ ~\E r \in Requests : g = Append(head, r)
       \/ \E s \in overtaken : judged[s] = BoundEntry(g) /\ judged'[s] = NoEntry
       \/ IoFails /\ \E c \in Calls :
                       /\ pc[c] = "unbind" /\ candidate(c) = g
                       /\ reply[c] = unknown(NoCommit)]_vars

(* When no call is running, no accepted event is left in quarantine: an    *)
(* identical Prepare that re-materialises a cleaned entry removes it.      *)
(* Only a call that died before it could tidy up leaves its entry.         *)
NoAcceptedResidue ==
  (\A c \in Calls : ~Running(c)) =>
    \A g \in bound : \/ ~InHistory(g, head)
                     \/ \E c \in Calls : pc[c] = "crashed" /\ candidate(c) = g

(* A staging entry outlives its Prepare only if the process died or the    *)
(* call said so: staging itself or the commit failed, or the removal of    *)
(* the entry did.  Every other way out removes it, so that what is left to *)
(* the 24 hour retention is what an operator was told of.                  *)
StagingReported ==
  \A c \in staged :
    \/ Running(c) \/ pc[c] = "crashed"
    \/ pc[c] = "done" /\ reply[c].err \in {"staging", "commit", "cleanup_failed"}

(* docs/assurance/CANDIDATE_QUARANTINE_V1.md, item 6: a failed publisher   *)
(* cannot remove another publisher's final capability, so a handle that    *)
(* was returned as prepared stays usable for as long as its H0 is current. *)
PreparedStaysUsable ==
  \A c \in Calls :
    reply[c].status = "prepared" /\ head = base[c] => candidate(c) \in bound

(* Documented (docs/assurance/CANDIDATE_QUARANTINE_V1.md): a recovery that *)
(* cannot complete is answered acceptance_unknown, so a failed recovery    *)
(* never denies a durable acceptance with a nil response.                  *)
FailedRecoveryNeverDenies ==
  [][\A c \in Calls :
       /\ pc[c] # "done" /\ pc'[c] = "done"
       /\ reply'[c].status = "none" /\ reply'[c].err = "recovery_failed"
       => \A i \in 1..Len(head') : ~SameRequest(head'[i], req'[c])]_vars

(* Every invocation returns: the settle window ends, nobody waits for the  *)
(* lock of another call.  The calls are finitely many, so that all return  *)
(* is that none is left running.                                           *)
EveryCallReturns ==
  (\E c \in Calls : Running(c)) ~> (\A c \in Calls : ~Running(c))

(* Contention cannot starve everyone: once a validated candidate reaches   *)
(* update-ref on a current H0, the ref moves.                              *)
ContentionProgress ==
  \A c \in Calls : (pc[c] = "update" /\ head = base[c]) ~> head # base[c]
=============================================================================
