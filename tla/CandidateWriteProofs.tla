------------------------ MODULE CandidateWriteProofs ------------------------
(***************************************************************************)
(* Proofs about CandidateWrite, for any number of invocations and requests *)
(* and every combination of faults.                                        *)
(***************************************************************************)
EXTENDS CandidateWrite, TLAPS, SequenceTheorems, WellFoundedInduction

-----------------------------------------------------------------------------
(* Histories.                                                              *)

(* An idempotency lookup that succeeds returns an index of the history,    *)
(* the first one with the key.                                             *)
LEMMA FoundAtIndex ==
  ASSUME NEW h \in Commits, NEW r \in Requests, ~KeyFree(h, r)
  PROVE  /\ FoundAt(h, r) \in 1..Len(h)
         /\ key[h[FoundAt(h, r)]] = key[r]
         /\ \A j \in 1..(FoundAt(h, r) - 1) : key[h[j]] # key[r]
PROOF
  <1> DEFINE T == {i \in 1..Len(h) : key[h[i]] = key[r]}
  <1>1. Len(h) \in Nat
    BY DEF Commits
  <1>2. T \subseteq Nat /\ T # {}
    BY <1>1 DEF KeyFree
  <1>3. PICK i \in T : \A j \in T : ~(<< j, i >> \in OpToRel(<, Nat))
    <2> HIDE DEF T
    <2> QED
      BY <1>2, NatLessThanWellFounded, WFMin
  <1>4. \A j \in T : ~(j < i)
    BY <1>2, <1>3 DEF OpToRel
  <1>5. \A j \in 1..(i - 1) : key[h[j]] # key[r]
    BY <1>1, <1>4
  <1>6. \E n \in 1..Len(h) : key[h[n]] = key[r] /\ \A j \in 1..(n - 1) : key[h[j]] # key[r]
    BY <1>5
  <1> QED
    BY <1>6 DEF FoundAt

LEMMA PrefixType ==
  ASSUME NEW h \in Commits, NEW n \in 0..Len(h)
  PROVE  /\ SubSeq(h, 1, n) \in Commits
         /\ Len(SubSeq(h, 1, n)) = n
         /\ \A i \in 1..n : SubSeq(h, 1, n)[i] = h[i]
PROOF
  <1>1. \A i \in 1..n : h[i] \in Requests
    BY DEF Commits
  <1>2. n \in Int /\ n >= 0
    BY DEF Commits
  <1> QED
    BY <1>1, <1>2, SubSeqProperties DEF Commits

LEMMA AppendType ==
  ASSUME NEW h \in Commits, NEW r \in Requests
  PROVE  /\ Append(h, r) \in Commits
         /\ Len(Append(h, r)) = Len(h) + 1
         /\ \A i \in 1..Len(h) : Append(h, r)[i] = h[i]
         /\ Append(h, r)[Len(h) + 1] = r
PROOF
  BY AppendProperties DEF Commits

(* Replay accepts one more event on a history that it accepts, provided    *)
(* the key, the event ID and the path are new and the event was formed for *)
(* and reduces on that history.                                            *)
LEMMA ReplayableAppend ==
  ASSUME NEW h \in Commits, NEW r \in Requests,
         Replayable(h), KeyFree(h, r), PathFree(h, r), Admissible(h, r)
  PROVE  Replayable(Append(h, r))
PROOF
  <1> DEFINE g == Append(h, r)
  <1>0. Len(h) \in Nat
    BY DEF Commits
  <1>1. g \in Commits /\ Len(g) = Len(h) + 1
    BY AppendType
  <1>2. ASSUME NEW i \in 1..Len(g)
        PROVE  /\ KeyFree(SubSeq(g, 1, i - 1), g[i])
               /\ PathFree(SubSeq(g, 1, i - 1), g[i])
               /\ Admissible(SubSeq(g, 1, i - 1), g[i])
    <2>1. /\ i - 1 \in 0..Len(h)
          /\ i - 1 \in 0..Len(g)
      BY <1>0, <1>1
    <2>2. SubSeq(g, 1, i - 1) = SubSeq(h, 1, i - 1)
      <3>1. /\ SubSeq(g, 1, i - 1) \in Commits
            /\ Len(SubSeq(g, 1, i - 1)) = i - 1
            /\ \A j \in 1..(i - 1) : SubSeq(g, 1, i - 1)[j] = g[j]
        BY <1>1, <2>1, PrefixType
      <3>2. /\ SubSeq(h, 1, i - 1) \in Commits
            /\ Len(SubSeq(h, 1, i - 1)) = i - 1
            /\ \A j \in 1..(i - 1) : SubSeq(h, 1, i - 1)[j] = h[j]
        BY <2>1, PrefixType
      <3>3. \A j \in 1..(i - 1) : g[j] = h[j]
        BY <1>0, <2>1, AppendType
      <3> HIDE DEF g
      <3> QED
        BY <3>1, <3>2, <3>3, SeqEqual DEF Commits
    <2>3. CASE i = Len(h) + 1
      <3>1. g[i] = r
        BY <2>3, AppendType
      <3>2. SubSeq(h, 1, i - 1) = h
        BY <2>3, <1>0, SubSeqFull DEF Commits
      <3> QED
        BY <2>2, <3>1, <3>2
    <2>4. CASE i # Len(h) + 1
      <3>1. i \in 1..Len(h)
        BY <1>0, <1>1, <2>4
      <3>2. g[i] = h[i]
        BY <3>1, AppendType
      <3> QED
        BY <2>2, <3>1, <3>2 DEF Replayable
    <2> QED
      BY <2>3, <2>4
  <1> QED
    BY <1>2 DEF Replayable

-----------------------------------------------------------------------------
(* Type correctness.                                                       *)

LEMMA ResponseTypes ==
  /\ \A e \in Errors : Refuse(e) \in Response
  /\ Prepared \in Response
  /\ \A l \in {NoCommit} \cup Commits : unknown(l) \in Response
  /\ \A g \in Commits, l \in {NoCommit} \cup Commits :
       verificationFailed(g, l) \in Response
  /\ \A resp \in Response : [resp EXCEPT !.err = "cleanup_failed"] \in Response
PROOF
  BY DEF Response, Statuses, Errors, Refuse, Prepared, unknown, verificationFailed

LEMMA AcceptedResponseType ==
  ASSUME NEW h \in Commits, NEW r \in Requests, ~KeyFree(h, r),
         NEW st \in Statuses
  PROVE  responseFromAccepted(st, h, r) \in Response
PROOF
  <1>1. FoundAt(h, r) \in 0..Len(h)
    BY FoundAtIndex DEF Commits
  <1>2. SubSeq(h, 1, FoundAt(h, r)) \in Commits
    BY <1>1, PrefixType
  <1> QED
    BY <1>2 DEF responseFromAccepted, Response, Errors

LEMMA TracedType ==
  ASSUME NEW h \in Commits, NEW r \in Requests, NEW resp \in Response
  PROVE  Traced(h, r, resp) \in Response
PROOF
  <1>1. CASE Retry(h, r)
    <2>1. responseFromAccepted("already_accepted", h, r) \in Response
      BY <1>1, AcceptedResponseType DEF Retry, Statuses
    <2> QED
      BY <1>1, <2>1 DEF Traced, Retry, Conflict
  <1>2. CASE ~Retry(h, r)
    <2>1. Refuse("conflict") \in Response
      BY ResponseTypes DEF Errors
    <2> QED
      BY <1>2, <2>1 DEF Traced
  <1> QED
    BY <1>1, <1>2

LEMMA CandidateType ==
  ASSUME TypeOK, NEW c \in Calls
  PROVE  candidate(c) \in Commits
PROOF
  BY AppendType DEF TypeOK, candidate

LEMMA TypeInit == Init => TypeOK
PROOF
  <1> SUFFICES ASSUME Init PROVE TypeOK
    OBVIOUS
  <1>1. << >> \in Commits
    BY DEF Commits
  <1>2. (CHOOSE r \in Requests : TRUE) \in Requests
    BY RequestsAssumption
  <1>3. Refuse("nil") \in Response
    BY ResponseTypes DEF Errors
  <1> QED
    BY <1>1, <1>2, <1>3 DEF Init, TypeOK, Labels

(* A step of a sweep touches neither the ref nor a call.                   *)
LEMMA SweepStep ==
  ASSUME NEW s \in Sweepers, PruneBefore(s)
  PROVE  UNCHANGED << authority, locals >>
PROOF
  BY DEF PruneBefore, SweepStat, Judge, SweepUnlink, HookFails

(* The steps that no call takes for its own invocation.                    *)
Aside == (\E s \in Sweepers : PruneBefore(s)) \/ Age \/ UNCHANGED vars

LEMMA AsideStep ==
  ASSUME Aside
  PROVE  UNCHANGED << authority, locals >>
PROOF
  BY SweepStep DEF Aside, Age, vars

LEMMA RemoveBoundType ==
  ASSUME TypeOK, NEW s, NEW g, RemoveBound(s, g)
  PROVE  /\ oldBound' \subseteq bound' /\ bound' \subseteq Commits
         /\ overtaken' \subseteq Sweepers
PROOF
  BY DEF TypeOK, RemoveBound

LEMMA GiveUpType ==
  ASSUME TypeOK, NEW s \in Sweepers, GiveUpSweep(s)
  PROVE  /\ judged' \in [Sweepers -> Entries \cup {NoEntry}]
         /\ overtaken' \subseteq Sweepers
         /\ UNCHANGED entries
PROOF
  BY DEF TypeOK, GiveUpSweep

LEMMA SweepType ==
  ASSUME TypeOK, NEW s \in Sweepers, PruneBefore(s)
  PROVE  TypeOK'
PROOF
  <1>1. UNCHANGED << authority, locals >>
    BY SweepStep
  <1>2. CASE SweepStat(s)
    <2>1. Expired \subseteq Entries
      BY DEF Expired, Entries, TypeOK
    <2>2. judged' \in [Sweepers -> Entries \cup {NoEntry}]
      BY <1>2, <2>1 DEF SweepStat, Judge, TypeOK
    <2> QED
      BY <1>1, <1>2, <2>2 DEF SweepStat, Judge, authority, entries, locals, TypeOK
  <1>3. CASE SweepUnlink(s)
    <2>1. judged' \in [Sweepers -> Entries \cup {NoEntry}]
      BY <1>3 DEF SweepUnlink, TypeOK
    <2>2. /\ oldStaged' \subseteq staged' /\ staged' \subseteq Calls
          /\ oldBound' \subseteq bound' /\ bound' \subseteq Commits
          /\ overtaken' \subseteq Sweepers
      BY <1>3, RemoveBoundType DEF SweepUnlink, RemoveStage, TypeOK
    <2> QED
      BY <1>1, <2>1, <2>2 DEF authority, locals, TypeOK
  <1>4. CASE HookFails(s)
    BY <1>1, <1>4, GiveUpType DEF HookFails, authority, entries, locals, TypeOK
  <1> QED
    BY <1>2, <1>3, <1>4 DEF PruneBefore

LEMMA BeginType ==
  ASSUME TypeOK, NEW c \in Calls, Begin(c)
  PROVE  TypeOK'
PROOF
  <1> PICK r \in Requests :
        \/ PrepareRetry(c, r) \/ PrepareReject(c, r) \/ PrepareAdmit(c, r)
        \/ AcceptRetry(c, r) \/ AcceptReject(c, r) \/ AcceptAdmit(c, r)
    BY DEF Begin
  <1> USE DEF Goto, Answer, Return, Work, authority, store, entries, sweeps, Labels
  <1>1. head \in Commits /\ (\A e \in Errors : Refuse(e) \in Response)
    BY ResponseTypes DEF TypeOK
  <1>2. Retry(head, r) => responseFromAccepted("already_accepted", head, r) \in Response
    BY <1>1, AcceptedResponseType DEF Retry, Statuses
  <1>3. CASE PrepareRetry(c, r)
    BY <1>2, <1>3 DEF PrepareRetry, TypeOK
  <1>4. CASE PrepareReject(c, r)
    BY <1>1, <1>4 DEF PrepareReject, TypeOK, Errors
  <1>5. CASE PrepareAdmit(c, r)
    BY <1>5 DEF PrepareAdmit, TypeOK
  <1>6. CASE AcceptRetry(c, r)
    BY <1>2, <1>6 DEF AcceptRetry, TypeOK
  <1>7. CASE AcceptReject(c, r)
    BY <1>1, <1>7 DEF AcceptReject, TypeOK, Errors
  <1>8. CASE AcceptAdmit(c, r)
    BY <1>8 DEF AcceptAdmit, TypeOK
  <1> QED
    BY <1>3, <1>4, <1>5, <1>6, <1>7, <1>8

LEMMA PrepareType ==
  ASSUME TypeOK, NEW c \in Calls,
         \/ PrepareStage(c) \/ PrepareCommit(c) \/ PrepareBind(c)
         \/ PrepareVerify(c) \/ PrepareReconcile(c)
         \/ RecoverAfterSnapshotFailure(c)
  PROVE  TypeOK'
PROOF
  <1> USE DEF Goto, Answer, Return, authority, store, entries, sweeps, Labels
  <1>1. /\ head \in Commits /\ candidate(c) \in Commits
        /\ req[c] \in Requests /\ reply[c] \in Response
        /\ \A e \in Errors : Refuse(e) \in Response
    BY ResponseTypes, CandidateType DEF TypeOK
  <1>2. /\ unknown(NoCommit) \in Response /\ unknown(head) \in Response
        /\ Prepared \in Response
    BY <1>1, ResponseTypes
  <1>3. CASE PrepareStage(c)
    <2>1. CASE GiveUpSweep(c) /\ Return(c, Refuse("staging"))
      BY <1>1, <1>3, <2>1, GiveUpType DEF PrepareStage, Sweepers, TypeOK, Errors
    <2>2. CASE ~(GiveUpSweep(c) /\ Return(c, Refuse("staging")))
      BY <1>1, <1>3, <2>2 DEF PrepareStage, TypeOK, Errors
    <2> QED
      BY <2>1, <2>2
  <1>4. CASE PrepareCommit(c)
    BY <1>1, <1>4 DEF PrepareCommit, TypeOK, Errors
  <1>5. CASE PrepareBind(c)
    BY <1>1, <1>5 DEF PrepareBind, TypeOK, Errors
  <1>6. CASE PrepareVerify(c)
    BY <1>1, <1>6 DEF PrepareVerify, RemoveStage, TypeOK, Errors
  <1>7. CASE PrepareReconcile(c)
    <2>1. Traced(head, req[c], Refuse("stale")) \in Response
      BY <1>1, TracedType DEF Errors
    <2> QED
      BY <1>1, <1>2, <1>7, <2>1 DEF PrepareReconcile, TypeOK
  <1>8. CASE RecoverAfterSnapshotFailure(c)
    <2>1. PICK resp \in Response : ReturnUnstaged(c, resp)
      <3>1. Traced(head, req[c], reply[c]) \in Response
        BY <1>1, TracedType
      <3> QED
        BY <1>2, <1>8, <3>1 DEF RecoverAfterSnapshotFailure
    <2>2. [resp EXCEPT !.err = "cleanup_failed"] \in Response
      BY ResponseTypes
    <2> QED
      BY <1>8, <2>1, <2>2 DEF RecoverAfterSnapshotFailure, ReturnUnstaged, RemoveStage, TypeOK
  <1> QED
    BY <1>3, <1>4, <1>5, <1>6, <1>7, <1>8

LEMMA AcceptType ==
  ASSUME TypeOK, NEW c \in Calls,
         \/ AcceptOpen(c) \/ AcceptRead(c)
         \/ AcceptStale(c) \/ AcceptRecovered(c) \/ AcceptVerified(c)
         \/ Unbind(c) \/ Cleanup(c)
  PROVE  TypeOK'
PROOF
  <1> USE DEF Goto, Answer, Return, authority, store, entries, sweeps, Labels
  <1>1. /\ head \in Commits /\ candidate(c) \in Commits
        /\ req[c] \in Requests /\ reply[c] \in Response
        /\ \A e \in Errors : Refuse(e) \in Response
    BY ResponseTypes, CandidateType DEF TypeOK
  <1>2. /\ verificationFailed(candidate(c), NoCommit) \in Response
        /\ verificationFailed(candidate(c), candidate(c)) \in Response
        /\ verificationFailed(candidate(c), head) \in Response
        /\ [reply[c] EXCEPT !.err = "cleanup_failed"] \in Response
    BY <1>1, ResponseTypes
  <1>3. Retry(head, req[c]) =>
          /\ responseFromAccepted("already_accepted", head, req[c]) \in Response
          /\ responseFromAccepted("accepted", head, req[c]) \in Response
    BY <1>1, AcceptedResponseType DEF Retry, Statuses
  <1>4. GiveUpSweep(c) =>
          /\ judged' \in [Sweepers -> Entries \cup {NoEntry}]
          /\ overtaken' \subseteq Sweepers
          /\ UNCHANGED entries
    BY GiveUpType DEF Sweepers
  <1>5. CASE AcceptOpen(c)
    BY <1>1, <1>4, <1>5 DEF AcceptOpen, TypeOK, Errors
  <1>6. CASE AcceptRead(c)
    BY <1>1, <1>6 DEF AcceptRead, TypeOK, Errors
  <1>7. CASE AcceptStale(c)
    BY <1>1, <1>3, <1>7 DEF AcceptStale, TypeOK, Errors
  <1>8. CASE AcceptRecovered(c)
    BY <1>2, <1>3, <1>8 DEF AcceptRecovered, TypeOK
  <1>9. CASE AcceptVerified(c)
    BY <1>2, <1>3, <1>9 DEF AcceptVerified, TypeOK
  <1>10. CASE Unbind(c)
    <2>1. /\ oldBound' \subseteq bound' /\ bound' \subseteq Commits
          /\ overtaken' \subseteq Sweepers
      BY <1>10, RemoveBoundType DEF Unbind, TypeOK
    <2> QED
      BY <1>2, <1>10, <2>1 DEF Unbind, TypeOK
  <1>11. CASE Cleanup(c)
    <2>1. /\ oldStaged' \subseteq staged' /\ staged' \subseteq Calls
          /\ oldBound' \subseteq bound' /\ bound' \subseteq Commits
          /\ judged' \in [Sweepers -> Entries \cup {NoEntry}]
          /\ overtaken' \subseteq Sweepers
      BY <1>4, <1>11, RemoveBoundType DEF Cleanup, TypeOK
    <2> QED
      BY <1>2, <1>11, <2>1 DEF Cleanup, TypeOK
  <1> QED
    BY <1>5, <1>6, <1>7, <1>8, <1>9, <1>10, <1>11

LEMMA CasType ==
  ASSUME TypeOK, NEW c \in Calls,
         \/ CasCheck(c) \/ UpdateRefLock(c) \/ UpdateRefPublish(c)
         \/ UpdateRefKilled(c) \/ CasVerify(c) \/ CasRecover(c)
         \/ Crash(c) \/ OrphanPublish(c)
  PROVE  TypeOK'
PROOF
  <1> USE DEF Goto, Answer, Return, authority, store, entries, sweeps, Labels
  <1>1. /\ candidate(c) \in Commits
        /\ \A e \in Errors : Refuse(e) \in Response
    BY ResponseTypes, CandidateType
  <1>2. /\ unknown(NoCommit) \in Response
        /\ verificationFailed(candidate(c), NoCommit) \in Response
    BY <1>1, ResponseTypes
  <1>3. CASE CasCheck(c)
    BY <1>1, <1>3 DEF CasCheck, TypeOK, Errors
  <1>4. CASE UpdateRefLock(c)
    BY <1>4 DEF UpdateRefLock, TypeOK
  <1>5. CASE UpdateRefPublish(c)
    BY <1>1, <1>5 DEF UpdateRefPublish, TypeOK
  <1>6. CASE UpdateRefKilled(c)
    BY <1>6 DEF UpdateRefKilled, TypeOK
  <1>7. CASE CasVerify(c)
    BY <1>2, <1>7 DEF CasVerify, TypeOK
  <1>8. CASE CasRecover(c)
    BY <1>2, <1>8 DEF CasRecover, TypeOK
  <1>9. CASE Crash(c)
    BY <1>9 DEF Crash, TypeOK
  <1>10. CASE OrphanPublish(c)
    BY <1>1, <1>10 DEF OrphanPublish, TypeOK
  <1> QED
    BY <1>3, <1>4, <1>5, <1>6, <1>7, <1>8, <1>9, <1>10

LEMMA TypeNext == TypeOK /\ [Next]_vars => TypeOK'
PROOF
  <1> SUFFICES ASSUME TypeOK, [Next]_vars PROVE TypeOK'
    OBVIOUS
  <1>1. ASSUME NEW c \in Calls, Begin(c) \/ Step(c) \/ Crash(c) \/ OrphanPublish(c)
        PROVE  TypeOK'
    BY <1>1, BeginType, PrepareType, AcceptType, CasType DEF Step
  <1>2. CASE Age
    BY <1>2 DEF Age, authority, sweeps, locals, TypeOK
  <1>3. CASE \E s \in Sweepers : PruneBefore(s)
    BY <1>3, SweepType
  <1>4. CASE UNCHANGED vars
    BY <1>4 DEF vars, authority, store, entries, sweeps, locals, TypeOK
  <1> QED
    BY <1>1, <1>2, <1>3, <1>4 DEF Next

(* Type correctness, for any set of calls, requests and faults: the ref    *)
(* and every snapshot are commits, an entry past retention is an entry,    *)
(* and a call always has a response of the API.                            *)
THEOREM TypeCorrect == Spec => []TypeOK
PROOF
  BY TypeInit, TypeNext, PTL DEF Spec

-----------------------------------------------------------------------------
(* The inductive invariant behind HeadReplays.  HeadReplays alone is not   *)
(* inductive: what the moving step appends was checked long before, on a   *)
(* snapshot, and is only right because the snapshot is still the head.     *)

(* The calls that have passed the checks of acceptance, stage by stage.    *)
Opening == {"open", "read", "cas", "update", "locked", "orphan"}
Opened  == Opening \ {"open"}
Checked == Opened \ {"read"}
Holding == {"locked", "orphan"}

(* An update-ref that holds the lock compared its old value under it, and  *)
(* nobody else moves the ref before it lets go.                            *)
LockInv ==
  \A c \in Calls : pc[c] \in Holding => refLock = c /\ head = base[c]

(* What each stage of acceptance has established about its snapshot.       *)
SnapshotInv ==
  \A c \in Calls :
    /\ pc[c] \in Opening => KeyFree(base[c], req[c])
    /\ pc[c] \in Opened  => candidate(c) \in objects
    /\ pc[c] \in Checked => Admissible(base[c], req[c])

(* PrepareEventCommit adds a path that its parent does not have.           *)
ObjectsInv ==
  \A h \in Commits, r \in Requests : Append(h, r) \in objects => PathFree(h, r)

IInv == TypeOK /\ HeadReplays /\ LockInv /\ SnapshotInv /\ ObjectsInv

(* A step that does not touch the ref, its lock, the object store or the   *)
(* handle of a call, and leads out of acceptance, keeps the invariant.     *)
LEMMA QuietStep ==
  ASSUME IInv, TypeOK', NEW c \in Calls, NEW l,
         pc' = [pc EXCEPT ![c] = l], l \notin Opening,
         UNCHANGED << head, refLock, objects, req, base >>
  PROVE  IInv'
PROOF
  BY DEF IInv, TypeOK, HeadReplays, LockInv, SnapshotInv, ObjectsInv, candidate,
         Opening, Opened, Checked, Holding

LEMMA InvBegin ==
  ASSUME IInv, TypeOK', NEW c \in Calls, Begin(c)
  PROVE  IInv'
PROOF
  <1> PICK r \in Requests :
        \/ PrepareRetry(c, r) \/ PrepareReject(c, r) \/ PrepareAdmit(c, r)
        \/ AcceptRetry(c, r) \/ AcceptReject(c, r) \/ AcceptAdmit(c, r)
    BY DEF Begin
  <1>1. PICK l : /\ pc' = [pc EXCEPT ![c] = l]
                 /\ l \in {"cleanup", "done", "stage", "open"}
                 /\ l = "open" => KeyFree(head, r)
                 /\ Work(c, r, head)
                 /\ UNCHANGED authority
    BY DEF PrepareRetry, PrepareReject, PrepareAdmit, AcceptRetry, AcceptReject,
           AcceptAdmit, Goto, Return, Work
  <1> QED
    BY <1>1 DEF Work, authority, IInv, TypeOK, HeadReplays, LockInv, SnapshotInv,
           ObjectsInv, candidate, Opening, Opened, Checked, Holding

(* The steps after which a call is not, or no longer, in acceptance.       *)
Quiet(c) ==
  \/ PrepareStage(c) \/ PrepareBind(c) \/ PrepareVerify(c) \/ PrepareReconcile(c)
  \/ RecoverAfterSnapshotFailure(c)
  \/ UpdateRefKilled(c) \/ CasVerify(c) \/ CasRecover(c)
  \/ AcceptStale(c) \/ AcceptRecovered(c) \/ AcceptVerified(c)
  \/ Unbind(c) \/ Cleanup(c)

LEMMA InvQuiet ==
  ASSUME IInv, TypeOK', NEW c \in Calls, Quiet(c)
  PROVE  IInv'
PROOF
  <1>1. PICK l : /\ pc' = [pc EXCEPT ![c] = l] /\ l \notin Opening
                 /\ UNCHANGED << head, refLock, objects, req, base >>
    <2> USE DEF Goto, Return, authority, Opening
    <2>1. CASE PrepareStage(c) \/ PrepareBind(c) \/ PrepareVerify(c) \/ PrepareReconcile(c)
      BY <2>1 DEF PrepareStage, PrepareBind, PrepareVerify, PrepareReconcile
    <2>2. CASE RecoverAfterSnapshotFailure(c)
      BY <2>2 DEF RecoverAfterSnapshotFailure, ReturnUnstaged
    <2>3. CASE UpdateRefKilled(c) \/ CasVerify(c) \/ CasRecover(c)
      BY <2>3 DEF UpdateRefKilled, CasVerify, CasRecover
    <2>4. CASE AcceptStale(c) \/ AcceptRecovered(c) \/ AcceptVerified(c)
      BY <2>4 DEF AcceptStale, AcceptRecovered, AcceptVerified
    <2>5. CASE Unbind(c) \/ Cleanup(c)
      BY <2>5 DEF Unbind, Cleanup
    <2> QED
      BY <2>1, <2>2, <2>3, <2>4, <2>5 DEF Quiet
  <1> QED
    BY <1>1, QuietStep

(* A new commit object adds a path its parent, the current head, lacks.    *)
LEMMA InvCommit ==
  ASSUME IInv, TypeOK', NEW c \in Calls, PrepareCommit(c)
  PROVE  IInv'
PROOF
  <1> USE DEF Goto, Answer, Return
  <1>1. CASE objects' = objects
    <2>1. PICK l : /\ pc' = [pc EXCEPT ![c] = l] /\ l \notin Opening
      BY DEF PrepareCommit, Opening
    <2> QED
      BY <1>1, <2>1, QuietStep DEF PrepareCommit
  <1>2. CASE objects' # objects
    <2>1. PICK l \in {"bind", "done"} :
            /\ PathFree(base[c], req[c])
            /\ objects' = objects \cup {candidate(c)}
            /\ pc' = [pc EXCEPT ![c] = l]
            /\ UNCHANGED << head, refLock, req, base >>
      BY <1>2 DEF PrepareCommit
    <2>2. base[c] \in Commits /\ req[c] \in Requests
      BY DEF IInv, TypeOK
    <2>3. ASSUME NEW h \in Commits, NEW r \in Requests, Append(h, r) = candidate(c)
          PROVE  h = base[c] /\ r = req[c]
      BY <2>2, <2>3, AppendInjective DEF candidate, Commits
    <2>4. ObjectsInv'
      BY <2>1, <2>3 DEF IInv, ObjectsInv
    <2>5. (HeadReplays /\ LockInv /\ SnapshotInv)'
      BY <2>1 DEF IInv, TypeOK, HeadReplays, LockInv, SnapshotInv, candidate,
                  Opening, Opened, Checked, Holding
    <2> QED
      BY <2>4, <2>5 DEF IInv
  <1> QED
    BY <1>1, <1>2

(* Acceptance advances by one stage, on facts about its snapshot.          *)
LEMMA InvAccept ==
  ASSUME IInv, TypeOK', NEW c \in Calls,
         \/ AcceptOpen(c) \/ AcceptRead(c) \/ CasCheck(c)
         \/ UpdateRefLock(c) \/ Crash(c)
  PROVE  IInv'
PROOF
  <1> USE DEF Goto, Answer, Return, authority, IInv, TypeOK, HeadReplays, LockInv,
              SnapshotInv, ObjectsInv, candidate, Opening, Opened, Checked, Holding
  <1>1. CASE AcceptOpen(c)
    BY <1>1 DEF AcceptOpen, preflightCandidateForAcceptance
  <1>2. CASE AcceptRead(c)
    BY <1>2 DEF AcceptRead, validateCandidateForAcceptance
  <1>3. CASE CasCheck(c)
    BY <1>3 DEF CasCheck
  <1>4. CASE UpdateRefLock(c)
    BY <1>4, CallsAssumption DEF UpdateRefLock
  <1>5. CASE Crash(c)
    BY <1>5 DEF Crash
  <1> QED
    BY <1>1, <1>2, <1>3, <1>4, <1>5

(* The ref moves: the candidate of the lock holder extends the head, and   *)
(* no other call holds the lock.                                           *)
LEMMA InvPublish ==
  ASSUME IInv, TypeOK', NEW c \in Calls, UpdateRefPublish(c) \/ OrphanPublish(c)
  PROVE  IInv' /\ head' = Append(head, req[c])
PROOF
  <1>1. /\ refLock = c /\ head = base[c]
        /\ KeyFree(base[c], req[c]) /\ Admissible(base[c], req[c])
        /\ candidate(c) \in objects
    BY DEF UpdateRefPublish, OrphanPublish, IInv, LockInv, SnapshotInv,
           Opening, Opened, Checked, Holding
  <1>2. base[c] \in Commits /\ req[c] \in Requests /\ head \in Commits
    BY DEF IInv, TypeOK
  <1>3. PathFree(base[c], req[c])
    BY <1>1, <1>2 DEF IInv, ObjectsInv, candidate
  <1>4. head' = Append(head, req[c])
    BY <1>1 DEF UpdateRefPublish, OrphanPublish, candidate
  <1>5. HeadReplays'
    BY <1>1, <1>2, <1>3, <1>4, ReplayableAppend DEF IInv, HeadReplays
  <1>6. PICK l \in {"updated", "failed", "crashed"} :
          /\ pc' = [pc EXCEPT ![c] = l]
          /\ UNCHANGED << objects, req, base >>
    BY DEF UpdateRefPublish, OrphanPublish, Goto
  <1>7. (LockInv /\ SnapshotInv)'
    BY <1>1, <1>6 DEF IInv, TypeOK, LockInv, SnapshotInv, candidate,
                      Opening, Opened, Checked, Holding
  <1>8. ObjectsInv'
    BY <1>6 DEF IInv, ObjectsInv
  <1> QED
    BY <1>4, <1>5, <1>7, <1>8 DEF IInv

LEMMA InvNext == IInv /\ [Next]_vars => IInv'
PROOF
  <1> SUFFICES ASSUME IInv, [Next]_vars PROVE IInv'
    OBVIOUS
  <1>1. TypeOK'
    BY TypeNext DEF IInv
  <1>2. ASSUME NEW c \in Calls, Begin(c) \/ Step(c) \/ Crash(c) \/ OrphanPublish(c)
        PROVE  IInv'
    BY <1>1, <1>2, InvBegin, InvQuiet, InvCommit, InvAccept, InvPublish
       DEF Step, Quiet
  <1>3. CASE Aside
    <2>1. UNCHANGED << authority, locals >>
      BY <1>3, AsideStep
    <2> QED
      BY <1>1, <2>1 DEF authority, locals, IInv,
            HeadReplays, LockInv, SnapshotInv, ObjectsInv, candidate
  <1> QED
    BY <1>2, <1>3 DEF Next, Aside

LEMMA InvInit == Init => IInv
PROOF
  <1> SUFFICES ASSUME Init PROVE IInv
    OBVIOUS
  <1>1. TypeOK
    BY TypeInit
  <1>2. HeadReplays
    BY DEF Init, HeadReplays, Replayable
  <1> QED
    BY <1>1, <1>2 DEF Init, IInv, LockInv, SnapshotInv, ObjectsInv,
                      Opening, Opened, Checked, Holding

LEMMA Invariance == Spec => []IInv
PROOF
  BY InvInit, InvNext, PTL DEF Spec

(* Whatever is killed, crashes or fails, and however many Prepares and     *)
(* Accepts race, the authoritative ref only names histories that the full  *)
(* Replay accepts.                                                         *)
THEOREM HeadAlwaysReplays == Spec => []HeadReplays
PROOF
  BY Invariance, PTL DEF IInv

(* Nothing but a publishing update-ref writes the ref.                     *)
LEMMA OnlyPublishMoves ==
  ASSUME [Next]_vars, head' # head
  PROVE  \E c \in Calls : UpdateRefPublish(c) \/ OrphanPublish(c)
PROOF
  <1> USE DEF authority
  <1>1. ASSUME NEW c \in Calls, Begin(c)
        PROVE  head' = head
    BY <1>1 DEF Begin, PrepareRetry, PrepareReject, PrepareAdmit,
                AcceptRetry, AcceptReject, AcceptAdmit
  <1>2. ASSUME NEW c \in Calls,
               \/ PrepareStage(c) \/ PrepareCommit(c) \/ PrepareBind(c)
               \/ PrepareVerify(c) \/ PrepareReconcile(c)
               \/ RecoverAfterSnapshotFailure(c) \/ Unbind(c) \/ Cleanup(c)
        PROVE  head' = head
    BY <1>2 DEF PrepareStage, PrepareCommit, PrepareBind, PrepareVerify,
                PrepareReconcile, RecoverAfterSnapshotFailure, Unbind, Cleanup
  <1>3. ASSUME NEW c \in Calls,
               \/ AcceptOpen(c) \/ AcceptRead(c) \/ AcceptStale(c)
               \/ AcceptRecovered(c) \/ AcceptVerified(c)
        PROVE  head' = head
    BY <1>3 DEF AcceptOpen, AcceptRead, AcceptStale, AcceptRecovered, AcceptVerified
  <1>4. ASSUME NEW c \in Calls,
               \/ CasCheck(c) \/ UpdateRefLock(c) \/ UpdateRefKilled(c)
               \/ CasVerify(c) \/ CasRecover(c) \/ Crash(c)
        PROVE  head' = head
    BY <1>4 DEF CasCheck, UpdateRefLock, UpdateRefKilled, CasVerify, CasRecover, Crash
  <1>5. ASSUME Aside
        PROVE  head' = head
    BY <1>5, AsideStep
  <1> QED
    BY <1>1, <1>2, <1>3, <1>4, <1>5 DEF Next, Step, Aside

(* Every move of the ref appends exactly one event: no accepted commit is  *)
(* ever replaced or dropped, by a late update-ref of a dead process either.*)
THEOREM AuthorityOnlyAppends == Spec => AuthorityAppendOnly
PROOF
  <1>1. IInv /\ [Next]_vars => [\E r \in Requests : head' = Append(head, r)]_head
    <2> SUFFICES ASSUME IInv, [Next]_vars, head' # head
                 PROVE  \E r \in Requests : head' = Append(head, r)
      OBVIOUS
    <2>1. PICK c \in Calls : UpdateRefPublish(c) \/ OrphanPublish(c)
      BY OnlyPublishMoves
    <2>2. TypeOK'
      BY TypeNext DEF IInv
    <2> QED
      BY <2>1, <2>2, InvPublish DEF IInv, TypeOK
  <1> QED
    BY <1>1, Invariance, PTL DEF Spec, AuthorityAppendOnly
=============================================================================
