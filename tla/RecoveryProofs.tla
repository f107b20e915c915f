--------------------------- MODULE RecoveryProofs ---------------------------
(***************************************************************************)
(* What is proved through a LedgerReader about the ledger behind it:       *)
(* recovery proofs, taken concurrently (internal/ledger/recovery_proof.go),*)
(* the load proof (internal/ledger/load_resource.go over                   *)
(* internal/loadproof/proof.go), the verification of a restored copy       *)
(* (internal/restoreproof, internal/recoveryproof), and fork cases between *)
(* the restored copy and a primary that may have gone on                   *)
(* (internal/recovery).                                                    *)
(*                                                                         *)
(* A recovery proof fingerprints one replay, so it is modelled by the      *)
(* commit that was replayed.  A resource snapshot has one metric that is   *)
(* always there (heap, goroutines) and one that may be unavailable (open   *)
(* handles).                                                               *)
(***************************************************************************)
EXTENDS LedgerReader, RecoveryFork

CONSTANTS Scenarios,    \* tasks, and what happens around them
          Base,         \* the call of the coordinating goroutine
          Snapshots,    \* resource snapshots that may be observed
          Envelopes,    \* declared load envelopes
          Provenances   \* restore provenance documents, without the proof digest

Workers == Calls \ {Base}

ASSUME CallsAssumption == Base \in Calls /\ IsFiniteSet(Calls)
ASSUME ScenarioAssumption ==
  \A s \in Scenarios :
    /\ s.callers \subseteq Calls /\ s.changes \subseteq Changes
    /\ s.moves \in 0..MaxMoves /\ s.ledger \in Dirs
    /\ s.ref \in [Dirs -> Seq(Changes)] /\ \A d \in Dirs : Len(s.ref[d]) <= MaxLen
    /\ s.primary \in Seq(Changes)
ASSUME SnapshotAssumption ==
  Snapshots \subseteq [use : Nat, handles : Nat, available : BOOLEAN]
ASSUME EnvelopeAssumption ==
  \A e \in Envelopes :
    /\ {e.iterations, e.peakUse, e.settledUse, e.peakHandles, e.settledHandles} \subseteq Nat
    /\ e.required \in BOOLEAN
ASSUME NoneAssumption == None \notin Nat

VARIABLES
  scenario,
  cancelled,   \* the context of the load proof is cancelled
  run,         \* the load proof: its phase, then its verdict
  envelope, baseline, before, peak, after,
  gap,         \* some sample lacked the open-handle metric
  iter,        \* iter[w]: iterations that worker w completed; None: it left
  completed,   \* the shared counter of completed operations
  firstErr,    \* a worker reported an error
  ops, seen,   \* history: the proofs that were compared, the samples taken
  primary,     \* the ledger that was backed up
  captured,    \* the recovery proof taken of it at backup time
  restore,     \* the verification of the restored copy: phase, then verdict
  original,    \* the recovery proof given to it
  fork         \* the fork case between primary and restored copy

load     == << cancelled, run, envelope, baseline, before, peak, after, gap, iter,
               completed, firstErr, ops, seen >>
restores == << primary, captured, restore, original >>
vars     == << scenario, readerVars, load, restores, fork >>

Phases   == {"none", "baseline", "declared", "working", "draining", "settling",
             "baseline_failed", "invalid", "unavailable"}
Verdicts == {"passed", "exceeded", "workload_failed"}
Restores == {"none", "idle", "proving", "proof_invalid", "provenance_invalid",
             "provenance_mismatch", "unproved", "mismatch", "equivalent"}

(* What happens around a task, until a load proof has its verdict.         *)
May(what) == what \in scenario.env /\ run \notin Verdicts

-----------------------------------------------------------------------------
(* ProveReadLoad: the baseline, then Run.                                  *)

BaselineDone ==
  /\ run = "baseline" /\ pc[Base] \in {"done", "failed"}
  /\ run' = IF pc[Base] = "done" THEN "declared" ELSE "baseline_failed"
  /\ baseline' = head[Base]
  /\ UNCHANGED << readerVars, cancelled, envelope, before, peak, after, gap, iter,
                  completed, firstErr, ops, seen, restores, fork >>

(* Envelope.Validate; the workers of the model bound the declared ones.    *)
ValidEnvelope(e) ==
  /\ e.workers \subseteq Workers /\ e.workers # {} /\ e.iterations > 0
  /\ e.settledUse <= e.peakUse /\ e.settledHandles <= e.peakHandles

(* The snapshot before the work; a required metric that is missing ends    *)
(* the run at once.                                                        *)
RunBegin(e, s) ==
  /\ run = "declared"
  /\ envelope' = e
  /\ run' = IF ~ValidEnvelope(e) THEN "invalid"
            ELSE IF e.required /\ ~s.available THEN "unavailable" ELSE "working"
  /\ before' = s /\ peak' = s /\ gap' = ~s.available /\ seen' = {s}
  /\ UNCHANGED << readerVars, cancelled, baseline, after, iter, completed, firstErr,
                  ops, restores, fork >>

Working(w) == run = "working" /\ w \in envelope.workers /\ iter[w] \in 0..(envelope.iterations - 1)

(* A worker looks at the context, then replays.                            *)
WorkerCall(w) ==
  /\ Working(w) /\ ~cancelled
  /\ ReplayBegin(w)
  /\ UNCHANGED << load, restores, fork >>

WorkerLeaves(w) ==
  /\ firstErr' = TRUE
  /\ iter' = [iter EXCEPT ![w] = None]
  /\ UNCHANGED << cancelled, run, envelope, baseline, before, peak, after, gap,
                  completed, ops, seen >>

WorkerCancelled(w) ==
  /\ Working(w) /\ cancelled /\ pc[w] = "idle"
  /\ WorkerLeaves(w)
  /\ UNCHANGED << readerVars, restores, fork >>

(* Variant: the counter is read and written without the lock.              *)
CountUnlocked(n) == {n, n + 1}

(* completed++ under resultMu                                              *)
Count(n) == {n + 1}

(* Variant: a proof that differs from the baseline is only a failure when  *)
(* its ledger is shorter.                                                  *)
ReproducesLength(proof) == proof # None /\ Len(proof) >= Len(baseline)

(* CompareRecoveryProofs                                                   *)
Reproduces(proof) == proof = baseline

WorkerCompares(w) ==
  /\ Working(w) /\ pc[w] \in {"done", "failed"}
  /\ \/ /\ pc[w] = "done" /\ Reproduces(head[w])
        /\ completed' \in Count(completed)
        /\ iter' = [iter EXCEPT ![w] = @ + 1]
        /\ ops' = ops \cup {<< w, iter[w], head[w] >>}
        /\ UNCHANGED << cancelled, run, envelope, baseline, before, peak, after, gap,
                        firstErr, seen >>
     \/ /\ pc[w] = "failed" \/ ~Reproduces(head[w])
        /\ WorkerLeaves(w)
  /\ Goto(w, "idle") /\ head' = [head EXCEPT ![w] = None]
  /\ raced' = [raced EXCEPT ![w] = FALSE] /\ since' = [since EXCEPT ![w] = 0]
  /\ UNCHANGED << fs, ref, root, restores, fork >>

(* Variant: an available sample clears the memory of a missing one.        *)
UpdatePeakForgets(s) ==
  /\ gap' = ~s.available
  /\ seen' = seen \cup {s}
  /\ peak' = s

(* updatePeak, under peakMu                                                *)
UpdatePeak(s) ==
  /\ gap' = (gap \/ ~s.available)
  /\ seen' = seen \cup {s}
  /\ peak' = [use |-> IF s.use > peak.use THEN s.use ELSE peak.use,
              handles |-> IF s.available /\ (~peak.available \/ s.handles > peak.handles)
                          THEN s.handles ELSE peak.handles,
              available |-> peak.available \/ s.available]

(* The ticker of the monitor goroutine.                                    *)
Sample(s) ==
  /\ run \in {"working", "draining"}
  /\ UpdatePeak(s)
  /\ UNCHANGED << readerVars, cancelled, run, envelope, baseline, before, after, iter,
                  completed, firstErr, ops, restores, fork >>

(* workers.Wait, then the monitor is told to stop.                         *)
WorkersDone ==
  /\ run = "working"
  /\ \A w \in envelope.workers : iter[w] \in {None, envelope.iterations}
  /\ run' = "draining"
  /\ UNCHANGED << readerVars, cancelled, envelope, baseline, before, peak, after, gap,
                  iter, completed, firstErr, ops, seen, restores, fork >>

MonitorDone(s) ==
  /\ run = "draining"
  /\ UpdatePeak(s)
  /\ run' = "settling"
  /\ UNCHANGED << readerVars, cancelled, envelope, baseline, before, after, iter,
                  completed, firstErr, ops, restores, fork >>

WithinGrowth(from, to, limit) == to <= from + limit

evaluate(e, b, p, a, missing) ==
  /\ e.required => ~missing /\ b.available /\ p.available /\ a.available
  /\ WithinGrowth(b.use, p.use, e.peakUse) /\ WithinGrowth(b.use, a.use, e.settledUse)
  /\ b.available /\ p.available /\ a.available =>
       /\ WithinGrowth(b.handles, p.handles, e.peakHandles)
       /\ WithinGrowth(b.handles, a.handles, e.settledHandles)

(* The settled snapshot is sampled too, and the evidence is judged.        *)
Settle(s) ==
  /\ run = "settling"
  /\ UpdatePeak(s)
  /\ after' = s
  /\ run' = IF firstErr \/ completed # Cardinality(envelope.workers) * envelope.iterations
            THEN "workload_failed"
            ELSE IF evaluate(envelope, before, peak', s, gap') THEN "passed" ELSE "exceeded"
  /\ UNCHANGED << readerVars, cancelled, envelope, baseline, before, iter, completed,
                  firstErr, ops, restores, fork >>

Coordinate ==
  \/ BaselineDone \/ WorkersDone
  \/ \E s \in Snapshots : MonitorDone(s) \/ Settle(s) \/ \E e \in Envelopes : RunBegin(e, s)

Work(w) == WorkerCall(w) \/ WorkerCancelled(w) \/ WorkerCompares(w)

Cancel ==
  /\ May("cancel") /\ ~cancelled
  /\ cancelled' = TRUE
  /\ UNCHANGED << readerVars, run, envelope, baseline, before, peak, after, gap, iter,
                  completed, firstErr, ops, seen, restores, fork >>

-----------------------------------------------------------------------------
(* Verify, on the Reader of a restored copy.                               *)

(* The primary's operator takes a recovery proof with the backup.          *)
Capture ==
  /\ captured = None
  /\ captured' = primary
  /\ UNCHANGED << readerVars, load, primary, restore, original, fork >>

(* Provenance.Validate: the document is intact, its domains differ, its    *)
(* times are in order and its evidence references are given once each.     *)
ValidProvenance(p) ==
  /\ p.intact
  /\ p.primaryDomain # p.secondaryDomain
  /\ p.capturedAt <= p.restoredAt
  /\ p.evidence # << >>
  /\ \A i \in 1..(Len(p.evidence) - 1) : p.evidence[i] < p.evidence[i + 1]

(* recoveryproof.Validate                                                  *)
ValidRecoveryProof(proof) == proof # None /\ Len(proof) > 0

(* digest is the proof of which the provenance names the digest.           *)
VerifyBegin(proof, p, digest) ==
  /\ restore = "idle"
  /\ restore' = IF ~ValidRecoveryProof(proof) THEN "proof_invalid"
                ELSE IF ~ValidProvenance(p) THEN "provenance_invalid"
                ELSE IF digest # proof THEN "provenance_mismatch" ELSE "proving"
  /\ original' = proof
  /\ UNCHANGED << readerVars, load, primary, captured, fork >>

(* Variant: a restored copy that has gone on from the original passes.     *)
EquivalentOrNewer(proof, restored) == IsPrefix(proof, restored)

Equivalent(proof, restored) == proof = restored

VerifyEnd ==
  /\ restore = "proving" /\ pc[Base] \in {"done", "failed"}
  /\ restore' = IF pc[Base] = "failed" THEN "unproved"
                ELSE IF Equivalent(original, head[Base]) THEN "equivalent" ELSE "mismatch"
  /\ UNCHANGED << readerVars, load, primary, captured, original, fork >>

(* The primary goes on after the backup.                                   *)
PrimaryAdvances(change) ==
  /\ Len(primary) < MaxLen
  /\ primary' = Append(primary, change)
  /\ UNCHANGED << readerVars, load, captured, restore, original, fork >>

(* Reader.History: the identities of the commits up to one.                *)
IDs(commit) == [n \in 1..Len(commit) |-> SubSeq(commit, 1, n)]

OpenCase ==
  /\ fork = None /\ opened # None
  /\ ForkRequired(IDs(primary), IDs(ref[opened]))
  /\ fork' = OpenForkCase(IDs(primary), IDs(ref[opened]))
  /\ UNCHANGED << readerVars, load, restores >>

Candidates == [selected : {fork.fork.headA, fork.fork.headB, << >>},
               rejected : {fork.fork.headA, fork.fork.headB, << >>},
               signed : BOOLEAN, preserved : BOOLEAN]

ResolveCase ==
  /\ fork # None
  /\ \E candidate \in Candidates :
       /\ ValidateResolution(fork, candidate)
       /\ fork' = [status |-> "resolved", fork |-> fork.fork]
  /\ UNCHANGED << readerVars, load, restores >>

-----------------------------------------------------------------------------
(* Who calls: any caller of ProveRecovery, the coordinator of a load proof *)
(* for its baseline, Verify.                                               *)
Prove(c) ==
  /\ \/ scenario.task = "prove" /\ c \in scenario.callers
     \/ c = Base /\ run = "baseline"
     \/ c = Base /\ restore = "proving"
  /\ ReplayBegin(c)
  /\ UNCHANGED << load, restores, fork >>

ReplayStep(c) ==
  /\ \/ checkRepositoryLayoutSafety(c) \/ HeadRoot(c) \/ checkAuthoritativeRefSafety(c)
     \/ holdRepositoryRoot(c) \/ RunHead(c) \/ RunRead(c)
  /\ UNCHANGED << load, restores, fork >>

ReaderStep ==
  /\ \/ NewOpen \/ NewCompare \/ CloseHandle
  /\ UNCHANGED << load, restores, fork >>

Environment ==
  \/ Cancel
  \/ May("backup") /\ Capture
  \/ May("fork") /\ (OpenCase \/ ResolveCase)
  \/ \E x \in scenario.changes : May("primary") /\ PrimaryAdvances(x)
  \/ /\ UNCHANGED << load, restores, fork >>
     /\ \/ May("close") /\ CloseLock
        \/ May("io") /\ \E c \in Calls : RunFails(c)
        \/ May("swap") /\ (MoveAway \/ \E d \in Dirs : MoveIn(d) \/ Create(d))
        \/ May("tamper") /\ \E d \in Dirs : \E how \in {"ref", "store"} : Tamper(d, how)
        \/ May("advance") /\ \E x \in scenario.changes : \E d \in linked : Advance(d, x)

Step ==
  \/ ReaderStep
  \/ \E c \in Calls : Prove(c) \/ ReplayStep(c)
  \/ Coordinate
  \/ \E w \in Workers : Work(w)
  \/ \E s \in Snapshots : Sample(s)
  \/ \E proof \in {captured, primary, << >>} : \E p \in Provenances :
       \E digest \in {captured, primary} : VerifyBegin(proof, p, digest)
  \/ VerifyEnd
  \/ Environment

Init ==
  /\ scenario \in Scenarios
  /\ ReaderInit(scenario.ledger, scenario.ref, scenario.moves)
  /\ cancelled = FALSE
  /\ run = IF scenario.task = "load" THEN "baseline" ELSE "none"
  /\ envelope = None /\ baseline = None /\ before = None /\ peak = None /\ after = None
  /\ gap = FALSE /\ iter = [w \in Workers |-> 0] /\ completed = 0 /\ firstErr = FALSE
  /\ ops = {} /\ seen = {}
  /\ primary = scenario.primary /\ captured = None
  /\ restore = IF scenario.task = "restore" THEN "idle" ELSE "none"
  /\ original = None /\ fork = None

Next == Step /\ UNCHANGED scenario

Spec == Init /\ [][Next]_vars

(* The goroutines of the program run; whoever moves directories, commits,  *)
(* cancels or closes need not.                                             *)
FairSpec ==
  /\ Spec
  /\ WF_vars(ReaderStep /\ UNCHANGED scenario)
  /\ \A c \in Calls : WF_vars((Prove(c) \/ ReplayStep(c)) /\ UNCHANGED scenario)
  /\ \A w \in Workers : WF_vars(Work(w) /\ UNCHANGED scenario)
  /\ WF_vars(Coordinate /\ UNCHANGED scenario)
  /\ WF_vars(VerifyEnd /\ UNCHANGED scenario)

-----------------------------------------------------------------------------
(* Every variable keeps its type, and the root handle is open exactly      *)
(* while there is a Reader to use it: no way out of New or Close leaks it. *)
TypeOK ==
  /\ ReaderTypeOK
  /\ scenario \in Scenarios /\ cancelled \in BOOLEAN
  /\ run \in Phases \cup Verdicts
  /\ envelope \in Envelopes \cup {None}
  /\ {before, after} \subseteq Snapshots \cup {None}
  /\ gap \in BOOLEAN /\ firstErr \in BOOLEAN /\ completed \in Nat
  /\ iter \in [Workers -> Nat \cup {None}]
  /\ primary \in Seq(Changes) /\ captured \in Seq(Changes) \cup {None}
  /\ restore \in Restores

(* A recovery proof describes the repository that was opened, at a commit  *)
(* its ref had while the call ran, although the path is moved, deleted and *)
(* recreated meanwhile and a new directory may be given the number of a    *)
(* deleted one (holdRepositoryRoot); the exception is a change in the      *)
(* window between a check and the command it was made for.                 *)
ProofDescribesOpened ==
  \A c \in Calls :
    pc[c] = "done" /\ ~raced[c] =>
      IsPrefix(head[c], ref[opened]) /\ Len(head[c]) >= since[c]

(* The verdict of a load proof is exactly what happened: it passes if and  *)
(* only if every declared operation was carried out and reproduced the     *)
(* baseline, no sample lacked a required metric, and no sample, nor the    *)
(* settled one, exceeded its limit (Run, evaluate).                        *)
LoadVerdictTrue ==
  run \in Verdicts =>
    (run = "passed" <=>
       /\ ops = envelope.workers \X (0..(envelope.iterations - 1)) \X {baseline}
       /\ envelope.required => \A s \in seen : s.available
       /\ \A s \in seen : s.use <= before.use + envelope.peakUse
       /\ after.use <= before.use + envelope.settledUse
       /\ before.available /\ after.available =>
            /\ \A s \in seen : s.available =>
                 s.handles <= before.handles + envelope.peakHandles
            /\ after.handles <= before.handles + envelope.settledHandles)

(* A restored copy that Verify reports equivalent held, while it was       *)
(* verified, the history of which the recovery proof was taken: whatever   *)
(* was captured is there and nothing else was (CompareRecoveryProofs).     *)
RestoreTrue ==
  restore = "equivalent" /\ ~raced[Base] =>
    /\ IsPrefix(original, ref[opened])
    /\ since[Base] <= Len(original)
    /\ IsPrefix(original, primary)

(* After an equivalent restore a fork case can be opened only when both    *)
(* sides went on: each head is beyond what was captured, and the common    *)
(* ancestor contains all of it (OpenForkCase); the primary going on alone  *)
(* is a continuation, which nobody is asked to choose.                     *)
ForkMeansSplit ==
  fork # None /\ restore = "equivalent" /\ ~raced[Base] =>
    /\ IsPrefix(original, fork.fork.ancestor)
    /\ Len(fork.fork.headA) > Len(original) /\ Len(fork.fork.headB) > Len(original)

(* Every call on the Reader returns, Close included, and so does a load    *)
(* proof whose context is cancelled or whose ledger goes on: nobody waits  *)
(* for a lock that its holder waits to give up.                            *)
EveryCallReturns ==
  /\ \A c \in Calls : pc[c] \notin {"idle", "done", "failed"} ~> pc[c] \in {"idle", "done", "failed"}
  /\ reader = "closing" ~> reader = "closed"
  /\ run = "working" ~> run \in Verdicts
=============================================================================
