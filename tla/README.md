# Threadkeeper Core in TLA+

TLA+ models of threadkeeper-core: how events become part of an authoritative
Git ledger, how candidates wait in quarantine, how governed records are reduced
from the ledger, how a ledger is created, how a submission is admitted, and what
recovery, restore and load proofs say about a ledger. TLC checks the models on
small instances; TLAPS proves every safety property, action property and
refinement that the passing runs check, for every instance.

## The system

| Component | State | Operations | Interacts with |
|---|---|---|---|
| Candidate write (`internal/ledger/candidate_write.go`, `quarantine_binding.go`) | none of its own between calls; a handle in the caller's hands | `PrepareWriteCandidate`, `AcceptWriteCandidate`, recovery, cleanup | replays the ledger, writes Git objects, the ref and quarantine |
| CAS writer (`internal/gitledger/writer.go`) | Git objects, the ref, the ref's lock file | `PrepareEventCommit`, `VerifyEventCandidate`, `CompareAndSwap` | `git update-ref` as a child process with a deadline |
| Quarantine (`internal/quarantine/store.go`, `gitledger/quarantine.go`) | one directory: private files, hard-linked final names, mtimes | `Put`, `Ensure`, `Read`, `Remove`, `PruneBefore` | shared by all processes that write one ledger |
| Replay (`internal/ledger/replay.go`, `namespace.go`, `gitledger/immutable.go`, `tree_changes.go`) | none; a manifest of one snapshot | `Replay` | reads every commit, reduces governed events |
| Reducer and bindings (`internal/reducer/record.go`, `internal/policy/bindings.go`) | the projection: target to record | `Apply` with create, replace, revoke; `LoadReducerBindingsAt` | called by replay and by candidate write |
| Actor policy (`internal/ledger/actor_policy.go`, `internal/actorauth/policy_document.go`) | root policy file, governed record at `authority:actor-policy` | `LoadCurrentActorPolicy`, `ParsePolicyDocument` | derived from replay; used by admission |
| Fresh genesis (`internal/ledger/fresh_genesis.go`, `gitledger/bootstrap.go`, `internal/genesis/genesis.go`) | the target path, the first commit, the ref | `InitializeFreshGenesis`, `InitializeBareRoot` | replays what it created before it reports success |
| Admission (`internal/service/writegate.go`, `internal/actorauth/auth.go`) | none | `AdmitAuthorityWrite` behind a disabled gate, `AuthenticateAndAuthorize` | the actor policy of one snapshot; candidate write follows |
| Limiter (`internal/service/limiter.go`) | a channel of slots, a flag per release function | `TryAcquire`, release | around each submission |
| Reader (`internal/gitledger/reader.go`, `repository_safety.go`) | an open handle on the ledger directory, a lock around it | `New`, `Close`, the checks before every Git command | the file system, where others move directories |
| Recovery and load proofs (`internal/ledger/recovery_proof.go`, `load_resource.go`, `internal/loadproof/proof.go`) | workers, a monitor, shared counters and peaks during one call | `ProveRecovery`, `ProveReadLoad` | replays through the reader |
| Restore proofs and forks (`internal/restoreproof`, `internal/recoveryproof`, `internal/recovery`) | none; a fork case in the operator's hands | `Verify`, `OpenForkCase`, `ValidateResolution` | the reader of the restored copy, a proof of the primary |
| Escrow, sources (`internal/escrow`, `internal/source`, `internal/sourceadapter`) | blobs in a directory; a map | `Put`, `Get`, `Register`, `AddVersion` | apart from the ledger |
| Key and incident lifecycles, health | none | transition tables; a function of component states | independent |
| Record validators and conversions (the remaining packages) | none | field checks; strict JSON, RFC 8785, digests | everything |

What is hard here:

* Several processes prepare and accept at once. Each works on a snapshot that
  may be stale at every later step; identical requests share one
  content-derived quarantine entry; only the compare-and-swap is atomic.
* The result of the compare-and-swap is reported by a child process that may be
  killed before or after the ref moved, and its lock file can outlive it.
* A caller must be told the truth about its request even if everything after
  the swap fails, and a retry must find the acceptance and not repeat it.
* Quarantine must be visible and durable in the right order, and its retention
  sweep runs inside other operations.
* Writers compose events from states they read earlier.
* Genesis must not use up its path for a seed that replay will refuse, and no
  race or crash may make two ledgers, or adopt residue, at one path.
* The policy that admits a write is itself changed by writes, and a write is
  admitted some time before it is accepted.
* The reader names the ledger by a path, and Git resolves that path anew for
  every command, while the directory there may be replaced, even by one with the
  same device and inode numbers.
* A load proof is put together by workers, a sampling goroutine and a
  coordinator, over a ledger that may go on meanwhile; a restored copy and its
  primary may both go on.

## Modules

| Module | Models |
|---|---|
| `CandidateWrite` | concurrent `Prepare` and `Accept` calls, the ref and its lock, quarantine as sets of entries and a sweep of them |
| `AbstractLedger` | what candidate write promises: a growing log and answers that are true when given |
| `CandidateWriteRefinement` | the refinement mapping from the former to the latter |
| `AbstractQuarantine` | what quarantine promises: one register per candidate ID, absent or complete, and truthful answers to publishers |
| `QuarantineStore` | the quarantine directory, one action per file-system call, with what a power failure may keep |
| `Reducer` | the governed-record reducer and its governance checks, as operators |
| `GovernedRecords` | writers with stale views, accepted events, bindings added over time |
| `LedgerHistory` | which histories `Replay` accepts, and the policy in force, as operators on sequences of trees |
| `FreshGenesis` | initializers of one path, commits that follow |
| `LedgerReader` | the reader: construction, `Close`, its checks and commands, against a file system in motion |
| `RecoveryFork` | classification of two histories, fork cases and resolutions, as operators |
| `RecoveryProofs` | recovery proofs, the load proof and the verification of a restored copy, on `LedgerReader` and `RecoveryFork` |
| `Admission` | limiter, gate, authentication, candidate write in the steps of `AbstractLedger` |
| `CandidateWriteProofs`, `CandidateWriteReplies` | theorems about `CandidateWrite`: the history; the answers, the refinement, the quarantine |
| `QuarantineStoreProofs`, `GovernedRecordsProofs`, `FreshGenesisProofs`, `AdmissionProofs` | theorems about the module each is named after |
| `RecoveryTheorems` | theorems about `LedgerReader`, `RecoveryFork` and `RecoveryProofs` |
| `SequenceFacts` | induction by least counterexample, prefixes |
| `MC...` | instances for TLC |

`MCCandidateWrite` composes `CandidateWrite` with `Reducer`: whether a request
applies to a history is decided by the reducer. `FreshGenesis` is built on
`LedgerHistory`, `RecoveryProofs` on `LedgerReader` and `RecoveryFork`.
`Admission` implements `AbstractLedger`, as `CandidateWrite` does: what
candidate write promises still holds with admission in front of it.

### CandidateWrite

A commit is the sequence of the requests in its history, since
`PrepareEventCommit` fixes everything else that enters a commit ID. A bound
quarantine entry is named by the candidate commit, a staging entry by its call.
`pc[c]` is the next step of call `c`; the steps are the stretches of code
between two accesses to shared state. `Prepare...` actions are the parts of
`prepareWriteCandidate`, `Accept...` those of `acceptWriteCandidate`, `Cas...`
and `UpdateRef...` those of `compareAndSwap`; `reply[c]` is the response or the
error. Faults: `io` lets a Git or file operation fail, `kill` ends `update-ref`
before or after the rename, `crash` ends the process (an `update-ref` child may
survive it), `age` lets the retention of entries elapse. `published` is a
history variable: the calls whose update moved the ref.

Each opening of quarantine sweeps it, and so does the maintenance hook
`PruneCandidateQuarantine`, the sweeper `NoCall`. As in `PruneBefore`, a sweep
takes two steps for an entry: `SweepStat` judges it by its age (`judged[s]`),
`SweepUnlink` removes whatever has that name by then, and anything may happen in
between. An entry that vanished ends the sweep and fails the opening
(`OpenRaces`). Which of the expired entries a sweep still meets depends on the
moment of its listing; the model lets it judge any of them, in any order, and
stop after any. `overtaken` is a history variable: the sweeps whose judged name
somebody else has freed since.

### QuarantineStore

`final[i]` is the inode behind the final name of ID `i`, `pending[i]` what a
power failure may leave there, `temps` the files that have a private name. Publishers run
`Ensure` (with `put`), pruners `PruneBefore`, cleaners the sweep and `Remove`
of `cleanupAcceptedQuarantineID`. `MaxTries` stands for the retry deadline. A
file (`File(p)`) belongs to one attempt of its publisher, as the code draws a new
random name for each, so a sweep that listed one attempt does not remove the next,
and a file whose private name could not be removed is not written again. That
removal (`RemovePrivate`) is best effort: with I/O errors the name may stay, and
nobody is told. What is left, by this or by a death, is reclaimed by retention.
`due[s]` is a history variable: the entries that were expired, with the files
behind them, when `s` listed the directory.

The directory implements `AbstractQuarantine` under the mapping `Register`: the
register of an ID shows the bytes behind its final name (bytes of nobody if the
file were incomplete), and keeps what is pending. The link is the publication,
the unlink the withdrawal, the directory sync settles all registers, and the last
read of `Ensure` is where its answer is true.

### Reducer and GovernedRecords

The projection is a function from targets to states. A writer composes an event
from `view[w]`, which may be older than the projection, and retries it on any
head; an event is appended exactly if `Reduces` holds. `terms` stands for the
event schema and the policy version of a binding.

### LedgerHistory and FreshGenesis

A history is a sequence of trees and a tree maps paths to contents, so what a
commit adds, changes and removes is computed as `diff-tree` does. The seed check
of `fresh_genesis.go` and the replay check are written out separately, as in the
code. Initializers go through validation, `os.Mkdir`, `git init`, object
construction, `update-ref` with a zero old value, reading the ref back, replay,
and the policy comparison; after each of them they may fail or die. Core appends
events that replay; `Configure` is a commit made beside Core, which nobody
checks before it is there; `ForeignRoot` is a root pushed before the ref exists.

### LedgerReader and RecoveryProofs

A directory is an object with a number, its device and inode pair; numbers are
given again once a directory is deleted and nobody holds a handle on it. That is
what `holdRepositoryRoot` is about: `os.SameFile` compares numbers, and only the
open handle keeps the number of the ledger from being recycled. `pc[c]` walks
through `CheckHistorySafety`, `Head` and the reading commands of `Replay`; a Git
process runs under the read lock of `rootMu`, `Close` takes the write lock, and
a waiting `Close` keeps new readers out, as Go's `RWMutex` does. Others may move
the directory away, put another in its place, create one, or make one lead
elsewhere (a symbolic ref, alternates, a commondir). `raced[c]` marks a call whose
directory was exchanged between a check and the command it was made for: the code
leaves that window to the ownership of the directory ("remain necessary to close
races after these checks", `repository_safety.go`), and the properties exempt it and nothing
else.

A recovery proof fingerprints one replay, so it is the commit that was replayed;
commits are content addressed, so equal commits have equal histories. The load
proof has its workers (`iter`, `completed`, `firstErr`), the monitor (`Sample`,
`MonitorDone`), the peak, and the verdict; snapshots have one metric that is
always available and one that may be missing. `ops` and `seen` are history
variables: what was really carried out and sampled. A restore takes the proof
that was captured with the backup, or a wrong one, and a provenance document that
names one; the primary and the copy may go on at any time, and a fork case may be
opened and resolved between them.

### Admission

No transport calls admission yet, and the release gate is closed in this release.
The model has the steps of a submission and their order from
`internal/service/release_e2e_test.go`, within a slot of the limiter as in
`load_concurrency_test.go`; a scenario may open the gate, so that what the code
behind it does can be checked before it is. A submission is a proof, a context
and an event. It takes a slot or is told that the service is overloaded, passes
the gate, is authenticated under the policy of one replayed head with the time it
came with, and goes on to prepare and accept. The policy is a governed record: two
of the events rotate it or revoke it, and each rotation has to be admitted under
the policy it replaces. Clients resubmit what others signed, for the same or
another context, with the same or another event, and with new proofs for an old
event. `grounds` is a history variable: the submission behind each commit.

The proof's `expected_state` must be the current head, so after an acceptance
the same proof is refused at admission, an identical retry included; the client
signs a new proof to learn that its event was accepted.

## Runs

| Run | Instance | Shows |
|---|---|---|
| `cw_faults` | 3 calls; requests a, b (one document under two paths), x (same key), z (successor of a); I/O errors, kills, crashes | `MoverAnswered`, `NoRejectionOfAccepted`, `ImplementsLedger`, `LiveCapabilityKept`, `StagingReported`, `TypeOK` |
| `cw_chain` | 4 calls, 7 requests that collide in key, event ID, path or by the reducer; kills | `HeadReplays`, `RepliesTruthful`, `AcceptedOnce`, `NoAcceptedResidue` |
| `cw_progress` | 3 calls and the maintenance hook, requests a and its successor z, fair, aging entries | `EveryCallReturns`, `ContentionProgress`, `LiveCapabilityKept` |
| `store` | scenarios: 2 identical publishers and 1 with other bytes, errors and power failures; 2 publishers and a cleaner, errors and aging; a publisher, a pruner and a cleaner with all of them; fair | `EnsureDurable`, `ExpiredReclaimed`, `SweepTakesOldOnly`, `ImplementsRegister`, `EveryProcessReturns`, `TypeOK` |
| `governed_records` | 2 writers, policy target and an ordinary one, 2 kinds, 2 values, 2 terms, 4 events | `NoLostUpdate`, `LineageIntact`, `ReplayStable`, `RecordsAdvance`, `PolicyReserved` |
| `genesis` | 2 initializers, a sound seed and about 40 others, 4 commits; errors and crashes | `SeedErrorsFoundFirst`, `EvidenceTrue`, `GenesisFixed`, `ConfigImmutable`, `PolicyFailsClosed` |
| `recovery_proofs` | 2 directories, 2 inode numbers, histories of up to 2 commits; scenarios: 2 proofs and 2 moves, 1 proof and 4 moves, a load proof with 2 workers while the ledger goes on or is closed, a restore of the same, a longer and another history; fair | `ProofDescribesOpened`, `LoadVerdictTrue`, `RestoreTrue`, `ForkMeansSplit`, `EveryCallReturns`, `TypeOK` |
| `admission` | 3 clients, 2 actors, 3 keys, 3 policy states; scenarios: a rotation and writes, the same with failures and time, rotation and revocation, flawed proofs, the gate closed with double releases; fair | `AuthorisedAtParent`, `WithinCapacity`, `EverySubmissionReturns`, `ImplementsLedger`, `TypeOK` |
| `cw_recovery`, `cw_capability`, `store_cleanup`, `policy_rotation` | the smallest instances that show them | the disagreements below |

Why these bounds are enough to be interesting: three calls give a winner, an
identical loser and a third that changes the ground between two steps of the
others; a chain of two accepted events is needed for a snapshot whose history
goes on, and the fourth call retries on top of it. In `cw_progress` the hook and
a call judge one expired entry, the call removes it and publishes it again, and the
hook then removes the new one by name: without its exception for overtaken sweeps
`LiveCapabilityKept` fails there. In the store, two identical
publishers converge, the third conflicts, and the sweeper runs between any two
of their calls. Four governed events let a record be created, replaced and
revoked with one event at the other target. Four commits after genesis hold a
policy that is created and revoked and one configuration change after it, or a
change, its reversal and an event. Seeds differ from the sound one in one part,
or in two that have to agree. Four moves delete the ledger, create another one with
its number, and move or tamper with that; two moves do for two concurrent proofs.
Two workers with one iteration and one worker with two interleave counting,
sampling and a commit in between. Two accepted events are a rotation and what
follows it, and the third client is refused or retries; a proof is valid for one
tick, so one tick expires it. Scenarios that do not need one another are separate
initial states of one run. Calls, publishers and initializers that play the
same part are symmetric; the runs that check liveness use no symmetry. Calls
finish and are not restarted, so all runs allow the system to stop.

Fairness is weak fairness of the steps of each call or process, and nothing of
the environment (aging, faults, other commits, new calls). The code justifies it:
each Git command has a deadline, the settle and retry loops have deadlines, and a
runnable goroutine or process is scheduled. `ContentionProgress` is checked
without kills: a killed `update-ref` can leave the lock file, and then the ref
stays where it is until somebody removes the file, while every call still
returns. In `recovery_proofs` the goroutines of the program are fair, and whoever
moves directories, commits, cancels or closes is not; in `admission` a submission
is fair once it has its slot, and neither clients nor the clock are.

### Disagreements between documents and code

* `cw_recovery`: after a stale compare-and-swap whose recovery fails, Accept
  returns an error without a response (`candidate_write.go:368`);
  `docs/assurance/CANDIDATE_QUARANTINE_V1.md:48` says it is answered
  `acceptance_unknown`. A request that was accepted meanwhile is so denied.
* `cw_capability`: a prepare that cannot read the head at its end removes the
  bound entry (`candidate_write.go:260`), which an identical prepare may have
  returned to its caller; `CANDIDATE_QUARANTINE_V1.md:16` says a failed publisher
  cannot remove another's capability.
* `store_cleanup`: a cleanup whose sweep meets an entry that vanished reports
  success without removing its own (`candidate_write.go:605`);
  `CANDIDATE_QUARANTINE_V1.md:31` says a retry completes cleanup or reports that
  it failed. The sweep of a later opening, after the retention, removes the entry.
* `policy_rotation`: a record of another kind may be created at the actor-policy
  target (`record.go:81` confines the kind, not the target), after which no event
  can establish, rotate or revoke a policy and the policy cannot be loaded;
  `GENESIS_CONTRACT_V1.md:47` says the required binding prevents a policy that
  cannot be rotated.

## Proofs

Every invariant, action property and refinement of every passing run is a theorem
for all values of the constants that meet the named assumptions. The theorems are
of the form `Spec => ...`, so they hold with or without fairness. Four more are
proved and not checked again by TLC: `AuthorityAppendOnly` and `FinalComplete`,
which the refinements `ImplementsLedger` and `ImplementsRegister` contain, and the
type invariants of `GovernedRecords` and `FreshGenesis`.

`CandidateWriteProofs`, from the assumptions that `NoCall` is not a call, that
there are requests, that equal documents have equal keys, event IDs and expected
commits, and that faults are the four named ones; for any number of calls, any
requests and any `Applies`:

* `TypeCorrect`, `HeadAlwaysReplays`, `AuthorityOnlyAppends`.

`HeadReplays` is not inductive: it says nothing about calls on their way to
`update-ref`. `IInv` adds that a call inside `update-ref` holds the lock and sees
the head it was prepared for (`LockInv`), what each stage of acceptance has
established about its snapshot (`SnapshotInv`), and that an object in the store
adds a path its parent lacks (`ObjectsInv`). A publication then appends, to the
snapshot the checks were made on, a request that passed them. The proof has one
lemma per group of actions; all actions that do not touch the ref, its lock, the
objects or a handle share `QuietStep`.

`CandidateWriteReplies`, from the same assumptions and `IInv`:

* `AnswersTruthful`, `MoverNotDenied`, `AcceptedAtMostOnce`,
  `AcceptedNeverRejected`, `LedgerImplemented`, `LiveCapabilitiesKept`,
  `StagingAlwaysReported`, and, for faults without `io`, `NoResidueLeft`.

On a history that replays, a lookup by key finds the request exactly if it was
accepted (`LookupExact`). `CallGood` is what holds of a call at each step: its
response is true of the head; if it moved the ref, its candidate is in the
history and it is at a step from which only truthful answers are reachable; and
a denial that has been decided but not yet answered is of a request that is
`Lost`: no replayable extension of the head holds it. The last part is what makes
denials stable while a call removes its entry and others go on; it holds since a
request names its parent and keys are unique (`StaleIsLost`, `ConflictIsLost`).
`MoversDiffer` says that two calls that moved the ref did so with different
candidates. For `LedgerImplemented` each action is shown to be an append, an answer that is
true at that moment (`Honest`) or a stutter. `ResidueInv` says that whoever may
have put back the entry of an accepted candidate is still on its way to a cleanup.

`LiveCapabilitiesKept` holds under all faults and says what the disagreement
`cw_capability` and overlapping sweeps leave intact: an entry whose parent is
still the head goes before its retention only by a prepare that failed to read the
head again, or by a sweep that judged an older entry of that name before somebody
else freed it. `CallGood` has for it that any other call about to remove its
entry knows that the head has moved on. `SweepInv` says what a sweep knows between
its two steps: the entry it judged is still there and past retention, unless the
sweep has been overtaken; so a sweep that nobody overtakes takes only what has expired. `StagingAlwaysReported` rests on
`StageInv`, which says where a prepare can be while its staging entry exists and
which errors it can have ended with. Only `NoResidueLeft` has a hypothesis on
faults, and the code needs it: an I/O error in the cleanup, or while a
re-materialised entry is read, leaves the entry to the retention sweep. A crash
leaves the entry of the call that died and no other; the runs check this
property with kills only, the theorem covers crashes too.

`QuarantineStoreProofs`, from the assumptions that publishers, pruners and
cleaners are different processes, that `None` is no file, no name and no content,
that `MaxTries` is positive, and that scenarios are typed:

* `TypeCorrect`, `FinalAlwaysComplete`, `EnsureIsDurable`, `ExpiredAlwaysReclaimed`,
  `SweepsTakeOldOnly`, `RegisterImplemented`.

`FinalComplete` is not inductive because of power failures, which choose from
`pending`. `LinkInv`: every inode that a failure may leave under a name is
written and synced, and no attempt will link it again (`Linked`). `DurableInv`: among publishers, from the directory
sync to the success of `Ensure`, the final name is all that is pending for its ID,
so the bytes compared last are the ones that stay.

`ExpiredAlwaysReclaimed` rests on `DueInv`: what a sweep found expired when it
listed the directory is on its list, still expired, or no longer under that name.
It does not come back there while the sweep runs (`NeverAgain`), since a file that
was linked is not linked again and each attempt has a private name of its own; so
a sweep that ends with an empty list has reclaimed it. A sweep that meets an entry
somebody else removed does not end that way: it reports the error.

`SweepsTakeOldOnly` needs what a sweep knows between its `Lstat` and its removal
(`JudgedInv`): while nobody else removes entries, the name it judged still shows
a file past retention or none at all, since publishers link only to free names.
For `RegisterImplemented`, `LinkInv` makes every byte that is shown or pending
complete, `AnswerInv` says that a publisher that runs has not been answered, and
each action is shown to be a publication, a withdrawal, an answer that is true at
that moment, a settling, a power failure or a stutter.

`GovernedRecordsProofs`, from the assumptions that `Nil` is no value, event ID
or state, and that the policy kind is a kind:

* `RecordsTyped`, `RecordsOnlyAdvance`, `PolicyAlwaysReserved`,
  `UpdatesNeverLost`, `LineageAlwaysIntact`, `ReplayAlwaysStable`.

`NoLostUpdate` needs `PriorsPassed`: every state that an accepted event asserted
as prior is older than the record is now, so nobody can assert it again.
`LineageIntact` needs `NewestState`: events are numbered by their position and a
record is the state that the newest event of its target left. `ReplayStable` is
about a projection that is rebuilt by recursion over the history; see induction
below. `ProjectAppend` unfolds it by one event, and `BindingsKept` says that an
event that reduces still does when bindings are added.

`FreshGenesisProofs`, from the assumptions that faults are the two named ones and
that `MaxCommits` is positive; for any seeds, initializers and contents:

* `TypeCorrect`, `RootNeverReplaced`, `SeedErrorsAlwaysFirst`,
  `EvidenceAlwaysTrue`, `ConfigNeverChanged`, `PolicyAlwaysClosed` (the last with
  the hypothesis `NilApart`: `Nil` is no record of the policy).

The core is `SeedReplays`: the seed check and the replay check are written out
separately, as in the code, and a seed that passes the former makes a tree that
passes the latter and has the policy kind bound. `GenesisInv` adds that the
initializer that made the directory is its only owner (`OwnerInv`) and what its
seed has passed at each step (`SeedInv`). `ConfigNeverChanged` and
`PolicyAlwaysClosed` speak about every history that replays; the latter follows
the record of the policy event by event, and no event is accepted after a
revocation (`RevokedForGood`).

`RecoveryTheorems`, from the assumptions that `None` is no directory and no
natural number, that there are inode numbers and finitely many calls, and that
scenarios, snapshots and envelopes are typed:

* `TypeCorrect`, `ProofsDescribeOpened`, `RestoresTrue`, `ForksMeanSplit`,
  `LoadVerdictsTrue`.

`ProofDescribesOpened` rests on `RootInv`: directories that are linked, and the
one that a handle pins, have different numbers, so `os.SameFile` with the pinned
one means the same directory; without the handle this invariant fails. `CallsInv`
says what a call whose checks were not raced knows about the opened directory.
`RestoreInv` and `ForkInv` carry it to the verification and the fork case, where
`CommonLength` is shown to be the length of the longest common prefix.
`LoadVerdictTrue` needs that the counters agree with the operations really
carried out (`OpsInv`, `OperationsCounted`), that the peak is the maximum of what
was sampled (`PeakInv`), and that the verdict is computed after all workers and
the monitor have ended (`WorkDone`, `EvaluateExact`).

`AdmissionProofs`, from the assumptions that there are finitely many clients, that
policies are valid with typed keys and lifetimes, and that scenarios are typed
and have a positive capacity; for any clients, signings, policies and faults:

* `AlwaysAuthorised`, `SlotsExact`, and, with the hypothesis `NoneApart` that
  `None` is no event and no submission, `AdmissionImplementsLedger` and
  `TypeCorrect`.

`AuthorisedAtParent` says nothing about submissions that have not been accepted.
`Admitted` does: from admission on, a submission is authorised by the policy of
the commit that its context names, and from prepare on its candidate has that
commit as its parent. Authorisation under the policy of a past commit cannot be
lost, since an append leaves the last policy event before it where it is
(`PolicyStable`); the ref moves from the candidate's parent only, so the policy at
the parent is the one that admitted it. `SlotsInv` adds to `WithinCapacity` where
the caller of a release function is when its flag is set. The refinement rests on
`TraceInv`: keys are unique in the history, its length is the number of clients
that moved the ref, and each client moves it at most once, between being admitted
and being answered. The same fact bounds the history by the number of clients,
so the model needs no bound of its own for it.

Induction. A recursive function (`Project`, `PolicyRecord`) is proved about
through `SequenceFacts!LeastNumber`: if a property fails for some number, it fails
for a least one, a consequence of the well-foundedness of the naturals that is
stated for a set of numbers and not for an operator. It gives the existence of
the function that the recursion defines, its uniqueness, and what holds of each of
its values.

`NilApart` and `NoneApart` are hypotheses of theorems and not assumptions of the
modules, since TLC cannot evaluate a quantifier over all values; the model values
of the instances satisfy them.

Only model-checked: liveness (`EveryCallReturns` of candidate write and of the
reader, `ContentionProgress`, `EveryProcessReturns`, `EverySubmissionReturns`),
which needs fairness and `ENABLED`, out of the prover's reach; and the four
disagreements, which are counterexamples.

## Not modelled

Strict JSON, canonicalisation, digests, JSON Schema validation and signatures are
conversions: the models assume that equal documents have equal bytes and that
different ones have different digests. Validators of single records, the lifecycle
tables and health have no behaviour over time, and portable bundles and adoption
records are validated once. Escrow, the source registry and the file adapter keep
files and maps apart from the ledger. The command line only collects arguments and
files. Of the parts that are modelled, these details are left out: the many kinds
of unsafe repository layout are one, resource metrics are two, file modes and the
pinned root of quarantine are not there, and two goroutines that call one release
function of the limiter at once are outside its contract ("exactly once").

Known behaviour that no property excludes, since the code allows it: a sweep
removes by name what it judged a moment before, so an entry that a second sweep
removed and somebody published again in between goes with it (`store.go:393`;
`SweepTakesOldOnly` covers a sweep that is alone, and `LiveCapabilityKept` has it as
one of its two exceptions); the private file of a publication may stay behind
without a crash, since the error of its removal is dropped (`store.go:161`); an `Ensure` that finds
an identical old entry does not renew its age (`store.go:255`). They cost a
capability, which has to be prepared again, or disk space until the retention
elapses, and never authority. A prepare that
puts back the entry of an event accepted meanwhile, and then fails to read it,
answers `already_accepted` with no error and removes its staging entry only
(`recoverPrepareAfterBoundFailure`, `candidate_write.go:427`), so the accepted
entry waits for the retention sweep. Removing the bound entry there in every case
would be worse: it takes the capability of an identical prepare (the mutant
`RecoverAndUnbind`, which violates `LiveCapabilityKept`).

## Plan

1. Done: candidate write, its abstract specification and refinement; quarantine
   store; reducer and governed records; replay over trees and fresh genesis; the
   first theorems; admission on the abstract ledger, with its theorems; the
   reader, recovery, load and restore proofs, forks.
2. Done: every safety property, action property and refinement of the passing
   runs is proved.
3. Done: `QuarantineStore` implements the registers of `AbstractQuarantine`; what
   the disagreements leave intact is proved for live capabilities and for staging
   entries, under all faults.
4. Open: `CandidateWrite` on top of `AbstractQuarantine` instead of its own
   sets of entries, and with it candidates that a power failure takes back; the
   escrow store, whose `Put` writes the file after it is visible.
