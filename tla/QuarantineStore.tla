--------------------------- MODULE QuarantineStore ---------------------------
(***************************************************************************)
(* The candidate quarantine (internal/quarantine/store.go) at the level of *)
(* its filesystem calls: publishers run Ensure, sweepers run PruneBefore,  *)
(* and a cleaner is the sweep-then-Remove of cleanupAcceptedQuarantineID   *)
(* (internal/ledger/candidate_write.go).                                   *)
(*                                                                         *)
(* Every attempt of a publisher writes a file, an inode, of its own, under *)
(* a private name that is random and never used again; a hard link gives   *)
(* the inode a second, final name.  pending records what a power failure   *)
(* may leave of each final name: the namespace changes since the last      *)
(* directory sync.                                                         *)
(***************************************************************************)
EXTENDS Naturals, FiniteSets

CONSTANTS Publishers, Pruners, Cleaners,
          Ids,         \* candidate IDs, each with one final name
          id,          \* id[p]: the ID publisher or cleaner p works on
          content,     \* content[p]: the bytes publisher p publishes
          MaxTries,    \* attempts that fit in ensureRetryTimeout
          Scenarios,   \* the processes that take part, and the faults they meet
          None

Sweepers == Pruners \cup Cleaners
Procs    == Publishers \cup Sweepers

ASSUME ProcsAssumption ==
  /\ Publishers \cap Sweepers = {} /\ Pruners \cap Cleaners = {}
  /\ \A p \in Publishers \cup Cleaners : id[p] \in Ids
  /\ \A p \in Publishers : content[p] # None

ASSUME BoundsAssumption ==
  /\ MaxTries \in Nat \ {0}
  /\ \A s \in Scenarios :
       s.procs \subseteq Procs /\ s.faults \subseteq {"io", "crash", "age"}

VARIABLES
  scenario, \* the scenario of this behaviour
  final,    \* final[i]: the file that the final name of ID i links to
  temps,    \* files whose private name is in the directory
  written,  \* files that hold their complete content
  synced,   \* files whose content is on stable storage
  old,      \* files whose mtime is at or before the cutoff
  pending,  \* pending[i]: what final[i] may be after a power failure
  pc,       \* pc[p]: the next step of process p
  tries,    \* tries[p]: publication attempts of publisher p
  list,     \* list[s]: directory entries sweeper s has still to examine
  at,       \* at[s]: the entry s found past retention and will remove
  due,      \* due[s]: the expired entries s listed (history variable)
  result    \* result[p]: what p returns

files == << final, temps, written, synced, old, pending >>
sweep == << list, at, due >>
vars  == << scenario, files, pc, tries, sweep, result >>

-----------------------------------------------------------------------------
Files   == [of : Publishers, try : 1..MaxTries]
File(p) == [of |-> p, try |-> tries[p]]

FinalName(i) == [kind |-> "final", of |-> i]
TempName(q)  == [kind |-> "temp", of |-> q]

Names == [kind : {"final"}, of : Ids] \cup [kind : {"temp"}, of : Files]

ASSUME NoneAssumption == None \notin Names /\ None \notin Files

(* What the directory lists, and the file behind a listed name.            *)
Listing == {n \in Names : IF n.kind = "final" THEN final[n.of] # None ELSE n.of \in temps}

Inode(n) == IF n.kind = "final" THEN final[n.of] ELSE n.of

Link(i, q) ==
  /\ final' = [final EXCEPT ![i] = q]
  /\ pending' = [pending EXCEPT ![i] = @ \cup {q}]

Unlink(n) ==
  IF n.kind = "final"
  THEN /\ final' = [final EXCEPT ![n.of] = None]
       /\ pending' = [pending EXCEPT ![n.of] = @ \cup {None}]
       /\ UNCHANGED temps
  ELSE temps' = temps \ {n.of} /\ UNCHANGED << final, pending >>

syncRootDirectory == pending' = [i \in Ids |-> {final[i]}]

Holds(i, p) == final[i] # None /\ content[final[i].of] = content[p]

IoFails == "io" \in scenario.faults

Goto(p, l) == pc' = [pc EXCEPT ![p] = l]

Return(p, r) == Goto(p, "done") /\ result' = [result EXCEPT ![p] = r]

(* put's deferred cleanup removes the private name of this attempt, and    *)
(* nothing else.  It is best effort: its error is dropped.                 *)
RemovePrivate(p) ==
  \/ temps' = temps \ {File(p)}
  \/ IoFails /\ UNCHANGED temps

ReturnPut(p, r) == Return(p, r) /\ RemovePrivate(p)

-----------------------------------------------------------------------------
(* Ensure: put, and convergence on a final name that already exists.       *)

PutCreate(p) ==
  /\ pc[p] \in {"idle", "retry"}
  /\ \/ /\ tries' = [tries EXCEPT ![p] = @ + 1]
        /\ temps' = temps \cup {File(p)'}
        /\ Goto(p, "write") /\ UNCHANGED result
     \/ /\ IoFails /\ Return(p, "error")
        /\ UNCHANGED << temps, tries >>
  /\ UNCHANGED << final, written, synced, old, pending, sweep >>

(* Variant: the file is linked without having been synced.                 *)
PutWriteUnsynced(p) ==
  /\ pc[p] = "write"
  /\ written' = written \cup {File(p)} /\ Goto(p, "link")
  /\ UNCHANGED << final, temps, synced, old, pending, tries, sweep, result >>

(* Write, file sync and close.                                             *)
PutWrite(p) ==
  /\ pc[p] = "write"
  /\ \/ written' = written \cup {File(p)} /\ Goto(p, "sync") /\ UNCHANGED << temps, result >>
     \/ IoFails /\ ReturnPut(p, "error") /\ UNCHANGED written
  /\ UNCHANGED << final, synced, old, pending, tries, sweep >>

PutSync(p) ==
  /\ pc[p] = "sync"
  /\ \/ synced' = synced \cup {File(p)} /\ Goto(p, "link") /\ UNCHANGED << temps, result >>
     \/ IoFails /\ ReturnPut(p, "error") /\ UNCHANGED synced
  /\ UNCHANGED << final, written, old, pending, tries, sweep >>

(* Variant: the private file is renamed over the final name.               *)
PutRename(p) ==
  /\ pc[p] = "link" /\ File(p) \in temps
  /\ Link(id[p], File(p)) /\ temps' = temps \ {File(p)}
  /\ Goto(p, "dirsync")
  /\ UNCHANGED << written, synced, old, tries, sweep, result >>

(* The hard link never replaces an existing name.                          *)
PutLink(p) ==
  /\ pc[p] = "link"
  /\ \/ /\ File(p) \in temps /\ final[id[p]] = None
        /\ Link(id[p], File(p))
        /\ Goto(p, "dirsync") /\ UNCHANGED << temps, result >>
     \/ /\ File(p) \in temps /\ final[id[p]] # None
        /\ RemovePrivate(p)
        /\ Goto(p, "exists") /\ UNCHANGED << final, pending, result >>
     \/ /\ IoFails \/ File(p) \notin temps
        /\ ReturnPut(p, "error") /\ UNCHANGED << final, pending >>
  /\ UNCHANGED << written, synced, old, tries, sweep >>

PutDirSync(p) ==
  /\ pc[p] = "dirsync"
  /\ \/ syncRootDirectory /\ Goto(p, "verify") /\ UNCHANGED << temps, result >>
     \/ IoFails /\ ReturnPut(p, "error") /\ UNCHANGED pending
  /\ UNCHANGED << final, written, synced, old, tries, sweep >>

PutVerify(p) ==
  /\ pc[p] = "verify"
  /\ \/ Holds(id[p], p) /\ ReturnPut(p, "ok")
     \/ (IoFails \/ ~Holds(id[p], p)) /\ ReturnPut(p, "error")
  /\ UNCHANGED << final, written, synced, old, pending, tries, sweep >>

(* A name that vanished since the collision is worth another attempt while *)
(* the deadline has not passed.                                            *)
RetryOrFail(p) ==
  \/ tries[p] < MaxTries /\ Goto(p, "retry") /\ UNCHANGED result
  \/ Return(p, "error")

EnsureRead(p) ==
  /\ pc[p] = "exists"
  /\ \/ final[id[p]] = None /\ RetryOrFail(p)
     \/ Holds(id[p], p) /\ Goto(p, "settle") /\ UNCHANGED result
     \/ final[id[p]] # None /\ ~Holds(id[p], p) /\ Return(p, "conflict")
     \/ IoFails /\ Return(p, "error")
  /\ UNCHANGED << files, tries, sweep >>

(* Variant: convergence relies on the winner to sync the directory.        *)
EnsureUnsynced(p) ==
  /\ pc[p] = "settle"
  /\ Goto(p, "reread")
  /\ UNCHANGED << files, tries, sweep, result >>

EnsureSync(p) ==
  /\ pc[p] = "settle"
  /\ \/ syncRootDirectory /\ Goto(p, "reread") /\ UNCHANGED result
     \/ IoFails /\ Return(p, "error") /\ UNCHANGED pending
  /\ UNCHANGED << final, temps, written, synced, old, tries, sweep >>

(* Variant: a vanished name is polled for instead of published again.      *)
EnsurePolls(p) ==
  /\ pc[p] = "reread"
  /\ \/ final[id[p]] = None /\ Goto(p, "settle") /\ UNCHANGED result
     \/ Holds(id[p], p) /\ Return(p, "ok")
     \/ final[id[p]] # None /\ ~Holds(id[p], p) /\ Return(p, "conflict")
  /\ UNCHANGED << files, tries, sweep >>

EnsureReread(p) ==
  /\ pc[p] = "reread"
  /\ \/ final[id[p]] = None /\ RetryOrFail(p)
     \/ Holds(id[p], p) /\ Return(p, "ok")
     \/ final[id[p]] # None /\ ~Holds(id[p], p) /\ Return(p, "conflict")
     \/ IoFails /\ Return(p, "error")
  /\ UNCHANGED << files, tries, sweep >>

-----------------------------------------------------------------------------
(* PruneBefore, entry by entry over one directory listing.  An entry that  *)
(* another process removed after the listing ends the sweep with           *)
(* ErrNotExist, which cleanupAcceptedQuarantineID takes for a missing      *)
(* quarantine directory: the cleaner then returns without an error.        *)

Expired == {n \in Listing : Inode(n) \in old}

SweepList(s) ==
  /\ pc[s] = "idle"
  /\ list' = [list EXCEPT ![s] = Listing]
  /\ due' = [due EXCEPT ![s] = {<< n, Inode(n) >> : n \in Expired}]
  /\ Goto(s, "stat")
  /\ UNCHANGED << files, tries, at, result >>

(* Variant: the entry is struck off the list but stays the current one.    *)
SweptAgain(s, n) == list' = [list EXCEPT ![s] = @ \ {n}] /\ UNCHANGED at

Swept(s, n) == list' = [list EXCEPT ![s] = @ \ {n}] /\ at' = [at EXCEPT ![s] = None]

EndSweep(s) ==
  /\ list' = [list EXCEPT ![s] = {}] /\ at' = [at EXCEPT ![s] = None]
  /\ due' = [due EXCEPT ![s] = {}]

(* Variant: a vanished entry ends every sweep without an error.            *)
SweepAbortsQuietly(s) == Return(s, "ok") /\ EndSweep(s) /\ UNCHANGED files

SweepAborts(s) ==
  /\ Return(s, IF s \in Cleaners THEN "ok" ELSE "missing")
  /\ EndSweep(s)
  /\ UNCHANGED files

SweepStat(s) ==
  /\ pc[s] = "stat"
  /\ \E n \in list[s] :
       \/ n \notin Listing /\ SweepAborts(s)
       \/ /\ n \in Listing /\ Inode(n) \notin old
          /\ Swept(s, n) /\ UNCHANGED << files, pc, due, result >>
       \/ /\ n \in Listing /\ Inode(n) \in old
          /\ at' = [at EXCEPT ![s] = n] /\ Goto(s, "prune")
          /\ UNCHANGED << files, list, due, result >>
  /\ UNCHANGED tries

(* Lstat found the entry past retention; Remove takes whatever has that    *)
(* name now.                                                               *)
SweepUnlink(s) ==
  /\ pc[s] = "prune"
  /\ \/ at[s] \notin Listing /\ SweepAborts(s)
     \/ /\ at[s] \in Listing
        /\ Unlink(at[s]) /\ Swept(s, at[s]) /\ Goto(s, "stat")
        /\ UNCHANGED << written, synced, old, due, result >>
  /\ UNCHANGED tries

SweepEnd(s) ==
  /\ pc[s] = "stat" /\ list[s] = {}
  /\ \/ s \in Pruners /\ Return(s, "ok")
     \/ s \in Cleaners /\ Goto(s, "remove") /\ UNCHANGED result
  /\ EndSweep(s)
  /\ UNCHANGED << files, tries >>

SweepFails(s) ==
  /\ pc[s] \in {"idle", "stat", "prune"} /\ IoFails
  /\ Return(s, "error")
  /\ EndSweep(s)
  /\ UNCHANGED << files, tries >>

(* Remove: Lstat, then unlink by name; a missing entry is fine here.       *)
RemoveStat(c) ==
  /\ pc[c] = "remove"
  /\ \/ final[id[c]] = None /\ Return(c, "ok")
     \/ final[id[c]] # None /\ Goto(c, "unlink") /\ UNCHANGED result
     \/ IoFails /\ Return(c, "error")
  /\ UNCHANGED << files, tries, sweep >>

RemoveUnlink(c) ==
  /\ pc[c] = "unlink"
  /\ \/ /\ Unlink(FinalName(id[c]))
        /\ Return(c, "ok")
     \/ /\ IoFails /\ Return(c, "error")
        /\ UNCHANGED << final, temps, pending >>
  /\ UNCHANGED << written, synced, old, tries, sweep >>

-----------------------------------------------------------------------------
(* The environment.                                                        *)

Running(p) == pc[p] \notin {"idle", "done", "dead"}

(* A process dies; what it put in the directory stays.                     *)
Kill(p) ==
  /\ "crash" \in scenario.faults /\ Running(p)
  /\ Goto(p, "dead")
  /\ UNCHANGED << files, tries, sweep, result >>

(* Power failure: every process dies, unsynced content may be lost, and of *)
(* the unsynced namespace changes any may have reached the disk.           *)
PowerFailure ==
  /\ "crash" \in scenario.faults /\ \E p \in Procs : Running(p)
  /\ pc' = [p \in Procs |-> IF Running(p) THEN "dead" ELSE pc[p]]
  /\ final' \in {f \in [Ids -> Files \cup {None}] : \A i \in Ids : f[i] \in pending[i]}
  /\ pending' = [i \in Ids |-> {final'[i]}]
  /\ temps' \in SUBSET temps
  /\ written' \in {W \in SUBSET written : written \cap synced \subseteq W}
  /\ UNCHANGED << synced, old, tries, sweep, result >>

(* The retention window of every file now in the directory elapses.        *)
Age ==
  /\ "age" \in scenario.faults
  /\ old' = {Inode(n) : n \in Listing}
  /\ old' # old
  /\ UNCHANGED << final, temps, written, synced, pending, pc, tries, sweep, result >>

-----------------------------------------------------------------------------
Init ==
  /\ final = [i \in Ids |-> None] /\ pending = [i \in Ids |-> {None}]
  /\ temps = {} /\ written = {} /\ synced = {} /\ old = {}
  /\ scenario \in Scenarios
  /\ pc = [p \in Procs |-> IF p \in scenario.procs THEN "idle" ELSE "done"]
  /\ tries = [p \in Publishers |-> 0]
  /\ list = [s \in Sweepers |-> {}] /\ at = [s \in Sweepers |-> None]
  /\ due = [s \in Sweepers |-> {}]
  /\ result = [p \in Procs |-> "none"]

Ensure(p) ==
  \/ PutCreate(p) \/ PutWrite(p) \/ PutSync(p) \/ PutLink(p) \/ PutDirSync(p)
  \/ PutVerify(p) \/ EnsureRead(p) \/ EnsureSync(p) \/ EnsureReread(p)

PruneBefore(s) ==
  \/ SweepList(s) \/ SweepStat(s) \/ SweepUnlink(s) \/ SweepEnd(s) \/ SweepFails(s)

Remove(c) == RemoveStat(c) \/ RemoveUnlink(c)

Step ==
  \/ \E p \in Publishers : Ensure(p)
  \/ \E s \in Sweepers : PruneBefore(s)
  \/ \E c \in Cleaners : Remove(c)
  \/ \E p \in Procs : Kill(p)
  \/ PowerFailure
  \/ Age

Next == Step /\ UNCHANGED scenario

Spec == Init /\ [][Next]_vars

(* A process that runs is scheduled; no filesystem call blocks for ever.   *)
FairSpec ==
  /\ Spec
  /\ \A p \in Publishers : WF_vars(Ensure(p) /\ UNCHANGED scenario)
  /\ \A s \in Sweepers : WF_vars(PruneBefore(s) /\ UNCHANGED scenario)
  /\ \A c \in Cleaners : WF_vars(Remove(c) /\ UNCHANGED scenario)

-----------------------------------------------------------------------------
Labels == {"idle", "write", "sync", "link", "dirsync", "verify", "exists", "settle",
           "reread", "retry", "stat", "prune", "remove", "unlink", "done", "dead"}
Results == {"none", "ok", "error", "conflict", "missing"}

(* Every variable keeps its type, and a sweep is about to remove an entry  *)
(* exactly when it has found one past retention.                           *)
TypeOK ==
  /\ scenario \in Scenarios
  /\ final \in [Ids -> Files \cup {None}]
  /\ pending \in [Ids -> SUBSET (Files \cup {None})]
  /\ temps \subseteq Files /\ written \subseteq Files
  /\ synced \subseteq Files /\ old \subseteq Files
  /\ pc \in [Procs -> Labels]
  /\ tries \in [Publishers -> 0..MaxTries]
  /\ list \in [Sweepers -> SUBSET Names]
  /\ at \in [Sweepers -> Names \cup {None}]
  /\ due \in [Sweepers -> SUBSET (Names \X Files)]
  /\ \A s \in Sweepers : pc[s] # "dead" => (at[s] # None <=> pc[s] = "prune")
  /\ result \in [Procs -> Results]

(* A final capability name never exposes partial bytes, not even after a   *)
(* power failure: put links only what it has written, synced and closed.   *)
FinalComplete ==
  \A i \in Ids : final[i] # None => final[i] \in written

(* Ensure reports success only for a durable publication: whatever part of *)
(* the unsynced namespace a power failure keeps, the ID still names the    *)
(* publisher's bytes.  This is why a caller that converges on a visible    *)
(* name syncs the directory itself.  It is stated for publishers among     *)
(* themselves: a sweep may remove the entry before Ensure returns.         *)
EnsureDurable ==
  [][\A p \in Publishers :
       scenario.procs \subseteq Publishers /\ result[p] # "ok" /\ result'[p] = "ok" =>
         \A q \in pending'[id[p]] : q # None /\ content[q.of] = content[p]]_vars

(* put drops the error of its private file's removal and leaves residue to *)
(* retention.  So a prune that reports success has reclaimed it: no name   *)
(* that was expired when the prune listed the directory still leads to     *)
(* that file, whatever publishers, expiry and another sweep did meanwhile. *)
ExpiredReclaimed ==
  [][\A s \in Pruners :
       result[s] # "ok" /\ result'[s] = "ok" =>
         \A e \in due[s] : e[1] \in Listing' => Inode(e[1])' # e[2]]_vars

(* A sweep takes an entry or a private file only if it is past retention   *)
(* at that very moment, as long as nobody else removes entries: it judged  *)
(* the name a step earlier, and publishers never put another file under a  *)
(* name that is taken.  With a second sweep it may take a new entry that   *)
(* was published under a name which the other one had freed.               *)
SweepTakesOldOnly ==
  [][\A s \in Sweepers :
       scenario.procs \cap Sweepers = {s} /\ pc[s] = "prune" /\ pc'[s] = "stat" =>
         Inode(at[s]) \in old]_vars

(* What readers find under an ID, for the refinement: the bytes of a file  *)
(* that is not complete are those of nobody.                               *)
Bytes(q) == IF q = None THEN None ELSE IF q \in written THEN content[q.of] ELSE "partial"

Register ==
  INSTANCE AbstractQuarantine WITH
    entry  <- [i \in Ids |-> Bytes(final[i])],
    kept   <- [i \in Ids |-> {Bytes(q) : q \in pending[i]}],
    answer <- [p \in Publishers |-> result[p]]

(* Links, directory syncs, convergence and sweeps add up to one register   *)
(* per candidate ID, as candidate write takes it to be.                    *)
ImplementsRegister == Register!Spec

(* docs/assurance/CANDIDATE_QUARANTINE_V1.md: an idempotent retry completes *)
(* cleanup, and a cleanup that fails is reported.                          *)
CleanupCompletes ==
  [][\A c \in Cleaners :
       result[c] # "ok" /\ result'[c] = "ok" => final'[id[c]] = None]_vars

(* Ensure ends: a publisher that keeps losing the name gives up when its   *)
(* deadline passes, and a sweep examines each entry once.                  *)
EveryProcessReturns ==
  \A p \in Procs : Running(p) ~> ~Running(p)
=============================================================================
