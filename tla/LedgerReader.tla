---------------------------- MODULE LedgerReader ----------------------------
(***************************************************************************)
(* The hardened Reader of one ledger (internal/gitledger/reader.go and     *)
(* repository_safety.go) against a filesystem in which the directory at    *)
(* its path may be moved, deleted and recreated: construction, the         *)
(* identity check before every git command, Close, and the skeleton of     *)
(* Replay (internal/ledger/replay.go) made of those commands.              *)
(*                                                                         *)
(* A directory is a filesystem object with a number (its device and inode  *)
(* pair).  A number is free again once its directory is deleted and no     *)
(* handle is open on it.  Commits are content addressed: a commit is the   *)
(* sequence of the changes up to it, so equal commits have equal           *)
(* histories, in whatever repository they are read.                        *)
(***************************************************************************)
EXTENDS Naturals, Sequences, FiniteSets, SequencesExt

CONSTANTS Dirs,      \* repository directories
          Numbers,   \* device and inode pairs
          Calls,     \* concurrent calls on the Reader
          Changes,   \* what a commit may change
          MaxLen,    \* bound on the length of a history
          MaxMoves,  \* bound on what others may do to the filesystem
          None

ASSUME DirsAssumption == None \notin Dirs /\ Numbers # {}
ASSUME LengthAssumption == MaxLen \in Nat /\ MaxMoves \in Nat

VARIABLES
  path,      \* the directory at the ledger path; None: nothing, or a symlink
  linked,    \* directories that have a name somewhere in the filesystem
  number,    \* number[d]: the device and inode pair of d
  redirect,  \* redirect[d]: "ref", "store": how d leads Git out of itself
  ref,       \* ref[d]: the commit of the authoritative ref of d
  moves,     \* how much others may still do
  reader,    \* the Reader: "new", "opened", "ready", "closing", "closed", "failed"
  opened,    \* the directory whose identity the Reader recorded
  handle,    \* the directory on which the Reader holds an open handle
  pc,        \* pc[c]: the next step of call c
  head,      \* head[c]: the commit that call c replays
  raced,     \* raced[c]: the directory changed between a check and its use
  since      \* since[c]: the length of the ledger when c began

fs     == << path, linked, number, redirect, moves >>
root   == << reader, opened, handle >>
replay == << pc, head, raced, since >>
readerVars == << fs, ref, root, replay >>

(* What Git reads of a redirected repository is somebody else's.           *)
Foreign == << "foreign" >>

GitReads(d) == IF redirect[d] = {} THEN ref[d] ELSE Foreign

Has(d, commit) == d # None /\ IsPrefix(commit, GitReads(d))

InUse == {number[d] : d \in linked \cup ({handle} \ {None})}

-----------------------------------------------------------------------------
(* New.                                                                    *)

Goto(c, l) == pc' = [pc EXCEPT ![c] = l]

(* canonicalLedgerRoot has refused symlinks; the handle pins what is there *)
(* when it is opened.                                                      *)
NewOpen ==
  /\ reader = "new"
  /\ \/ /\ path # None
        /\ reader' = "opened" /\ opened' = path /\ handle' = path
     \/ path = None /\ reader' = "failed" /\ UNCHANGED << opened, handle >>
  /\ UNCHANGED << fs, ref, replay >>

SameFile(d)  == d # None /\ number[d] = number[opened]
DirectRef(d) == d # None /\ "ref" \notin redirect[d]

(* Variant: the identity is recorded and the handle closed.                *)
NewKeepsInfoOnly ==
  /\ reader = "opened"
  /\ handle' = None
  /\ reader' = IF SameFile(path) /\ DirectRef(path) THEN "ready" ELSE "failed"
  /\ UNCHANGED << fs, ref, opened, replay >>

(* Variant: a New that fails leaves its handle open.                       *)
NewLeaksHandle ==
  /\ reader = "opened"
  /\ reader' = IF SameFile(path) /\ DirectRef(path) THEN "ready" ELSE "failed"
  /\ UNCHANGED << fs, ref, opened, handle, replay >>

(* The path must still lead to the opened directory, and the authoritative *)
(* ref must be direct.                                                     *)
NewCompare ==
  /\ reader = "opened"
  /\ \/ /\ SameFile(path) /\ DirectRef(path)
        /\ reader' = "ready" /\ UNCHANGED handle
     \/ /\ ~(SameFile(path) /\ DirectRef(path))
        /\ reader' = "failed" /\ handle' = None
  /\ UNCHANGED << fs, ref, opened, replay >>

(* Close asks for the write lock: from then on no read lock is granted.    *)
CloseLock ==
  /\ reader = "ready"
  /\ reader' = "closing"
  /\ UNCHANGED << fs, ref, opened, handle, replay >>

(* Variant: Head keeps the root held from its check to its command, which  *)
(* asks for the read lock again.                                           *)
HoldingAcross == {c \in Calls : pc[c] \in {"reffile", "head", "githead", "gitread"}}

(* Calls that hold the read lock: a git command runs under it.             *)
Holding == {c \in Calls : pc[c] \in {"githead", "gitread"}}

CloseHandle ==
  /\ reader = "closing" /\ Holding = {}
  /\ reader' = "closed" /\ handle' = None
  /\ UNCHANGED << fs, ref, opened, replay >>

-----------------------------------------------------------------------------
(* Replay, as the commands that it makes on the Reader.                    *)

Readable == reader \in {"ready", "closed"}   \* RLock does not block

(* Variant: the root is compared when the Reader is made, and not again.   *)
TrustsRoot == reader = "ready" /\ path # None

(* checkRepositoryRootSafetyLocked                                         *)
RootSafe == reader = "ready" /\ SameFile(path)

Fail(c) == Goto(c, "failed") /\ head' = [head EXCEPT ![c] = None]

(* CheckHistorySafety: checkRepositoryRootSafety, then the layout of       *)
(* whatever is at the path, unlocked.                                      *)
ReplayBegin(c) ==
  /\ pc[c] = "idle" /\ Readable
  /\ \/ RootSafe /\ Goto(c, "layout") /\ UNCHANGED head
     \/ ~RootSafe /\ Fail(c)
  /\ raced' = [raced EXCEPT ![c] = FALSE]
  /\ since' = [since EXCEPT ![c] = IF opened = None THEN 0 ELSE Len(ref[opened])]
  /\ UNCHANGED << fs, ref, root >>

(* Variant: only the authoritative ref is examined.                        *)
SafeRef(d) == DirectRef(d)

(* No commondir, alternates, grafts, shallow file, symlink, include ...    *)
SafeLayout(d) == d # None /\ redirect[d] = {}

checkRepositoryLayoutSafety(c) ==
  /\ pc[c] = "layout"
  /\ \/ SafeLayout(path) /\ Goto(c, "refroot") /\ UNCHANGED head
     \/ ~SafeLayout(path) /\ Fail(c)
  /\ UNCHANGED << fs, ref, root, raced, since >>

(* Head: checkAuthoritativeRefSafety, the root first, then the ref file    *)
(* (CheckHistorySafety makes the same check once more before it).          *)
HeadRoot(c) ==
  /\ pc[c] = "refroot" /\ Readable
  /\ \/ RootSafe /\ Goto(c, "reffile") /\ UNCHANGED head
     \/ ~RootSafe /\ Fail(c)
  /\ UNCHANGED << fs, ref, root, raced, since >>

checkAuthoritativeRefSafety(c) ==
  /\ pc[c] = "reffile"
  /\ \/ DirectRef(path) /\ Goto(c, "head") /\ UNCHANGED head
     \/ ~DirectRef(path) /\ Fail(c)
  /\ UNCHANGED << fs, ref, root, raced, since >>

(* run: holdRepositoryRoot takes the read lock and checks the root; the    *)
(* git process then finds the repository by its path; the lock is released *)
(* when it ends.                                                           *)
holdRepositoryRoot(c) ==
  /\ pc[c] \in {"head", "read"} /\ Readable
  /\ \/ RootSafe /\ Goto(c, IF pc[c] = "head" THEN "githead" ELSE "gitread") /\ UNCHANGED head
     \/ ~RootSafe /\ Fail(c)
  /\ UNCHANGED << fs, ref, root, raced, since >>

RunHead(c) ==
  /\ pc[c] = "githead"
  /\ \/ path # None /\ head' = [head EXCEPT ![c] = GitReads(path)] /\ Goto(c, "read")
     \/ path = None /\ Fail(c)
  /\ UNCHANGED << fs, ref, root, raced, since >>

(* FSCK, History and the reads of every commit name commits: they succeed  *)
(* where those commits are.  They are alike, and are one command here.     *)
RunRead(c) ==
  /\ pc[c] = "gitread"
  /\ \/ Has(path, head[c]) /\ Goto(c, "done") /\ UNCHANGED head
     \/ ~Has(path, head[c]) /\ Fail(c)
  /\ UNCHANGED << fs, ref, root, raced, since >>

(* A command fails, or is killed at its deadline or with its context.      *)
RunFails(c) ==
  /\ pc[c] \in {"githead", "gitread"}
  /\ Fail(c)
  /\ UNCHANGED << fs, ref, root, raced, since >>

Replay(c) ==
  \/ ReplayBegin(c) \/ checkRepositoryLayoutSafety(c) \/ HeadRoot(c)
  \/ checkAuthoritativeRefSafety(c) \/ holdRepositoryRoot(c) \/ RunHead(c) \/ RunRead(c)

-----------------------------------------------------------------------------
(* What others do.  A call is raced when the directory is exchanged        *)
(* between a check and the use it was made for, or leads Git astray after  *)
(* its layout was examined: ownership and permissions of the service must  *)
(* exclude that ("remain necessary to close races after these checks").    *)

Exposed == {c \in Calls : pc[c] \in {"layout", "reffile", "githead", "gitread"}}
Examined == {c \in Calls :
               pc[c] \in {"refroot", "reffile", "head", "githead", "read", "gitread"}}

Race(C) == raced' = [c \in Calls |-> raced[c] \/ c \in C]

Moving == moves > 0 /\ moves' = moves - 1 /\ UNCHANGED << ref, root, pc, head, since >>

(* The directory is renamed away, or deleted.                              *)
MoveAway ==
  /\ Moving /\ path # None
  /\ path' = None /\ linked' \in {linked, linked \ {path}}
  /\ Race(Exposed) /\ UNCHANGED << number, redirect >>

(* Another directory is put in its place.                                  *)
MoveIn(d) ==
  /\ Moving /\ path = None /\ d \in linked
  /\ path' = d
  /\ Race(Exposed) /\ UNCHANGED << linked, number, redirect >>

Create(d) ==
  /\ Moving /\ path = None /\ d \notin linked /\ d # opened
  /\ path' = d /\ linked' = linked \cup {d}
  /\ \E n \in Numbers \ InUse : number' = [number EXCEPT ![d] = n]
  /\ Race(Exposed) /\ UNCHANGED redirect

(* A symbolic authoritative ref, or a commondir, alternates, grafts, a     *)
(* symlink or a configuration that leads elsewhere.                        *)
Tamper(d, how) ==
  /\ Moving /\ d \in linked /\ how \notin redirect[d]
  /\ redirect' = [redirect EXCEPT ![d] = @ \cup {how}]
  /\ Race(Examined) /\ UNCHANGED << path, linked, number >>

(* A commit is accepted (CandidateWrite).                                  *)
Advance(d, change) ==
  /\ Len(ref[d]) < MaxLen
  /\ ref' = [ref EXCEPT ![d] = Append(@, change)]
  /\ UNCHANGED << fs, root, replay >>

ReaderInit(ledger, initialRef, budget) ==
  /\ path = ledger /\ linked = {ledger}
  /\ number = [d \in Dirs |-> CHOOSE n \in Numbers : TRUE]
  /\ redirect = [d \in Dirs |-> {}] /\ ref = initialRef /\ moves = budget
  /\ reader = "new" /\ opened = None /\ handle = None
  /\ pc = [c \in Calls |-> "idle"] /\ head = [c \in Calls |-> None]
  /\ raced = [c \in Calls |-> FALSE] /\ since = [c \in Calls |-> 0]

ReplayLabels == {"idle", "layout", "refroot", "reffile", "head", "githead",
                 "read", "gitread", "done", "failed"}

ReaderTypeOK ==
  /\ path \in Dirs \cup {None} /\ linked \subseteq Dirs
  /\ number \in [Dirs -> Numbers]
  /\ redirect \in [Dirs -> SUBSET {"ref", "store"}]
  /\ ref \in [Dirs -> Seq(Changes)]
  /\ moves \in 0..MaxMoves
  /\ reader \in {"new", "opened", "ready", "closing", "closed", "failed"}
  /\ opened \in Dirs \cup {None} /\ handle \in {opened, None}
  /\ handle # None <=> reader \in {"opened", "ready", "closing"}
  /\ pc \in [Calls -> ReplayLabels]
  /\ head \in [Calls -> Seq(Changes) \cup {None, Foreign}]
  /\ raced \in [Calls -> BOOLEAN] /\ since \in [Calls -> 0..MaxLen]
=============================================================================
