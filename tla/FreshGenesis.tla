---------------------------- MODULE FreshGenesis ----------------------------
(***************************************************************************)
(* Creation of a ledger (InitializeFreshGenesis of                         *)
(* internal/ledger/fresh_genesis.go over InitializeBareRoot of             *)
(* internal/gitledger/bootstrap.go) by concurrent initializers of one      *)
(* path, and the first commits made after it: events accepted by Core, and *)
(* configuration committed beside it, which only Replay judges.            *)
(*                                                                         *)
(* Faults: "io", a git command or file operation fails or is killed at its *)
(* deadline, update-ref possibly after it moved the ref; "crash", an       *)
(* initializer dies.  MaxCommits bounds the history.                       *)
(***************************************************************************)
EXTENDS LedgerHistory

CONSTANTS Inits,       \* the initializers
          Seeds,       \* Genesis records with their seed files
          Documents,   \* the values that events may carry
          Changes,     \* <<path, content>>: configuration commits
          Foreign,     \* seeds that others push as a root commit
          MaxCommits, Faults

ASSUME FaultsAssumption == Faults \subseteq {"io", "crash"}
ASSUME BoundAssumption == MaxCommits \in Nat \ {0}

VARIABLES
  path,    \* the target: "absent", "dir" (made, not a repository), "bare"
  hist,    \* the history of the authoritative ref; << >>: no such ref
  pc, seed, result

vars == << path, hist, pc, seed, result >>

(* The root commit of a seed.  It is deterministic: equal seeds are equal  *)
(* commits.                                                                *)
Tree(s) == [p \in DOMAIN s.files \cup {GenesisPath} |->
              IF p = GenesisPath THEN s.genesis ELSE s.files[p]]

validateFreshGenesisSeedPath(p) ==
  p[1] \in {"schemas", "bindings"} \/ p = PolicyPath

(* Variant: the bindings of a seed are not compared with one another.      *)
SeedBindingsApart(g, files) ==
  /\ Registers(files) /\ SchemasDeclared(files, g)
  /\ Bad \notin Contents(files, "bindings")
  /\ \A p \in In(files, "bindings") :
       /\ {BindingSchema, EventSchema} \subseteq SchemaIDs(files)
       /\ files[p].version = g.version
  /\ PolicyKind \in Bound(files)

validateFreshGenesisSeedContracts(g, files) ==
  /\ Registers(files) /\ SchemasDeclared(files, g)
  /\ Bad \notin Contents(files, "bindings")
  /\ \A p \in In(files, "bindings") :
       /\ {BindingSchema, EventSchema} \subseteq SchemaIDs(files)
       /\ files[p].version = g.version
       /\ \A q \in In(files, "bindings") \ {p} :
            files[q].id # files[p].id /\ files[q].kind # files[p].kind
  /\ PolicyKind \in Bound(files)

ValidSeed(s) ==
  /\ ValidGenesis(s.genesis)
  /\ \A p \in DOMAIN s.files : validateFreshGenesisSeedPath(p)
  /\ PolicyPath \in DOMAIN s.files
  /\ ParsePolicyDocument(s.files[PolicyPath], s.genesis.ledger, s.genesis.version)
  /\ ValidateInitialAuthorities(s.files[PolicyPath], s.genesis)
  /\ validateFreshGenesisSeedContracts(s.genesis, s.files)

IoFails == "io" \in Faults

Labels == {"start", "mkdir", "init", "commit", "ref", "head", "reopen", "policy", "done"}
Results == {"none", "invalid", "exists", "failed", "unverified", "created"}

Goto(i, label) == pc' = [pc EXCEPT ![i] = label] /\ UNCHANGED << seed, result >>

(* Only the evidence of a success says which seed it was.                  *)
Return(i, r) ==
  /\ pc' = [pc EXCEPT ![i] = "done"]
  /\ result' = [result EXCEPT ![i] = r]
  /\ seed' = [seed EXCEPT ![i] = IF r = "created" THEN @ ELSE Nil]

-----------------------------------------------------------------------------
(* InitializeFreshGenesis validates the seed before it touches the target. *)
Validate(i, s) ==
  /\ pc[i] = "start"
  /\ UNCHANGED << path, hist >>
  /\ \/ /\ ValidSeed(s)
        /\ seed' = [seed EXCEPT ![i] = s]
        /\ pc' = [pc EXCEPT ![i] = "mkdir"] /\ UNCHANGED result
     \/ ~ValidSeed(s) /\ Return(i, "invalid")

(* Variant: an existing repository is taken for the ledger.                *)
MkdirAdopts(i) ==
  /\ pc[i] = "mkdir"
  /\ UNCHANGED hist
  /\ \/ path = "absent" /\ path' = "dir" /\ Goto(i, "init")
     \/ path = "bare" /\ Return(i, "created") /\ UNCHANGED path

Mkdir(i) ==
  /\ pc[i] = "mkdir"
  /\ UNCHANGED hist
  /\ \/ path = "absent" /\ path' = "dir" /\ Goto(i, "init")
     \/ path # "absent" /\ Return(i, "exists") /\ UNCHANGED path
     \/ IoFails /\ Return(i, "failed") /\ UNCHANGED path

GitInit(i) ==
  /\ pc[i] = "init"
  /\ UNCHANGED hist
  /\ \/ path' = "bare" /\ Goto(i, "commit")
     \/ IoFails /\ path' \in {path, "bare"} /\ Return(i, "failed")

(* Blobs, tree and commit are objects that no ref reaches yet.             *)
CommitTree(i) ==
  /\ pc[i] = "commit"
  /\ UNCHANGED << path, hist >>
  /\ \/ Goto(i, "ref")
     \/ IoFails /\ Return(i, "failed")

(* Variant: update-ref without the zero old value.                         *)
UpdateRefForced(i) ==
  /\ pc[i] = "ref"
  /\ hist' = << Tree(seed[i]) >>
  /\ Goto(i, "head") /\ UNCHANGED path

(* update-ref with the zero old value: only a ref that does not exist.     *)
UpdateRef(i) ==
  /\ pc[i] = "ref"
  /\ UNCHANGED path
  /\ \/ hist = << >> /\ hist' = << Tree(seed[i]) >> /\ Goto(i, "head")
     \/ hist # << >> /\ UNCHANGED hist /\ Return(i, "failed")
     \/ /\ IoFails /\ Return(i, "failed")
        /\ hist' \in {hist} \cup (IF hist = << >> THEN {<< Tree(seed[i]) >>} ELSE {})

(* InitializeBareRoot reads the ref back.                                  *)
ReadBack(i) ==
  /\ pc[i] = "head"
  /\ UNCHANGED << path, hist >>
  /\ \/ hist = << Tree(seed[i]) >> /\ Goto(i, "reopen")
     \/ hist # << Tree(seed[i]) >> /\ Return(i, "unverified")
     \/ IoFails /\ Return(i, "failed")

(* Replay of the reopened ledger: one commit, the expected identity, and   *)
(* the configuration of the root with a binding for the policy kind.       *)
VerifyReplay(i) ==
  /\ pc[i] = "reopen"
  /\ UNCHANGED << path, hist >>
  /\ LET same == /\ Replays(hist) /\ hist = << Tree(seed[i]) >>
                 /\ PolicyKind \in Bound(hist[1])
     IN  \/ same /\ Goto(i, "policy")
         \/ ~same /\ Return(i, "unverified")
         \/ IoFails /\ Return(i, "failed")

(* LoadCurrentActorPolicy replays again: the head may have moved since.    *)
VerifyPolicy(i) ==
  /\ pc[i] = "policy"
  /\ UNCHANGED << path, hist >>
  /\ LET same == /\ hist = << Tree(seed[i]) >>
                 /\ LoadCurrentActorPolicy(hist) = seed[i].files[PolicyPath]
     IN  \/ same /\ Return(i, "created")
         \/ ~same /\ Return(i, "unverified")
         \/ IoFails /\ Return(i, "failed")

Crash(i) ==
  /\ "crash" \in Faults
  /\ pc[i] \notin {"start", "done"}
  /\ Return(i, "failed")  \* no answer at all
  /\ UNCHANGED << path, hist >>

-----------------------------------------------------------------------------
Types == {"created", "replaced", "revoked"}

With(tree, p, c) == [q \in DOMAIN tree \cup {p} |-> IF q = p THEN c ELSE tree[q]]

HeadBindings ==
  IF hist = << >> THEN {} ELSE Contents(hist[Len(hist)], "bindings") \ {Bad}

(* A candidate write accepted by Core at the actor-policy target.          *)
AcceptEvent(e) ==
  /\ hist # << >> /\ Len(hist) < MaxCommits
  /\ hist' = Append(hist, With(hist[Len(hist)], << "events", Len(hist) >>, e))
  /\ Replays(hist')
  /\ UNCHANGED << path, pc, seed, result >>

(* A commit made with git: a file is added, changed or (Nil) removed.      *)
Configure(p, c) ==
  /\ hist # << >> /\ Len(hist) < MaxCommits
  /\ LET t == hist[Len(hist)]
         u == IF c = Nil THEN Restrict(t, DOMAIN t \ {p}) ELSE With(t, p, c)
     IN  u # t /\ hist' = Append(hist, u)
  /\ UNCHANGED << path, pc, seed, result >>

(* A root commit pushed to the bare repository before the ref exists.      *)
ForeignRoot(s) ==
  /\ path = "bare" /\ hist = << >>
  /\ hist' = << Tree(s) >>
  /\ UNCHANGED << path, pc, seed, result >>

Init ==
  /\ path = "absent" /\ hist = << >>
  /\ pc = [i \in Inits |-> "start"]
  /\ seed = [i \in Inits |-> Nil]
  /\ result = [i \in Inits |-> "none"]

Step(i) ==
  \/ \E s \in Seeds : Validate(i, s)
  \/ Mkdir(i) \/ GitInit(i) \/ CommitTree(i) \/ UpdateRef(i)
  \/ ReadBack(i) \/ VerifyReplay(i) \/ VerifyPolicy(i)

Next ==
  \/ \E i \in Inits : Step(i) \/ Crash(i)
  \/ \E type \in Types, d \in Documents \cup {Nil}, b \in HeadBindings :
       AcceptEvent([type |-> type, kind |-> b.kind, version |-> b.version, value |-> d])
  \/ \E c \in Changes : Configure(c[1], c[2])
  \/ \E s \in Foreign : ForeignRoot(s)

Spec == Init /\ [][Next]_vars

-----------------------------------------------------------------------------
(* An initializer that got past the directory knows its seed, and a        *)
(* history exists only in a repository.                                    *)
TypeOK ==
  /\ path \in {"absent", "dir", "bare"}
  /\ pc \in [Inits -> Labels]
  /\ \A i \in Inits :
       seed[i] \in Seeds \/ (seed[i] = Nil /\ pc[i] \in {"start", "done"})
  /\ result \in [Inits -> Results]
  /\ Len(hist) <= MaxCommits
  /\ hist # << >> => path = "bare"

(* Replay never refuses a root that the seed check let through: when the   *)
(* verification of a created ledger fails, somebody has committed to it.   *)
(* All semantic seed errors are found before the target is created.        *)
SeedErrorsFoundFirst ==
  \A i \in Inits : result[i] = "unverified" => Len(hist) > 1

(* Evidence is returned to at most one initializer, and is true ever       *)
(* after: the history starts with its seed, that root replays, and the     *)
(* policy of the root can be governed by events.                           *)
EvidenceTrue ==
  \A i \in Inits : result[i] = "created" =>
    /\ hist # << >> /\ hist[1] = Tree(seed[i]) /\ Replays(<< hist[1] >>)
    /\ PolicyKind \in Bound(hist[1])
    /\ \A j \in Inits \ {i} : result[j] # "created"

(* No race, crash or retry replaces the root of a ledger.                  *)
GenesisFixed == [][hist # << >> => hist'[1] = hist[1]]_vars

(* While a ledger replays, no configuration ever changed in it: every      *)
(* Genesis, policy, schema, binding and event file of any commit is in all *)
(* later ones with the same content, even if a change was reverted.        *)
ConfigImmutable ==
  Replays(hist) =>
    \A i \in 1..Len(hist) : \A p \in DOMAIN hist[i] : \A j \in i..Len(hist) :
      p \in DOMAIN hist[j] /\ hist[j][p] = hist[i][p]

(* The policy in force is always one written for this ledger under the     *)
(* policy version of its Genesis, and after a revocation there is none,    *)
(* whatever is committed later.                                            *)
PolicyFailsClosed ==
  LET doc == LoadCurrentActorPolicy(hist)
  IN  doc # Nil =>
        /\ doc.ledger = hist[1][GenesisPath].ledger
        /\ doc.version = hist[1][GenesisPath].version
        /\ \A n \in 1..Len(hist) :
             AddedIn(hist, n, "events") # {} => EventAt(hist, n).type # "revoked"

(* The documents say that a ledger made by the bootstrap never has a trust *)
(* policy that cannot be rotated: while it replays and the policy is not   *)
(* revoked, some event that creates or replaces the policy is acceptable.  *)
PolicyRotatable ==
  \A i \in Inits :
    /\ result[i] = "created" /\ Replays(hist)
    /\ PolicyRecord(hist) = Nil \/ PolicyRecord(hist).status = "active"
    => \E d \in Documents, type \in {"created", "replaced"} :
         LET e == [type |-> type, kind |-> PolicyKind, value |-> d,
                   version |-> seed[i].genesis.version]
         IN  Replays(Append(hist, With(hist[Len(hist)], << "events", Len(hist) >>, e)))
=============================================================================
