--------------------------- MODULE LedgerHistory ----------------------------
(***************************************************************************)
(* What Replay (internal/ledger/replay.go) accepts as the history of a     *)
(* ledger, and the actor policy that LoadCurrentActorPolicy                *)
(* (internal/ledger/actor_policy.go) derives from it, as operators.        *)
(*                                                                         *)
(* A history is a sequence of trees, the root commit first; a tree maps    *)
(* paths to contents.  A path is a pair of its directory and a number,     *)
(* where number 0 is root.json.  The content Bad stands for bytes that are *)
(* not what their directory holds: not strict or canonical JSON, a wrong   *)
(* digest, an undecodable document.  Governed events are reduced at the    *)
(* actor-policy target only; Reducer has the reducer in full.              *)
(***************************************************************************)
EXTENDS Naturals, Sequences, FiniteSets, Functions

CONSTANTS PolicyKind,     \* actorauth.PolicyRecordKind
          BindingSchema,  \* contracts.ReducerBindingSchemaV1
          EventSchema,    \* contracts.ExclusiveRecordEventSchemaV1
          Bad, Nil

GenesisPath == << "genesis", 0 >>       \* genesis.LedgerPath
PolicyPath  == << "actor-policy", 0 >>  \* actorauth.LedgerPolicyPath

EmptyTree == << >>

In(tree, dir) == {p \in DOMAIN tree : p[1] = dir}
Contents(tree, dir) == {tree[p] : p \in In(tree, dir)}

(* CommitTreeChanges: what commit i adds, and what it alters or removes.   *)
Before(hist, i) == IF i = 1 THEN EmptyTree ELSE hist[i - 1]
Added(hist, i) == DOMAIN hist[i] \ DOMAIN Before(hist, i)
Altered(hist, i) ==
  {p \in DOMAIN Before(hist, i) :
     p \notin DOMAIN hist[i] \/ hist[i][p] # Before(hist, i)[p]}

AddedIn(hist, i, dir) == {p \in Added(hist, i) : p[1] = dir}

(* Variant: a file may be modified, only its removal is an error.          *)
OnlyRemovalRefused(hist, i, dir) ==
  \A p \in Altered(hist, i) : p[1] = dir => p \in DOMAIN hist[i]

(* ImmutableJSONAdditions, EventAdditions: nothing below the directory is  *)
(* ever altered.                                                           *)
AppendOnly(hist, i, dir) == \A p \in Altered(hist, i) : p[1] # dir

validateAuthoritativeLedgerPath(p) ==
  p \in {GenesisPath, PolicyPath} \/ p[1] \in {"schemas", "bindings", "events"}

NamespaceValid(hist) ==
  \A i \in 1..Len(hist) : \A p \in Added(hist, i) \cup Altered(hist, i) :
    validateAuthoritativeLedgerPath(p)

-----------------------------------------------------------------------------
(* genesis.Validate: the lists are sorted and free of duplicates, so they  *)
(* are sets here.                                                          *)
ValidGenesis(g) == g # Bad /\ g.authorities # {}

(* The policy names this ledger and this policy version, and every granted *)
(* actor has an active key.                                                *)
ParsePolicyDocument(doc, ledger, version) ==
  /\ doc \notin {Bad, Nil}
  /\ doc.ledger = ledger /\ doc.version = version
  /\ doc.grants # {} /\ doc.grants \subseteq doc.keys

ValidateInitialAuthorities(doc, g) == doc.grants = g.authorities

SchemaIDs(tree) == {s.id : s \in Contents(tree, "schemas")}

(* registry.Add on every schema file: the right dialect, no ID twice.      *)
Registers(tree) ==
  /\ \A s \in Contents(tree, "schemas") : s # Bad /\ s.draft2020
  /\ Cardinality(SchemaIDs(tree)) = Cardinality(In(tree, "schemas"))

loadSchemasAt(tree) == In(tree, "schemas") # {} /\ Registers(tree)

(* The schemas of the root are exactly the ones Genesis declares.          *)
SchemasDeclared(tree, g) ==
  /\ Bad \notin Contents(tree, "schemas")
  /\ Cardinality(In(tree, "schemas")) = Cardinality(g.schemas)
  /\ SchemaIDs(tree) = g.schemas

LoadReducerBindingsAt(tree) ==
  /\ In(tree, "bindings") # {} => {BindingSchema, EventSchema} \subseteq SchemaIDs(tree)
  /\ Bad \notin Contents(tree, "bindings")
  /\ \A p, q \in In(tree, "bindings") :
       p # q => tree[q].id # tree[p].id /\ tree[q].kind # tree[p].kind

Bound(tree) == {b.kind : b \in Contents(tree, "bindings")}
BindingOf(tree, kind) == CHOOSE b \in Contents(tree, "bindings") : b.kind = kind

(* validateInitialActorPolicyHistory                                       *)
RootPolicyValid(hist, g) ==
  /\ AddedIn(hist, 1, "actor-policy") = {PolicyPath}
  /\ ParsePolicyDocument(hist[1][PolicyPath], g.ledger, g.version)
  /\ ValidateInitialAuthorities(hist[1][PolicyPath], g)
  /\ \A i \in 2..Len(hist) :
       AppendOnly(hist, i, "actor-policy") /\ AddedIn(hist, i, "actor-policy") = {}

validateGenesisHistory(hist) ==
  /\ hist # << >>
  /\ AddedIn(hist, 1, "genesis") = {GenesisPath}
  /\ AddedIn(hist, 1, "events") = {}
  /\ ValidGenesis(hist[1][GenesisPath])
  /\ SchemasDeclared(hist[1], hist[1][GenesisPath])
  /\ RootPolicyValid(hist, hist[1][GenesisPath])
  /\ \A i \in 2..Len(hist) :
       AppendOnly(hist, i, "genesis") /\ AddedIn(hist, i, "genesis") = {}

-----------------------------------------------------------------------------
(* The record at the actor-policy target: absent (Nil), or its kind, its   *)
(* status and its value.                                                   *)
Reduce(state, e) ==
  [kind |-> e.kind, status |-> IF e.type = "revoked" THEN "revoked" ELSE "active",
   value |-> e.value]

Reducible(state, e) ==
  /\ e.type = "created" <=> state = Nil
  /\ state # Nil => state.status = "active" /\ state.kind = e.kind
  /\ e.type = "revoked" <=> e.value = Nil

(* The event that commit i adds, if any: Core adds one per commit.         *)
EventAt(hist, i) == hist[i][CHOOSE p \in AddedIn(hist, i, "events") : TRUE]

PolicyRecord(hist) ==
  LET after[n \in 0..Len(hist)] ==
        IF n = 0 THEN Nil
        ELSE IF AddedIn(hist, n, "events") = {} THEN after[n - 1]
        ELSE Reduce(after[n - 1], EventAt(hist, n))
  IN  after[Len(hist)]

(* applyGovernedRecordEvent                                                *)
Governs(tree, g, e) ==
  /\ e.kind \in Bound(tree)
  /\ e.version = BindingOf(tree, e.kind).version
  /\ e.kind = PolicyKind /\ e.type # "revoked" =>
       ParsePolicyDocument(e.value, g.ledger, e.version)

(* The loop of Replay: a commit that adds configuration or an event is     *)
(* checked against the configuration of its own tree.                      *)
CommitReplays(hist, i) ==
  LET g == hist[1][GenesisPath]
      news == UNION {AddedIn(hist, i, d) : d \in {"schemas", "bindings", "events"}}
  IN  /\ \A d \in {"schemas", "bindings", "events"} : AppendOnly(hist, i, d)
      /\ news # {} =>
           /\ loadSchemasAt(hist[i]) /\ LoadReducerBindingsAt(hist[i])
           /\ i = 1 => \A b \in Contents(hist[i], "bindings") : b.version = g.version
           /\ AddedIn(hist, i, "events") # {} =>
                LET e == EventAt(hist, i)
                IN  /\ e # Bad /\ EventSchema \in SchemaIDs(hist[i])
                    /\ Governs(hist[i], g, e)
                    /\ Reducible(PolicyRecord(SubSeq(hist, 1, i - 1)), e)

Replays(hist) ==
  /\ NamespaceValid(hist)
  /\ validateGenesisHistory(hist)
  /\ \A i \in 1..Len(hist) : CommitReplays(hist, i)

(* Variant: a revoked policy falls back to the one of the root.            *)
FallBackToRoot(hist) ==
  IF ~Replays(hist) THEN Nil
  ELSE LET s == PolicyRecord(hist)
       IN  IF s = Nil \/ s.status = "revoked" THEN hist[1][PolicyPath]
           ELSE IF s.kind # PolicyKind THEN Nil ELSE s.value

(* The policy in force, or Nil where the code returns an error.            *)
LoadCurrentActorPolicy(hist) ==
  IF ~Replays(hist) THEN Nil
  ELSE LET g == hist[1][GenesisPath]
           s == PolicyRecord(hist)
       IN  IF s = Nil THEN hist[1][PolicyPath]
           ELSE IF /\ s.kind = PolicyKind /\ s.status = "active"
                   /\ ParsePolicyDocument(s.value, g.ledger, g.version)
           THEN s.value ELSE Nil
=============================================================================
