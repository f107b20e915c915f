------------------------- MODULE FreshGenesisProofs -------------------------
(***************************************************************************)
(* Proofs about FreshGenesis and the replay of LedgerHistory: a seed that  *)
(* was validated always replays, the root of a ledger is never replaced,   *)
(* evidence stays true, accepted configuration is immutable and the policy *)
(* in force fails closed.  No assumption is made about the trees that are  *)
(* committed beside Core.                                                  *)
(***************************************************************************)
EXTENDS FreshGenesis, SequenceFacts

(* Histories are sequences of trees; trees may hold anything.              *)
IsHistory(h) == \E S : h \in Seq(S)

LEMMA HistoryAppend ==
  ASSUME NEW h, IsHistory(h), NEW x
  PROVE  /\ IsHistory(Append(h, x)) /\ Len(h) \in Nat
         /\ Len(Append(h, x)) = Len(h) + 1 /\ Append(h, x)[Len(h) + 1] = x
         /\ \A i \in 1..Len(h) : Append(h, x)[i] = h[i]
PROOF
  <1>1. PICK S : h \in Seq(S)
    BY DEF IsHistory
  <1>2. h \in Seq(S \cup {x})
    <2>1. h \in [1..Len(h) -> S] /\ Len(h) \in Nat
      BY <1>1
    <2>2. h \in [1..Len(h) -> S \cup {x}]
      BY <2>1
    <2> QED
      BY <2>1, <2>2
  <1>3. Append(h, x) \in Seq(S \cup {x})
    BY <1>2
  <1> QED
    BY <1>2, <1>3 DEF IsHistory

LEMMA HistoryRoot == ASSUME NEW x PROVE IsHistory(<< x >>) /\ Len(<< x >>) = 1 /\ << x >>[1] = x
PROOF
  <1>1. << x >> \in Seq({x})
    OBVIOUS
  <1> QED
    BY <1>1 DEF IsHistory

LEMMA HistoryLength ==
  ASSUME NEW h, IsHistory(h)
  PROVE  /\ Len(h) \in Nat
         /\ h = << >> <=> Len(h) = 0
         /\ Len(h) = 1 => h = << h[1] >>
PROOF
  <1>1. PICK S : h \in Seq(S)
    BY DEF IsHistory
  <1>2. Len(h) = 1 => h = << h[1] >>
    BY <1>1
  <1> QED
    BY <1>1, <1>2

-----------------------------------------------------------------------------
(* A history that replays never altered anything.                          *)
LEMMA NothingAltered ==
  ASSUME NEW h, Replays(h), NEW i \in 2..Len(h)
  PROVE  Altered(h, i) = {}
PROOF
  <1> SUFFICES ASSUME NEW p \in Altered(h, i) PROVE FALSE
    OBVIOUS
  <1>1. PICK n \in 1..Len(h) : n = i
    OBVIOUS
  <1>2. validateAuthoritativeLedgerPath(p)
    BY <1>1 DEF Replays, NamespaceValid
  <1>3. AppendOnly(h, i, "genesis") /\ AppendOnly(h, i, "actor-policy")
    BY DEF Replays, validateGenesisHistory, RootPolicyValid
  <1>4. \A d \in {"schemas", "bindings", "events"} : AppendOnly(h, i, d)
    BY <1>1 DEF Replays, CommitReplays
  <1> QED
    BY <1>2, <1>3, <1>4
       DEF AppendOnly, validateAuthoritativeLedgerPath, GenesisPath, PolicyPath

(* What one commit of it holds, all later ones hold unchanged.             *)
LEMMA ContentKept ==
  ASSUME NEW h, Len(h) \in Nat, Replays(h), NEW i \in 1..Len(h), NEW p \in DOMAIN h[i],
         NEW j \in i..Len(h)
  PROVE  p \in DOMAIN h[j] /\ h[j][p] = h[i][p]
PROOF
  <1> DEFINE Lost == {m \in i..Len(h) : ~(p \in DOMAIN h[m] /\ h[m][p] = h[i][p])}
  <1>1. SUFFICES ASSUME Lost # {} PROVE FALSE
    OBVIOUS
  <1>2. PICK k \in Lost : \A m \in Lost : k <= m
    <2>1. Lost \in SUBSET Nat
      OBVIOUS
    <2> QED
      BY <1>1, <2>1, LeastNumber
  <1>3. k \in 2..Len(h) /\ k # 1 /\ k - 1 \in i..Len(h) /\ k - 1 \notin Lost
    <2>1. k \in i..Len(h) /\ k # i
      BY <1>2
    <2>2. k - 1 \in i..Len(h) /\ k \in 2..Len(h) /\ ~(k <= k - 1)
      BY <2>1
    <2> QED
      BY <1>2, <2>2
  <1>4. p \in DOMAIN h[k - 1] /\ h[k - 1][p] = h[i][p]
    BY <1>3
  <1>5. p \notin Altered(h, k)
    BY <1>3, NothingAltered
  <1>6. Before(h, k) = h[k - 1]
    BY <1>3 DEF Before
  <1>7. p \in DOMAIN h[k] /\ h[k][p] = h[k - 1][p]
    BY <1>4, <1>5, <1>6 DEF Altered
  <1> QED
    BY <1>2, <1>4, <1>7

LEMMA ReplayedImmutable ==
  ASSUME IsHistory(hist) PROVE ConfigImmutable
PROOF
  BY HistoryLength, ContentKept DEF ConfigImmutable

-----------------------------------------------------------------------------
(* The policy record.  f is the record after each of the first n commits   *)
(* of h; it exists, and the commits alone determine it.                    *)
Reduced(h, n, f) ==
  f = [m \in 0..n |-> IF m = 0 THEN Nil
                      ELSE IF AddedIn(h, m, "events") = {} THEN f[m - 1]
                      ELSE Reduce(f[m - 1], EventAt(h, m))]

(* One commit of it, from record r.                                        *)
Advance(h, m, r) ==
  IF AddedIn(h, m, "events") = {} THEN r ELSE Reduce(r, EventAt(h, m))

LEMMA ReducedAt ==
  ASSUME NEW h, NEW n \in Nat, NEW f, Reduced(h, n, f), NEW m \in 0..n
  PROVE  f[m] = IF m = 0 THEN Nil ELSE Advance(h, m, f[m - 1])
PROOF
  <1>1. f[m] = IF m = 0 THEN Nil
               ELSE IF AddedIn(h, m, "events") = {} THEN f[m - 1]
               ELSE Reduce(f[m - 1], EventAt(h, m))
    BY DEF Reduced
  <1> QED
    BY <1>1 DEF Advance

LEMMA ReducedExists ==
  ASSUME NEW h, NEW n \in Nat
  PROVE  \E f : Reduced(h, n, f)
PROOF
  <1> DEFINE Missing == {m \in Nat : ~ \E f : Reduced(h, m, f)}
  <1>1. SUFFICES ASSUME Missing # {} PROVE FALSE
    OBVIOUS
  <1>2. PICK k \in Missing : \A m \in Missing : k <= m
    <2>1. Missing \in SUBSET Nat
      OBVIOUS
    <2> QED
      BY <1>1, <2>1, LeastNumber
  <1>3. CASE k = 0
    <2> DEFINE f == [m \in 0..0 |-> Nil]
    <2>1. Reduced(h, 0, f)
      BY DEF Reduced
    <2> QED
      BY <1>3, <2>1
  <1>4. CASE k # 0
    <2>1. k - 1 \in Nat /\ k - 1 \notin Missing
      BY <1>2, <1>4
    <2>2. PICK g : Reduced(h, k - 1, g)
      BY <2>1
    <2> DEFINE f == [m \in 0..k |-> IF m < k THEN g[m] ELSE Advance(h, k, g[k - 1])]
    <2>3. ASSUME NEW m \in 0..k
          PROVE  f[m] = IF m = 0 THEN Nil ELSE Advance(h, m, f[m - 1])
      <3>1. CASE m = k
        <4>1. f[m] = Advance(h, k, g[k - 1]) /\ f[m - 1] = g[k - 1]
          BY <1>2, <2>1, <3>1
        <4> QED
          BY <1>4, <3>1, <4>1
      <3>2. CASE m # k
        <4>1. f[m] = g[m] /\ m \in 0..(k - 1) /\ (m # 0 => f[m - 1] = g[m - 1])
          BY <1>2, <2>1, <3>2
        <4>2. g[m] = IF m = 0 THEN Nil ELSE Advance(h, m, g[m - 1])
          BY <2>2, <4>1 DEF Reduced, Advance
        <4> QED
          BY <4>1, <4>2
      <3> QED
        BY <3>1, <3>2
    <2>4. f = [m \in 0..k |-> f[m]]
      OBVIOUS
    <2> HIDE DEF f
    <2>5. Reduced(h, k, f)
      BY <2>3, <2>4 DEF Reduced, Advance
    <2> QED
      BY <1>2, <2>5
  <1> QED
    BY <1>3, <1>4

LEMMA ReducedAgrees ==
  ASSUME NEW h, NEW u, NEW n \in Nat, NEW k \in Nat, k <= n,
         NEW f, Reduced(h, n, f), NEW g, Reduced(u, k, g),
         \A m \in 1..k : AddedIn(h, m, "events") = AddedIn(u, m, "events")
                         /\ EventAt(h, m) = EventAt(u, m)
  PROVE  f[k] = g[k]
PROOF
  <1> DEFINE Differ == {m \in 0..k : f[m] # g[m]}
  <1>1. SUFFICES ASSUME Differ # {} PROVE FALSE
    OBVIOUS
  <1>2. PICK j \in Differ : \A m \in Differ : j <= m
    <2>1. Differ \in SUBSET Nat
      OBVIOUS
    <2> QED
      BY <1>1, <2>1, LeastNumber
  <1>3. /\ f[j] = IF j = 0 THEN Nil ELSE Advance(h, j, f[j - 1])
        /\ g[j] = IF j = 0 THEN Nil ELSE Advance(u, j, g[j - 1])
    <2>1. j \in 0..n /\ j \in 0..k
      OBVIOUS
    <2> QED
      BY <2>1, ReducedAt
  <1>4. CASE j = 0
    BY <1>3, <1>4
  <1>5. CASE j # 0
    <2>1. j - 1 \in 0..k /\ j - 1 \notin Differ /\ j \in 1..k
      BY <1>2, <1>5
    <2>2. f[j - 1] = g[j - 1] /\ Advance(h, j, f[j - 1]) = Advance(u, j, g[j - 1])
      BY <2>1 DEF Advance
    <2> QED
      BY <1>3, <1>5, <2>2
  <1> QED
    BY <1>4, <1>5

(* What PolicyRecord computes.                                             *)
LEMMA RecordReduced ==
  ASSUME NEW h, Len(h) \in Nat
  PROVE  \E f : Reduced(h, Len(h), f) /\ PolicyRecord(h) = f[Len(h)]
PROOF
  <1> DEFINE r == CHOOSE f : Reduced(h, Len(h), f)
  <1>1. \E f : Reduced(h, Len(h), f)
    BY ReducedExists
  <1>2. Reduced(h, Len(h), r)
    BY <1>1
  <1>3. PolicyRecord(h) = r[Len(h)]
    BY Zenon DEF PolicyRecord, Reduced
  <1> QED
    BY <1>2, <1>3

(* The record of a prefix is the record at that point.                     *)
LEMMA RecordOfPrefix ==
  ASSUME NEW h, IsHistory(h), NEW f, Reduced(h, Len(h), f), NEW k \in 0..Len(h)
  PROVE  PolicyRecord(SubSeq(h, 1, k)) = f[k]
PROOF
  <1>1. PICK S : h \in Seq(S)
    BY DEF IsHistory
  <1>2. PICK u : u = SubSeq(h, 1, k)
    OBVIOUS
  <1>3. Len(h) \in Nat /\ Len(u) = k /\ \A m \in 1..k : u[m] = h[m]
    BY <1>1, <1>2
  <1>4. PICK g : Reduced(u, Len(u), g) /\ PolicyRecord(u) = g[Len(u)]
    BY <1>3, RecordReduced
  <1>5. ASSUME NEW m \in 1..k
        PROVE  AddedIn(h, m, "events") = AddedIn(u, m, "events") /\ EventAt(h, m) = EventAt(u, m)
    <2>1. u[m] = h[m] /\ (m # 1 => m - 1 \in 1..k)
      BY <1>3
    <2>2. Before(h, m) = Before(u, m)
      BY <1>3, <2>1 DEF Before
    <2>3. AddedIn(h, m, "events") = AddedIn(u, m, "events")
      BY <2>1, <2>2 DEF AddedIn, Added
    <2> QED
      BY <2>1, <2>3 DEF EventAt
  <1>6. f[k] = g[k]
    <2>1. Len(h) \in Nat /\ k \in Nat /\ k <= Len(h) /\ Reduced(u, k, g)
      BY <1>3, <1>4
    <2> QED
      BY <1>5, <2>1, ReducedAgrees
  <1> QED
    BY <1>2, <1>3, <1>4, <1>6

-----------------------------------------------------------------------------
(* The policy in force.  The absence of a record is not a record.          *)
NilApart == \A k, st, v : Nil # [kind |-> k, status |-> st, value |-> v]

(* Once an event has revoked the policy, the record stays revoked: the     *)
(* reducer accepts no further event at the target.                         *)
LEMMA RevokedForGood ==
  ASSUME NilApart, NEW h, IsHistory(h), Replays(h), NEW f, Reduced(h, Len(h), f),
         NEW n \in 1..Len(h), AddedIn(h, n, "events") # {}, EventAt(h, n).type = "revoked",
         NEW m \in n..Len(h)
  PROVE  f[m] # Nil /\ f[m].status = "revoked"
PROOF
  <1> DEFINE Back == {j \in n..Len(h) : ~(f[j] # Nil /\ f[j].status = "revoked")}
  <1>1. SUFFICES ASSUME Back # {} PROVE FALSE
    OBVIOUS
  <1>2. PICK k \in Back : \A j \in Back : k <= j
    <2>1. Back \in SUBSET Nat
      OBVIOUS
    <2> QED
      BY <1>1, <2>1, LeastNumber
  <1>3. Len(h) \in Nat
    BY HistoryLength
  <1>4. k \in 1..Len(h) /\ f[k] = Advance(h, k, f[k - 1])
    <2>1. k \in 0..Len(h) /\ k # 0
      BY <1>2, <1>3
    <2> QED
      BY <1>3, <2>1, ReducedAt
  <1>5. CASE k = n
    <2>1. f[k] = Reduce(f[k - 1], EventAt(h, k))
      BY <1>4, <1>5 DEF Advance
    <2>2. f[k].status = "revoked"
      BY <1>5, <2>1 DEF Reduce
    <2>3. f[k] # Nil
      BY <2>1 DEF Reduce, NilApart
    <2> QED
      BY <1>2, <2>2, <2>3
  <1>6. CASE k # n
    <2>1. k - 1 \in n..Len(h) /\ k - 1 \in 0..Len(h) /\ ~(k <= k - 1)
      BY <1>2, <1>3, <1>6
    <2>2. f[k - 1] # Nil /\ f[k - 1].status = "revoked"
      BY <1>2, <2>1
    <2>3. CASE AddedIn(h, k, "events") = {}
      BY <1>2, <1>4, <2>2, <2>3 DEF Advance
    <2>4. CASE AddedIn(h, k, "events") # {}
      <3>1. PolicyRecord(SubSeq(h, 1, k - 1)) = f[k - 1]
        BY <2>1, RecordOfPrefix
      <3>2. CommitReplays(h, k)
        BY <1>4 DEF Replays
      <3>3. Reducible(PolicyRecord(SubSeq(h, 1, k - 1)), EventAt(h, k))
        BY <2>4, <3>2 DEF CommitReplays
      <3> QED
        BY <2>2, <3>1, <3>3 DEF Reducible
    <2> QED
      BY <2>3, <2>4
  <1> QED
    BY <1>5, <1>6

LEMMA PolicyTrue ==
  ASSUME NilApart, IsHistory(hist) PROVE PolicyFailsClosed
PROOF
  <1> SUFFICES ASSUME LoadCurrentActorPolicy(hist) # Nil
               PROVE  /\ LoadCurrentActorPolicy(hist).ledger = hist[1][GenesisPath].ledger
                      /\ LoadCurrentActorPolicy(hist).version = hist[1][GenesisPath].version
                      /\ \A n \in 1..Len(hist) :
                           AddedIn(hist, n, "events") # {} => EventAt(hist, n).type # "revoked"
    BY DEF PolicyFailsClosed
  <1>1. Replays(hist)
    BY DEF LoadCurrentActorPolicy
  <1>2. \/ /\ PolicyRecord(hist) = Nil
           /\ LoadCurrentActorPolicy(hist) = hist[1][PolicyPath]
        \/ /\ PolicyRecord(hist) # Nil /\ PolicyRecord(hist).status = "active"
           /\ ParsePolicyDocument(PolicyRecord(hist).value, hist[1][GenesisPath].ledger,
                                  hist[1][GenesisPath].version)
           /\ LoadCurrentActorPolicy(hist) = PolicyRecord(hist).value
    BY DEF LoadCurrentActorPolicy
  <1>3. ParsePolicyDocument(hist[1][PolicyPath], hist[1][GenesisPath].ledger,
                            hist[1][GenesisPath].version)
    BY <1>1 DEF Replays, validateGenesisHistory, RootPolicyValid
  <1>4. /\ LoadCurrentActorPolicy(hist).ledger = hist[1][GenesisPath].ledger
        /\ LoadCurrentActorPolicy(hist).version = hist[1][GenesisPath].version
    BY <1>2, <1>3 DEF ParsePolicyDocument
  <1>5. ASSUME NEW n \in 1..Len(hist), AddedIn(hist, n, "events") # {},
               EventAt(hist, n).type = "revoked"
        PROVE  FALSE
    <2>1. Len(hist) \in Nat
      BY HistoryLength
    <2>2. PICK f : Reduced(hist, Len(hist), f) /\ PolicyRecord(hist) = f[Len(hist)]
      BY <2>1, RecordReduced
    <2>3. Len(hist) \in n..Len(hist)
      BY <2>1
    <2>4. f[Len(hist)] # Nil /\ f[Len(hist)].status = "revoked"
      BY <1>1, <1>5, <2>2, <2>3, RevokedForGood
    <2> QED
      BY <1>2, <2>2, <2>4
  <1> QED
    BY <1>4, <1>5

-----------------------------------------------------------------------------
(* The root commit of a validated seed replays: every check that Replay    *)
(* makes of a root was made of the seed.                                   *)
LEMMA TreeContents ==
  ASSUME NEW s, \A p \in DOMAIN s.files : validateFreshGenesisSeedPath(p)
  PROVE  /\ DOMAIN Tree(s) = DOMAIN s.files \cup {GenesisPath}
         /\ Tree(s)[GenesisPath] = s.genesis
         /\ \A p \in DOMAIN s.files : Tree(s)[p] = s.files[p]
         /\ \A d \in {"schemas", "bindings"} : In(Tree(s), d) = In(s.files, d)
         /\ \A d \in {"schemas", "bindings"} : Contents(Tree(s), d) = Contents(s.files, d)
PROOF
  <1>1. GenesisPath[1] = "genesis" /\ PolicyPath[1] = "actor-policy"
    BY DEF GenesisPath, PolicyPath
  <1>2. GenesisPath \notin DOMAIN s.files
    BY <1>1 DEF validateFreshGenesisSeedPath
  <1>3. /\ DOMAIN Tree(s) = DOMAIN s.files \cup {GenesisPath}
        /\ Tree(s)[GenesisPath] = s.genesis
        /\ \A p \in DOMAIN s.files : Tree(s)[p] = s.files[p]
    BY <1>2 DEF Tree
  <1>4. ASSUME NEW d \in {"schemas", "bindings"} PROVE In(Tree(s), d) = In(s.files, d)
    BY <1>1, <1>3 DEF In
  <1>5. ASSUME NEW d \in {"schemas", "bindings"}
        PROVE  Contents(Tree(s), d) = Contents(s.files, d)
    <2>1. In(Tree(s), d) = In(s.files, d)
      BY <1>4
    <2>2. \A p \in In(s.files, d) : Tree(s)[p] = s.files[p]
      BY <1>3 DEF In
    <2> QED
      BY <2>1, <2>2 DEF Contents
  <1> QED
    BY <1>3, <1>4, <1>5

LEMMA SeedReplays ==
  ASSUME NEW s, ValidSeed(s)
  PROVE  Replays(<< Tree(s) >>) /\ PolicyKind \in Bound(Tree(s))
PROOF
  <1> DEFINE t == Tree(s)
             h == << t >>
  <1>1. Len(h) = 1 /\ h[1] = t
    OBVIOUS
  <1>2. /\ DOMAIN t = DOMAIN s.files \cup {GenesisPath} /\ t[GenesisPath] = s.genesis
        /\ \A p \in DOMAIN s.files : t[p] = s.files[p]
        /\ In(t, "schemas") = In(s.files, "schemas") /\ In(t, "bindings") = In(s.files, "bindings")
        /\ Contents(t, "schemas") = Contents(s.files, "schemas")
        /\ Contents(t, "bindings") = Contents(s.files, "bindings")
    <2>1. \A p \in DOMAIN s.files : validateFreshGenesisSeedPath(p)
      BY DEF ValidSeed
    <2> QED
      BY <2>1, TreeContents
  <1>3. SchemaIDs(t) = SchemaIDs(s.files) /\ Bound(t) = Bound(s.files)
    BY <1>2 DEF SchemaIDs, Bound
  <1> HIDE DEF t, h
  <1>4. Before(h, 1) = EmptyTree /\ Added(h, 1) = DOMAIN t /\ Altered(h, 1) = {}
    <2>1. Before(h, 1) = EmptyTree /\ DOMAIN EmptyTree = {}
      BY DEF Before, EmptyTree
    <2> QED
      BY <1>1, <2>1 DEF Added, Altered
  <1>5. \A p \in DOMAIN s.files : p[1] \in {"schemas", "bindings"} \/ p = PolicyPath
    BY DEF ValidSeed, validateFreshGenesisSeedPath
  <1>6. /\ GenesisPath[1] = "genesis" /\ PolicyPath[1] = "actor-policy"
        /\ PolicyPath \in DOMAIN s.files
    BY DEF GenesisPath, PolicyPath, ValidSeed
  <1>7. NamespaceValid(h)
    BY <1>1, <1>2, <1>4, <1>5 DEF NamespaceValid, validateAuthoritativeLedgerPath
  <1>8. /\ AddedIn(h, 1, "genesis") = {GenesisPath} /\ AddedIn(h, 1, "events") = {}
        /\ AddedIn(h, 1, "actor-policy") = {PolicyPath}
    BY <1>2, <1>4, <1>5, <1>6 DEF AddedIn
  <1>9. validateGenesisHistory(h)
    <2>1. h # << >>
      BY <1>1
    <2>2. ValidGenesis(t[GenesisPath])
      BY <1>2 DEF ValidSeed
    <2>3. SchemasDeclared(t, t[GenesisPath])
      BY <1>2, <1>3 DEF ValidSeed, validateFreshGenesisSeedContracts, SchemasDeclared
    <2>4. 2..Len(h) = {}
      BY <1>1
    <2>5. RootPolicyValid(h, t[GenesisPath])
      BY <1>1, <1>2, <1>6, <1>8, <2>4 DEF ValidSeed, RootPolicyValid
    <2> QED
      BY <1>1, <1>8, <2>1, <2>2, <2>3, <2>4, <2>5 DEF validateGenesisHistory
  <1>10. PolicyKind \in Bound(t)
    BY <1>3 DEF ValidSeed, validateFreshGenesisSeedContracts
  <1>11. CommitReplays(h, 1)
    <2>1. \A d \in {"schemas", "bindings", "events"} : AppendOnly(h, 1, d)
      BY <1>4 DEF AppendOnly
    <2>2. LoadReducerBindingsAt(t)
      <3>1. \A p \in In(t, "bindings") :
              /\ {BindingSchema, EventSchema} \subseteq SchemaIDs(t)
              /\ \A q \in In(t, "bindings") \ {p} :
                   t[q].id # t[p].id /\ t[q].kind # t[p].kind
        BY <1>2, <1>3 DEF ValidSeed, validateFreshGenesisSeedContracts, In
      <3>2. Bad \notin Contents(t, "bindings")
        BY <1>2 DEF ValidSeed, validateFreshGenesisSeedContracts
      <3> QED
        BY <3>1, <3>2 DEF LoadReducerBindingsAt
    <2>3. loadSchemasAt(t)
      <3>1. In(t, "bindings") # {}
        BY <1>10 DEF Bound, Contents
      <3>2. In(t, "schemas") # {}
        <4>1. SchemaIDs(t) # {}
          BY <2>2, <3>1 DEF LoadReducerBindingsAt
        <4> QED
          BY <4>1 DEF SchemaIDs, Contents
      <3>3. Registers(t)
        BY <1>2, <1>3 DEF ValidSeed, validateFreshGenesisSeedContracts, Registers
      <3> QED
        BY <3>2, <3>3 DEF loadSchemasAt
    <2>4. \A b \in Contents(t, "bindings") : b.version = t[GenesisPath].version
      <3>1. \A p \in In(t, "bindings") : t[p].version = s.genesis.version
        BY <1>2 DEF ValidSeed, validateFreshGenesisSeedContracts, In
      <3> QED
        BY <1>2, <3>1 DEF Contents
    <2> QED
      BY <1>1, <1>8, <2>1, <2>2, <2>3, <2>4 DEF CommitReplays
  <1>12. \A i \in 1..Len(h) : CommitReplays(h, i)
    BY <1>1, <1>11
  <1> QED
    BY <1>7, <1>9, <1>10, <1>12 DEF Replays, h, t

(* Its policy is the one in force, as no event has touched it.             *)
LEMMA SeedPolicyInForce ==
  ASSUME NEW s, ValidSeed(s)
  PROVE  LoadCurrentActorPolicy(<< Tree(s) >>) = s.files[PolicyPath]
PROOF
  <1>1. PICK h : h = << Tree(s) >>
    OBVIOUS
  <1>2. Len(h) = 1 /\ h[1] = Tree(s) /\ Replays(h)
    BY <1>1, SeedReplays
  <1>3. AddedIn(h, 1, "events") = {}
    BY <1>2 DEF Replays, validateGenesisHistory
  <1>4. PICK f : Reduced(h, Len(h), f) /\ PolicyRecord(h) = f[Len(h)]
    <2>1. Len(h) \in Nat
      BY <1>2
    <2> QED
      BY <2>1, RecordReduced
  <1>5. f[1] = f[0] /\ f[0] = Nil
    BY <1>2, <1>3, <1>4 DEF Reduced
  <1>6. Tree(s)[PolicyPath] = s.files[PolicyPath]
    BY TreeContents DEF ValidSeed
  <1> QED
    BY <1>1, <1>2, <1>4, <1>5, <1>6 DEF LoadCurrentActorPolicy

-----------------------------------------------------------------------------
(* The steps of initializers.                                              *)
Framed ==
  /\ pc = [i \in Inits |-> pc[i]] /\ seed = [i \in Inits |-> seed[i]]
  /\ result = [i \in Inits |-> result[i]]

Others(i) ==
  \A j \in Inits \ {i} : pc'[j] = pc[j] /\ seed'[j] = seed[j] /\ result'[j] = result[j]

Moved(i, label) ==
  /\ pc'[i] = label /\ seed'[i] = seed[i] /\ result'[i] = result[i]
  /\ Others(i) /\ Framed'

Returned(i, r) ==
  /\ pc'[i] = "done" /\ result'[i] = r /\ seed'[i] = IF r = "created" THEN seed[i] ELSE Nil
  /\ Others(i) /\ Framed'

LEMMA GotoMoves ==
  ASSUME Framed, NEW i \in Inits, NEW l, Goto(i, l) PROVE Moved(i, l)
PROOF
  BY DEF Framed, Goto, Moved, Others

LEMMA ReturnReturns ==
  ASSUME Framed, NEW i \in Inits, NEW r, Return(i, r) PROVE Returned(i, r)
PROOF
  <1>1. pc' = [pc EXCEPT ![i] = "done"] /\ result' = [result EXCEPT ![i] = r]
    BY DEF Return
  <1>2. CASE r = "created"
    <2>1. seed' = [seed EXCEPT ![i] = seed[i]]
      BY <1>2 DEF Return
    <2> QED
      BY <1>1, <1>2, <2>1 DEF Framed, Returned, Others
  <1>3. CASE r # "created"
    <2>1. seed' = [seed EXCEPT ![i] = Nil]
      BY <1>3 DEF Return
    <2> QED
      BY <1>1, <1>3, <2>1 DEF Framed, Returned, Others
  <1> QED
    BY <1>2, <1>3

(* The ways an initializer goes on ...                                     *)
Proceeds(i) ==
  \/ /\ pc[i] = "start" /\ UNCHANGED << path, hist >>
     /\ pc'[i] = "mkdir" /\ seed'[i] \in Seeds /\ ValidSeed(seed'[i])
     /\ result'[i] = result[i] /\ Others(i) /\ Framed'
  \/ pc[i] = "mkdir" /\ path = "absent" /\ path' = "dir" /\ UNCHANGED hist /\ Moved(i, "init")
  \/ pc[i] = "init" /\ path' = "bare" /\ UNCHANGED hist /\ Moved(i, "commit")
  \/ pc[i] = "commit" /\ UNCHANGED << path, hist >> /\ Moved(i, "ref")
  \/ /\ pc[i] = "ref" /\ UNCHANGED path /\ hist = << >> /\ hist' = << Tree(seed[i]) >>
     /\ Moved(i, "head")
  \/ pc[i] = "head" /\ UNCHANGED << path, hist >> /\ Moved(i, "reopen")
  \/ pc[i] = "reopen" /\ UNCHANGED << path, hist >> /\ Moved(i, "policy")

(* ... and the ways it ends: with evidence, with a doubt about the ledger  *)
(* it made, or with an error.                                              *)
Succeeds(i) == pc[i] = "policy" /\ UNCHANGED << path, hist >> /\ Returned(i, "created")

Doubts(i) ==
  /\ pc[i] \in {"head", "reopen", "policy"} /\ UNCHANGED << path, hist >>
  /\ Returned(i, "unverified")
  /\ \/ hist # << Tree(seed[i]) >> \/ ~Replays(hist) \/ PolicyKind \notin Bound(hist[1])
     \/ LoadCurrentActorPolicy(hist) # seed[i].files[PolicyPath]

Fails(i) ==
  /\ \E r \in {"invalid", "exists", "failed"} : Returned(i, r)
  /\ pc[i] # "done"
  /\ UNCHANGED path \/ (path # "absent" /\ path' = "bare")
  /\ \/ UNCHANGED hist
     \/ /\ pc[i] = "ref" /\ UNCHANGED path
        /\ hist = << >> /\ hist' = << Tree(seed[i]) >>

(* An initializer that works in the directory it made.                     *)
Working == {"init", "commit", "ref", "head", "reopen", "policy"}

LEMMA StepForms ==
  ASSUME Framed, NEW i \in Inits, pc[i] \in Labels,
         pc[i] \in Working => path # "absent", Step(i) \/ Crash(i)
  PROVE  Proceeds(i) \/ Succeeds(i) \/ Doubts(i) \/ Fails(i)
PROOF
  <1>1. ASSUME NEW s \in Seeds, Validate(i, s) PROVE Proceeds(i) \/ Fails(i)
    <2>1. CASE ValidSeed(s) /\ seed' = [seed EXCEPT ![i] = s]
               /\ pc' = [pc EXCEPT ![i] = "mkdir"] /\ UNCHANGED result
      <3>1. pc[i] = "start" /\ UNCHANGED << path, hist >>
        BY <1>1 DEF Validate
      <3> QED
        BY <2>1, <3>1 DEF Framed, Proceeds, Others
    <2>2. CASE Return(i, "invalid")
      BY <1>1, <2>2, ReturnReturns DEF Validate, Fails
    <2> QED
      BY <1>1, <2>1, <2>2 DEF Validate
  <1>2. CASE Mkdir(i)
    BY <1>2, GotoMoves, ReturnReturns DEF Mkdir, Proceeds, Fails
  <1>3. CASE GitInit(i)
    BY <1>3, GotoMoves, ReturnReturns DEF GitInit, Proceeds, Fails, Working
  <1>4. CASE CommitTree(i)
    BY <1>4, GotoMoves, ReturnReturns DEF CommitTree, Proceeds, Fails
  <1>5. CASE UpdateRef(i)
    <2>1. CASE hist = << >> /\ hist' = << Tree(seed[i]) >> /\ Goto(i, "head")
      BY <1>5, <2>1, GotoMoves DEF UpdateRef, Proceeds
    <2>2. CASE UNCHANGED hist /\ Return(i, "failed")
      BY <1>5, <2>2, ReturnReturns DEF UpdateRef, Fails
    <2>3. CASE hist = << >> /\ hist' = << Tree(seed[i]) >> /\ Return(i, "failed")
      BY <1>5, <2>3, ReturnReturns DEF UpdateRef, Fails
    <2> QED
      BY <1>5, <2>1, <2>2, <2>3 DEF UpdateRef
  <1>6. CASE ReadBack(i)
    BY <1>6, GotoMoves, ReturnReturns DEF ReadBack, Proceeds, Doubts, Fails
  <1>7. CASE VerifyReplay(i)
    <2>1. CASE Goto(i, "policy")
      BY <1>7, <2>1, GotoMoves DEF VerifyReplay, Proceeds
    <2>2. CASE /\ Return(i, "unverified")
               /\ ~(/\ Replays(hist) /\ hist = << Tree(seed[i]) >> /\ PolicyKind \in Bound(hist[1]))
      BY <1>7, <2>2, ReturnReturns DEF VerifyReplay, Doubts
    <2>3. CASE Return(i, "failed")
      BY <1>7, <2>3, ReturnReturns DEF VerifyReplay, Fails
    <2> QED
      BY <1>7, <2>1, <2>2, <2>3 DEF VerifyReplay
  <1>8. CASE VerifyPolicy(i)
    <2>1. CASE Return(i, "created")
      BY <1>8, <2>1, ReturnReturns DEF VerifyPolicy, Succeeds
    <2>2. CASE /\ Return(i, "unverified")
               /\ ~(/\ hist = << Tree(seed[i]) >>
                    /\ LoadCurrentActorPolicy(hist) = seed[i].files[PolicyPath])
      BY <1>8, <2>2, ReturnReturns DEF VerifyPolicy, Doubts
    <2>3. CASE Return(i, "failed")
      BY <1>8, <2>3, ReturnReturns DEF VerifyPolicy, Fails
    <2> QED
      BY <1>8, <2>1, <2>2, <2>3 DEF VerifyPolicy
  <1>9. CASE Crash(i)
    BY <1>9, ReturnReturns DEF Crash, Fails
  <1> QED
    BY <1>1, <1>2, <1>3, <1>4, <1>5, <1>6, <1>7, <1>8, <1>9 DEF Step

(* The steps of everybody else.                                            *)
Grows ==
  /\ hist # << >> /\ Len(hist) < MaxCommits /\ UNCHANGED << path, pc, seed, result >>
  /\ \E u : hist' = Append(hist, u)

LEMMA NextForms ==
  ASSUME [Next]_vars
  PROVE  \/ \E i \in Inits : Step(i) \/ Crash(i)
         \/ Grows
         \/ \E s \in Foreign : ForeignRoot(s)
         \/ UNCHANGED vars
PROOF
  <1>1. ASSUME NEW e, AcceptEvent(e) PROVE Grows
    BY <1>1 DEF AcceptEvent, Grows
  <1>2. ASSUME NEW p, NEW c, Configure(p, c) PROVE Grows
    BY <1>2 DEF Configure, Grows
  <1> QED
    BY <1>1, <1>2 DEF Next

-----------------------------------------------------------------------------
(* The invariant.  The ledger has one owner, the initializer that made the *)
(* directory; what it has seeded was validated, and it is the root of the  *)
(* history from the moment the ref is created.                             *)
Owner(i) == pc[i] \in Working \/ result[i] = "created"

OwnerInv ==
  /\ \A i \in Inits : result[i] # "none" => pc[i] = "done"
  /\ \A i \in Inits : Owner(i) => path # "absent"
  /\ \A i, j \in Inits : Owner(i) /\ Owner(j) => i = j
  /\ \A i \in Inits : pc[i] \in Working \ {"init"} => path = "bare"

Seeded(i) ==
  /\ pc[i] \in Working \cup {"mkdir"} \/ result[i] = "created" => ValidSeed(seed[i])
  /\ pc[i] \in {"head", "reopen", "policy"} \/ result[i] = "created" =>
       hist # << >> /\ hist[1] = Tree(seed[i])
  /\ result[i] = "unverified" => Len(hist) > 1

SeedInv == \A i \in Inits : Seeded(i)

GenesisInv == TypeOK /\ Framed /\ IsHistory(hist) /\ OwnerInv /\ SeedInv

LEMMA GenesisInit == Init => GenesisInv
PROOF
  <1> SUFFICES ASSUME Init PROVE GenesisInv
    OBVIOUS
  <1>1. hist = << >> /\ Len(hist) = 0
    BY DEF Init
  <1>2. IsHistory(hist)
    <2>1. hist \in Seq({})
      BY <1>1
    <2> QED
      BY <2>1 DEF IsHistory
  <1>3. Framed
    BY DEF Init, Framed
  <1>4. \A i \in Inits : pc[i] = "start" /\ seed[i] = Nil /\ result[i] = "none"
    BY DEF Init
  <1>5. TypeOK
    <2>1. pc \in [Inits -> Labels] /\ result \in [Inits -> Results]
      BY DEF Init, Labels, Results
    <2>2. 0 <= MaxCommits
      BY BoundAssumption
    <2> QED
      BY <1>1, <1>4, <2>1, <2>2 DEF Init, TypeOK
  <1>6. OwnerInv
    BY <1>4 DEF OwnerInv, Owner, Working
  <1>7. SeedInv
    BY <1>4 DEF SeedInv, Seeded, Working
  <1> QED
    BY <1>2, <1>3, <1>5, <1>6, <1>7 DEF GenesisInv

(* The forms of a step under the invariant.                                *)
LEMMA GenesisStep ==
  ASSUME GenesisInv, [Next]_vars
  PROVE  \/ \E i \in Inits : Proceeds(i) \/ Succeeds(i) \/ Doubts(i) \/ Fails(i)
         \/ Grows
         \/ \E s \in Foreign : ForeignRoot(s)
         \/ UNCHANGED vars
PROOF
  <1>1. ASSUME NEW i \in Inits, Step(i) \/ Crash(i)
        PROVE  Proceeds(i) \/ Succeeds(i) \/ Doubts(i) \/ Fails(i)
    <2>1. Framed /\ pc[i] \in Labels /\ (pc[i] \in Working => path # "absent")
      BY DEF GenesisInv, TypeOK, OwnerInv, Owner
    <2> QED
      BY <1>1, <2>1, StepForms
  <1> QED
    BY <1>1, NextForms

(* Histories only grow, and keep their root.                               *)
Extended ==
  /\ IsHistory(hist')
  /\ hist # << >> => hist' # << >> /\ hist'[1] = hist[1]
  /\ Len(hist) <= Len(hist') /\ Len(hist') <= MaxCommits

LEMMA HistoryExtended ==
  ASSUME GenesisInv, [Next]_vars PROVE Extended
PROOF
  <1>1. IsHistory(hist) /\ Len(hist) <= MaxCommits /\ Len(hist) \in Nat
        /\ (hist = << >> <=> Len(hist) = 0)
    BY HistoryLength DEF GenesisInv, TypeOK
  <1>2. CASE UNCHANGED hist
    BY <1>1, <1>2 DEF Extended
  <1>3. ASSUME hist = << >>, NEW t, hist' = << t >> PROVE Extended
    <2>1. IsHistory(hist') /\ Len(hist') = 1
      BY <1>3, HistoryRoot
    <2> QED
      BY <1>1, <1>3, <2>1, BoundAssumption DEF Extended
  <1>4. CASE Grows
    <2>1. PICK u : hist' = Append(hist, u)
      BY <1>4 DEF Grows
    <2>2. IsHistory(hist') /\ Len(hist') = Len(hist) + 1 /\ \A i \in 1..Len(hist) : hist'[i] = hist[i]
      BY <1>1, <2>1, HistoryAppend
    <2>3. 1 \in 1..Len(hist) /\ Len(hist) < MaxCommits
      BY <1>1, <1>4 DEF Grows
    <2>4. IsHistory(hist') => (hist' = << >> <=> Len(hist') = 0)
      BY HistoryLength
    <2> QED
      BY <1>1, <2>2, <2>3, <2>4, BoundAssumption DEF Extended
  <1>5. ASSUME NEW i \in Inits, Proceeds(i) \/ Succeeds(i) \/ Doubts(i) \/ Fails(i)
        PROVE  UNCHANGED hist \/ (hist = << >> /\ hist' = << Tree(seed[i]) >>)
    BY <1>5 DEF Proceeds, Succeeds, Doubts, Fails
  <1>6. ASSUME NEW s \in Foreign, ForeignRoot(s)
        PROVE  hist = << >> /\ hist' = << Tree(s) >>
    BY <1>6 DEF ForeignRoot
  <1>7. CASE UNCHANGED vars
    BY <1>2, <1>7 DEF vars
  <1> QED
    BY <1>2, <1>3, <1>4, <1>5, <1>6, <1>7, GenesisStep

(* What is in TypeOK about one initializer.                                *)
TypedAt(i) ==
  /\ pc[i] \in Labels /\ result[i] \in Results
  /\ seed[i] \in Seeds \/ (seed[i] = Nil /\ pc[i] \in {"start", "done"})

LEMMA TypesKept ==
  ASSUME GenesisInv, Framed', Extended, path' \in {"absent", "dir", "bare"},
         \A j \in Inits : TypedAt(j)', hist' # << >> => path' = "bare"
  PROVE  TypeOK'
PROOF
  <1>1. pc' \in [Inits -> Labels] /\ result' \in [Inits -> Results]
    BY DEF Framed, TypedAt
  <1>2. Len(hist') <= MaxCommits
    BY DEF Extended
  <1> QED
    BY <1>1, <1>2 DEF TypeOK, TypedAt

LEMMA TypedInitializers ==
  ASSUME GenesisInv
  PROVE  /\ \A j \in Inits : TypedAt(j)
         /\ path \in {"absent", "dir", "bare"} /\ (hist # << >> => path = "bare")
PROOF
  BY DEF GenesisInv, TypeOK, TypedAt

(* Steps of initializers.                                                  *)
LEMMA ProceedsKeeps ==
  ASSUME GenesisInv, Extended, NEW i \in Inits, Proceeds(i) PROVE GenesisInv'
PROOF
  <1>1. Others(i) /\ Framed'
    BY DEF Proceeds, Moved
  <1>2. /\ TypedAt(i) /\ path \in {"absent", "dir", "bare"} /\ (hist # << >> => path = "bare")
        /\ \A j \in Inits : TypedAt(j)
    BY TypedInitializers
  <1>3. OwnerInv /\ SeedInv /\ Seeded(i)
    BY DEF GenesisInv, SeedInv
  <1>4. TypedAt(i)'
    BY <1>2 DEF Proceeds, Moved, TypedAt, Labels
  <1>5. \A j \in Inits : TypedAt(j)'
    BY <1>1, <1>2, <1>4 DEF Others, TypedAt
  <1>6. path' \in {"absent", "dir", "bare"} /\ (path # "absent" => path' # "absent")
        /\ (path = "bare" => path' = "bare")
    BY <1>2 DEF Proceeds
  <1>7. hist' # << >> => path' = "bare"
    BY <1>2, <1>3, <1>6 DEF Proceeds, OwnerInv, Working
  <1>8. TypeOK'
    BY <1>1, <1>5, <1>6, <1>7, TypesKept
  <1>9. result'[i] = result[i] /\ result[i] = "none"
    BY <1>3 DEF Proceeds, Moved, OwnerInv
  <1>10. pc'[i] \in Working => path' # "absent" /\ (pc'[i] # "init" => path' = "bare")
    BY <1>3, <1>6 DEF Proceeds, Moved, OwnerInv, Owner, Working
  <1>11. pc'[i] \in Working => pc[i] \in Working \/ path = "absent"
    BY DEF Proceeds, Moved, Working
  <1>12. ASSUME NEW j \in Inits \ {i} PROVE Owner(j)' <=> Owner(j)
    BY <1>1 DEF Others, Owner
  <1>13. OwnerInv'
    <2>1. \A j \in Inits : result'[j] # "none" => pc'[j] = "done"
      BY <1>1, <1>3, <1>9 DEF Others, OwnerInv
    <2>2. \A j \in Inits : Owner(j)' => path' # "absent"
      BY <1>3, <1>6, <1>9, <1>10, <1>12 DEF OwnerInv, Owner
    <2>3. \A j \in Inits : pc'[j] \in Working \ {"init"} => path' = "bare"
      BY <1>1, <1>3, <1>6, <1>10 DEF Others, OwnerInv
    <2>4. \A j \in Inits \ {i} : Owner(i)' /\ Owner(j)' => FALSE
      BY <1>3, <1>9, <1>11, <1>12 DEF OwnerInv, Owner
    <2>5. \A j, k \in Inits : Owner(j)' /\ Owner(k)' => j = k
      BY <1>3, <1>12, <2>4 DEF OwnerInv
    <2> QED
      BY <2>1, <2>2, <2>3, <2>5 DEF OwnerInv
  <1>14. ASSUME NEW j \in Inits PROVE Seeded(j)'
    <2>1. CASE j # i
      <3>1. pc'[j] = pc[j] /\ seed'[j] = seed[j] /\ result'[j] = result[j] /\ Seeded(j)
        BY <1>1, <1>3, <2>1 DEF Others, SeedInv
      <3>2. Len(hist) \in Nat /\ Len(hist') \in Nat
        BY HistoryLength DEF GenesisInv, Extended
      <3> QED
        BY <3>1, <3>2 DEF Seeded, Extended
    <2>2. CASE j = i
      <3>1. ValidSeed(seed'[i])
        BY <1>3 DEF Proceeds, Moved, Seeded, Working
      <3>2. pc'[i] \in {"head", "reopen", "policy"} => hist' # << >> /\ hist'[1] = Tree(seed'[i])
        <4>1. CASE pc[i] = "ref"
          BY <4>1, HistoryRoot DEF Proceeds, Moved
        <4>2. CASE pc[i] # "ref"
          BY <1>3, <4>2 DEF Proceeds, Moved, Seeded
        <4> QED
          BY <4>1, <4>2
      <3> QED
        BY <1>9, <2>2, <3>1, <3>2 DEF Seeded
    <2> QED
      BY <2>1, <2>2
  <1> QED
    BY <1>1, <1>8, <1>13, <1>14 DEF GenesisInv, SeedInv, Extended

(* Ends of initializers: the one that succeeds was the owner, and the root *)
(* is still its seed.                                                      *)
LEMMA ReturnKeeps ==
  ASSUME GenesisInv, Extended, NEW i \in Inits, NEW r \in Results \ {"none"}, Returned(i, r),
         pc[i] # "done", r = "created" => pc[i] = "policy",
         r = "unverified" => Len(hist') > 1,
         path' \in {"absent", "dir", "bare"}, path # "absent" => path' # "absent",
         path = "bare" => path' = "bare", hist' # << >> => path' = "bare"
  PROVE  GenesisInv'
PROOF
  <1>1. Others(i) /\ Framed' /\ pc'[i] = "done" /\ result'[i] = r
    BY DEF Returned
  <1>2. \A j \in Inits : TypedAt(j)
    BY TypedInitializers
  <1>3. OwnerInv /\ SeedInv
    BY DEF GenesisInv
  <1>4. TypedAt(i)'
    BY <1>1, <1>2 DEF Returned, TypedAt, Labels
  <1>5. \A j \in Inits : TypedAt(j)'
    BY <1>1, <1>2, <1>4 DEF Others, TypedAt
  <1>6. TypeOK'
    BY <1>1, <1>5, TypesKept
  <1>7. ASSUME NEW j \in Inits PROVE Owner(j)' => Owner(j)
    BY <1>1 DEF Others, Owner, Working
  <1>8. OwnerInv'
    <2>1. \A j \in Inits : result'[j] # "none" => pc'[j] = "done"
      BY <1>1, <1>3 DEF Others, OwnerInv
    <2>2. \A j \in Inits : Owner(j)' => path' # "absent"
      BY <1>3, <1>7 DEF OwnerInv
    <2>3. \A j \in Inits : pc'[j] \in Working \ {"init"} => path' = "bare"
      BY <1>1, <1>3 DEF Others, OwnerInv, Working
    <2>4. \A j, k \in Inits : Owner(j)' /\ Owner(k)' => j = k
      BY <1>3, <1>7 DEF OwnerInv
    <2> QED
      BY <2>1, <2>2, <2>3, <2>4 DEF OwnerInv
  <1>9. ASSUME NEW j \in Inits PROVE Seeded(j)'
    <2>1. CASE j # i
      <3>1. pc'[j] = pc[j] /\ seed'[j] = seed[j] /\ result'[j] = result[j] /\ Seeded(j)
        BY <1>1, <1>3, <2>1 DEF Others, SeedInv
      <3>2. Len(hist) \in Nat /\ Len(hist') \in Nat
        BY HistoryLength DEF GenesisInv, Extended
      <3> QED
        BY <3>1, <3>2 DEF Seeded, Extended
    <2>2. CASE j = i
      <3>1. r = "created" => ValidSeed(seed'[i]) /\ hist' # << >> /\ hist'[1] = Tree(seed'[i])
        BY <1>3 DEF Returned, SeedInv, Seeded, Extended, Working
      <3> QED
        BY <1>1, <2>2, <3>1 DEF Seeded, Working
    <2> QED
      BY <2>1, <2>2
  <1> QED
    BY <1>1, <1>6, <1>8, <1>9 DEF GenesisInv, SeedInv, Extended

(* A doubt means that somebody committed to the ledger.                    *)
LEMMA DoubtMeansCommit ==
  ASSUME GenesisInv, NEW i \in Inits, Doubts(i) PROVE Len(hist) > 1
PROOF
  <1>1. ValidSeed(seed[i]) /\ hist # << >> /\ hist[1] = Tree(seed[i])
    BY DEF GenesisInv, SeedInv, Seeded, Doubts, Working
  <1>2. /\ Replays(<< Tree(seed[i]) >>) /\ PolicyKind \in Bound(Tree(seed[i]))
        /\ LoadCurrentActorPolicy(<< Tree(seed[i]) >>) = seed[i].files[PolicyPath]
    BY <1>1, SeedReplays, SeedPolicyInForce
  <1>3. hist # << Tree(seed[i]) >>
    BY <1>1, <1>2 DEF Doubts
  <1>4. Len(hist) \in Nat /\ Len(hist) # 0 /\ Len(hist) # 1
    BY <1>1, <1>3, HistoryLength DEF GenesisInv
  <1>5. \A n \in Nat : n # 0 /\ n # 1 => n > 1
    OBVIOUS
  <1> QED
    BY <1>4, <1>5

(* Steps of everybody else leave the initializers alone.                   *)
LEMMA BystandersKeep ==
  ASSUME GenesisInv, Extended, UNCHANGED << path, pc, seed, result >>,
         hist' # << >> => path = "bare"
  PROVE  GenesisInv'
PROOF
  <1>1. Framed' /\ OwnerInv'
    BY DEF GenesisInv, Framed, OwnerInv, Owner
  <1>2. TypeOK'
    BY DEF GenesisInv, TypeOK, Extended
  <1>3. Len(hist) \in Nat /\ Len(hist') \in Nat
    BY HistoryLength DEF GenesisInv, Extended
  <1>4. SeedInv'
    <2>1. ASSUME NEW i \in Inits PROVE Seeded(i)'
      <3>1. Seeded(i)
        BY DEF GenesisInv, SeedInv
      <3> QED
        BY <1>3, <3>1 DEF Seeded, Extended
    <2> QED
      BY <2>1 DEF SeedInv
  <1> QED
    BY <1>1, <1>2, <1>4 DEF GenesisInv, Extended

LEMMA GenesisNext == GenesisInv /\ [Next]_vars => GenesisInv'
PROOF
  <1> SUFFICES ASSUME GenesisInv, [Next]_vars PROVE GenesisInv'
    OBVIOUS
  <1>1. Extended
    BY HistoryExtended
  <1>2. /\ path \in {"absent", "dir", "bare"} /\ (hist # << >> => path = "bare")
        /\ \A i \in Inits : pc[i] \in Working \ {"init"} => path = "bare"
    BY TypedInitializers DEF GenesisInv, OwnerInv
  <1>3. ASSUME NEW i \in Inits, Proceeds(i) PROVE GenesisInv'
    BY <1>1, <1>3, ProceedsKeeps
  <1>4. ASSUME NEW i \in Inits, Succeeds(i) PROVE GenesisInv'
    <2>1. "created" \in Results \ {"none"} /\ Returned(i, "created") /\ pc[i] = "policy"
          /\ UNCHANGED << path, hist >>
      BY <1>4 DEF Succeeds, Results
    <2> QED
      BY <1>1, <1>2, <2>1, ReturnKeeps
  <1>5. ASSUME NEW i \in Inits, Doubts(i) PROVE GenesisInv'
    <2>1. "unverified" \in Results \ {"none"} /\ Returned(i, "unverified") /\ pc[i] # "done"
          /\ UNCHANGED << path, hist >>
      BY <1>5 DEF Doubts, Results
    <2>2. Len(hist') > 1
      BY <1>5, <2>1, DoubtMeansCommit
    <2> QED
      BY <1>1, <1>2, <2>1, <2>2, ReturnKeeps
  <1>6. ASSUME NEW i \in Inits, Fails(i) PROVE GenesisInv'
    <2>1. PICK r \in {"invalid", "exists", "failed"} : Returned(i, r)
      BY <1>6 DEF Fails
    <2>2. r \in Results \ {"none"} /\ r # "created" /\ r # "unverified" /\ pc[i] # "done"
      BY <1>6, <2>1 DEF Fails, Results
    <2>3. /\ path' \in {"absent", "dir", "bare"} /\ (path # "absent" => path' # "absent")
          /\ (path = "bare" => path' = "bare") /\ (hist' # << >> => path' = "bare")
      BY <1>2, <1>6 DEF Fails, Working
    <2> QED
      BY <1>1, <2>1, <2>2, <2>3, ReturnKeeps
  <1>7. CASE Grows
    <2>1. UNCHANGED << path, pc, seed, result >> /\ (hist' # << >> => path = "bare")
      BY <1>2, <1>7 DEF Grows
    <2> QED
      BY <1>1, <2>1, BystandersKeep
  <1>8. ASSUME NEW s \in Foreign, ForeignRoot(s) PROVE GenesisInv'
    <2>1. UNCHANGED << path, pc, seed, result >> /\ (hist' # << >> => path = "bare")
      BY <1>8 DEF ForeignRoot
    <2> QED
      BY <1>1, <2>1, BystandersKeep
  <1>9. CASE UNCHANGED vars
    <2>1. UNCHANGED << path, pc, seed, result >> /\ (hist' # << >> => path = "bare")
      BY <1>2, <1>9 DEF vars
    <2> QED
      BY <1>1, <2>1, BystandersKeep
  <1> QED
    BY <1>3, <1>4, <1>5, <1>6, <1>7, <1>8, <1>9, GenesisStep

LEMMA GenesisInvariant == Spec => []GenesisInv
PROOF
  BY GenesisInit, GenesisNext, PTL DEF Spec

-----------------------------------------------------------------------------
(* Type correctness; a history exists only in a repository.                *)
THEOREM TypeCorrect == Spec => []TypeOK
PROOF
  BY GenesisInvariant, PTL DEF GenesisInv

(* No race, failure, crash or retry of initializers replaces the root of a *)
(* ledger (InitializeBareRoot, update-ref with the zero old value).        *)
THEOREM RootNeverReplaced == Spec => GenesisFixed
PROOF
  <1>1. GenesisInv /\ [Next]_vars => [hist # << >> => hist'[1] = hist[1]]_vars
    BY HistoryExtended DEF Extended
  <1> QED
    BY <1>1, GenesisInvariant, PTL DEF Spec, GenesisFixed

(* Verification of a fresh ledger fails only if somebody else committed to *)
(* it: whatever Replay and LoadCurrentActorPolicy check of a root was      *)
(* checked of the seed (validateFreshGenesisSeedContracts).                *)
THEOREM SeedErrorsAlwaysFirst == Spec => []SeedErrorsFoundFirst
PROOF
  <1>1. GenesisInv => SeedErrorsFoundFirst
    BY DEF GenesisInv, SeedInv, Seeded, SeedErrorsFoundFirst
  <1> QED
    BY <1>1, GenesisInvariant, PTL

(* One initializer at most is given evidence, and it stays true.           *)
THEOREM EvidenceAlwaysTrue == Spec => []EvidenceTrue
PROOF
  <1>1. ASSUME GenesisInv PROVE EvidenceTrue
    <2> SUFFICES ASSUME NEW i \in Inits, result[i] = "created"
                 PROVE  /\ hist # << >> /\ hist[1] = Tree(seed[i]) /\ Replays(<< hist[1] >>)
                        /\ PolicyKind \in Bound(hist[1])
                        /\ \A j \in Inits \ {i} : result[j] # "created"
      BY DEF EvidenceTrue
    <2>1. ValidSeed(seed[i]) /\ hist # << >> /\ hist[1] = Tree(seed[i])
      BY <1>1 DEF GenesisInv, SeedInv, Seeded
    <2>2. Replays(<< hist[1] >>) /\ PolicyKind \in Bound(hist[1])
      BY <2>1, SeedReplays
    <2>3. \A j \in Inits \ {i} : result[j] # "created"
      BY <1>1 DEF GenesisInv, OwnerInv, Owner
    <2> QED
      BY <2>1, <2>2, <2>3
  <1> QED
    BY <1>1, GenesisInvariant, PTL

(* A ledger that replays never changed any of its configuration or events, *)
(* however its commits were made (ImmutableJSONAdditions, EventAdditions,  *)
(* validateAuthoritativeLedgerNamespace).                                  *)
THEOREM ConfigNeverChanged == Spec => []ConfigImmutable
PROOF
  <1>1. GenesisInv => ConfigImmutable
    BY ReplayedImmutable DEF GenesisInv
  <1> QED
    BY <1>1, GenesisInvariant, PTL

(* The policy in force is one for this ledger, and there is none after a   *)
(* revocation (LoadCurrentActorPolicy).                                    *)
THEOREM PolicyAlwaysClosed == ASSUME NilApart PROVE Spec => []PolicyFailsClosed
PROOF
  <1>1. GenesisInv => PolicyFailsClosed
    BY PolicyTrue DEF GenesisInv
  <1> QED
    BY <1>1, GenesisInvariant, PTL
=============================================================================
