--------------------------- MODULE MCFreshGenesis ---------------------------
(***************************************************************************)
(* Small instances of FreshGenesis for TLC: a sound seed, and seeds that   *)
(* differ from it in up to two of their parts.                             *)
(***************************************************************************)
EXTENDS FreshGenesis, TLC

Schema(id) == [id |-> id, draft2020 |-> TRUE]
Schemas(ids) == [n \in 1..Len(ids) |-> Schema(ids[n])]
Binding(id, kind, v) == [id |-> id, kind |-> kind, version |-> v]
Policy(l, v, keys, grants) ==
  [ledger |-> l, version |-> v, keys |-> keys, grants |-> grants]

(* The files of a seed: the n-th schema, the n-th binding, the policy.     *)
Files(schemas, bindings, policy) ==
  [p \in {<< "schemas", n >> : n \in DOMAIN schemas}
         \cup {<< "bindings", n >> : n \in DOMAIN bindings}
         \cup (IF policy = Nil THEN {} ELSE {PolicyPath}) |->
     CASE p[1] = "schemas" -> schemas[p[2]]
       [] p[1] = "bindings" -> bindings[p[2]]
       [] OTHER -> policy]

GoodGenesis == [ledger |-> "L", version |-> "v1",
                schemas |-> {BindingSchema, EventSchema}, authorities |-> {"a"}]
GoodSchemas == Schemas(<< BindingSchema, EventSchema >>)
GoodBindings == << Binding("b1", PolicyKind, "v1") >>
GoodPolicy == Policy("L", "v1", {"a", "b"}, {"a"})

Geneses == {GoodGenesis, Bad, [GoodGenesis EXCEPT !.authorities = {}],
            [GoodGenesis EXCEPT !.authorities = {"a", "b"}],
            [GoodGenesis EXCEPT !.schemas = {BindingSchema, EventSchema, "x"}]}
SchemaFiles ==
  {GoodSchemas, Schemas(<< BindingSchema >>), Schemas(<< >>),
   Schemas(<< BindingSchema, EventSchema, "x" >>),
   Schemas(<< BindingSchema, EventSchema, EventSchema >>),
   Append(GoodSchemas, [id |-> "x", draft2020 |-> FALSE]), Append(GoodSchemas, Bad)}
BindingFiles ==
  {GoodBindings, << >>, << Bad >>, << Binding("b1", "note", "v1") >>}
    \cup {Append(GoodBindings, b) :
            b \in {Binding("b2", "note", "v1"), Binding("b2", "note", "v2"),
                   Binding("b1", "note", "v1"), Binding("b2", PolicyKind, "v1")}}
Policies == {GoodPolicy, Nil, Bad, Policy("M", "v1", {"a"}, {"a"}),
             Policy("L", "v2", {"a"}, {"a"}), Policy("L", "v1", {"a"}, {"a", "b"}),
             Policy("L", "v1", {"a", "b"}, {"a", "b"})}
Strays == {EmptyTree, << "events", 1 >> :> Bad, << "other", 1 >> :> Bad,
           GenesisPath :> Bad}

Seed(g, s, b, p, x) == [genesis |-> g, files |-> Files(s, b, p) @@ x]
GoodSeed == Seed(GoodGenesis, GoodSchemas, GoodBindings, GoodPolicy, EmptyTree)

(* One part differs from the sound seed, or two that have to agree.        *)
MCSeeds ==
  {Seed(g, GoodSchemas, GoodBindings, GoodPolicy, EmptyTree) : g \in Geneses}
  \cup {Seed(GoodGenesis, s, GoodBindings, GoodPolicy, EmptyTree) : s \in SchemaFiles}
  \cup {Seed(GoodGenesis, GoodSchemas, b, GoodPolicy, EmptyTree) : b \in BindingFiles}
  \cup {Seed(GoodGenesis, GoodSchemas, GoodBindings, p, EmptyTree) : p \in Policies}
  \cup {Seed(GoodGenesis, GoodSchemas, GoodBindings, GoodPolicy, x) : x \in Strays}
  \cup {Seed([GoodGenesis EXCEPT !.schemas = {BindingSchema, EventSchema, "x"}],
             s, GoodBindings, GoodPolicy, EmptyTree) : s \in SchemaFiles}
  \cup {Seed([GoodGenesis EXCEPT !.authorities = {"a", "b"}],
             GoodSchemas, GoodBindings, p, EmptyTree) : p \in Policies}
MCForeign == {[GoodSeed EXCEPT !.genesis.ledger = "M"],
              Seed(GoodGenesis, GoodSchemas, << >>, GoodPolicy, EmptyTree)}

Rotated == Policy("L", "v1", {"b"}, {"b"})
MCDocuments == {Rotated, Policy("M", "v1", {"b"}, {"b"})}

MCChanges ==
  {<< GenesisPath, [GoodGenesis EXCEPT !.ledger = "M"] >>, << GenesisPath, GoodGenesis >>,
   << << "genesis", 1 >>, Bad >>, << PolicyPath, Rotated >>, << PolicyPath, GoodPolicy >>,
   << << "bindings", 1 >>, Nil >>, << << "bindings", 1 >>, Binding("b1", PolicyKind, "v2") >>,
   << << "bindings", 2 >>, Binding("b2", "note", "v2") >>,
   << << "schemas", 3 >>, Schema("x") >>, << << "schemas", 3 >>, Schema("y") >>,
   << << "events", 1 >>, Nil >>, << << "other", 1 >>, Bad >>}

Identical == Permutations(Inits)
=============================================================================
