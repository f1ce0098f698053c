------------------------------ MODULE ScopeStore ------------------------------
(***************************************************************************)
(* cas/kernel/scope.py: contexts as a tree of immutable versions.          *)
(*                                                                         *)
(* scopes  every version ever issued; a version is named by its position   *)
(*         (the code counts from 0) and keeps only the entries it adds     *)
(* heads   lineage -> the version new entries land on                      *)
(*                                                                         *)
(* The root version is there from the start: Workflow.__init__ creates it  *)
(* before anything else runs.                                              *)
(***************************************************************************)
EXTENDS Propositions, SequencesExt

CONSTANT MaxScopes      \* bound: versions ever issued

ASSUME ScopeStoreAssumption == MaxScopes \in Nat

VARIABLES scopes, heads

scopeVars == <<scopes, heads>>

ScopeId == 1..Len(scopes)

\* The entries one version adds: declared symbols, definitions (symbol -> the
\* symbols free in its body) and assumptions.
Entries(decl, defs, assum) == [declared |-> decl, defined |-> defs, assumed |-> assum]

NoDefinition == [x \in {} |-> {}]

\* Every such entries, over the vocabulary.
EntriesRecord ==
    [declared : SUBSET Sym,
     defined  : UNION {[D -> SUBSET Sym] : D \in SUBSET Sym},
     assumed  : SUBSET Prop]

NoEntries == Entries({}, NoDefinition, {})

\* The versions chain() walks through above a version with this parent.
ChainAbove(parent) == IF parent = 0 THEN {} ELSE scopes[parent].chain

\* A version. Parent links never change, so what chain() walks through is
\* fixed when the version is issued; it is kept in the record.
Version(id, parent, lineage, entries) ==
    [parent |-> parent, lineage |-> lineage, entries |-> entries,
     chain |-> {id} \cup ChainAbove(parent)]

ScopeInit ==
    /\ scopes = <<[parent |-> 0, lineage |-> 1, entries |-> NoEntries, chain |-> {1}]>>
    /\ heads = [l \in {1} |-> 1]

-----------------------------------------------------------------------------

\* Mutant: only the version directly above is looked at.
IsVisible_ParentOnly(a, s) == a = s \/ a = scopes[s].parent

\* is_visible(a, s): s is inside a, a itself included.
IsVisible(a, s) == a \in scopes[s].chain

\* head_of
HeadOf(s) == heads[scopes[s].lineage]

\* assumptions: what the chain of s assumes, all versions together.
Assumptions(s) == UNION {scopes[v].entries.assumed : v \in scopes[s].chain}

\* declarations
Declared(s) == UNION {scopes[v].entries.declared : v \in scopes[s].chain}

Defined(s) == UNION {DOMAIN scopes[v].entries.defined : v \in scopes[s].chain}

\* lookup_definition: the innermost version of the chain that defines x wins;
\* ids grow along a chain.
DefinitionOf(s, x) ==
    LET v == CHOOSE v \in scopes[s].chain :
                /\ x \in DOMAIN scopes[v].entries.defined
                /\ \A u \in scopes[s].chain : x \in DOMAIN scopes[u].entries.defined => u <= v
    IN  scopes[v].entries.defined[x]

\* introducers
Introducers(x) ==
    {v \in ScopeId : x \in scopes[v].entries.declared \cup DOMAIN scopes[v].entries.defined}

\* escapes: the symbols of a term that some version introduces, but none on
\* the chain of s.
Escapes(s, syms) ==
    {x \in syms : Introducers(x) # {} /\ Introducers(x) \cap scopes[s].chain = {}}

-----------------------------------------------------------------------------

\* Sibling contexts under one fixed version, each a new lineage.
Children(parent, entries) ==
    LET n == Len(scopes) IN
    /\ n + Len(entries) <= MaxScopes
    /\ scopes' = scopes \o
            [k \in DOMAIN entries |-> Version(n + k, parent, n + k, entries[k])]
    /\ heads' = [l \in DOMAIN heads \cup (n + 1)..(n + Len(entries)) |->
                    IF l > n THEN l ELSE heads[l]]

\* create, child.
Create(parent, entries) == Children(parent, <<entries>>)

\* Mutant: any version may be extended.
Extend_AnyVersion(s, entries) ==
    LET new == Len(scopes) + 1 IN
    /\ new <= MaxScopes
    /\ scopes' = Append(scopes, Version(new, s, scopes[s].lineage, entries))
    /\ heads' = [heads EXCEPT ![scopes[s].lineage] = new]

\* extend: a new version on top of s, which must be its lineage's head.
Extend(s, entries) ==
    LET new == Len(scopes) + 1 IN
    /\ HeadOf(s) = s
    /\ new <= MaxScopes
    /\ scopes' = Append(scopes, Version(new, s, scopes[s].lineage, entries))
    /\ heads' = [heads EXCEPT ![scopes[s].lineage] = new]

-----------------------------------------------------------------------------

EntriesType(e) ==
    /\ e.declared \subseteq Sym
    /\ DOMAIN e.defined \subseteq Sym
    /\ \A x \in DOMAIN e.defined : e.defined[x] \subseteq Sym
    /\ e.assumed \subseteq Prop

\* Ids are positions, parents are older, and the chain of a version is its
\* parent's with the version itself.
ScopeTypeOK ==
    /\ Len(scopes) >= 1
    /\ \A s \in ScopeId :
          /\ scopes[s].parent \in 0..(s - 1)
          /\ scopes[s].lineage \in 1..s
          /\ EntriesType(scopes[s].entries)
          /\ scopes[s].chain = {s} \cup ChainAbove(scopes[s].parent)
    /\ DOMAIN heads = {scopes[s].lineage : s \in ScopeId}
    /\ \A l \in DOMAIN heads : heads[l] \in ScopeId /\ scopes[heads[l]].lineage = l

\* The versions of one lineage are one history: of any two, the later one is
\* inside the earlier one, and the head is inside all of them. A fork never
\* disturbs a lineage, however undo moves the pointer that asks for it.
LineageIsLinear ==
    \A u, v \in ScopeId :
        scopes[u].lineage = scopes[v].lineage =>
            /\ u <= v => IsVisible(u, v)
            /\ IsVisible(u, heads[scopes[u].lineage])
===============================================================================
