-------------------------- MODULE ScopeStore_proofs --------------------------
(***************************************************************************)
(* Contexts, for every vocabulary and every bound: what forking and        *)
(* extending keep (cas/kernel/scope.py). The kernel, the workflow and the  *)
(* decision cache all grow contexts this way.                              *)
(***************************************************************************)
EXTENDS ScopeStore, SequenceTheorems, FiniteSetTheorems, WellFoundedInduction, TLAPS

\* A set of positions that is not empty has a last one.
LEMMA LargestExists ==
    ASSUME NEW n \in Nat, NEW T \in SUBSET (1..n), T # {}
    PROVE  \E x \in T : \A y \in T : y <= x
<1>. DEFINE M == {n - x : x \in T}
            R == OpToRel(<, Nat)
<1>1. M \subseteq Nat /\ M # {}
  <2>1. PICK z \in T : TRUE
    OBVIOUS
  <2>2. n - z \in M
    BY <2>1
  <2>3. \A x \in T : n - x \in Nat
    OBVIOUS
  <2>4. M \subseteq Nat
    BY <2>3
  <2>. QED
    BY <2>2, <2>4
<1>2. IsWellFoundedOn(R, Nat)
  BY NatLessThanWellFounded
<1>3. PICK m \in M : \A y \in M : ~(<<y, m>> \in R)
  <2>. HIDE DEF M, R
  <2>. QED
    BY <1>1, <1>2, WFMin, Zenon
<1>4. PICK x \in T : m = n - x
  BY <1>3
<1>5. ASSUME NEW y \in T
      PROVE  y <= x
  <2>1. n - y \in M /\ n - y \in Nat /\ m \in Nat
    BY <1>1, <1>3
  <2>2. ~(n - y < m)
    BY <1>3, <2>1 DEF OpToRel
  <2>. QED
    BY <1>4, <2>1, <2>2
<1>. QED
  BY <1>4, <1>5

-----------------------------------------------------------------------------
(* Contexts. *)

VersionRecord ==
    [parent : Nat, lineage : Nat, entries : EntriesRecord, chain : SUBSET Nat]

\* What a version inherits it inherits for good: its chain is closed upwards.
ChainsClosed ==
    \A s \in ScopeId :
        /\ s \in scopes[s].chain
        /\ scopes[s].chain \subseteq 1..s
        /\ \A a \in scopes[s].chain : scopes[a].chain \subseteq scopes[s].chain

ScopeInv ==
    /\ scopes \in Seq(VersionRecord)
    /\ ScopeTypeOK
    /\ ChainsClosed
    /\ LineageIsLinear

\* Versions are only ever added.
ScopesGrow ==
    /\ Len(scopes) <= Len(scopes')
    /\ \A s \in ScopeId : scopes'[s] = scopes[s]

\* Entries that are records of the right kind pass the type invariant.
LEMMA EntriesRecordType ==
    ASSUME NEW e \in EntriesRecord
    PROVE  EntriesType(e)
<1>1. /\ e.declared \subseteq Sym /\ e.assumed \subseteq Prop
      /\ e.defined \in UNION {[D -> SUBSET Sym] : D \in SUBSET Sym}
  BY DEF EntriesRecord
<1>2. PICK D \in SUBSET Sym : e.defined \in [D -> SUBSET Sym]
  BY <1>1
<1>. QED
  BY <1>1, <1>2 DEF EntriesType

\* Defining nothing is a definition of the symbols of the empty set.
LEMMA NoDefinitionType ==
    NoDefinition \in UNION {[D -> SUBSET Sym] : D \in SUBSET Sym}
<1>1. NoDefinition \in [{} -> SUBSET Sym]
  BY DEF NoDefinition
<1>. QED
  BY <1>1

\* The root version alone.
LEMMA ScopeInvInit == ScopeInit => ScopeInv
<1>. SUFFICES ASSUME ScopeInit PROVE ScopeInv
  OBVIOUS
<1>. DEFINE root == [parent |-> 0, lineage |-> 1, entries |-> NoEntries, chain |-> {1}]
<1>1. scopes = <<root>> /\ heads = [l \in {1} |-> 1]
  BY DEF ScopeInit
<1>2. NoEntries \in EntriesRecord
  BY NoDefinitionType DEF NoEntries, Entries, EntriesRecord
<1>3. root \in VersionRecord
  BY <1>2 DEF VersionRecord
<1>4. root.parent = 0 /\ root.lineage = 1 /\ root.entries = NoEntries /\ root.chain = {1}
  OBVIOUS
<1>. HIDE DEF root
<1>5. scopes \in Seq(VersionRecord) /\ Len(scopes) = 1 /\ scopes[1] = root
  BY <1>1, <1>3
<1>6. ScopeId = {1}
  BY <1>5 DEF ScopeId
<1>7. ScopeTypeOK
  <2>1. EntriesType(NoEntries)
    BY <1>2, EntriesRecordType
  <2>2. DOMAIN heads = {1} /\ heads[1] = 1
    BY <1>1
  <2>3. {scopes[s].lineage : s \in ScopeId} = {1}
    BY <1>4, <1>5, <1>6
  <2>4. \A s \in ScopeId :
          /\ scopes[s].parent \in 0..(s - 1)
          /\ scopes[s].lineage \in 1..s
          /\ EntriesType(scopes[s].entries)
          /\ scopes[s].chain = {s} \cup ChainAbove(scopes[s].parent)
    <3>1. ChainAbove(0) = {}
      BY DEF ChainAbove
    <3>. QED
      BY <1>4, <1>5, <1>6, <2>1, <3>1
  <2>5. \A l \in DOMAIN heads : heads[l] \in ScopeId /\ scopes[heads[l]].lineage = l
    BY <1>4, <1>5, <1>6, <2>2
  <2>6. DOMAIN heads = {scopes[s].lineage : s \in ScopeId}
    BY <2>2, <2>3
  <2>. QED
    BY <1>5, <2>4, <2>5, <2>6 DEF ScopeTypeOK
<1>8. ChainsClosed
  BY <1>4, <1>5, <1>6 DEF ChainsClosed
<1>9. LineageIsLinear
  BY <1>1, <1>4, <1>5, <1>6 DEF LineageIsLinear, IsVisible
<1>. QED
  BY <1>5, <1>7, <1>8, <1>9 DEF ScopeInv

\* New versions come after the others, all under one parent.
GrownUnder(p) ==
    /\ scopes' \in Seq(VersionRecord)
    /\ ScopesGrow
    /\ \A s \in ScopeId' : s \notin ScopeId =>
          scopes'[s].parent = p /\ scopes'[s].chain = {s} \cup scopes[p].chain

\* Whatever is added under a version, what was there keeps its chain and the
\* new versions see what their parent sees.
LEMMA GrownKeepsChains ==
    ASSUME ScopeInv, NEW p \in ScopeId, GrownUnder(p)
    PROVE  /\ ChainsClosed'
           /\ \A s \in ScopeId' :
                 /\ scopes'[s].parent \in 0..(s - 1)
                 /\ (scopes[s].chain = {s} \cup ChainAbove(scopes[s].parent))'
<1>1. /\ Len(scopes) \in Nat /\ Len(scopes') \in Nat
      /\ ScopeId = 1..Len(scopes) /\ ScopeId' = 1..Len(scopes')
      /\ Len(scopes) <= Len(scopes')
  BY DEF ScopeInv, GrownUnder, ScopesGrow, ScopeId
<1>2. \A s \in ScopeId : s \in ScopeId' /\ scopes'[s] = scopes[s]
  BY <1>1 DEF GrownUnder, ScopesGrow
<1>3. \A s \in ScopeId' : s \notin ScopeId =>
          /\ s > Len(scopes) /\ s \in Nat
          /\ scopes'[s].parent = p /\ scopes'[s].chain = {s} \cup scopes[p].chain
  BY <1>1 DEF GrownUnder
<1>4. \A s \in ScopeId :
          /\ s \in scopes[s].chain
          /\ scopes[s].chain \subseteq 1..s
          /\ \A a \in scopes[s].chain : scopes[a].chain \subseteq scopes[s].chain
  BY DEF ScopeInv, ChainsClosed
<1>5. \A s \in ScopeId : scopes[s].chain \subseteq ScopeId
  BY <1>1, <1>4
<1>6. ASSUME NEW s \in ScopeId'
      PROVE  /\ s \in scopes'[s].chain
             /\ scopes'[s].chain \subseteq 1..s
             /\ \A a \in scopes'[s].chain : scopes'[a].chain \subseteq scopes'[s].chain
  <2>1. CASE s \in ScopeId
    BY <1>2, <1>4, <1>5, <2>1
  <2>2. CASE s \notin ScopeId
    <3>1. scopes'[s].chain = {s} \cup scopes[p].chain /\ s > Len(scopes) /\ s \in Nat
      BY <1>3, <2>2
    <3>2. scopes[p].chain \subseteq 1..p /\ p <= Len(scopes) /\ p \in Nat
      BY <1>1, <1>4
    <3>3. scopes'[s].chain \subseteq 1..s
      BY <3>1, <3>2, <1>1
    <3>4. ASSUME NEW a \in scopes'[s].chain
          PROVE  scopes'[a].chain \subseteq scopes'[s].chain
      <4>1. CASE a = s
        BY <4>1
      <4>2. CASE a \in scopes[p].chain
        BY <4>2, <1>2, <1>4, <1>5, <3>1
      <4>. QED
        BY <4>1, <4>2, <3>1
    <3>. QED
      BY <3>1, <3>3, <3>4
  <2>. QED
    BY <2>1, <2>2
<1>7. \A s \in ScopeId :
          /\ scopes[s].parent \in 0..(s - 1)
          /\ scopes[s].chain = {s} \cup ChainAbove(scopes[s].parent)
  BY DEF ScopeInv, ScopeTypeOK
<1>8. ASSUME NEW s \in ScopeId'
      PROVE  /\ scopes'[s].parent \in 0..(s - 1)
             /\ (scopes[s].chain = {s} \cup ChainAbove(scopes[s].parent))'
  <2>1. CASE s \in ScopeId
    <3>1. scopes'[s] = scopes[s] /\ scopes[s].parent \in 0..(s - 1)
      BY <1>2, <1>7, <2>1
    <3>2. scopes[s].parent \in ScopeId \cup {0}
      BY <3>1, <2>1, <1>1
    <3>3. scopes[s].chain = {s} \cup ChainAbove(scopes[s].parent)
      BY <1>7, <2>1
    <3>4. CASE scopes[s].parent = 0
      BY <3>1, <3>3, <3>4 DEF ChainAbove
    <3>5. CASE scopes[s].parent \in ScopeId
      <4>1. scopes'[scopes[s].parent] = scopes[scopes[s].parent]
        BY <1>2, <3>5
      <4>. QED
        BY <3>1, <3>3, <3>5, <4>1 DEF ChainAbove
    <3>. QED
      BY <3>2, <3>4, <3>5
  <2>2. CASE s \notin ScopeId
    <3>1. scopes'[s].parent = p /\ s > Len(scopes) /\ s \in Nat
      BY <1>3, <2>2
    <3>2. p \in 1..Len(scopes)
      BY <1>1
    <3>3. scopes'[p] = scopes[p] /\ p # 0
      BY <1>2, <3>2
    <3>4. scopes'[s].chain = {s} \cup scopes[p].chain
      BY <1>3, <2>2
    <3>. QED
      BY <3>1, <3>2, <3>3, <3>4, <1>1 DEF ChainAbove
  <2>. QED
    BY <2>1, <2>2
<1>. QED
  BY <1>6, <1>8 DEF ChainsClosed

\* A version that is issued is a version.
LEMMA VersionType ==
    ASSUME ScopeInv, NEW p \in ScopeId, NEW id \in Nat, NEW l \in Nat, NEW e \in EntriesRecord
    PROVE  /\ Version(id, p, l, e) \in VersionRecord
           /\ Version(id, p, l, e).parent = p
           /\ Version(id, p, l, e).lineage = l
           /\ Version(id, p, l, e).entries = e
           /\ Version(id, p, l, e).chain = {id} \cup scopes[p].chain
<1>1. p \in Nat /\ p # 0 /\ ChainAbove(p) = scopes[p].chain
  BY DEF ScopeInv, ScopeId, ChainAbove
<1>2. scopes[p].chain \subseteq Nat
  BY <1>1 DEF ScopeInv, ChainsClosed
<1>. QED
  BY <1>1, <1>2 DEF Version, VersionRecord

\* Version s, just issued under p in lineage l, adds the entries e.
Issues(s, p, l, e) ==
    /\ l \in {s, scopes[p].lineage}
    /\ scopes'[s].parent = p
    /\ scopes'[s].lineage = l
    /\ scopes'[s].entries = e
    /\ scopes'[s].chain = {s} \cup scopes[p].chain

\* Sibling contexts: each is a lineage of its own.
LEMMA ChildrenKeepsScopeInv ==
    ASSUME ScopeInv, NEW p \in ScopeId, NEW entries \in Seq(EntriesRecord),
           Children(p, entries)
    PROVE  /\ ScopeInv' /\ ScopesGrow
           /\ Len(scopes') = Len(scopes) + Len(entries) /\ Len(scopes') <= MaxScopes
           /\ \A k \in DOMAIN entries :
                 Issues(Len(scopes) + k, p, Len(scopes) + k, entries[k])
<1>. DEFINE n == Len(scopes)
            new == [k \in DOMAIN entries |-> Version(n + k, p, n + k, entries[k])]
<1>1. n \in Nat /\ Len(entries) \in Nat /\ DOMAIN entries = 1..Len(entries)
      /\ scopes \in Seq(VersionRecord) /\ ScopeId = 1..n
  BY DEF ScopeInv, ScopeId
<1>2. \A k \in DOMAIN entries :
         /\ entries[k] \in EntriesRecord
         /\ new[k] \in VersionRecord
         /\ new[k].parent = p
         /\ new[k].lineage = n + k
         /\ new[k].entries = entries[k]
         /\ new[k].chain = {n + k} \cup scopes[p].chain
  <2>1. ASSUME NEW k \in DOMAIN entries
        PROVE  entries[k] \in EntriesRecord /\ n + k \in Nat /\ new[k] = Version(n + k, p, n + k, entries[k])
    BY <1>1
  <2>. HIDE DEF new, n
  <2>. QED
    BY <2>1, VersionType
<1>3. scopes' = scopes \o new
  BY DEF Children
<1>4. new \in Seq(VersionRecord) /\ Len(new) = Len(entries)
  <2>1. \A k \in DOMAIN entries : new[k] \in VersionRecord
    BY <1>2
  <2>. QED
    BY <1>1, <2>1
<1>. HIDE DEF new
<1>5. /\ scopes' \in Seq(VersionRecord)
      /\ Len(scopes') = n + Len(entries)
      /\ \A s \in 1..n : scopes'[s] = scopes[s]
      /\ \A k \in DOMAIN entries : scopes'[n + k] = new[k]
  <2>1. /\ scopes \o new \in Seq(VersionRecord)
        /\ Len(scopes \o new) = Len(scopes) + Len(new)
    BY <1>1, <1>4, ConcatProperties, Zenon
  <2>2. \A s \in 1..n : scopes'[s] = scopes[s]
    BY <1>1, <1>3, <1>4
  <2>3. \A k \in DOMAIN entries : scopes'[n + k] = new[k]
    BY <1>1, <1>3, <1>4
  <2>. QED
    BY <1>3, <1>4, <2>1, <2>2, <2>3
<1>6. /\ ScopeId' = 1..(n + Len(entries))
      /\ \A s \in ScopeId : s \in ScopeId'
  BY <1>1, <1>5 DEF ScopeId
<1>7. \A s \in ScopeId' : s \notin ScopeId =>
         /\ s > n /\ s \in Nat
         /\ scopes'[s].parent = p
         /\ scopes'[s].lineage = s
         /\ scopes'[s].entries \in EntriesRecord
         /\ scopes'[s].chain = {s} \cup scopes[p].chain
  <2>. SUFFICES ASSUME NEW s \in ScopeId', s \notin ScopeId
                PROVE  /\ s > n /\ s \in Nat
                       /\ scopes'[s].parent = p
                       /\ scopes'[s].lineage = s
                       /\ scopes'[s].entries \in EntriesRecord
                       /\ scopes'[s].chain = {s} \cup scopes[p].chain
    OBVIOUS
  <2>1. s \in Nat /\ s > n /\ s - n \in DOMAIN entries /\ n + (s - n) = s
    BY <1>1, <1>6
  <2>2. scopes'[s] = new[s - n]
    BY <1>5, <2>1
  <2>. QED
    BY <1>2, <2>1, <2>2
<1>8. ScopesGrow
  BY <1>1, <1>5 DEF ScopesGrow
<1>9. GrownUnder(p)
  BY <1>5, <1>7, <1>8 DEF GrownUnder
<1>10. /\ ChainsClosed'
       /\ \A s \in ScopeId' :
                 /\ scopes'[s].parent \in 0..(s - 1)
                 /\ (scopes[s].chain = {s} \cup ChainAbove(scopes[s].parent))'
  BY <1>9, GrownKeepsChains
<1>11. /\ DOMAIN heads = {scopes[s].lineage : s \in ScopeId}
       /\ \A l \in DOMAIN heads : heads[l] \in ScopeId /\ scopes[heads[l]].lineage = l
       /\ \A s \in ScopeId : scopes[s].lineage \in 1..s /\ EntriesType(scopes[s].entries)
  BY DEF ScopeInv, ScopeTypeOK
<1>12. DOMAIN heads \subseteq 1..n
  BY <1>1, <1>11
<1>13. /\ DOMAIN heads' = DOMAIN heads \cup (n + 1)..(n + Len(entries))
       /\ \A l \in DOMAIN heads : heads'[l] = heads[l]
       /\ \A l \in (n + 1)..(n + Len(entries)) : heads'[l] = l
  BY <1>1, <1>12 DEF Children
<1>14. \A s \in ScopeId' : s \in ScopeId \/ s \in (n + 1)..(n + Len(entries))
  BY <1>1, <1>6
<1>15. \A s \in (n + 1)..(n + Len(entries)) : s \in ScopeId' /\ s \notin ScopeId
  BY <1>1, <1>6
<1>16. ScopeTypeOK'
  <2>1. Len(scopes') >= 1
    BY <1>1, <1>5 DEF ScopeInv, ScopeTypeOK
  <2>2. ASSUME NEW s \in ScopeId'
        PROVE  scopes'[s].lineage \in 1..s /\ EntriesType(scopes'[s].entries)
    <3>1. CASE s \in ScopeId
      BY <1>1, <1>5, <1>11, <3>1
    <3>2. CASE s \notin ScopeId
      BY <1>1, <1>7, <3>2, EntriesRecordType
    <3>. QED
      BY <3>1, <3>2
  <2>3. DOMAIN heads' = {scopes'[s].lineage : s \in ScopeId'}
    <3>1. ASSUME NEW l \in DOMAIN heads'
          PROVE  \E s \in ScopeId' : scopes'[s].lineage = l
      <4>1. CASE l \in DOMAIN heads
        <5>1. PICK s \in ScopeId : scopes[s].lineage = l
          BY <1>11, <4>1
        <5>. QED
          BY <1>1, <1>5, <1>6, <5>1
      <4>2. CASE l \in (n + 1)..(n + Len(entries))
        BY <1>7, <1>15, <4>2
      <4>. QED
        BY <1>13, <4>1, <4>2
    <3>2. ASSUME NEW s \in ScopeId'
          PROVE  scopes'[s].lineage \in DOMAIN heads'
      <4>1. CASE s \in ScopeId
        BY <1>1, <1>5, <1>11, <1>13, <4>1
      <4>2. CASE s \notin ScopeId
        BY <1>7, <1>13, <1>14, <4>2
      <4>. QED
        BY <4>1, <4>2
    <3>. QED
      BY <3>1, <3>2
  <2>4. ASSUME NEW l \in DOMAIN heads'
        PROVE  heads'[l] \in ScopeId' /\ scopes'[heads'[l]].lineage = l
    <3>1. CASE l \in DOMAIN heads
      BY <1>1, <1>5, <1>6, <1>11, <1>13, <3>1
    <3>2. CASE l \in (n + 1)..(n + Len(entries))
      BY <1>7, <1>13, <1>15, <3>2
    <3>. QED
      BY <1>13, <3>1, <3>2
  <2>5. \A s \in ScopeId' :
          /\ scopes'[s].parent \in 0..(s - 1)
          /\ scopes'[s].lineage \in 1..s
          /\ EntriesType(scopes'[s].entries)
          /\ (scopes[s].chain = {s} \cup ChainAbove(scopes[s].parent))'
    BY <1>10, <2>2
  <2>. QED
    BY <2>1, <2>3, <2>4, <2>5 DEF ScopeTypeOK
<1>17. LineageIsLinear'
  <2>1. ASSUME NEW u \in ScopeId', NEW v \in ScopeId', scopes'[u].lineage = scopes'[v].lineage
        PROVE  /\ u <= v => u \in scopes'[v].chain
               /\ u \in scopes'[heads'[scopes'[u].lineage]].chain
    <3>1. CASE u \in ScopeId
      <4>1. scopes'[u] = scopes[u] /\ scopes[u].lineage \in DOMAIN heads
            /\ heads'[scopes[u].lineage] = heads[scopes[u].lineage]
            /\ heads[scopes[u].lineage] \in ScopeId
        BY <1>1, <1>5, <1>11, <1>13, <3>1
      <4>2. scopes[u].lineage \in 1..u /\ u <= n /\ u \in Nat
        BY <1>1, <1>11, <3>1
      <4>3. v \in ScopeId
        BY <1>1, <1>7, <2>1, <4>1, <4>2
      <4>4. /\ u <= v => u \in scopes[v].chain
            /\ u \in scopes[heads[scopes[u].lineage]].chain
        BY <1>1, <1>5, <2>1, <3>1, <4>3 DEF ScopeInv, LineageIsLinear, IsVisible
      <4>. QED
        BY <1>1, <1>5, <4>1, <4>3, <4>4
    <3>2. CASE u \notin ScopeId
      <4>1. scopes'[u].lineage = u /\ u > n /\ u \in Nat /\ u \in scopes'[u].chain
        BY <1>7, <3>2
      <4>2. v = u
        <5>1. CASE v \in ScopeId
          <6>1. scopes'[v].lineage \in 1..v /\ v <= n /\ v \in Nat
            BY <1>1, <1>5, <1>11, <5>1
          <6>. QED
            BY <1>1, <2>1, <4>1, <6>1
        <5>2. CASE v \notin ScopeId
          BY <1>7, <2>1, <4>1, <5>2
        <5>. QED
          BY <5>1, <5>2
      <4>3. heads'[u] = u
        BY <1>13, <1>14, <3>2
      <4>. QED
        BY <4>1, <4>2, <4>3
    <3>. QED
      BY <3>1, <3>2
  <2>. QED
    BY <2>1 DEF LineageIsLinear, IsVisible
<1>18. \A k \in DOMAIN entries : Issues(n + k, p, n + k, entries[k])
  BY <1>2, <1>5 DEF Issues
<1>19. Len(scopes') <= MaxScopes
  BY <1>5 DEF Children
<1>. QED
  BY <1>5, <1>8, <1>10, <1>16, <1>17, <1>18, <1>19 DEF ScopeInv

\* A new version of a lineage goes on top of its head.
LEMMA ExtendKeepsScopeInv ==
    ASSUME ScopeInv, NEW p \in ScopeId, NEW entries \in EntriesRecord, Extend(p, entries)
    PROVE  /\ ScopeInv' /\ ScopesGrow
           /\ Len(scopes') = Len(scopes) + 1 /\ Len(scopes') <= MaxScopes
           /\ Issues(Len(scopes) + 1, p, scopes[p].lineage, entries)
<1>. DEFINE n == Len(scopes)
            line == scopes[p].lineage
            new == Version(n + 1, p, line, entries)
<1>1. n \in Nat /\ scopes \in Seq(VersionRecord) /\ ScopeId = 1..n
      /\ p \in 1..n
  BY DEF ScopeInv, ScopeId
<1>2. /\ DOMAIN heads = {scopes[s].lineage : s \in ScopeId}
      /\ \A l \in DOMAIN heads : heads[l] \in ScopeId /\ scopes[heads[l]].lineage = l
      /\ \A s \in ScopeId : scopes[s].lineage \in 1..s /\ EntriesType(scopes[s].entries)
  BY DEF ScopeInv, ScopeTypeOK
<1>3. line \in Nat /\ line \in DOMAIN heads /\ heads[line] = p
  BY <1>1, <1>2 DEF Extend, HeadOf
<1>4. /\ new \in VersionRecord
      /\ new.parent = p /\ new.lineage = line /\ new.entries = entries
      /\ new.chain = {n + 1} \cup scopes[p].chain
  <2>1. n + 1 \in Nat
    BY <1>1
  <2>. HIDE DEF n, line
  <2>. QED
    BY <1>3, <2>1, VersionType
<1>5. scopes' = Append(scopes, new) /\ heads' = [heads EXCEPT ![line] = n + 1]
  BY DEF Extend
<1>. HIDE DEF new
<1>6. /\ scopes' \in Seq(VersionRecord)
      /\ Len(scopes') = n + 1
      /\ \A s \in 1..n : scopes'[s] = scopes[s]
      /\ scopes'[n + 1] = new
  BY <1>1, <1>4, <1>5
<1>7. /\ ScopeId' = 1..(n + 1)
      /\ \A s \in ScopeId' : s \in ScopeId \/ s = n + 1
      /\ n + 1 \in ScopeId' /\ n + 1 \notin ScopeId
      /\ \A s \in ScopeId : s \in ScopeId'
  BY <1>1, <1>6 DEF ScopeId
<1>8. ScopesGrow
  BY <1>1, <1>6 DEF ScopesGrow
<1>9. GrownUnder(p)
  BY <1>4, <1>6, <1>7, <1>8 DEF GrownUnder
<1>10. /\ ChainsClosed'
       /\ \A s \in ScopeId' :
                 /\ scopes'[s].parent \in 0..(s - 1)
                 /\ (scopes[s].chain = {s} \cup ChainAbove(scopes[s].parent))'
  BY <1>9, GrownKeepsChains
<1>11. /\ DOMAIN heads' = DOMAIN heads
       /\ heads'[line] = n + 1
       /\ \A l \in DOMAIN heads : l # line => heads'[l] = heads[l]
  BY <1>3, <1>5
<1>12. scopes'[p] = scopes[p] /\ line \in 1..p
  BY <1>1, <1>2, <1>6
<1>13. ScopeTypeOK'
  <2>1. Len(scopes') >= 1
    BY <1>1, <1>6
  <2>2. ASSUME NEW s \in ScopeId'
        PROVE  scopes'[s].lineage \in 1..s /\ EntriesType(scopes'[s].entries)
    <3>1. CASE s \in ScopeId
      BY <1>1, <1>2, <1>6, <3>1
    <3>2. CASE s = n + 1
      <4>1. line \in 1..(n + 1)
        BY <1>1, <1>12
      <4>. QED
        BY <1>4, <1>6, <3>2, <4>1, EntriesRecordType
    <3>. QED
      BY <1>7, <3>1, <3>2
  <2>3. DOMAIN heads' = {scopes'[s].lineage : s \in ScopeId'}
    <3>1. ASSUME NEW l \in DOMAIN heads'
          PROVE  \E s \in ScopeId' : scopes'[s].lineage = l
      <4>1. PICK s \in ScopeId : scopes[s].lineage = l
        BY <1>2, <1>11
      <4>. QED
        BY <1>1, <1>6, <1>7, <4>1
    <3>2. ASSUME NEW s \in ScopeId'
          PROVE  scopes'[s].lineage \in DOMAIN heads'
      <4>1. CASE s \in ScopeId
        BY <1>1, <1>2, <1>6, <1>11, <4>1
      <4>2. CASE s = n + 1
        BY <1>3, <1>4, <1>6, <1>11, <4>2
      <4>. QED
        BY <1>7, <4>1, <4>2
    <3>. QED
      BY <3>1, <3>2
  <2>4. ASSUME NEW l \in DOMAIN heads'
        PROVE  heads'[l] \in ScopeId' /\ scopes'[heads'[l]].lineage = l
    <3>1. CASE l = line
      BY <1>4, <1>6, <1>7, <1>11, <3>1
    <3>2. CASE l # line
      <4>1. heads'[l] = heads[l] /\ heads[l] \in ScopeId /\ scopes[heads[l]].lineage = l
        BY <1>2, <1>11, <3>2
      <4>2. scopes'[heads[l]] = scopes[heads[l]] /\ heads[l] \in ScopeId'
        BY <1>1, <1>6, <1>7, <4>1
      <4>. QED
        BY <4>1, <4>2
    <3>. QED
      BY <3>1, <3>2
  <2>5. \A s \in ScopeId' :
          /\ scopes'[s].parent \in 0..(s - 1)
          /\ scopes'[s].lineage \in 1..s
          /\ EntriesType(scopes'[s].entries)
          /\ (scopes[s].chain = {s} \cup ChainAbove(scopes[s].parent))'
    BY <1>10, <2>2
  <2>. QED
    BY <2>1, <2>3, <2>4, <2>5 DEF ScopeTypeOK
<1>14. LineageIsLinear'
  <2>1. ASSUME NEW u \in ScopeId', NEW v \in ScopeId', scopes'[u].lineage = scopes'[v].lineage
        PROVE  /\ u <= v => u \in scopes'[v].chain
               /\ u \in scopes'[heads'[scopes'[u].lineage]].chain
    <3>1. \A s \in ScopeId : scopes[s].lineage = line => s \in scopes[p].chain
      BY <1>3 DEF ScopeInv, LineageIsLinear, IsVisible
    <3>2. \A s \in ScopeId' : scopes'[s].lineage = line => s \in scopes'[n + 1].chain
      BY <1>1, <1>4, <1>6, <1>7, <3>1
    <3>3. u <= v => u \in scopes'[v].chain
      <4>1. CASE v = n + 1
        <5>1. scopes'[v].lineage = line
          BY <1>4, <1>6, <4>1
        <5>. QED
          BY <2>1, <3>2, <4>1, <5>1
      <4>2. CASE v \in ScopeId /\ u \in ScopeId
        BY <1>1, <1>6, <2>1, <4>2 DEF ScopeInv, LineageIsLinear, IsVisible
      <4>3. CASE v \in ScopeId /\ u = n + 1
        BY <1>1, <4>3
      <4>. QED
        BY <1>7, <4>1, <4>2, <4>3
    <3>4. u \in scopes'[heads'[scopes'[u].lineage]].chain
      <4>1. CASE scopes'[u].lineage = line
        BY <1>11, <3>2, <4>1
      <4>2. CASE scopes'[u].lineage # line
        <5>1. u \in ScopeId /\ scopes'[u] = scopes[u]
          BY <1>1, <1>4, <1>6, <1>7, <4>2
        <5>2. scopes[u].lineage \in DOMAIN heads' /\ heads'[scopes[u].lineage] = heads[scopes[u].lineage]
          BY <1>2, <1>11, <4>2, <5>1
        <5>3. u \in scopes[heads[scopes[u].lineage]].chain /\ heads[scopes[u].lineage] \in ScopeId
          BY <1>2, <5>1 DEF ScopeInv, LineageIsLinear, IsVisible
        <5>. QED
          BY <1>1, <1>6, <5>1, <5>2, <5>3
      <4>. QED
        BY <4>1, <4>2
    <3>. QED
      BY <3>3, <3>4
  <2>. QED
    BY <2>1 DEF LineageIsLinear, IsVisible
<1>15. Len(scopes') <= MaxScopes /\ Issues(n + 1, p, line, entries)
  BY <1>4, <1>6 DEF Extend, Issues
<1>. QED
  BY <1>6, <1>8, <1>10, <1>13, <1>14, <1>15 DEF ScopeInv

\* A step that leaves the contexts alone keeps what is said of them.
LEMMA ScopesUnchanged ==
    ASSUME ScopeInv, UNCHANGED scopeVars
    PROVE  ScopeInv' /\ ScopesGrow
<1>1. scopes' = scopes /\ heads' = heads /\ ScopeId' = ScopeId
  BY DEF scopeVars, ScopeId
<1>2. scopes' \in Seq(VersionRecord)
  BY <1>1 DEF ScopeInv
<1>3. \A q : ChainAbove(q)' = ChainAbove(q)
  BY <1>1 DEF ChainAbove
<1>4. ScopeTypeOK' = ScopeTypeOK
  BY <1>1, <1>3, Zenon DEF ScopeTypeOK
<1>5. ChainsClosed' = ChainsClosed
  BY <1>1 DEF ChainsClosed
<1>6. LineageIsLinear' = LineageIsLinear
  BY <1>1 DEF LineageIsLinear, IsVisible
<1>7. ScopesGrow
  BY <1>1 DEF ScopesGrow, ScopeInv
<1>. QED
  BY <1>2, <1>4, <1>5, <1>6, <1>7 DEF ScopeInv

\* Entries a fork or a new version is made with.
LEMMA EntriesMade ==
    ASSUME NEW d \in SUBSET Sym, NEW a \in SUBSET Prop
    PROVE  Entries(d, NoDefinition, a) \in EntriesRecord
BY NoDefinitionType DEF Entries, EntriesRecord

-----------------------------------------------------------------------------
(* What a version says of its context. *)

\* A version's chain is issued with it, so whatever grows around it, what is
\* assumed and defined for it stands.
LEMMA ContextStands ==
    ASSUME ScopeInv, ScopeInv', ScopesGrow, NEW s \in ScopeId
    PROVE  /\ s \in ScopeId'
           /\ Assumptions(s)' = Assumptions(s)
           /\ Defined(s)' = Defined(s)
           /\ \A x \in Defined(s) : DefinitionOf(s, x)' = DefinitionOf(s, x)
<1>1. /\ Len(scopes) \in Nat /\ Len(scopes') \in Nat
      /\ ScopeId = 1..Len(scopes) /\ ScopeId' = 1..Len(scopes')
      /\ Len(scopes) <= Len(scopes')
      /\ \A v \in ScopeId : v \in ScopeId' /\ scopes'[v] = scopes[v]
  BY DEF ScopeInv, ScopesGrow, ScopeId
<1>2. scopes[s].chain \subseteq ScopeId /\ scopes[s].chain \subseteq 1..s /\ s \in Nat
  BY <1>1 DEF ScopeInv, ChainsClosed
<1>3. /\ scopes'[s].chain = scopes[s].chain
      /\ \A v \in scopes[s].chain : scopes'[v] = scopes[v]
  BY <1>1, <1>2
<1>4. Assumptions(s)' = Assumptions(s)
  BY <1>3 DEF Assumptions
<1>5. Defined(s)' = Defined(s)
  BY <1>3 DEF Defined
<1>6. ASSUME NEW x \in Defined(s)
      PROVE  DefinitionOf(s, x)' = DefinitionOf(s, x)
  <2>. DEFINE T == {v \in scopes[s].chain : x \in DOMAIN scopes[v].entries.defined}
  <2>1. T \subseteq 1..s /\ T # {}
    BY <1>2 DEF Defined
  <2>2. PICK v \in T : \A u \in T : u <= v
    <3>. HIDE DEF T
    <3>. QED
      BY <1>2, <2>1, LargestExists
  <2>3. \A w \in T : (\A u \in T : u <= w) => w = v
    <3>. SUFFICES ASSUME NEW w \in T, \A u \in T : u <= w
                  PROVE  w = v
      OBVIOUS
    <3>1. w <= v /\ v <= w /\ v \in Nat /\ w \in Nat
      BY <2>1, <2>2
    <3>. QED
      BY <3>1
  <2>4. \A w : (/\ w \in scopes[s].chain
               /\ x \in DOMAIN scopes[w].entries.defined
               /\ \A u \in scopes[s].chain :
                     x \in DOMAIN scopes[u].entries.defined => u <= w) <=> w = v
    BY <2>2, <2>3
  <2>5. \A w : (/\ w \in scopes'[s].chain
               /\ x \in DOMAIN scopes'[w].entries.defined
               /\ \A u \in scopes'[s].chain :
                     x \in DOMAIN scopes'[u].entries.defined => u <= w) <=> w = v
    BY <1>3, <2>4
  <2>6. DefinitionOf(s, x) = scopes[v].entries.defined[x]
    BY <2>4, Zenon DEF DefinitionOf
  <2>7. DefinitionOf(s, x)' = scopes'[v].entries.defined[x]
    BY <2>5, Zenon DEF DefinitionOf
  <2>. QED
    BY <1>3, <2>2, <2>6, <2>7
<1>. QED
  BY <1>1, <1>4, <1>5, <1>6
===============================================================================
