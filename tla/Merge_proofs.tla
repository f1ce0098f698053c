----------------------------- MODULE Merge_proofs -----------------------------
(***************************************************************************)
(* Reasoning by cases is sound: what split_on opens and merge_branches     *)
(* closes again (cas/workflow/workflow.py) over the kernel's checks of     *)
(* coverage and merge (cas/math/base/checkers.py).                         *)
(***************************************************************************)
EXTENDS Workflow_proofs

-----------------------------------------------------------------------------
(* The shape of contexts.                                                   *)

\* What a version sees is of its own lineage, or was in sight where the lineage
\* was opened.
Placed(s, v) ==
    \/ scopes[v].lineage = scopes[s].lineage
    \/ /\ scopes[scopes[s].lineage].parent # 0
       /\ v \in scopes[scopes[scopes[s].lineage].parent].chain

LineageChain == \A s \in ScopeId : \A v \in scopes[s].chain : Placed(s, v)

\* Every operation puts its new versions directly under the current one.
LEMMA NewVersions ==
    ASSUME WorkflowInv, Kept, WorkflowStepKind, NEW s \in ScopeId', s \notin ScopeId
    PROVE  \E l, e : Issues(s, scope, l, e)
<1>1. /\ Len(scopes) \in Nat /\ Len(scopes') \in Nat
      /\ ScopeId = 1..Len(scopes) /\ ScopeId' = 1..Len(scopes')
  BY DEF Kept, WorkflowInv, StoreInv, ScopeInv, ScopeId
<1>2. ASSUME scopes' = scopes
      PROVE  FALSE
  BY <1>1, <1>2
<1>3. ASSUME NEW p, NEW answer, Concludes(p, answer)
      PROVE  FALSE
  BY <1>2, <1>3 DEF Concludes, scopeVars
<1>4. ASSUME NEW q \in Claimable, Claims(q)
      PROVE  \E l, e : Issues(s, scope, l, e)
  <2>. PICK committed \in BOOLEAN :
          committed = (Outcome(Proposal(scope, <<>>, q, "claim", NoPayload, WorkflowPolicy)) = "committed")
    OBVIOUS
  <2>1. CASE committed
    <3>1. /\ Len(scopes') = Len(scopes) + 1
          /\ \E l : Issues(Len(scopes) + 1, scope, l, Entries({}, NoDefinition, {q}))
      BY <1>4, <2>1 DEF Claims
    <3>2. s = Len(scopes) + 1
      BY <1>1, <3>1
    <3>. QED
      BY <3>1, <3>2
  <2>2. CASE ~committed
    BY <1>2, <1>4, <2>2 DEF Claims, kernelVars, scopeVars
  <2>. QED
    BY <2>1, <2>2
<1>5. ASSUME NEW c \in Splittable, Splits(c)
      PROVE  \E l, e : Issues(s, scope, l, e)
  <2>1. /\ Len(scopes') = Len(scopes) + 2
        /\ \E l : Issues(Len(scopes) + 1, scope, l, Entries({}, NoDefinition, {c}))
        /\ \E l : Issues(Len(scopes) + 2, scope, l, Entries({}, NoDefinition, {Not(c)}))
    BY <1>5 DEF Splits
  <2>2. s = Len(scopes) + 1 \/ s = Len(scopes) + 2
    BY <1>1, <2>1
  <2>. QED
    BY <2>1, <2>2
<1>6. ASSUME NEW e, Introduces(e)
      PROVE  \E l : Issues(s, scope, l, e)
  <2>1. s = Len(scopes) + 1
    BY <1>1, <1>6 DEF Introduces
  <2>. QED
    BY <1>6, <2>1 DEF Introduces
<1>7. CASE Moves
  BY <1>2, <1>7 DEF Moves, kernelVars, scopeVars
<1>. QED
  BY <1>3, <1>4, <1>5, <1>6, <1>7 DEF WorkflowStepKind

LEMMA LineageChainStep ==
    ASSUME WorkflowInv, LineageChain, Kept, WorkflowStepKind
    PROVE  LineageChain'
<1>1. /\ ScopeInv /\ ScopeInv' /\ scope \in ScopeId
      /\ Len(scopes) \in Nat /\ ScopeId = 1..Len(scopes)
      /\ \A s \in ScopeId : s \in ScopeId' /\ scopes'[s] = scopes[s]
  BY DEF Kept, WorkflowInv, StoreInv, ScopeInv, ScopeId, PointersExist, ScopesGrow
<1>2. \A s \in ScopeId : /\ scopes[s].chain \subseteq ScopeId
                         /\ scopes[s].lineage \in ScopeId
                         /\ scopes[s].parent \in {0} \cup ScopeId
  <2>1. \A s \in ScopeId : /\ scopes[s].chain \subseteq 1..s
                           /\ scopes[s].lineage \in 1..s
                           /\ scopes[s].parent \in 0..(s - 1)
    BY <1>1 DEF ScopeInv, ChainsClosed, ScopeTypeOK
  <2>. QED
    BY <1>1, <2>1
<1>3. 0 \notin ScopeId
  BY <1>1
<1>4. ASSUME NEW s \in ScopeId, NEW v \in scopes[s].chain
      PROVE  Placed(s, v)'
  <2>. PICK l \in ScopeId : l = scopes[s].lineage
    BY <1>2
  <2>1. Placed(s, v)
    BY DEF LineageChain
  <2>2. scopes'[s] = scopes[s] /\ scopes'[v] = scopes[v] /\ scopes'[l] = scopes[l]
    BY <1>1, <1>2
  <2>3. scopes[l].parent # 0 => scopes'[scopes[l].parent] = scopes[scopes[l].parent]
    BY <1>1, <1>2
  <2>. QED
    BY <2>1, <2>2, <2>3 DEF Placed
<1>5. ASSUME NEW s \in ScopeId', s \notin ScopeId, NEW v \in scopes'[s].chain
      PROVE  Placed(s, v)'
  <2>. PICK here \in ScopeId : here = scope
    BY <1>1
  <2>1. PICK l, e : Issues(s, here, l, e)
    BY <1>5, NewVersions
  <2>2. /\ scopes'[s].lineage = l /\ scopes'[s].parent = here
        /\ v = s \/ v \in scopes[here].chain
        /\ l = s \/ l = scopes[here].lineage
    BY <1>5, <2>1 DEF Issues
  <2>3. CASE v = s
    BY <2>3 DEF Placed
  <2>4. CASE v \in scopes[here].chain /\ l = scopes[here].lineage
    <3>1. Placed(here, v)' /\ scopes'[here].lineage = scopes'[s].lineage
      BY <1>1, <1>4, <2>2, <2>4
    <3>. QED
      BY <3>1 DEF Placed
  <2>5. CASE v \in scopes[here].chain /\ l = s
    <3>1. scopes'[here].chain = scopes[here].chain /\ here # 0
      BY <1>1, <1>3
    <3>. QED
      BY <2>2, <2>5, <3>1 DEF Placed
  <2>. QED
    BY <2>2, <2>3, <2>4, <2>5
<1>6. ASSUME NEW s \in ScopeId', NEW v \in scopes'[s].chain
      PROVE  Placed(s, v)'
  <2>1. CASE s \in ScopeId
    BY <1>1, <1>4, <2>1
  <2>2. CASE s \notin ScopeId
    BY <1>5, <2>2
  <2>. QED
    BY <2>1, <2>2
<1>. QED
  BY <1>6 DEF LineageChain

\* Whoever is inside a context assumes what it assumes.
LEMMA InsideAssumes ==
    ASSUME ScopeInv, NEW s \in ScopeId, NEW a \in scopes[s].chain
    PROVE  Assumptions(a) \subseteq Assumptions(s)
<1>1. scopes[a].chain \subseteq scopes[s].chain
  BY DEF ScopeInv, ChainsClosed
<1>. QED
  BY <1>1 DEF Assumptions

-----------------------------------------------------------------------------
(* Claims.                                                                  *)

\* A claim once made counts for everything after.
LEMMA ClaimedMonotone ==
    ASSUME NEW i \in Nat, NEW j \in Nat, i <= j
    PROVE  ClaimedAnywhere(i) \subseteq ClaimedAnywhere(j)
<1>1. 1..i \subseteq 1..j
  OBVIOUS
<1>. QED
  BY <1>1 DEF ClaimedAnywhere

\* What was claimed by judgment j is what was claimed by then, ever after.
LEMMA ClaimedStays ==
    ASSUME LedgerInv, LedgerGrows, NEW j \in 0..Len(judgments)
    PROVE  ClaimedAnywhere(j)' = ClaimedAnywhere(j)
<1>1. \A c \in 1..j : c \in JudgmentId
  BY DEF LedgerInv, LedgerSeqs, JudgmentId
<1>2. \A c \in 1..j : judgments'[c] = judgments[c] /\ steps'[c] = steps[c]
  BY <1>1 DEF LedgerGrows
<1>. DEFINE C == {c \in 1..j : steps[c].checker = "claim"}
<1>3. C' = C
  BY <1>2
<1>4. \A c \in C : judgments'[c].proposition = judgments[c].proposition
  BY <1>2
<1>5. ClaimedAnywhere(j) = {judgments[c].proposition : c \in C}
  BY DEF ClaimedAnywhere
<1>6. ClaimedAnywhere(j)' = {judgments'[c].proposition : c \in C'}
  BY DEF ClaimedAnywhere
<1>. HIDE DEF C
<1>. QED
  BY <1>3, <1>4, <1>5, <1>6

\* More is claimed by the end of a step than there was before it.
LEMMA ClaimedBefore ==
    ASSUME LedgerInv, LedgerGrows, NEW i \in Nat, i <= Len(judgments), NEW j \in Nat, i <= j
    PROVE  ClaimedAnywhere(i) \subseteq ClaimedAnywhere(j)'
<1>1. \A c \in 1..i : c \in JudgmentId /\ c \in 1..j
  BY DEF LedgerInv, LedgerSeqs, JudgmentId
<1>2. \A c \in 1..i : judgments'[c] = judgments[c] /\ steps'[c] = steps[c]
  BY <1>1 DEF LedgerGrows
<1>. QED
  BY <1>1, <1>2 DEF ClaimedAnywhere

-----------------------------------------------------------------------------
(* What a conclusion rests on.                                              *)

\* A judgment holds inside its context, given its conditions and the claims.
LEMMA HoldsInside ==
    ASSUME WorkflowInv, SoundUpToClaims, NEW j \in JudgmentId, NEW s \in ScopeId,
           judgments[j].scope \in scopes[s].chain, NEW w \in World,
           TrueIn(w, Assumptions(s)), TrueIn(w, ClaimedAnywhere(Len(judgments))),
           TrueIn(w, Conditions(j))
    PROVE  w \in Truth[judgments[j].proposition]
<1>1. ScopeInv /\ LedgerInv
  BY DEF WorkflowInv, StoreInv
<1>2. j \in Nat /\ Len(judgments) \in Nat /\ j <= Len(judgments)
  BY <1>1 DEF LedgerInv, LedgerSeqs, JudgmentId
<1>3. TrueIn(w, ClaimedAnywhere(j))
  BY <1>2, ClaimedMonotone DEF TrueIn
<1>4. TrueIn(w, Assumptions(judgments[j].scope))
  BY <1>1, InsideAssumes DEF TrueIn
<1>5. TrueIn(w, Assumptions(judgments[j].scope) \cup ClaimedAnywhere(j) \cup Conditions(j))
  BY <1>3, <1>4 DEF TrueIn
<1>. QED
  BY <1>5 DEF SoundUpToClaims, Entails

\* The conclusion of a commit carries its direct conditions and those of its
\* premises.
LEMMA ConditionsCarried ==
    ASSUME LedgerInv, NEW p, Proposed(p), NEW direct \in Seq(Prop),
           NEW settled \in InOrder(SettledAt(p, direct)), Wrote(p, direct, settled),
           NEW main, main = Len(judgments) + 1
    PROVE  /\ Range(direct) \subseteq Conditions(main)'
           /\ \A i \in DOMAIN p.premises : Conditions(p.premises[i]) \subseteq Conditions(main)'
<1>1. judgments'[main].requirements = Carried(p, direct)
  BY DEF Wrote
<1>2. ASSUME NEW t \in Range(direct)
      PROVE  t \in Conditions(main)'
  <2>1. PICK i \in DOMAIN direct : direct[i] = t /\ IdOf(direct, t) = Len(requirements) + i
    BY IdOfShape
  <2>2. requirements'[Len(requirements) + i] =
              [scope |-> p.scope, proposition |-> direct[i], introducedBy |-> main]
    BY DEF Wrote
  <2>3. requirements'[IdOf(direct, t)].proposition = t
    BY <2>1, <2>2
  <2>4. IdOf(direct, t) \in judgments'[main].requirements
    BY <1>1 DEF Carried
  <2>. QED
    BY <2>3, <2>4 DEF Conditions
<1>3. ASSUME NEW i \in DOMAIN p.premises, NEW r \in judgments[p.premises[i]].requirements
      PROVE  requirements[r].proposition \in Conditions(main)'
  <2>1. p.premises[i] \in JudgmentId
    BY DEF Proposed
  <2>2. r \in judgments'[main].requirements
    BY <1>1 DEF Carried, Inherited, Range
  <2>3. requirements'[r] = requirements[r]
    BY <2>1 DEF LedgerInv, LedgerTypeOK, Wrote, LedgerGrows
  <2>. QED
    BY <2>2, <2>3 DEF Conditions
<1>. QED
  BY <1>2, <1>3 DEF Conditions

\* A disjunction that holds has a disjunct that holds.
LEMMA OneHolds ==
    ASSUME NEW c, NEW d, Or(c, d) \in Prop, NEW w \in Truth[Or(c, d)]
    PROVE  w \in Truth[c] \/ w \in Truth[d]
<1>1. Or(c, d).head = "Or" /\ Or(c, d).args = <<c, d>>
  BY DEF Or
<1>2. Truth[Or(c, d)] = UNION {Truth[<<c, d>>[i]] : i \in DOMAIN <<c, d>>}
  BY <1>1, ConnectiveAssumption
<1>3. PICK i \in 1..2 : w \in Truth[<<c, d>>[i]]
  BY <1>2
<1>4. i = 1 \/ i = 2
  OBVIOUS
<1>. QED
  BY <1>3, <1>4

\* What a true condition implies is true.
LEMMA Detached ==
    ASSUME NEW c, NEW g, Implies(c, g) \in Prop, NEW w \in Truth[Implies(c, g)], w \in Truth[c]
    PROVE  w \in Truth[g]
<1>1. /\ Implies(c, g).head = "Implies"
      /\ Implies(c, g).args[1] = c /\ Implies(c, g).args[2] = g
  BY DEF Implies
<1>2. Truth[Implies(c, g)] = (World \ Truth[c]) \cup Truth[g]
  BY <1>1, ConnectiveAssumption
<1>. QED
  BY <1>2

-----------------------------------------------------------------------------
(* Branches.                                                                *)

\* Inside a branch nothing is assumed but what holds in the parent, the
\* condition of the case, and claims.
LEMMA BranchAssumes ==
    ASSUME WorkflowInv, AssumptionsAccounted, LineageChain,
           NEW lineage \in DOMAIN heads, NEW case, CaseOK(lineage, case),
           NEW a \in ScopeId, scopes[a].lineage = case.scope
    PROVE  Assumptions(a) \subseteq Assumptions(heads[lineage]) \cup {case.condition}
                                    \cup ClaimedAnywhere(Len(judgments))
<1>1. ScopeInv /\ LedgerInv
  BY DEF WorkflowInv, StoreInv
<1>. PICK l \in ScopeId : l = case.scope
  BY DEF CaseOK
<1>. PICK p \in ScopeId : p = scopes[l].parent
  BY DEF CaseOK
<1>. PICK h \in ScopeId : h = heads[lineage]
  BY <1>1 DEF ScopeInv, ScopeTypeOK
<1>2. scopes[l].lineage = l /\ scopes[l].entries.assumed = {case.condition}
      /\ scopes[p].lineage = lineage
  BY DEF CaseOK
<1>3. scopes[p].chain \subseteq scopes[h].chain
  <2>1. p \in scopes[h].chain
    BY <1>1, <1>2 DEF ScopeInv, LineageIsLinear, IsVisible
  <2>. QED
    BY <1>1, <2>1 DEF ScopeInv, ChainsClosed
<1>4. scopes[a].chain \subseteq ScopeId
  <2>1. scopes[a].chain \subseteq 1..a /\ ScopeId = 1..Len(scopes) /\ Len(scopes) \in Nat
    BY <1>1 DEF ScopeInv, ChainsClosed, ScopeId
  <2>. QED
    BY <2>1
<1>. SUFFICES ASSUME NEW v \in scopes[a].chain, NEW t \in scopes[v].entries.assumed
              PROVE  t \in Assumptions(h) \cup {case.condition} \cup ClaimedAnywhere(Len(judgments))
  BY DEF Assumptions
<1>5. CASE v \in scopes[p].chain
  BY <1>3, <1>5 DEF Assumptions
<1>6. CASE scopes[v].lineage = l
  <2>1. Accounted(v, t)
    BY <1>4 DEF AssumptionsAccounted, Accounted
  <2>2. ASSUME NEW k \in StepId, wsteps[k].judgment # 0,
               steps[wsteps[k].judgment].checker = "claim", wsteps[k].content = t
        PROVE  t \in ClaimedAnywhere(Len(judgments))
    <3>. PICK j \in JudgmentId : j = wsteps[k].judgment
      BY <2>2 DEF WorkflowInv, StepOK
    <3>1. judgments[j].proposition = t
      BY <2>2 DEF WorkflowInv, StepOK
    <3>. QED
      BY <2>2, <3>1 DEF ClaimedAnywhere, JudgmentId
  <2>3. ASSUME NEW b \in DOMAIN branches, NEW i \in 1..2,
               branches[b].cases[i] = [condition |-> t, scope |-> v]
        PROVE  t = case.condition
    <3>1. CaseOK(branches[b].parentLineage, [condition |-> t, scope |-> v])
      BY <2>3 DEF WorkflowInv, BranchOK
    <3>2. scopes[v].lineage = v /\ scopes[v].entries.assumed = {t}
      BY <3>1 DEF CaseOK
    <3>. QED
      BY <1>2, <1>6, <3>2
  <2>. QED
    BY <2>1, <2>2, <2>3 DEF Accounted
<1>7. Placed(a, v)
  BY DEF LineageChain
<1>. QED
  BY <1>5, <1>6, <1>7 DEF Placed

\* Where the parent's context, the claims, a case and the conditions of its
\* answer hold, so does the answer.
LEMMA AnswerHolds ==
    ASSUME WorkflowInv, AssumptionsAccounted, LineageChain, SoundUpToClaims,
           NEW lineage \in DOMAIN heads, NEW case, CaseOK(lineage, case),
           NEW j \in JudgmentId, scopes[judgments[j].scope].lineage = case.scope,
           NEW w \in World,
           TrueIn(w, Assumptions(heads[lineage])), TrueIn(w, ClaimedAnywhere(Len(judgments))),
           w \in Truth[case.condition], TrueIn(w, Conditions(j))
    PROVE  w \in Truth[judgments[j].proposition]
<1>1. ScopeInv /\ LedgerInv
  BY DEF WorkflowInv, StoreInv
<1>. PICK a \in ScopeId : a = judgments[j].scope
  BY <1>1 DEF LedgerInv, LedgerTypeOK
<1>2. Assumptions(a) \subseteq Assumptions(heads[lineage]) \cup {case.condition}
                               \cup ClaimedAnywhere(Len(judgments))
  BY BranchAssumes
<1>3. TrueIn(w, Assumptions(a))
  BY <1>2 DEF TrueIn
<1>4. a \in scopes[a].chain
  BY <1>1 DEF ScopeInv, ChainsClosed
<1>. QED
  BY <1>3, <1>4, HoldsInside

-----------------------------------------------------------------------------
(* Every commit is sound up to claims.                                      *)

\* A merge: one of the cases applies, its open guards are among the conditions
\* that were promoted, and its answer is the conclusion.
LEMMA MergeHolds ==
    ASSUME WorkflowInv, AssumptionsAccounted, LineageChain, SoundUpToClaims,
           NEW p, Proposed(p), Merges(p), NEW direct \in Seq(Prop), MergeGrounds(p, direct),
           NEW w \in World,
           TrueIn(w, Assumptions(p.scope)), TrueIn(w, ClaimedAnywhere(Len(judgments))),
           TrueIn(w, Range(direct)), TrueIn(w, Range(PremiseProps(p)))
    PROVE  w \in Truth[p.conclusion]
<1>1. PICK n \in DOMAIN branches, q \in Prop, results \in [1..2 -> StepId] :
          Mergeable(branches[n], q, results) /\ p = MergeProposal(branches[n], q, results)
  BY DEF Merges
<1>. PICK b : b = branches[n]
  OBVIOUS
<1>2. /\ p.scope = heads[b.parentLineage] /\ p.premises = <<b.coverage>> /\ p.conclusion = q
      /\ \A i \in 1..2 :
            /\ p.payload.conditions[i] = b.cases[i].condition
            /\ p.payload.answers[i] = judgments[wsteps[results[i]].judgment].proposition
            /\ p.payload.guards[i] = SetToSeq(wsteps[results[i]].guards)
  BY <1>1, MergeParts
<1>3. /\ b.parentLineage \in DOMAIN heads
      /\ \A i \in 1..2 : CaseOK(b.parentLineage, b.cases[i])
  BY DEF WorkflowInv, BranchOK
<1>4. ASSUME NEW i \in 1..2, w \in Truth[b.cases[i].condition]
      PROVE  w \in Truth[q]
  <2>. PICK k \in StepId : k = results[i]
    BY <1>1
  <2>. PICK g : g = wsteps[k].guards
    OBVIOUS
  <2>. PICK case : case = b.cases[i]
    OBVIOUS
  <2>1. /\ wsteps[k].judgment # 0
        /\ scopes[judgments[wsteps[k].judgment].scope].lineage = scopes[case.scope].lineage
    BY <1>1 DEF Mergeable
  <2>2. PICK j \in JudgmentId : j = wsteps[k].judgment /\ g = Conditions(j)
    BY <2>1 DEF WorkflowInv, StepOK
  <2>3. CaseOK(b.parentLineage, case) /\ scopes[judgments[j].scope].lineage = case.scope
    BY <1>3, <2>1, <2>2 DEF CaseOK
  <2>4. ASSUME NEW t \in g
        PROVE  w \in Truth[t]
    <3>1. IsFiniteSet(g)
      BY <2>2, ConditionsFinite DEF WorkflowInv, StoreInv
    <3>2. PICK m \in DOMAIN SetToSeq(g) : SetToSeq(g)[m] = t
      BY <3>1, LaidOut
    <3>3. p.payload.guards[i] = SetToSeq(g) /\ p.payload.conditions[i] = case.condition
      BY <1>2
    <3>4. Implies(case.condition, t) \in Range(direct)
      BY <3>2, <3>3 DEF MergeGrounds
    <3>5. Range(direct) \subseteq Prop
      BY DEF Range
    <3>6. w \in Truth[Implies(case.condition, t)]
      BY <3>4 DEF TrueIn
    <3>. QED
      BY <1>4, <3>4, <3>5, <3>6, Detached
  <2>5. TrueIn(w, Conditions(j))
    BY <2>2, <2>4 DEF TrueIn
  <2>6. w \in Truth[judgments[j].proposition]
    BY <1>2, <1>3, <1>4, <2>3, <2>5, AnswerHolds
  <2>7. judgments[j].proposition = q
    <3>1. p.payload.answers[i] = judgments[j].proposition /\ p.payload.answers[i] = p.conclusion
      BY <1>2, <2>2 DEF MergeGrounds
    <3>. QED
      BY <1>2, <3>1
  <2>. QED
    BY <2>6, <2>7
<1>5. Or(b.cases[1].condition, b.cases[2].condition) \in Range(PremiseProps(p))
  <2>1. /\ p.payload.conditions[1] = b.cases[1].condition
        /\ p.payload.conditions[2] = b.cases[2].condition
    BY <1>2
  <2>. QED
    BY <2>1 DEF MergeGrounds
<1>6. Range(PremiseProps(p)) \subseteq Prop
  <2>1. ASSUME NEW t \in Range(PremiseProps(p))
        PROVE  \E i \in DOMAIN p.premises : t = judgments[p.premises[i]].proposition
    BY DEF Range, PremiseProps
  <2>2. \A i \in DOMAIN p.premises : p.premises[i] \in JudgmentId
    BY DEF Proposed
  <2>3. \A j \in JudgmentId : judgments[j].proposition \in Prop
    BY DEF WorkflowInv, StoreInv, LedgerInv, LedgerTypeOK
  <2>. QED
    BY <2>1, <2>2, <2>3
<1>7. w \in Truth[b.cases[1].condition] \/ w \in Truth[b.cases[2].condition]
  <2>1. w \in Truth[Or(b.cases[1].condition, b.cases[2].condition)]
    BY <1>5 DEF TrueIn
  <2>. QED
    BY <1>5, <1>6, <2>1, OneHolds
<1>. QED
  BY <1>2, <1>4, <1>7

\* The conclusion of a commit holds where its context, the claims and the
\* conditions it carries do.
LEMMA ConclusionFollows ==
    ASSUME WorkflowInv, AssumptionsAccounted, LineageChain, SoundUpToClaims,
           ScopeInv', ScopesGrow, NEW p, Proposed(p), p.checker = "merge" => Merges(p),
           NEW direct \in Seq(Prop), NEW settled \in InOrder(SettledAt(p, direct)),
           NEW main, main = Len(judgments) + 1,
           PremisesVisible(p), Grounds(p, direct), Wrote(p, direct, settled)
    PROVE  Entails((Assumptions(p.scope) \cup ClaimedAnywhere(main) \cup Conditions(main))',
                   p.conclusion)
<1>0. ScopeInv /\ LedgerInv /\ LedgerGrows
  BY DEF WorkflowInv, StoreInv, Wrote
<1>1. /\ main \in Nat /\ Len(judgments) \in Nat /\ Len(judgments) <= main
      /\ p.scope \in ScopeId /\ p.conclusion \in Prop /\ p.premises \in Seq(JudgmentId)
  BY <1>0 DEF LedgerInv, LedgerSeqs, Proposed
<1>. SUFFICES ASSUME NEW w \in World, TrueIn(w, Assumptions(p.scope)'),
                     TrueIn(w, ClaimedAnywhere(main)'), TrueIn(w, Conditions(main)')
              PROVE  w \in Truth[p.conclusion]
  BY DEF Entails, TrueIn
<1>2. TrueIn(w, Assumptions(p.scope))
  BY <1>0, <1>1, GroundStable
<1>3. TrueIn(w, ClaimedAnywhere(Len(judgments)))
  BY <1>0, <1>1, ClaimedBefore DEF TrueIn
<1>4. TrueIn(w, Range(direct))
  BY <1>0, ConditionsCarried DEF TrueIn
<1>5. ASSUME NEW i \in DOMAIN p.premises
      PROVE  w \in Truth[judgments[p.premises[i]].proposition]
  <2>. PICK j \in JudgmentId : j = p.premises[i]
    BY <1>1
  <2>1. Conditions(j) \subseteq Conditions(main)'
    BY <1>0, ConditionsCarried
  <2>2. TrueIn(w, Conditions(j))
    BY <2>1 DEF TrueIn
  <2>3. judgments[j].scope \in scopes[p.scope].chain
    BY DEF PremisesVisible, IsVisible
  <2>4. w \in Truth[judgments[j].proposition]
    BY <1>1, <1>2, <1>3, <2>2, <2>3, HoldsInside
  <2>. QED
    BY <2>4
<1>6. TrueIn(w, Range(PremiseProps(p)))
  <2>1. ASSUME NEW t \in Range(PremiseProps(p))
        PROVE  \E i \in DOMAIN p.premises : t = judgments[p.premises[i]].proposition
    BY DEF Range, PremiseProps
  <2>. QED
    BY <1>5, <2>1 DEF TrueIn
<1>7. CASE p.checker = "claim"
  <2>1. main \in 1..main
    BY <1>1
  <2>2. judgments'[main].proposition = p.conclusion /\ steps'[main].checker = "claim"
    BY <1>7 DEF Wrote
  <2>3. p.conclusion \in ClaimedAnywhere(main)'
    BY <2>1, <2>2 DEF ClaimedAnywhere
  <2>. QED
    BY <2>3 DEF TrueIn
<1>8. CASE p.checker = "decide" /\ Decide(Assumptions(p.scope), p.conclusion) = "yes"
  <2>1. Entails(Assumptions(p.scope), p.conclusion)
    BY <1>0, <1>1, <1>8, DecidedEntailed
  <2>. QED
    BY <1>2, <2>1 DEF Entails
<1>9. CASE p.checker = "coverage" /\ IsTautology(p.conclusion)
  BY <1>1, <1>9, TautologyHolds
<1>10. ASSUME NEW r \in Rule, r.conclusion = p.conclusion, r.premises = PremiseProps(p),
              r.direct = direct
       PROVE  w \in Truth[p.conclusion]
  <2>1. Entails(Range(PremiseProps(p)) \cup Range(direct), p.conclusion)
    BY <1>10, OracleAssumption
  <2>2. TrueIn(w, Range(PremiseProps(p)) \cup Range(direct))
    BY <1>4, <1>6 DEF TrueIn
  <2>. QED
    BY <2>1, <2>2 DEF Entails
<1>11. CASE p.checker = "merge" /\ MergeGrounds(p, direct)
  BY <1>2, <1>3, <1>4, <1>6, <1>11, MergeHolds
<1>. QED
  BY <1>7, <1>8, <1>9, <1>10, <1>11 DEF Grounds

\* A commit keeps every judgment sound up to claims.
LEMMA CommitFollows ==
    ASSUME WorkflowInv, AssumptionsAccounted, LineageChain, SoundUpToClaims,
           ScopeInv', ScopesGrow, NEW p, Proposed(p), p.checker = "merge" => Merges(p), Commit(p)
    PROVE  SoundUpToClaims'
<1>0. ScopeInv /\ LedgerInv
  BY DEF WorkflowInv, StoreInv
<1>1. PICK direct \in Seq(Prop) : \E settled \in InOrder(SettledAt(p, direct)) :
          PremisesVisible(p) /\ Grounds(p, direct) /\ Wrote(p, direct, settled)
  BY <1>0, CommitShape
<1>2. PICK settled \in InOrder(SettledAt(p, direct)) :
          PremisesVisible(p) /\ Grounds(p, direct) /\ Wrote(p, direct, settled)
  BY <1>1
<1>3. LedgerGrows
  BY <1>2 DEF Wrote
<1>4. PICK main : main = Len(judgments) + 1
  OBVIOUS
<1>5. /\ \A k \in DOMAIN settled : settled[k] \in SettledAt(p, direct)
      /\ \A j \in JudgmentId' : \/ j \in JudgmentId
                               \/ j = main
                               \/ \E k \in DOMAIN settled : j = main + k
      /\ JudgmentId = 1..Len(judgments) /\ Len(judgments) \in Nat
  BY <1>0, <1>2, <1>4, WroteIds
<1>6. ASSUME NEW j \in JudgmentId
      PROVE  Entails((Assumptions(judgments[j].scope) \cup ClaimedAnywhere(j) \cup Conditions(j))',
                     judgments'[j].proposition)
  <2>1. PICK s \in ScopeId : s = judgments[j].scope
    BY <1>0 DEF LedgerInv, LedgerTypeOK
  <2>2. judgments'[j] = judgments[j]
    BY <1>3 DEF LedgerGrows
  <2>3. Assumptions(s)' = Assumptions(s) /\ Conditions(j)' = Conditions(j)
    BY <1>0, <1>3, GroundStable
  <2>4. ClaimedAnywhere(j)' = ClaimedAnywhere(j)
    BY <1>0, <1>3, <1>5, ClaimedStays
  <2>5. Entails(Assumptions(s) \cup ClaimedAnywhere(j) \cup Conditions(j), judgments[j].proposition)
    BY <2>1 DEF SoundUpToClaims
  <2>6. Entails((Assumptions(s) \cup ClaimedAnywhere(j) \cup Conditions(j))',
                judgments'[j].proposition)
    BY <2>2, <2>3, <2>4, <2>5
  <2>. QED
    BY <2>1, <2>2, <2>6
<1>7. ASSUME NEW j, j = main
      PROVE  Entails((Assumptions(judgments[j].scope) \cup ClaimedAnywhere(j) \cup Conditions(j))',
                     judgments'[j].proposition)
  <2>1. Entails((Assumptions(p.scope) \cup ClaimedAnywhere(main) \cup Conditions(main))',
                p.conclusion)
    BY <1>2, <1>4, ConclusionFollows
  <2>2. judgments'[main].scope = p.scope /\ judgments'[main].proposition = p.conclusion
    BY <1>2, <1>4 DEF Wrote
  <2>. QED
    BY <1>7, <2>1, <2>2
<1>8. ASSUME NEW k \in DOMAIN settled, NEW j, j = main + k
      PROVE  Entails((Assumptions(judgments[j].scope) \cup ClaimedAnywhere(j) \cup Conditions(j))',
                     judgments'[j].proposition)
  <2>1. judgments'[j] = SettledJudgment(p, direct, settled, k)
    BY <1>2, <1>4, <1>8 DEF Wrote
  <2>2. judgments'[j].scope = p.scope /\ judgments'[j].proposition = direct[settled[k]]
    BY <2>1 DEF SettledJudgment
  <2>3. Entails(Assumptions(p.scope), direct[settled[k]])
    BY <1>0, <1>5, SettledEntailed
  <2>4. Assumptions(p.scope)' = Assumptions(p.scope)
    BY <1>0, <1>3, GroundStable DEF Proposed
  <2>5. Assumptions(p.scope)'
          \subseteq (Assumptions(p.scope) \cup ClaimedAnywhere(j) \cup Conditions(j))'
    OBVIOUS
  <2>6. Entails((Assumptions(p.scope) \cup ClaimedAnywhere(j) \cup Conditions(j))',
                direct[settled[k]])
    BY <2>3, <2>4, <2>5, EntailsMonotone
  <2>. QED
    BY <2>2, <2>6
<1>. QED
  BY <1>5, <1>6, <1>7, <1>8 DEF SoundUpToClaims

\* A step that writes nothing leaves every judgment as sound as it was.
LEMMA NothingWritten ==
    ASSUME WorkflowInv, SoundUpToClaims, Kept, UNCHANGED ledgerVars
    PROVE  SoundUpToClaims'
<1>1. ScopeInv /\ LedgerInv /\ ScopesGrow /\ LedgerGrows
  BY DEF Kept, WorkflowInv, StoreInv
<1>2. judgments' = judgments /\ JudgmentId' = JudgmentId
  BY DEF ledgerVars, JudgmentId
<1>3. ASSUME NEW j \in JudgmentId
      PROVE  Entails((Assumptions(judgments[j].scope) \cup ClaimedAnywhere(j) \cup Conditions(j))',
                     judgments'[j].proposition)
  <2>. PICK s \in ScopeId : s = judgments[j].scope
    BY <1>1 DEF LedgerInv, LedgerTypeOK
  <2>1. Assumptions(s)' = Assumptions(s) /\ Conditions(j)' = Conditions(j)
    BY <1>1, GroundStable
  <2>2. ClaimedAnywhere(j)' = ClaimedAnywhere(j)
    BY <1>1, ClaimedStays DEF LedgerInv, LedgerSeqs, JudgmentId
  <2>3. Entails(Assumptions(s) \cup ClaimedAnywhere(j) \cup Conditions(j), judgments[j].proposition)
    BY DEF SoundUpToClaims
  <2>4. Entails((Assumptions(s) \cup ClaimedAnywhere(j) \cup Conditions(j))', judgments'[j].proposition)
    BY <1>2, <2>1, <2>2, <2>3
  <2>. QED
    BY <1>2, <2>4
<1>. QED
  BY <1>2, <1>3 DEF SoundUpToClaims

\* Every step of the workflow is sound up to claims.
LEMMA SoundStep ==
    ASSUME WorkflowInv, AssumptionsAccounted, LineageChain, SoundUpToClaims,
           Kept, WorkflowStepKind
    PROVE  SoundUpToClaims'
<1>1. ScopeInv' /\ ScopesGrow
  BY DEF Kept, WorkflowInv, StoreInv
<1>2. ASSUME NEW p, NEW answer, Concludes(p, answer)
      PROVE  SoundUpToClaims'
  <2>1. CASE answer = "committed"
    BY <1>1, <1>2, <2>1, CommitFollows DEF Concludes
  <2>2. CASE answer # "committed"
    BY <1>2, <2>2, NothingWritten DEF Concludes
  <2>. QED
    BY <2>1, <2>2
<1>3. ASSUME NEW q \in Claimable, Claims(q)
      PROVE  SoundUpToClaims'
  <2>. PICK p : p = Proposal(scope, <<>>, q, "claim", NoPayload, WorkflowPolicy)
    OBVIOUS
  <2>1. p.checker = "claim"
    BY DEF Proposal
  <2>2. Proposed(p) /\ IF Outcome(p) = "committed" THEN Commit(p) ELSE UNCHANGED ledgerVars
    BY <1>3 DEF Claims, kernelVars
  <2>. QED
    BY <1>1, <2>1, <2>2, CommitFollows, NothingWritten
<1>4. ASSUME NEW c \in Splittable, Splits(c)
      PROVE  SoundUpToClaims'
  <2>. PICK p : p = CoverageProposal(c)
    OBVIOUS
  <2>1. /\ p.checker = "coverage" /\ Proposed(p)
        /\ IF Outcome(p) = "committed" THEN Commit(p) ELSE UNCHANGED ledgerVars
    BY <1>4 DEF Splits
  <2>. QED
    BY <1>1, <2>1, CommitFollows, NothingWritten
<1>5. ASSUME NEW e, Introduces(e)
      PROVE  SoundUpToClaims'
  BY <1>5, NothingWritten DEF Introduces
<1>6. CASE Moves
  BY <1>6, NothingWritten DEF Moves, kernelVars
<1>. QED
  BY <1>2, <1>3, <1>4, <1>5, <1>6 DEF WorkflowStepKind

-----------------------------------------------------------------------------
(* The theorems.                                                            *)

\* What the soundness of merges rests on: nothing is assumed that nobody asked
\* for, and a branch sees only itself and its parent.
MergeInv ==
    /\ WorkflowInv
    /\ AssumptionsAccounted
    /\ LineageChain
    /\ SoundUpToClaims

LEMMA MergeInvAlways == WorkflowSpec => []MergeInv
<1>1. WorkflowInit => LineageChain /\ SoundUpToClaims
  <2>. SUFFICES ASSUME WorkflowInit PROVE LineageChain /\ SoundUpToClaims
    OBVIOUS
  <2>1. ScopeId = {1} /\ scopes[1].chain = {1} /\ JudgmentId = {}
    BY RootIsBare
  <2>. QED
    BY <2>1 DEF LineageChain, Placed, SoundUpToClaims
<1>2. WorkflowInv /\ AssumptionsAccounted /\ LineageChain /\ SoundUpToClaims
        /\ [WorkflowNext]_workflowVars => LineageChain' /\ SoundUpToClaims'
  <2>. SUFFICES ASSUME WorkflowInv, AssumptionsAccounted, LineageChain, SoundUpToClaims,
                       [WorkflowNext]_workflowVars
                PROVE  LineageChain' /\ SoundUpToClaims'
    OBVIOUS
  <2>1. Kept /\ WorkflowStepKind
    BY WorkflowStep
  <2>. QED
    BY <2>1, LineageChainStep, SoundStep
<1>. QED
  BY <1>1, <1>2, WorkflowInvAlways, AssumptionsAccountedCorrect, PTL DEF WorkflowSpec, MergeInv

\* Reasoning by cases loses nothing: for any rules a checker accepts, any
\* claims and any splits, every conclusion, a merged one included, holds where
\* its context, its conditions and the claims hold (workflow.py split_on
\* 451-485 and merge_branches 506-651, BranchMergeChecker
\* in checkers.py 533-586).
THEOREM MergedSound == WorkflowSpec => []SoundUpToClaims
<1>1. MergeInv => SoundUpToClaims
  BY DEF MergeInv
<1>. QED
  BY <1>1, MergeInvAlways, PTL

\* A candidate shown as validated holds in the context the user is in
\* (task.py is_applicable, store.py applicability).
THEOREM ValidatedSound == WorkflowSpec => []ValidatedHolds
<1>1. MergeInv => ValidatedHolds
  <2>. SUFFICES ASSUME MergeInv, NEW t \in DOMAIN tasks, CandidateState(t) = "validated"
                PROVE  Entails(Assumptions(scope) \cup ClaimedAnywhere(Len(judgments)),
                               wsteps[tasks[t].artifact].content)
    BY DEF ValidatedHolds
  <2>1. WorkflowInv /\ SoundUpToClaims /\ LedgerInv /\ DischargesBacked /\ scope \in ScopeId
    BY DEF MergeInv, WorkflowInv, StoreInv, PointersExist
  <2>. PICK k \in StepId : k = tasks[t].artifact
    BY <2>1 DEF WorkflowInv, TaskOK
  <2>. PICK j : j = tasks[t].validation
    OBVIOUS
  <2>2. /\ j # 0 /\ IsVisible(judgments[j].scope, scope)
        /\ Applicability(j, scope) = "applicable"
    BY DEF CandidateState, IsApplicable
  <2>3. j \in JudgmentId /\ judgments[j].proposition = wsteps[k].content
    BY <2>1, <2>2 DEF WorkflowInv, TaskOK, StepOK
  <2>. SUFFICES ASSUME NEW w \in World, TrueIn(w, Assumptions(scope)),
                       TrueIn(w, ClaimedAnywhere(Len(judgments)))
                PROVE  w \in Truth[judgments[j].proposition]
    BY <2>3 DEF Entails, TrueIn
  <2>4. ASSUME NEW r \in judgments[j].requirements
        PROVE  w \in Truth[requirements[r].proposition]
    <3>1. PICK d \in discharges : d.requirement = r /\ IsVisible(d.scope, scope)
      BY <2>2, ApplicabilityShape DEF DischargedBy
    <3>2. /\ d.by \in JudgmentId
          /\ judgments[d.by].proposition = requirements[r].proposition
          /\ judgments[d.by].requirements = {}
          /\ judgments[d.by].scope = d.scope
      BY <2>1, <3>1 DEF DischargesBacked, LedgerInv, LedgerTypeOK
    <3>3. TrueIn(w, Conditions(d.by)) /\ judgments[d.by].scope \in scopes[scope].chain
      BY <3>1, <3>2 DEF Conditions, TrueIn, IsVisible
    <3>. QED
      BY <2>1, <3>2, <3>3, HoldsInside
  <2>5. TrueIn(w, Conditions(j))
    BY <2>4 DEF Conditions, TrueIn
  <2>. QED
    BY <2>1, <2>2, <2>3, <2>5, HoldsInside DEF IsVisible
<1>. QED
  BY <1>1, MergeInvAlways, PTL
===============================================================================
