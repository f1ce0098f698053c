-------------------------- MODULE KernelLedger_proofs --------------------------
(***************************************************************************)
(* Theorems about contexts and the ledger, for every vocabulary, every     *)
(* sound set of rules and decision procedure, and every bound.             *)
(***************************************************************************)
EXTENDS KernelLedger, ScopeStore_proofs

-----------------------------------------------------------------------------
(* The write, position by position. *)

RequirementRecord == [scope : Nat, proposition : Prop, introducedBy : Nat]
JudgmentRecord == [scope : Nat, proposition : Prop, requirements : SUBSET Nat]
CheckerName == {"claim", "decide", "coverage", "merge", "rule"}
StepRecord == [scope : Nat, premises : Seq(Nat), checker : CheckerName]

\* What has been written keeps its place.
LedgerGrows ==
    /\ Len(requirements) <= Len(requirements')
    /\ Len(judgments) <= Len(judgments')
    /\ \A r \in RequirementId : requirements'[r] = requirements[r]
    /\ \A j \in JudgmentId : judgments'[j] = judgments[j] /\ steps'[j] = steps[j]
    /\ discharges \subseteq discharges'
    /\ refutations \subseteq refutations'

\* The judgment of the settled condition at place k.
SettledJudgment(p, direct, settled, k) ==
    [scope |-> p.scope, proposition |-> direct[settled[k]], requirements |-> {}]

SettledStep(p) == [scope |-> p.scope, premises |-> <<>>, checker |-> "decide"]

Wrote(p, direct, settled) ==
    LET main == Len(judgments) + 1 IN
    /\ requirements' \in Seq(RequirementRecord)
    /\ Len(requirements') = Len(requirements) + Len(direct)
    /\ \A i \in DOMAIN direct :
          requirements'[Len(requirements) + i] =
              [scope |-> p.scope, proposition |-> direct[i], introducedBy |-> main]
    /\ judgments' \in Seq(JudgmentRecord)
    /\ steps' \in Seq(StepRecord)
    /\ Len(judgments') = main + Len(settled)
    /\ Len(steps') = main + Len(settled)
    /\ judgments'[main] = [scope |-> p.scope, proposition |-> p.conclusion,
                           requirements |-> Carried(p, direct)]
    /\ steps'[main] = [scope |-> p.scope, premises |-> p.premises, checker |-> p.checker]
    /\ \A k \in DOMAIN settled :
          /\ judgments'[main + k] = SettledJudgment(p, direct, settled, k)
          /\ steps'[main + k] = SettledStep(p)
    /\ LedgerGrows

\* What a merge promotes are propositions.
Promotable(payload) ==
    \A i \in 1..2 :
        /\ payload.guards[i] \in Seq(Prop)
        /\ \A k \in DOMAIN payload.guards[i] :
              Implies(payload.conditions[i], payload.guards[i][k]) \in Prop

\* What a proposal is made of.
Proposed(p) ==
    /\ p.scope \in ScopeId
    /\ p.premises \in Seq(JudgmentId)
    /\ p.conclusion \in Prop
    /\ p.checker \in CheckerName
    /\ p.checker = "merge" => Promotable(p.payload)

LedgerSeqs ==
    /\ requirements \in Seq(RequirementRecord)
    /\ judgments \in Seq(JudgmentRecord)
    /\ steps \in Seq(StepRecord)

LedgerInv == LedgerSeqs /\ LedgerTypeOK

\* The id of a direct condition is the position of a requirement that says it.
LEMMA IdOfShape ==
    ASSUME NEW direct \in Seq(Prop), NEW t \in Range(direct)
    PROVE  \E i \in DOMAIN direct : direct[i] = t /\ IdOf(direct, t) = Len(requirements) + i
<1>. DEFINE T == {i \in DOMAIN direct : direct[i] = t}
<1>1. DOMAIN direct = 1..Len(direct) /\ Len(direct) \in Nat
  OBVIOUS
<1>2. T \in SUBSET (1..Len(direct)) /\ T # {}
  <2>1. PICK i \in DOMAIN direct : direct[i] = t
    BY DEF Range
  <2>. QED
    BY <1>1, <2>1
<1>3. PICK x \in T : \A y \in T : y <= x
  <2>. HIDE DEF T
  <2>. QED
    BY <1>1, <1>2, LargestExists
<1>. DEFINE P(i) == direct[i] = t /\ \A k \in DOMAIN direct : direct[k] = t => k <= i
            c == CHOOSE i \in DOMAIN direct : P(i)
<1>4. x \in DOMAIN direct /\ P(x)
  BY <1>3
<1>5. c \in DOMAIN direct /\ P(c)
  <2>. HIDE DEF P
  <2>. QED
    BY <1>4
<1>6. IdOf(direct, t) = Len(requirements) + c
  BY DEF IdOf
<1>. QED
  BY <1>5, <1>6

\* An enumeration of the settled conditions is a sequence of their positions.
LEMMA InOrderShape ==
    ASSUME NEW direct \in Seq(Prop), NEW places \in SUBSET (DOMAIN direct),
           NEW settled \in InOrder(places)
    PROVE  /\ settled \in Seq(Nat)
           /\ DOMAIN settled = 1..Len(settled)
           /\ Len(settled) \in Nat
           /\ \A k \in DOMAIN settled : settled[k] \in places
<1>1. DOMAIN direct = 1..Len(direct) /\ Len(direct) \in Nat
  OBVIOUS
<1>2. IsFiniteSet(places)
  <2>1. IsFiniteSet(1..Len(direct))
    BY <1>1, FS_Interval
  <2>2. places \in SUBSET (1..Len(direct))
    BY <1>1
  <2>. QED
    BY <2>1, <2>2, FS_Subset
<1>3. Cardinality(places) \in Nat
  BY <1>2, FS_CardinalityType
<1>4. settled \in [1..Cardinality(places) -> places]
  BY DEF InOrder
<1>5. places \subseteq Nat
  BY <1>1
<1>6. settled \in Seq(Nat) /\ Len(settled) = Cardinality(places)
  BY <1>3, <1>4, <1>5
<1>. QED
  BY <1>3, <1>4, <1>6

\* An enumeration misses none of the places it enumerates.
LEMMA InOrderOnto ==
    ASSUME NEW n \in Nat, NEW places \in SUBSET (1..n), NEW settled \in InOrder(places),
           NEW i \in places
    PROVE  \E k \in DOMAIN settled : settled[k] = i
<1>. DEFINE N == 1..Cardinality(places)
<1>1. IsFiniteSet(places)
  <2>1. IsFiniteSet(1..n)
    BY FS_Interval
  <2>. QED
    BY <2>1, FS_Subset
<1>2. Cardinality(places) \in Nat
  BY <1>1, FS_CardinalityType
<1>3. settled \in [N -> places] /\ \A a, b \in N : a < b => settled[a] < settled[b]
  BY DEF InOrder
<1>4. \A a, b \in N : settled[a] = settled[b] => a = b
  <2>1. ASSUME NEW a \in N, NEW b \in N, a < b
        PROVE  settled[a] # settled[b]
    <3>1. settled[a] \in places /\ settled[b] \in places /\ settled[a] < settled[b]
      <4>. HIDE DEF N
      <4>. QED
        BY <1>3, <2>1
    <3>2. \A x \in places : x \in Nat
      OBVIOUS
    <3>3. settled[a] \in Nat /\ settled[b] \in Nat
      BY <3>1, <3>2
    <3>. QED
      BY <3>1, <3>3
  <2>. QED
    BY <1>2, <2>1
<1>5. settled \in Injection(N, places)
  BY <1>3, <1>4 DEF Injection, IsInjective
<1>6. IsFiniteSet(N) /\ Cardinality(N) = Cardinality(places)
  BY <1>2, FS_Interval
<1>7. settled \in Surjection(N, places)
  <2>. HIDE DEF N
  <2>. QED
    BY <1>1, <1>5, <1>6, FS_Injection
<1>. QED
  BY <1>3, <1>7 DEF Surjection

\* The discharges and refutations a write adds.
Registered(p, direct, settled) ==
    LET main == Len(judgments) + 1 IN
    /\ \A k \in DOMAIN settled :
          [requirement |-> IdOf(direct, direct[settled[k]]), by |-> main + k,
           scope |-> p.scope] \in discharges'
    /\ \A d \in discharges' : d \in discharges \/ \E k \in DOMAIN settled :
          d = [requirement |-> IdOf(direct, direct[settled[k]]), by |-> main + k,
               scope |-> p.scope]
    /\ \A f \in refutations' :
          \/ f \in refutations
          \/ f.by = main /\ f.requirement \in RefutedBy(requirements', p.conclusion)
          \/ \E k \in DOMAIN settled :
                f.by = main + k /\ f.requirement \in RefutedBy(requirements', direct[settled[k]])

\* Looking for refutations finds what the conclusion contradicts.
LEMMA RefutesShape ==
    ASSUME NEW issued, NEW recorded, NEW s, NEW q, NEW j, NEW f \in Refutes(issued, recorded, s, q, j)
    PROVE  f.by = j /\ f.requirement \in RefutedBy(issued, q)
<1>1. PICK r \in RefutedBy(issued, q) : f = [requirement |-> r, by |-> j]
  BY DEF Refutes
<1>. QED
  BY <1>1

\* What Write says, position by position.
LEMMA WriteShape ==
    ASSUME LedgerInv, NEW p, Proposed(p), NEW direct \in Seq(Prop),
           NEW settled \in InOrder(SettledAt(p, direct)),
           p.scope \in Nat, Write(p, direct, settled)
    PROVE  Wrote(p, direct, settled) /\ Registered(p, direct, settled)
<1>. DEFINE m == Len(judgments)
            record == [scope |-> p.scope, proposition |-> p.conclusion,
                       requirements |-> Carried(p, direct)]
            step == [scope |-> p.scope, premises |-> p.premises, checker |-> p.checker]
            issuedHere == [i \in DOMAIN direct |->
                [scope |-> p.scope, proposition |-> direct[i], introducedBy |-> Len(steps) + 1]]
            landed == [k \in DOMAIN settled |-> SettledJudgment(p, direct, settled, k)]
            decided == [k \in DOMAIN settled |-> SettledStep(p)]
<1>1. /\ requirements \in Seq(RequirementRecord) /\ judgments \in Seq(JudgmentRecord)
      /\ steps \in Seq(StepRecord) /\ Len(steps) = m
      /\ m \in Nat /\ Len(requirements) \in Nat
      /\ JudgmentId = 1..m /\ RequirementId = 1..Len(requirements)
  BY DEF LedgerInv, LedgerSeqs, LedgerTypeOK, JudgmentId, RequirementId
<1>2. DOMAIN direct = 1..Len(direct) /\ Len(direct) \in Nat /\ \A i \in DOMAIN direct : direct[i] \in Prop
  OBVIOUS
<1>3. /\ DOMAIN settled = 1..Len(settled) /\ Len(settled) \in Nat
      /\ \A k \in DOMAIN settled : settled[k] \in DOMAIN direct
  <2>1. SettledAt(p, direct) \in SUBSET (DOMAIN direct)
    BY DEF SettledAt
  <2>. QED
    BY <2>1, InOrderShape
<1>4. /\ p.conclusion \in Prop /\ p.checker \in CheckerName /\ p.premises \in Seq(Nat)
  <2>1. p.premises \in Seq(1..m) /\ p.conclusion \in Prop
    BY <1>1 DEF Proposed
  <2>2. p.premises \in Seq(Nat)
    BY <2>1, <1>1
  <2>3. p.checker \in CheckerName
    BY DEF Proposed, CheckerName
  <2>. QED
    BY <2>1, <2>2, <2>3
<1>5. Carried(p, direct) \in SUBSET Nat
  <2>1. ASSUME NEW r \in Inherited(p.premises)
        PROVE  r \in Nat
    <3>1. PICK j \in Range(p.premises) : r \in judgments[j].requirements
      BY <2>1 DEF Inherited
    <3>2. j \in JudgmentId
      BY <3>1 DEF Proposed, Range
    <3>3. judgments[j] \in JudgmentRecord
      BY <1>1, <3>2
    <3>4. judgments[j].requirements \in SUBSET Nat
      BY <3>3 DEF JudgmentRecord
    <3>. QED
      BY <3>1, <3>4
  <2>2. ASSUME NEW t \in Range(direct)
        PROVE  IdOf(direct, t) \in Nat
    <3>1. PICK i \in DOMAIN direct : IdOf(direct, t) = Len(requirements) + i
      BY IdOfShape
    <3>. QED
      BY <1>1, <1>2, <3>1
  <2>. QED
    BY <2>1, <2>2 DEF Carried
<1>6. record \in JudgmentRecord /\ step \in StepRecord
  BY <1>4, <1>5 DEF JudgmentRecord, StepRecord
<1>7. issuedHere \in Seq(RequirementRecord) /\ Len(issuedHere) = Len(direct)
  <2>1. \A i \in 1..Len(direct) : issuedHere[i] \in RequirementRecord
    BY <1>1, <1>2 DEF RequirementRecord
  <2>. QED
    BY <1>2, <2>1
<1>8. landed \in Seq(JudgmentRecord) /\ Len(landed) = Len(settled)
  <2>1. \A k \in 1..Len(settled) : landed[k] \in JudgmentRecord
    BY <1>2, <1>3 DEF JudgmentRecord, SettledJudgment
  <2>. QED
    BY <1>3, <2>1
<1>9. decided \in Seq(StepRecord) /\ Len(decided) = Len(settled)
  <2>0. <<>> \in Seq(Nat) /\ "decide" \in CheckerName
    BY DEF CheckerName
  <2>1. \A k \in 1..Len(settled) : decided[k] \in StepRecord
    BY <1>3, <2>0 DEF StepRecord, SettledStep
  <2>. QED
    BY <1>3, <2>1
<1>10. /\ requirements' = requirements \o issuedHere
       /\ judgments' = Append(judgments, record) \o landed
       /\ steps' = Append(steps, step) \o decided
  BY DEF Write, Issued, SettledJudgment, SettledStep
<1>11. /\ requirements' \in Seq(RequirementRecord)
       /\ Len(requirements') = Len(requirements) + Len(direct)
       /\ \A r \in RequirementId : requirements'[r] = requirements[r]
       /\ \A i \in DOMAIN direct : requirements'[Len(requirements) + i] =
              [scope |-> p.scope, proposition |-> direct[i], introducedBy |-> m + 1]
  <2>1. \A i \in DOMAIN direct : issuedHere[i] =
              [scope |-> p.scope, proposition |-> direct[i], introducedBy |-> m + 1]
    BY <1>1
  <2>. HIDE DEF issuedHere
  <2>2. /\ requirements \o issuedHere \in Seq(RequirementRecord)
        /\ Len(requirements \o issuedHere) = Len(requirements) + Len(issuedHere)
    BY <1>1, <1>7, ConcatProperties, Zenon
  <2>3. \A r \in RequirementId : (requirements \o issuedHere)[r] = requirements[r]
    BY <1>1, <1>7
  <2>4. \A i \in DOMAIN direct : (requirements \o issuedHere)[Len(requirements) + i] = issuedHere[i]
    BY <1>1, <1>2, <1>7
  <2>. QED
    BY <1>7, <1>10, <2>1, <2>2, <2>3, <2>4
<1>12. /\ judgments' \in Seq(JudgmentRecord)
       /\ Len(judgments') = m + 1 + Len(settled)
       /\ \A j \in JudgmentId : judgments'[j] = judgments[j]
       /\ judgments'[m + 1] = record
       /\ \A k \in DOMAIN settled : judgments'[m + 1 + k] = SettledJudgment(p, direct, settled, k)
  <2>1. \A k \in DOMAIN settled : landed[k] = SettledJudgment(p, direct, settled, k)
    OBVIOUS
  <2>. HIDE DEF landed, record
  <2>. DEFINE first == Append(judgments, record)
  <2>2. /\ first \in Seq(JudgmentRecord) /\ Len(first) = m + 1 /\ first[m + 1] = record
        /\ \A j \in JudgmentId : first[j] = judgments[j]
    BY <1>1, <1>6
  <2>. HIDE DEF first, m
  <2>3. /\ first \o landed \in Seq(JudgmentRecord)
        /\ Len(first \o landed) = Len(first) + Len(landed)
    BY <1>8, <2>2, ConcatProperties, Zenon
  <2>4. \A j \in 1..(m + 1) : (first \o landed)[j] = first[j]
    BY <1>1, <1>8, <2>2
  <2>5. \A k \in DOMAIN settled : (first \o landed)[m + 1 + k] = landed[k]
    BY <1>1, <1>3, <1>8, <2>2
  <2>6. \A j \in JudgmentId : j \in 1..(m + 1)
    BY <1>1
  <2>7. m + 1 \in 1..(m + 1)
    BY <1>1
  <2>8. judgments' = first \o landed
    BY <1>10 DEF first
  <2>. QED
    BY <1>8, <2>1, <2>2, <2>3, <2>4, <2>5, <2>6, <2>7, <2>8
<1>13. /\ steps' \in Seq(StepRecord)
       /\ Len(steps') = m + 1 + Len(settled)
       /\ \A j \in JudgmentId : steps'[j] = steps[j]
       /\ steps'[m + 1] = step
       /\ \A k \in DOMAIN settled : steps'[m + 1 + k] = SettledStep(p)
  <2>1. \A k \in DOMAIN settled : decided[k] = SettledStep(p)
    OBVIOUS
  <2>. HIDE DEF decided, step
  <2>. DEFINE first == Append(steps, step)
  <2>2. /\ first \in Seq(StepRecord) /\ Len(first) = m + 1 /\ first[m + 1] = step
        /\ \A j \in JudgmentId : first[j] = steps[j]
    BY <1>1, <1>6
  <2>. HIDE DEF first, m
  <2>3. /\ first \o decided \in Seq(StepRecord)
        /\ Len(first \o decided) = Len(first) + Len(decided)
    BY <1>9, <2>2, ConcatProperties, Zenon
  <2>4. \A j \in 1..(m + 1) : (first \o decided)[j] = first[j]
    BY <1>1, <1>9, <2>2
  <2>5. \A k \in DOMAIN settled : (first \o decided)[m + 1 + k] = decided[k]
    BY <1>1, <1>3, <1>9, <2>2
  <2>6. \A j \in JudgmentId : j \in 1..(m + 1)
    BY <1>1
  <2>7. m + 1 \in 1..(m + 1)
    BY <1>1
  <2>8. steps' = first \o decided
    BY <1>10 DEF first
  <2>. QED
    BY <1>9, <2>1, <2>2, <2>3, <2>4, <2>5, <2>6, <2>7, <2>8
<1>14. LedgerGrows
  <2>1. discharges \subseteq discharges' /\ refutations \subseteq refutations'
    BY DEF Write
  <2>. QED
    BY <1>1, <1>2, <1>3, <1>11, <1>12, <1>13, <2>1 DEF LedgerGrows
<1>15. Registered(p, direct, settled)
  <2>0. \A k \in DOMAIN settled :
          [requirement |-> IdOf(direct, direct[settled[k]]), by |-> m + 1 + k,
           scope |-> p.scope] \in discharges'
    BY <1>3 DEF Write
  <2>1. ASSUME NEW d \in discharges', d \notin discharges
        PROVE  \E k \in DOMAIN settled :
                 d = [requirement |-> IdOf(direct, direct[settled[k]]), by |-> m + 1 + k,
                      scope |-> p.scope]
    BY <1>3, <2>1 DEF Write
  <2>2. ASSUME NEW f \in refutations', f \notin refutations
        PROVE  \/ f.by = m + 1 /\ f.requirement \in RefutedBy(requirements', p.conclusion)
               \/ \E k \in DOMAIN settled :
                     f.by = m + 1 + k /\ f.requirement \in RefutedBy(requirements', direct[settled[k]])
    <3>1. requirements' = Issued(p, direct)
      BY DEF Write
    <3>. DEFINE settles(k) == [requirement |-> IdOf(direct, direct[settled[k]]),
                               by |-> m + 1 + k, scope |-> p.scope]
                recorded(n) == discharges \cup {settles(k) : k \in 1..n}
                ofCondition(k) == Refutes(requirements', recorded(k - 1), p.scope,
                                          direct[settled[k]], m + 1 + k)
                ofConclusion == Refutes(requirements', recorded(Len(settled)), p.scope,
                                        p.conclusion, m + 1)
    <3>2. refutations' = refutations \cup (UNION {ofCondition(k) : k \in DOMAIN settled})
                              \cup ofConclusion
      BY <3>1 DEF Write
    <3>3. \A k \in DOMAIN settled : f \in ofCondition(k) =>
            f.by = m + 1 + k /\ f.requirement \in RefutedBy(requirements', direct[settled[k]])
      <4>. HIDE DEF settles, recorded
      <4>. QED
        BY RefutesShape
    <3>4. f \in ofConclusion =>
            f.by = m + 1 /\ f.requirement \in RefutedBy(requirements', p.conclusion)
      <4>. HIDE DEF settles, recorded
      <4>. QED
        BY RefutesShape
    <3>. HIDE DEF ofCondition, ofConclusion
    <3>5. CASE f \in ofConclusion
      BY <3>4, <3>5
    <3>6. ASSUME NEW k \in DOMAIN settled, f \in ofCondition(k)
          PROVE  f.by = m + 1 + k /\ f.requirement \in RefutedBy(requirements', direct[settled[k]])
      BY <3>3, <3>6
    <3>7. f \in ofConclusion \/ \E k \in DOMAIN settled : f \in ofCondition(k)
      <4>1. CASE f \in UNION {ofCondition(k) : k \in DOMAIN settled}
        <5>1. PICK S \in {ofCondition(k) : k \in DOMAIN settled} : f \in S
          BY <4>1
        <5>. QED
          BY <5>1
      <4>2. f \in UNION {ofCondition(k) : k \in DOMAIN settled} \/ f \in ofConclusion
        BY <2>2, <3>2, Zenon
      <4>. QED
        BY <4>1, <4>2
    <3>. HIDE DEF m
    <3>. QED
      BY <3>5, <3>6, <3>7
  <2>. QED
    BY <2>0, <2>1, <2>2 DEF Registered
<1>. QED
  BY <1>11, <1>12, <1>13, <1>14, <1>15 DEF Wrote

\* The propositions a checker is shown.
PremiseProps(p) == [i \in DOMAIN p.premises |-> judgments[p.premises[i]].proposition]

\* What a merge rests on: its coverage, answers that agree with the conclusion,
\* and every guard promoted.
MergeGrounds(p, direct) ==
    /\ Or(p.payload.conditions[1], p.payload.conditions[2]) \in Range(PremiseProps(p))
    /\ \A i \in 1..2 :
          /\ p.payload.answers[i] = p.conclusion
          /\ \A k \in DOMAIN p.payload.guards[i] :
                Implies(p.payload.conditions[i], p.payload.guards[i][k]) \in Range(direct)

\* What an acceptance rests on.
Grounds(p, direct) ==
    \/ p.checker = "merge" /\ MergeGrounds(p, direct)
    \/ p.checker = "claim"
    \/ p.checker = "decide" /\ Decide(Assumptions(p.scope), p.conclusion) = "yes"
    \/ p.checker = "coverage" /\ IsTautology(p.conclusion) /\ direct = <<>>
    \/ p.checker = "rule" /\ \E r \in Rule :
          r.conclusion = p.conclusion /\ r.premises = PremiseProps(p) /\ r.direct = direct

\* A sequence joined from three holds what each of them holds.
LEMMA JoinedRange ==
    ASSUME NEW S, NEW a \in Seq(S), NEW b \in Seq(S), NEW c \in Seq(S)
    PROVE  /\ a \o b \o c \in Seq(S)
           /\ Range(b) \subseteq Range(a \o b \o c)
           /\ Range(c) \subseteq Range(a \o b \o c)
<1>1. \A u \in Seq(S), v \in Seq(S) :
        /\ u \o v \in Seq(S)
        /\ Range(u) \subseteq Range(u \o v)
        /\ Range(v) \subseteq Range(u \o v)
  <2>. SUFFICES ASSUME NEW u \in Seq(S), NEW v \in Seq(S)
                PROVE  /\ u \o v \in Seq(S)
                       /\ Range(u) \subseteq Range(u \o v)
                       /\ Range(v) \subseteq Range(u \o v)
    OBVIOUS
  <2>1. /\ DOMAIN u = 1..Len(u) /\ DOMAIN v = 1..Len(v) /\ Len(u) \in Nat /\ Len(v) \in Nat
        /\ DOMAIN (u \o v) = 1..(Len(u) + Len(v))
    OBVIOUS
  <2>2. \A i \in 1..Len(u) : i \in 1..(Len(u) + Len(v)) /\ (u \o v)[i] = u[i]
    BY <2>1
  <2>3. \A i \in 1..Len(v) : Len(u) + i \in 1..(Len(u) + Len(v)) /\ (u \o v)[Len(u) + i] = v[i]
    BY <2>1
  <2>4. u \o v \in Seq(S)
    BY ConcatProperties, Zenon
  <2>5. Range(u) \subseteq Range(u \o v)
    BY <2>1, <2>2 DEF Range
  <2>6. Range(v) \subseteq Range(u \o v)
    BY <2>1, <2>3 DEF Range
  <2>. QED
    BY <2>4, <2>5, <2>6
<1>2. a \o b \in Seq(S) /\ Range(b) \subseteq Range(a \o b)
  BY <1>1
<1>. QED
  BY <1>1, <1>2

\* A checker answers one of three ways, and accepts only on grounds.
LEMMA CheckShape ==
    ASSUME NEW p, Proposed(p)
    PROVE  /\ Check(p).status \in {"accepted", "refused", "undecided"}
           /\ Check(p).status = "accepted" =>
                 Check(p).direct \in Seq(Prop) /\ Grounds(p, Check(p).direct)
<1>0. /\ Rejected.status = "refused" /\ Unknown.status = "undecided"
      /\ \A d : Accepted(d).status = "accepted" /\ Accepted(d).direct = d
      /\ <<>> \in Seq(Prop)
  BY DEF Rejected, Unknown, Accepted
<1>1. CASE p.checker = "claim"
  <2>1. Check(p) = CheckClaim(p.conclusion)
    BY <1>1 DEF Check
  <2>2. DomCondition[p.conclusion] \in Seq(Prop)
    BY KernelAssumption DEF Proposed
  <2>. QED
    BY <1>0, <1>1, <2>1, <2>2 DEF CheckClaim, Grounds
<1>2. CASE p.checker = "decide"
  <2>1. Check(p) = CheckDecide(p.scope, p.conclusion)
    BY <1>2 DEF Check
  <2>. DEFINE verdict == Decide(Assumptions(p.scope), p.conclusion)
  <2>2. CASE verdict = "yes"
    <3>1. Check(p) = Accepted(<<>>)
      BY <2>1, <2>2 DEF CheckDecide
    <3>. QED
      BY <1>0, <1>2, <2>2, <3>1 DEF Grounds
  <2>3. CASE verdict # "yes"
    <3>1. Check(p) = Rejected \/ Check(p) = Unknown
      BY <2>1, <2>3 DEF CheckDecide
    <3>. QED
      BY <1>0, <3>1
  <2>. QED
    BY <2>2, <2>3
<1>3. CASE p.checker = "coverage"
  <2>1. Check(p) = CheckCoverage(p.conclusion)
    BY <1>3 DEF Check
  <2>2. CASE IsTautology(p.conclusion)
    <3>1. Check(p) = Accepted(<<>>)
      BY <2>1, <2>2 DEF CheckCoverage
    <3>. QED
      BY <1>0, <1>3, <2>2, <3>1 DEF Grounds
  <2>3. CASE ~IsTautology(p.conclusion)
    <3>1. Check(p) = Unknown
      BY <2>1, <2>3 DEF CheckCoverage
    <3>. QED
      BY <1>0, <3>1
  <2>. QED
    BY <2>2, <2>3
<1>4. CASE p.checker = "rule"
  <2>. DEFINE matching == {r \in Rule : r.conclusion = p.conclusion /\ r.premises = PremiseProps(p)}
  <2>1. Check(p) = CheckRule(p.conclusion, PremiseProps(p))
    BY <1>4 DEF Check, PremiseProps
  <2>2. CASE matching = {}
    <3>1. Check(p) = Unknown
      BY <2>1, <2>2 DEF CheckRule
    <3>. QED
      BY <1>0, <3>1
  <2>3. CASE matching # {}
    <3>. DEFINE c == CHOOSE r \in matching : TRUE
    <3>1. c \in matching
      <4>. HIDE DEF matching
      <4>. QED
        BY <2>3
    <3>2. Check(p) = Accepted(c.direct)
      BY <2>1, <2>3 DEF CheckRule
    <3>3. c \in Rule /\ c.conclusion = p.conclusion /\ c.premises = PremiseProps(p)
      BY <3>1
    <3>. HIDE DEF c, matching
    <3>4. c.direct \in Seq(Prop)
      BY <3>3, KernelAssumption
    <3>5. Check(p).status = "accepted" /\ Check(p).direct = c.direct
      BY <1>0, <3>2
    <3>. QED
      BY <1>4, <3>3, <3>4, <3>5 DEF Grounds
  <2>. QED
    BY <2>2, <2>3
<1>5. CASE p.checker = "merge"
  <2>. DEFINE g == p.payload.guards
              c == p.payload.conditions
              promoted(i) == [k \in DOMAIN g[i] |-> Implies(c[i], g[i][k])]
              direct == DomCondition[p.conclusion] \o promoted(1) \o promoted(2)
              fits == /\ Or(c[1], c[2]) \in Range(PremiseProps(p))
                      /\ \A i \in 1..2 : p.payload.answers[i] = p.conclusion
  <2>1. Check(p) = IF fits THEN Accepted(direct) ELSE Rejected
    BY <1>5 DEF Check, CheckMerge, PremiseProps
  <2>2. CASE ~fits
    <3>1. Check(p) = Rejected
      BY <2>1, <2>2
    <3>. QED
      BY <1>0, <3>1
  <2>3. CASE fits
    <3>1. ASSUME NEW i \in 1..2
          PROVE  /\ promoted(i) \in Seq(Prop)
                 /\ \A k \in DOMAIN g[i] : Implies(c[i], g[i][k]) \in Range(promoted(i))
      <4>1. /\ g[i] \in Seq(Prop) /\ \A k \in DOMAIN g[i] : Implies(c[i], g[i][k]) \in Prop
        BY <1>5 DEF Proposed, Promotable
      <4>2. DOMAIN g[i] = 1..Len(g[i]) /\ Len(g[i]) \in Nat
        BY <4>1
      <4>3. promoted(i) \in Seq(Prop)
        BY <4>1, <4>2
      <4>. QED
        BY <4>3 DEF Range
    <3>2. DomCondition[p.conclusion] \in Seq(Prop)
      BY KernelAssumption DEF Proposed
    <3>3. promoted(1) \in Seq(Prop) /\ promoted(2) \in Seq(Prop)
      BY <3>1
    <3>4. /\ direct \in Seq(Prop)
          /\ Range(promoted(1)) \subseteq Range(direct)
          /\ Range(promoted(2)) \subseteq Range(direct)
      <4>. HIDE DEF promoted
      <4>. QED
        BY <3>2, <3>3, JoinedRange
    <3>5. Check(p).status = "accepted" /\ Check(p).direct = direct
      BY <1>0, <2>1, <2>3
    <3>. HIDE DEF direct
    <3>6. ASSUME NEW i \in 1..2, NEW k \in DOMAIN g[i]
          PROVE  Implies(c[i], g[i][k]) \in Range(direct)
      <4>1. Implies(c[i], g[i][k]) \in Range(promoted(i))
        BY <3>1
      <4>2. i = 1 \/ i = 2
        OBVIOUS
      <4>. HIDE DEF promoted, c, g
      <4>. QED
        BY <3>4, <4>1, <4>2
    <3>7. /\ Or(p.payload.conditions[1], p.payload.conditions[2]) \in Range(PremiseProps(p))
          /\ \A i \in 1..2 : p.payload.answers[i] = p.conclusion
      BY <2>3
    <3>8. MergeGrounds(p, direct)
      <4>. HIDE DEF fits
      <4>. QED
        BY <3>6, <3>7 DEF MergeGrounds
    <3>. QED
      BY <1>5, <3>4, <3>5, <3>8 DEF Grounds
  <2>. QED
    BY <2>2, <2>3
<1>. QED
  BY <1>1, <1>2, <1>3, <1>4, <1>5 DEF Proposed, CheckerName

\* What a commit writes, and why it may.
LEMMA CommitShape ==
    ASSUME ScopeInv, LedgerInv, NEW p, Proposed(p), Commit(p)
    PROVE  \E direct \in Seq(Prop) : \E settled \in InOrder(SettledAt(p, direct)) :
              /\ PremisesVisible(p)
              /\ Grounds(p, direct)
              /\ Wrote(p, direct, settled)
              /\ Registered(p, direct, settled)
<1>1. Outcome(p) = "committed"
  BY DEF Commit
<1>2. PremisesVisible(p) /\ Check(p).status = "accepted"
  BY <1>1, CheckShape DEF Outcome
<1>3. Check(p).direct \in Seq(Prop) /\ Grounds(p, Check(p).direct)
  BY <1>2, CheckShape
<1>4. PICK settled \in InOrder(SettledAt(p, Check(p).direct)) : Write(p, Check(p).direct, settled)
  BY DEF Commit
<1>5. PICK direct \in Seq(Prop) : direct = Check(p).direct
  BY <1>3
<1>6. p.scope \in Nat
  BY DEF Proposed, ScopeId, ScopeInv
<1>7. settled \in InOrder(SettledAt(p, direct)) /\ Write(p, direct, settled)
  BY <1>4, <1>5
<1>8. Wrote(p, direct, settled) /\ Registered(p, direct, settled)
  BY <1>6, <1>7, WriteShape
<1>. QED
  BY <1>2, <1>3, <1>5, <1>7, <1>8

-----------------------------------------------------------------------------
(* The ledger is well-formed. *)

\* The empty ledger.
LEMMA LedgerInvInit == LedgerInit => LedgerInv
<1>. SUFFICES ASSUME LedgerInit PROVE LedgerInv
  OBVIOUS
<1>1. /\ requirements = <<>> /\ judgments = <<>> /\ steps = <<>>
      /\ discharges = {} /\ refutations = {}
  BY DEF LedgerInit
<1>2. LedgerSeqs
  BY <1>1 DEF LedgerSeqs
<1>3. JudgmentId = {} /\ RequirementId = {}
  BY <1>1 DEF JudgmentId, RequirementId
<1>4. Len(steps) = Len(judgments)
  BY <1>1
<1>. QED
  BY <1>1, <1>2, <1>3, <1>4 DEF LedgerInv, LedgerTypeOK

\* The ids after a write.
LEMMA WroteIds ==
    ASSUME LedgerInv, NEW p, NEW direct \in Seq(Prop),
           NEW settled \in InOrder(SettledAt(p, direct)), Wrote(p, direct, settled)
    PROVE  /\ Len(judgments) \in Nat /\ JudgmentId = 1..Len(judgments)
           /\ Len(requirements) \in Nat /\ RequirementId = 1..Len(requirements)
           /\ DOMAIN settled = 1..Len(settled) /\ Len(settled) \in Nat
           /\ DOMAIN direct = 1..Len(direct) /\ Len(direct) \in Nat
           /\ \A k \in DOMAIN settled :
                 settled[k] \in SettledAt(p, direct) /\ settled[k] \in DOMAIN direct
           /\ JudgmentId' = 1..(Len(judgments) + 1 + Len(settled))
           /\ RequirementId' = 1..(Len(requirements) + Len(direct))
           /\ \A j \in JudgmentId' : \/ j \in JudgmentId
                                    \/ j = Len(judgments) + 1
                                    \/ \E k \in DOMAIN settled : j = Len(judgments) + 1 + k
           /\ \A r \in RequirementId' : r \notin RequirementId =>
                 \E i \in DOMAIN direct : r = Len(requirements) + i
<1>1. /\ Len(judgments) \in Nat /\ JudgmentId = 1..Len(judgments)
      /\ Len(requirements) \in Nat /\ RequirementId = 1..Len(requirements)
  BY DEF LedgerInv, LedgerSeqs, JudgmentId, RequirementId
<1>2. /\ DOMAIN settled = 1..Len(settled) /\ Len(settled) \in Nat
      /\ \A k \in DOMAIN settled :
            settled[k] \in SettledAt(p, direct) /\ settled[k] \in DOMAIN direct
  <2>1. SettledAt(p, direct) \in SUBSET (DOMAIN direct)
    BY DEF SettledAt
  <2>. QED
    BY <2>1, InOrderShape
<1>3. DOMAIN direct = 1..Len(direct) /\ Len(direct) \in Nat
  OBVIOUS
<1>4. /\ JudgmentId' = 1..(Len(judgments) + 1 + Len(settled))
      /\ RequirementId' = 1..(Len(requirements) + Len(direct))
  BY DEF Wrote, JudgmentId, RequirementId
<1>5. ASSUME NEW j \in JudgmentId', j \notin JudgmentId, j # Len(judgments) + 1
      PROVE  \E k \in DOMAIN settled : j = Len(judgments) + 1 + k
  <2>1. j - (Len(judgments) + 1) \in DOMAIN settled
    BY <1>1, <1>2, <1>4, <1>5
  <2>2. j = Len(judgments) + 1 + (j - (Len(judgments) + 1))
    BY <1>1, <1>4
  <2>. QED
    BY <2>1, <2>2
<1>6. ASSUME NEW r \in RequirementId', r \notin RequirementId
      PROVE  \E i \in DOMAIN direct : r = Len(requirements) + i
  <2>1. r - Len(requirements) \in DOMAIN direct
    BY <1>1, <1>3, <1>4, <1>6
  <2>2. r = Len(requirements) + (r - Len(requirements))
    BY <1>1, <1>4
  <2>. QED
    BY <2>1, <2>2
<1>. QED
  BY <1>1, <1>2, <1>3, <1>4, <1>5, <1>6

\* A commit leaves the ledger well-formed.
LEMMA CommitKeepsLedgerInv ==
    ASSUME ScopeInv, LedgerInv, NEW p, Proposed(p), Commit(p), ScopesGrow, ScopeInv'
    PROVE  LedgerInv' /\ LedgerGrows
<1>0. PICK direct \in Seq(Prop) : \E settled \in InOrder(SettledAt(p, direct)) :
          Wrote(p, direct, settled) /\ Registered(p, direct, settled)
  BY CommitShape
<1>1. PICK settled \in InOrder(SettledAt(p, direct)) :
          Wrote(p, direct, settled) /\ Registered(p, direct, settled)
  BY <1>0
<1>. DEFINE m == Len(judgments)
            R == Len(requirements)
<1>2. /\ m \in Nat /\ JudgmentId = 1..m /\ R \in Nat /\ RequirementId = 1..R
      /\ DOMAIN settled = 1..Len(settled) /\ Len(settled) \in Nat
      /\ DOMAIN direct = 1..Len(direct) /\ Len(direct) \in Nat
      /\ JudgmentId' = 1..(m + 1 + Len(settled))
      /\ RequirementId' = 1..(R + Len(direct))
      /\ \A j \in JudgmentId' : j \in JudgmentId \/ j = m + 1 \/ \E k \in DOMAIN settled : j = m + 1 + k
      /\ \A r \in RequirementId' : r \notin RequirementId => \E i \in DOMAIN direct : r = R + i
      /\ \A k \in DOMAIN settled : settled[k] \in DOMAIN direct
  BY <1>1, WroteIds
<1>3. /\ \A j \in JudgmentId : j \in JudgmentId'
      /\ \A r \in RequirementId : r \in RequirementId'
      /\ m + 1 \in JudgmentId'
      /\ \A k \in DOMAIN settled : m + 1 + k \in JudgmentId'
      /\ \A i \in DOMAIN direct : R + i \in RequirementId'
  BY <1>2
<1>4. ScopeId \subseteq ScopeId' /\ p.scope \in ScopeId
  BY DEF ScopeInv, ScopesGrow, ScopeId, Proposed
<1>5. LedgerGrows
  BY <1>1 DEF Wrote
<1>6. \A t \in Range(direct) : IdOf(direct, t) \in RequirementId'
  <2>1. ASSUME NEW t \in Range(direct)
        PROVE  IdOf(direct, t) \in RequirementId'
    <3>1. PICK i \in DOMAIN direct : IdOf(direct, t) = R + i
      BY IdOfShape
    <3>. QED
      BY <1>3, <3>1
  <2>. QED
    BY <2>1
<1>7. \A k \in DOMAIN settled : direct[settled[k]] \in Range(direct) /\ direct[settled[k]] \in Prop
  BY <1>2 DEF Range
<1>8. LedgerSeqs' /\ Len(steps') = Len(judgments')
  BY <1>1 DEF LedgerSeqs, Wrote
<1>9. ASSUME NEW r \in RequirementId'
      PROVE  /\ requirements'[r].scope \in ScopeId'
             /\ requirements'[r].proposition \in Prop
             /\ requirements'[r].introducedBy \in JudgmentId'
  <2>1. CASE r \in RequirementId
    BY <1>3, <1>4, <1>5, <2>1 DEF LedgerGrows, LedgerInv, LedgerTypeOK
  <2>2. ASSUME NEW i \in DOMAIN direct, r = R + i
        PROVE  /\ requirements'[r].scope \in ScopeId'
               /\ requirements'[r].proposition \in Prop
               /\ requirements'[r].introducedBy \in JudgmentId'
    <3>1. requirements'[r] = [scope |-> p.scope, proposition |-> direct[i], introducedBy |-> m + 1]
      BY <1>1, <2>2 DEF Wrote
    <3>2. direct[i] \in Prop
      OBVIOUS
    <3>. QED
      BY <1>3, <1>4, <3>1, <3>2
  <2>. QED
    BY <1>2, <2>1, <2>2
<1>10. ASSUME NEW j \in JudgmentId'
       PROVE  /\ judgments'[j].scope \in ScopeId'
              /\ judgments'[j].proposition \in Prop
              /\ judgments'[j].requirements \subseteq RequirementId'
              /\ steps'[j].scope = judgments'[j].scope
              /\ \A i \in DOMAIN steps'[j].premises : steps'[j].premises[i] \in 1..(j - 1)
  <2>1. CASE j \in JudgmentId
    <3>1. judgments'[j] = judgments[j] /\ steps'[j] = steps[j]
      BY <1>5, <2>1 DEF LedgerGrows
    <3>2. /\ judgments[j].scope \in ScopeId
          /\ judgments[j].proposition \in Prop
          /\ judgments[j].requirements \subseteq RequirementId
          /\ steps[j].scope = judgments[j].scope
          /\ \A i \in DOMAIN steps[j].premises : steps[j].premises[i] \in 1..(j - 1)
      BY <2>1 DEF LedgerInv, LedgerTypeOK
    <3>. QED
      BY <1>3, <1>4, <3>1, <3>2
  <2>2. CASE j = m + 1
    <3>1. /\ judgments'[j] = [scope |-> p.scope, proposition |-> p.conclusion,
                              requirements |-> Carried(p, direct)]
          /\ steps'[j] = [scope |-> p.scope, premises |-> p.premises, checker |-> p.checker]
      BY <1>1, <2>2 DEF Wrote
    <3>2. p.conclusion \in Prop
      BY DEF Proposed
    <3>3. Inherited(p.premises) \subseteq RequirementId'
      <4>1. ASSUME NEW r \in Inherited(p.premises)
            PROVE  r \in RequirementId
        <5>1. PICK i \in Range(p.premises) : r \in judgments[i].requirements
          BY <4>1 DEF Inherited
        <5>2. i \in JudgmentId
          BY <5>1 DEF Proposed, Range
        <5>. QED
          BY <5>1, <5>2 DEF LedgerInv, LedgerTypeOK
      <4>. QED
        BY <1>3, <4>1
    <3>4. Carried(p, direct) \subseteq RequirementId'
      BY <1>6, <3>3 DEF Carried
    <3>5. \A i \in DOMAIN p.premises : p.premises[i] \in 1..(j - 1)
      <4>1. p.premises \in Seq(1..m)
        BY <1>2 DEF Proposed
      <4>2. j - 1 = m
        BY <1>2, <2>2
      <4>. QED
        BY <4>1, <4>2
    <3>. QED
      BY <1>4, <3>1, <3>2, <3>4, <3>5
  <2>3. ASSUME NEW k \in DOMAIN settled, j = m + 1 + k
        PROVE  /\ judgments'[j].scope \in ScopeId'
               /\ judgments'[j].proposition \in Prop
               /\ judgments'[j].requirements \subseteq RequirementId'
               /\ steps'[j].scope = judgments'[j].scope
               /\ \A i \in DOMAIN steps'[j].premises : steps'[j].premises[i] \in 1..(j - 1)
    <3>1. judgments'[j] = SettledJudgment(p, direct, settled, k) /\ steps'[j] = SettledStep(p)
      BY <1>1, <2>3 DEF Wrote
    <3>. QED
      BY <1>4, <1>7, <3>1 DEF SettledJudgment, SettledStep
  <2>. QED
    BY <1>2, <2>1, <2>2, <2>3
<1>11. ASSUME NEW d \in discharges'
       PROVE  d.requirement \in RequirementId' /\ d.by \in JudgmentId' /\ d.scope \in ScopeId'
  <2>1. CASE d \in discharges
    BY <1>3, <1>4, <2>1 DEF LedgerInv, LedgerTypeOK
  <2>2. ASSUME NEW k \in DOMAIN settled,
               d = [requirement |-> IdOf(direct, direct[settled[k]]), by |-> m + 1 + k,
                    scope |-> p.scope]
        PROVE  d.requirement \in RequirementId' /\ d.by \in JudgmentId' /\ d.scope \in ScopeId'
    BY <1>3, <1>4, <1>6, <1>7, <2>2
  <2>. QED
    BY <1>1, <2>1, <2>2 DEF Registered
<1>12. ASSUME NEW f \in refutations'
       PROVE  f.requirement \in RequirementId' /\ f.by \in JudgmentId'
  <2>1. CASE f \in refutations
    BY <1>3, <2>1 DEF LedgerInv, LedgerTypeOK
  <2>2. ASSUME NEW q, f.requirement \in RefutedBy(requirements', q)
        PROVE  f.requirement \in RequirementId'
    <3>1. f.requirement \in DOMAIN requirements'
      BY <2>2 DEF RefutedBy
    <3>2. requirements' \in Seq(RequirementRecord)
      BY <1>8 DEF LedgerSeqs
    <3>. QED
      BY <3>1, <3>2 DEF RequirementId
  <2>. QED
    BY <1>1, <1>3, <2>1, <2>2 DEF Registered
<1>13. LedgerTypeOK'
  BY <1>8, <1>9, <1>10, <1>11, <1>12 DEF LedgerTypeOK
<1>. QED
  BY <1>5, <1>8, <1>13 DEF LedgerInv

-----------------------------------------------------------------------------
(* Judgments mean what they say. *)

\* What is granted in a context is granted inside it, and stays granted.
LEMMA GrantedInherited ==
    ChainsClosed =>
        \A s \in ScopeId : \A a \in scopes[s].chain : \A i, j \in Nat :
            i <= j => Granted(a, i) \subseteq Granted(s, j)
<1>. SUFFICES ASSUME ChainsClosed, NEW s \in ScopeId, NEW a \in scopes[s].chain,
                     NEW i \in Nat, NEW j \in Nat, i <= j
              PROVE  Granted(a, i) \subseteq Granted(s, j)
  OBVIOUS
<1>1. scopes[a].chain \subseteq scopes[s].chain
  BY DEF ChainsClosed
<1>2. Assumptions(a) \subseteq Assumptions(s)
  BY <1>1 DEF Assumptions
<1>3. 1..i \subseteq 1..j
  OBVIOUS
<1>4. \A c : IsVisible(judgments[c].scope, a) => IsVisible(judgments[c].scope, s)
  BY <1>1 DEF IsVisible
<1>5. {c \in 1..i : steps[c].checker = "claim" /\ IsVisible(judgments[c].scope, a)}
        \subseteq {c \in 1..j : steps[c].checker = "claim" /\ IsVisible(judgments[c].scope, s)}
  BY <1>3, <1>4
<1>6. Claimed(a, i) \subseteq Claimed(s, j)
  BY <1>5 DEF Claimed
<1>. QED
  BY <1>2, <1>6 DEF Granted

\* The same of the next state.
LEMMA GrantedInheritedNext ==
    ChainsClosed' =>
        \A s \in ScopeId' : \A a \in scopes'[s].chain : \A i, j \in Nat :
            i <= j => Granted(a, i)' \subseteq Granted(s, j)'
<1>. DEFINE Inherits == \A s \in ScopeId : \A a \in scopes[s].chain : \A i, j \in Nat :
                            i <= j => Granted(a, i) \subseteq Granted(s, j)
<1>1. ChainsClosed => Inherits
  BY GrantedInherited
<1>2. ChainsClosed' => Inherits'
  <2>. HIDE DEF Inherits
  <2>. QED
    BY <1>1, PTL
<1>. QED
  BY <1>2

\* A step adds; what a judgment stands on does not move.
LEMMA GroundStable ==
    ASSUME ScopeInv, LedgerInv, ScopesGrow, LedgerGrows
    PROVE  /\ \A s \in ScopeId : s \in ScopeId' /\ scopes'[s].chain = scopes[s].chain
           /\ \A s \in ScopeId : Assumptions(s)' = Assumptions(s)
           /\ \A j \in JudgmentId : j \in JudgmentId' /\ Conditions(j)' = Conditions(j)
           /\ \A s \in ScopeId, j \in JudgmentId : Granted(s, j)' = Granted(s, j)
<1>1. /\ ScopeId = 1..Len(scopes) /\ ScopeId' = 1..Len(scopes')
      /\ JudgmentId = 1..Len(judgments) /\ JudgmentId' = 1..Len(judgments')
      /\ Len(scopes) \in Nat /\ Len(judgments) \in Nat
  BY DEF ScopeInv, ScopeId, JudgmentId, LedgerInv, LedgerSeqs
<1>2. /\ Len(scopes) <= Len(scopes') /\ Len(judgments) <= Len(judgments')
      /\ \A s \in ScopeId : scopes'[s] = scopes[s]
      /\ \A j \in JudgmentId : judgments'[j] = judgments[j] /\ steps'[j] = steps[j]
      /\ \A r \in RequirementId : requirements'[r] = requirements[r]
  BY DEF ScopesGrow, LedgerGrows
<1>3. /\ \A s \in ScopeId : s \in ScopeId' /\ scopes'[s].chain = scopes[s].chain
      /\ \A j \in JudgmentId : j \in JudgmentId'
  <2>1. /\ \A s : s \in 1..Len(scopes) => s \in 1..Len(scopes')
        /\ \A j : j \in 1..Len(judgments) => j \in 1..Len(judgments')
    BY <1>1, <1>2, SMT DEF ScopesGrow
  <2>. QED
    BY <1>1, <1>2, <2>1
<1>4. ASSUME NEW s \in ScopeId
      PROVE  Assumptions(s)' = Assumptions(s)
  <2>1. scopes[s].chain \subseteq ScopeId
    BY <1>1 DEF ScopeInv, ChainsClosed
  <2>2. \A v \in scopes[s].chain : scopes'[v].entries.assumed = scopes[v].entries.assumed
    BY <1>2, <2>1
  <2>. QED
    BY <1>3, <2>2 DEF Assumptions
<1>5. ASSUME NEW j \in JudgmentId
      PROVE  Conditions(j)' = Conditions(j)
  <2>1. judgments[j].requirements \subseteq RequirementId
    BY DEF LedgerInv, LedgerTypeOK
  <2>2. \A r \in judgments[j].requirements : requirements'[r].proposition = requirements[r].proposition
    BY <1>2, <2>1
  <2>. QED
    BY <1>2, <2>2 DEF Conditions
<1>6. ASSUME NEW s \in ScopeId, NEW j \in JudgmentId
      PROVE  Granted(s, j)' = Granted(s, j)
  <2>1. \A c \in 1..j : c \in JudgmentId
    BY <1>1
  <2>. DEFINE C == {c \in 1..j : steps[c].checker = "claim" /\ IsVisible(judgments[c].scope, s)}
  <2>2. C' = C
    BY <1>2, <1>3, <2>1 DEF IsVisible
  <2>3. \A c \in C : judgments'[c].proposition = judgments[c].proposition
    BY <1>2, <2>1
  <2>4. Claimed(s, j) = {judgments[c].proposition : c \in C}
    BY DEF Claimed
  <2>5. Claimed(s, j)' = {judgments'[c].proposition : c \in C'}
    BY DEF Claimed
  <2>. HIDE DEF C
  <2>6. Claimed(s, j)' = Claimed(s, j)
    BY <2>2, <2>3, <2>4, <2>5
  <2>. QED
    BY <1>4, <2>6 DEF Granted
<1>. QED
  BY <1>3, <1>4, <1>5, <1>6

\* A disjunction with a complementary pair holds in every world.
LEMMA TautologyHolds ==
    ASSUME NEW q \in Prop, IsTautology(q), NEW w \in World
    PROVE  w \in Truth[q]
<1>1. CASE q = True
  BY <1>1, ConnectiveAssumption
<1>2. ASSUME q.head = "Or",
             NEW i \in DOMAIN q.args, NEW j \in DOMAIN q.args, q.args[i] = Not(q.args[j])
      PROVE  w \in Truth[q]
  <2>1. /\ q.args[i] \in Prop /\ q.args[j] \in Prop
        /\ Truth[q] = UNION {Truth[q.args[k]] : k \in DOMAIN q.args}
    BY <1>2, ConnectiveAssumption
  <2>2. Not(q.args[j]).head = "Not" /\ Not(q.args[j]).args[1] = q.args[j]
    BY DEF Not
  <2>3. Truth[q.args[i]] = World \ Truth[q.args[j]]
    BY <1>2, <2>1, <2>2, ConnectiveAssumption
  <2>4. w \in Truth[q.args[i]] \/ w \in Truth[q.args[j]]
    BY <2>3
  <2>. QED
    BY <2>1, <2>4
<1>. QED
  BY <1>1, <1>2 DEF IsTautology

\* A context assumes propositions.
LEMMA AssumptionsType ==
    ASSUME ScopeInv, NEW s \in ScopeId
    PROVE  Assumptions(s) \in SUBSET Prop
<1>1. ScopeId = 1..Len(scopes) /\ Len(scopes) \in Nat
  BY DEF ScopeInv, ScopeId
<1>2. scopes[s].chain \subseteq ScopeId
  BY <1>1 DEF ScopeInv, ChainsClosed
<1>3. \A v \in ScopeId : scopes[v].entries.assumed \subseteq Prop
  BY DEF ScopeInv, ScopeTypeOK, EntriesType
<1>. QED
  BY <1>2, <1>3 DEF Assumptions

\* The procedure's verdict is entailed by the context.
LEMMA DecidedEntailed ==
    ASSUME ScopeInv, NEW s \in ScopeId, NEW q \in Prop, Decide(Assumptions(s), q) = "yes"
    PROVE  Entails(Assumptions(s), q)
BY AssumptionsType, OracleAssumption

\* More assumptions entail no less.
LEMMA EntailsMonotone ==
    ASSUME NEW A, NEW B, A \subseteq B, NEW q, Entails(A, q)
    PROVE  Entails(B, q)
BY DEF Entails, TrueIn

\* The conclusion of a commit follows from what is granted where it is made
\* and from the conditions it carries.
LEMMA ConclusionSound ==
    ASSUME ScopeInv, LedgerInv, Soundness, UNCHANGED scopeVars,
           NEW p, Proposed(p), p.checker # "merge", NEW direct \in Seq(Prop),
           NEW settled \in InOrder(SettledAt(p, direct)),
           NEW main, main = Len(judgments) + 1,
           PremisesVisible(p), Grounds(p, direct), Wrote(p, direct, settled)
    PROVE  Entails((Granted(p.scope, main) \cup Conditions(main))', p.conclusion)
<1>. DEFINE s == p.scope
            q == p.conclusion
<1>1. /\ main \in Nat /\ JudgmentId = 1..(main - 1)
      /\ s \in ScopeId /\ q \in Prop /\ p.premises \in Seq(JudgmentId)
  <2>1. Len(judgments) \in Nat /\ JudgmentId = 1..Len(judgments)
    BY WroteIds
  <2>. QED
    BY <2>1 DEF Proposed
<1>2. /\ judgments'[main].scope = s
      /\ judgments'[main].proposition = q
      /\ judgments'[main].requirements = Carried(p, direct)
      /\ steps'[main].checker = p.checker
  BY DEF Wrote
<1>3. ScopesGrow /\ LedgerGrows /\ ScopeInv' /\ scopes' = scopes /\ ScopeId' = ScopeId
  <2>1. scopes' = scopes /\ heads' = heads
    BY DEF scopeVars
  <2>2. ScopeInv' /\ ScopesGrow
    BY ScopesUnchanged
  <2>. QED
    BY <2>1, <2>2 DEF Wrote, ScopeId
<1>. SUFFICES ASSUME NEW w \in World,
                     TrueIn(w, Granted(s, main)'), TrueIn(w, Conditions(main)')
              PROVE  w \in Truth[q]
  <2>1. ASSUME NEW w \in World, NEW A, NEW B, TrueIn(w, A \cup B)
        PROVE  TrueIn(w, A) /\ TrueIn(w, B)
    BY <2>1 DEF TrueIn
  <2>. QED
    BY <2>1 DEF Entails
<1>4. TrueIn(w, Range(direct))
  <2>1. ASSUME NEW t \in Range(direct)
        PROVE  w \in Truth[t]
    <3>1. PICK i \in DOMAIN direct : direct[i] = t /\ IdOf(direct, t) = Len(requirements) + i
      BY IdOfShape
    <3>2. requirements'[IdOf(direct, t)].proposition = t
      <4>1. requirements'[Len(requirements) + i] =
              [scope |-> p.scope, proposition |-> direct[i], introducedBy |-> main]
        BY DEF Wrote
      <4>2. requirements'[IdOf(direct, t)].proposition = direct[i]
        BY <3>1, <4>1
      <4>. QED
        BY <3>1, <4>2
    <3>3. IdOf(direct, t) \in judgments'[main].requirements
      BY <1>2 DEF Carried
    <3>4. t \in Conditions(main)'
      BY <3>2, <3>3 DEF Conditions
    <3>. QED
      BY <3>4 DEF TrueIn
  <2>. QED
    BY <2>1 DEF TrueIn
<1>5. Assumptions(s)' = Assumptions(s) /\ TrueIn(w, Assumptions(s))
  <2>1. Assumptions(s)' = Assumptions(s)
    BY <1>1, <1>3, GroundStable
  <2>. QED
    BY <2>1 DEF Granted, TrueIn
<1>6. ASSUME NEW i \in DOMAIN p.premises
      PROVE  w \in Truth[judgments[p.premises[i]].proposition]
  <2>0. PICK j \in JudgmentId : j = p.premises[i]
    BY <1>1
  <2>1. j \in JudgmentId /\ j \in Nat /\ j <= main /\ main \in Nat
    BY <1>1
  <2>a. PICK a \in ScopeId : a = judgments[j].scope
    BY DEF LedgerInv, LedgerTypeOK
  <2>2. a \in ScopeId /\ a \in scopes[s].chain
    BY <2>0, <2>a DEF PremisesVisible, IsVisible
  <2>3. Granted(a, j)' = Granted(a, j) /\ Conditions(j)' = Conditions(j)
    BY <1>3, <2>1, <2>2, GroundStable
  <2>4. Granted(a, j)' \subseteq Granted(s, main)'
    <3>1. ChainsClosed'
      BY <1>3 DEF ScopeInv
    <3>2. s \in ScopeId' /\ a \in scopes'[s].chain
      BY <1>1, <1>3, <2>2
    <3>. QED
      BY <3>1, <3>2, <2>1, GrantedInheritedNext
  <2>5. TrueIn(w, Granted(a, j))
    BY <2>3, <2>4 DEF TrueIn
  <2>6. TrueIn(w, Conditions(j))
    <3>1. ASSUME NEW r \in judgments[j].requirements
          PROVE  w \in Truth[requirements[r].proposition]
      <4>1. r \in judgments'[main].requirements
        BY <1>2, <2>0, <3>1 DEF Carried, Inherited, Range
      <4>2. r \in RequirementId
        BY <2>1, <3>1 DEF LedgerInv, LedgerTypeOK
      <4>3. requirements'[r] = requirements[r]
        BY <1>3, <4>2 DEF LedgerGrows
      <4>4. requirements[r].proposition \in Conditions(main)'
        BY <4>1, <4>3 DEF Conditions
      <4>. QED
        BY <4>4 DEF TrueIn
    <3>. QED
      BY <3>1 DEF TrueIn, Conditions
  <2>7. TrueIn(w, Granted(a, j) \cup Conditions(j))
    BY <2>5, <2>6 DEF TrueIn
  <2>8. Entails(Granted(a, j) \cup Conditions(j), judgments[j].proposition)
    BY <2>1, <2>a DEF Soundness
  <2>. QED
    BY <2>0, <2>7, <2>8 DEF Entails
<1>7. CASE p.checker = "claim"
  <2>1. main \in 1..(main)
    BY <1>1
  <2>2. s \in scopes'[s].chain
    BY <1>1, <1>3 DEF ScopeInv, ChainsClosed
  <2>3. IsVisible(judgments[main].scope, s)'
    BY <1>2, <2>2 DEF IsVisible
  <2>4. q \in Claimed(s, main)'
    BY <1>2, <1>7, <2>1, <2>3 DEF Claimed
  <2>. QED
    BY <2>4 DEF Granted, TrueIn
<1>8. CASE p.checker = "decide" /\ Decide(Assumptions(s), q) = "yes"
  <2>1. Entails(Assumptions(s), q)
    BY <1>1, <1>8, DecidedEntailed
  <2>. QED
    BY <1>5, <2>1 DEF Entails
<1>9. CASE p.checker = "coverage" /\ IsTautology(q)
  BY <1>1, <1>9, TautologyHolds
<1>10. ASSUME NEW r \in Rule, r.conclusion = q, r.premises = PremiseProps(p), r.direct = direct
       PROVE  w \in Truth[q]
  <2>1. Entails(Range(r.premises) \cup Range(direct), q)
    BY <1>10, OracleAssumption
  <2>2. TrueIn(w, Range(r.premises))
    <3>1. ASSUME NEW t \in Range(r.premises)
          PROVE  w \in Truth[t]
      <4>1. PICK i \in DOMAIN p.premises : t = judgments[p.premises[i]].proposition
        BY <1>10, <3>1 DEF Range, PremiseProps
      <4>. QED
        BY <1>6, <4>1
    <3>. QED
      BY <3>1 DEF TrueIn
  <2>3. TrueIn(w, Range(r.premises) \cup Range(direct))
    BY <1>4, <2>2 DEF TrueIn
  <2>. QED
    BY <2>1, <2>3 DEF Entails
<1>. QED
  BY <1>7, <1>8, <1>9, <1>10 DEF Grounds

\* A discharge is backed by an unconditional judgment of the requirement's own
\* proposition, in the scope the discharge is recorded for.
DischargesBacked ==
    \A d \in discharges :
        /\ judgments[d.by].proposition = requirements[d.requirement].proposition
        /\ judgments[d.by].requirements = {}
        /\ judgments[d.by].scope = d.scope

\* A refutation is backed by a judgment that negates the requirement.
RefutationsBacked ==
    \A f \in refutations :
        Negates(requirements[f.requirement].proposition, judgments[f.by].proposition)

\* What every commit keeps, whatever its checker accepted it on.
StoreInv ==
    /\ ScopeInv
    /\ LedgerInv
    /\ DischargesBacked
    /\ RefutationsBacked

\* What the kernel's own checkers keep.
KernelInv == StoreInv /\ Soundness

\* A condition that lands as a judgment follows from its context alone.
LEMMA SettledEntailed ==
    ASSUME ScopeInv, NEW p, Proposed(p), NEW direct \in Seq(Prop),
           NEW i \in SettledAt(p, direct)
    PROVE  Entails(Assumptions(p.scope), direct[i])
<1>1. i \in DOMAIN direct /\ Verdict(p, direct[i]) = "yes"
  BY DEF SettledAt
<1>2. direct[i] \in Prop
  BY <1>1
<1>. QED
  BY <1>1, <1>2, DecidedEntailed DEF Verdict, Proposed

\* A commit keeps every judgment sound.
LEMMA CommitKeepsSoundness ==
    ASSUME KernelInv, NEW p, Proposed(p), p.checker # "merge", Commit(p), UNCHANGED scopeVars
    PROVE  Soundness'
<1>0. ScopeInv /\ LedgerInv /\ Soundness
  BY DEF KernelInv, StoreInv
<1>1. PICK direct \in Seq(Prop) : \E settled \in InOrder(SettledAt(p, direct)) :
          PremisesVisible(p) /\ Grounds(p, direct) /\ Wrote(p, direct, settled)
  BY <1>0, CommitShape
<1>2. PICK settled \in InOrder(SettledAt(p, direct)) :
          PremisesVisible(p) /\ Grounds(p, direct) /\ Wrote(p, direct, settled)
  BY <1>1
<1>3. ScopesGrow /\ LedgerGrows
  BY <1>0, <1>2, ScopesUnchanged DEF Wrote
<1>4. PICK main : main = Len(judgments) + 1
  OBVIOUS
<1>5. /\ \A k \in DOMAIN settled : settled[k] \in SettledAt(p, direct)
      /\ \A j \in JudgmentId' : \/ j \in JudgmentId
                               \/ j = main
                               \/ \E k \in DOMAIN settled : j = main + k
  BY <1>0, <1>2, <1>4, WroteIds
<1>6. ASSUME NEW j \in JudgmentId
      PROVE  Entails((Granted(judgments[j].scope, j) \cup Conditions(j))',
                     judgments'[j].proposition)
  <2>1. PICK s \in ScopeId : s = judgments[j].scope
    BY <1>0 DEF LedgerInv, LedgerTypeOK
  <2>2. judgments'[j] = judgments[j]
    BY <1>3 DEF LedgerGrows
  <2>3. Granted(s, j)' = Granted(s, j) /\ Conditions(j)' = Conditions(j)
    BY <1>0, <1>3, GroundStable
  <2>4. Entails(Granted(s, j) \cup Conditions(j), judgments[j].proposition)
    BY <1>0, <2>1 DEF Soundness
  <2>5. Entails((Granted(s, j) \cup Conditions(j))', judgments'[j].proposition)
    BY <2>2, <2>3, <2>4
  <2>. QED
    BY <2>1, <2>2, <2>5
<1>7. ASSUME NEW j, j = main
      PROVE  Entails((Granted(judgments[j].scope, j) \cup Conditions(j))',
                     judgments'[j].proposition)
  <2>1. Entails((Granted(p.scope, main) \cup Conditions(main))', p.conclusion)
    BY <1>0, <1>2, <1>4, ConclusionSound
  <2>2. judgments'[main].scope = p.scope /\ judgments'[main].proposition = p.conclusion
    BY <1>2, <1>4 DEF Wrote
  <2>. QED
    BY <1>7, <2>1, <2>2
<1>8. ASSUME NEW k \in DOMAIN settled, NEW j, j = main + k
      PROVE  Entails((Granted(judgments[j].scope, j) \cup Conditions(j))',
                     judgments'[j].proposition)
  <2>1. judgments'[j] = SettledJudgment(p, direct, settled, k)
    BY <1>2, <1>4, <1>8 DEF Wrote
  <2>2. judgments'[j].scope = p.scope /\ judgments'[j].proposition = direct[settled[k]]
    BY <2>1 DEF SettledJudgment
  <2>3. Entails(Assumptions(p.scope), direct[settled[k]])
    BY <1>0, <1>5, SettledEntailed
  <2>4. Assumptions(p.scope)' = Assumptions(p.scope)
    BY <1>0, <1>3, GroundStable DEF Proposed
  <2>5. Assumptions(p.scope)' \subseteq (Granted(p.scope, j) \cup Conditions(j))'
    BY DEF Granted
  <2>6. Entails((Granted(p.scope, j) \cup Conditions(j))', direct[settled[k]])
    BY <2>3, <2>4, <2>5, EntailsMonotone
  <2>. QED
    BY <2>2, <2>6
<1>. QED
  BY <1>5, <1>6, <1>7, <1>8 DEF Soundness

\* A commit backs what it registers.
LEMMA CommitKeepsBacked ==
    ASSUME StoreInv, NEW p, Proposed(p), Commit(p)
    PROVE  DischargesBacked' /\ RefutationsBacked'
<1>0. ScopeInv /\ LedgerInv /\ DischargesBacked /\ RefutationsBacked
  BY DEF StoreInv
<1>1. PICK direct \in Seq(Prop) : \E settled \in InOrder(SettledAt(p, direct)) :
          Wrote(p, direct, settled) /\ Registered(p, direct, settled)
  BY <1>0, CommitShape
<1>2. PICK settled \in InOrder(SettledAt(p, direct)) :
          Wrote(p, direct, settled) /\ Registered(p, direct, settled)
  BY <1>1
<1>3. /\ \A r \in RequirementId : requirements'[r] = requirements[r]
      /\ \A j \in JudgmentId : judgments'[j] = judgments[j]
  BY <1>2 DEF Wrote, LedgerGrows
<1>4. PICK main : main = Len(judgments) + 1
  OBVIOUS
<1>5. \A k \in DOMAIN settled : settled[k] \in DOMAIN direct
  BY <1>0, <1>2, WroteIds
<1>6. ASSUME NEW k \in DOMAIN settled
      PROVE  /\ judgments'[main + k].proposition = direct[settled[k]]
             /\ judgments'[main + k].requirements = {}
             /\ judgments'[main + k].scope = p.scope
  <2>1. judgments'[main + k] = SettledJudgment(p, direct, settled, k)
    BY <1>2, <1>4 DEF Wrote
  <2>. QED
    BY <2>1 DEF SettledJudgment
<1>7. ASSUME NEW d \in discharges'
      PROVE  /\ judgments'[d.by].proposition = requirements'[d.requirement].proposition
             /\ judgments'[d.by].requirements = {}
             /\ judgments'[d.by].scope = d.scope
  <2>1. CASE d \in discharges
    <3>1. d.requirement \in RequirementId /\ d.by \in JudgmentId
      BY <1>0, <2>1 DEF LedgerInv, LedgerTypeOK
    <3>. QED
      BY <1>0, <1>3, <2>1, <3>1 DEF DischargesBacked
  <2>2. ASSUME NEW k \in DOMAIN settled,
               d = [requirement |-> IdOf(direct, direct[settled[k]]), by |-> main + k,
                    scope |-> p.scope]
        PROVE  /\ judgments'[d.by].proposition = requirements'[d.requirement].proposition
               /\ judgments'[d.by].requirements = {}
               /\ judgments'[d.by].scope = d.scope
    <3>1. PICK t \in Range(direct) : t = direct[settled[k]]
      BY <1>5 DEF Range
    <3>2. PICK i \in DOMAIN direct : direct[i] = t /\ IdOf(direct, t) = Len(requirements) + i
      BY IdOfShape
    <3>3. requirements'[Len(requirements) + i] =
              [scope |-> p.scope, proposition |-> direct[i], introducedBy |-> main]
      BY <1>2, <1>4 DEF Wrote
    <3>4. requirements'[d.requirement].proposition = t
      <4>1. d.requirement = Len(requirements) + i
        BY <2>2, <3>1, <3>2
      <4>. QED
        BY <3>2, <3>3, <4>1
    <3>5. d.by = main + k /\ d.scope = p.scope
      BY <2>2
    <3>6. /\ judgments'[d.by].proposition = t
          /\ judgments'[d.by].requirements = {}
          /\ judgments'[d.by].scope = p.scope
      BY <1>6, <3>1, <3>5
    <3>. QED
      BY <3>4, <3>5, <3>6
  <2>. QED
    BY <1>2, <1>4, <2>1, <2>2 DEF Registered
<1>8. ASSUME NEW f \in refutations'
      PROVE  Negates(requirements'[f.requirement].proposition, judgments'[f.by].proposition)
  <2>1. CASE f \in refutations
    <3>1. f.requirement \in RequirementId /\ f.by \in JudgmentId
      BY <1>0, <2>1 DEF LedgerInv, LedgerTypeOK
    <3>. QED
      BY <1>0, <1>3, <2>1, <3>1 DEF RefutationsBacked
  <2>2. CASE f.by = main /\ f.requirement \in RefutedBy(requirements', p.conclusion)
    <3>1. judgments'[f.by].proposition = p.conclusion
      BY <1>2, <1>4, <2>2 DEF Wrote
    <3>. QED
      BY <2>2, <3>1 DEF RefutedBy
  <2>3. ASSUME NEW k \in DOMAIN settled,
               f.by = main + k, f.requirement \in RefutedBy(requirements', direct[settled[k]])
        PROVE  Negates(requirements'[f.requirement].proposition, judgments'[f.by].proposition)
    <3>1. judgments'[f.by].proposition = direct[settled[k]]
      BY <1>6, <2>3
    <3>. QED
      BY <2>3, <3>1 DEF RefutedBy
  <2>. QED
    BY <1>2, <1>4, <2>1, <2>2, <2>3 DEF Registered
<1>. QED
  BY <1>7, <1>8 DEF DischargesBacked, RefutationsBacked

\* A commit keeps the store, also while contexts grow.
LEMMA CommitKeepsStore ==
    ASSUME StoreInv, NEW p, Proposed(p), Commit(p), ScopesGrow, ScopeInv'
    PROVE  StoreInv' /\ LedgerGrows
<1>1. ScopeInv /\ LedgerInv
  BY DEF StoreInv
<1>2. LedgerInv' /\ LedgerGrows
  BY <1>1, CommitKeepsLedgerInv
<1>3. DischargesBacked' /\ RefutationsBacked'
  BY CommitKeepsBacked
<1>. QED
  BY <1>2, <1>3 DEF StoreInv

\* A commit of the kernel's own keeps the whole invariant.
LEMMA CommitKeepsKernelInv ==
    ASSUME KernelInv, NEW p, Proposed(p), p.checker # "merge", Commit(p), UNCHANGED scopeVars
    PROVE  KernelInv' /\ ScopesGrow /\ LedgerGrows
<1>1. StoreInv /\ ScopeInv
  BY DEF KernelInv, StoreInv
<1>2. ScopeInv' /\ ScopesGrow
  BY <1>1, ScopesUnchanged
<1>3. StoreInv' /\ LedgerGrows
  BY <1>1, <1>2, CommitKeepsStore
<1>4. Soundness'
  BY CommitKeepsSoundness
<1>. QED
  BY <1>2, <1>3, <1>4 DEF KernelInv

\* Contexts may grow under a ledger that stands still.
LEMMA ScopesGrowKeepsStore ==
    ASSUME StoreInv, ScopeInv', ScopesGrow, UNCHANGED ledgerVars
    PROVE  StoreInv' /\ LedgerGrows
<1>1. /\ requirements' = requirements /\ judgments' = judgments /\ steps' = steps
      /\ discharges' = discharges /\ refutations' = refutations
      /\ JudgmentId' = JudgmentId /\ RequirementId' = RequirementId
  BY DEF ledgerVars, JudgmentId, RequirementId
<1>2. ScopeInv /\ LedgerInv
  BY DEF StoreInv
<1>3. LedgerGrows
  BY <1>1, <1>2 DEF LedgerGrows, LedgerInv, LedgerSeqs
<1>4. ScopeId \subseteq ScopeId'
  BY <1>2, <1>3, GroundStable
<1>5. LedgerInv'
  <2>1. LedgerSeqs'
    BY <1>1, <1>2 DEF LedgerInv, LedgerSeqs
  <2>2. LedgerTypeOK
    BY <1>2 DEF LedgerInv
  <2>3. \A r \in RequirementId' :
          /\ requirements'[r].scope \in ScopeId'
          /\ requirements'[r].proposition \in Prop
          /\ requirements'[r].introducedBy \in JudgmentId'
    BY <1>1, <1>4, <2>2 DEF LedgerTypeOK
  <2>4. \A j \in JudgmentId' :
          /\ judgments'[j].scope \in ScopeId'
          /\ judgments'[j].proposition \in Prop
          /\ judgments'[j].requirements \subseteq RequirementId'
    BY <1>1, <1>4, <2>2 DEF LedgerTypeOK
  <2>5. /\ Len(steps') = Len(judgments')
        /\ \A j \in JudgmentId' :
              /\ steps'[j].scope = judgments'[j].scope
              /\ \A i \in DOMAIN steps'[j].premises : steps'[j].premises[i] \in 1..(j - 1)
    BY <1>1, <2>2 DEF LedgerTypeOK
  <2>6. \A d \in discharges' :
          d.requirement \in RequirementId' /\ d.by \in JudgmentId' /\ d.scope \in ScopeId'
    BY <1>1, <1>4, <2>2 DEF LedgerTypeOK
  <2>7. \A f \in refutations' : f.requirement \in RequirementId' /\ f.by \in JudgmentId'
    BY <1>1, <2>2 DEF LedgerTypeOK
  <2>. QED
    BY <2>1, <2>3, <2>4, <2>5, <2>6, <2>7 DEF LedgerInv, LedgerTypeOK
<1>6. DischargesBacked' /\ RefutationsBacked'
  BY <1>1 DEF StoreInv, DischargesBacked, RefutationsBacked
<1>. QED
  BY <1>3, <1>5, <1>6 DEF StoreInv

\* Judgments stay sound under contexts that grow.
LEMMA ScopesGrowKeepsKernelInv ==
    ASSUME KernelInv, ScopeInv', ScopesGrow, UNCHANGED ledgerVars
    PROVE  KernelInv' /\ LedgerGrows
<1>1. judgments' = judgments /\ JudgmentId' = JudgmentId
  BY DEF ledgerVars, JudgmentId
<1>2. StoreInv /\ ScopeInv /\ LedgerInv
  BY DEF KernelInv, StoreInv
<1>3. StoreInv' /\ LedgerGrows
  BY <1>2, ScopesGrowKeepsStore
<1>4. Soundness'
  <2>1. ASSUME NEW j \in JudgmentId
        PROVE  Entails((Granted(judgments[j].scope, j) \cup Conditions(j))',
                       judgments'[j].proposition)
    <3>1. PICK s \in ScopeId : s = judgments[j].scope
      BY <1>2 DEF LedgerInv, LedgerTypeOK
    <3>2. Granted(s, j)' = Granted(s, j) /\ Conditions(j)' = Conditions(j)
      BY <1>2, <1>3, GroundStable
    <3>3. Entails(Granted(s, j) \cup Conditions(j), judgments[j].proposition)
      BY <3>1 DEF KernelInv, Soundness
    <3>4. Entails((Granted(s, j) \cup Conditions(j))', judgments'[j].proposition)
      BY <1>1, <3>2, <3>3
    <3>. QED
      BY <1>1, <3>1, <3>4
  <2>. QED
    BY <1>1, <2>1 DEF Soundness
<1>. QED
  BY <1>3, <1>4 DEF KernelInv

\* The invariant holds at the start.
LEMMA KernelInvInit == KernelInit => KernelInv
<1>. SUFFICES ASSUME KernelInit PROVE KernelInv
  OBVIOUS
<1>1. ScopeInv /\ LedgerInv
  BY ScopeInvInit, LedgerInvInit DEF KernelInit
<1>2. JudgmentId = {} /\ discharges = {} /\ refutations = {}
  BY DEF KernelInit, LedgerInit, JudgmentId
<1>. QED
  BY <1>1, <1>2 DEF KernelInv, StoreInv, Soundness, DischargesBacked, RefutationsBacked

\* The two kinds of step the kernel takes.
KernelCommits ==
    \E p : Proposed(p) /\ p.checker # "merge" /\ Commit(p) /\ UNCHANGED scopeVars

ContextsGrow == ScopeInv' /\ ScopesGrow /\ UNCHANGED ledgerVars

\* Every step of the kernel is a commit or a growth of the contexts.
LEMMA KernelStepKinds ==
    ASSUME ScopeInv, [KernelNext]_kernelVars
    PROVE  KernelCommits \/ ContextsGrow
<1>1. ASSUME NEW s \in ScopeId, NEW r \in Rule, NEW policy,
             NEW premises \in [DOMAIN r.premises -> JudgmentId],
             Infer(s, r, premises, policy)
      PROVE  KernelCommits \/ ContextsGrow
  <2>1. PICK p : p = Proposal(s, premises, r.conclusion, "rule", NoPayload, policy)
    OBVIOUS
  <2>2. Commit(p) /\ UNCHANGED scopeVars
    BY <1>1, <2>1 DEF Infer
  <2>3. Proposed(p) /\ p.checker # "merge"
    <3>1. r.premises \in Seq(Prop) /\ r.conclusion \in Prop
      BY KernelAssumption
    <3>2. DOMAIN r.premises = 1..Len(r.premises) /\ Len(r.premises) \in Nat
      BY <3>1
    <3>3. premises \in Seq(JudgmentId)
      BY <3>2
    <3>4. p.scope = s /\ p.premises = premises /\ p.conclusion = r.conclusion /\ p.checker = "rule"
      BY <2>1 DEF Proposal
    <3>. QED
      BY <3>1, <3>3, <3>4 DEF Proposed, CheckerName
  <2>. QED
    BY <2>2, <2>3 DEF KernelCommits
<1>2. ASSUME NEW s \in ScopeId, NEW q \in Prop, NEW policy,
             NEW checker \in {"claim", "decide", "coverage"},
             Submit(s, q, checker, policy)
      PROVE  KernelCommits \/ ContextsGrow
  <2>1. PICK p : p = Proposal(s, <<>>, q, checker, NoPayload, policy)
    OBVIOUS
  <2>2. Commit(p) /\ UNCHANGED scopeVars
    BY <1>2, <2>1 DEF Submit
  <2>3. p.scope = s /\ p.premises = <<>> /\ p.conclusion = q /\ p.checker = checker
    BY <2>1 DEF Proposal
  <2>4. <<>> \in Seq(JudgmentId)
    OBVIOUS
  <2>5. Proposed(p) /\ p.checker # "merge"
    BY <2>3, <2>4 DEF Proposed, CheckerName
  <2>. QED
    BY <2>2, <2>5 DEF KernelCommits
<1>3. ASSUME NEW s \in ScopeId, NEW e \in EntriesRecord, Create(s, e), UNCHANGED ledgerVars
      PROVE  KernelCommits \/ ContextsGrow
  <2>1. <<e>> \in Seq(EntriesRecord) /\ Children(s, <<e>>)
    BY <1>3 DEF Create
  <2>2. ScopeInv' /\ ScopesGrow
    BY <2>1, ChildrenKeepsScopeInv
  <2>. QED
    BY <1>3, <2>2 DEF ContextsGrow
<1>4. ASSUME NEW s \in ScopeId, NEW e \in EntriesRecord, Extend(s, e), UNCHANGED ledgerVars
      PROVE  KernelCommits \/ ContextsGrow
  <2>1. ScopeInv' /\ ScopesGrow
    BY <1>4, ExtendKeepsScopeInv
  <2>. QED
    BY <1>4, <2>1 DEF ContextsGrow
<1>5. CASE KernelNext
  <2>1. PICK s \in ScopeId :
        \/ \E policy \in Policy, r \in Rule :
              \E premises \in [DOMAIN r.premises -> JudgmentId] : Infer(s, r, premises, policy)
        \/ \E policy \in Policy, q \in Claimable : Submit(s, q, "claim", policy)
        \/ \E policy \in Policy, q \in Prop, checker \in {"decide", "coverage"} :
              Submit(s, q, checker, policy)
        \/ \E q \in Assumable : Fork(s, q) \/ Assume(s, q)
        \/ \E x \in Sym : ForkWithLocal(s, x)
    BY <1>5 DEF KernelNext
  <2>2. Claimable \subseteq Prop /\ Assumable \subseteq Prop
    BY KernelAssumption
  <2>3. CASE \E policy \in Policy, r \in Rule :
               \E premises \in [DOMAIN r.premises -> JudgmentId] : Infer(s, r, premises, policy)
    BY <1>1, <2>3
  <2>4. CASE \E policy \in Policy, q \in Claimable : Submit(s, q, "claim", policy)
    BY <1>2, <2>2, <2>4
  <2>5. CASE \E policy \in Policy, q \in Prop, checker \in {"decide", "coverage"} :
               Submit(s, q, checker, policy)
    BY <1>2, <2>5
  <2>6. ASSUME NEW q \in Assumable, Fork(s, q) \/ Assume(s, q)
        PROVE  KernelCommits \/ ContextsGrow
    <3>1. Entries({}, NoDefinition, {q}) \in EntriesRecord
      BY <2>2, EntriesMade
    <3>. QED
      BY <1>3, <1>4, <2>6, <3>1 DEF Fork, Assume
  <2>7. ASSUME NEW x \in Sym, ForkWithLocal(s, x)
        PROVE  KernelCommits \/ ContextsGrow
    <3>1. Entries({x}, NoDefinition, {}) \in EntriesRecord
      BY EntriesMade
    <3>. QED
      BY <1>3, <2>7, <3>1 DEF ForkWithLocal
  <2>. QED
    BY <2>1, <2>3, <2>4, <2>5, <2>6, <2>7
<1>6. CASE UNCHANGED kernelVars
  <2>1. UNCHANGED scopeVars /\ UNCHANGED ledgerVars
    BY <1>6 DEF kernelVars
  <2>2. ScopeInv' /\ ScopesGrow
    BY <2>1, ScopesUnchanged
  <2>. QED
    BY <2>1, <2>2 DEF ContextsGrow
<1>. QED
  BY <1>5, <1>6

\* Every step of the kernel keeps the invariant and only adds.
LEMMA KernelInvStep ==
    KernelInv /\ [KernelNext]_kernelVars => KernelInv' /\ ScopesGrow /\ LedgerGrows
<1>. SUFFICES ASSUME KernelInv, [KernelNext]_kernelVars
              PROVE  KernelInv' /\ ScopesGrow /\ LedgerGrows
  OBVIOUS
<1>1. KernelCommits \/ ContextsGrow
  BY KernelStepKinds DEF KernelInv, StoreInv
<1>2. CASE KernelCommits
  BY <1>2, CommitKeepsKernelInv DEF KernelCommits
<1>3. CASE ContextsGrow
  BY <1>3, ScopesGrowKeepsKernelInv DEF ContextsGrow
<1>. QED
  BY <1>1, <1>2, <1>3

\* The invariant holds of every behaviour of the kernel.
LEMMA KernelInvAlways == KernelSpec => []KernelInv
<1>1. KernelInit => KernelInv
  BY KernelInvInit
<1>2. KernelInv /\ [KernelNext]_kernelVars => KernelInv'
  BY KernelInvStep
<1>. QED
  BY <1>1, <1>2, PTL DEF KernelSpec

-----------------------------------------------------------------------------
(* What applicability says. *)

\* Three outcomes, told apart by refutations first and discharges second.
LEMMA ApplicabilityShape ==
    ASSUME NEW j, NEW s
    PROVE  /\ Applicability(j, s) = "inapplicable" <=>
                 \E r \in judgments[j].requirements : IsRefuted(r, s)
           /\ Applicability(j, s) = "applicable" =>
                 \A r \in judgments[j].requirements : DischargedBy(discharges, r, s)
           /\ (\A r \in judgments[j].requirements : DischargedBy(discharges, r, s)) =>
                 Applicability(j, s) # "conditional"
BY DEF Applicability

\* A usable conclusion is true.
LEMMA UsableHolds == KernelInv => ApplicableHolds
<1>. SUFFICES ASSUME KernelInv, NEW s \in ScopeId, NEW j \in JudgmentId,
                     IsVisible(judgments[j].scope, s), Applicability(j, s) = "applicable"
              PROVE  Entails(Granted(s, Len(judgments)), judgments[j].proposition)
  BY DEF ApplicableHolds
<1>1. /\ ScopeInv /\ LedgerInv /\ Soundness /\ DischargesBacked
      /\ ChainsClosed
  BY DEF KernelInv, StoreInv, ScopeInv
<1>2. /\ Len(judgments) \in Nat
      /\ \A i \in JudgmentId : i \in Nat /\ i <= Len(judgments)
  BY <1>1 DEF LedgerInv, LedgerSeqs, JudgmentId
<1>3. ASSUME NEW i \in JudgmentId, NEW w \in World,
             TrueIn(w, Granted(s, Len(judgments))), TrueIn(w, Conditions(i)),
             IsVisible(judgments[i].scope, s)
      PROVE  w \in Truth[judgments[i].proposition]
  <2>1. judgments[i].scope \in scopes[s].chain
    BY <1>3 DEF IsVisible
  <2>2. Granted(judgments[i].scope, i) \subseteq Granted(s, Len(judgments))
    BY <1>1, <1>2, <2>1, GrantedInherited
  <2>3. TrueIn(w, Granted(judgments[i].scope, i) \cup Conditions(i))
    BY <1>3, <2>2 DEF TrueIn
  <2>. QED
    BY <1>1, <2>3 DEF Soundness, Entails
<1>4. ASSUME NEW w \in World, TrueIn(w, Granted(s, Len(judgments)))
      PROVE  w \in Truth[judgments[j].proposition]
  <2>1. ASSUME NEW r \in judgments[j].requirements
        PROVE  w \in Truth[requirements[r].proposition]
    <3>1. PICK d \in discharges : d.requirement = r /\ IsVisible(d.scope, s)
      BY ApplicabilityShape DEF DischargedBy
    <3>2. /\ d.by \in JudgmentId
          /\ judgments[d.by].proposition = requirements[r].proposition
          /\ judgments[d.by].requirements = {}
          /\ judgments[d.by].scope = d.scope
      BY <1>1, <3>1 DEF DischargesBacked, LedgerInv, LedgerTypeOK
    <3>3. TrueIn(w, Conditions(d.by))
      BY <3>2 DEF Conditions, TrueIn
    <3>. QED
      BY <1>3, <1>4, <3>1, <3>2, <3>3
  <2>2. TrueIn(w, Conditions(j))
    BY <2>1 DEF Conditions, TrueIn
  <2>. QED
    BY <1>3, <1>4, <2>2
<1>. QED
  BY <1>4 DEF Entails

\* What a negation makes true its operand makes false.
LEMMA NegationExcludes ==
    ASSUME NEW p \in Prop, NEW q \in Prop, Negates(p, q), NEW w \in World, w \in Truth[q]
    PROVE  w \notin Truth[p]
<1>1. \A x \in Prop, y \in Prop : y = Not(x) => Truth[y] = World \ Truth[x]
  <2>1. ASSUME NEW x \in Prop, NEW y \in Prop, y = Not(x)
        PROVE  Truth[y] = World \ Truth[x]
    <3>1. y.head = "Not" /\ y.args[1] = x
      BY <2>1 DEF Not
    <3>. QED
      BY <3>1, ConnectiveAssumption
  <2>. QED
    BY <2>1
<1>. QED
  BY <1>1 DEF Negates

\* A refuted requirement is false where its refuter holds.
LEMMA RefutedFails == KernelInv => RefutationContradicts
<1>. SUFFICES ASSUME KernelInv, NEW f \in refutations, NEW w \in World,
                     TrueIn(w, Granted(judgments[f.by].scope, f.by) \cup Conditions(f.by))
              PROVE  w \notin Truth[requirements[f.requirement].proposition]
  BY DEF RefutationContradicts
<1>1. f.by \in JudgmentId /\ f.requirement \in RequirementId
  BY DEF KernelInv, StoreInv, LedgerInv, LedgerTypeOK
<1>2. w \in Truth[judgments[f.by].proposition]
  BY <1>1 DEF KernelInv, Soundness, Entails
<1>3. /\ judgments[f.by].proposition \in Prop
      /\ requirements[f.requirement].proposition \in Prop
  BY <1>1 DEF KernelInv, StoreInv, LedgerInv, LedgerTypeOK
<1>4. Negates(requirements[f.requirement].proposition, judgments[f.by].proposition)
  BY DEF KernelInv, StoreInv, RefutationsBacked
<1>. QED
  BY <1>2, <1>3, <1>4, NegationExcludes

\* A child context sees what its ancestors see.
LEMMA SeenInside == StoreInv => ApplicabilityInherited
<1>. SUFFICES ASSUME StoreInv, NEW s \in ScopeId, NEW a \in scopes[s].chain, NEW j \in JudgmentId
              PROVE  /\ Applicability(j, a) = "inapplicable" => Applicability(j, s) = "inapplicable"
                     /\ Applicability(j, a) = "applicable" => Applicability(j, s) # "conditional"
  BY DEF ApplicabilityInherited
<1>1. scopes[a].chain \subseteq scopes[s].chain
  BY DEF StoreInv, ScopeInv, ChainsClosed
<1>2. \A r : IsRefuted(r, a) => IsRefuted(r, s)
  BY <1>1 DEF IsRefuted, IsVisible
<1>3. \A r : DischargedBy(discharges, r, a) => DischargedBy(discharges, r, s)
  BY <1>1 DEF DischargedBy, IsVisible
<1>. QED
  BY <1>2, <1>3, ApplicabilityShape

\* What was refuted stays refuted and what was settled stays settled.
LEMMA AnswersStand ==
    ASSUME StoreInv, ScopesGrow, LedgerGrows, NEW s \in ScopeId, NEW j \in JudgmentId
    PROVE  /\ Applicability(j, s) = "inapplicable" => Applicability(j, s)' = "inapplicable"
           /\ Applicability(j, s) = "applicable" => Applicability(j, s)' # "conditional"
<1>1. ScopeInv /\ LedgerInv
  BY DEF StoreInv
<1>2. scopes'[s].chain = scopes[s].chain
  BY <1>1, GroundStable
<1>3. judgments'[j] = judgments[j]
  BY DEF LedgerGrows
<1>4. ASSUME NEW r, IsRefuted(r, s)
      PROVE  IsRefuted(r, s)'
  <2>1. PICK f \in refutations : f.requirement = r /\ judgments[f.by].scope \in scopes[s].chain
    BY <1>4 DEF IsRefuted, IsVisible
  <2>2. f \in refutations' /\ f.by \in JudgmentId
    BY <1>1 DEF LedgerGrows, LedgerInv, LedgerTypeOK
  <2>3. judgments'[f.by] = judgments[f.by]
    BY <2>2 DEF LedgerGrows
  <2>. QED
    BY <1>2, <2>1, <2>2, <2>3 DEF IsRefuted, IsVisible
<1>5. ASSUME NEW r, DischargedBy(discharges, r, s)
      PROVE  DischargedBy(discharges, r, s)'
  <2>1. discharges \subseteq discharges'
    BY DEF LedgerGrows
  <2>. QED
    BY <1>2, <1>5, <2>1 DEF DischargedBy, IsVisible
<1>6. ASSUME Applicability(j, s) = "inapplicable"
      PROVE  Applicability(j, s)' = "inapplicable"
  <2>1. \E r \in judgments'[j].requirements : IsRefuted(r, s)'
    BY <1>3, <1>4, <1>6, ApplicabilityShape
  <2>. QED
    BY <2>1 DEF Applicability
<1>7. ASSUME Applicability(j, s) = "applicable"
      PROVE  Applicability(j, s)' # "conditional"
  <2>1. \A r \in judgments'[j].requirements : DischargedBy(discharges, r, s)'
    BY <1>3, <1>5, <1>7, ApplicabilityShape
  <2>. QED
    BY <2>1 DEF Applicability
<1>. QED
  BY <1>6, <1>7

\* Where a condition is proved and in no need of a symbol from elsewhere, the
\* judgment that introduced it has it discharged.
SettledWhereDecided ==
    \A j \in JudgmentId : \A r \in judgments[j].requirements :
        LET s == judgments[j].scope IN
        /\ requirements[r].introducedBy = j
        /\ Decide(Assumptions(s), requirements[r].proposition) = "yes"
        /\ Escapes(s, FreeVars[requirements[r].proposition]) = {}
        => DischargedBy(discharges, r, s)

\* A symbol that escapes a version escapes it for good.
LEMMA EscapesKept ==
    ASSUME ScopeInv, ScopesGrow, NEW s \in ScopeId, NEW syms
    PROVE  Escapes(s, syms) \subseteq Escapes(s, syms)'
<1>. SUFFICES ASSUME NEW x \in Escapes(s, syms) PROVE x \in Escapes(s, syms)'
  OBVIOUS
<1>1. x \in syms /\ Introducers(x) # {} /\ Introducers(x) \cap scopes[s].chain = {}
  BY DEF Escapes
<1>2. /\ ScopeId = 1..Len(scopes) /\ ScopeId' = 1..Len(scopes') /\ Len(scopes) \in Nat
      /\ Len(scopes) <= Len(scopes')
      /\ \A v \in ScopeId : scopes'[v] = scopes[v]
  BY DEF ScopeInv, ScopesGrow, ScopeId
<1>3. scopes'[s].chain = scopes[s].chain /\ scopes[s].chain \subseteq ScopeId
  BY <1>2 DEF ScopeInv, ChainsClosed
<1>4. \A v \in ScopeId : v \in ScopeId'
  BY <1>2 DEF ScopeInv
<1>5. \A v \in ScopeId : v \in Introducers(x)' <=> v \in Introducers(x)
  BY <1>2, <1>4 DEF Introducers
<1>6. Introducers(x)' # {}
  <2>1. PICK v \in Introducers(x) : v \in ScopeId
    BY <1>1 DEF Introducers
  <2>. QED
    BY <1>5, <2>1
<1>7. Introducers(x)' \cap scopes'[s].chain = {}
  BY <1>1, <1>3, <1>5
<1>. QED
  BY <1>1, <1>6, <1>7 DEF Escapes

\* A commit under GUARANTEED mode settles what it proves, also while contexts
\* grow; what was settled stays so.
LEMMA CommitSettles ==
    ASSUME ~Defers, StoreInv, SettledWhereDecided, NEW p, Proposed(p), Commit(p),
           ScopesGrow, ScopeInv'
    PROVE  SettledWhereDecided'
<1>0. ScopeInv /\ LedgerInv
  BY DEF StoreInv
<1>1. PICK direct \in Seq(Prop) : \E settled \in InOrder(SettledAt(p, direct)) :
          Wrote(p, direct, settled) /\ Registered(p, direct, settled)
  BY <1>0, CommitShape
<1>2. PICK settled \in InOrder(SettledAt(p, direct)) :
          Wrote(p, direct, settled) /\ Registered(p, direct, settled)
  BY <1>1
<1>3. PICK main : main = Len(judgments) + 1
  OBVIOUS
<1>4. /\ \A j \in JudgmentId' : \/ j \in JudgmentId
                                \/ j = main
                                \/ \E k \in DOMAIN settled : j = main + k
      /\ JudgmentId = 1..Len(judgments) /\ Len(judgments) \in Nat
      /\ DOMAIN direct = 1..Len(direct) /\ Len(direct) \in Nat
  BY <1>0, <1>2, <1>3, WroteIds
<1>5. LedgerGrows
  BY <1>2 DEF Wrote
<1>6. p.scope \in ScopeId
  BY DEF Proposed
<1>. SUFFICES ASSUME NEW j \in JudgmentId', NEW r \in judgments'[j].requirements,
                     requirements'[r].introducedBy = j,
                     Decide(Assumptions(judgments[j].scope)', requirements'[r].proposition) = "yes",
                     Escapes(judgments[j].scope, FreeVars[requirements[r].proposition])' = {}
              PROVE  DischargedBy(discharges, r, judgments[j].scope)'
  BY DEF SettledWhereDecided
<1>7. CASE j \in JudgmentId
  <2>1. judgments'[j] = judgments[j]
    BY <1>5, <1>7 DEF LedgerGrows
  <2>2. PICK s \in ScopeId : s = judgments[j].scope
    BY <1>0, <1>7 DEF LedgerInv, LedgerTypeOK
  <2>3. r \in RequirementId
    BY <1>0, <1>7, <2>1 DEF LedgerInv, LedgerTypeOK
  <2>4. requirements'[r] = requirements[r]
    BY <1>5, <2>3 DEF LedgerGrows
  <2>5. Assumptions(s)' = Assumptions(s) /\ scopes'[s].chain = scopes[s].chain
    BY <1>0, <1>5, GroundStable
  <2>6. Escapes(s, FreeVars[requirements[r].proposition]) = {}
    <3>1. Escapes(s, FreeVars[requirements[r].proposition])
            \subseteq Escapes(s, FreeVars[requirements[r].proposition])'
      BY <1>0, <2>4, EscapesKept
    <3>. QED
      BY <2>1, <2>2, <3>1
  <2>7. DischargedBy(discharges, r, s)
    BY <1>7, <2>1, <2>2, <2>4, <2>5, <2>6 DEF SettledWhereDecided
  <2>8. discharges \subseteq discharges'
    BY <1>5 DEF LedgerGrows
  <2>. QED
    BY <2>1, <2>2, <2>5, <2>7, <2>8 DEF DischargedBy, IsVisible
<1>8. CASE j = main
  <2>1. judgments'[j].scope = p.scope /\ judgments'[j].requirements = Carried(p, direct)
    BY <1>2, <1>3, <1>8 DEF Wrote
  <2>2. r \notin Inherited(p.premises)
    <3>1. ASSUME r \in Inherited(p.premises) PROVE FALSE
      <4>1. PICK i \in Range(p.premises) : r \in judgments[i].requirements
        BY <3>1 DEF Inherited
      <4>2. i \in JudgmentId
        BY <4>1 DEF Proposed, Range
      <4>3. r \in RequirementId /\ requirements[r].introducedBy \in JudgmentId
        BY <1>0, <4>1, <4>2 DEF LedgerInv, LedgerTypeOK
      <4>4. requirements'[r] = requirements[r]
        BY <1>5, <4>3 DEF LedgerGrows
      <4>. QED
        BY <1>3, <1>4, <1>8, <4>3, <4>4
    <3>. QED
      BY <3>1
  <2>3. PICK t \in Range(direct) : r = IdOf(direct, t)
    BY <2>1, <2>2 DEF Carried
  <2>4. PICK i \in DOMAIN direct : direct[i] = t /\ r = Len(requirements) + i
    BY <2>3, IdOfShape
  <2>5. requirements'[r] = [scope |-> p.scope, proposition |-> direct[i], introducedBy |-> main]
    BY <1>2, <1>3, <2>4 DEF Wrote
  <2>6. requirements'[r].proposition = direct[i]
    BY <2>5
  <2>7. Assumptions(p.scope)' = Assumptions(p.scope) /\ scopes'[p.scope].chain = scopes[p.scope].chain
    BY <1>0, <1>5, <1>6, GroundStable
  <2>8. Verdict(p, direct[i]) = "yes"
    BY <2>1, <2>6, <2>7 DEF Verdict
  <2>9. Escapes(p.scope, FreeVars[direct[i]]) = {}
    <3>1. Escapes(p.scope, FreeVars[direct[i]]) \subseteq Escapes(p.scope, FreeVars[direct[i]])'
      BY <1>0, <1>2, <1>6, EscapesKept DEF Wrote
    <3>. QED
      BY <2>1, <2>6, <3>1
  <2>10. i \in SettledAt(p, direct)
    BY <2>8, <2>9 DEF SettledAt
  <2>11. SettledAt(p, direct) \in SUBSET (1..Len(direct))
    BY <1>4 DEF SettledAt
  <2>12. PICK k \in DOMAIN settled : settled[k] = i
    <3>1. \A n \in Nat : \A places \in SUBSET (1..n) : \A f \in InOrder(places) :
            \A place \in places : \E k \in DOMAIN f : f[k] = place
      BY InOrderOnto
    <3>. DEFINE places == SettledAt(p, direct)
    <3>2. settled \in InOrder(places) /\ places \in SUBSET (1..Len(direct)) /\ i \in places
      BY <2>10, <2>11
    <3>. HIDE DEF places
    <3>3. Len(direct) \in Nat
      BY <1>4
    <3>4. \A f \in InOrder(places) : \A place \in places : \E k \in DOMAIN f : f[k] = place
      BY <3>1, <3>2, <3>3
    <3>. QED
      BY <3>2, <3>4
  <2>13. [requirement |-> r, by |-> main + k, scope |-> p.scope] \in discharges'
    BY <1>2, <1>3, <2>3, <2>4, <2>12 DEF Registered
  <2>14. p.scope \in scopes'[p.scope].chain
    BY <1>0, <1>6, <2>7 DEF ScopeInv, ChainsClosed
  <2>. QED
    BY <2>1, <2>13, <2>14 DEF DischargedBy, IsVisible
<1>9. ASSUME NEW k \in DOMAIN settled, j = main + k
      PROVE  FALSE
  <2>1. judgments'[j] = SettledJudgment(p, direct, settled, k)
    BY <1>2, <1>3, <1>9 DEF Wrote
  <2>. QED
    BY <2>1 DEF SettledJudgment
<1>. QED
  BY <1>4, <1>7, <1>8, <1>9

\* Contexts that grow unsettle nothing.
LEMMA ScopesGrowKeepsSettled ==
    ASSUME StoreInv, SettledWhereDecided, ScopesGrow, ScopeInv', UNCHANGED ledgerVars
    PROVE  SettledWhereDecided'
<1>0. ScopeInv /\ LedgerInv
  BY DEF StoreInv
<1>1. /\ judgments' = judgments /\ requirements' = requirements /\ discharges' = discharges
      /\ JudgmentId' = JudgmentId
  BY DEF ledgerVars, JudgmentId
<1>2. LedgerGrows
  BY ScopesGrowKeepsStore
<1>. SUFFICES ASSUME NEW j \in JudgmentId, NEW r \in judgments[j].requirements,
                     requirements[r].introducedBy = j,
                     Decide(Assumptions(judgments[j].scope)', requirements[r].proposition) = "yes",
                     Escapes(judgments[j].scope, FreeVars[requirements[r].proposition])' = {}
              PROVE  DischargedBy(discharges, r, judgments[j].scope)'
  BY <1>1 DEF SettledWhereDecided
<1>3. PICK s \in ScopeId : s = judgments[j].scope
  BY <1>0 DEF LedgerInv, LedgerTypeOK
<1>4. Assumptions(s)' = Assumptions(s) /\ scopes'[s].chain = scopes[s].chain
  BY <1>0, <1>2, GroundStable
<1>5. Escapes(s, FreeVars[requirements[r].proposition]) = {}
  <2>1. Escapes(s, FreeVars[requirements[r].proposition])
          \subseteq Escapes(s, FreeVars[requirements[r].proposition])'
    BY <1>0, <1>1, EscapesKept
  <2>. QED
    BY <1>1, <1>3, <2>1
<1>6. DischargedBy(discharges, r, s)
  BY <1>1, <1>3, <1>4, <1>5 DEF SettledWhereDecided
<1>. QED
  BY <1>1, <1>3, <1>4, <1>6 DEF DischargedBy, IsVisible

\* Every step of the kernel leaves what it decided settled.
LEMMA KernelStepSettles ==
    ASSUME ~Defers, KernelInv, SettledWhereDecided, [KernelNext]_kernelVars
    PROVE  SettledWhereDecided'
<1>1. StoreInv /\ ScopeInv
  BY DEF KernelInv, StoreInv
<1>2. KernelCommits \/ ContextsGrow
  BY <1>1, KernelStepKinds
<1>3. ASSUME NEW p, Proposed(p), Commit(p), UNCHANGED scopeVars
      PROVE  SettledWhereDecided'
  <2>1. ScopeInv' /\ ScopesGrow
    BY <1>1, <1>3, ScopesUnchanged
  <2>. QED
    BY <1>1, <1>3, <2>1, CommitSettles
<1>4. CASE ContextsGrow
  BY <1>1, <1>4, ScopesGrowKeepsSettled DEF ContextsGrow
<1>. QED
  BY <1>2, <1>3, <1>4 DEF KernelCommits

\* A conclusion whose conditions are all settled is not conditional.
LEMMA SettledIsNotConditional == SettledWhereDecided => DecidedIsSettled
<1>. SUFFICES ASSUME SettledWhereDecided, NEW j \in JudgmentId,
                     \A r \in judgments[j].requirements :
                        /\ requirements[r].introducedBy = j
                        /\ Decide(Assumptions(judgments[j].scope), requirements[r].proposition) = "yes"
                        /\ Escapes(judgments[j].scope, FreeVars[requirements[r].proposition]) = {}
              PROVE  Applicability(j, judgments[j].scope) # "conditional"
  BY DEF DecidedIsSettled
<1>1. \A r \in judgments[j].requirements : DischargedBy(discharges, r, judgments[j].scope)
  BY DEF SettledWhereDecided
<1>. QED
  BY <1>1, ApplicabilityShape

-----------------------------------------------------------------------------
(* What is written speaks only of symbols known where it is written. *)

\* The conclusion was looked at, and so was every condition settled on the way.
LEMMA CommitStaysHome ==
    ASSUME ScopeInv, LedgerInv, NEW p, Proposed(p), Commit(p),
           NEW j \in JudgmentId' \ JudgmentId
    PROVE  Escapes(judgments'[j].scope, FreeVars[judgments'[j].proposition]) = {}
<1>1. PICK direct \in Seq(Prop) : \E settled \in InOrder(SettledAt(p, direct)) :
          Wrote(p, direct, settled)
  BY CommitShape
<1>2. PICK settled \in InOrder(SettledAt(p, direct)) : Wrote(p, direct, settled)
  BY <1>1
<1>3. WellScoped(p)
  BY DEF Commit, Outcome
<1>4. SettledAt(p, direct) \in SUBSET (DOMAIN direct)
  BY DEF SettledAt
<1>5. /\ DOMAIN settled = 1..Len(settled) /\ Len(settled) \in Nat
      /\ \A k \in DOMAIN settled : settled[k] \in SettledAt(p, direct)
  BY <1>4, InOrderShape
<1>6. Len(judgments) \in Nat
  BY DEF LedgerInv, LedgerSeqs
<1>7. j \in Len(judgments) + 1..Len(judgments) + 1 + Len(settled)
  BY <1>2, <1>5, <1>6 DEF Wrote, JudgmentId
<1>8. CASE j = Len(judgments) + 1
  <2>1. judgments'[j].scope = p.scope /\ judgments'[j].proposition = p.conclusion
    BY <1>2, <1>8 DEF Wrote
  <2>. QED
    BY <1>3, <2>1 DEF WellScoped
<1>9. ASSUME NEW k \in DOMAIN settled, j = Len(judgments) + 1 + k
      PROVE  Escapes(judgments'[j].scope, FreeVars[judgments'[j].proposition]) = {}
  <2>1. Escapes(p.scope, FreeVars[direct[settled[k]]]) = {}
    BY <1>5, <1>9 DEF SettledAt
  <2>2. judgments'[j] = SettledJudgment(p, direct, settled, k)
    BY <1>2, <1>9 DEF Wrote
  <2>. QED
    BY <2>1, <2>2 DEF SettledJudgment
<1>10. j # Len(judgments) + 1 =>
          j - (Len(judgments) + 1) \in DOMAIN settled
          /\ j = Len(judgments) + 1 + (j - (Len(judgments) + 1))
  BY <1>5, <1>6, <1>7
<1>. QED
  BY <1>8, <1>9, <1>10

-----------------------------------------------------------------------------
(* The theorems. *)

\* Contexts: ids are positions, parents are older, the chain of a version is
\* its parent's with the version itself, every lineage has a head (ScopeStore).
THEOREM ScopesTypeCorrect == KernelSpec => []ScopeTypeOK
<1>1. KernelInv => ScopeTypeOK
  BY DEF KernelInv, StoreInv, ScopeInv
<1>. QED
  BY <1>1, KernelInvAlways, PTL

\* However contexts are forked and extended, the versions of a lineage are one
\* line and its head is inside all of them (ScopeStore.extend).
THEOREM LineageCorrect == KernelSpec => []LineageIsLinear
<1>1. KernelInv => LineageIsLinear
  BY DEF KernelInv, StoreInv, ScopeInv
<1>. QED
  BY <1>1, KernelInvAlways, PTL

\* The ledger refers only to what is in it, and a step rests only on judgments
\* older than its own (commit).
THEOREM LedgerTypeCorrect == KernelSpec => []LedgerTypeOK
<1>1. KernelInv => LedgerTypeOK
  BY DEF KernelInv, StoreInv, LedgerInv
<1>. QED
  BY <1>1, KernelInvAlways, PTL

\* With sound rules and a sound decision procedure, every committed judgment
\* holds wherever its context, its open conditions and the claims in its sight
\* do (commit, _commit_decided, the checkers).
THEOREM JudgmentsSound == KernelSpec => []Soundness
<1>1. KernelInv => Soundness
  BY DEF KernelInv
<1>. QED
  BY <1>1, KernelInvAlways, PTL

\* What applicability reports usable is true where it is reported, with no
\* condition left (applicability, is_discharged).
THEOREM ApplicableSound == KernelSpec => []ApplicableHolds
BY UsableHolds, KernelInvAlways, PTL

\* What is marked refuted is false where the refuting judgment holds
\* (_record_refutations).
THEOREM RefutationsSound == KernelSpec => []RefutationContradicts
BY RefutedFails, KernelInvAlways, PTL

\* Outside INTERACTIVE mode a conclusion is not reported conditional, where it
\* was drawn, over conditions of its own that are proved there (SettledAt, commit
\* step 9; INTERACTIVE mode registers no discharge at all).
THEOREM DecidedSettled ==
    ASSUME ~Defers
    PROVE  KernelSpec => []DecidedIsSettled
<1>. DEFINE Inv == KernelInv /\ SettledWhereDecided
<1>1. KernelInit => Inv
  <2>1. KernelInit => SettledWhereDecided
    BY DEF KernelInit, LedgerInit, SettledWhereDecided, JudgmentId
  <2>. QED
    BY <2>1, KernelInvInit
<1>2. Inv /\ [KernelNext]_kernelVars => Inv'
  BY KernelInvStep, KernelStepSettles
<1>3. Inv => DecidedIsSettled
  BY SettledIsNotConditional
<1>. QED
  <2>. HIDE DEF Inv
  <2>. QED
    BY <1>1, <1>2, <1>3, PTL DEF KernelSpec

\* No local symbol is carried out of its context, not even by a condition a
\* commit settles on its way (escapes in _commit_checked and, through the nested
\* commit, in _commit_decided).
THEOREM LocalsStayHomeCorrect == KernelSpec => LocalsStayHome
<1>. DEFINE Stays == \A j \in JudgmentId' \ JudgmentId :
          Escapes(judgments'[j].scope, FreeVars[judgments'[j].proposition]) = {}
<1>1. KernelInv /\ [KernelNext]_kernelVars => Stays
  <2>. SUFFICES ASSUME KernelInv, [KernelNext]_kernelVars PROVE Stays
    OBVIOUS
  <2>1. ScopeInv /\ LedgerInv
    BY DEF KernelInv, StoreInv
  <2>2. CASE KernelCommits
    BY <2>1, <2>2, CommitStaysHome DEF KernelCommits
  <2>3. CASE ContextsGrow
    BY <2>3 DEF ContextsGrow, JudgmentId, ledgerVars
  <2>. QED
    BY <2>1, <2>2, <2>3, KernelStepKinds
<1>2. KernelInv /\ [KernelNext]_kernelVars => [Stays]_kernelVars
  BY <1>1
<1>3. KernelSpec => [][Stays]_kernelVars
  <2>. HIDE DEF Stays
  <2>. QED
    BY <1>2, KernelInvAlways, PTL DEF KernelSpec
<1>. QED
  BY <1>3 DEF LocalsStayHome

\* Entering a child context never loses an answer (is_visible in is_discharged
\* and is_refuted).
THEOREM ApplicabilityInheritedCorrect == KernelSpec => []ApplicabilityInherited
BY SeenInside, KernelInvAlways, PTL DEF KernelInv

\* No later commit, fork or entry reopens an answer (the ledger and the
\* versions only grow).
THEOREM ApplicabilityMonotoneCorrect == KernelSpec => ApplicabilityMonotone
<1>. DEFINE Stands == \A s \in ScopeId, j \in JudgmentId :
          /\ Applicability(j, s) = "inapplicable" => Applicability(j, s)' = "inapplicable"
          /\ Applicability(j, s) = "applicable" => Applicability(j, s)' # "conditional"
<1>1. KernelInv /\ [KernelNext]_kernelVars => Stands
  BY KernelInvStep, AnswersStand DEF KernelInv
<1>2. KernelInv /\ [KernelNext]_kernelVars => [Stands]_kernelVars
  BY <1>1
<1>3. KernelSpec => [][Stands]_kernelVars
  <2>. HIDE DEF Stands
  <2>. QED
    BY <1>2, KernelInvAlways, PTL DEF KernelSpec
<1>. QED
  BY <1>3 DEF ApplicabilityMonotone
================================================================================
