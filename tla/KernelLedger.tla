----------------------------- MODULE KernelLedger -----------------------------
(***************************************************************************)
(* cas/kernel/commit.py over cas/kernel/store.py: the append-only ledger   *)
(* of conditional judgments  Gamma |- P [Delta]  and the one operation     *)
(* that writes it.                                                         *)
(*                                                                         *)
(* requirements  open conditions ever issued (Delta), by position          *)
(* judgments     conclusions ever committed, by position                   *)
(* steps         the inferences that produced them, by position            *)
(* discharges    which judgment settles which requirement, in which scope  *)
(* refutations   which judgment contradicts which requirement              *)
(*                                                                         *)
(* Every caller proposes exactly one conclusion and every checker insists  *)
(* on it (_one_conclusion), so a step and its judgment share their         *)
(* position. The conditions a judgment carries are kept as a set of        *)
(* requirements: nothing tells their order or repetition apart.            *)
(***************************************************************************)
EXTENDS ScopeStore

CONSTANTS
    Rule,           \* inferences the mathematical checkers accept
    DomCondition,   \* proposition -> the conditions it needs to be defined
    Decide(_, _),   \* the decision procedure, relative to assumptions
    Assumable,      \* what a context may be asked to assume
    Claimable,      \* what the user may claim
    Defers,         \* mode.defers_discharge: true in INTERACTIVE mode
    MaxJudgments    \* bound: judgments ever committed

ASSUME KernelAssumption ==
    /\ MaxJudgments \in Nat
    /\ Defers \in BOOLEAN
    /\ Assumable \subseteq Prop
    /\ Claimable \subseteq Prop
    /\ \A r \in Rule :
          /\ r.conclusion \in Prop
          /\ r.premises \in Seq(Prop)
          /\ r.direct \in Seq(Prop)
    /\ \A p \in Prop : DomCondition[p] \in Seq(Prop)

TrueIn(w, props) == \A p \in props : w \in Truth[p]

Entails(props, q) == \A w \in World : TrueIn(w, props) => w \in Truth[q]

\* What the kernel takes on trust: a decision is entailed by the assumptions,
\* and a rule a checker accepts is sound under its direct conditions. Whether
\* the mathematics keeps to it is the business of the mathematical modules.
ASSUME OracleAssumption ==
    /\ \A A \in SUBSET Prop, p \in Prop :
          /\ Decide(A, p) \in {"yes", "no", "unknown"}
          /\ Decide(A, p) = "yes" => Entails(A, p)
          /\ Decide(A, p) = "no" => \A w \in World : TrueIn(w, A) => w \notin Truth[p]
    /\ \A r \in Rule : Entails(Range(r.premises) \cup Range(r.direct), r.conclusion)

VARIABLES requirements, judgments, steps, discharges, refutations

ledgerVars == <<requirements, judgments, steps, discharges, refutations>>
kernelVars == <<scopeVars, ledgerVars>>

JudgmentId == 1..Len(judgments)
RequirementId == 1..Len(requirements)

Policy == {"require_proved", "allow_conditional", "request_split"}

LedgerInit ==
    /\ requirements = <<>>
    /\ judgments = <<>>
    /\ steps = <<>>
    /\ discharges = {}
    /\ refutations = {}

-----------------------------------------------------------------------------
(* Queries. *)

\* is_discharged, on the discharges recorded so far.
DischargedBy(recorded, r, s) ==
    \E d \in recorded : d.requirement = r /\ IsVisible(d.scope, s)

\* Mutant: a refutation counts until the condition is concluded after all.
IsRefuted_UntilConcluded(r, s) ==
    \E f \in refutations :
        /\ f.requirement = r
        /\ IsVisible(judgments[f.by].scope, s)
        /\ \A k \in f.by..Len(judgments) :
              judgments[k].proposition # requirements[r].proposition

\* is_refuted: some refuting judgment is visible.
IsRefuted(r, s) ==
    \E f \in refutations : f.requirement = r /\ IsVisible(judgments[f.by].scope, s)

\* applicability: refutation takes precedence over discharge.
Applicability(j, s) ==
    IF \E r \in judgments[j].requirements : IsRefuted(r, s) THEN "inapplicable"
    ELSE IF \A r \in judgments[j].requirements : DischargedBy(discharges, r, s)
         THEN "applicable"
    ELSE "conditional"

\* The conditions premises hand down to a conclusion.
Inherited(premises) == UNION {judgments[p].requirements : p \in Range(premises)}

-----------------------------------------------------------------------------
(* Checkers. A checker sees the propositions of the premises the kernel     *)
(* resolved and the payload of the command; it accepts with the direct      *)
(* conditions, rejects, or does not know.                                   *)

Accepted(direct) == [status |-> "accepted", direct |-> direct]
Rejected == [status |-> "refused", direct |-> <<>>]
Unknown == [status |-> "undecided", direct |-> <<>>]

\* ClaimChecker: anything may be claimed, under its definedness conditions.
CheckClaim(q) == Accepted(DomCondition[q])

\* DecideChecker
CheckDecide(s, q) ==
    LET verdict == Decide(Assumptions(s), q)
    IN  IF verdict = "yes" THEN Accepted(<<>>)
        ELSE IF verdict = "no" THEN Rejected ELSE Unknown

\* BranchCoverageChecker
CheckCoverage(q) == IF IsTautology(q) THEN Accepted(<<>>) ELSE Unknown

\* The mathematical checkers, as the kernel knows them (evidence.py Checker):
\* an oracle that accepts the instances of a rule.
CheckRule(q, props) ==
    LET matching == {r \in Rule : r.conclusion = q /\ r.premises = props}
    IN  IF matching = {} THEN Unknown
        ELSE Accepted((CHOOSE r \in matching : TRUE).direct)

\* Mutant: the guards are not promoted.
CheckMerge_DropsGuards(q, props, payload) ==
    IF /\ Or(payload.conditions[1], payload.conditions[2]) \in Range(props)
       /\ \A i \in 1..2 : payload.answers[i] = q
    THEN Accepted(DomCondition[q])
    ELSE Rejected

\* BranchMergeChecker: the coverage is among the premises, every branch
\* answers the conclusion, and each open guard is promoted to C => G.
CheckMerge(q, props, payload) ==
    LET promoted(i) == [k \in DOMAIN payload.guards[i] |->
                            Implies(payload.conditions[i], payload.guards[i][k])]
    IN  IF /\ Or(payload.conditions[1], payload.conditions[2]) \in Range(props)
           /\ \A i \in 1..2 : payload.answers[i] = q
        THEN Accepted(DomCondition[q] \o promoted(1) \o promoted(2))
        ELSE Rejected

-----------------------------------------------------------------------------
(* A proposal (StepProposal): the scope it is made in, the judgments it      *)
(* rests on, its conclusion, the checker that is to accept it, and the       *)
(* payload of its command.                                                   *)

Proposal(s, premises, q, checker, payload, policy) ==
    [scope |-> s, premises |-> premises, conclusion |-> q, checker |-> checker,
     payload |-> payload, policy |-> policy]

\* The evidence of a step that has nothing to tell its checker.
NoPayload == [conditions |-> <<>>, answers |-> <<>>, guards |-> <<>>]

\* Step 3: the checker named by the evidence, on the propositions the kernel
\* itself resolved.
Check(p) ==
    LET props == [i \in DOMAIN p.premises |-> judgments[p.premises[i]].proposition]
    IN  CASE p.checker = "claim"    -> CheckClaim(p.conclusion)
          [] p.checker = "decide"   -> CheckDecide(p.scope, p.conclusion)
          [] p.checker = "coverage" -> CheckCoverage(p.conclusion)
          [] p.checker = "merge"    -> CheckMerge(p.conclusion, props, p.payload)
          [] p.checker = "rule"     -> CheckRule(p.conclusion, props)

\* Step 1: no local symbol of another scope in the conclusion.
WellScoped(p) == Escapes(p.scope, FreeVars[p.conclusion]) = {}

\* Mutant: the visibility check is dropped.
PremisesVisible_Unchecked(p) == TRUE

\* Step 2: every premise is visible where the proposal is made.
PremisesVisible(p) ==
    \A i \in DOMAIN p.premises : IsVisible(judgments[p.premises[i]].scope, p.scope)

\* Steps 5-9: the direct conditions are decided in order; the first that is
\* refuted, or that is open under a policy that will not carry it, ends the
\* commit.
Verdict(p, t) == Decide(Assumptions(p.scope), t)

Stopping(p, direct) ==
    {i \in DOMAIN direct :
        \/ Verdict(p, direct[i]) = "no"
        \/ Verdict(p, direct[i]) = "unknown" /\ p.policy # "allow_conditional"}

FirstStopping(p, direct) ==
    LET stopping == Stopping(p, direct)
    IN  CHOOSE i \in stopping : \A k \in stopping : i <= k

ConditionOutcome(p, direct) ==
    IF Stopping(p, direct) # {}
    THEN IF Verdict(p, direct[FirstStopping(p, direct)]) = "no" THEN "refused"
         ELSE IF p.policy = "require_proved" THEN "undecided" ELSE "needs_split"
    ELSE IF \E r \in Inherited(p.premises) : IsRefuted(r, p.scope) THEN "refused"
    ELSE "committed"

\* What commit answers.
Outcome(p) ==
    IF ~WellScoped(p) \/ ~PremisesVisible(p) THEN "refused"
    ELSE IF Check(p).status # "accepted" THEN Check(p).status
    ELSE ConditionOutcome(p, Check(p).direct)

\* The condition NeedsSplit hands back.
ToSplit(p) == Check(p).direct[FirstStopping(p, Check(p).direct)]

-----------------------------------------------------------------------------
(* The write. *)

\* Mutant: ids are issued from the count of judgments.
IdOf_OtherCounter(direct, t) ==
    Len(judgments) +
        CHOOSE i \in DOMAIN direct :
            direct[i] = t /\ \A k \in DOMAIN direct : direct[k] = t => k <= i

\* The requirement a direct condition is known by: when the checker repeats a
\* condition, the last of the requirements issued for it.
IdOf(direct, t) ==
    Len(requirements) +
        CHOOSE i \in DOMAIN direct :
            direct[i] = t /\ \A k \in DOMAIN direct : direct[k] = t => k <= i

\* Mutant: the conditions of the premises are forgotten.
Carried_DirectOnly(p, direct) == {IdOf(direct, t) : t \in Range(direct)}

\* What the conclusion depends on: its own conditions and its premises'.
Carried(p, direct) ==
    Inherited(p.premises) \cup {IdOf(direct, t) : t \in Range(direct)}

\* Mutant: only a step that requires proof registers what it proved.
SettledAt_WhenRequired(p, direct) ==
    IF Defers \/ p.policy # "require_proved" THEN {}
    ELSE {i \in DOMAIN direct : /\ Verdict(p, direct[i]) = "yes"
                                /\ Escapes(p.scope, FreeVars[direct[i]]) = {}}

\* Mutant: a condition that is not refuted is taken for proved.
SettledAt_NotRefuted(p, direct) ==
    IF Defers THEN {}
    ELSE {i \in DOMAIN direct : /\ Verdict(p, direct[i]) # "no"
                                /\ Escapes(p.scope, FreeVars[direct[i]]) = {}}

\* Mutant: a proved condition is recorded without going through commit again.
SettledAt_Escaping(p, direct) ==
    IF Defers THEN {} ELSE {i \in DOMAIN direct : Verdict(p, direct[i]) = "yes"}

\* The proved conditions that land as judgments of their own (_commit_decided
\* goes through commit again, which refuses an escaping symbol). An
\* interactive ledger registers none.
SettledAt(p, direct) ==
    IF Defers THEN {}
    ELSE {i \in DOMAIN direct : /\ Verdict(p, direct[i]) = "yes"
                                /\ Escapes(p.scope, FreeVars[direct[i]]) = {}}

\* The one enumeration of a set of positions from first to last.
InOrder(places) ==
    {f \in [1..Cardinality(places) -> places] :
        \A i, j \in DOMAIN f : i < j => f[i] < f[j]}

\* Mutant: a requirement is contradicted by its own proposition.
RefutedBy_Same(issued, q) == {r \in DOMAIN issued : issued[r].proposition = q}

\* The requirements a proposition contradicts (requirements_refuted_by).
RefutedBy(issued, q) == {r \in DOMAIN issued : Negates(issued[r].proposition, q)}

\* _record_refutations: judgment j, concluding q in scope s, contradicts the
\* requirements it negates that are not discharged there by then.
Refutes(issued, recorded, s, q, j) ==
    {[requirement |-> r, by |-> j] :
        r \in {r \in RefutedBy(issued, q) : ~DischargedBy(recorded, r, s)}}

Issued(p, direct) ==
    requirements \o
        [i \in DOMAIN direct |->
            [scope |-> p.scope, proposition |-> direct[i],
             introducedBy |-> Len(steps) + 1]]

\* The write of an accepted proposal: the conclusion, then one judgment and one
\* discharge for each proved condition; refutations are looked for as each
\* judgment of a condition lands, and at the very end for the conclusion.
Write(p, direct, settled) ==
    LET main     == Len(judgments) + 1
        issued   == Issued(p, direct)
        settles(k) == [requirement |-> IdOf(direct, direct[settled[k]]),
                       by |-> main + k, scope |-> p.scope]
        recorded(n) == discharges \cup {settles(k) : k \in 1..n}
    IN
    /\ main + Len(settled) <= MaxJudgments
    /\ requirements' = issued
    /\ judgments' = Append(judgments,
                        [scope |-> p.scope, proposition |-> p.conclusion,
                         requirements |-> Carried(p, direct)])
                    \o [k \in DOMAIN settled |->
                        [scope |-> p.scope, proposition |-> direct[settled[k]],
                         requirements |-> {}]]
    /\ steps' = Append(steps, [scope |-> p.scope, premises |-> p.premises,
                               checker |-> p.checker])
                \o [k \in DOMAIN settled |->
                        [scope |-> p.scope, premises |-> <<>>, checker |-> "decide"]]
    /\ discharges' = recorded(Len(settled))
    /\ refutations' = refutations
            \cup (UNION {Refutes(issued, recorded(k - 1), p.scope,
                                 direct[settled[k]], main + k) : k \in DOMAIN settled})
            \cup Refutes(issued, recorded(Len(settled)), p.scope, p.conclusion, main)

\* _commit_checked on a proposal it accepts; any other outcome writes nothing.
Commit(p) ==
    /\ Len(judgments) < MaxJudgments
    /\ Outcome(p) = "committed"
    /\ \E settled \in InOrder(SettledAt(p, Check(p).direct)) :
          Write(p, Check(p).direct, settled)

-----------------------------------------------------------------------------
(* The kernel on its own: any caller may propose what the checkers named     *)
(* here accept, and grow or fork any context. BranchMergeChecker is left to  *)
(* the workflow: the kernel takes the branch answers in its payload on trust.*)

\* An application of a mathematical rule to judgments of the caller's choice.
Infer(s, r, premises, policy) ==
    /\ Commit(Proposal(s, premises, r.conclusion, "rule", NoPayload, policy))
    /\ UNCHANGED scopeVars

\* A conclusion no premise supports.
Submit(s, q, checker, policy) ==
    /\ Commit(Proposal(s, <<>>, q, checker, NoPayload, policy))
    /\ UNCHANGED scopeVars

\* A fork or a new version that assumes q.
Fork(s, q) == Create(s, Entries({}, NoDefinition, {q})) /\ UNCHANGED ledgerVars

Assume(s, q) == Extend(s, Entries({}, NoDefinition, {q})) /\ UNCHANGED ledgerVars

\* A fork with a local symbol.
ForkWithLocal(s, x) == Create(s, Entries({x}, NoDefinition, {})) /\ UNCHANGED ledgerVars

KernelInit == ScopeInit /\ LedgerInit

KernelNext ==
    \E s \in ScopeId :
        \/ \E policy \in Policy, r \in Rule :
              \E premises \in [DOMAIN r.premises -> JudgmentId] : Infer(s, r, premises, policy)
        \/ \E policy \in Policy, q \in Claimable : Submit(s, q, "claim", policy)
        \/ \E policy \in Policy, q \in Prop, checker \in {"decide", "coverage"} :
              Submit(s, q, checker, policy)
        \/ \E q \in Assumable : Fork(s, q) \/ Assume(s, q)
        \/ \E x \in Sym : ForkWithLocal(s, x)

KernelSpec == KernelInit /\ [][KernelNext]_kernelVars

-----------------------------------------------------------------------------

LedgerTypeOK ==
    /\ \A r \in RequirementId :
          /\ requirements[r].scope \in ScopeId
          /\ requirements[r].proposition \in Prop
          /\ requirements[r].introducedBy \in JudgmentId
    /\ \A j \in JudgmentId :
          /\ judgments[j].scope \in ScopeId
          /\ judgments[j].proposition \in Prop
          /\ judgments[j].requirements \subseteq RequirementId
    /\ Len(steps) = Len(judgments)
    /\ \A j \in JudgmentId :
          /\ steps[j].scope = judgments[j].scope
          /\ \A i \in DOMAIN steps[j].premises : steps[j].premises[i] \in 1..(j - 1)
    /\ \A d \in discharges :
          d.requirement \in RequirementId /\ d.by \in JudgmentId /\ d.scope \in ScopeId
    /\ \A f \in refutations : f.requirement \in RequirementId /\ f.by \in JudgmentId

\* What the user asserted in sight of scope s up to judgment j.
Claimed(s, j) ==
    {judgments[c].proposition :
        c \in {c \in 1..j : steps[c].checker = "claim" /\ IsVisible(judgments[c].scope, s)}}

Conditions(j) == {requirements[r].proposition : r \in judgments[j].requirements}

\* What holds in scope s by its context and the claims in its sight.
Granted(s, j) == Assumptions(s) \cup Claimed(s, j)

\* Every judgment means what model.py says, Gamma |- P [Delta]: it holds
\* wherever its context, its open conditions and the claims its author had
\* made by then hold. Premises of other scopes, forgotten conditions and
\* forks that share a context would each break it.
Soundness ==
    \A j \in JudgmentId :
        Entails(Granted(judgments[j].scope, j) \cup Conditions(j), judgments[j].proposition)

\* A conclusion reported directly applicable in a scope that sees it is true
\* there outright: every condition it carries was settled in sight.
ApplicableHolds ==
    \A s \in ScopeId, j \in JudgmentId :
        /\ IsVisible(judgments[j].scope, s)
        /\ Applicability(j, s) = "applicable"
        => Entails(Granted(s, Len(judgments)), judgments[j].proposition)

\* A condition the procedure proves where it arises does not keep its
\* conclusion conditional there: whoever asks sees it settled. (mode.py lets
\* INTERACTIVE mode postpone the discharge to the first query at the latest.)
DecidedIsSettled ==
    \A j \in JudgmentId :
        LET s == judgments[j].scope IN
        (\A r \in judgments[j].requirements :
            /\ requirements[r].introducedBy = j
            /\ Decide(Assumptions(s), requirements[r].proposition) = "yes"
            /\ Escapes(s, FreeVars[requirements[r].proposition]) = {})
        => Applicability(j, s) # "conditional"

\* A requirement is marked refuted only by a conclusion that contradicts it:
\* where the refuting conclusion's context and conditions hold, the
\* requirement does not.
RefutationContradicts ==
    \A f \in refutations : \A w \in World :
        TrueIn(w, Granted(judgments[f.by].scope, f.by) \cup Conditions(f.by))
        => w \notin Truth[requirements[f.requirement].proposition]

\* Entering a child context never loses ground: what is inapplicable in a
\* scope is so in every scope inside it, and what is applicable there can only
\* become inapplicable.
ApplicabilityInherited ==
    \A s \in ScopeId : \A a \in scopes[s].chain : \A j \in JudgmentId :
        /\ Applicability(j, a) = "inapplicable" => Applicability(j, s) = "inapplicable"
        /\ Applicability(j, a) = "applicable" => Applicability(j, s) # "conditional"

\* A local symbol stays inside the contexts that know it: nothing a commit
\* writes, neither the conclusion nor a condition it registers as proved on the
\* way, speaks of a symbol of another context.
LocalsStayHome ==
    [][\A j \in JudgmentId' \ JudgmentId :
          Escapes(judgments'[j].scope, FreeVars[judgments'[j].proposition]) = {}
      ]_kernelVars

\* Answers about a scope only ever get worse: no later commit, fork or entry
\* makes a refuted conclusion usable again or reopens a settled condition.
ApplicabilityMonotone ==
    [][\A s \in ScopeId, j \in JudgmentId :
          /\ Applicability(j, s) = "inapplicable" => Applicability(j, s)' = "inapplicable"
          /\ Applicability(j, s) = "applicable" => Applicability(j, s)' # "conditional"
      ]_kernelVars
===============================================================================
