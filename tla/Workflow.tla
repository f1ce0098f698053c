------------------------------- MODULE Workflow -------------------------------
(***************************************************************************)
(* cas/workflow/workflow.py: the submission boundary. It composes the      *)
(* kernel (KernelLedger) with the undo/redo layer (Timeline) and keeps the *)
(* presentation records.                                                   *)
(*                                                                         *)
(* wsteps       _steps: one record per submission, by position. A record   *)
(*              creates exactly one artifact, named by the same position;  *)
(*              event is _event_of_step.                                   *)
(* tasks        the tasks opened for request-shaped commands, each with    *)
(*              the one candidate proposed for it                          *)
(* branches     branch groups: parent lineage, two cases, coverage         *)
(* constraints  relations registered by add_constraint                     *)
(*                                                                         *)
(* Scope versions play the part of Timeline's pointers; version 1 is Root. *)
(***************************************************************************)
EXTENDS KernelLedger, Timeline

CONSTANTS
    Splittable,     \* the conditions a case split may be made on
    Body,           \* right-hand sides of definitions, as sets of symbols
    Relation,       \* relations add_constraint may register
    Misapplied,     \* whether rules are also tried on steps they do not fit
    WorkflowPolicy, \* Workflow.policy
    MaxUndone,      \* bound: operations undone at a time
    MaxSteps        \* bound: submissions ever recorded

ASSUME WorkflowAssumption ==
    /\ Pointer = 1..MaxScopes /\ Root = 1
    /\ \A c \in Splittable : {c, Not(c), Or(c, Not(c))} \subseteq Prop
    /\ Body \subseteq SUBSET Sym
    /\ Misapplied \in BOOLEAN
    /\ WorkflowPolicy \in Policy
    /\ MaxUndone \in Nat
    /\ MaxSteps \in Nat

VARIABLES wsteps, tasks, branches, constraints

recordVars == <<wsteps, tasks, branches, constraints>>
workflowVars == <<kernelVars, timelineVars, recordVars>>

WorkflowInit ==
    /\ KernelInit
    /\ TimelineInit
    /\ wsteps = <<>>
    /\ tasks = <<>>
    /\ branches = <<>>
    /\ constraints = <<>>

StepId == 1..Len(wsteps)

Reference(kind, id) == [kind |-> kind, id |-> id]

\* The vocabulary of the history: the operations there are, and references to
\* all that these may ever output.
ASSUME VocabularyAssumption ==
    /\ {"Step", "Claim", "Split", "Enter", "MergeBranches", "Declare", "Define",
        "AddConstraint"} \subseteq Command
    /\ \A kind \in {"artifact", "task", "judgment", "branch", "scope", "constraint"},
         id \in 1..(MaxEvents + MaxScopes + MaxJudgments) : Reference(kind, id) \in Ref

\* A command opens no task when it carries no request head.
NoRequest == <<>>

\* _open_task: the request names the first predecessor's content, whatever
\* became of that step, or the content itself.
Request(head, content, preds) ==
    IF head = "" THEN NoRequest
    ELSE <<head, IF preds = <<>> THEN content ELSE wsteps[preds[1]].content>>

-----------------------------------------------------------------------------
(* Recording: _record and _append_event.                                    *)

\* Mutant: the judgment is not among the outputs of the operation.
Outputs_NoJudgment(request, judgment) ==
    {Reference("artifact", Len(wsteps) + 1)}
        \cup (IF request = NoRequest THEN {} ELSE {Reference("task", Len(tasks) + 1)})

Outputs(request, judgment) ==
    {Reference("artifact", Len(wsteps) + 1)}
        \cup (IF request = NoRequest THEN {} ELSE {Reference("task", Len(tasks) + 1)})
        \cup (IF judgment = 0 THEN {} ELSE {Reference("judgment", judgment)})

\* The record of a submission made in version s that leaves the pointer at t;
\* judgment 0 stands for none. A task is opened in s with its candidate.
Record(name, content, status, judgment, guards, request, s, t) ==
    /\ Len(wsteps) < MaxSteps
    /\ tasks' = IF request = NoRequest THEN tasks
                ELSE Append(tasks, [scope |-> s, request |-> request,
                                    artifact |-> Len(wsteps) + 1, validation |-> judgment])
    /\ wsteps' = Append(wsteps, [content |-> content, status |-> status,
                                 judgment |-> judgment, guards |-> guards,
                                 task |-> IF request = NoRequest THEN 0 ELSE Len(tasks) + 1,
                                 scope |-> s, event |-> Len(events) + 1])
    /\ Operate(name, Outputs(request, judgment), t)

\* What a submission leaves behind, given the kernel's answer to proposal p.
\* Conditions are recorded as they stand on the conclusion, settled or not; a
\* request for a case split records the condition to split on.
Submission(name, p, answer, request, s, t) ==
    IF answer = "committed"
    THEN /\ Commit(p)
         /\ LET j == Len(judgments) + 1
            IN  Record(name, p.conclusion, answer, j,
                       {requirements'[r].proposition : r \in judgments'[j].requirements},
                       request, s, t)
    ELSE /\ UNCHANGED ledgerVars
         /\ Record(name, p.conclusion, answer, 0,
                   IF answer = "needs_split" THEN {ToSplit(p)} ELSE {}, request, s, t)

-----------------------------------------------------------------------------
(* Operations.                                                              *)

\* _grow_scope: entries land on top of s; when undo left the pointer on a
\* version that is no longer its lineage's head, they start a lineage there.
Grow(s, entries) ==
    IF HeadOf(s) = s THEN Extend(s, entries) ELSE Create(s, entries)

\* add, for a command that rests on earlier steps. A predecessor need not be in
\* view, and one without a conclusion ends the submission before the kernel is
\* asked.
Apply(r, preds) ==
    LET dependable == \A i \in DOMAIN preds : wsteps[preds[i]].judgment # 0
        p == Proposal(scope, [i \in DOMAIN preds |-> wsteps[preds[i]].judgment],
                      r.conclusion, "rule", NoPayload, WorkflowPolicy)
    IN  /\ Submission("Step", p, IF dependable THEN Outcome(p) ELSE "undecided",
                      Request(r.request, r.conclusion, preds), scope, scope)
        /\ UNCHANGED <<scopeVars, branches, constraints>>

\* Mutant: the assumption is registered whatever the kernel answers.
Claim_BeforeCommit(q) ==
    LET p == Proposal(scope, <<>>, q, "claim", NoPayload, WorkflowPolicy)
    IN  /\ Submission("Claim", p, Outcome(p), NoRequest, scope, Len(scopes) + 1)
        /\ Grow(scope, Entries({}, NoDefinition, {q}))
        /\ UNCHANGED <<branches, constraints>>

\* add, for a claim: a committed claim becomes an assumption of a new version;
\* its own record keeps the version it was submitted in.
Claim(q) ==
    LET p == Proposal(scope, <<>>, q, "claim", NoPayload, WorkflowPolicy)
        committed == Outcome(p) = "committed"
    IN  /\ Submission("Claim", p, Outcome(p), NoRequest, scope,
                      IF committed THEN Len(scopes) + 1 ELSE scope)
        /\ IF committed THEN Grow(scope, Entries({}, NoDefinition, {q}))
           ELSE UNCHANGED scopeVars
        /\ UNCHANGED <<branches, constraints>>

\* split_on: two sibling contexts and their coverage, which lands in the kernel
\* as a conclusion of its own without a step record.
SplitOn(c) ==
    LET p == Proposal(scope, <<>>, Or(c, Not(c)), "coverage", NoPayload, "require_proved")
        covered == Outcome(p) = "committed"
        case(k, condition) == [condition |-> condition, scope |-> Len(scopes) + k]
    IN  /\ IF covered THEN Commit(p) ELSE UNCHANGED ledgerVars
        /\ Children(scope, <<Entries({}, NoDefinition, {c}),
                             Entries({}, NoDefinition, {Not(c)})>>)
        /\ branches' = Append(branches,
                [parentLineage |-> scopes[scope].lineage,
                 cases |-> <<case(1, c), case(2, Not(c))>>,
                 coverage |-> IF covered THEN Len(judgments) + 1 ELSE 0])
        /\ Operate("Split", {Reference("branch", Len(branches) + 1)}, scope)
        /\ UNCHANGED <<wsteps, tasks, constraints>>

\* Mutant: entering is not recorded as an operation.
Enter_Unrecorded(s) ==
    /\ scope' = HeadOf(s)
    /\ UNCHANGED <<kernelVars, logVars, scopeAt, recordVars>>

\* enter: a scope id resolves to the head of its lineage.
Enter(s) ==
    /\ Operate("Enter", {}, HeadOf(s))
    /\ UNCHANGED <<kernelVars, recordVars>>

\* The checks merge_branches makes before it proposes anything; a failed one
\* raises BranchError and leaves no trace.
Mergeable(b, q, results) ==
    LET parent == heads[b.parentLineage]
        chain  == scopes[scope].chain
        lineageOfAnswer(i) == scopes[judgments[wsteps[results[i]].judgment].scope].lineage
        request(i) == tasks[wsteps[results[i]].task].request
    IN  /\ \E v \in chain : scopes[v].lineage = b.parentLineage
        /\ \A i \in 1..2 : b.cases[i].scope \notin chain
        /\ b.coverage # 0
        /\ \A i \in 1..2 :
              /\ wsteps[results[i]].judgment # 0
              /\ lineageOfAnswer(i) = scopes[b.cases[i].scope].lineage
              /\ wsteps[results[i]].task # 0
        /\ request(1) = request(2)
        /\ Escapes(parent, FreeVars[q]) = {}
        /\ \A i \in 1..2 : \A g \in wsteps[results[i]].guards :
              Escapes(parent, FreeVars[g]) = {}

\* Bound: the conditions a merge promotes stay within the vocabulary.
Expressible(b, results) ==
    \A i \in 1..2 : \A g \in wsteps[results[i]].guards : Implies(b.cases[i].condition, g) \in Prop

\* merge_branches: the conclusion lands in the current version of the parent
\* lineage; the record belongs to the version the workflow is in.
Merge(b, q, results) ==
    LET step(i) == wsteps[results[i]]
        payload == [conditions |-> [i \in 1..2 |-> b.cases[i].condition],
                    answers |-> [i \in 1..2 |-> judgments[step(i).judgment].proposition],
                    guards |-> [i \in 1..2 |-> SetToSeq(step(i).guards)]]
        p == Proposal(heads[b.parentLineage], <<b.coverage>>, q, "merge", payload,
                      WorkflowPolicy)
    IN  /\ Mergeable(b, q, results)
        /\ Expressible(b, results)
        /\ Submission("MergeBranches", p, Outcome(p), NoRequest, scope, scope)
        /\ UNCHANGED <<scopeVars, branches, constraints>>

\* _require_fresh
Fresh(x) == x \notin Declared(scope) \cup Defined(scope)

\* declare
Declare(x) ==
    /\ Fresh(x)
    /\ Grow(scope, Entries({x}, NoDefinition, {}))
    /\ Operate("Declare", {Reference("scope", Len(scopes) + 1)}, Len(scopes) + 1)
    /\ UNCHANGED <<ledgerVars, recordVars>>

\* The symbols body mentions once the definitions seen from s are expanded.
Expansion(s, body) ==
    LET closed(T) == \A y \in T \cap Defined(s) : DefinitionOf(s, y) \subseteq T
    IN  {x \in Sym : \A T \in SUBSET Sym : body \subseteq T /\ closed(T) => x \in T}

\* Mutant: only the right-hand side as written is searched.
AliasCycle_Direct(x, body) == x \in body

\* _alias_cycle
AliasCycle(x, body) == x \in Expansion(scope, body)

\* define
Define(x, body) ==
    /\ Fresh(x)
    /\ ~AliasCycle(x, body)
    /\ Escapes(scope, body) = {}
    /\ Grow(scope, Entries({}, [y \in {x} |-> body], {}))
    /\ Operate("Define", {Reference("scope", Len(scopes) + 1)}, Len(scopes) + 1)
    /\ UNCHANGED <<ledgerVars, recordVars>>

\* add_constraint
AddConstraint(relation) ==
    /\ constraints' = Append(constraints, [scope |-> scope, relation |-> relation])
    /\ Operate("AddConstraint", {Reference("constraint", Len(constraints) + 1)}, scope)
    /\ UNCHANGED <<kernelVars, wsteps, tasks, branches>>

\* undo, redo: nothing but the view, the revision and the pointer moves.
UndoOperation ==
    /\ Len(future) < MaxUndone
    /\ Undo
    /\ UNCHANGED <<kernelVars, recordVars>>

RedoOperation ==
    /\ Redo
    /\ UNCHANGED <<kernelVars, recordVars>>

\* TaskStore.is_applicable
IsApplicable(j, s) == IsVisible(judgments[j].scope, s) /\ Applicability(j, s) = "applicable"

\* TaskCandidate.state, in the context the workflow is in.
CandidateState(t) ==
    IF tasks[t].validation = 0 THEN "unverified"
    ELSE IF IsApplicable(tasks[t].validation, scope) THEN "validated" ELSE "conditional"

WorkflowNext ==
    \/ \E r \in Rule : \E preds \in [DOMAIN r.premises -> StepId] :
          /\ Misapplied \/ \A i \in DOMAIN preds : wsteps[preds[i]].content = r.premises[i]
          /\ Apply(r, preds)
    \/ \E q \in Claimable : Claim(q)
    \/ \E c \in Splittable : SplitOn(c)
    \/ \E s \in ScopeId : Enter(s)
    \/ \E i \in DOMAIN branches : \E q \in {wsteps[k].content : k \in StepId} :
          \E results \in [1..2 -> StepId] : Merge(branches[i], q, results)
    \/ \E x \in Sym : Declare(x) \/ \E body \in Body : Define(x, body)
    \/ \E relation \in Relation : AddConstraint(relation)
    \/ UndoOperation
    \/ RedoOperation

WorkflowSpec == WorkflowInit /\ [][WorkflowNext]_workflowVars
-----------------------------------------------------------------------------

\* Every operation of the workflow moves the history, the revision and the
\* scope pointer as one step of the undo/redo layer does: it is recorded
\* exactly once, with the version it leaves current, or it is an undo or a
\* redo. What is shown of Timeline therefore holds here.
MovesTheTimeline ==
    [][\/ /\ Len(events') = Len(events) + 1
          /\ Operate(Last(events').command, Last(events').outputs, scope')
       \/ Undo
       \/ Redo]_timelineVars

\* No context assumes anything that was not asked for: an assumption is a
\* claim the kernel committed in the version above, or the condition of a
\* branch. A refused or undecided claim never reaches later decisions.
AssumptionsAccounted ==
    \A s \in ScopeId : \A a \in scopes[s].entries.assumed :
        \/ \E k \in StepId :
              /\ wsteps[k].judgment # 0
              /\ steps[wsteps[k].judgment].checker = "claim"
              /\ wsteps[k].content = a
              /\ wsteps[k].scope = scopes[s].parent
        \/ \E b \in DOMAIN branches, i \in 1..2 :
              branches[b].cases[i] = [condition |-> a, scope |-> s]

\* Expanding aliases terminates in every context, however declarations,
\* definitions, undo and entering other contexts were mixed: no symbol is
\* reached from its own definition, and none is introduced twice in sight.
AliasesAcyclic ==
    \A s \in ScopeId :
        /\ \A x \in Defined(s) : x \notin Expansion(s, DefinitionOf(s, x))
        /\ \A u, v \in scopes[s].chain :
              u # v => {} = (scopes[u].entries.declared \cup DOMAIN scopes[u].entries.defined)
                            \cap (scopes[v].entries.declared \cup DOMAIN scopes[v].entries.defined)

\* The three graphs agree on where a conclusion came from: a judgment a step
\* records was output by that step's operation and by no other, and a
\* judgment no step records (coverage, settled conditions) by none.
ProvenanceAgrees ==
    \A j \in JudgmentId :
        LET by == {wsteps[k].event : k \in {k \in StepId : wsteps[k].judgment = j}}
            ref == Reference("judgment", j)
        IN  by = IF ref \in DOMAIN producers THEN Range(producers[ref]) ELSE {}

\* Everything asserted so far, in whatever context, undone or not.
ClaimedAnywhere(j) ==
    {judgments[c].proposition : c \in {c \in 1..j : steps[c].checker = "claim"}}

\* Reasoning by cases loses nothing: every conclusion, a merged one included,
\* holds wherever its context, its conditions and the claims made by then
\* hold. The branch conditions must cover the parent, each branch must answer
\* the merged proposition, and every open guard must be promoted.
SoundUpToClaims ==
    \A j \in JudgmentId :
        Entails(Assumptions(judgments[j].scope) \cup ClaimedAnywhere(j) \cup Conditions(j),
                judgments[j].proposition)

\* A candidate shown as validated holds in the context the user is in: an
\* answer found in a branch is not one outside it.
ValidatedHolds ==
    \A t \in DOMAIN tasks :
        CandidateState(t) = "validated"
        => Entails(Assumptions(scope) \cup ClaimedAnywhere(Len(judgments)),
                   wsteps[tasks[t].artifact].content)
===============================================================================
