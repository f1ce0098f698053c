------------------------------- MODULE Session -------------------------------
(***************************************************************************)
(* cas/frontend/session.py and the command handlers of                     *)
(* cas/frontend/repl.py: one conversation on top of a workflow.            *)
(*                                                                         *)
(* focus    the step a command works on when it names none; 0 for none     *)
(* group    the branch group enter and merge refer to; 0 for none          *)
(* todo     what is left of the command being executed: a command may      *)
(*          perform several operations, and the next is not read before    *)
(*                                                                         *)
(* and, besides the state of the program,                                  *)
(* basis    for every step, what it was derived from, the premises its     *)
(*          command records (command.premises: none for a merge), and      *)
(*          whether the user named a step out of view for it               *)
(* chosen   whether the focus was last set by the focus command            *)
(*                                                                         *)
(* What a command computes from the step it works on is abstracted to the  *)
(* conclusion of a rule that fits the content of that step.                *)
(***************************************************************************)
EXTENDS Workflow

CONSTANTS
    Equations,      \* the propositions that are equations
    Points,         \* the solutions one solve of a conditional equation may
                    \* have: sequences of rules that answer it
    MaxEnters,      \* bound: enter commands ever given
    UndoBefore      \* bound: commands are undone until so many were recorded

ASSUME SessionAssumption ==
    /\ Equations \subseteq Prop
    /\ MaxEnters \in Nat /\ UndoBefore \in Nat
    /\ Points \subseteq Seq(Rule)
    /\ \A points \in Points : \A i \in DOMAIN points : Len(points[i].premises) = 1

VARIABLES focus, group, todo, basis, chosen

frontendVars == <<focus, group, todo, basis, chosen>>
sessionVars == <<workflowVars, frontendVars>>

\* Steps whose operation is in a view (visible_steps).
StepsIn(v) == {k \in StepId : wsteps[k].event \in Range(v)}
InView == StepsIn(view)

SessionInit ==
    /\ WorkflowInit
    /\ focus = 0
    /\ group = 0
    /\ todo = <<>>
    /\ basis = <<>>
    /\ chosen = FALSE

Idle == todo = <<>>

\* _step: the step named, in view or not, or else the focus.
WorksOn(ref) == IF ref = 0 THEN focus ELSE ref

\* Whether the step to work on was picked by the user, now or by focus.
Named(ref) == ref # 0 \/ chosen

\* _land: what was just recorded becomes the focus, whatever its status.
Land(preds, premises, named) ==
    /\ focus' = Len(wsteps) + 1
    /\ chosen' = FALSE
    /\ basis' = Append(basis, [on |-> preds, premises |-> premises,
                               stale |-> named /\ ~(Range(preds) \subseteq InView)])

Fits(r, preds) ==
    /\ Len(r.premises) = Len(preds)
    /\ \A i \in DOMAIN preds : wsteps[preds[i]].content = r.premises[i]

\* The rest of a command: room for it under the bounds of the model.
Room(operations, submissions) ==
    /\ Len(events) + operations <= MaxEvents
    /\ Len(wsteps) + submissions <= MaxSteps
    /\ Len(judgments) + 3 * submissions <= MaxJudgments

-----------------------------------------------------------------------------
(* Commands of one operation.                                               *)

\* cmd_claim
CmdClaim(q) ==
    /\ Idle
    /\ Claim(q)
    /\ Land(<<>>, <<>>, FALSE)
    /\ UNCHANGED <<group, todo>>

\* cmd_both, cmd_norm, cmd_solve, cmd_subst, cmd_diff, cmd_integrate, cmd_int,
\* cmd_apply
CmdCompute(r, ref) ==
    /\ Idle
    /\ WorksOn(ref) # 0
    /\ Fits(r, <<WorksOn(ref)>>)
    /\ Apply(r, <<WorksOn(ref)>>)
    /\ Land(<<WorksOn(ref)>>, <<WorksOn(ref)>>, Named(ref))
    /\ UNCHANGED <<group, todo>>

\* cmd_use, cmd_trans
CmdCombine(r, first, second) ==
    /\ Idle
    /\ Fits(r, <<first, second>>)
    /\ Apply(r, <<first, second>>)
    /\ Land(<<first, second>>, <<first, second>>, TRUE)
    /\ UNCHANGED <<group, todo>>

\* cmd_split
CmdSplit(c) ==
    /\ Idle
    /\ SplitOn(c)
    /\ group' = Len(branches) + 1
    /\ UNCHANGED <<focus, todo, basis, chosen>>

\* Mutant: the context is switched behind the workflow's back.
CmdEnter_Direct(s) ==
    /\ Idle
    /\ group # 0
    /\ scope' = HeadOf(s)
    /\ UNCHANGED <<kernelVars, logVars, scopeAt, recordVars, frontendVars>>

\* cmd_enter: a case of the group, or any scope by its id.
CmdEnter(s) ==
    /\ Idle
    /\ group # 0
    /\ Cardinality({e \in DOMAIN events : events[e].command = "Enter"}) < MaxEnters
    /\ Enter(s)
    /\ UNCHANGED frontendVars

\* cmd_define, cmd_declare
CmdIntroduce(x) ==
    /\ Idle
    /\ Declare(x) \/ \E body \in Body : Define(x, body)
    /\ UNCHANGED frontendVars

\* cmd_focus: any step ever recorded.
CmdFocus(k) ==
    /\ Idle
    /\ focus' = k
    /\ chosen' = TRUE
    /\ UNCHANGED <<workflowVars, group, todo, basis>>

LastOf(steps_) == IF steps_ = {} THEN 0 ELSE Max(steps_)

\* Mutants: the focus stays where it is; the first step may be undone.
CmdUndo_KeepsFocus ==
    /\ Idle
    /\ Cardinality(InView) > 1
    /\ Len(events) < UndoBefore
    /\ UndoOperation
    /\ UNCHANGED frontendVars

CmdUndo_First ==
    /\ Idle
    /\ Cardinality(InView) > 0
    /\ Len(events) < UndoBefore
    /\ UndoOperation
    /\ focus' = LastOf(StepsIn(view'))
    /\ chosen' = FALSE
    /\ UNCHANGED <<group, todo, basis>>

\* cmd_undo: one operation back, unless that might leave no step in view.
CmdUndo ==
    /\ Idle
    /\ Cardinality(InView) > 1
    /\ Len(events) < UndoBefore
    /\ UndoOperation
    /\ focus' = LastOf(StepsIn(view'))
    /\ chosen' = FALSE
    /\ UNCHANGED <<group, todo, basis>>

\* cmd_redo
CmdRedo ==
    /\ Idle
    /\ future # <<>>
    /\ RedoOperation
    /\ focus' = LastOf(StepsIn(view'))
    /\ chosen' = FALSE
    /\ UNCHANGED <<group, todo, basis>>

-----------------------------------------------------------------------------
(* Commands of several operations.                                          *)

\* cmd_solve of a conditional equation, _solve_piecewise: one step for each
\* point, all resting on the equation.
CmdSolve(points, ref) ==
    /\ Idle
    /\ WorksOn(ref) # 0
    /\ Room(Len(points), Len(points))
    /\ \A i \in DOMAIN points : Fits(points[i], <<WorksOn(ref)>>)
    /\ todo' = [i \in DOMAIN points |->
                    [kind |-> "point", rule |-> points[i], on |-> <<WorksOn(ref)>>,
                     named |-> Named(ref)]]
    /\ UNCHANGED <<workflowVars, focus, group, basis, chosen>>

SubmitPoint ==
    /\ ~Idle
    /\ Head(todo).kind = "point"
    /\ Apply(Head(todo).rule, Head(todo).on)
    /\ Land(Head(todo).on, Head(todo).on, Head(todo).named)
    /\ todo' = Tail(todo)
    /\ UNCHANGED group

\* cmd_merge: the parent of the group is entered first.
CmdMerge(results) ==
    /\ Idle
    /\ group # 0
    /\ Room(2, 1)
    /\ Enter(branches[group].parentLineage)
    /\ todo' = <<[kind |-> "merge", on |-> results, from |-> scope]>>
    /\ UNCHANGED <<focus, group, basis, chosen>>

\* merge_branches answers or raises; if it raises, the parent stays entered.
\* The command of a merge names no premises: its answers are in its payload.
FinishMerge ==
    /\ ~Idle
    /\ Head(todo).kind = "merge"
    /\ LET results == Head(todo).on
           q == wsteps[results[1]].content
       IN  IF Mergeable(branches[group], q, results)
           THEN Merge(branches[group], q, results) /\ Land(results, <<>>, TRUE)
           ELSE UNCHANGED <<workflowVars, focus, basis, chosen>>
    /\ todo' = <<>>
    /\ UNCHANGED group

SessionNext ==
    \/ \E q \in Claimable : CmdClaim(q)
    \/ \E r \in Rule, ref \in StepId \cup {0} : CmdCompute(r, ref)
    \/ \E r \in Rule, first, second \in StepId : CmdCombine(r, first, second)
    \/ \E c \in Splittable : CmdSplit(c)
    \/ \E s \in ScopeId : CmdEnter(s)
    \/ \E x \in Sym : CmdIntroduce(x)
    \/ \E k \in StepId : CmdFocus(k)
    \/ CmdUndo
    \/ CmdRedo
    \/ \E points \in Points, ref \in StepId \cup {0} : CmdSolve(points, ref)
    \/ SubmitPoint
    \/ \E first, second \in StepId : CmdMerge(<<first, second>>)
    \/ FinishMerge

SessionSpec == SessionInit /\ [][SessionNext]_sessionVars
-----------------------------------------------------------------------------

\* Once a step has been recorded there is always one in view and one in focus,
\* and unless the user picked it by number the focus is in view, through any
\* mix of operations that record a step and operations that do not, of undo
\* and of redo.
FocusFollowsTheView ==
    /\ Len(basis) = Len(wsteps)
    /\ wsteps # <<>> => InView # {} /\ focus \in StepId
    /\ focus # 0 /\ ~chosen => focus \in InView

\* The steps reached from step k, itself included, when `from` says which steps
\* each rests on.
Reach(k, from) ==
    LET closed(T) == \A j \in T : from[j] \subseteq T
    IN  {j \in StepId : \A T \in SUBSET StepId : k \in T /\ closed(T) => j \in T}

\* The steps a step was derived from, itself and the answers of a merge
\* included.
DerivationOf(k) == Reach(k, [j \in StepId |-> Range(basis[j].on)])

FirstPremise ==
    [j \in StepId |-> IF basis[j].premises = <<>> THEN {} ELSE {basis[j].premises[1]}]

\* _problem_of: the equation check takes a step to answer, the one nearest the
\* start of its derivation along first premises, which ends at a merge; 0 if
\* there is none. A step rests on older ones only, so the start is where the
\* numbers are smallest.
ProblemOf(k) ==
    LET equations == {j \in Reach(k, FirstPremise) : wsteps[j].content \in Equations}
    IN  IF equations = {} THEN 0 ELSE Min(equations)

\* An undo leaves no stale target behind: unless the user named a step that
\* was out of view, whatever a step in view was derived from is in view as
\* well, and so is the equation it is checked against.
DerivationsStayInView ==
    \A k \in InView :
        (\A j \in DerivationOf(k) : ~basis[j].stale)
        => /\ DerivationOf(k) \subseteq InView
           /\ ProblemOf(k) \in InView \cup {0}

\* A merge that is refused leaves the entry of the parent behind, and only
\* that: one undo takes the user back to the context the merge was asked for
\* in. One that is not refused needs two.
MergeLeavesItsEntry ==
    [][~Idle /\ Head(todo).kind = "merge" =>
          LET undone == IF wsteps' = wsteps THEN 1 ELSE 2
          IN  /\ scopeAt'[revision' - undone] = Head(todo).from
              /\ scope' = HeadOf(branches[group].parentLineage)]_sessionVars

\* A conversation implements the workflow: whatever a command does to it, in
\* however many operations, the workflow itself allows at that moment, the
\* point of a solve and the end of a merge included, which were decided on
\* when the command was given.
OperatesTheWorkflow == WorkflowSpec
==============================================================================
