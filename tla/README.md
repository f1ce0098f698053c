# A verification development of pyCAS

pyCAS is a computer algebra system whose algorithms are not trusted: every result
is proposed to a small kernel, which records a *conditional judgment*
`Gamma |- P [Delta]` (context, conclusion, open conditions) or refuses to. This
directory models that kernel, the contexts it works in, the workflow and the session
that drive it, the checkers that judge a proposal and the decision and algebra
procedures they rest on, in TLA+. TLC checks the models on small instances; TLAPS
proves the listed theorems for all of them.

The program is sequential and keeps everything in memory: there are no threads,
messages, crashes or timers. What makes it hard is twofold. One is *protocol*: an
append-only ledger, immutable versions of contexts and an undo that moves a pointer
back while nothing it leaves behind is deleted. Ids of undone or invisible things
stay in the user's hands, and any legal call may follow any other. The other is
*conditions*: mathematics that holds except where something vanishes, is undefined
or sits on a boundary, computed in several representations that must agree.

## The parts of the system

| part | state | operations | model |
|---|---|---|---|
| scope store (`kernel/scope.py`) | tree of immutable versions, head of each lineage, index of introducers | `create`, `child`, `extend`; visibility, assumptions, definitions, escapes | `ScopeStore` |
| kernel ledger (`kernel/store.py`, `commit.py`, `model.py`, `mode.py`) | requirements, judgments, steps, discharges, refutations | `commit`; applicability, refutation and discharge queries | `KernelLedger` |
| checkers (`math/base/checkers.py`, `kernel/services.py`, `math/solving/**`, `math/calculus/**`) | none | accept, reject or do not know a proposal | `KernelLedger` (four, against contexts), `Checkers` (the mathematical ones, against terms) |
| read sets and decision cache (`kernel/context.py`, `runtime/services.py`) | 128 entries, least recently used; what each step read | `decide` | `DecisionCache` |
| operation history (`workflow/event.py`) | events, view, redo list, inverted index | `append`, `undo`, `redo` | `EventLog` |
| undo and redo (`workflow/workflow.py`) | scope pointer, `_scope_at` | every operation, `undo`, `redo` | `Timeline`, abstractly `UndoStack` |
| workflow (`workflow/*.py`) | steps, artifacts, tasks, branch groups, constraints | `add`, `split_on`, `enter`, `merge_branches`, `declare`, `define`, `add_constraint` | `Workflow` |
| REPL session (`frontend/repl.py`, `session.py`) | workflow, focus, branch group | one handler per command | `Session` |
| decisions (`math/decide.py`, `judge.py`, `base/equality.py`, `kernel/verdict.py`) | none of its own; the caller keeps the frame | `decide`, `satisfiable`, `extend_frame`, `verify_solution`, `is_zero` | `Decide`, `Decisions`, `Conditionals`, over `Terms` and `Verdicts`; to the kernel model a trusted oracle |
| conditional values (`math/piecewise.py`) | none | `piecewise`, `lift`, `fold_nested`, `select`, `coverage`, `collapse`, `domain_cells`, `connected_components` | `PiecewiseTerms`, `Conditionals`, `Partition` |
| real algebra (`math/realroot.py`, `cad.py`) | none across calls | isolation of roots, cells, signs on cells | `RootIsolation`, `Cells`, `Partition` |
| algebraic domains (`math/domains/**`, `project.py`) | none | polynomials, rational functions, normal forms | `Polynomials`, `RationalFunctions` |
| rule engine, tactics, integration, systems of constraints | none | search; propose only | not modelled |
| terms, parser, printer (`syntax/**`, `frontend/parser.py`, `pprint.py`) | interned terms | pure | `Not`, `Or`, `Implies` for the kernel (`Propositions`), trees in canonical order elsewhere (`Terms`) |
| assembly (`runtime/**`, `math/loader.py`, `builder.py`, ...) | immutable tables | once, at start | not modelled |

How they interact: a REPL command picks the step it works on (a number, or the focus)
and calls one or several operations of `Workflow`. An operation makes a proposal and
calls `commit`, which asks the scope store what is visible, the checker whether the
inference is an instance of its rule, and the decision procedure, through the cache,
whether each condition holds under the context's assumptions; it writes the ledger
in one piece or not at all. The workflow then grows the context if the command says
so, moves its scope pointer, and appends one event. Undo and redo touch nothing but
the event view and the pointer; the session then moves its focus. A checker
compares what was proposed with what it computes, by normal forms in the domain of
polynomials or rational functions, and reads the conditions off the conclusion. A
conditional value is selected by decisions, or resolved by cutting the line at
the roots of its conditions.

What would make a part wrong, and is therefore stated: a lineage that is not one
history; a judgment that does not hold in its context; a condition that gets lost,
or is settled for the wrong conclusion; a refutation of something that is not
contradicted; a query whose answer improves as the ledger grows; an undo that
returns to the wrong version or a redo that replays a discarded operation; an
assumption nobody made; an alias that expands for ever; a merge that concludes more
than its branches do; a command that derives from what is out of view; a stale or
evicted decision; an answer some world of the frame contradicts; a branch selected
around an undecided one; a root lost at a border; a solution gained by multiplying
with zero.

## Modules

**`Propositions`** Terms as a head and arguments, the three connectives the kernel
takes apart, syntactic negation and the tautology test. Meaning is semantic:
`Truth` gives the worlds a proposition is true in, and `ConnectiveAssumption` ties
the connectives to it.

**`ScopeStore`** `scopes` is the sequence of versions ever issued; a version's id is
its position (the code counts from 0, so id 0 of the code is 1 here, and 0 stands
for "no parent"). Each version keeps the entries it adds, its parent and lineage;
`chain` is what `ScopeStore.chain()` walks, kept in the record because parents never
change. `heads` is the code's `_heads`. `Children` is `create`/`child` (one or more
siblings), `Extend` is `extend` with its `ScopeError` as a guard.

**`KernelLedger`** `requirements`, `judgments`, `steps` are sequences indexed by id;
a step and its judgment share their position, since every caller proposes one
conclusion and every checker insists on that (`_one_conclusion`). `Outcome` is what
`commit` answers, its checks in the order of the code; `Write` is the atomic write,
including the nested commits of proved conditions (`_commit_decided`), the
discharges they register and the refutations looked for after each judgment lands.
`Commit` is both. The actions `Infer`, `Submit`, `Fork`, `Assume`, `ForkWithLocal`
let any caller propose anything the checkers understand.

**`EventLog`** `events`, `view`, `future`, `revision` and the inverted index
`producers` are the fields of the class.

**`Timeline`** extends `EventLog` with the workflow's `scope` pointer and `_scope_at`.
`Operate` is "the pointer has been moved, now `_append_event`"; `Undo` and `Redo` are
the two methods. Its `Stack` instance maps the state to **`UndoStack`**, which
promises a stack of done and a stack of undone operations, each with the version it
left current, and knows nothing of revisions or tables.

**`Workflow`** extends `KernelLedger` and `Timeline` and adds the records: `wsteps`
(`_steps`, with the artifact and the event of each), `tasks` with their one
candidate, `branches`, `constraints`. Every action is one public method with all it
does: `Claim` commits, grows the context, records step and event and moves the
pointer in one step, as the method does.

**`Session`** extends `Workflow` with the focus and the branch group of the REPL. A
command that performs one operation is one action; one that performs several (`merge`
enters the parent first; `solve` of a conditional equation submits once per point)
leaves the rest in `todo`, and no other command is read before it is done. `basis` and
`chosen` are history: what a step was asked of, the premises its command records (none
for a merge), and whether the user named a step out of view for it.
`OperatesTheWorkflow` is `WorkflowSpec` as a property of the session: the one module is
shown to implement the other. `Reach` follows the premises of a step to the equation its
derivation began with (`_problem_of`).

**`DecisionCache`** `ScopeServices.decide` over the scope store: `cache` is the
`OrderedDict` from the eldest use to the latest; `asked` and `commits` are the answers
given and the steps written with their read sets. The decision procedure is a
parameter (`Judge`) of assumptions and definitions.

**`Terms`** Terms as trees compared by structure, the canonical order of sums and
products, substitution, the folding of literals, and what a term is worth in a world
that gives symbols, constants and declared functions rational values.

**`Verdicts`** `and3`, `or3`, `not3` and the reason an unknown keeps. `??` is the code's
"ask the next channel when this one returns `None`".

**`Decide`** `decide` with all its channels, each an operator: lookup of the fact, its
negation and its mirror image; the polynomial zero test; interval propagation; the
order chain; the equality closure (congruence classes, their representatives and the
residual identity); the table of sign rules, which ask `Decide` again about smaller
facts; declared bounds. `Family` is the order in which they are asked.

**`Decisions`** A caller: `ExtendFrame` assumes one more fact, `Ask`, `AskSatisfiable`
and `Verify` are `decide`, `satisfiable` and `verify_solution`. The frame and the last
answer are the state; `Holds` and `World` say independently of the code what a fact
means, and the properties compare the two.

**`PiecewiseTerms`** Conditional values as terms: the smart constructor, `lift` of an
operation over them with its branch budget, `fold_nested`. **`Conditionals`** extends
`Decisions` by the questions about them: `select`, `coverage`, `collapse`, `is_zero`,
`lift`, asked in the frame that has been assumed.

**`Polynomials`** One variable over the rationals: the tuple of coefficients, division,
gcd, derivative, Yun's decomposition, resultants, Sturm chains, sign variations, root
counts and bounds.

**`RootIsolation`** is `real_roots_intervals` as a process: `pending`
holds the intervals `_iso_open` has still to halve, `found` the isolated ones, and
`_refine_gaps` walks over neighbours (`place`, `changed`) until a pass changes nothing.
The arithmetic of polynomials and fractions is a parameter of it, and so is the real
line it is judged by: points, their order, and the roots of a polynomial among them.
**`Cells`** reads the cells off the intervals found: `Sample` is what `cells` puts in an
open cell, `SignAtCell` is `sign_at_cell`, `Runs` and `Component` are
`connected_components`.
**`Partition`** puts `Polynomials` in for the parameters, starts the search for the
separator of a conditional value, and adds what reads terms: boundaries, labels, values.

**`RationalFunctions`** Fractions of polynomials, the ladder of domains in
`project.py` (constant, polynomial, rational function), normal forms, `is_zero`, the
derivative in the domain, the linear form. **`Checkers`** is the other half of the
kernel's checkers: `ledger` is a chain of accepted steps, each with what it rests on,
what it concludes, what that means once aliases are expanded and under which
conditions. A checker's expectation (`Asks`) and the proposer's conclusion are
independent: `CheckNext` proposes the honest result, its normal form, and others.
Meaning is read at rational points by dual numbers (`Reading`), which share nothing
with the code's normal forms.

`MC...` modules give the constants values; the modules `..._proofs` hold the theorems
and their proofs.

How the modules build on each other: `KernelLedger` and `DecisionCache` extend
`ScopeStore`, which extends `Propositions`; `Timeline` extends `EventLog` and
instantiates `UndoStack`; `Workflow` extends `KernelLedger` and `Timeline`; `Session`
extends `Workflow`. `Decide` extends `Terms` and `Verdicts`, `Decisions` extends `Decide`,
`Conditionals` extends `Decisions` and `PiecewiseTerms`. `Polynomials` extends `Terms`;
`RationalFunctions` extends it. `Cells` extends `RootIsolation`, both without recursive
operators; `Partition` extends `Cells`, `Polynomials` and `PiecewiseTerms`, `Checkers`
extends `RationalFunctions` and `PiecewiseTerms`.

### Abstractions

* In the kernel's modules a proposition is an atom or one of the three connectives;
  free symbols are given by `FreeVars`. What an atom says is given by the worlds it is
  true in, so a wrong conclusion is one that is false in some world its context and
  conditions allow.
* There, mathematical checkers and the decision procedure are parameters, `Rule` and
  `Decide`, trusted to be sound (`OracleAssumption`). Everything the kernel does with
  their answers is modelled. What the checkers themselves accept is the subject of
  `Checkers`, what the procedure answers that of `Decisions`.
* The conditions of a judgment are a set: the code keeps a tuple, in which nothing
  reads order or repetition.
* When a checker repeats a condition, the code issues a requirement for each
  occurrence and refers to the last; `IdOf` does the same.
* The order in which proved conditions are committed is the order of the checker's
  list (`InOrder`).
* `BudgetExceeded`, unknown ids in a proposal and a missing checker end a commit
  without writing; these refusals are not told apart from the others.
* Sorts of declarations, notes, targets, domains and printed forms are left out.
* In `Session`, what a command computes is abstracted to the conclusion of a rule that
  fits the step it works on; parsing and printing are left out.
* In `DecisionCache`, a step is committed under one decided condition, and the limit of
  128 entries is a constant.
* In `Decide`, literals are integers and exponents positive; equality of polynomials,
  which the code decides by normal forms, is decided by evaluation at more points than
  their degree; `_interval`'s guard against cycles remembers nodes, and only symbols are
  the same node wherever they occur; the guard of the rule table remembers nodes it can
  never meet again, and is left out. A declared function takes one value of its range
  wherever it is applied.
* `Polynomials` and `RationalFunctions` have one variable and rational coefficients. The
  expected roots of `Partition` are found by other means than the code's, among the
  numbers `a + b sqrt(2)` of the instance's quadratics.
* `RootIsolation` and `Cells` look at the points of `Line(p)`: the roots, the numbers the
  search comes to (`Grid(p)`), the samples, and as many others as one likes. A step that
  left the grid is not taken (`InReach`); the grid of the run is wide enough that
  `IsolationEnds` holds.
* `Checkers` has no context but aliases and claims; conclusions are compared as the code
  compares them, through the ladder of domains, and conditional values occur one layer
  deep.
* Operators marked "Mutant" stand before the originals. Nothing uses them: each is a
  plausible mistake that a property is known to detect.

## Runs

| run | instance | bounds | shows |
|---|---|---|---|
| `kernel` | 3 atoms, 2 rules, 1 local symbol, discharges registered | 3 versions, 3 judgments, all three policies | every judgment is sound and stays with the symbols of its context, also where a condition that was proved does not; queries about conditions mean what they say and only get worse |
| `workflow` | 4 atoms, 1 rule applied to any step, 2 symbols, 3 bodies | 4 operations, 5 versions, 4 judgments, 2 undone at a time | contexts hold only what was asked for, aliases expand, the three graphs agree, and the history is two stacks |
| `merge` | as above, discharges registered, no undo | 8 operations, 4 versions, 7 judgments, 5 steps | reasoning by cases is sound up to the claims made anywhere |
| `session` | 4 atoms, 2 rules, an equation with two solutions | 8 operations, 4 steps, 4 versions, 2 entries, 1 undone at a time | the session does only what the workflow allows, and no command works by default on what is out of view, though undo, redo and refused merges come in between |
| `decisions` | 2 symbols, a positive and a non-real constant, a zero-shaped and a bounded function; 13 facts to assume, 110 to ask, 6 sets of constraints, 7 candidate solutions, 6 conditional values, 15 sums of them; 84 worlds | 2 facts assumed, 9 terms in a closure, 6 branches of a lift | what is answered, called contradictory, confirmed or selected holds in every world the frame allows, but for those on a misjudged bound |
| `partition` | conditional values with breakpoints at 0, 1/2, 1 and at the roots of two quadratics, some of them nested, one inner value partial | an interval with one root in it is halved twice after it has ceased to end at another | every real root is found once, signs and values are those of a whole cell, the components are the connected parts of the domain, and isolation ends |
| `cache` | 2 symbols, one of them defined in two ways; 3 extensions | 2 versions, 4 questions, 2 entries in the cache, 2 steps | answers are fresh, the latest are kept, a step records what it was decided by |
| `checkers` | 15 openings with poles at 0 and 1, an alias for `1/x`, a conditional value; 4 operands, 3 candidates, 9 conclusions of any origin; 8 points | 3 steps | what is accepted follows, loses nothing and gains nothing, outside the named cases |
| `merge_leak`, `zero_product`, `decide_reads`, `judgments` | | | the disagreements below |

The bounds let the interesting cases happen: four operations are enough to undo two,
branch off and lose the redo list, and to use a symbol across a fork; three judgments
are a claim or lemma, a conclusion that carries a condition and the judgment that
settles or refutes it, and three versions are a parent, a child and a sibling; a merge
takes one claim, a coverage, two answers, the merged conclusion and a settled guard. In
`session`, a command that derives is followed by a split, an entry, a refused merge and
an undo of each. Two facts are what a chain, a pair of bounds, an equation used under an
inequality or an integer between two literals needs, and both orders of every pair are
reached; the facts to ask about put each symbol under every operator of the fragment.
The code's budgets of 4000 terms in a closure and 1024 branches are set to 9 and 6 so
that they are exceeded; a cache of two entries is full after two questions. The worlds
take halves around zero, so that strict and weak bounds, and integers and others,
differ, and the point at which `x + pi` is zero. Two irrational roots of `partition` lie
between 0 and 1 and force both halving and the refinement of neighbours; a double root,
a condition without real roots and constant ones are there as well. Three steps of
`checkers` are two claims (or a claim and its normal form) and what is made of them, and
the points include every pole and every candidate.

The ledger only grows, so the bounds are guards of the actions
(`MaxScopes`, `MaxJudgments`, `MaxEvents`, `MaxSteps`, `MaxEnters`, `UndoBefore`,
`MaxAsked`, `MaxCommits`, `MaxFacts`), and a state in which all are
used up has no successor: `CHECK_DEADLOCK FALSE` is set where that happens.
`MaxUndone` bounds the depth of undo. `Misapplied` says whether the rule is also
tried on steps it does not fit (the kernel refuses these; in the larger instances the
refusals are left out). `Requests` of `Checkers` asks about the latest step, alone or
with another: an older step alone was the latest when it was accepted.

**Fairness.** Nothing runs unless the user types and no operation waits for another, so
no action of the kernel, the workflow or the session is fair. Inside a call the program
is a loop that nobody interrupts, and that is the one fairness assumed:
`WF_partitionVars(Work)`, a computation that was started is carried on. Under it
`IsolationEnds` says that root isolation, which halves intervals until counts
are one and neighbours have gaps, terminates for every polynomial of the
instance. Termination of alias expansion is stated as acyclicity (`AliasesAcyclic`).

## Where code and documents disagree

With a run:

* **A branch-local claim leaks through a merge** (`merge_leak`). The answers of the
  branches are compared with their cases by lineage only. A claim made inside a
  branch is an assumption of the branch's later versions and no condition of the
  answer, so the merged conclusion holds in the parent without it. Because of this,
  `Soundness` is checked of the kernel (where it holds and where a conclusion may rely
  on claims visible to it) and `SoundUpToClaims` of the workflow.
* **A product is decided by its zero factors** whatever it is compared with
  (`zero_product`: from `x = 0` follows `x y = 1`, and from `x # 0` that `2 x = 1` fails),
  although the architecture document (7.5) says that `decide` answers whether the frame
  entails the proposition.
* **The kernel's decision checker leaves no reads** (`decide_reads`). It asks the services
  and not the tracked context, so a conclusion committed through it rests on assumptions
  its step does not record, which `model.py` names as the thing that must not happen.
  Steps under decided conditions do record them (`ConditionsLeaveTheirReads`).
* **Substitution takes an equation for an identity** (`judgments`). From the claim
  `x = 3` the program commits `5 = 3` or, simplified, `2 = 0`, without a condition; the
  derivative checker refuses equations with exactly this argument. `SolveChecker`
  likewise records `x = 1` as concluded from `x x = x`. `StepsFollow` is therefore stated
  of the other rules, and `SolutionsSolve` says what a solution is.

Named in the properties as exceptions (`OnItsBound`, `AsRead`, `Resolved`, `Plain`, `"raised"`),
each as narrow as what goes wrong. The runs meet the situation and leave out the worlds
or points of it at which the answer is wrong:

* An assumption `t <= 0` counts as a refutation of `t >= 0` (`decide.py:597`: from `x <= 0`
  follows `x < 0`, and `{x >= 0, x <= 0}` is called contradictory). The bound the frame
  gives of a sum loses its strictness, or gains one, from its terms (`decide.py:414`: with
  `x < 1`, `y > 0` and `x + y >= 0` the answer to `x + y <= 0` is no). Both go wrong only
  where the term is equal to the bound, and those worlds are left out.
* A product compared for equality is compared with zero (see `zero_product`); the
  answer has to be right about that, if it is not right about the question.
* `fold_nested` conjoins the conditions of nested branches and goes on to the next outer
  branch where no inner one holds, although the first match has no value there
  (`piecewise.py:372`). The test of flattening asks that "the nested original and the
  flattened form take the same value" (`tests/random/random_piecewise.py:397`) and makes
  its inner values with a last branch for everything else. Here one inner value has none;
  the points at which it has no value are left out.
* The sign of a constant boundary at an irrational cell is computed by a division by
  zero (`cad.py:200`), so such a partition is not answered at all.
* `dom_condition` recognises a pole by a literal exponent of the conclusion as it was
  written. `x^-2` is parsed with a product as exponent, and an alias hides its
  body, so neither leaves the condition `x # 0`. With `u` defined as `1/x`, the
  claim `u x = x` has the accepted solution `x = 0`.

Plain from the code, without a property:

* **Undone claims still support conclusions** (`workflow.py:223`). A predecessor named by
  number is looked up among all steps ever recorded, and the claim's judgment belongs to
  the version before its own assumption, which is visible again after the undo. The
  session does not do this of its own accord (`DerivationsStayInView`).
* **A merge can land out of sight** (`workflow.py:544`), on the version an undo
  abandoned, although the docstring gives that very situation as the reason for
  looking up the head. `enter` resolves ids in the same way, so entering a scope by id
  after an undo brings the undone claim back into the context; and a symbol whose only
  definition was undone stays unusable as a local symbol.
* **Later proofs do not discharge** (`commit.py:326`). The architecture document (6.10)
  says they do; the code discharges only in the commit that introduces the condition.
  In `INTERACTIVE` mode, the default, `mode.py` promises that discharge is
  deferred to the first query; no query registers one, and `DecidedIsSettled`, checked
  here with `Defers = FALSE`, fails at once with `Defers = TRUE`.
* Whether a contradicting conclusion is registered as a refutation depends on whether
  the requirement was discharged before it (`commit.py:387`).
* Operands, substituted values and replaced sides are compared after the conclusion is
  expanded but are not expanded themselves: `both add u` stays undecided for a defined
  `u`, and substituting `u` is refuted.

## Proofs

TLAPS checks the theorems below for every value of the constants that meets the named
assumptions of the modules; every run evaluates those assumptions on its instance. The
modules build on each other as the models do: `ScopeStore_proofs` and
`Timeline_proofs`; `KernelLedger_proofs` over the first; `Workflow_proofs` over
both; `Merge_proofs` and `Session_proofs` over that; `DecisionCache_proofs` over
`ScopeStore_proofs`. `Cells_proofs` stands for itself.

What is assumed is: `OracleAssumption`, a rule a mathematical checker accepts is
sound under its direct conditions and a decision is entailed by the assumptions
(`decide.py` does not quite keep to this: see the first two exceptions above);
`ConnectiveAssumption`, negation, disjunction and implication mean what they say;
`JudgeAssumption`, the decision procedure of the cache has three answers;
`VocabularyAssumption`, the commands and references of the history include those the
workflow uses; `SessionAssumption`, the solutions of one `solve` are one-premise rules;
`IsolationAssumption` and `CellsAssumption`, facts about real polynomials that the code
takes from algebra and computes by: the line is totally ordered and a midpoint lies
between two numbers; Sturm's theorem (a chain counts the roots strictly between two
numbers); the Cauchy bound is beyond all roots; a polynomial, its squarefree part
and no others have its roots, finitely many; the intermediate value theorem (signs
change only at roots). They are stated of the operators, as parameters, and the run
`partition` evaluates them on those of `Polynomials`.
The others say which sets and numbers the constants are.

`ScopeStore_proofs` has no theorem to list. Its invariant, `ScopeInv`, says that the
chain of a version is closed: whatever is on it is older and has its own chain inside.
Forks and extensions only add versions (`ScopesGrow`), so what was known of the others
stands. All that is said of contexts elsewhere rests on it.

`Timeline_proofs`, for any commands, references, versions and number of operations:

* `TimelineTypeCorrect`, `PointerCorrect`: the scope pointer agrees with the revision.
  Undo and redo look their target up in a table, so the invariant (`TimelineInv`)
  speaks of *every* revision they can still reach and not of the current one alone.
* `LineCorrect`, `ParentCorrect`: what undo and redo walk, the view followed by the
  redo list backwards, is in the order of performance, and an event's parent revision
  is its place there. Undo and redo leave the joined line as it is; an append
  cuts off what was undone and adds the largest number (`LineInv`).
* `TimelineImplementsStack`: the refinement. An operation pushes and empties the
  other stack; undo and redo move one entry across with the version it left current,
  which is where the agreement of table and line is needed (`StackShape`).

`KernelLedger_proofs`, for any vocabulary, rules, decision procedure and policies:

* `ScopesTypeCorrect`, `LineageCorrect`, `LedgerTypeCorrect`: ids refer to what is there,
  premises are older than the conclusions they support, a lineage is one line.
* `JudgmentsSound` (`KernelInv`). `WriteShape` says position by position what a commit
  leaves behind; `ConclusionSound` is the heart: a premise that is visible holds,
  because what is granted where it was made is granted here (`GrantedInherited`) and
  its conditions are carried on; a direct condition is carried under an id whose
  requirement says the same (`IdOfShape`, for which the last of the repeated
  occurrences is as good as any).
* `ApplicableSound` and `RefutationsSound` need two facts more, which commits
  establish and nothing disturbs (both in `StoreInv`): a discharge is backed by an
  unconditional judgment of the same proposition in the same scope, a refutation by a
  judgment that negates the requirement.
* `DecidedSettled`, when discharges are registered at all (`~Defers`). A commit
  settles only the conditions the conclusion itself introduced, the nested commits
  included; the invariant is `SettledWhereDecided`: a proved condition has its
  discharge in the scope of the judgment that introduced it, which later versions
  cannot disturb because versions are immutable.
* `ApplicabilityInheritedCorrect` and `ApplicabilityMonotoneCorrect` follow from closed
  chains and from nothing ever being removed.
* `LocalsStayHomeCorrect`: a commit writes nothing, nested commits included, that speaks
  of a local symbol its context does not know; the condition then stays open instead.

`Workflow_proofs`. The inductive invariant `WorkflowInv` says that every record points at
what exists and agrees with it: steps with judgments, events and tasks, branch groups
with the contexts of their cases and their coverage. Every step of the workflow is of
one of five kinds (`WorkflowStepKind`): it records a conclusion, claims, splits,
introduces a symbol, or only moves; whatever its kind it keeps the invariant, only
adds to contexts, ledger and records, and is one step of `Timeline` (`Kept`).

* `MovesTheTimelineCorrect` is that last part, a refinement (of which `StackSpec` in the run
  `workflow` is the visible consequence); by it `WorkflowPointerCorrect`,
  `WorkflowLineCorrect` and `WorkflowImplementsStack` are the theorems of `Timeline`
  once more.
* `AssumptionsAccountedCorrect`: an assumption is traced to a committed claim or a case.
* `ProvenanceCorrect` (`ProvenanceInv`): besides the agreement itself, the
  numbers not yet given out are in no record, or the next operation could be
  credited with an older one's output.
* `AliasesCorrect`. That no alias reaches itself is not inductive as it stands. `AliasInv`
  says of every context that each symbol is introduced once in its sight and that
  each definition lies in a set that is closed under expansion and does not hold
  the defined symbol (`WellFounded`). A new definition leaves the old sets closed,
  or, where one of them holds the new symbol, closed together with the expansion of
  its body, in which `AliasCycle` found no way back.
* `WorkflowInheritsAnswers` and `WorkflowAnswersStand`: with merges, undo and redo the
  queries about conditions behave as in the kernel alone.

`Merge_proofs`. `MergedSound` is the soundness of reasoning by cases, up to claims. A
conclusion of a branch holds under the branch's assumptions; these are those of the
parent and the case's condition, and claims. Which version lies in which context
is `LineageChain`: what a version sees is of its own lineage or was in sight where that
lineage was opened. The coverage holds without conditions, so in each world one of
the cases applies, and the guards of its answer are conditions `C => G` of the merged
conclusion. `ValidatedSound` follows as `ApplicableSound` does. Neither could be had of
plain `Soundness`, which fails (`merge_leak`). `Expressible` restricts the model to
merges whose promoted guards belong to the vocabulary of the instance.

`Session_proofs`. A command of the session records a step and focuses on it (it `Lands`),
performs an operation without a step or none at all (`Settles`), or undoes or redoes
one (`Walks`).

* `SessionImplementsWorkflow`: the session is a refinement of the workflow. Its commands
  choose steps, scopes and branch groups by the focus, by number or from what a former
  command left; all they make of these are operations `Workflow` allows, one at a time. By
  it every theorem about the workflow is one about the session.
* `FocusCorrect`, `DerivationsCorrect`, `MergeEntryCorrect` from `SessionInv`: a step
  rests on steps of earlier operations, and where its operation is on the line of
  history, so are theirs (`PremisesOnTheLine`). Undo takes the line from the end, so
  it cannot leave a step in view without its premises. What is left to do of a command
  (`todo`) is either the points of one `solve` (`PointsLeft`), or the second half of
  a merge, directly after the entry it made (`MergeLeft`).

`DecisionCache_proofs`, for any decision procedure, cache limit and vocabulary:

* `AnswersFresh` (`CacheInv`): every entry is what its context, whose contents
  are fixed, would be answered now; the key tells contexts apart, so a hit is the
  entry of the same question.
* `ConditionsRecorded`: reads recorded with a step contain all definitions and assumptions in
  sight when a condition was decided, cached or not.
* `CacheHoldsTheLatest`: the entries are in the order of their last use (`LastUse`)
  and everything dropped was used before all of them.

`Cells_proofs`, for any polynomial, any number of roots however close, rational or not:

* `RootsAreFoundOnce` is `EveryRootOnce`, by `IsolationIsInductive`. That no root is lost or
  found twice is not inductive by itself. While intervals are halved (`Searching`), any
  two intervals, found or pending, have at most an end in common (`Apart`),
  so an exact root at which a pending interval ends is not counted there again; each
  interval found has one root (`HoldsOne`); and an exact root was found before
  any open interval that begins at it (`ExactFirst`), because a stable sort by lower
  ends has to leave it in front. From this the sorted list ascends
  (`Sorted`; that the sort loses nothing is that an injection of a finite set into
  itself is onto). Refinement keeps the root of each interval and leaves it within its
  old ends (`Shrinking`, `StillArranged`). A pass that has changed nothing so far has
  seen gaps between all neighbours up to `place`, which is what the answer is given on.
* `SignsHoldOnCells` is `SignsHold`. The roots ascend with their intervals
  (`RootsAscend`), so each point of the line is in exactly one cell (`CellsCover`,
  `CellsDisjoint`). The sample of an open cell is in it (`SampleInCell`), which for a
  midpoint between neighbours needs the gap that refinement made; no root of a factor
  is between it and any other point of the cell (`SameSign`). At a root that is not
  exact the count decides, and where the factor lacks the root, the midpoint of the
  interval has the factor's sign at the root (`SignAtRoot`).
* `ComponentsAreMaximalRuns`: for any set of cells on which a value is defined, the
  components `connected_components` makes, open and closed ends included, hold the
  points of these cells, each in one component, and two points share one exactly if
  every cell from one to the other is defined (`ComponentsConnect`).

The theorems are about `IsolationSpec`, in which any polynomial may be asked about. Of
`PartitionSpec` they hold because its steps are those of `IsolationSpec`, conjoined with
what becomes of `term` and `flat`: `Resolve` is `Ask` and `Work` is `Compute`.
`Partition` has recursive operators, so this is no theorem; the run checks both properties
under `PartitionSpec`.

`TimelineTypeCorrect`, `LineCorrect`, `ParentCorrect`, `WorkflowLineCorrect` and
`ScopesTypeCorrect` have no run of their own: they are what the other proofs stand on, and a
history out of order would break `StackSpec` of the run `workflow`.

Model-checked only, and why:

* `AnswersHoldElsewhere`, `RefusalsHold`, `VerifiedSolves`, `OrderIrrelevant` (the decision
  procedure), `SelectionKeepsTheValue`, `CoverageHolds`, `LiftIsPointwise` (conditional
  values), `CellsHaveTheValue`, `ComponentsAreConnected`, `FactorsTell` (real algebra),
  `StepsFollow`, `NothingIsGained`, `SolutionsSolve`, `DerivativesAgree` (the checkers):
  terms and polynomials are recursive structures, the operators on them are recursive,
  and what these compute for every input is an induction over data, which the prover
  does not take.
* `IsolationEnds`: liveness.
* The four violations.

## Not modelled

* The rule engine, the tactics other than the linear solver, integration and the solver
  of systems of constraints: untrusted search, whose results go through the checkers.
  `RuleInstanceChecker` matches declared rules and would need the rule language.
* The integration checker, which differentiates the proposed integral term by term and
  asks for an identity as `Check` does; definite integrals evaluate at both ends.
* Several variables, Gaussian coefficients, linear algebra and partial fractions: the
  representation grows, the conditions do not.
* The parser, the printer, the assembly of the tables and the runtime object: they keep
  no state an operation changes.
* `conflicts` of `piecewise.py`, `applicability_of`, and commands that only print.

## Plan

1. The verdict connectives of `Verdicts` and the order of channels: that a sound channel
   added to sound ones leaves `decide` sound.
2. `Decide` over rational literals and exponents, and its answers as the kernel's: a
   small `Decisions` instance under `KernelLedger` in place of the oracle.
3. `RuleEngine`: matching, conditions and the search budgets.
