------------------------------- MODULE Checkers -------------------------------
(***************************************************************************)
(* The checkers of cas/math/base/checkers.py, of solving and of            *)
(* differentiation: what they accept, and under which conditions.  A step  *)
(* is proposed with a conclusion of the proposer's choice; the checker     *)
(* computes what it expects and compares.                                  *)
(*                                                                         *)
(* aliases  the definitions in scope: a body for every defined name        *)
(* ledger   the accepted steps, oldest first: their rule, the steps they   *)
(*          rest on, their payload, their conclusion, what it means and    *)
(*          under which conditions, the definitions put in                 *)
(***************************************************************************)
EXTENDS RationalFunctions, PiecewiseTerms

CONSTANTS
    Variable,       \* the symbol terms are written in
    Definitions,    \* the sets of definitions that may be in scope
    Openings,       \* the sequences of propositions claimed at the start
    Operands,       \* terms both sides may be combined with
    Candidates,     \* literals substituted for the variable, or tried as solutions
    Branchings,     \* conditions to split on
    Constraints,    \* [relation, unknown, value]: equations with a valuation
    Contents,       \* conclusions proposed whatever the premises are
    MaxSteps,       \* bound: accepted steps
    Points          \* rational numbers: where conclusions are read

VARIABLES aliases, ledger

checkerVars == <<aliases, ledger>>

-------------------------------------------------------------------------------
(* Definitions and conditions.                                             *)

Rebuilt(head, args) ==
    CASE head = "And" -> And(args) [] head = "Or" -> Or(args) [] OTHER -> Mk(head, args)

\* expand: every defined symbol is replaced, down to symbols without a body.
RECURSIVE Expand(_)
Expand(t) ==
    IF Kind(t) = "Sym" THEN IF t[2] \in DOMAIN aliases THEN Expand(aliases[t[2]]) ELSE t
    ELSE IF IsExpr(t)
         THEN Rebuilt(Kind(t), Table([i \in DOMAIN Args(t) |-> Expand(Args(t)[i])]))
    ELSE t

\* _guarded
Guarded(condition, guards) ==
    {Or(<<IF condition = Bool(TRUE) THEN Bool(FALSE) ELSE Mk("Not", <<condition>>), g>>) :
        g \in guards}

\* The condition under which a power has a value, by its literal exponent.
PowerCondition(base, exponent) ==
    CASE IsNum(exponent) -> IF NumVal(exponent) < 0 THEN {Ne(base, Zero)} ELSE {}
      [] Kind(exponent) = "Rat" ->
            LET q == LiteralValue(exponent)
                even == q[2] % 2 = 0
            IN  IF q[1] >= 0 THEN IF even THEN {Fact("Ge", base, Zero)} ELSE {}
                ELSE IF even THEN {Fact("Gt", base, Zero)} ELSE {Ne(base, Zero)}
      [] OTHER -> {}

\* dom_condition.  A definition is not looked into, nor is an exponent
\* computed; the conditions of branches contribute nothing.
RECURSIVE DomCondition(_)
DomCondition(t) ==
    IF ~IsExpr(t) THEN {}
    ELSE IF IsPiecewise(t)
         THEN UNION {Guarded(b[2], DomCondition(b[1])) : b \in Range(Branches(t))}
    ELSE (IF Kind(t) = "Power" THEN PowerCondition(Args(t)[1], Args(t)[2]) ELSE {})
         \cup UNION {DomCondition(a) : a \in Range(Args(t))}

-------------------------------------------------------------------------------
(* Places in terms.                                                        *)

RECURSIVE TermAt(_, _)
TermAt(t, path) ==
    IF path = <<>> THEN t ELSE TermAt(Args(t)[Head(path)], Tail(path))

RECURSIVE Replaced(_, _, _)
Replaced(t, path, new) ==
    IF path = <<>> THEN new
    ELSE Rebuilt(Kind(t), [Args(t) EXCEPT ![Head(path)] = Replaced(@, Tail(path), new)])

\* all_paths, without the empty one.
RECURSIVE Paths(_)
Paths(t) ==
    IF ~IsExpr(t) THEN {}
    ELSE UNION {{<<i>>} \cup {<<i>> \o p : p \in Paths(Args(t)[i])} : i \in DOMAIN Args(t)}

\* _path_requirements: the conditions of the branches whose value is entered.
PathRequirements(t, path) ==
    {Args(TermAt(t, SubSeq(path, 1, k - 1)))[path[k] + 1] :
        k \in {k \in DOMAIN path :
                /\ IsPiecewise(TermAt(t, SubSeq(path, 1, k - 1)))
                /\ path[k] % 2 = 1}}

\* Whether a replacement may be made at the end of path: below a sum, a
\* product, an equation, a conditional value, and in the base of an integer
\* power.
Liftable(t, path) ==
    LET parent == TermAt(t, Front(path))
    IN  \/ Kind(parent) \in {"Plus", "Times", "Eq", "Piecewise"}
        \/ Kind(parent) = "Power" /\ Last(path) = 1 /\ IsNum(Args(parent)[2])

-------------------------------------------------------------------------------
(* Accepting a step.                                                       *)

Of(i) == ledger[i].means

\* _accepted: the conditions read off the conclusion as it was proposed, and
\* those of the rule.  The kernel adds those of the premises.
Accept(rule, on, content, extra, payload) ==
    /\ ledger' = Append(ledger,
            [rule |-> rule, on |-> on, payload |-> payload,
             concludes |-> content, means |-> Expand(content),
             under |-> {Expand(c) : c \in DomCondition(content) \cup extra}
                       \cup UNION {ledger[i].under : i \in Range(on)}])
    /\ UNCHANGED aliases

\* ClaimChecker
Claim(content) == Accept("claim", <<>>, content, {}, <<>>)

\* What a checker asks of a conclusion: what it has to be identical with, or
\* with the normal form of; what else has to be identical; the conditions.
Asks(rule, on, result, forms, extra) ==
    [rule |-> rule, on |-> on, result |-> result, forms |-> forms, alike |-> {}, extra |-> extra]

\* The comparison common to the checkers.  That of the rule for equalities is
\* by structure, and that for replacements does not expand the conclusion.
Compared(request, expected, said) ==
    /\ request.rule = "trans" => said = expected
    /\ \A pair \in request.alike \cup {<<said, expected>>} :
          Identity(pair[1], pair[2]) = "yes"

Check(request, normal, content) ==
    /\ \E said \in {IF request.rule = "use" THEN content ELSE Expand(content)} :
       \E form \in request.forms :
          Compared(request, IF form = "normal" THEN normal ELSE request.result, said)
    /\ Accept(request.rule, request.on, content, request.extra, <<>>)

\* What a side is combined with.
Operand(op, a) ==
    CASE op \in {"add", "mul"} -> a [] op = "sub" -> Neg(a) [] op = "div" -> Power(a, -1)

\* The two sides of the equation, combined with a term.
Operated(op, equation, a) ==
    <<"Eq", [i \in {1, 2} |->
                Mk(IF op \in {"add", "sub"} THEN "Plus" ELSE "Times",
                   <<Args(equation)[i], Operand(op, a)>>)]>>

\* Mutant: only division needs a condition.
OperandCondition_DivOnly(op, a) == IF op = "div" THEN {Ne(a, Zero)} ELSE {}

OperandCondition(op, a) == IF op \in {"mul", "div"} THEN {Ne(a, Zero)} ELSE {}

\* BothSidesChecker.  The operand is not expanded.
BothSides(i, op, a) ==
    Asks("both", <<i>>, Operated(op, Of(i), a), {"plain"}, OperandCondition(op, a))

\* NormalizeChecker
Normalize(i) == Asks("normalize", <<i>>, Of(i), {"normal"}, {})

\* SubstChecker.  The value is not expanded.
Substitute(i, value) ==
    Asks("substitute", <<i>>, Subst(Of(i), Variable, value), {"plain", "normal"}, {})

\* SplitChecker, for a step in the scope of the branch: the workflow assumes
\* the condition there.
Split(i, condition) ==
    Asks("split", <<i>>, And(<<Of(i), condition>>), {"plain"}, {condition})

\* ConstraintSatisfiedChecker, for equations: the instance has to vanish for
\* every value of what is left.
Instance(constraint) ==
    Expand(Subst(Expand(constraint.relation), constraint.unknown, constraint.value))

SatisfiedBy(instance) ==
    [Asks("satisfied", <<>>, instance, {"plain"}, {})
        EXCEPT !.alike = {<<Args(instance)[1], Args(instance)[2]>>}]

Satisfied(constraint) == SatisfiedBy(Instance(constraint))

\* TransChecker
Trans(i, j) == Asks("trans", <<i, j>>, Eq(Args(Of(i))[1], Args(Of(j))[2]), {"plain"}, {})

\* The sides of the source, what is replaced first.
Sides(source, direction) ==
    IF direction = "right" THEN Args(source) ELSE Reverse(Args(source))

\* Mutant: what stands at the place is not compared.
Replaceable_Unread(t, path, before) == {}

\* What stands at the place has to be the side that is replaced.
Replaceable(t, path, before) == {<<TermAt(t, path), before>>}

\* CongruenceLiftChecker: one side of the source is replaced by the other at
\* one place of the target.
Use(i, j, direction, path) ==
    [Asks("use", <<i, j>>, Replaced(Of(j), path, Sides(Of(i), direction)[2]), {"plain"},
          PathRequirements(Of(j), path))
        EXCEPT !.alike = Replaceable(Of(j), path, Sides(Of(i), direction)[1])]

-------------------------------------------------------------------------------
(* Solving.                                                                *)

\* What is left of an equation after a substitution.
Residue(equation, value) ==
    Fold(Minus(Subst(Args(equation)[1], Variable, value),
               Subst(Args(equation)[2], Variable, value)))

\* Mutant: an undecided difference passes.
BackSubstituted_Undecided(equation, value) ==
    IF ZeroVerdict(Residue(equation, value)) = "no"
    THEN "no" ELSE "yes"

\* back_substitute of cas/math/judge.py; literals only, so that the exact
\* value and the zero test agree.
BackSubstituted(equation, value) ==
    ZeroVerdict(Residue(equation, value))

\* What may be tried: any literal without a condition, and the solution of the
\* linear tactic with its condition, which the checker derives again.
LinearAttempts(form) ==
    IF form.kind # "linear" THEN {}
    ELSE {[rule |-> "linear", value |-> LinearRoot(form), extra |-> {Ne(form.slope, Zero)}]}

Attempts(equation) ==
    {[rule |-> "solve", value |-> value, extra |-> {}] : value \in Candidates}
    \cup LinearAttempts(LinearForm(Projected(equation), Variable))

\* SolveChecker
Solve(i, attempt) ==
    /\ Variable[2] \notin DOMAIN aliases
    /\ BackSubstituted(Of(i), attempt.value) = "yes"
    /\ Accept(attempt.rule, <<i>>, Eq(Variable, attempt.value), attempt.extra,
              <<attempt.value>>)

-------------------------------------------------------------------------------
(* Differentiation.                                                        *)

\* differentiate of cas/math/diff.py, on the term: the rules for sums,
\* products and powers with a constant exponent.
RECURSIVE DiffTerm(_)
DiffTerm(t) ==
    LET side(i) == DiffTerm(Args(t)[i])
    IN  CASE t = Variable -> Int_(1)
          [] Kind(t) = "Plus" -> Mk("Plus", [i \in DOMAIN Args(t) |-> side(i)])
          [] Kind(t) = "Times" ->
                Mk("Plus", [i \in DOMAIN Args(t) |->
                               Mk("Times", Append(RemoveAt(Args(t), i), side(i)))])
          [] Kind(t) = "Power" ->
                Mk("Times", <<Args(t)[2],
                              <<"Power", <<Args(t)[1], Plus(Args(t)[2], Int_(-1))>>>>,
                              side(1)>>)
          [] OTHER -> Zero

\* differentiate_piecewise: branch by branch.
Differentiated(t) ==
    LET branches == [i \in DOMAIN Branches(t) |->
                        <<Fold(DiffTerm(Branches(t)[i][1])), Branches(t)[i][2]>>]
    IN  IF IsPiecewise(t) THEN Piecewise(branches) ELSE branches[1][1]

\* _element_deriv: by the domain.  A fraction whose reduced denominator is
\* constant is differentiated as a polynomial, with the same result.
ElementDeriv(hit) ==
    IF hit.kind = "polynomial" THEN Ratio(Deriv(hit.element.num), POne)
    ELSE RFDeriv(hit.element)

DomainDerivative(source, hit) ==
    IF hit.kind = "constant" THEN Zero ELSE RFToTerm(ElementDeriv(hit), VariableIn(source))

\* Without a variable the two are compared as numbers.
SameDerivative(expected, result, f, g) ==
    CASE FreeVars(expected) \cup FreeVars(result) = {} ->
            IF Fold(Minus(expected, result)) = Zero THEN "yes" ELSE "no"
      [] NotRational \in {f, g} -> "unknown"
      [] OTHER -> IF RFEqual(f, g) THEN "yes" ELSE "no"

Against(expected, result) ==
    SameDerivative(expected, result, RFFromTerm(expected, Variable), RFFromTerm(result, Variable))

DiffBy(source, hit, result) ==
    IF hit.kind = "none" THEN "unknown" ELSE Against(DomainDerivative(source, hit), result)

\* _cross_diff: the two derivatives agree as rational functions.
CrossDiff(source, result) == DiffBy(source, Project(source), result)

\* DiffChecker: of an equation there is none; of a conditional value, branch
\* by branch under the same conditions (flattening leaves one layer alone).
BranchesDiffer(source, result) ==
    \/ Len(source) # Len(result)
    \/ \E k \in DOMAIN source :
          source[k][2] # result[k][2] \/ CrossDiff(source[k][1], result[k][1]) # "yes"

Differentiation(i, content) ==
    /\ ~IsEquation(ledger[i].concludes)
    /\ Variable[2] \notin DOMAIN aliases
    /\ \E said \in {Expand(content)} :
          /\ IsPiecewise(Of(i)) <=> IsPiecewise(said)
          /\ ~BranchesDiffer(Branches(Of(i)), Branches(said))
    /\ Accept("diff", <<i>>, content, {}, <<>>)

-------------------------------------------------------------------------------

Room == Len(ledger) < MaxSteps

CheckersInit ==
    /\ aliases \in Definitions
    /\ ledger = <<>>

Opened == Len(SelectSeq(ledger, LAMBDA s : s.rule = "claim"))

\* The claims of an opening come first.
OpenNext ==
    /\ Room
    /\ \E opening \in Openings :
          /\ Opened = Len(ledger) /\ Opened < Len(opening)
          /\ \A i \in DOMAIN ledger : ledger[i].concludes = opening[i]
          /\ Claim(opening[Opened + 1])

\* What may be asked, of the latest step alone, with another, or of none.  An
\* older step alone was the latest when it was accepted.
Current == {i \in DOMAIN ledger : i = Len(ledger)}
Equations == {i \in DOMAIN ledger : IsEquation(Of(i))}
Pairs == {pair \in (DOMAIN ledger) \X (DOMAIN ledger) :
             pair[1] # pair[2] /\ Len(ledger) \in {pair[1], pair[2]}}

Requests ==
    UNION {{BothSides(i, op, a) : op \in {"add", "sub", "mul", "div"}, a \in Operands}
           \cup {Split(i, condition) : condition \in Branchings} :
              i \in Current \cap Equations}
    \cup {Normalize(i) : i \in Current}
    \cup UNION {{Substitute(i, value) : value \in Candidates} :
                    i \in {i \in Current : Variable \in FreeVars(Of(i))}}
    \cup UNION {{Use(pair[1], pair[2], direction, path) :
                    direction \in {"left", "right"},
                    path \in {path \in Paths(Of(pair[2])) : Liftable(Of(pair[2]), path)}} :
                  pair \in {pair \in Pairs : pair[1] \in Equations}}
    \cup {Trans(pair[1], pair[2]) :
            pair \in {pair \in Pairs :
                        /\ {pair[1], pair[2]} \subseteq Equations
                        /\ Args(Of(pair[1]))[2] = Args(Of(pair[2]))[1]}}
    \cup {Satisfied(constraint) : constraint \in Constraints}

\* The honest conclusion, its normal form, or any other.
CheckNext ==
    /\ Room
    /\ \E request \in Requests :
       \E normal \in {NormalForm(request.result)} :
       \E content \in {request.result, normal} \cup Contents :
          Check(request, normal, content)

SolveNext ==
    /\ Room
    /\ \E i \in Current \cap Equations :
       \E attempt \in Attempts(Of(i)) : Solve(i, attempt)

DiffNext ==
    /\ Room
    /\ \E i \in Current :
       \E content \in {Differentiated(ledger[i].concludes)} \cup Contents :
          Differentiation(i, content)

CheckersNext == OpenNext \/ CheckNext \/ SolveNext \/ DiffNext

CheckersSpec == CheckersInit /\ [][CheckersNext]_checkerVars

-------------------------------------------------------------------------------
(* What terms and propositions mean at a point, by dual numbers: the value *)
(* and the slope there.                                                    *)

Clean(q) == IF HasValue(q) THEN Rat(q[1], q[2]) ELSE NoValue

DualSum(d, e) == <<Clean(QAdd(d[1], e[1])), Clean(QAdd(d[2], e[2]))>>
DualProduct(d, e) ==
    <<Clean(QMul(d[1], e[1])), Clean(QAdd(QMul(d[1], e[2]), QMul(d[2], e[1])))>>
DualPower(d, n) ==
    <<QRaise(d[1], n),
      IF n = 1 THEN d[2] ELSE Clean(QMul(<<n, 1>>, QMul(QRaise(d[1], n - 1), d[2])))>>

\* A comparison of what has no value does not hold.
RECURSIVE Reading(_, _)
Reading(t, q) ==
    LET part(i) == Reading(Args(t)[i], q)
        parts == Table([i \in DOMAIN Args(t) |-> part(i)])
        apart == QAdd(part(1)[1], <<-part(2)[1][1], part(2)[1][2]>>)
        chosen == SelectInSeq(Branches(t), LAMBDA b : Reading(b[2], q))
    IN  CASE IsLiteral(t) -> <<LiteralValue(t), RZero>>
          [] t = Variable -> <<q, RInt(1)>>
          [] Kind(t) = "Plus" -> FoldLeft(DualSum, <<RZero, RZero>>, parts)
          [] Kind(t) = "Times" -> FoldLeft(DualProduct, <<RInt(1), RZero>>, parts)
          [] Kind(t) = "Power" -> DualPower(part(1), part(2)[1][1])
          [] IsPiecewise(t) ->
                IF chosen = 0 THEN <<NoValue, NoValue>> ELSE Reading(Branches(t)[chosen][1], q)
          [] Kind(t) = "Bool" -> t[2]
          [] Kind(t) = "And" -> \A i \in DOMAIN parts : parts[i]
          [] Kind(t) = "Or" -> \E i \in DOMAIN parts : parts[i]
          [] Kind(t) = "Not" -> ~part(1)
          [] Kind(t) = "Eq" -> HasValue(apart) /\ apart[1] = 0
          [] Kind(t) = "Ne" -> HasValue(apart) /\ apart[1] # 0
          [] Kind(t) = "Gt" -> HasValue(apart) /\ apart[1] > 0

IsProposition(t) == Kind(t) \in {"Eq", "Ne", "Gt", "And"}

Latest == ledger[Len(ledger)]
Met(step, q) == \A c \in step.under : Reading(c, q)

\* Where the premises of a step hold.
Given(step, q) ==
    \A i \in Range(step.on) :
        IsProposition(Of(i)) => Reading(Of(i), q)

\* Nothing hides a power from dom_condition.
Plain(t) ==
    /\ FreeVars(t) \subseteq {Variable}
    /\ \A s \in Subterms(t) : Kind(s) = "Power" => IsNum(Args(s)[2])

\* A term obtained from a term has its value wherever both have one; and it
\* has one where the other does and the conditions hold, if it is plain.
SameTerm(t, s, plain, q) ==
    LET value == Reading(t, q)[1]
        before == Reading(s, q)[1]
    IN  /\ HasValue(value) /\ HasValue(before) => EqualValues(value, before)
        /\ HasValue(before) /\ plain => HasValue(value)

Concluded(step, q) ==
    IF IsProposition(step.means) THEN Reading(step.means, q)
    ELSE SameTerm(step.means, Of(Last(step.on)), Plain(step.concludes), q)

Entails(step) ==
    \A q \in Points : Met(step, q) /\ Given(step, q) => Concluded(step, q)

-------------------------------------------------------------------------------

\* A step that combines, normalizes, splits, composes or replaces concludes
\* nothing that its premises do not say under its conditions: at every point
\* where they hold the conclusion has a value and holds; a term keeps its value.
StepsFollow ==
    ledger # <<>> /\ Latest.rule \in {"both", "normalize", "split", "trans", "use", "satisfied"}
        => Entails(Latest)

HaveValues(equation, q) == \A i \in {1, 2} : HasValue(Reading(Args(equation)[i], q)[1])

\* No solution is gained: where the conclusion of an operation on both sides or
\* of a normalization holds under its conditions, the equation it was made from
\* holds wherever its two sides have values.
NothingIsGained ==
    ledger # <<>> /\ Latest.rule \in {"both", "normalize"} /\ IsEquation(Of(Latest.on[1])) =>
        LET equation == Of(Latest.on[1])
        IN  \A q \in Points :
                /\ Met(Latest, q) /\ Reading(Latest.means, q)
                /\ HaveValues(equation, q)
                => Reading(equation, q)

\* A solution, under its conditions, solves the equation if its sides have
\* values there, which they do unless a definition hides a power; and one found
\* by the linear tactic is the only one.
SolutionsSolve ==
    ledger # <<>> /\ Latest.rule \in {"solve", "linear"} =>
        LET equation == Of(Latest.on[1])
            solution == LiteralValue(Latest.payload[1])
        IN  /\ Met(Latest, solution) =>
                /\ HaveValues(equation, solution) => Reading(equation, solution)
                /\ Plain(ledger[Latest.on[1]].concludes) => HaveValues(equation, solution)
            /\ Latest.rule = "linear" =>
                  \A q \in Points : Reading(equation, q) => EqualValues(q, solution)

\* What is accepted as a derivative has the slope of the term as its value,
\* wherever both exist.
DerivativesAgree ==
    ledger # <<>> /\ Latest.rule = "diff" =>
        \A q \in Points :
            LET slope == Reading(Of(Latest.on[1]), q)[2]
                value == Reading(Latest.means, q)[1]
            IN  Met(Latest, q) /\ HasValue(slope) /\ HasValue(value)
                    => EqualValues(value, slope)

\* Violated.  A judgment is Gamma |- P [Delta] (cas/kernel/model.py): what is
\* assumed entails what is concluded under the conditions, whatever the rule.
JudgmentsFollow ==
    ledger # <<>> /\ Latest.rule \notin {"claim", "diff"} /\ IsProposition(Latest.means)
        => Entails(Latest)
===============================================================================
