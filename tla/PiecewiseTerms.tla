--------------------------- MODULE PiecewiseTerms ---------------------------
(***************************************************************************)
(* The syntax of cas/math/piecewise.py: a conditional value is the term    *)
(* Piecewise(v1, c1, v2, c2, ...), read first match first.  These are the  *)
(* operations that never ask whether a condition holds.                    *)
(***************************************************************************)
EXTENDS Terms

CONSTANT LiftBudget     \* LIFT_BRANCH_BUDGET

ASSUME LiftBudgetAssumption == LiftBudget \in Nat

Undefined == Special("Undefined")

IsPiecewise(t) == Kind(t) = "Piecewise" /\ Len(Args(t)) % 2 = 0

\* branches: a term that is not conditional has one branch that always applies.
Branches(t) ==
    IF IsPiecewise(t)
    THEN [i \in 1 .. Len(Args(t)) \div 2 |-> <<Args(t)[2 * i - 1], Args(t)[2 * i]>>]
    ELSE <<<<t, Bool(TRUE)>>>>

ConditionsOf(t) == [i \in DOMAIN Branches(t) |-> Branches(t)[i][2]]

\* What is kept of pairs: nothing that never applies, nothing after a branch
\* that always does.
Kept(pairs) ==
    LET live == SelectSeq(pairs, LAMBDA b : b[2] # Bool(FALSE))
        else == SelectInSeq(live, LAMBDA b : b[2] = Bool(TRUE))
    IN  IF else = 0 THEN live ELSE SubSeq(live, 1, else)

\* piecewise
Build(kept) ==
    IF kept = <<>> THEN Undefined
    ELSE IF Len(kept) = 1 /\ kept[1][2] = Bool(TRUE) THEN kept[1][1]
    ELSE <<"Piecewise", [i \in 1 .. 2 * Len(kept) |->
                            kept[(i + 1) \div 2][IF i % 2 = 1 THEN 1 ELSE 2]]>>

Piecewise(pairs) == Build(Kept(pairs))

\* Mutant: every branch with the same value is merged, adjacent or not.
MergeRuns_Anywhere(pairs) ==
    FoldLeft(LAMBDA out, b :
                LET same == SelectInSeq(out, LAMBDA c : c[1] = b[1])
                IN  IF same # 0
                    THEN [out EXCEPT ![same] = <<b[1], Or(<<@[2], b[2]>>)>>]
                    ELSE Append(out, b),
             <<>>, pairs)

\* _merge_runs: neighbours with the same value become one branch.
MergeRuns(pairs) ==
    FoldLeft(LAMBDA out, b :
                IF out # <<>> /\ Last(out)[1] = b[1]
                THEN Append(Front(out), <<b[1], Or(<<Last(out)[2], b[2]>>)>>)
                ELSE Append(out, b),
             <<>>, pairs)

\* BudgetExceeded is raised.
TooManyBranches == Special("BudgetExceeded")

\* The choices of one branch for every argument, the last argument's running
\* fastest.
Combinations(expansions) ==
    FoldLeft(LAMBDA combinations, expansion :
                FlattenSeq([i \in DOMAIN combinations |->
                    [j \in DOMAIN expansion |-> Append(combinations[i], expansion[j])]]),
             <<<<>>>>, expansions)

\* The branches of the lifted operation; one that never applies is dropped
\* when the result is built.
LiftPairs(op(_), expansions) ==
    [k \in DOMAIN Combinations(expansions) |->
        LET c == Combinations(expansions)[k]
        IN  <<op([i \in DOMAIN c |-> c[i][1]]), And([i \in DOMAIN c |-> c[i][2]])>>]

\* lift
Lift(op(_), terms) ==
    LET expansions == [i \in DOMAIN terms |-> MergeRuns(Branches(terms[i]))]
        total == FoldLeft(LAMBDA n, e : n * Len(e), 1, expansions)
    IN  IF \A i \in DOMAIN terms : ~IsPiecewise(terms[i]) THEN op(terms)
        ELSE IF total > LiftBudget THEN TooManyBranches
        ELSE Piecewise(LiftPairs(op, expansions))

\* Mutant: an inner branch forgets the condition it stands under.
Under_InnerOnly(value, condition) ==
    IF IsPiecewise(value) THEN Branches(value) ELSE <<<<value, condition>>>>

\* The branches a value contributes under the condition of its branch.
Under(value, condition) ==
    IF IsPiecewise(value)
    THEN [i \in DOMAIN Branches(value) |->
            <<Branches(value)[i][1], And(<<Branches(value)[i][2], condition>>)>>]
    ELSE <<<<value, condition>>>>

\* fold_nested: conditional values inside branches are pulled up.
RECURSIVE FoldNested(_)
FoldNested(t) ==
    IF ~IsPiecewise(t) THEN t
    ELSE Piecewise(FlattenSeq([i \in DOMAIN Branches(t) |->
            Under(FoldNested(Branches(t)[i][1]), Branches(t)[i][2])]))
===============================================================================
