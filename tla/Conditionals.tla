---------------------------- MODULE Conditionals ----------------------------
(***************************************************************************)
(* cas/math/piecewise.py where it asks the decision procedure: which       *)
(* branch of a conditional value applies under the facts assumed, and      *)
(* whether the branches cover everything; and is_zero of cas/math/judge.py *)
(* for terms with conditional values.                                      *)
(*                                                                         *)
(* The caller is that of Decisions, with more to ask about.                *)
(***************************************************************************)
EXTENDS Decisions, PiecewiseTerms

CONSTANTS
    Values,     \* terms with conditional values the caller may ask about
    Sums        \* sequences of terms whose sum it may have lifted

\* The verdict on every condition that occurs in t.
DecidedIn(t) ==
    LET conditionsIn == UNION {ToSet(ConditionsOf(s)) : s \in Subterms(t)}
    IN  Table([c \in conditionsIn |-> Decide(c, frame)])

VerdictsOn(t, decided) == [i \in DOMAIN Branches(t) |-> decided[Branches(t)[i][2]]]

Selected(value) == [kind |-> "value", term |-> value]
Residual(pairs, reason) == [kind |-> "residual", term |-> Piecewise(pairs), reason |-> reason]

\* What is selected when only these branches, by number, are left.
FirstOf(t, left, decided) ==
    IF left = <<>> THEN Selected(Undefined)
    ELSE LET first == Branches(t)[left[1]]
         IN  IF decided[first[2]] = Yes THEN Selected(first[1])
             ELSE Residual([k \in DOMAIN left |-> Branches(t)[left[k]]], decided[first[2]])

Numbers(t) == [i \in DOMAIN Branches(t) |-> i]

\* Mutant: a branch that applies is taken, whatever comes before it.
Select_AroundUnknown(t, decided) ==
    LET verdicts == VerdictsOn(t, decided)
    IN  FirstOf(t, SelectSeq(Numbers(t), LAMBDA i : IF Yes \in Range(verdicts)
                                                  THEN verdicts[i] = Yes
                                                  ELSE verdicts[i] # No), decided)

\* select: refuted branches are passed over; the first that is left decides,
\* and if it is undecided, all that are left remain.
Select(t, decided) ==
    FirstOf(t, SelectSeq(Numbers(t), LAMBDA i : decided[Branches(t)[i][2]] # No), decided)

\* Mutant: one refuted condition is a gap.
Coverage_AnyGap(t, decided) ==
    LET verdicts == Range(VerdictsOn(t, decided))
    IN  IF Yes \in verdicts THEN Yes ELSE IF No \in verdicts THEN No ELSE "guarded"

\* coverage
Coverage(t, decided) ==
    LET verdicts == Range(VerdictsOn(t, decided))
    IN  IF Yes \in verdicts THEN Yes ELSE IF verdicts = {No} THEN No ELSE "guarded"

\* collapse: conditional values inside are replaced by what they select;
\* Nothing if one of them is undecided.
RECURSIVE Collapse(_, _)
Collapse(t, decided) ==
    IF IsPiecewise(t)
    THEN LET s == Select(t, decided)
         IN  IF s.kind = "residual" THEN Nothing ELSE Collapse(s.term, decided)
    ELSE IF ~IsExpr(t) \/ Args(t) = <<>> THEN t
    ELSE LET args == [i \in DOMAIN Args(t) |-> Collapse(Args(t)[i], decided)]
         IN  IF Nothing \in Range(args) THEN Nothing ELSE Mk(Kind(t), args)

Has(t, part) == part \in Subterms(t)
HasPiecewise(t) == \E s \in Subterms(t) : IsPiecewise(s)

\* _is_zero: what is undefined is refuted before it is multiplied out.
IsZero(t, decided) ==
    IF ~HasPiecewise(t) THEN IF Has(t, Undefined) THEN No ELSE JudgeZero(t)
    ELSE LET s == Select(t, decided)
             c == Collapse(s.term, decided)
         IN  IF s.kind = "residual" THEN s.reason
             ELSE IF c = Nothing THEN "guarded"
             ELSE IF Has(c, Undefined) THEN No
             ELSE JudgeZero(Fold(c))

PlusOf(terms) == Mk("Plus", terms)

-------------------------------------------------------------------------------
(* The caller asks.                                                        *)

Reply(question, about, result) ==
    /\ answer = NoAnswer
    /\ answer' = [ask |-> question, about |-> about, result |-> result]
    /\ UNCHANGED frame

AskAbout(t, decided) ==
    \/ Reply("select", t, Select(t, decided))
    \/ Reply("collapse", t, Collapse(t, decided))
    \/ Reply("coverage", t, Coverage(t, decided))
    \/ Reply("zero", t, IsZero(t, decided))

\* lift reads no facts: it is enough to ask before any is assumed.
AskLift(terms) ==
    /\ frame = <<>>
    /\ Reply("lift", terms, Lift(PlusOf, terms))

ConditionalsNext ==
    \/ DecisionsNext
    \/ \E t \in Values : \E decided \in {DecidedIn(t)} : AskAbout(t, decided)
    \/ \E terms \in Sums : AskLift(terms)

ConditionalsSpec == DecisionsInit /\ [][ConditionalsNext]_decisionVars

-------------------------------------------------------------------------------
(* What a term with conditional values is in a world: the value of the     *)
(* first branch whose condition holds there, and undefined if none does or *)
(* if a part of it is undefined.                                           *)

Unvalued == <<>>

HoldsIn(c, w) == IF Kind(c) = "Bool" THEN c[2] ELSE Holds(c, w)

RECURSIVE ValueIn(_, _)
ValueIn(t, w) ==
    IF t = Undefined THEN Unvalued
    ELSE IF IsPiecewise(t)
    THEN LET i == SelectInSeq(Branches(t), LAMBDA b : HoldsIn(b[2], w))
         IN  IF i = 0 THEN Unvalued ELSE ValueIn(Branches(t)[i][1], w)
    ELSE IF Kind(t) \in {"Plus", "Times"}
    THEN LET parts == [i \in DOMAIN Args(t) |-> ValueIn(Args(t)[i], w)]
         IN  IF Unvalued \in Range(parts) THEN Unvalued
             ELSE IF Kind(t) = "Plus" THEN FoldLeft(QAdd, <<0, 1>>, parts)
             ELSE FoldLeft(QMul, <<1, 1>>, parts)
    ELSE Value(t, w)

SameValue(p, q) ==
    \/ p = Unvalued /\ q = Unvalued
    \/ p # Unvalued /\ q # Unvalued /\ p[1] * q[2] = q[1] * p[2]

\* What is selected or left over, what a term collapses to, and what is judged
\* to be zero, has in every world the frame allows the value of the term it was
\* asked about, but for the worlds decisions are not right about.
SelectionKeepsTheValue ==
    LET keeps(t) == \A w \in Elsewhere(frame) : SameValue(ValueIn(t, w), ValueIn(answer.about, w))
    IN  /\ answer.ask = "select" => keeps(answer.result.term)
        /\ answer.ask = "collapse" /\ answer.result # Nothing => keeps(answer.result)
        /\ answer.ask = "zero" /\ answer.result = Yes => keeps(Zero)

\* Branches are said to cover everything only if one applies in every world
\* the frame allows, and to leave a gap only if one does not.
CoverageHolds ==
    answer.ask = "coverage" =>
        LET covered(w) == \E i \in DOMAIN Branches(answer.about) :
                             HoldsIn(Branches(answer.about)[i][2], w)
        IN  /\ answer.result = Yes => \A w \in Elsewhere(frame) : covered(w)
            /\ answer.result = No => \A w \in Elsewhere(frame) : ~covered(w)

\* The lifted sum has in every world the sum of the values.
LiftIsPointwise ==
    answer.ask = "lift" /\ answer.result # TooManyBranches =>
        \A w \in World :
            SameValue(ValueIn(answer.result, w), ValueIn(<<"Plus", answer.about>>, w))
===============================================================================
