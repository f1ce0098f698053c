----------------------------- MODULE MCDecisions -----------------------------
(***************************************************************************)
(* Two symbols, pi, and the constant i that is not real; the absolute      *)
(* value and the sine by their declared ranges.  A world picks the values  *)
(* among halves around zero and the point at which x + pi is zero, with pi *)
(* inside its declared bounds and the sine anywhere in its range.          *)
(***************************************************************************)
EXTENDS Conditionals

MCNameOrder ==
    <<"Abs", "And", "Attr", "Eq", "Ge", "Gt", "Le", "Lt", "Ne", "Not", "Or", "Piecewise",
      "Plus", "Power", "Sin", "Times", "Undefined", "i", "integer", "pi", "x", "y">>

MCConstBounds == [c \in {"pi"} |-> <<3, 4>>]

MCFunBounds ==
    [h \in {"Abs", "Sin"} |->
        IF h = "Abs" THEN [lo |-> <<0, FALSE>>, up |-> <<>>]
        ELSE [lo |-> <<-1, FALSE>>, up |-> <<1, FALSE>>]]

Halves == {<<-3, 2>>, <<-1, 2>>, <<0, 2>>, <<1, 2>>, <<2, 2>>, <<3, 2>>}

MCWorld ==
    {[n \in {"x", "y", "pi", "Sin"} |->
        CASE n = "x" -> vx [] n = "y" -> vy [] n = "pi" -> <<13, 4>> [] OTHER -> vs]
        : vx \in Halves \cup {<<-13, 4>>}, vy \in Halves, vs \in {<<-1, 1>>, <<1, 2>>}}

x == Sym("x")
y == Sym("y")
i == Const("i")
pi == Const("pi")
One == Int_(1)
Abs(t) == <<"Abs", <<t>>>>
Sin(t) == <<"Sin", <<t>>>>
Sum == Plus(x, y)
Product == Times(x, y)

MCAssumable ==
    {Fact("Gt", x, Zero), Fact("Ge", x, One), Fact("Lt", y, Zero), Fact("Lt", x, y),
     Fact("Ne", x, Zero), Fact("Eq", x, y), Fact("Eq", Product, Zero),
     Fact("Le", Times(Int_(2), x), One),
     Fact("Le", i, Zero), Fact("Gt", Abs(y), One),
     Fact("Le", x, Zero), Fact("Ge", Plus(x, pi), Zero),
     Fact("Attr", x, Sym("integer"))}

MCTerms ==
    {x, y, Sum, Plus(x, Neg(y)), Times(Int_(-2), x), Product, Power(x, 2),
     Power(y, 3), Times(x, Power(y, 2)), Plus(x, Power(x, 2)), Abs(x),
     Plus(Abs(y), x), Times(y, Sin(x)), Plus(x, pi)}

MCQuestions ==
    {Fact(op, t, Zero) : op \in Comparisons, t \in MCTerms}
    \cup {Fact(op, x, y) : op \in Comparisons}
    \cup {Fact(op, t, One) : op \in Comparisons, t \in {x, Sum, Product}}
    \cup {Mk("Or", <<Fact("Gt", y, Zero), Fact("Lt", x, Zero)>>),
          Mk("And", <<Fact("Lt", x, One), Mk("Not", <<Fact("Lt", y, x)>>)>>)}

MCConstraints ==
    {<<>>, <<Fact("Gt", x, y), Fact("Ge", y, One)>>,
     <<Fact("Ge", x, Zero), Fact("Lt", x, y)>>,
     <<Fact("Ge", x, Zero), Fact("Le", x, Zero)>>,
     <<Fact("Gt", Product, Zero), Fact("Ne", x, y), Fact("Le", x, One)>>,
     <<Fact("Eq", Product, Zero), Fact("Ne", y, Zero), Fact("Ne", x, Zero)>>}

\* x^2 = y^2 at y and at -y, and x y = y at 1, under conditions on x.
MCCandidates ==
    {[equation |-> Fact("Eq", Power(x, 2), Power(y, 2)), variable |-> x,
      value |-> v, guards |-> gs]
        : v \in {y, Neg(y), One},
          gs \in {<<>>, <<Fact("Ge", x, Zero), Fact("Ne", x, One)>>}}
    \cup {[equation |-> Fact("Eq", Product, y), variable |-> x,
           value |-> One, guards |-> <<Fact("Gt", x, y)>>]}

-------------------------------------------------------------------------------
(* Conditional values: with and without a last branch for everything else, *)
(* overlapping, nested, and inside a sum or a product; two that are zero   *)
(* where they have a value.                                                *)

Else == Bool(TRUE)
IsAbove(t) == Fact("Gt", t, Zero)
NotPositive == Piecewise(<<<<Neg(x), Fact("Lt", x, Zero)>>, <<Zero, Fact("Lt", x, One)>>>>)
Absolute == Piecewise(<<<<x, IsAbove(x)>>, <<Neg(x), Else>>>>)
Minimum == Piecewise(<<<<x, Fact("Lt", x, y)>>, <<y, Fact("Ge", x, y)>>>>)
Overlapping ==
    Piecewise(<<<<y, IsAbove(y)>>, <<x, Fact("Lt", x, One)>>, <<y, Fact("Ge", x, Zero)>>>>)
Both ==
    Piecewise(<<<<Zero, And(<<IsAbove(x), IsAbove(y)>>)>>, <<One, Or(<<IsAbove(x), IsAbove(y)>>)>>>>)
Nested == Piecewise(<<<<Minimum, IsAbove(x)>>, <<One, Fact("Lt", x, y)>>>>)

MCValues ==
    {NotPositive, Times(Zero, NotPositive), Overlapping, Nested,
     Plus(Absolute, Neg(x)), Plus(Minimum, Times(y, Both))}

MCSums ==
    {<<v, w>> : v \in {x, Absolute, Minimum, Overlapping, Both},
               w \in {y, Minimum, NotPositive}}

-------------------------------------------------------------------------------
(* A case in which an answer does not hold, by itself.                     *)

MCNone == {}

MCProductFacts == {Fact("Eq", x, Zero), Fact("Ne", x, Zero)}
MCProductQuestions == {Fact("Eq", Product, One), Fact("Eq", Times(Int_(2), x), One)}
===============================================================================
