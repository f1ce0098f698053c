------------------------------ MODULE MCCheckers ------------------------------
(***************************************************************************)
(* Equations and terms in x with poles at 0 and 1, an alias u for 1/x, and *)
(* a conditional value.                                                    *)
(***************************************************************************)
EXTENDS Checkers

MCNameOrder ==
    <<"And", "Eq", "Gt", "Ne", "Not", "Or", "Piecewise", "Plus", "Power", "Times",
      "Undefined", "u", "x", "y">>

x == Sym("x")
u == Sym("u")
One == Int_(1)
Two == Int_(2)
Inverse_(t) == Power(t, -1)
Square == Power(x, 2)
Quotient_(s, t) == Times(s, Inverse_(t))

\* x^(-1) as the parser builds it: the exponent is not a literal.
Unfolded == <<"Power", <<x, Times(Int_(-1), One)>>>>

MCDefinitions == {[n \in {"u"} |-> Inverse_(x)]}

Linear == Eq(Plus(Times(Two, x), One), Int_(3))
Fixed == Eq(Times(x, x), x)
Unity == Eq(Quotient_(x, x), One)
Reciprocal == Eq(Inverse_(x), x)
Removable == Eq(Quotient_(Plus(Square, Int_(-1)), Plus(x, Int_(-1))), Two)
Aliased == Eq(Times(u, x), Plus(x, Zero))
Term == Plus(Square, Inverse_(x))
Conditional == Piecewise(<<<<Inverse_(x), Ne(x, Zero)>>, <<x, Bool(TRUE)>>>>)
Chosen == Eq(Conditional, One)

MCOpenings ==
    {<<c>> : c \in {Linear, Fixed, Unity, Reciprocal, Removable, Aliased, Term, Inverse_(x),
                    Conditional}}
    \cup {<<Reciprocal, c>> : c \in {Fixed, Term, Chosen, Aliased}}
    \cup {<<Eq(x, Two), c>> : c \in {Linear, Reciprocal}}

MCOperands == {x, Plus(x, Int_(-1)), Inverse_(x), u}
MCCandidates == {Zero, One, Int_(-1)}
MCBranchings == {Ne(x, Zero), Fact("Gt", x, One)}
MCConstraints ==
    {[relation |-> Eq(Times(Sym("y"), x), One), unknown |-> Sym("y"), value |-> v] :
        v \in {Inverse_(x), x}}
MCContents ==
    {One, x, Quotient_(x, x), Times(x, Unfolded), Inverse_(x), Eq(x, One), Eq(One, One),
     Times(Two, x), Power(x, -2)}
MCPoints == {Rat(n, 2) : n \in {-4, -2, -1, 0, 1, 2, 3, 4}}
===============================================================================
