----------------------------- MODULE MCPartition -----------------------------
(***************************************************************************)
(* Conditional values in x with breakpoints at 0, 1/2 and 1 and at the     *)
(* irrational roots of two quadratics; two of them lie close together      *)
(* between 0 and 1, at sqrt(2) - 1 and sqrt(2) / 2.                        *)
(***************************************************************************)
EXTENDS Partition

MCNameOrder ==
    <<"And", "Eq", "Ge", "Gt", "Le", "Lt", "Ne", "Not", "Or", "Piecewise", "Plus",
      "Power", "Times", "Undefined", "x">>

x == Sym("x")
One == Int_(1)
Square == Power(x, 2)

AboveZero == Fact("Gt", x, Zero)
AtMostOne == Fact("Le", x, One)
AtHalf == Fact("Eq", Times(Int_(2), x), One)
NearZero == Fact("Lt", Times(Int_(2), Square), One)
RootHalf == Fact("Eq", Times(Int_(2), Square), One)
CloseRoots == Fact("Ge", Plus(Square, Times(Int_(2), x)), One)
DoubleRoot == Fact("Le", Plus(Square, One), Times(Int_(2), x))
Always == Fact("Lt", x, Plus(x, One))
Unreal == Fact("Gt", Square, Int_(-1))
Not(c) == Mk("Not", <<c>>)
OffHalf == Not(AtHalf)

TwoBranches(c, d) == Piecewise(<<<<One, c>>, <<Int_(2), d>>>>)

Linear == {AboveZero, OffHalf, Not(AtMostOne), Always}
Quadratic == {NearZero, RootHalf, CloseRoots, DoubleRoot, Unreal}
Compound == {And(<<NearZero, AboveZero>>), Or(<<AtHalf, RootHalf>>),
             Not(And(<<AboveZero, CloseRoots>>))}

\* The inner value is undefined on part of where the first branch applies.
MCPartlyNested ==
    {Piecewise(<<<<Piecewise(<<<<One, c>>>>), AboveZero>>, <<Int_(2), d>>>>) :
        c \in {CloseRoots, NearZero, AtMostOne}, d \in {Bool(TRUE), AtHalf}}
    \cup {Piecewise(<<<<TwoBranches(AtHalf, RootHalf), AtMostOne>>, <<Int_(3), Bool(TRUE)>>>>)}

MCConditionals ==
    {TwoBranches(c, d) : c \in Linear \cup Quadratic, d \in Quadratic}
    \cup {TwoBranches(c, d) : c \in Compound, d \in Linear}
    \cup {Piecewise(<<<<Int_(3), AtHalf>>, <<TwoBranches(c, Bool(TRUE)), d>>>>) :
            c \in {NearZero, AboveZero}, d \in Linear}
    \cup MCPartlyNested

SeparatorsOf(conditionals) ==
    {Product(AllBoundaries(ConditionsOf(FoldNested(t)))) : t \in conditionals}

MCInputs == SeparatorsOf(MCConditionals)

\* All roots, and a point between any two neighbours.
MCTestPoints ==
    {<<RInt(n), RZero>> : n \in {-3, -1, 0, 1, 2}}
    \cup {<<Rat(n, 20), RZero>> : n \in {-10, 5, 9, 10, 12, 15}}
    \cup {<<RZero, Rat(b, 2)>> : b \in {-1, 1}}
    \cup {<<RInt(-1), RInt(b)>> : b \in {-1, 1}}

-------------------------------------------------------------------------------
(* The numbers and points of the parameters of Cells.  What the parameters *)
(* stand for reads its table through a LET, behind which TLC's statistics  *)
(* of coverage do not look: they would go over the table's definition once *)
(* for every use of the parameter.                                         *)

TestRoots(p) == {u \in MCTestPoints : IsRoot(p, u)}

Inside(u, a, b) == Less2(Plain(a), u) /\ Less2(u, Plain(b))

\* Bound: an interval with one root in it is halved twice after it has ceased
\* to end at another one.
RECURSIVE Halvings(_, _, _, _)
Halvings(roots, a, b, times) ==
    LET inside == Cardinality({u \in roots : Inside(u, a, b)})
        m == Middle(a, b)
        left == IF inside > 1 \/ {Plain(a), Plain(b)} \cap roots # {} THEN times ELSE times - 1
    IN  IF inside = 0 \/ left < 0 THEN {a, b}
        ELSE Halvings(roots, a, m, left) \cup Halvings(roots, m, b, left)

SearchBounds(p) == <<RNeg(CauchyBound(p))>> \o RationalRoots(p) \o <<CauchyBound(p)>>

GridFor(p) ==
    IF Deg(p) <= 0 THEN {}
    ELSE UNION {Halvings(TestRoots(p), gap[1], gap[2], 2) :
                   gap \in Range(Gaps(SearchBounds(SquarefreePart(p))))}

Grids == Table([p \in MCInputs |-> GridFor(p)])
MCGrid(p) == LET grid == Grids IN IF p \in MCInputs THEN grid[p] ELSE {}

\* The polynomials of the conditions that share a separator, and constants.
ConditionSets == Table([t \in MCConditionals |-> ConditionsOf(FoldNested(t))])
FactorsFor(q) ==
    UNION {ToSet(polynomials) : polynomials \in
              {p \in {AllBoundaries(conditions) : conditions \in Range(ConditionSets)} :
                  Product(p) = q}}
    \cup {PZero, PConst(RInt(1)), PConst(RInt(-2))}
FactorSets == Table([q \in MCInputs |-> FactorsFor(q)])
MCFactors(q) == LET factors == FactorSets IN factors[q]

Judged == UNION {FactorsFor(q) : q \in MCInputs}

RootSets == Table([p \in MCInputs \cup Judged \cup {SquarefreePart(q) : q \in MCInputs \cup Judged}
                   |-> TestRoots(p)])
MCRootsOf(p) ==
    LET roots == RootSets IN IF p \in DOMAIN roots THEN roots[p] ELSE TestRoots(p)

MCPred(n) == RAdd[n, RInt(-1)]
MCSucc(n) == RAdd[n, RInt(1)]

\* The samples that may be taken beside the numbers of a grid, or in the middle
\* of two with at most one root between them.
SamplesOf(grid, roots) ==
    {MCPred(n) : n \in grid} \cup {MCSucc(n) : n \in grid}
    \cup {Middle(gap[1], gap[2]) :
             gap \in {gap \in grid \X grid :
                         /\ RLess(gap[1], gap[2])
                         /\ Cardinality({u \in roots : Inside(u, gap[1], gap[2])}) <= 1}}

LineFor(p) ==
    MCTestPoints \cup {Plain(n) : n \in {RZero} \cup GridFor(p)
                                          \cup SamplesOf(GridFor(p), TestRoots(p))}

Lines == Table([p \in MCInputs |-> LineFor(p)])
MCLine(p) == LET line == Lines IN line[p]

\* The order and the signs, tabulated: a point is before those of higher rank.
WholeLine == UNION {LineFor(p) : p \in MCInputs}
Ranks == Table([u \in WholeLine |-> Cardinality({v \in WholeLine : Less2(v, u)})])
MCBefore(u, v) == LET rank == Ranks IN rank[u] < rank[v]

Signs == Table([p \in Judged, u \in WholeLine |-> Sign2(PolyAt(p, u))])
MCSignOf(p, u) == LET sign == Signs IN sign[p, u]
===============================================================================
