------------------------------ MODULE Partition ------------------------------
(***************************************************************************)
(* The conditions of a conditional value on the cells of cas/math/cad.py,  *)
(* and the parts of cas/math/piecewise.py that read them: the line is cut  *)
(* at the roots of all conditions, so that each is constant on every cell, *)
(* and so is the value.                                                    *)
(*                                                                         *)
(* term    the conditional value resolved (domain_cells), in one variable  *)
(* flat    the same, flattened                                             *)
(***************************************************************************)
EXTENDS Cells, Polynomials, PiecewiseTerms

CONSTANTS
    Variable,       \* the variable of the partition
    Conditionals    \* terms that may be resolved

VARIABLES term, flat

partitionVars == <<isolationVars, term, flat>>

Comparisons == {"Lt", "Le", "Gt", "Ge", "Eq", "Ne"}

\* _boundary: both sides' difference, a polynomial in every condition here.
Boundary(c) == FromTerm(Difference(Args(c)[1], Args(c)[2]), Variable)

\* extract_boundary_polys: those that can be zero somewhere and elsewhere not.
RECURSIVE Boundaries(_)
Boundaries(c) ==
    IF Kind(c) \in Comparisons
    THEN IF Deg(Boundary(c)) > 0 THEN <<Boundary(c)>> ELSE <<>>
    ELSE IF Kind(c) = "Bool" THEN <<>>
    ELSE FlattenSeq([i \in DOMAIN Args(c) |-> Boundaries(Args(c)[i])])

\* cells: the polynomial whose roots separate the cells.
Product(polynomials) == FoldLeft(PMul, PConst(RInt(1)), polynomials)

AllBoundaries(conditions) ==
    FlattenSeq([i \in DOMAIN conditions |-> Boundaries(conditions[i])])

-------------------------------------------------------------------------------
(* Labels, once the roots are isolated.                                    *)

\* A label is "true" or "false", or "raised" when it cannot be computed.
Answer(b) == IF b THEN "true" ELSE "false"

ApplyCmp(op, sign) ==
    Answer(CASE op = "Lt" -> sign < 0
             [] op = "Le" -> sign <= 0
             [] op = "Gt" -> sign > 0
             [] op = "Ge" -> sign >= 0
             [] op = "Eq" -> sign = 0
             [] OTHER -> sign # 0)

\* The first part that is not the neutral one decides.
FirstOther(parts, neutral) ==
    LET i == SelectInSeq(parts, LAMBDA l : l # neutral)
    IN  IF i = 0 THEN neutral ELSE parts[i]

\* cond_holds
RECURSIVE CondHolds(_, _)
CondHolds(c, k) ==
    LET parts == [i \in DOMAIN Args(c) |-> CondHolds(Args(c)[i], k)]
    IN  CASE Kind(c) = "Bool" -> Answer(c[2])
          [] Kind(c) = "And" -> FirstOther(parts, "true")
          [] Kind(c) = "Or" -> FirstOther(parts, "false")
          [] Kind(c) = "Not" ->
                IF parts[1] = "raised" THEN "raised" ELSE Answer(parts[1] = "false")
          [] OTHER ->
                IF Raises(Boundary(c), k) THEN "raised"
                ELSE ApplyCmp(Kind(c), SignAtCell(Boundary(c), k))

\* resolve_partition: for every cell the truth value of every condition.
Labels ==
    [k \in Cell |-> [i \in DOMAIN Branches(flat) |-> CondHolds(Branches(flat)[i][2], k)]]

\* The value of the first branch labelled true.
FirstMatch(holds) ==
    LET i == SelectInSeq(holds, LAMBDA l : l = "true")
    IN  IF i = 0 THEN Undefined ELSE Branches(flat)[i][1]

\* domain_cells
DomainCells(labels) == [k \in Cell |-> FirstMatch(labels[k])]

\* connected_components
ConnectedComponents(values) ==
    {Component(run[1], run[2]) : run \in Runs({k \in Cell : values[k] # Undefined})}

PartitionInit ==
    /\ IsolationInit
    /\ term = Undefined
    /\ flat = Undefined

\* domain_cells flattens the term; resolve_partition asks for the roots of all
\* conditions together.
Flattened == Table([t \in Conditionals |-> FoldNested(t)])
Separator == Table([t \in Conditionals |-> Product(AllBoundaries(ConditionsOf(Flattened[t])))])

Resolve(t) ==
    /\ Ask(Separator[t])
    /\ term' = t
    /\ flat' = Flattened[t]

Work == Compute /\ UNCHANGED <<term, flat>>

PartitionNext == (\E t \in Conditionals : Resolve(t)) \/ Work

PartitionSpec ==
    /\ PartitionInit
    /\ [][PartitionNext]_partitionVars
    /\ WF_partitionVars(Work)

-------------------------------------------------------------------------------
(* The reference: exact evaluation at points a + b sqrt(2), <<a, b>> with  *)
(* rational a and b, knowing nothing of roots and cells.                   *)

CONSTANT TestPoints     \* with every real root of every condition among them

Sum2(u, v) == <<RAdd[u[1], v[1]], RAdd[u[2], v[2]]>>
Prod2(u, v) ==
    <<RAdd[RMul[u[1], v[1]], RMul[RInt(2), RMul[u[2], v[2]]]],
      RAdd[RMul[u[1], v[2]], RMul[u[2], v[1]]]>>

\* Of a and b sqrt(2), the one with the larger square has the sign.
Sign2(u) ==
    IF u[2] = RZero \/ RLess(RMul[RInt(2), RMul[u[2], u[2]]], RMul[u[1], u[1]])
    THEN CoefSign(u[1]) ELSE CoefSign(u[2])

Minus2(u, v) == Sum2(u, <<RNeg(v[1]), RNeg(v[2])>>)
Less2(u, v) == Sign2(Minus2(u, v)) < 0
Plain(q) == <<q, RZero>>

RECURSIVE TermAt(_, _)
TermAt(t, u) ==
    CASE IsNum(t) -> Plain(RInt(NumVal(t)))
      [] t = Variable -> u
      [] Kind(t) = "Plus" ->
            FoldLeft(LAMBDA s, a : Sum2(s, TermAt(a, u)), Plain(RZero), Args(t))
      [] Kind(t) = "Times" ->
            FoldLeft(LAMBDA s, a : Prod2(s, TermAt(a, u)), Plain(RInt(1)), Args(t))
      [] Kind(t) = "Power" ->
            FoldLeft(LAMBDA s, i : Prod2(s, TermAt(Args(t)[1], u)), Plain(RInt(1)),
                     [i \in 1 .. NumVal(Args(t)[2]) |-> i])

RECURSIVE HoldsAt(_, _)
HoldsAt(c, u) ==
    CASE Kind(c) = "Bool" -> c[2]
      [] Kind(c) = "And" -> \A i \in DOMAIN Args(c) : HoldsAt(Args(c)[i], u)
      [] Kind(c) = "Or" -> \E i \in DOMAIN Args(c) : HoldsAt(Args(c)[i], u)
      [] Kind(c) = "Not" -> ~HoldsAt(Args(c)[1], u)
      [] OTHER -> ApplyCmp(Kind(c), Sign2(Minus2(TermAt(Args(c)[1], u),
                                                 TermAt(Args(c)[2], u)))) = "true"

\* First match, branch by branch and inwards: a branch that applies is the
\* last one looked at.
RECURSIVE ValueAt(_, _)
ValueAt(t, u) ==
    LET i == SelectInSeq(Branches(t), LAMBDA b : HoldsAt(b[2], u))
    IN  IF ~IsPiecewise(t) THEN t
        ELSE IF i = 0 THEN Undefined
        ELSE ValueAt(Branches(t)[i][1], u)

\* A polynomial, evaluated term by term.
PolyAt(p, u) ==
    LET power(n) == FoldLeft(LAMBDA s, i : Prod2(s, u), Plain(RInt(1)), [i \in 1 .. n |-> i])
    IN  FoldSet(LAMBDA e, s : Sum2(s, Prod2(Plain(p[e]), power(e))), Plain(RZero), DOMAIN p)

IsRoot(p, u) == PolyAt(p, u) = Plain(RZero)

-------------------------------------------------------------------------------

\* Whether every conditional value inside a branch has a value everywhere.
RECURSIVE NestedTotal(_)
NestedTotal(t) ==
    \A i \in DOMAIN Branches(t) :
        IsPiecewise(Branches(t)[i][1]) =>
            /\ \A u \in TestPoints : ValueAt(Branches(t)[i][1], u) # Undefined
            /\ NestedTotal(Branches(t)[i][1])

Raised(labels) == \E k \in DOMAIN labels : "raised" \in Range(labels[k])

HasDomain(labels) == ~Raised(labels) /\ NestedTotal(term)

\* Whether the value given for a cell has to be the first match of the nested term
\* at its point u: where there is no first match an inner branch is passed over,
\* unless the conditional values inside are total.
Resolved(u) == ValueAt(term, u) # Undefined \/ NestedTotal(term)

\* What a condition is said to be on a cell it is at every point of the cell, and
\* the value given for the cell is the first match of the original, nested term
\* there, wherever there is one; a term whose nested values are total has none
\* only on cells without a value.
CellsHaveTheValue ==
    phase = "done" =>
        LET labels == Table(Labels)
            values == Table(DomainCells(labels))
        IN  \A u \in TestPoints : \A k \in {k \in Cell : InCell(u, k)} :
                /\ \A i \in DOMAIN labels[k] :
                      labels[k][i] \in {"raised", Answer(HoldsAt(Branches(flat)[i][2], u))}
                /\ ~Raised(labels) /\ Resolved(u) => values[k] = ValueAt(term, u)

\* Two points are in one component exactly if nothing between them is without
\* a value.
Connected(containing, defined) ==
    \A u, v \in defined : Less2(u, v) =>
        (containing[u] = containing[v]
         <=> \A w \in TestPoints : Less2(u, w) /\ Less2(w, v) => w \in defined)

\* The components are the connected parts of the domain: a point has a value
\* exactly if it lies within the ends of one component.
ComponentsAreConnected ==
    phase = "done" =>
        LET labels == Table(Labels)
            components == ConnectedComponents(Table(DomainCells(labels)))
            containing == Table([u \in TestPoints |->
                              {c \in components : AboveLow(u, c) /\ BelowHigh(u, c)}])
            defined == {u \in TestPoints : ValueAt(term, u) # Undefined}
        IN  HasDomain(labels) =>
                /\ \A u \in TestPoints :
                      Cardinality(containing[u]) = IF u \in defined THEN 1 ELSE 0
                /\ Connected(containing, defined)

RECURSIVE Multiplicity(_, _)
Multiplicity(p, u) == IF IsRoot(p, u) THEN 1 + Multiplicity(Deriv(p), u) ELSE 0

\* Yun's decomposition: the factors make up the polynomial, and a root of
\* multiplicity k is a root of the factor with multiplicity k and of no other.
Decomposes(factors) ==
    /\ Monic(asked) = FoldLeft(LAMBDA p, f : PMul(p, PPow(f[1], f[2])),
                               PConst(RInt(1)), factors)
    /\ \A u \in RootsOf(asked) : \A i \in DOMAIN factors :
          IsRoot(factors[i][1], u) <=> factors[i][2] = Multiplicity(asked, u)

\* What tells common roots apart does: the squarefree decomposition agrees with
\* the multiplicities, and the resultant of two conditions' polynomials vanishes
\* exactly if they have a factor in common.
FactorsTell ==
    phase = "done" =>
        /\ Deg(asked) > 0 => Decomposes(Squarefree(asked))
        /\ \A p, q \in ToSet(AllBoundaries(ConditionsOf(flat))) :
              (Resultant(p, q) = RZero) <=> Deg(PGcd(p, q)) > 0

\* Isolation comes to an end, however close the roots are.
IsolationEnds == (phase = "isolate") ~> (phase = "done")
===============================================================================
