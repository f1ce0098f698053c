-------------------------------- MODULE Cells --------------------------------
(***************************************************************************)
(* cas/math/cad.py: the line cut at the roots of a polynomial into open    *)
(* cells and points, and the sign on each of them of the factors that the  *)
(* polynomial is the product of.                                           *)
(*                                                                         *)
(* The cells are read off the intervals that RootIsolation has found:      *)
(* cell 2 i is the i-th root, the odd ones are the open cells around them. *)
(***************************************************************************)
EXTENDS RootIsolation

CONSTANTS
    Factors(_),                 \* those whose signs are asked for between the
                                \* roots of their product, and any constants
    p_is_zero(_), p_deriv(_),
    Origin, Pred(_), Succ(_)    \* the numbers 0, n - 1 and n + 1

CONSTANT SignOf(_, _)           \* the sign a polynomial has at a point of the line

\* What samples are taken from.
Numbers(q) ==
    Grid(q) \cup {Half(m, n) : m, n \in Grid(q)}
    \cup {Pred(n) : n \in Grid(q)} \cup {Succ(n) : n \in Grid(q)} \cup {Origin}

\* The numbers that samples are taken at are points: those beside a number, and
\* the middle of two with at most one root between them.
SampleAssumption(q) ==
    /\ At(Origin) \in Line(q)
    /\ \A n \in Grid(q) :
          /\ {At(Pred(n)), At(Succ(n))} \subseteq Line(q)
          /\ Before(At(Pred(n)), At(n)) /\ Before(At(n), At(Succ(n)))
    /\ \A m, n \in Grid(q) :
          /\ Less(m, n)
          /\ \A r, s \in RootsOf(q) : Between(r, m, n) /\ Between(s, m, n) => r = s
          => At(Half(m, n)) \in Line(q)

\* p has no sign at its roots, and no other sign between two points without a
\* root between them; its sign at a number is that at its point.
SignAssumption(p, line, numbers) ==
    /\ \A u \in line : SignOf(p, u) = 0 <=> p_is_zero(p) \/ u \in RootsOf(p)
    /\ \A u, v \in line : Before(u, v) /\ SignOf(p, u) # SignOf(p, v) =>
          \E r \in RootsOf(p) : (r = u \/ Before(u, r)) /\ (r = v \/ Before(r, v))
    /\ \A n \in numbers : At(n) \in line => sign_at(p, n) = SignOf(p, At(n))

\* The roots of a factor are among those of the product; its own squarefree
\* part counts them, unless it is a constant, whose derivative is zero.
FactorAssumption(p, q) ==
    ~p_is_zero(p) =>
        /\ RootsOf(p) \subseteq RootsOf(q)
        /\ ~p_is_zero(p_deriv(squarefree_part(p))) =>
              /\ RootsOf(squarefree_part(p)) = RootsOf(p)
              /\ CountAssumption(squarefree_part(p), sturm_sequence(squarefree_part(p)),
                                 Grid(q))

ASSUME CellsAssumption ==
    \A q \in Inputs :
        /\ p_deg(q) >= 0
        /\ SampleAssumption(q)
        /\ \A p \in Factors(q) :
              SignAssumption(p, Line(q), Numbers(q)) /\ FactorAssumption(p, q)

-------------------------------------------------------------------------------

Cell == 1 .. 2 * Len(found) + 1
IsPoint(k) == k % 2 = 0
IsoOf(k) == found[k \div 2]

\* The sample of an open cell.
Sample(k) ==
    CASE found = <<>> -> Origin
      [] found # <<>> /\ k = 1 -> Pred(found[1][1])
      [] found # <<>> /\ k = 2 * Len(found) + 1 -> Succ(found[Len(found)][2])
      [] OTHER -> Half(found[k \div 2][2], found[k \div 2 + 1][1])

\* Mutant: at a root that is not exact, the midpoint stands for the root.
SignInside_Midpoint(p, a, b) == sign_at(p, Half(a, b))

\* The sign at the root isolated by a and b: zero if p has it too, and
\* otherwise the sign p has throughout the interval.
SignInside(p, a, b) ==
    LET own == squarefree_part(p)
    IN  IF count_roots_open(sturm_sequence(own), own, a, b) >= 1 THEN 0
        ELSE sign_at(p, Half(a, b))

\* sign_at_cell
SignAtCell(p, k) ==
    IF p_is_zero(p) THEN 0
    ELSE IF ~IsPoint(k) THEN sign_at(p, Sample(k))
    ELSE IF IsoOf(k)[1] = IsoOf(k)[2] THEN sign_at(p, IsoOf(k)[1])
    ELSE SignInside(p, IsoOf(k)[1], IsoOf(k)[2])

\* A nonzero constant has no Sturm chain: its derivative is divided by.
Raises(p, k) ==
    /\ IsPoint(k) /\ IsoOf(k)[1] # IsoOf(k)[2]
    /\ ~p_is_zero(p)
    /\ p_is_zero(p_deriv(squarefree_part(p)))

\* _mk_component for the cells from first to last; an end that is no root is
\* open to infinity.
Component(first, last) ==
    [cells |-> first .. last,
     lo |-> IF first = 1 THEN <<>> ELSE found[first \div 2], loClosed |-> IsPoint(first),
     hi |-> IF last = 2 * Len(found) + 1 THEN <<>> ELSE found[(last + 1) \div 2],
     hiClosed |-> IsPoint(last)]

\* Mutant: a component goes on through a single undefined cell.
Runs_BridgeGap(defined) ==
    {run \in defined \X defined :
        /\ run[1] <= run[2]
        /\ \A k \in run[1] .. run[2] :
              k \in defined \/ (IsPoint(k) /\ run[1] < k /\ k < run[2])
        /\ run[1] - 1 \notin defined /\ run[2] + 1 \notin defined}

\* The maximal runs of cells in which the value is defined.
Runs(defined) ==
    {run \in defined \X defined :
        /\ run[1] <= run[2]
        /\ run[1] .. run[2] \subseteq defined
        /\ run[1] - 1 \notin defined /\ run[2] + 1 \notin defined}

-------------------------------------------------------------------------------

\* u lies beyond, before the root that found[i] isolates.
Beyond(u, i) == \E r \in RootsOf(asked) : Before(r, u) /\ Isolated(r, found[i])
Ahead(u, i) == \E r \in RootsOf(asked) : Before(u, r) /\ Isolated(r, found[i])

\* u lies in cell k: it is the root, or beyond one root and before the next.
InCell(u, k) ==
    IF IsPoint(k) THEN u \in RootsOf(asked) /\ Isolated(u, IsoOf(k))
    ELSE /\ k > 1 => Beyond(u, k \div 2)
         /\ k < 2 * Len(found) + 1 => Ahead(u, k \div 2 + 1)

\* u is beyond the lower end of component c, or on it when that end is closed.
AboveLow(u, c) ==
    c.lo # <<>> => \E r \in RootsOf(asked) :
                      Isolated(r, c.lo) /\ (Before(r, u) \/ (c.loClosed /\ r = u))
BelowHigh(u, c) ==
    c.hi # <<>> => \E r \in RootsOf(asked) :
                      Isolated(r, c.hi) /\ (Before(u, r) \/ (c.hiClosed /\ r = u))

\* The cells cover the line without overlap, and the sign computed for a factor
\* on a cell, from one sample or a count of roots, is the sign that it has at
\* every point of the cell, irrational ones included, unless this raises.
SignsHold ==
    phase = "done" =>
        \A u \in Line(asked) : \E k \in Cell :
            /\ \A j \in Cell : InCell(u, j) <=> j = k
            /\ \A p \in Factors(asked) : Raises(p, k) \/ SignAtCell(p, k) = SignOf(p, u)
===============================================================================
