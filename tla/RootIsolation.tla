---------------------------- MODULE RootIsolation ----------------------------
(***************************************************************************)
(* cas/math/realroot.py: isolation of the real roots of a polynomial by    *)
(* counting roots in intervals and halving these, one step of its loops at *)
(* a time.                                                                 *)
(*                                                                         *)
(* Polynomials and fractions are parameters: their arithmetic is that of   *)
(* Polynomials.  What is needed of it is IsolationAssumption, in which     *)
(* Sturm's theorem and the Cauchy bound have a line to themselves.         *)
(*                                                                         *)
(* asked    the polynomial whose roots are wanted                          *)
(* reduced  its squarefree part                                            *)
(* chain    the Sturm chain of that                                        *)
(* phase    "idle", "isolate" (_iso_open), "refine" (_refine_gaps), "done" *)
(* pending  isolate: the open intervals still to be searched, next first   *)
(* found    the intervals found: <<r, r>> for an exact root, <<a, b>> for  *)
(*          the only root strictly between a and b                         *)
(* place    refine: the interval looked at in this pass                    *)
(* changed  refine: whether this pass has shrunk anything                  *)
(***************************************************************************)
EXTENDS Integers, Sequences, FiniteSets

CONSTANTS
    Inputs,                         \* polynomials somebody may ask about
    Unasked,                        \* the polynomial of a search not begun
    Grid(_),                        \* bound: the numbers that the search for the
                                    \* roots of a polynomial may come to
    p_deg(_), squarefree_part(_), sturm_sequence(_), rational_roots(_),
    cauchy_bound(_),
    count_roots_open(_, _, _, _),   \* by chain and polynomial, between two numbers
    sign_at(_, _),                  \* coef_sign of p_eval_at
    Less(_, _), Minus(_), Half(_, _)    \* of fractions: <, unary -, (a + b) / 2

\* The real line, to read numbers and roots in.
CONSTANTS
    Line(_),                        \* bound: the points that are looked at for
                                    \* a polynomial
    Before(_, _),                   \* the order of the line
    At(_),                          \* number -> the point there
    RootsOf(_)                      \* polynomial -> its real roots

Between(u, a, b) == Before(At(a), u) /\ Before(u, At(b))

LineAssumption(line) ==
    /\ \A u \in line : ~Before(u, u)
    /\ \A u, v \in line : u = v \/ Before(u, v) \/ Before(v, u)
    /\ \A u, v \in line : Before(u, v) =>
          \A w \in line : Before(v, w) => Before(u, w)

\* Numbers are points, in the same order, the middle of two between them.
NumberAssumption(p) ==
    /\ \A m \in Grid(p) : At(m) \in Line(p)
    /\ \A m, n \in Grid(p) :
          /\ Less(m, n) <=> Before(At(m), At(n))
          /\ At(m) = At(n) => m = n
          /\ Less(m, n) /\ At(Half(m, n)) \in Line(p) => Between(At(Half(m, n)), m, n)

\* Sturm's theorem for p and its chain.
CountAssumption(p, sturm, numbers) ==
    \A m, n \in numbers : Less(m, n) =>
        count_roots_open(sturm, p, m, n)
            = Cardinality({u \in RootsOf(p) : Between(u, m, n)})

\* The roots of p can be told by its squarefree part q: its sign vanishes at
\* them, its rational roots are among them, the Cauchy bound is beyond them.
RootAssumption(p, q) ==
    /\ RootsOf(p) \subseteq Line(p) /\ IsFiniteSet(RootsOf(p))
    /\ RootsOf(q) = RootsOf(p)
    /\ \A n \in Grid(p) : sign_at(q, n) = 0 <=> At(n) \in RootsOf(p)
    /\ rational_roots(q) \in Seq(Grid(p))
    /\ \A i \in DOMAIN rational_roots(q) : At(rational_roots(q)[i]) \in RootsOf(p)
    /\ \A i, j \in DOMAIN rational_roots(q) :
          i < j => Less(rational_roots(q)[i], rational_roots(q)[j])
    /\ {Minus(cauchy_bound(q)), cauchy_bound(q)} \subseteq Grid(p)
    /\ Less(Minus(cauchy_bound(q)), cauchy_bound(q))
    /\ \A u \in RootsOf(p) : Between(u, Minus(cauchy_bound(q)), cauchy_bound(q))

ASSUME IsolationAssumption ==
    /\ \A line \in {Line(p) : p \in Inputs} : LineAssumption(line)
    /\ p_deg(Unasked) \in Int /\ p_deg(Unasked) < 0
    /\ \A p \in Inputs :
          /\ p_deg(p) \in Int
          /\ p_deg(p) = 0 => RootsOf(p) = {}
          /\ p_deg(p) > 0 =>
                /\ NumberAssumption(p)
                /\ RootAssumption(p, squarefree_part(p))
                /\ CountAssumption(squarefree_part(p), sturm_sequence(squarefree_part(p)),
                                   Grid(p))

VARIABLES asked, reduced, chain, phase, pending, found, place, changed

inputVars == <<asked, reduced, chain>>
isolationVars == <<inputVars, phase, pending, found, place, changed>>

IsolationInit ==
    /\ asked = Unasked
    /\ reduced = Unasked
    /\ chain = <<>>
    /\ phase = "idle"
    /\ pending = <<>>
    /\ found = <<>>
    /\ place = 0
    /\ changed = FALSE

\* The gaps between successive bounds.
Gaps(bounds) == [i \in 1 .. Len(bounds) - 1 |-> <<bounds[i], bounds[i + 1]>>]

\* Mutant: the search ends at the outermost rational roots.
Bounds_Inner(p) ==
    IF rational_roots(p) = <<>> THEN <<Minus(cauchy_bound(p)), cauchy_bound(p)>>
    ELSE rational_roots(p)

Bounds(p) == <<Minus(cauchy_bound(p))>> \o rational_roots(p) \o <<cauchy_bound(p)>>

\* Exact roots are intervals with one point.
Exact(roots) == [i \in DOMAIN roots |-> <<roots[i], roots[i]>>]

\* real_roots_intervals up to its loop: rational roots are exact, the others
\* lie between them inside the Cauchy bound.
Search(p) ==
    /\ asked' = p
    /\ reduced' = squarefree_part(p)
    /\ chain' = sturm_sequence(reduced')
    /\ found' = Exact(rational_roots(reduced'))
    /\ pending' = Gaps(Bounds(reduced'))
    /\ phase' = "isolate"

\* real_roots_intervals: a constant has no roots to isolate.
Ask(p) ==
    /\ phase = "idle"
    /\ IF p_deg(p) > 0 THEN Search(p)
       ELSE /\ asked' = p
            /\ phase' = "done"
            /\ UNCHANGED <<reduced, chain, pending, found>>
    /\ UNCHANGED <<place, changed>>

\* Bound: the ends of intervals stay within reach.
InReach(intervals) == \A i \in DOMAIN intervals : intervals[i] \in Grid(asked) \X Grid(asked)

\* _iso_open for the next open interval, in which there are so many roots and
\* in whose middle is m; its two recursive calls come before everything else
\* that is pending.
Bisect(a, b, roots, m) ==
    /\ pending' = (IF roots > 1 THEN <<<<a, m>>, <<m, b>>>> ELSE <<>>) \o Tail(pending)
    /\ found' = IF roots = 1 THEN Append(found, <<a, b>>)
                ELSE IF roots > 1 /\ sign_at(reduced, m) = 0 THEN Append(found, <<m, m>>)
                ELSE found

Isolate ==
    /\ phase = "isolate"
    /\ pending # <<>>
    /\ LET a == Head(pending)[1]
           b == Head(pending)[2]
       IN  \E roots \in {count_roots_open(chain, reduced, a, b)}, m \in {Half(a, b)} :
              Bisect(a, b, roots, m)
    /\ InReach(pending')
    /\ UNCHANGED <<inputVars, phase, place, changed>>

\* The arrangements of the indices by lower end, equal ones as they were.
SortingOrders(intervals) ==
    {order \in [DOMAIN intervals -> DOMAIN intervals] :
        \A i, j \in DOMAIN intervals : i < j =>
            \/ Less(intervals[order[i]][1], intervals[order[j]][1])
            \/ /\ intervals[order[i]][1] = intervals[order[j]][1]
               /\ order[i] < order[j]}

\* Stable sort by the lower end.
StartRefining ==
    /\ phase = "isolate"
    /\ pending = <<>>
    /\ phase' = "refine"
    /\ \E order \in SortingOrders(found) :
          found' = [i \in DOMAIN found |-> found[order[i]]]
    /\ place' = 1
    /\ changed' = FALSE
    /\ UNCHANGED <<inputVars, pending>>

\* _shrink
Shrink(a, b) ==
    IF a = b THEN <<a, b>>
    ELSE LET m == Half(a, b)
         IN  IF sign_at(reduced, m) = 0 THEN <<m, m>>
             ELSE IF count_roots_open(chain, reduced, a, m) >= 1 THEN <<a, m>> ELSE <<m, b>>

Touching(left, right) == ~Less(left[2], right[1])

\* _refine_gaps: the next two neighbours.
RefineNeighbours ==
    /\ phase = "refine"
    /\ place < Len(found)
    /\ IF Touching(found[place], found[place + 1])
       THEN /\ found' = [found EXCEPT
                    ![place] = Shrink(found[place][1], found[place][2]),
                    ![place + 1] = Shrink(found[place + 1][1], found[place + 1][2])]
            /\ changed' = TRUE
       ELSE UNCHANGED <<found, changed>>
    /\ InReach(found')
    /\ place' = place + 1
    /\ UNCHANGED <<inputVars, phase, pending>>

\* Mutant: a pass does not begin with nothing changed.
EndPass_KeepsChanged ==
    /\ phase = "refine"
    /\ place >= Len(found)
    /\ IF changed
       THEN /\ place' = 1
            /\ UNCHANGED <<changed, phase>>
       ELSE /\ phase' = "done"
            /\ UNCHANGED <<place, changed>>
    /\ UNCHANGED <<inputVars, pending, found>>

\* _refine_gaps: the end of a pass, after which nothing or everything again.
EndPass ==
    /\ phase = "refine"
    /\ place >= Len(found)
    /\ IF changed
       THEN /\ place' = 1
            /\ changed' = FALSE
            /\ UNCHANGED phase
       ELSE /\ phase' = "done"
            /\ UNCHANGED <<place, changed>>
    /\ UNCHANGED <<inputVars, pending, found>>

Compute == Isolate \/ StartRefining \/ RefineNeighbours \/ EndPass

IsolationNext == (\E p \in Inputs : Ask(p)) \/ Compute

IsolationSpec == IsolationInit /\ [][IsolationNext]_isolationVars

-------------------------------------------------------------------------------

\* An interval found isolates u.
Isolated(u, interval) ==
    \/ interval[1] = interval[2] /\ u = At(interval[1])
    \/ Between(u, interval[1], interval[2])

\* The places where a root is accounted for.
PlacesOf(u) ==
    Cardinality({i \in DOMAIN found : Isolated(u, found[i])})
    + Cardinality({i \in DOMAIN pending : Between(u, pending[i][1], pending[i][2])})

\* At every moment of the search each real root is accounted for exactly once:
\* by an interval already found or by one still to be searched.  Once the
\* answer is given, the intervals ascend with gaps between them, and each
\* holds one root.
EveryRootOnce ==
    /\ \A u \in RootsOf(asked) :
          PlacesOf(u) = IF phase = "idle" \/ p_deg(asked) < 0 THEN 0 ELSE 1
    /\ phase = "done" =>
          /\ \A i \in 1 .. Len(found) - 1 : Less(found[i][2], found[i + 1][1])
          /\ \A i \in DOMAIN found : \E u \in RootsOf(asked) : Isolated(u, found[i])
===============================================================================
