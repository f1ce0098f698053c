------------------------------- MODULE Decide -------------------------------
(***************************************************************************)
(* cas/math/decide.py and the equality closure of cas/math/base/           *)
(* equality.py: what the decision procedure answers to a fact under a      *)
(* frame, a sequence of assumed facts.                                     *)
(*                                                                         *)
(* The channels are asked in the code's order and the first answer counts. *)
(* Expression nodes have identities of their own, so the cycle guard of    *)
(* _derive_layer, which remembers nodes, never meets a fact it has seen:   *)
(* every rule asks about smaller operands, about the same fact turned      *)
(* round once, or about the same operands under an operator further down.  *)
(* It is left out.                                                         *)
(***************************************************************************)
EXTENDS Terms, Verdicts, FiniteSets

CONSTANTS
    ConstBounds,    \* constant name -> <<low, high>>, for those declared with bounds
    Positive,       \* names of constants declared positive
    NonReal,        \* names of constants declared not real
    FunBounds,      \* function head -> [lo, up], for those declared with bounds
    TermBudget      \* _CLOSURE_TERM_BUDGET

Orders == {"Lt", "Le", "Gt", "Ge"}
Comparisons == Orders \cup {"Eq", "Ne"}

\* `a op b` says the same as `b Mirror[op] a`, and the opposite of
\* `a Opposite[op] b`.
Mirror ==
    [op \in Comparisons |->
        CASE op = "Lt" -> "Gt" [] op = "Gt" -> "Lt"
          [] op = "Le" -> "Ge" [] op = "Ge" -> "Le"
          [] OTHER -> op]

Opposite ==
    [op \in Comparisons |->
        CASE op = "Gt" -> "Le" [] op = "Le" -> "Gt"
          [] op = "Ge" -> "Lt" [] op = "Lt" -> "Ge"
          [] op = "Eq" -> "Ne" [] OTHER -> "Eq"]

Left(f) == Args(f)[1]
Right(f) == Args(f)[2]

Compares(op, m, n) ==
    CASE op = "Lt" -> m < n
      [] op = "Le" -> m <= n
      [] op = "Gt" -> m > n
      [] op = "Ge" -> m >= n
      [] op = "Eq" -> m = n
      [] OTHER -> m # n

NonRealIn(t) == \E s \in Subterms(t) : Kind(s) = "Const" /\ s[2] \in NonReal

\* What may be read as a fact about an ordered domain.
OrderedFact(f) == ~NonRealIn(f)

\* Mutant: the comparison turned round, not denied.
Negate_Mirrored(f) ==
    IF Kind(f) \in Comparisons /\ ~(Kind(f) \in Orders /\ NonRealIn(f))
    THEN Mk(Mirror[Kind(f)], Args(f))
    ELSE IF Kind(f) = "Not" THEN Args(f)[1]
    ELSE Mk("Not", <<f>>)

\* negate: the proposition that holds where f does not.
Negate(f) ==
    IF Kind(f) \in Comparisons /\ ~(Kind(f) \in Orders /\ NonRealIn(f))
    THEN Mk(Opposite[Kind(f)], Args(f))
    ELSE IF Kind(f) = "Not" THEN Args(f)[1]
    ELSE Mk("Not", <<f>>)

RECURSIVE Decide(_, _)

-------------------------------------------------------------------------------
(* Direct channels.                                                        *)

Same(op, a, b) ==
    IF a = b THEN Answer(op \in {"Eq", "Le", "Ge"}) ELSE Nothing

CmpNumeric(op, a, b) ==
    IF IsNum(a) /\ IsNum(b) THEN Answer(Compares(op, NumVal(a), NumVal(b)))
    ELSE Nothing

\* Whether f states the same as g the other way round.
Mirrored(f, g) ==
    /\ {Kind(f), Kind(g)} \subseteq Orders
    /\ Kind(f) = Mirror[Kind(g)]
    /\ Left(f) = Right(g) /\ Right(f) = Left(g)

\* The first assumption that settles fact one way or the other.
SettledBy(fact, negation, frame) ==
    LET i == SelectInSeq(frame,
                LAMBDA f : f \in {fact, negation} \/ Mirrored(f, fact))
    IN  IF i = 0 THEN Nothing
        ELSE Answer(frame[i] = fact \/ frame[i] # negation)

FactsLookup(fact, frame) == SettledBy(fact, Negate(fact), frame)

\* The projection zero test, for polynomials in the symbols.  A polynomial
\* whose degree in a symbol is below the number of points tried vanishes at
\* all of them only if it is zero.
Polynomial(t) ==
    \A s \in Subterms(t) : Kind(s) \in {"Sym", "Int", "Plus", "Times", "Power"}

RECURSIVE Degree(_)
Degree(t) ==
    CASE Kind(t) = "Int" -> 0
      [] Kind(t) = "Sym" -> 1
      [] Kind(t) = "Power" -> Degree(Args(t)[1]) * NumVal(Args(t)[2])
      [] Kind(t) = "Times" ->
            FoldLeft(LAMBDA n, a : n + Degree(a), 0, Args(t))
      [] OTHER ->
            FoldLeft(LAMBDA n, a : IF n < Degree(a) THEN Degree(a) ELSE n, 0, Args(t))

Vanishes(t) ==
    \A point \in [{s[2] : s \in FreeVars(t)} -> 0 .. Degree(t)] :
        Value(t, [x \in DOMAIN point |-> <<point[x], 1>>])[1] = 0

ZeroOf(t) == IF Polynomial(t) THEN Answer(Vanishes(t)) ELSE Nothing

Closed(t) == FreeVars(t) = {}

\* A non-identity refutes an equation between values only.
OfValues(verdict, closed) ==
    IF verdict = No /\ ~closed THEN Nothing ELSE verdict

PolyEqCheck(a, b) == OfValues(ZeroOf(Difference(a, b)), Closed(a) /\ Closed(b))

-------------------------------------------------------------------------------
(* Order chains: the inequalities of the frame as edges.                   *)

\* An edge <<s, t, strict>> for s < t or s <= t.
Edges(frame) ==
    {LET f == frame[i]
         up == Kind(f) \in {"Lt", "Le"}
     IN  <<IF up THEN Left(f) ELSE Right(f),
           IF up THEN Right(f) ELSE Left(f),
           Kind(f) \in {"Lt", "Gt"}>>
        : i \in {j \in DOMAIN frame :
                    Kind(frame[j]) \in Orders /\ OrderedFact(frame[j])}}

\* The nodes reached from nodes, each with whether some way to it is strict.
RECURSIVE Reached(_, _)
Reached(edges, nodes) ==
    LET next == {<<e[2], n[2] \/ e[3]>> : <<e, n>> \in
                    {en \in edges \X nodes : en[1][1] = en[2][1]}}
    IN  IF next \subseteq nodes THEN nodes ELSE Reached(edges, nodes \cup next)

ChainQuery(op, a, b, frame) ==
    LET strict == op \in {"Lt", "Gt"}
        start  == IF op \in {"Gt", "Ge"} THEN b ELSE a
        goal   == IF op \in {"Gt", "Ge"} THEN a ELSE b
        found  == Reached(Edges(frame), {<<start, FALSE>>})
    IN  IF <<goal, TRUE>> \in found \/ (~strict /\ <<goal, FALSE>> \in found)
        THEN Yes ELSE Nothing

-------------------------------------------------------------------------------
(* Interval propagation.  A bound is <<>> when there is none, or           *)
(* <<value, strict>>.                                                      *)

\* Mutant: the last bound stated, not the highest.
TightenLower_Last(old, new) == IF new = <<>> THEN old ELSE new

TightenLower(old, new) ==
    IF \/ new = <<>>
       \/ old # <<>> /\ new[1] < old[1]
       \/ old # <<>> /\ new[1] = old[1] /\ ~new[2]
    THEN old ELSE new

TightenUpper(old, new) ==
    IF \/ new = <<>>
       \/ old # <<>> /\ new[1] > old[1]
       \/ old # <<>> /\ new[1] = old[1] /\ ~new[2]
    THEN old ELSE new

Tighten(i, lo, up) ==
    [i EXCEPT !.lo = TightenLower(@, lo), !.up = TightenUpper(@, up)]

\* Tighten by `t op v`.
TightenBy(i, op, v) ==
    Tighten(i,
        IF op \in {"Gt", "Ge"} THEN <<v, op = "Gt">> ELSE <<>>,
        IF op \in {"Lt", "Le"} THEN <<v, op = "Lt">> ELSE <<>>)

\* An integer strictly above v is at least v + 1.
RoundToInteger(i) ==
    [i EXCEPT !.lo = IF @ # <<>> /\ @[2] THEN <<@[1] + 1, FALSE>> ELSE @,
              !.up = IF @ # <<>> /\ @[2] THEN <<@[1] - 1, FALSE>> ELSE @]

Integral(t, frame) ==
    \E i \in DOMAIN frame : frame[i] = Fact("Attr", t, Sym("integer"))

IfIntegral(t, frame, i) == IF Integral(t, frame) THEN RoundToInteger(i) ELSE i

\* One side of a sum: the sum of the terms' bounds, if all have one.  What
\* the frame said of the sum itself keeps its value and takes over the
\* strictness of the terms.
SumBound(own, bounds) ==
    LET strict == \E i \in DOMAIN bounds : bounds[i] # <<>> /\ bounds[i][2]
    IN  IF \A i \in DOMAIN bounds : bounds[i] # <<>>
        THEN <<FoldLeft(LAMBDA n, b : n + b[1], 0, bounds), strict>>
        ELSE IF own # <<>> THEN <<own[1], strict>>
        ELSE <<>>

Scaled(bound, c) == IF bound = <<>> THEN <<>> ELSE <<c * bound[1], bound[2]>>

RECURSIVE Interval(_, _, _, _)

\* What the frame says of t, up to an equation's other side.  Only symbols
\* are the same node wherever they occur, so only they are ever met again.
FrameInterval(t, frame, seen, depth) ==
    LET Use(i, f) ==
            IF ~OrderedFact(f) THEN i
            ELSE IF Kind(f) \in Orders /\ Left(f) = t /\ IsNum(Right(f))
                 THEN TightenBy(i, Kind(f), NumVal(Right(f)))
            ELSE IF Kind(f) \in Orders /\ Right(f) = t /\ IsNum(Left(f))
                 THEN TightenBy(i, Mirror[Kind(f)], NumVal(Left(f)))
            ELSE IF Kind(f) = "Eq" /\ t \in {Left(f), Right(f)} /\ Left(f) # Right(f)
                 THEN LET other == IF Left(f) = t THEN Right(f) ELSE Left(f)
                          j == Interval(other, frame, i.seen, depth + 1)
                      IN  [Tighten(i, j.lo, j.up) EXCEPT !.seen = j.seen]
            ELSE i
    IN  FoldLeft(Use, [lo |-> <<>>, up |-> <<>>, seen |-> seen], frame)

Unbounded(i) == i.lo = <<>> /\ i.up = <<>>

SumInterval(t, frame, i, depth) ==
    LET Next(acc, a) ==
            IF ~acc.all THEN acc
            ELSE LET j == Interval(a, frame, acc.seen, depth + 1)
                 IN  [all |-> ~Unbounded(j), seen |-> j.seen,
                      los |-> Append(acc.los, j.lo),
                      ups |-> Append(acc.ups, j.up)]
        sum == FoldLeft(Next,
                   [all |-> TRUE, seen |-> i.seen, los |-> <<>>, ups |-> <<>>],
                   Args(t))
    IN  IF sum.all
        THEN [lo |-> SumBound(i.lo, sum.los), up |-> SumBound(i.up, sum.ups),
              seen |-> sum.seen]
        ELSE [i EXCEPT !.seen = sum.seen]

\* i tightened by c times the interval j, whose ends change places if c < 0.
TightenScaled(i, c, j) ==
    IF c = 0 THEN i
    ELSE IF c > 0 THEN Tighten(i, Scaled(j.lo, c), Scaled(j.up, c))
    ELSE Tighten(i, Scaled(j.up, c), Scaled(j.lo, c))

\* A product of literals and one other factor.
ProductInterval(t, frame, i, depth) ==
    LET rest == SelectSeq(Args(t), LAMBDA a : ~IsNum(a))
        j    == Interval(rest[1], frame, i.seen, depth + 1)
    IN  IF Len(rest) # 1 \/ Len(Args(t)) = 1 THEN i
        ELSE [TightenScaled(i, Total("Times", Args(t))[1], j) EXCEPT !.seen = j.seen]

EvenPower(t) == Kind(t) = "Power" /\ NumVal(Args(t)[2]) % 2 = 0
OddPower(t) == Kind(t) = "Power" /\ NumVal(Args(t)[2]) % 2 = 1

\* What the shape of t adds to the interval i the frame gives it.
ShapeInterval(t, frame, i, depth) ==
    CASE Kind(t) = "Plus"  -> SumInterval(t, frame, i, depth)
      [] Kind(t) = "Times" -> ProductInterval(t, frame, i, depth)
      [] EvenPower(t)      -> Tighten(i, <<0, FALSE>>, <<>>)
      [] Kind(t) \in DOMAIN FunBounds ->
            Tighten(i, FunBounds[Kind(t)].lo, FunBounds[Kind(t)].up)
      [] OTHER -> i

\* _interval; seen are the symbols already entered.
Interval(t, frame, seen, depth) ==
    IF IsNum(t)
    THEN [lo |-> <<NumVal(t), FALSE>>, up |-> <<NumVal(t), FALSE>>, seen |-> seen]
    ELSE IF Kind(t) = "Const" /\ t[2] \in DOMAIN ConstBounds
    THEN [lo |-> <<ConstBounds[t[2]][1], TRUE>>,
          up |-> <<ConstBounds[t[2]][2], TRUE>>, seen |-> seen]
    ELSE IF depth > 8 \/ t \in seen
    THEN [lo |-> <<>>, up |-> <<>>, seen |-> seen]
    ELSE ShapeInterval(t, frame,
            IfIntegral(t, frame,
                FrameInterval(t, frame, IF IsExpr(t) THEN seen ELSE seen \cup {t}, depth)),
            depth)

Above(bound) == bound # <<>> /\ (bound[1] > 0 \/ (bound[1] = 0 /\ bound[2]))
Below(bound) == bound # <<>> /\ (bound[1] < 0 \/ (bound[1] = 0 /\ bound[2]))

\* d op 0 for a d between lo and up.
BoundsSay(op, lo, up) ==
    IF op \in {"Eq", "Ne"}
    THEN IF (lo # <<>> /\ lo[1] > 0) \/ (up # <<>> /\ up[1] < 0)
         THEN Answer(op = "Ne") ELSE Nothing
    ELSE IF lo # <<>> /\ lo = up /\ ~lo[2] THEN Answer(Compares(op, lo[1], 0))
    ELSE CASE op = "Gt" /\ Above(lo) -> Yes
           [] op = "Gt" /\ Below(up) -> No
           [] op = "Ge" /\ lo # <<>> /\ lo[1] >= 0 -> Yes
           [] op = "Ge" /\ Below(up) -> No
           [] op = "Lt" /\ Below(up) -> Yes
           [] op = "Lt" /\ Above(lo) -> No
           [] op = "Le" /\ up # <<>> /\ up[1] <= 0 -> Yes
           [] op = "Le" /\ Above(lo) -> No
           [] OTHER -> Nothing

IntervalSays(op, i) == BoundsSay(op, i.lo, i.up)

DifferenceSays(op, d, frame) ==
    IF d = Zero THEN Answer(op \in {"Eq", "Le", "Ge"})
    ELSE IntervalSays(op, Interval(d, frame, {}, 0))

CmpInterval(op, a, b, frame) == DifferenceSays(op, Difference(a, b), frame)

-------------------------------------------------------------------------------
(* The equality closure: congruence classes of the terms in sight, each    *)
(* named by its least member (closed before open, then small before large, *)
(* then in canonical order).                                               *)

Rank(t) == <<IF Closed(t) THEN 0 ELSE 1, Size(t)>>

RankBefore(m, n) == m[1] < n[1] \/ (m[1] = n[1] /\ m[2] < n[2])

Before(s, t) ==
    RankBefore(Rank(s), Rank(t)) \/ (Rank(s) = Rank(t) /\ Precedes(s, t))

\* Every term of the class named old is named new.
Renamed(root, old, new) ==
    [u \in DOMAIN root |-> IF root[u] = old THEN new ELSE root[u]]

\* Merge the classes of s and t.
Merge(root, s, t) ==
    IF Before(root[t], root[s]) THEN Renamed(root, root[s], root[t])
    ELSE Renamed(root, root[t], root[s])

Congruent(root, s, t) ==
    /\ IsExpr(s) /\ IsExpr(t) /\ Kind(s) = Kind(t)
    /\ Len(Args(s)) = Len(Args(t))
    /\ \A i \in DOMAIN Args(s) : root[Args(s)[i]] = root[Args(t)[i]]

RECURSIVE CongruenceClosure(_)
CongruenceClosure(root) ==
    LET apart == {st \in (DOMAIN root) \X (DOMAIN root) :
                    root[st[1]] # root[st[2]] /\ Congruent(root, st[1], st[2])}
    IN  IF apart = {} THEN root
        ELSE LET st == CHOOSE st \in apart : TRUE
             IN  CongruenceClosure(Merge(root, st[1], st[2]))

RECURSIVE Representative(_, _)
Representative(root, t) ==
    IF root[t] # t THEN Representative(root, root[t])
    ELSE IF IsExpr(t)
         THEN Mk(Kind(t), [i \in DOMAIN Args(t) |-> Representative(root, Args(t)[i])])
    ELSE t

\* The zero test, and then the one registered stage: the decision procedure.
Vanishing(d, frame) == ZeroOf(d) ?? Decide(Fact("Eq", d, Zero), frame)

EquivalentFolded(s, t, frame) ==
    IF s = t THEN Yes
    ELSE IF IsNum(s) /\ IsNum(t) THEN No
    ELSE Vanishing(Difference(s, t), frame)

Equivalent(a, b, frame) == EquivalentFolded(Fold(a), Fold(b), frame)

\* What the representatives na and nb of a and b tell, if either is new.
NamesSay(a, b, na, nb) ==
    IF <<na, nb>> = <<a, b>> THEN Nothing
    ELSE OfValues(Equivalent(na, nb, <<>>), Closed(na) /\ Closed(nb))

\* Whether the frame assumes some pair of the two classes to differ.
AssumedApart(root, s, t, frame) ==
    LET Root(u) == IF u \in DOMAIN root THEN root[u] ELSE u
    IN  s # t /\ \E i \in DOMAIN frame :
            Kind(frame[i]) = "Ne" /\ {Root(Left(frame[i])), Root(Right(frame[i]))} = {s, t}

ClassesSay(a, b, root, names, frame) ==
    IF root[a] = root[b] \/ names = Yes THEN Yes
    ELSE IF names = No \/ AssumedApart(root, root[a], root[b], frame) THEN No
    ELSE Nothing

Classes(terms, eqs) ==
    CongruenceClosure(FoldLeft(LAMBDA r, f : Merge(r, Left(f), Right(f)),
                               [t \in terms |-> t], eqs))

ClosureSays(a, b, root, frame) ==
    ClassesSay(a, b, root,
        NamesSay(a, b, Representative(root, a), Representative(root, b)), frame)

ClosureOver(a, b, terms, eqs, frame) ==
    IF eqs = <<>> THEN Nothing
    ELSE IF Cardinality(terms) > TermBudget THEN "budget"
    ELSE ClosureSays(a, b, Classes(terms, eqs), frame)

ClosureDecide(a, b, frame) ==
    LET eqs == SelectSeq(frame, LAMBDA f : Kind(f) = "Eq")
    IN  ClosureOver(a, b, UNION {Subterms(t) : t \in {a, b} \cup ToSet(eqs)}, eqs, frame)

-------------------------------------------------------------------------------
(* Sign rules.                                                             *)

AboutZero(f, t) == Kind(f) \in Orders /\ Left(f) = t /\ Right(f) = Zero

PositiveConst(t) == Kind(t) = "Const" /\ t[2] \in Positive

\* Whether t is nonnegative.  An assumption t <= 0 counts against it.
NNeg(t, frame) ==
    LET i == SelectInSeq(frame, LAMBDA f : AboutZero(f, t))
    IN  CASE IsNum(t) -> Answer(NumVal(t) >= 0)
          [] PositiveConst(t) \/ EvenPower(t) -> Yes
          [] Kind(t) \in DOMAIN FunBounds /\ FunBounds[Kind(t)].lo # <<>>
             /\ FunBounds[Kind(t)].lo[1] >= 0 -> Yes
          [] i # 0 -> Answer(Kind(frame[i]) \in {"Gt", "Ge"})
          [] OTHER -> Nothing

Pos(t, frame) ==
    LET i == SelectInSeq(frame,
                LAMBDA f : AboutZero(f, t) /\ Kind(f) \in {"Gt", "Le"})
    IN  CASE IsNum(t) -> Answer(NumVal(t) > 0)
          [] PositiveConst(t) -> Yes
          [] i # 0 -> Answer(Kind(frame[i]) = "Gt")
          [] OTHER -> Nothing

AtomSays(op, nneg, pos) ==
    CASE op = "Gt" /\ pos = Yes -> Yes
      [] op = "Gt" /\ (nneg = No \/ (nneg = Yes /\ pos = No)) -> No
      [] op = "Ge" -> nneg
      [] op \in {"Lt", "Le"} /\ pos = Yes -> No
      [] op \in {"Lt", "Le"} /\ nneg = No -> Yes
      [] op \in {"Lt", "Le"} /\ nneg = Yes /\ pos = No -> Answer(op = "Le")
      [] OTHER -> Nothing

SignAtom(op, t, frame) == AtomSays(op, NNeg(t, frame), Pos(t, frame))

Proved(op, t, u, frame) == Decide(Fact(op, t, u), frame) = Yes

SignOf(t, frame) ==
    CASE IsNum(t) ->
            IF NumVal(t) > 0 THEN "pos" ELSE IF NumVal(t) < 0 THEN "neg" ELSE "zero"
      [] PositiveConst(t) -> "pos"
      [] OTHER ->
            IF Proved("Gt", t, Zero, frame) THEN "pos"
            ELSE IF Proved("Lt", t, Zero, frame) THEN "neg"
            ELSE IF Proved("Eq", t, Zero, frame) THEN "zero"
            ELSE IF Proved("Ge", t, Zero, frame) THEN "nonneg"
            ELSE Nothing

\* The sign of a product by the signs of its factors.  Guarded: a factor may
\* be zero, which is more than the rule can say.
SignsSay(op, kinds, odd) ==
    LET Unless(verdict) == IF "nonneg" \in kinds THEN "guarded" ELSE verdict
    IN  CASE Nothing \in kinds -> Nothing
          [] "zero" \in kinds -> Answer(op \in {"Ge", "Le"})
          [] op = "Gt" -> IF odd THEN No ELSE Unless(Yes)
          [] op = "Ge" -> IF odd THEN Unless(No) ELSE Yes
          [] op = "Lt" -> IF odd THEN Unless(Yes) ELSE No
          [] op = "Le" -> IF odd THEN Yes ELSE Unless(No)

FactorsSay(op, signs) ==
    SignsSay(op, ToSet(signs), Len(SelectSeq(signs, LAMBDA s : s = "neg")) % 2 = 1)

SignTimes(op, t, frame) ==
    IF Kind(t) # "Times" THEN Nothing
    ELSE FactorsSay(op, [i \in DOMAIN Args(t) |-> SignOf(Args(t)[i], frame)])

\* A value that is nonnegative, and zero only where base is.
ZeroOnlyIf(op, zero, away) ==
    CASE op = "Ge" -> Yes
      [] op = "Lt" -> No
      [] op = "Gt" -> IF away THEN Yes ELSE IF zero THEN No ELSE Nothing
      [] op = "Le" -> IF zero THEN Yes ELSE IF away THEN No ELSE Nothing

SignByZero(op, base, frame) ==
    ZeroOnlyIf(op, Proved("Eq", base, Zero, frame), Proved("Ne", base, Zero, frame))

\* Mutant: one term on one side suffices.
AllAndSome_Some(weak, strict, t, frame) ==
    \E a \in ToSet(Args(t)) : Proved(strict, a, Zero, frame)

\* Every term of the sum is on one side of zero, and one of them strictly.
AllAndSome(weak, strict, t, frame) ==
    /\ \A a \in ToSet(Args(t)) : Proved(weak, a, Zero, frame)
    /\ \E a \in ToSet(Args(t)) : Proved(strict, a, Zero, frame)

SumSays(upward, above, below) ==
    CASE upward /\ above -> Yes
      [] upward /\ ~above /\ below -> No
      [] ~upward /\ below -> Yes
      [] ~upward /\ ~below /\ above -> No
      [] OTHER -> Nothing

SignSum(op, t, frame) ==
    IF Kind(t) # "Plus" THEN Nothing
    ELSE SumSays(op \in {"Gt", "Ge"},
                 AllAndSome("Ge", "Gt", t, frame), AllAndSome("Le", "Lt", t, frame))

\* The first factor not shown to differ from zero decides.
ZeroFactorSays(factors) ==
    LET open == SelectInSeq(factors, LAMBDA v : v # No)
    IN  IF open = 0 THEN No ELSE IF factors[open] = Yes THEN Yes ELSE Unknown

\* An equation whose left side is a product is decided by which factor is
\* zero.  The right side is not looked at.
EqTimesZero(t, u, frame) ==
    IF Kind(t) # "Times" THEN Nothing
    ELSE ZeroFactorSays([i \in DOMAIN Args(t) |-> Decide(Fact("Eq", Args(t)[i], Zero), frame)])

NeFromOrder(a, b, frame) ==
    IF Proved("Gt", a, b, frame) \/ Proved("Lt", a, b, frame) THEN Yes
    ELSE IF Proved("Eq", a, b, frame) THEN No
    ELSE Nothing

CmpViaEq(op, a, b, frame) ==
    LET i == SelectInSeq(frame,
                LAMBDA f : Kind(f) = "Eq" /\ Left(f) = a /\ IsNum(Right(f)))
    IN  IF IsNum(b) /\ i # 0
        THEN Answer(Compares(op, NumVal(Right(frame[i])), NumVal(b)))
        ELSE Nothing

\* _derive_layer: the rule table, in order.  Its two rules about literals are
\* left out, CmpNumeric answers before them.
Derive(op, a, b, frame) ==
    LET sign == op \in Orders /\ b = Zero
        flip == a = Zero /\ b # Zero
        If(applies, answer) == IF applies THEN answer ELSE Nothing
    IN  If(op = "Ne", NeFromOrder(a, b, frame))
        ?? If(op \in Orders, CmpViaEq(op, a, b, frame))
        ?? If(sign, SignAtom(op, a, frame))
        ?? If(sign /\ IsExpr(a), SignTimes(op, a, frame))
        ?? If(sign /\ EvenPower(a), SignByZero(op, Args(a)[1], frame))
        ?? If(sign /\ Kind(a) \in ZeroShaped, SignByZero(op, Args(a)[1], frame))
        ?? If(sign /\ OddPower(a), Decide(Fact(op, Args(a)[1], Zero), frame))
        ?? If(sign, SignSum(op, a, frame))
        ?? If(op = "Eq" /\ IsExpr(a), EqTimesZero(a, b, frame))
        ?? If(flip, Decide(Fact(Mirror[op], b, Zero), frame))

\* The declared bounds, against a literal.  A constant lies strictly between
\* its bounds, a function's value may reach them.
AxiomBounds(op, a, b) ==
    LET v == NumVal(b)
        c == ConstBounds[a[2]]
        f == FunBounds[Kind(a)]
        OverLow(k)  == IF op \in {"Gt", "Le"} THEN v < k ELSE v <= k
        OverHigh(k) == IF op \in {"Gt", "Le"} THEN v >= k ELSE v > k
        upward == op \in {"Gt", "Ge"}
    IN  CASE op \notin Orders \/ ~IsNum(b) -> Nothing
          [] Kind(a) = "Const" /\ a[2] \in DOMAIN ConstBounds ->
                IF v <= c[1] THEN Answer(upward)
                ELSE IF v >= c[2] THEN Answer(~upward)
                ELSE Nothing
          [] Kind(a) \in DOMAIN FunBounds ->
                IF f.lo # <<>> /\ OverLow(f.lo[1]) THEN Answer(upward)
                ELSE IF f.up # <<>> /\ OverHigh(f.up[1]) THEN Answer(~upward)
                ELSE Nothing
          [] OTHER -> Nothing

\* _family_cmp: the channels of an atom.
Family(op, a, b, frame) ==
    LET fact == Mk(op, <<a, b>>)
    IN  Same(op, a, b)
        ?? CmpNumeric(op, a, b)
        ?? FactsLookup(fact, frame)
        ?? (IF op = "Eq" THEN PolyEqCheck(a, b) ELSE Nothing)
        ?? CmpInterval(op, a, b, frame)
        ?? (IF op \in Orders THEN ChainQuery(op, a, b, frame) ELSE Nothing)
        ?? Derive(op, a, b, frame)
        ?? AxiomBounds(op, a, b)
        ?? Unknown

Decide(fact, frame) ==
    LET parts == [i \in DOMAIN Args(fact) |-> Decide(Args(fact)[i], frame)]
    IN  CASE Kind(fact) = "Bool" -> Answer(fact[2])
          [] Kind(fact) \in Orders /\ NonRealIn(fact) -> Unknown
          [] Kind(fact) = "Eq" ->
                ClosureDecide(Left(fact), Right(fact), frame)
                ?? Family("Eq", Left(fact), Right(fact), frame)
          [] Kind(fact) \in Comparisons \ {"Eq"} ->
                Family(Kind(fact), Left(fact), Right(fact), frame)
          [] Kind(fact) = "And" -> FoldLeft(And3, parts[1], Tail(parts))
          [] Kind(fact) = "Or"  -> FoldLeft(Or3, parts[1], Tail(parts))
          [] Kind(fact) = "Not" -> Not3(parts[1])
          [] OTHER -> Unknown
===============================================================================
