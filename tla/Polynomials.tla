----------------------------- MODULE Polynomials -----------------------------
(***************************************************************************)
(* cas/math/domains/poly.py and polytools.py over the field Q, in one      *)
(* variable: the arithmetic under real root isolation.                     *)
(*                                                                         *)
(* A polynomial is what Poly.monos holds: a function from the exponents    *)
(* that occur to their nonzero coefficients; the zero polynomial has an    *)
(* empty domain.  A coefficient is a Fraction: <<numerator, denominator>>  *)
(* in lowest terms, the denominator positive.                              *)
(***************************************************************************)
EXTENDS Terms, FiniteSets

RInt(k) == <<k, 1>>
RZero == RInt(0)

Rational == Int \X Int

\* Over the least common denominator; a common factor of numerator and other
\* denominator is cancelled before it can grow.
Scale(p, q) == q[2] \div Gcd[p[2], q[2]]
RAdd[p \in Rational, q \in Rational] ==
    Rat(p[1] * Scale(p, q) + q[1] * Scale(q, p), p[2] * Scale(p, q))
RMul[p \in Rational, q \in Rational] == QMul(Rat(p[1], q[2]), Rat(q[1], p[2]))
RDiv[p \in Rational, q \in Rational] == QMul(Rat(p[1], q[1]), Rat(q[2], p[2]))
RNeg(p) == <<-p[1], p[2]>>
RLess(p, q) == p[1] * Scale(p, q) < q[1] * Scale(q, p)
RLeq(p, q) == ~RLess(q, p)

\* coef_sign
CoefSign(q) == SignOfInt(q[1])

-------------------------------------------------------------------------------
(* Ring operations.                                                        *)

PZero == [e \in {} |-> RZero]
IsZero(p) == DOMAIN p = {}

\* _norm
Norm(p) == IF p = PZero THEN PZero ELSE [e \in {e \in DOMAIN p : p[e] # RZero} |-> p[e]]

Coef(p, e) == IF e \in DOMAIN p THEN p[e] ELSE RZero

\* p_deg: -1 for zero.
Deg(p) == Max(DOMAIN p \cup {-1})

\* p_lc
Leading(p) == p[Deg(p)]

PConst(q) == Norm([e \in {0} |-> q])
PAdd(p, q) == Norm([e \in DOMAIN p \cup DOMAIN q |-> RAdd[Coef(p, e), Coef(q, e)]])
PScale(p, q) == Norm([e \in DOMAIN p |-> RMul[q, p[e]]])
PNeg(p) == PScale(p, RInt(-1))
PSub(p, q) == PAdd(p, PNeg(q))

\* The product with the monomial q x^k.
PShift(p, k, q) == [e \in {d + k : d \in DOMAIN p} |-> RMul[q, p[e - k]]]

PMul(p, q) == FoldSet(LAMBDA e, sum : PAdd(sum, PShift(q, e, p[e])), PZero, DOMAIN p)

PPow(p, n) == FoldLeft(LAMBDA power, i : PMul(power, p), PConst(RInt(1)),
                       [i \in 1 .. n |-> i])

\* One step of the division of rest: its leading monomial is removed.
Cancel(rest, divisor, q, k) == PSub(rest, PShift(divisor, k, q))

RECURSIVE DivideFrom(_, _, _)
DivideFrom(quotient, rest, divisor) ==
    IF Deg(rest) < Deg(divisor) THEN [quotient |-> quotient, rest |-> rest]
    ELSE LET k == Deg(rest) - Deg(divisor)
             q == RDiv[Leading(rest), Leading(divisor)]
         IN  DivideFrom(PAdd(quotient, [e \in {k} |-> q]),
                        Cancel(rest, divisor, q, k), divisor)

\* p_divmod_field.  Division by zero raises: see Divisible.
Divide(p, divisor) == DivideFrom(PZero, p, divisor)

\* Whether p_divmod_field answers at all.
Divisible(divisor) == ~IsZero(divisor)

\* p_monic
Monic(p) == IF IsZero(p) THEN p ELSE PScale(p, RDiv[RInt(1), Leading(p)])

\* p_gcd_univar.  Remainders are made monic at once, the code does it at the
\* end: what divides what does not depend on it, and numbers stay small.
RECURSIVE PGcd(_, _)
PGcd(p, q) == IF IsZero(q) THEN Monic(p) ELSE PGcd(q, Monic(Divide(p, q).rest))

\* p_deriv, over a ring whose own derivation is zero.
Deriv(p) ==
    Norm([e \in {d - 1 : d \in DOMAIN p \ {0}} |-> RMul[RInt(e + 1), p[e + 1]]])

\* p_div_exact
Quotient(p, q) == Divide(p, q).quotient

-------------------------------------------------------------------------------
(* from_term, to_term.                                                     *)

\* What from_term returns for a term that is not a polynomial in x.
NotPolynomial == [e \in {-1} |-> RZero]

Sequenced(parts, op(_, _), unit) ==
    IF NotPolynomial \in Range(parts) THEN NotPolynomial
    ELSE FoldLeft(op, unit, parts)

\* The zeroth power of zero is refused, of anything else it is one.
PowerOf(base, exponent) ==
    IF base = NotPolynomial \/ ~IsNum(exponent) THEN NotPolynomial
    ELSE IF NumVal(exponent) < 0 \/ (NumVal(exponent) = 0 /\ IsZero(base))
         THEN NotPolynomial
    ELSE PPow(base, NumVal(exponent))

RECURSIVE FromTerm(_, _)
FromTerm(t, x) ==
    LET parts == [i \in DOMAIN Args(t) |-> FromTerm(Args(t)[i], x)]
    IN  CASE IsLiteral(t) -> PConst(LiteralValue(t))
          [] t = x -> [e \in {1} |-> RInt(1)]
          [] Kind(t) = "Plus" -> Sequenced(parts, PAdd, PZero)
          [] Kind(t) = "Times" -> Sequenced(parts, PMul, PConst(RInt(1)))
          [] Kind(t) = "Power" -> PowerOf(FromTerm(Args(t)[1], x), Args(t)[2])
          [] OTHER -> NotPolynomial

-------------------------------------------------------------------------------
(* polytools.py.                                                           *)

\* squarefree_part of cas/math/realroot.py.
SquarefreePart(p) ==
    IF Deg(p) <= 0 THEN p
    ELSE LET divisor == PGcd(p, Deriv(p))
         IN  IF Deg(divisor) <= 0 THEN Monic(p) ELSE Quotient(Monic(p), divisor)

\* The loop of squarefree: current is what is left, next the part of its
\* derivative that tells the multiplicities apart, k the multiplicity.
RECURSIVE YunFrom(_, _, _, _)
YunFrom(current, next, k, factors) ==
    IF Deg(current) <= 0 THEN factors
    ELSE LET factor  == PGcd(current, next)
             left == Quotient(current, factor)
         IN  YunFrom(left, PSub(Quotient(next, factor), Deriv(left)), k + 1,
                     IF Deg(factor) > 0 THEN Append(factors, <<factor, k>>) ELSE factors)

\* Mutant: the derivative of what is left is not taken off.
Squarefree_NoCorrection(p) ==
    IF Deg(p) <= 0 THEN <<>>
    ELSE LET g == PGcd(Monic(p), Deriv(Monic(p)))
         IN  YunFrom(Quotient(Monic(p), g), Quotient(Deriv(Monic(p)), g), 1, <<>>)

\* squarefree: Yun's decomposition into <<factor, multiplicity>>.
Squarefree(p) ==
    IF Deg(p) <= 0 THEN <<>>
    ELSE LET g == PGcd(Monic(p), Deriv(Monic(p)))
             left == Quotient(Monic(p), g)
         IN  YunFrom(left,
                     PSub(Quotient(Deriv(Monic(p)), g), Deriv(left)), 1, <<>>)

Odd(m, n) == (m * n) % 2 = 1
Flip(q, odd) == IF odd THEN RNeg(q) ELSE q

\* The loop of resultant, for a left side of no lower degree.
RECURSIVE ResultantFrom(_, _, _)
ResultantFrom(p, q, sign) ==
    LET rest == Divide(p, q).rest
        m == Deg(p)
        n == Deg(q)
    IN  IF n = 0 THEN RMul[sign, QPow(Leading(q), m)]
        ELSE IF IsZero(rest) THEN RZero
        ELSE ResultantFrom(q, rest,
                RMul[Flip(sign, Odd(m, n)), QPow(Leading(q), m - Deg(rest))])

\* resultant
Resultant(p, q) ==
    IF IsZero(p) \/ IsZero(q) THEN RZero
    ELSE IF Deg(p) >= Deg(q) THEN ResultantFrom(p, q, RInt(1))
    ELSE ResultantFrom(q, p, Flip(RInt(1), Odd(Deg(p), Deg(q))))

-------------------------------------------------------------------------------
(* cas/math/realroot.py: evaluation and counting.                          *)

\* p_eval_at: Horner's scheme.
EvalAt(p, x) ==
    LET sum[e \in 0 .. Deg(p)] ==
            IF e = Deg(p) THEN p[e] ELSE RAdd[RMul[sum[e + 1], x], Coef(p, e)]
    IN  IF IsZero(p) THEN RZero ELSE sum[0]

SignAt(p, x) == CoefSign(EvalAt(p, x))

\* A positive multiple with leading coefficient 1 or -1.
Scaled(p) == PScale(p, RDiv[RInt(1), QAbs(Leading(p))])

RECURSIVE SturmFrom(_)
SturmFrom(sturm) ==
    LET rest == Divide(sturm[Len(sturm) - 1], Last(sturm)).rest
    IN  IF IsZero(rest) THEN sturm ELSE SturmFrom(Append(sturm, Scaled(PNeg(rest))))

\* sturm_sequence.  It divides by the derivative, which is zero for a constant.
\* Only the signs of the chain are read, so its members are scaled.
Sturm(p) == SturmFrom(<<p, Deriv(p)>>)

\* sign_variations: zeros are passed over.
Changes[signs \in Seq(Int)] == Cardinality({i \in 1 .. Len(signs) - 1 : signs[i] # signs[i + 1]})
Variations(sturm, x) ==
    Changes[SelectSeq([i \in DOMAIN sturm |-> SignAt(sturm[i], x)], LAMBDA s : s # 0)]

\* count_roots_open: the roots of p strictly between a and b.
CountOpen(sturm, p, a, b) ==
    Variations(sturm, a) - Variations(sturm, b) - (IF SignAt(p, b) = 0 THEN 1 ELSE 0)

\* _iso_open, _shrink: the middle of an interval.
Middle(a, b) == RDiv[RAdd[a, b], RInt(2)]

RMax(S) == CHOOSE q \in S : \A r \in S : RLeq(r, q)

\* cauchy_bound
CauchyBound(p) ==
    RAdd[RInt(1),
         RMax({RZero} \cup {QAbs(RDiv[p[e], Leading(p)]) : e \in DOMAIN p \ {Deg(p)}})]

\* divisors
Divisors(n) == {d \in 1 .. Magnitude(n) : n % d = 0}

\* The coefficients brought to a common denominator, as integers.
Cleared(p) ==
    LET common == FoldSet(LAMBDA e, m : (m * p[e][2]) \div Gcd[m, p[e][2]], 1, DOMAIN p)
    IN  [e \in DOMAIN p |-> p[e][1] * (common \div p[e][2])]

SortedRationals(S) == SetToSortSeq(S, RLess)

\* rational_roots: zero as often as x divides p, and the quotients of the
\* divisors of the last and the first coefficient that are roots.
RationalRoots(p) ==
    LET c == Cleared(p)
        low == Min(DOMAIN p)
        candidates == UNION {{Rat(n, d), Rat(-n, d)} :
                                n \in Divisors(c[low]), d \in Divisors(c[Deg(p)])}
    IN  IF Deg(p) <= 0 THEN <<>>
        ELSE SortedRationals({q \in candidates : SignAt(p, q) = 0}
                             \cup (IF low > 0 THEN {RZero} ELSE {}))
===============================================================================
