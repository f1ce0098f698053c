-------------------------- MODULE RationalFunctions --------------------------
(***************************************************************************)
(* cas/math/domains/ratfunc.py over Q in one variable; the ladder of       *)
(* cas/math/project.py that reads a term as a constant, a polynomial or a  *)
(* rational function; and what is decided through it: normal_form and      *)
(* identity_verdict of cas/math/base/equality.py, linear_form of           *)
(* cas/math/linearform.py.                                                 *)
(*                                                                         *)
(* Of the rules that simplify automatically, one is declared, for          *)
(* exponentials; on the terms read here autosimplify changes nothing.      *)
(***************************************************************************)
EXTENDS Polynomials

\* RatFunc
Ratio(num, den) == [num |-> num, den |-> den]
NotRational == Ratio(NotPolynomial, NotPolynomial)
POne == PConst(RInt(1))

RFAdd(f, g) ==
    Ratio(PAdd(PMul(f.num, g.den), PMul(g.num, f.den)), PMul(f.den, g.den))
RFMul(f, g) == Ratio(PMul(f.num, g.num), PMul(f.den, g.den))
RFRaise(f, n) == Ratio(PPow(f.num, n), PPow(f.den, n))

\* A negative exponent exchanges numerator and denominator; zero is raised to
\* positive exponents only.
RFPower(base, exponent) ==
    IF base = NotRational \/ ~IsNum(exponent) \/ (NumVal(exponent) <= 0 /\ IsZero(base.num))
    THEN NotRational
    ELSE RFRaise(IF NumVal(exponent) < 0 THEN Ratio(base.den, base.num) ELSE base,
                 Magnitude(NumVal(exponent)))

RFJoined(parts, op(_, _)) ==
    IF NotRational \in Range(parts) THEN NotRational
    ELSE FoldLeft(op, parts[1], Tail(parts))

\* rf_from_term.  What is a polynomial is read as one, with denominator one;
\* reading it part by part gives the same.
RECURSIVE RFFromTerm(_, _)
RFFromTerm(t, x) ==
    LET part(i) == RFFromTerm(Args(t)[i], x)
    IN  CASE IsLiteral(t) -> Ratio(PConst(LiteralValue(t)), POne)
          [] t = x -> Ratio([e \in {1} |-> RInt(1)], POne)
          [] Kind(t) = "Plus" -> RFJoined(Table([i \in DOMAIN Args(t) |-> part(i)]), RFAdd)
          [] Kind(t) = "Times" -> RFJoined(Table([i \in DOMAIN Args(t) |-> part(i)]), RFMul)
          [] Kind(t) = "Power" -> RFPower(part(1), Args(t)[2])
          [] OTHER -> NotRational

\* rf_equal
RFEqual(f, g) == PMul(f.num, g.den) = PMul(g.num, f.den)

RFScaled(num, den, q) == Ratio(PScale(num, q), PScale(den, q))
RFMonic(num, den) == RFScaled(num, den, RDiv[RInt(1), Leading(den)])
RFCancelled(f, g) == RFMonic(Quotient(f.num, g), Quotient(f.den, g))

\* rf_reduce: by the greatest common divisor, the denominator monic.
RFReduce(f) == RFCancelled(f, PGcd(f.num, f.den))

\* Mutant: the two products change places.
RFDeriv_Swapped(f) ==
    RFReduce(Ratio(PSub(PMul(f.num, Deriv(f.den)), PMul(Deriv(f.num), f.den)),
                   PMul(f.den, f.den)))

\* rf_deriv: the quotient rule.
RFDeriv(f) ==
    RFReduce(Ratio(PSub(PMul(Deriv(f.num), f.den), PMul(f.num, Deriv(f.den))),
                   PMul(f.den, f.den)))

\* One monomial of to_term.
Monomial(q, e, x) ==
    CASE e = 0 -> Literal(q)
      [] q = RInt(1) /\ e = 1 -> x
      [] OTHER ->
            OneOrMore("Times", (IF q = RInt(1) THEN <<>> ELSE <<Literal(q)>>)
                               \o <<IF e = 1 THEN x ELSE <<"Power", <<x, Int_(e)>>>>>>)

\* to_term
ToTerm(p, x) ==
    IF IsZero(p) THEN Zero
    ELSE OneOrMore("Plus",
            FoldLeft(LAMBDA monomials, e : Append(monomials, Monomial(p[e], e, x)), <<>>,
                     SetToSortSeq(DOMAIN p, <)))

\* rf_to_term
Over(num, den) == IF den = Int_(1) THEN num ELSE Times(num, Power(den, -1))
RFToTerm(f, x) == Over(ToTerm(f.num, x), ToTerm(f.den, x))

-------------------------------------------------------------------------------
(* project.                                                                *)

\* Only sums, products and integer powers are evaluated exactly.
Arithmetic(t) ==
    \A s \in Subterms(t) :
        IsLiteral(s) \/ Kind(s) \in {"Sym", "Plus", "Times", "Power"}

\* from_term has no negative powers.
HasInverse(t) ==
    \E s \in Subterms(t) :
        Kind(s) = "Power" /\ IsNum(Args(s)[2]) /\ NumVal(Args(s)[2]) < 0

VariableIn(t) == CHOOSE x \in FreeVars(t) : TRUE

NoHit == [kind |-> "none"]

\* QDomain.member: eval_exact does not raise.
ConstantHit(q) == IF HasValue(q) THEN [kind |-> "constant", value |-> q] ELSE NoHit

ElementHit(t, f) ==
    IF f = NotRational THEN NoHit
    ELSE [kind |-> IF HasInverse(t) THEN "rational" ELSE "polynomial", element |-> f]

\* project: the first of constant, polynomial and rational function that fits.
Project(t) ==
    IF ~Arithmetic(t) THEN NoHit
    ELSE IF FreeVars(t) = {} THEN ConstantHit(Value(t, [name \in {} |-> RZero]))
    ELSE ElementHit(t, RFFromTerm(t, VariableIn(t)))

\* is_zero of project.py
Vanishes(hit) ==
    IF hit.kind = "constant" THEN hit.value[1] = 0 ELSE IsZero(hit.element.num)

Reduced(hit) == IF hit.kind = "rational" THEN RFReduce(hit.element) ELSE hit.element

\* normalize of project.py
Rendered(t, hit) ==
    CASE hit.kind = "none" -> t
      [] hit.kind = "constant" -> Literal(hit.value)
      [] OTHER -> RFToTerm(Reduced(hit), VariableIn(t))

ZeroAnswer(hit) ==
    IF hit.kind = "none" THEN "unknown" ELSE IF Vanishes(hit) THEN "yes" ELSE "no"

\* zero_of
ZeroVerdict(t) == ZeroAnswer(Project(t))

-------------------------------------------------------------------------------
(* Equality.                                                               *)

Eq(s, t) == <<"Eq", <<s, t>>>>
Ne(s, t) == <<"Ne", <<s, t>>>>
IsEquation(t) == Kind(t) = "Eq"

\* Subtraction without folding: T.plus(s, T.neg(t)).
Minus(s, t) == Plus(s, Neg(t))

\* What normal_form projects: of an equation, the difference of its sides.
Projected(t) == IF IsEquation(t) THEN Minus(Args(t)[1], Args(t)[2]) ELSE t

Restored(t, shown) == IF IsEquation(t) THEN Eq(shown, Zero) ELSE shown

NormalBy(t, projected, hit) ==
    IF hit.kind = "none" THEN t ELSE Restored(t, Rendered(projected, hit))
NormalOf(t, projected) == NormalBy(t, projected, Project(projected))

\* normal_form
NormalForm(t) == NormalOf(t, Projected(t))

FoldedIdentity(s, t) ==
    CASE s = t -> "yes"
      [] IsLiteral(s) /\ IsLiteral(t) /\ s # t -> "no"
      [] OTHER -> ZeroVerdict(Minus(s, t))

\* identity_verdict: by structure, by literal arithmetic, then by what the
\* difference is zero or not.  No assumption is consulted.
Identity(s, t) == IF s = t THEN "yes" ELSE FoldedIdentity(Fold(s), Fold(t))

-------------------------------------------------------------------------------
(* Linear forms.                                                           *)

LinearReading(p, independent) ==
    CASE IsZero(p) -> [kind |-> "zero"]
      [] ~IsZero(p) /\ (independent \/ Deg(p) = 0) -> [kind |-> "independent"]
      [] OTHER ->
            IF Deg(p) # 1 THEN [kind |-> "degree"]
            ELSE [kind |-> "linear", slope |-> Literal(p[1]), constant |-> Literal(Coef(p, 0))]

LinearOf(t, x, hit) ==
    IF hit.kind \in {"none", "constant"} THEN [kind |-> hit.kind]
    ELSE LinearReading(RFReduce(hit.element).num, x # VariableIn(t))

\* linear_form: a rational function is read by its reduced numerator.
LinearForm(t, x) == LinearOf(t, x, Project(t))

\* _lin_core of cas/math/tactics.py: where the line crosses zero.
LinearRoot(form) ==
    Fold(Times(Neg(form.constant), Power(form.slope, -1)))
===============================================================================
