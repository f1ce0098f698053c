-------------------------------- MODULE Terms --------------------------------
(***************************************************************************)
(* cas/syntax/term.py and the literal arithmetic of                        *)
(* cas/math/domains/qarith.py, over literals.                              *)
(*                                                                         *)
(* A term is a pair: <<"Sym", name>>, <<"Const", name>>, <<"Int", value>>, *)
(* <<"Rat", fraction>> for a literal that is no integer, or                *)
(* <<head, arguments>> for an expression.  Terms are compared by           *)
(* structure, as Term.__eq__ does; <<"Bool", b>> is a truth value, and     *)
(* <<"Special", name>> stands for what is not a value, such as Undefined.  *)
(* Binders and quoted terms are left out.                                  *)
(***************************************************************************)
EXTENDS Integers, Sequences, FiniteSets, SequencesExt, TLC

CONSTANTS
    NameOrder,  \* the names used (symbols, constants, heads), in text order
    ZeroShaped  \* heads declared zero_iff_arg_zero with lower bound 0

\* The function f, with all its values computed: TLC would compute each value
\* again whenever it is used.
Table(f) == f @@ <<>>

Sym(name) == <<"Sym", name>>
Const(name) == <<"Const", name>>
Int_(k) == <<"Int", k>>
Zero == Int_(0)
Bool(b) == <<"Bool", b>>
Special(name) == <<"Special", name>>

Kind(t) == t[1]
IsNum(t) == Kind(t) = "Int"
NumVal(t) == t[2]
IsLiteral(t) == Kind(t) \in {"Int", "Rat"}
IsExpr(t) == Kind(t) \notin {"Sym", "Const", "Int", "Rat", "Bool", "Special"}
Args(t) == t[2]

RECURSIVE Subterms(_)
Subterms(t) ==
    {t} \cup (IF IsExpr(t) THEN UNION {Subterms(a) : a \in ToSet(Args(t))} ELSE {})

FreeVars(t) == {s \in Subterms(t) : Kind(s) = "Sym"}

RECURSIVE Size(_)
Size(t) ==
    IF IsExpr(t) THEN FoldLeft(LAMBDA n, a : n + Size(a), 1, Args(t)) ELSE 1

-------------------------------------------------------------------------------
(* The canonical order.  SortKey is a tree compared component by           *)
(* component; written out as a sequence that no other key extends, it is   *)
(* compared at the first place where two keys differ.                      *)

\* Literals keep their order while their denominators divide this bound.
Denominators == 2520

RECURSIVE Key(_)
Key(t) ==
    LET rank(name) == CHOOSE i \in DOMAIN NameOrder : NameOrder[i] = name
    IN  CASE Kind(t) = "Sym"   -> <<1, rank(t[2])>>
          [] Kind(t) = "Const" -> <<2, rank(t[2])>>
          [] Kind(t) = "Bool"  -> <<3, IF t[2] THEN 0 ELSE 1>>
          [] Kind(t) = "Special" -> <<9, rank(t[2])>>
          [] Kind(t) = "Int"   -> <<26, t[2] * Denominators>>
          [] Kind(t) = "Rat"   -> <<26, (t[2][1] * Denominators) \div t[2][2]>>
          [] OTHER ->
                FoldLeft(LAMBDA k, a : k \o Key(a), <<21, 1, rank(Kind(t))>>, Args(t))
                \o <<0>>

KeyBefore(k, m) ==
    \E i \in (DOMAIN k) \cap (DOMAIN m) :
        k[i] < m[i] /\ \A j \in 1 .. i - 1 : k[j] = m[j]

Precedes(s, t) == KeyBefore(Key(s), Key(t))

Flat(head, args) ==
    FoldLeft(LAMBDA parts, a : parts \o (IF Kind(a) = head THEN Args(a) ELSE <<a>>),
             <<>>, args)

Mk(head, args) ==
    <<head,
      IF head \in {"Plus", "Times"}
      THEN SortSeq(Flat(head, args), Precedes)
      ELSE args>>

\* _fold_bool_ac for a conjunction (unit TRUE) or a disjunction (unit FALSE):
\* the unit is dropped, its opposite wins, repetitions are dropped.
MkBool(head, unit, args) ==
    LET parts == Flat(head, args)
        rest == {a \in ToSet(parts) : a # Bool(unit)}
    IN  IF Bool(~unit) \in rest THEN Bool(~unit)
        ELSE IF rest = {} THEN Bool(unit)
        ELSE IF Cardinality(rest) = 1 THEN CHOOSE a \in rest : TRUE
        ELSE <<head, SetToSortSeq(rest, Precedes)>>

And(args) == MkBool("And", TRUE, args)
Or(args) == MkBool("Or", FALSE, args)

Plus(s, t) == Mk("Plus", <<s, t>>)
Times(s, t) == Mk("Times", <<s, t>>)
Power(t, n) == Mk("Power", <<t, Int_(n)>>)
Neg(t) == Times(Int_(-1), t)
Fact(op, s, t) == Mk(op, <<s, t>>)

RECURSIVE Subst(_, _, _)
Subst(t, x, v) ==
    IF t = x THEN v
    ELSE IF IsExpr(t)
         THEN Mk(Kind(t), [i \in DOMAIN Args(t) |-> Subst(Args(t)[i], x, v)])
    ELSE t

-------------------------------------------------------------------------------
(* Exact values.  A rational is a numerator over a positive denominator; a *)
(* denominator zero says that there is no value, and whatever is made of   *)
(* it has none either.                                                     *)

QAdd(p, q) == <<p[1] * q[2] + q[1] * p[2], p[2] * q[2]>>
QMul(p, q) == <<p[1] * q[1], p[2] * q[2]>>
QPow(p, n) == <<p[1] ^ n, p[2] ^ n>>
QAbs(p) == IF p[1] < 0 THEN <<-p[1], p[2]>> ELSE p
QInverse(p) == IF p[1] < 0 THEN <<-p[2], -p[1]>> ELSE <<p[2], p[1]>>

NoValue == <<0, 0>>
HasValue(p) == p[2] # 0
EqualValues(p, q) == HasValue(p) /\ HasValue(q) /\ p[1] * q[2] = q[1] * p[2]

\* Zero has no zeroth power and no inverse.
QRaise(p, n) ==
    IF ~HasValue(p) \/ (p[1] = 0 /\ n <= 0) THEN NoValue
    ELSE IF n >= 0 THEN QPow(p, n) ELSE QPow(QInverse(p), -n)

Gcd[m \in Nat, n \in Nat] == IF n = 0 THEN m ELSE Gcd[n, m % n]

Magnitude(k) == IF k < 0 THEN -k ELSE k
SignOfInt(k) == IF k > 0 THEN 1 ELSE IF k < 0 THEN -1 ELSE 0

\* Fraction(n, d).
Lowest[n \in Int, d \in Int] ==
    LET g == Gcd[Magnitude(n), Magnitude(d)]
    IN  <<SignOfInt(n) * SignOfInt(d) * (Magnitude(n) \div g), Magnitude(d) \div g>>
Rat(n, d) == Lowest[n, d]

\* N: a fraction with denominator one is an integer.
FromFraction(q) == IF q[2] = 1 THEN Int_(q[1]) ELSE <<"Rat", q>>
Literal(q) == FromFraction(Rat(q[1], q[2]))

\* num_val
LiteralValue(t) == IF IsNum(t) THEN <<t[2], 1>> ELSE t[2]

-------------------------------------------------------------------------------
(* fold: every all-literal subterm is replaced by its value.               *)

Unit(head) == IF head = "Plus" THEN 0 ELSE 1

\* The sum or product of the literals among args.
Total(head, args) ==
    FoldLeft(LAMBDA q, a : IF ~IsLiteral(a) THEN q
                           ELSE IF head = "Plus" THEN QAdd(q, LiteralValue(a))
                           ELSE QMul(q, LiteralValue(a)),
             <<Unit(head), 1>>, args)

OneOrMore(head, args) == IF Len(args) = 1 THEN args[1] ELSE Mk(head, args)

\* The literals, collected into one, are absorbed when they are the unit; a
\* literal zero factor makes the product zero.
Joined(head, total, rest) ==
    IF rest = <<>> \/ (head = "Times" /\ total = Zero) THEN total
    ELSE OneOrMore(head, IF total = Int_(Unit(head)) THEN rest ELSE Append(rest, total))

Collect(head, args) ==
    Joined(head, Literal(Total(head, args)), SelectSeq(args, LAMBDA a : ~IsLiteral(a)))

\* A literal is raised when the result exists; no base is raised to zero
\* unless it is a literal.
RaisedTo(base, exponent, q) ==
    IF HasValue(q) THEN Literal(q) ELSE <<"Power", <<base, exponent>>>>

FoldPower(base, exponent) ==
    IF exponent = Int_(1) THEN base
    ELSE IF IsLiteral(base) /\ IsNum(exponent)
         THEN RaisedTo(base, exponent, QRaise(LiteralValue(base), NumVal(exponent)))
    ELSE <<"Power", <<base, exponent>>>>

FoldNode(head, args) ==
    CASE head \in {"Plus", "Times"} -> Collect(head, Flat(head, args))
      [] head = "Power" -> FoldPower(args[1], args[2])
      [] OTHER -> <<head, args>>

RECURSIVE Fold(_)
Fold(t) ==
    IF ~IsExpr(t) THEN t
    ELSE FoldNode(Kind(t), Table([i \in DOMAIN Args(t) |-> Fold(Args(t)[i])]))

Difference(s, t) == Fold(Plus(s, Neg(t)))

\* A world gives every symbol and constant a value, and a declared function
\* a value in its range at every argument; the zero-shaped function is the
\* absolute value.
RECURSIVE Value(_, _)
Value(t, w) ==
    CASE IsLiteral(t) -> LiteralValue(t)
      [] Kind(t) \in {"Sym", "Const"} -> w[t[2]]
      [] Kind(t) = "Plus" ->
            FoldLeft(LAMBDA q, a : QAdd(q, Value(a, w)), <<0, 1>>, Args(t))
      [] Kind(t) = "Times" ->
            FoldLeft(LAMBDA q, a : QMul(q, Value(a, w)), <<1, 1>>, Args(t))
      [] Kind(t) = "Power" -> QRaise(Value(Args(t)[1], w), Value(Args(t)[2], w)[1])
      [] Kind(t) \in ZeroShaped -> QAbs(Value(Args(t)[1], w))
      [] OTHER -> w[Kind(t)]
===============================================================================
