----------------------------- MODULE Cells_proofs -----------------------------
(***************************************************************************)
(* The search for real roots (cas/math/realroot.py) and the cells between  *)
(* them (cas/math/cad.py), for every polynomial, however many roots it has *)
(* and however close they are: what the counting of roots in intervals and *)
(* the halving of these amount to.                                         *)
(***************************************************************************)
EXTENDS Cells, SequenceTheorems, FiniteSetTheorems, WellFoundedInduction, TLAPS

-----------------------------------------------------------------------------
(* Numbers and points. *)

Searchable == {p \in Inputs : p_deg(p) > 0}

\* The points of the line are in a total order.
LEMMA LineOrder ==
    ASSUME NEW p \in Inputs
    PROVE  /\ \A u \in Line(p) : ~Before(u, u)
           /\ \A u, v \in Line(p) : u = v \/ Before(u, v) \/ Before(v, u)
           /\ \A u, v, w \in Line(p) : Before(u, v) /\ Before(v, w) => Before(u, w)
<1>1. Line(p) \in {Line(q) : q \in Inputs}
  OBVIOUS
<1>2. LineAssumption(Line(p))
  BY <1>1, IsolationAssumption, Zenon
<1>. QED
  BY <1>2, Zenon DEF LineAssumption

LEMMA SearchableFacts ==
    ASSUME NEW p \in Searchable
    PROVE  /\ p \in Inputs
           /\ NumberAssumption(p)
           /\ RootAssumption(p, squarefree_part(p))
           /\ CountAssumption(squarefree_part(p), sturm_sequence(squarefree_part(p)), Grid(p))
  BY IsolationAssumption, Zenon DEF Searchable

\* Numbers are ordered as the points they are at.
LEMMA NumberOrder ==
    ASSUME NEW p \in Searchable
    PROVE  /\ \A m \in Grid(p) : At(m) \in Line(p)
           /\ \A m, n \in Grid(p) : Less(m, n) <=> Before(At(m), At(n))
           /\ \A m, n \in Grid(p) : At(m) = At(n) => m = n
           /\ \A m \in Grid(p) : ~Less(m, m)
           /\ \A m, n \in Grid(p) : m = n \/ Less(m, n) \/ Less(n, m)
           /\ \A l, m, n \in Grid(p) : Less(l, m) /\ Less(m, n) => Less(l, n)
<1>1. /\ \A m \in Grid(p) : At(m) \in Line(p)
      /\ \A m, n \in Grid(p) : Less(m, n) <=> Before(At(m), At(n))
      /\ \A m, n \in Grid(p) : At(m) = At(n) => m = n
  BY SearchableFacts, Zenon DEF NumberAssumption
<1>2. p \in Inputs
  BY SearchableFacts
<1>3. /\ \A u \in Line(p) : ~Before(u, u)
      /\ \A u, v \in Line(p) : u = v \/ Before(u, v) \/ Before(v, u)
      /\ \A u, v, w \in Line(p) : Before(u, v) /\ Before(v, w) => Before(u, w)
  BY <1>2, LineOrder, Zenon
<1>4. \A m \in Grid(p) : ~Less(m, m)
  BY <1>1, <1>3, Zenon
<1>5. \A m, n \in Grid(p) : m = n \/ Less(m, n) \/ Less(n, m)
  BY <1>1, <1>3, Zenon
<1>6. \A l, m, n \in Grid(p) : Less(l, m) /\ Less(m, n) => Less(l, n)
  BY <1>1, <1>3, Zenon
<1>. QED
  BY <1>1, <1>4, <1>5, <1>6, Zenon

\* The middle of two numbers that is a number is between them.
LEMMA HalfBetween ==
    ASSUME NEW p \in Searchable, NEW a \in Grid(p), NEW b \in Grid(p), Less(a, b),
           Half(a, b) \in Grid(p)
    PROVE  Less(a, Half(a, b)) /\ Less(Half(a, b), b)
<1>1. NumberAssumption(p)
  BY SearchableFacts
<1>2. At(Half(a, b)) \in Line(p)
  BY <1>1, Zenon DEF NumberAssumption
<1>3. Between(At(Half(a, b)), a, b)
  BY <1>1, <1>2, Zenon DEF NumberAssumption
<1>. QED
  BY <1>1, <1>3, Zenon DEF NumberAssumption, Between

-----------------------------------------------------------------------------
(* Intervals. *)

Intervals(p) == Grid(p) \X Grid(p)

\* Intervals that have at most an end in common.
Apart(X, Y) == ~Less(Y[1], X[2]) \/ ~Less(X[1], Y[2])

Inside(X, Y) == ~Less(X[1], Y[1]) /\ ~Less(Y[2], X[2])

\* An answer: a root itself, or an open interval around one.
OnlyRoot(p, r, a, b) ==
    /\ r \in RootsOf(p)
    /\ Between(r, a, b)
    /\ \A s \in RootsOf(p) : Between(s, a, b) => s = r

HoldsOne(p, X) ==
    \/ X[1] = X[2] /\ At(X[1]) \in RootsOf(p)
    \/ Less(X[1], X[2]) /\ \E r \in RootsOf(p) : OnlyRoot(p, r, X[1], X[2])

\* What the chain counts.
LEMMA Counting ==
    ASSUME NEW p \in Searchable, NEW a \in Grid(p), NEW b \in Grid(p), Less(a, b),
           NEW count, count = count_roots_open(sturm_sequence(squarefree_part(p)),
                                               squarefree_part(p), a, b)
    PROVE  /\ count \in Nat
           /\ count = 0 <=> ~\E r \in RootsOf(p) : Between(r, a, b)
           /\ count = 1 => \E r \in RootsOf(p) : OnlyRoot(p, r, a, b)
<1>. DEFINE R == {u \in RootsOf(p) : Between(u, a, b)}
<1>1. RootsOf(squarefree_part(p)) = RootsOf(p) /\ IsFiniteSet(RootsOf(p))
  BY SearchableFacts, Zenon DEF RootAssumption
<1>2. count = Cardinality({u \in RootsOf(squarefree_part(p)) : Between(u, a, b)})
  BY SearchableFacts, Zenon DEF CountAssumption
<1>3. count = Cardinality(R)
  BY <1>1, <1>2
<1>4. R \in SUBSET RootsOf(p)
  OBVIOUS
<1>5. IsFiniteSet(R)
  <2>. HIDE DEF R
  <2>. QED
    BY <1>1, <1>4, FS_Subset, Zenon
<1>6. count \in Nat
  BY <1>3, <1>5, FS_CardinalityType, Zenon
<1>7. count = 0 <=> R = {}
  BY <1>3, <1>5, FS_EmptySet, Zenon
<1>8. count = 1 => \E r : R = {r}
  BY <1>3, <1>5, FS_Singleton, Zenon
<1>9. ASSUME count = 1
      PROVE  \E r \in RootsOf(p) : OnlyRoot(p, r, a, b)
  <2>1. PICK r : R = {r}
    BY <1>8, <1>9
  <2>2. r \in R /\ \A s \in R : s = r
    BY <2>1
  <2>. QED
    BY <2>2 DEF OnlyRoot
<1>. QED
  BY <1>6, <1>7, <1>9, Zenon

\* The root at or inside an interval.
LEMMA HeldRoot ==
    ASSUME NEW p, NEW X, HoldsOne(p, X)
    PROVE  \E r \in RootsOf(p) : Isolated(r, X)
<1>1. CASE X[1] = X[2] /\ At(X[1]) \in RootsOf(p)
  BY <1>1 DEF Isolated
<1>2. CASE Less(X[1], X[2]) /\ \E r \in RootsOf(p) : OnlyRoot(p, r, X[1], X[2])
  BY <1>2 DEF Isolated, OnlyRoot
<1>. QED
  BY <1>1, <1>2 DEF HoldsOne

-----------------------------------------------------------------------------
(* A search under way: f is found, g is pending. *)

\* Every interval found has a root to itself.
FoundHold(p, f) == \A i \in DOMAIN f : HoldsOne(p, f[i])

Once(p, f) ==
    \A i, j \in DOMAIN f : i # j =>
        ~\E u \in RootsOf(p) : Isolated(u, f[i]) /\ Isolated(u, f[j])

Open(g) == \A i \in DOMAIN g : Less(g[i][1], g[i][2])

\* No root is lost.
Covered(p, f, g) ==
    \A u \in RootsOf(p) :
        \/ \E i \in DOMAIN f : Isolated(u, f[i])
        \/ \E i \in DOMAIN g : Between(u, g[i][1], g[i][2])

AllApart(f) == \A i, j \in DOMAIN f : i # j => Apart(f[i], f[j])
ApartFrom(f, g) == \A i \in DOMAIN f, j \in DOMAIN g : Apart(f[i], g[j])

\* A root at which an open interval begins has been found before that.
ExactFirst(f) ==
    \A i, j \in DOMAIN f :
        f[i][1] = f[i][2] /\ Less(f[j][1], f[j][2]) /\ f[i][1] = f[j][1] => i < j

Answers(p, f) ==
    /\ f \in Seq(Intervals(p))
    /\ FoundHold(p, f) /\ Once(p, f) /\ AllApart(f) /\ ExactFirst(f)

Pieces(p, g) == g \in Seq(Intervals(p)) /\ Open(g) /\ AllApart(g)

Searching(p, f, g) ==
    Answers(p, f) /\ Pieces(p, g) /\ Covered(p, f, g) /\ ApartFrom(f, g)

\* What is apart from an interval is apart from what is inside it.
LEMMA ApartInside ==
    ASSUME NEW p \in Searchable, NEW X \in Intervals(p), NEW Y \in Intervals(p),
           NEW Z \in Intervals(p), Inside(X, Y), Apart(Y, Z)
    PROVE  Apart(X, Z) /\ Apart(Z, X)
<1>1. /\ X[1] \in Grid(p) /\ X[2] \in Grid(p) /\ Y[1] \in Grid(p) /\ Y[2] \in Grid(p)
      /\ Z[1] \in Grid(p) /\ Z[2] \in Grid(p)
  BY DEF Intervals
<1>2. /\ \A m, n \in Grid(p) : m = n \/ Less(m, n) \/ Less(n, m)
      /\ \A l, m, n \in Grid(p) : Less(l, m) /\ Less(m, n) => Less(l, n)
  BY NumberOrder, Zenon
<1>. QED
  BY <1>1, <1>2 DEF Apart, Inside

\* An open interval has no point in common with one that is apart from it.
LEMMA ApartDisjoint ==
    ASSUME NEW p \in Searchable, NEW X \in Intervals(p), NEW Y \in Intervals(p),
           Apart(X, Y), NEW u \in Line(p), Isolated(u, X), Between(u, Y[1], Y[2])
    PROVE  FALSE
<1>1. /\ X[1] \in Grid(p) /\ X[2] \in Grid(p) /\ Y[1] \in Grid(p) /\ Y[2] \in Grid(p)
  BY DEF Intervals
<1>2. /\ \A m \in Grid(p) : At(m) \in Line(p)
      /\ \A m, n \in Grid(p) : Less(m, n) <=> Before(At(m), At(n))
  BY NumberOrder, Zenon
<1>3. p \in Inputs
  BY SearchableFacts
<1>4. \A v, w, z \in Line(p) : Before(v, w) /\ Before(w, z) => Before(v, z)
  BY <1>3, LineOrder, Zenon
<1>5. CASE X[1] = X[2] /\ u = At(X[1])
  BY <1>1, <1>2, <1>4, <1>5 DEF Apart, Between
<1>6. CASE Between(u, X[1], X[2])
  BY <1>1, <1>2, <1>4, <1>6 DEF Apart, Between
<1>. QED
  BY <1>5, <1>6 DEF Isolated

\* Pending intervals after the first is replaced by pieces of it.
InOneOf(u, g) == \E j \in DOMAIN g : Between(u, g[j][1], g[j][2])

Refilled(p, h, g, N, T) ==
    /\ \A Z \in Intervals(p) :
          (\A j \in DOMAIN g : Apart(Z, g[j])) => \A j \in DOMAIN T : Apart(Z, T[j])
    /\ \A Z \in Intervals(p) :
          Inside(Z, h) /\ (\A k \in DOMAIN N : Apart(Z, N[k]))
          => \A j \in DOMAIN T : Apart(Z, T[j])
    /\ \A u : InOneOf(u, g) => Between(u, h[1], h[2]) \/ InOneOf(u, T)
    /\ \A u : InOneOf(u, N) => InOneOf(u, T)

LEMMA Refill ==
    ASSUME NEW p \in Searchable, NEW g, Pieces(p, g), g # <<>>,
           NEW N, Pieces(p, N), \A k \in DOMAIN N : Inside(N[k], Head(g)),
           NEW T, T = N \o Tail(g)
    PROVE  Pieces(p, T) /\ Refilled(p, Head(g), g, N, T)
<1>0. /\ g \in Seq(Intervals(p)) /\ Open(g) /\ AllApart(g)
      /\ N \in Seq(Intervals(p)) /\ Open(N) /\ AllApart(N)
  BY DEF Pieces
<1>. DEFINE h == Head(g)
<1>1. /\ h = g[1] /\ h \in Intervals(p) /\ Len(g) \in Nat \ {0}
      /\ Tail(g) \in Seq(Intervals(p)) /\ Len(Tail(g)) = Len(g) - 1
      /\ \A i \in 1 .. Len(g) - 1 : Tail(g)[i] = g[i + 1]
  BY <1>0, HeadTailProperties, EmptySeq
<1>2. /\ DOMAIN g = 1 .. Len(g) /\ DOMAIN N = 1 .. Len(N) /\ Len(N) \in Nat
      /\ \A i \in DOMAIN g : g[i] \in Intervals(p)
      /\ \A i \in DOMAIN N : N[i] \in Intervals(p)
  BY <1>0, LenProperties, ElementOfSeq
<1>3. /\ T \in Seq(Intervals(p)) /\ Len(T) = Len(N) + (Len(g) - 1)
      /\ \A i \in 1 .. Len(T) : T[i] = IF i <= Len(N) THEN N[i] ELSE Tail(g)[i - Len(N)]
  BY <1>0, <1>1, ConcatProperties
<1>4. DOMAIN T = 1 .. Len(N) + (Len(g) - 1)
  BY <1>3, LenProperties
<1>5. \A k \in DOMAIN N : k \in DOMAIN T /\ T[k] = N[k]
  BY <1>1, <1>2, <1>3, <1>4
<1>6. \A i \in DOMAIN g : i # 1 => Len(N) + (i - 1) \in DOMAIN T /\ T[Len(N) + (i - 1)] = g[i]
  BY <1>1, <1>2, <1>3, <1>4
<1>7. ASSUME NEW j \in DOMAIN T
      PROVE  \/ j \in DOMAIN N /\ T[j] = N[j]
             \/ \E i \in DOMAIN g : i # 1 /\ j = Len(N) + (i - 1) /\ T[j] = g[i]
  <2>1. CASE j <= Len(N)
    BY <1>2, <1>3, <1>4, <2>1
  <2>2. CASE ~(j <= Len(N))
    <3>1. /\ j - Len(N) + 1 \in DOMAIN g /\ j - Len(N) + 1 # 1
          /\ j = Len(N) + (j - Len(N) + 1 - 1) /\ T[j] = g[j - Len(N) + 1]
      BY <1>1, <1>2, <1>3, <1>4, <2>2
    <3>. QED
      BY <3>1
  <2>. QED
    BY <2>1, <2>2
<1>8. 1 \in DOMAIN g
  BY <1>1, <1>2
<1>. HIDE DEF h
<1>9. Open(T)
  BY <1>0, <1>7, Zenon DEF Open
<1>10. ASSUME NEW Z \in Intervals(p), Inside(Z, h), \A k \in DOMAIN N : Apart(Z, N[k]),
              NEW j \in DOMAIN T
       PROVE  Apart(Z, T[j])
  <2>1. CASE j \in DOMAIN N /\ T[j] = N[j]
    BY <1>10, <2>1, Zenon
  <2>2. ASSUME NEW i \in DOMAIN g, i # 1, T[j] = g[i]
        PROVE  Apart(Z, T[j])
    <3>1. Apart(h, g[i])
      BY <1>0, <1>1, <1>8, <2>2, Zenon DEF AllApart
    <3>. QED
      BY <1>1, <1>2, <1>10, <2>2, <3>1, ApartInside, Zenon
  <2>. QED
    BY <1>7, <2>1, <2>2, Zenon
<1>11. ASSUME NEW Z \in Intervals(p), \A j \in DOMAIN g : Apart(Z, g[j]), NEW j \in DOMAIN T
       PROVE  Apart(Z, T[j])
  <2>1. CASE j \in DOMAIN N /\ T[j] = N[j]
    <3>1. Inside(N[j], h)
      BY <2>1, Zenon DEF h
    <3>2. Apart(h, Z)
      BY <1>1, <1>8, <1>11, Zenon DEF Apart
    <3>. QED
      BY <1>1, <1>2, <2>1, <3>1, <3>2, ApartInside, Zenon
  <2>2. ASSUME NEW i \in DOMAIN g, i # 1, T[j] = g[i]
        PROVE  Apart(Z, T[j])
    BY <1>11, <2>2, Zenon
  <2>. QED
    BY <1>7, <2>1, <2>2, Zenon
<1>12. ASSUME NEW i \in DOMAIN T, NEW j \in DOMAIN T, i # j
       PROVE  Apart(T[i], T[j])
  <2>1. CASE i \in DOMAIN N /\ T[i] = N[i] /\ j \in DOMAIN N /\ T[j] = N[j]
    BY <1>0, <1>12, <2>1, Zenon DEF AllApart
  <2>2. ASSUME i \in DOMAIN N, T[i] = N[i], NEW k \in DOMAIN g, k # 1, T[j] = g[k]
        PROVE  Apart(T[i], T[j])
    <3>1. Apart(h, g[k])
      BY <1>0, <1>1, <1>8, <2>2, Zenon DEF AllApart
    <3>2. Inside(N[i], h)
      BY <2>2, Zenon DEF h
    <3>. QED
      BY <1>1, <1>2, <2>2, <3>1, <3>2, ApartInside, Zenon
  <2>3. ASSUME NEW k \in DOMAIN g, k # 1, T[i] = g[k], j \in DOMAIN N, T[j] = N[j]
        PROVE  Apart(T[i], T[j])
    <3>1. Apart(h, g[k])
      BY <1>0, <1>1, <1>8, <2>3, Zenon DEF AllApart
    <3>2. Inside(N[j], h)
      BY <2>3, Zenon DEF h
    <3>. QED
      BY <1>1, <1>2, <2>3, <3>1, <3>2, ApartInside, Zenon
  <2>4. ASSUME NEW k \in DOMAIN g, k # 1, i = Len(N) + (k - 1), T[i] = g[k],
               NEW l \in DOMAIN g, l # 1, j = Len(N) + (l - 1), T[j] = g[l]
        PROVE  Apart(T[i], T[j])
    <3>1. k # l
      BY <1>12, <2>4
    <3>. QED
      BY <1>0, <2>4, <3>1, Zenon DEF AllApart
  <2>. QED
    BY <1>7, <2>1, <2>2, <2>3, <2>4, Zenon
<1>13. AllApart(T)
  BY <1>12, Zenon DEF AllApart
<1>14. ASSUME NEW u, NEW i \in DOMAIN g, Between(u, g[i][1], g[i][2])
       PROVE  \/ Between(u, h[1], h[2])
              \/ \E j \in DOMAIN T : Between(u, T[j][1], T[j][2])
  <2>1. CASE i = 1
    BY <1>1, <1>14, <2>1
  <2>2. CASE i # 1
    BY <1>6, <1>14, <2>2
  <2>. QED
    BY <2>1, <2>2
<1>15. ASSUME NEW u, NEW k \in DOMAIN N, Between(u, N[k][1], N[k][2])
       PROVE  \E j \in DOMAIN T : Between(u, T[j][1], T[j][2])
  BY <1>5, <1>15
<1>16. Pieces(p, T)
  BY <1>3, <1>9, <1>13 DEF Pieces
<1>17. Refilled(p, h, g, N, T)
  BY <1>10, <1>11, <1>14, <1>15, Zenon DEF Refilled, InOneOf
<1>. QED
  BY <1>16, <1>17 DEF h

\* One more interval found, x, which lies in an open interval h that is apart
\* from all found before.
Extended(f, x, F) ==
    /\ \A u : (\E i \in DOMAIN f : Isolated(u, f[i])) \/ Isolated(u, x)
               => \E i \in DOMAIN F : Isolated(u, F[i])
    /\ \A g : ApartFrom(f, g) /\ (\A j \in DOMAIN g : Apart(x, g[j])) => ApartFrom(F, g)

LEMMA Extend ==
    ASSUME NEW p \in Searchable, NEW f, Answers(p, f),
           NEW h \in Intervals(p), \A i \in DOMAIN f : Apart(f[i], h),
           NEW x \in Intervals(p), HoldsOne(p, x), Inside(x, h),
           x[1] = x[2] => Less(h[1], x[1]) /\ Less(x[2], h[2]),
           NEW F, F = Append(f, x)
    PROVE  Answers(p, F) /\ Extended(f, x, F)
<1>0. /\ f \in Seq(Intervals(p))
      /\ FoundHold(p, f) /\ Once(p, f) /\ AllApart(f) /\ ExactFirst(f)
  BY DEF Answers
<1>1. /\ Len(f) \in Nat /\ DOMAIN f = 1 .. Len(f)
      /\ \A i \in DOMAIN f : f[i] \in Intervals(p)
  BY <1>0, LenProperties, ElementOfSeq
<1>2. /\ F \in Seq(Intervals(p)) /\ Len(F) = Len(f) + 1
      /\ \A i \in 1 .. Len(f) : F[i] = f[i]
      /\ F[Len(f) + 1] = x
  BY <1>0, AppendProperties
<1>3. DOMAIN F = 1 .. Len(f) + 1
  BY <1>2, LenProperties
<1>. DEFINE n == Len(f) + 1
<1>4. /\ n \in DOMAIN F /\ F[n] = x
      /\ \A i \in DOMAIN f : i \in DOMAIN F /\ F[i] = f[i] /\ i < n /\ i # n
      /\ \A i \in DOMAIN F : i \in DOMAIN f \/ i = n
      /\ \A i \in DOMAIN F : ~(n < i)
  BY <1>1, <1>2, <1>3
<1>. HIDE DEF n
<1>5. /\ x[1] \in Grid(p) /\ x[2] \in Grid(p) /\ h[1] \in Grid(p) /\ h[2] \in Grid(p)
      /\ \A i \in DOMAIN f : f[i][1] \in Grid(p) /\ f[i][2] \in Grid(p)
  BY <1>1 DEF Intervals
<1>6. \A l, m, n_1 \in Grid(p) : Less(l, m) /\ Less(m, n_1) => Less(l, n_1)
  BY NumberOrder, Zenon
<1>7. \A i \in DOMAIN f : Apart(f[i], x) /\ Apart(x, f[i])
  <2>. TAKE i \in DOMAIN f
  <2>1. Apart(h, f[i])
    BY Zenon DEF Apart
  <2>. QED
    BY <1>1, <2>1, ApartInside, Zenon
<1>8. ASSUME NEW u \in RootsOf(p), Isolated(u, x), NEW i \in DOMAIN f, Isolated(u, f[i])
      PROVE  FALSE
  <2>1. u \in Line(p)
    BY SearchableFacts DEF RootAssumption
  <2>2. CASE x[1] = x[2] /\ u = At(x[1])
    <3>1. Between(u, h[1], h[2])
      BY <1>5, <2>2, NumberOrder, Zenon DEF Between
    <3>. QED
      BY <1>1, <1>8, <2>1, <3>1, ApartDisjoint, Zenon
  <2>3. CASE Between(u, x[1], x[2])
    BY <1>1, <1>7, <1>8, <2>1, <2>3, ApartDisjoint, Zenon
  <2>. QED
    BY <1>8, <2>2, <2>3, Zenon DEF Isolated
<1>9. FoundHold(p, F)
  BY <1>0, <1>4, Zenon DEF FoundHold
<1>10. Once(p, F)
  <2>. SUFFICES ASSUME NEW i \in DOMAIN F, NEW j \in DOMAIN F, i # j,
                       NEW u \in RootsOf(p), Isolated(u, F[i]), Isolated(u, F[j])
                PROVE  FALSE
    BY Zenon DEF Once
  <2>1. CASE i \in DOMAIN f /\ j \in DOMAIN f
    BY <1>0, <1>4, <2>1, Zenon DEF Once
  <2>2. CASE i = n
    BY <1>4, <1>8, <2>2, Zenon
  <2>3. CASE j = n
    BY <1>4, <1>8, <2>3, Zenon
  <2>. QED
    BY <1>4, <2>1, <2>2, <2>3, Zenon
<1>11. AllApart(F)
  <2>. SUFFICES ASSUME NEW i \in DOMAIN F, NEW j \in DOMAIN F, i # j
                PROVE  Apart(F[i], F[j])
    BY Zenon DEF AllApart
  <2>1. CASE i \in DOMAIN f /\ j \in DOMAIN f
    BY <1>0, <1>4, <2>1, Zenon DEF AllApart
  <2>2. CASE i = n
    BY <1>4, <1>7, <2>2, Zenon
  <2>3. CASE j = n
    BY <1>4, <1>7, <2>3, Zenon
  <2>. QED
    BY <1>4, <2>1, <2>2, <2>3, Zenon
<1>12. ExactFirst(F)
  <2>. SUFFICES ASSUME NEW i \in DOMAIN F, NEW j \in DOMAIN F,
                       F[i][1] = F[i][2], Less(F[j][1], F[j][2]), F[i][1] = F[j][1]
                PROVE  i < j
    BY Zenon DEF ExactFirst
  <2>1. CASE i \in DOMAIN f /\ j \in DOMAIN f
    BY <1>0, <1>4, <2>1, Zenon DEF ExactFirst
  <2>2. CASE i \in DOMAIN f /\ j = n
    BY <1>4, <2>2, Zenon
  <2>3. CASE i = n /\ j \in DOMAIN f
    <3>1. x[1] = x[2] /\ Less(f[j][1], f[j][2]) /\ x[1] = f[j][1]
      BY <1>4, <2>3, Zenon
    <3>2. ~Less(h[1], f[j][2]) \/ ~Less(f[j][1], h[2])
      BY <2>3, Zenon DEF Apart
    <3>3. Less(h[1], x[1]) /\ Less(x[2], h[2])
      BY <3>1
    <3>4. Less(h[1], f[j][2]) /\ Less(f[j][1], h[2])
      BY <1>5, <1>6, <2>3, <3>1, <3>3, Zenon
    <3>. QED
      BY <3>2, <3>4
  <2>4. CASE i = n /\ j = n
    <3>1. x[1] = x[2] /\ Less(x[1], x[2])
      BY <1>4, <2>4, Zenon
    <3>. QED
      BY <1>5, <3>1, NumberOrder, Zenon
  <2>. QED
    BY <1>4, <2>1, <2>2, <2>3, <2>4, Zenon
<1>13. ASSUME NEW u, (\E i \in DOMAIN f : Isolated(u, f[i])) \/ Isolated(u, x)
       PROVE  \E i \in DOMAIN F : Isolated(u, F[i])
  BY <1>4, <1>13, Zenon
<1>14. ASSUME NEW g, ApartFrom(f, g), \A j \in DOMAIN g : Apart(x, g[j])
       PROVE  ApartFrom(F, g)
  BY <1>4, <1>14, Zenon DEF ApartFrom
<1>15. Answers(p, F)
  BY <1>2, <1>9, <1>10, <1>11, <1>12 DEF Answers
<1>. QED
  BY <1>13, <1>14, <1>15, Zenon DEF Extended

-----------------------------------------------------------------------------
(* The search begins. *)

\* The last of finitely many indices.
LEMMA LastExists ==
    ASSUME NEW n \in Nat, NEW S, S \subseteq 1 .. n, NEW s \in S
    PROVE  \E i \in S : \A j \in S : j <= i
<1>. DEFINE behind(i) == n - i
            distances == {behind(i) : i \in S}
            R == OpToRel(<, Nat)
<1>1. \A i \in S : i \in Nat /\ behind(i) \in Nat
  OBVIOUS
<1>2. distances \subseteq Nat /\ behind(s) \in distances
  BY <1>1
<1>3. PICK least \in distances : \A d \in distances : ~(<<d, least>> \in R)
  <2>. HIDE DEF distances, R
  <2>1. distances # {}
    BY <1>2
  <2>2. IsWellFoundedOn(R, Nat)
    BY NatLessThanWellFounded DEF R
  <2>. QED
    BY <1>2, <2>1, <2>2, WFMin, Zenon
<1>4. PICK i \in S : least = behind(i)
  BY <1>3
<1>5. \A j \in S : ~(behind(j) < behind(i))
  <2>. TAKE j \in S
  <2>1. behind(j) \in distances
    OBVIOUS
  <2>2. ~(<<behind(j), behind(i)>> \in R)
    BY <1>3, <1>4, <2>1
  <2>. QED
    BY <1>1, <2>2 DEF OpToRel
<1>6. \A j \in S : j <= i
  BY <1>1, <1>5
<1>. QED
  BY <1>6

\* The bounds of the first intervals ascend, and all roots are between them.
LEMMA BoundsAscend ==
    ASSUME NEW p \in Searchable, NEW q, q = squarefree_part(p),
           NEW B, B = Bounds(q), NEW R, R = rational_roots(q)
    PROVE  /\ R \in Seq(Grid(p)) /\ B \in Seq(Grid(p)) /\ Len(B) = Len(R) + 2
           /\ \A i \in DOMAIN R : R[i] = B[i + 1] /\ At(R[i]) \in RootsOf(p)
           /\ \A i, j \in DOMAIN B : i < j => Less(B[i], B[j])
           /\ \A u \in RootsOf(p) : Between(u, B[1], B[Len(B)])
<1>. DEFINE c == cauchy_bound(q)
            l == Minus(c)
<1>1. /\ R \in Seq(Grid(p)) /\ l \in Grid(p) /\ c \in Grid(p) /\ Less(l, c)
      /\ \A i \in DOMAIN R : At(R[i]) \in RootsOf(p)
      /\ \A i, j \in DOMAIN R : i < j => Less(R[i], R[j])
      /\ \A u \in RootsOf(p) : Between(u, l, c)
  BY SearchableFacts DEF RootAssumption
<1>. HIDE DEF c
<1>2. B = <<l>> \o R \o <<c>>
  BY DEF Bounds, c
<1>. HIDE DEF l
<1>3. /\ Len(R) \in Nat /\ DOMAIN R = 1 .. Len(R)
      /\ \A i \in DOMAIN R : R[i] \in Grid(p)
  BY <1>1, LenProperties, ElementOfSeq
<1>4. /\ B \in Seq(Grid(p)) /\ Len(B) = Len(R) + 2
      /\ B[1] = l /\ B[Len(R) + 2] = c
      /\ \A i \in 1 .. Len(R) : B[i + 1] = R[i]
  <2>1. /\ <<l>> \o R \in Seq(Grid(p)) /\ Len(<<l>> \o R) = 1 + Len(R)
        /\ (<<l>> \o R)[1] = l
        /\ \A i \in 1 .. Len(R) : (<<l>> \o R)[i + 1] = R[i]
    BY <1>1
  <2>. DEFINE A == <<l>> \o R
  <2>. HIDE DEF A
  <2>2. /\ A \in Seq(Grid(p)) /\ Len(A) = 1 + Len(R) /\ A[1] = l
        /\ \A i \in 1 .. Len(R) : A[i + 1] = R[i]
    BY <2>1 DEF A
  <2>3. B = A \o <<c>>
    BY <1>2 DEF A
  <2>4. /\ B \in Seq(Grid(p)) /\ Len(B) = Len(A) + 1
        /\ B[Len(A) + 1] = c
        /\ \A i \in 1 .. Len(A) : B[i] = A[i]
    BY <1>1, <2>2, <2>3
  <2>. QED
    BY <1>3, <2>2, <2>4
<1>5. DOMAIN B = 1 .. Len(R) + 2
  BY <1>4, LenProperties
<1>6. \A i \in DOMAIN R : Less(l, R[i]) /\ Less(R[i], c)
  BY <1>1, <1>3, NumberOrder, Zenon DEF Between
<1>7. ASSUME NEW i \in DOMAIN B, NEW j \in DOMAIN B, i < j
      PROVE  Less(B[i], B[j])
  <2>1. CASE i = 1 /\ j = Len(R) + 2
    BY <1>1, <1>4, <2>1
  <2>2. CASE i = 1 /\ j # Len(R) + 2
    <3>1. j - 1 \in DOMAIN R /\ B[j] = R[j - 1]
      BY <1>3, <1>4, <1>5, <1>7, <2>2
    <3>. QED
      BY <1>4, <1>6, <2>2, <3>1
  <2>3. CASE i # 1 /\ j = Len(R) + 2
    <3>1. i - 1 \in DOMAIN R /\ B[i] = R[i - 1]
      BY <1>3, <1>4, <1>5, <1>7, <2>3
    <3>. QED
      BY <1>4, <1>6, <2>3, <3>1
  <2>4. CASE i # 1 /\ j # Len(R) + 2
    <3>1. i - 1 \in DOMAIN R /\ B[i] = R[i - 1] /\ j - 1 \in DOMAIN R /\ B[j] = R[j - 1]
          /\ i - 1 < j - 1
      BY <1>3, <1>4, <1>5, <1>7, <2>4
    <3>. QED
      BY <1>1, <3>1
  <2>. QED
    BY <2>1, <2>2, <2>3, <2>4
<1>. QED
  BY <1>1, <1>3, <1>4, <1>7

\* A root is at a bound or between two successive ones.
LEMMA BoundsCover ==
    ASSUME NEW p \in Searchable, NEW B \in Seq(Grid(p)), Len(B) >= 2,
           NEW u \in Line(p), Between(u, B[1], B[Len(B)])
    PROVE  \E i \in 1 .. Len(B) - 1 :
               \/ i > 1 /\ u = At(B[i])
               \/ Between(u, B[i], B[i + 1])
<1>. DEFINE S == {i \in 1 .. Len(B) : ~Before(u, At(B[i]))}
<1>1. Len(B) \in Nat /\ \A i \in 1 .. Len(B) : B[i] \in Grid(p)
  BY LenProperties, ElementOfSeq
<1>2. p \in Inputs
  BY SearchableFacts
<1>3. /\ \A v \in Line(p) : ~Before(v, v)
      /\ \A v, w \in Line(p) : v = w \/ Before(v, w) \/ Before(w, v)
      /\ \A v, w, z \in Line(p) : Before(v, w) /\ Before(w, z) => Before(v, z)
  BY <1>2, LineOrder, Zenon
<1>4. \A i \in 1 .. Len(B) : At(B[i]) \in Line(p)
  BY <1>1, NumberOrder, Zenon
<1>5. 1 \in 1 .. Len(B)
  BY <1>1
<1>6. 1 \in S
  <2>1. ~Before(u, At(B[1]))
    BY <1>3, <1>4, <1>5, Zenon DEF Between
  <2>. QED
    BY <1>5, <2>1
<1>7. PICK i \in S : \A j \in S : j <= i
  <2>1. S \subseteq 1 .. Len(B)
    OBVIOUS
  <2>. HIDE DEF S
  <2>. QED
    BY <1>1, <1>6, <2>1, LastExists, Zenon
<1>8. i \in 1 .. Len(B) - 1
  <2>1. Len(B) \notin S
    BY DEF Between
  <2>. QED
    BY <1>1, <1>7, <2>1
<1>9. i + 1 \notin S
  BY <1>7, <1>8
<1>10. Before(u, At(B[i + 1]))
  BY <1>1, <1>8, <1>9
<1>11. ~Before(u, At(B[i]))
  BY <1>7
<1>12. u = At(B[i]) \/ Before(At(B[i]), u)
  BY <1>3, <1>4, <1>7, <1>11
<1>13. CASE Before(At(B[i]), u)
  BY <1>8, <1>10, <1>13 DEF Between
<1>14. CASE u = At(B[i])
  <2>1. i # 1
    BY <1>3, <1>14 DEF Between
  <2>. QED
    BY <1>8, <1>14, <2>1
<1>. QED
  BY <1>12, <1>13, <1>14

\* A point is isolated by itself.
LEMMA IsolatedPoint ==
    ASSUME NEW p \in Searchable, NEW u \in Line(p), NEW n \in Grid(p),
           Isolated(u, <<n, n>>)
    PROVE  u = At(n)
<1>1. p \in Inputs
  BY SearchableFacts
<1>2. At(n) \in Line(p)
  BY NumberOrder
<1>3. ~Between(u, n, n)
  BY <1>1, <1>2, LineOrder, Zenon DEF Between
<1>. QED
  BY <1>3 DEF Isolated

LEMMA Start ==
    ASSUME NEW p \in Searchable, NEW q, q = squarefree_part(p)
    PROVE  Searching(p, Exact(rational_roots(q)), Gaps(Bounds(q)))
<1>. DEFINE R == rational_roots(q)
            B == Bounds(q)
            f == Exact(R)
            g == Gaps(B)
<1>1. /\ R \in Seq(Grid(p)) /\ B \in Seq(Grid(p)) /\ Len(B) = Len(R) + 2
      /\ \A i \in DOMAIN R : R[i] = B[i + 1] /\ At(R[i]) \in RootsOf(p)
      /\ \A i, j \in DOMAIN B : i < j => Less(B[i], B[j])
      /\ \A u \in RootsOf(p) : Between(u, B[1], B[Len(B)])
  <2>. HIDE DEF R, B
  <2>1. B = Bounds(q) /\ R = rational_roots(q)
    BY DEF R, B
  <2>. QED
    BY <2>1, BoundsAscend
<1>2. f = [i \in DOMAIN R |-> <<R[i], R[i]>>] /\ g = [i \in 1 .. Len(B) - 1 |-> <<B[i], B[i + 1]>>]
  BY DEF Exact, Gaps
<1>. HIDE DEF R, B, f, g
<1>3. /\ Len(R) \in Nat /\ DOMAIN R = 1 .. Len(R)
      /\ \A i \in DOMAIN R : R[i] \in Grid(p)
      /\ Len(B) \in Nat /\ DOMAIN B = 1 .. Len(B)
      /\ \A i \in DOMAIN B : B[i] \in Grid(p)
  BY <1>1, LenProperties, ElementOfSeq
<1>4. /\ \A m \in Grid(p) : ~Less(m, m)
      /\ \A l, m, n \in Grid(p) : Less(l, m) /\ Less(m, n) => Less(l, n)
  BY NumberOrder, Zenon
<1>5. /\ f \in Seq(Intervals(p)) /\ DOMAIN f = DOMAIN R
      /\ \A i \in DOMAIN f : f[i] = <<R[i], R[i]>>
  BY <1>2, <1>3 DEF Intervals
<1>6. /\ g \in Seq(Intervals(p)) /\ DOMAIN g = 1 .. Len(B) - 1
      /\ \A i \in DOMAIN g : g[i] = <<B[i], B[i + 1]>>
  BY <1>1, <1>2, <1>3 DEF Intervals
<1>7. \A i \in DOMAIN f : f[i][1] = R[i] /\ f[i][2] = R[i]
  BY <1>5
<1>8. \A i \in DOMAIN g : g[i][1] = B[i] /\ g[i][2] = B[i + 1]
  BY <1>6
<1>9. \A i \in DOMAIN B, j \in DOMAIN B : i <= j => ~Less(B[j], B[i])
  <2>. TAKE i \in DOMAIN B, j \in DOMAIN B
  <2>. HAVE i <= j
  <2>1. CASE i = j
    BY <1>3, <1>4, <2>1
  <2>2. CASE i < j
    BY <1>1, <1>3, <1>4, <2>2, Zenon
  <2>. QED
    BY <1>3, <2>1, <2>2
<1>10. \A i \in DOMAIN f : i + 1 \in DOMAIN B /\ f[i][1] = B[i + 1] /\ f[i][2] = B[i + 1]
  BY <1>1, <1>3, <1>5, <1>7
<1>11. \A i \in DOMAIN g : i \in DOMAIN B /\ i + 1 \in DOMAIN B
  BY <1>1, <1>3, <1>6
<1>12. FoundHold(p, f)
  BY <1>1, <1>5, <1>7 DEF FoundHold, HoldsOne
<1>13. Once(p, f)
  <2>. SUFFICES ASSUME NEW i \in DOMAIN f, NEW j \in DOMAIN f, i # j,
                       NEW u \in RootsOf(p), Isolated(u, f[i]), Isolated(u, f[j])
                PROVE  FALSE
    BY Zenon DEF Once
  <2>1. u \in Line(p)
    BY SearchableFacts DEF RootAssumption
  <2>2. u = At(R[i]) /\ u = At(R[j])
    BY <1>3, <1>5, <2>1, IsolatedPoint, Zenon
  <2>3. R[i] = R[j]
    BY <1>3, <1>5, <2>2, NumberOrder, Zenon
  <2>4. B[i + 1] = B[j + 1] /\ B[i + 1] \in Grid(p) /\ i + 1 \in DOMAIN B /\ j + 1 \in DOMAIN B
    BY <1>1, <1>3, <1>5, <1>10, <2>3
  <2>5. ~(i + 1 < j + 1) /\ ~(j + 1 < i + 1)
    BY <1>1, <1>4, <2>4
  <2>. QED
    BY <1>3, <1>5, <2>5
<1>14. Open(g)
  BY <1>1, <1>3, <1>6, <1>8, <1>11 DEF Open
<1>15. AllApart(f)
  <2>. SUFFICES ASSUME NEW i \in DOMAIN f, NEW j \in DOMAIN f
                PROVE  Apart(f[i], f[j])
    BY Zenon DEF AllApart
  <2>1. i + 1 <= j + 1 \/ j + 1 <= i + 1
    BY <1>3, <1>5
  <2>. QED
    BY <1>9, <1>10, <2>1 DEF Apart
<1>16. AllApart(g)
  <2>. SUFFICES ASSUME NEW i \in DOMAIN g, NEW j \in DOMAIN g, i # j
                PROVE  Apart(g[i], g[j])
    BY Zenon DEF AllApart
  <2>1. i + 1 <= j \/ j + 1 <= i
    BY <1>3, <1>6
  <2>. QED
    BY <1>8, <1>9, <1>11, <2>1 DEF Apart
<1>17. ApartFrom(f, g)
  <2>. SUFFICES ASSUME NEW i \in DOMAIN f, NEW j \in DOMAIN g
                PROVE  Apart(f[i], g[j])
    BY Zenon DEF ApartFrom
  <2>1. i + 1 <= j \/ j + 1 <= i + 1
    BY <1>3, <1>5, <1>6
  <2>. QED
    BY <1>8, <1>9, <1>10, <1>11, <2>1 DEF Apart
<1>18. ExactFirst(f)
  BY <1>3, <1>4, <1>5, <1>7 DEF ExactFirst
<1>19. Covered(p, f, g)
  <2>. SUFFICES ASSUME NEW u \in RootsOf(p)
                PROVE  \/ \E i \in DOMAIN f : Isolated(u, f[i])
                       \/ \E i \in DOMAIN g : Between(u, g[i][1], g[i][2])
    BY Zenon DEF Covered
  <2>1. u \in Line(p)
    BY SearchableFacts DEF RootAssumption
  <2>2. Len(B) >= 2
    BY <1>1, <1>3
  <2>3. PICK i \in 1 .. Len(B) - 1 : (i > 1 /\ u = At(B[i])) \/ Between(u, B[i], B[i + 1])
    BY <1>1, <2>1, <2>2, BoundsCover, Zenon
  <2>4. CASE Between(u, B[i], B[i + 1])
    BY <1>6, <1>8, <2>4
  <2>5. CASE i > 1 /\ u = At(B[i])
    <3>1. i - 1 \in DOMAIN f /\ B[i - 1 + 1] = B[i]
      BY <1>1, <1>3, <1>5, <2>5
    <3>2. f[i - 1][1] = B[i] /\ f[i - 1][2] = B[i]
      BY <1>10, <3>1
    <3>. QED
      BY <2>5, <3>1, <3>2 DEF Isolated
  <2>. QED
    BY <2>3, <2>4, <2>5
<1>20. Searching(p, f, g)
  BY <1>5, <1>6, <1>12, <1>13, <1>14, <1>15, <1>16, <1>17, <1>18, <1>19
     DEF Searching, Answers, Pieces
<1>. QED
  BY <1>20 DEF f, g, R, B

-----------------------------------------------------------------------------
(* The search goes on: _iso_open for the first pending interval. *)

LEMMA FirstPending ==
    ASSUME NEW p \in Searchable, NEW f, NEW g, Searching(p, f, g), g # <<>>, NEW h, h = Head(g)
    PROVE  /\ h \in Intervals(p) /\ h[1] \in Grid(p) /\ h[2] \in Grid(p) /\ Less(h[1], h[2])
           /\ Inside(h, h)
           /\ \A i \in DOMAIN f : f[i] \in Intervals(p) /\ Apart(f[i], h)
<1>1. /\ f \in Seq(Intervals(p)) /\ g \in Seq(Intervals(p))
      /\ Open(g) /\ ApartFrom(f, g)
  BY DEF Searching, Answers, Pieces
<1>2. Len(g) \in Nat \ {0} /\ DOMAIN g = 1 .. Len(g) /\ h = g[1]
  BY <1>1, HeadTailProperties, EmptySeq, LenProperties
<1>3. 1 \in DOMAIN g
  BY <1>2
<1>4. h \in Intervals(p) /\ \A i \in DOMAIN f : f[i] \in Intervals(p)
  BY <1>1, <1>2, <1>3, ElementOfSeq, LenProperties
<1>5. h[1] \in Grid(p) /\ h[2] \in Grid(p) /\ Less(h[1], h[2])
  BY <1>1, <1>2, <1>3, <1>4 DEF Open, Intervals
<1>6. Inside(h, h)
  BY <1>5, NumberOrder, Zenon DEF Inside
<1>7. \A i \in DOMAIN f : Apart(f[i], h)
  BY <1>1, <1>2, <1>3, Zenon DEF ApartFrom
<1>. QED
  BY <1>4, <1>5, <1>6, <1>7

\* The first interval is replaced by pieces of it, in or between which its
\* roots are.
LEMMA Replace ==
    ASSUME NEW p \in Searchable, NEW f, NEW g, Searching(p, f, g), g # <<>>,
           NEW N, Pieces(p, N), \A k \in DOMAIN N : Inside(N[k], Head(g)),
           \A r \in RootsOf(p) : Between(r, Head(g)[1], Head(g)[2]) => InOneOf(r, N)
    PROVE  Searching(p, f, N \o Tail(g))
<1>1. Answers(p, f) /\ Pieces(p, g) /\ Covered(p, f, g) /\ ApartFrom(f, g)
  BY DEF Searching
<1>. DEFINE T == N \o Tail(g)
            h == Head(g)
<1>2. h = Head(g) /\ T = N \o Tail(g)
  OBVIOUS
<1>. HIDE DEF T, h
<1>3. \A i \in DOMAIN f : f[i] \in Intervals(p)
  BY <1>2, FirstPending, Zenon
<1>4. Pieces(p, T) /\ Refilled(p, h, g, N, T)
  BY <1>1, <1>2, Refill, Zenon
<1>5. ApartFrom(f, T)
  BY <1>1, <1>3, <1>4, Zenon DEF ApartFrom, Refilled
<1>6. Covered(p, f, T)
  BY <1>1, <1>2, <1>4, Zenon DEF Covered, Refilled, InOneOf
<1>7. Searching(p, f, T)
  BY <1>1, <1>4, <1>5, <1>6, Zenon DEF Searching
<1>. QED
  BY <1>7 DEF T

\* The same, with an answer x inside it, apart from the pieces.
LEMMA AnswerAndReplace ==
    ASSUME NEW p \in Searchable, NEW f, NEW g, Searching(p, f, g), g # <<>>,
           NEW N, Pieces(p, N), \A k \in DOMAIN N : Inside(N[k], Head(g)),
           NEW x \in Intervals(p), HoldsOne(p, x), Inside(x, Head(g)),
           x[1] = x[2] => Less(Head(g)[1], x[1]) /\ Less(x[2], Head(g)[2]),
           \A k \in DOMAIN N : Apart(x, N[k]),
           \A r \in RootsOf(p) : Between(r, Head(g)[1], Head(g)[2]) =>
               Isolated(r, x) \/ InOneOf(r, N)
    PROVE  Searching(p, Append(f, x), N \o Tail(g))
<1>1. Answers(p, f) /\ Pieces(p, g) /\ Covered(p, f, g) /\ ApartFrom(f, g)
  BY DEF Searching
<1>. DEFINE T == N \o Tail(g)
            h == Head(g)
            F == Append(f, x)
<1>2. h = Head(g) /\ T = N \o Tail(g) /\ F = Append(f, x)
  OBVIOUS
<1>. HIDE DEF T, h, F
<1>3. h \in Intervals(p) /\ \A i \in DOMAIN f : f[i] \in Intervals(p) /\ Apart(f[i], h)
  BY <1>2, FirstPending, Zenon
<1>4. Pieces(p, T) /\ Refilled(p, h, g, N, T)
  BY <1>1, <1>2, Refill, Zenon
<1>5. Answers(p, F) /\ Extended(f, x, F)
  <2>1. Inside(x, h) /\ (x[1] = x[2] => Less(h[1], x[1]) /\ Less(x[2], h[2]))
    BY <1>2
  <2>. QED
    BY <1>1, <1>2, <1>3, <2>1, Extend, Zenon
<1>6. ApartFrom(f, T)
  BY <1>1, <1>3, <1>4, Zenon DEF ApartFrom, Refilled
<1>7. \A j \in DOMAIN T : Apart(x, T[j])
  BY <1>2, <1>4, Zenon DEF Refilled
<1>8. ApartFrom(F, T)
  BY <1>5, <1>6, <1>7, Zenon DEF Extended
<1>9. Covered(p, F, T)
  <2>. SUFFICES ASSUME NEW u \in RootsOf(p)
                PROVE  (\E i \in DOMAIN F : Isolated(u, F[i])) \/ InOneOf(u, T)
    BY Zenon DEF Covered, InOneOf
  <2>1. (\E i \in DOMAIN f : Isolated(u, f[i])) \/ InOneOf(u, g)
    BY <1>1, Zenon DEF Covered, InOneOf
  <2>2. InOneOf(u, g) => Isolated(u, x) \/ InOneOf(u, T)
    BY <1>2, <1>4, Zenon DEF Refilled
  <2>. QED
    BY <1>5, <2>1, <2>2, Zenon DEF Extended
<1>10. Searching(p, F, T)
  BY <1>4, <1>5, <1>8, <1>9, Zenon DEF Searching
<1>. QED
  BY <1>10 DEF F, T

\* The halves of an interval.
LEMMA Halves ==
    ASSUME NEW p \in Searchable, NEW a \in Grid(p), NEW m \in Grid(p), NEW b \in Grid(p),
           Less(a, m), Less(m, b), NEW N, N = <<<<a, m>>, <<m, b>>>>
    PROVE  /\ Pieces(p, N)
           /\ \A k \in DOMAIN N : Inside(N[k], <<a, b>>) /\ Apart(<<m, m>>, N[k])
           /\ \A u \in Line(p) : Between(u, a, b) => u = At(m) \/ InOneOf(u, N)
<1>1. /\ Len(N) = 2 /\ DOMAIN N = {1, 2} /\ N[1] = <<a, m>> /\ N[2] = <<m, b>>
      /\ N \in Seq(Intervals(p))
  BY DEF Intervals
<1>2. /\ N[1][1] = a /\ N[1][2] = m /\ N[2][1] = m /\ N[2][2] = b
  BY <1>1
<1>3. /\ \A n \in Grid(p) : ~Less(n, n)
      /\ \A l, n, o \in Grid(p) : Less(l, n) /\ Less(n, o) => Less(l, o)
  BY NumberOrder, Zenon
<1>4. Open(N)
  BY <1>1, <1>2 DEF Open
<1>5. AllApart(N)
  BY <1>1, <1>2, <1>3 DEF AllApart, Apart
<1>6. \A k \in DOMAIN N : Inside(N[k], <<a, b>>)
  BY <1>1, <1>2, <1>3 DEF Inside
<1>7. \A k \in DOMAIN N : Apart(<<m, m>>, N[k])
  BY <1>1, <1>2, <1>3 DEF Apart
<1>8. ASSUME NEW u \in Line(p), Between(u, a, b)
      PROVE  u = At(m) \/ InOneOf(u, N)
  <2>1. p \in Inputs /\ At(m) \in Line(p)
    BY SearchableFacts, NumberOrder
  <2>2. u = At(m) \/ Before(u, At(m)) \/ Before(At(m), u)
    BY <2>1, LineOrder
  <2>3. CASE Before(u, At(m))
    BY <1>1, <1>2, <1>8, <2>3 DEF Between, InOneOf
  <2>4. CASE Before(At(m), u)
    BY <1>1, <1>2, <1>8, <2>4 DEF Between, InOneOf
  <2>. QED
    BY <2>2, <2>3, <2>4
<1>. QED
  BY <1>1, <1>4, <1>5, <1>6, <1>7, <1>8 DEF Pieces

\* What Bisect makes of f and g.
Bisected(p, f, g, F, T) ==
    \E a, b, roots, m :
        /\ a = Head(g)[1] /\ b = Head(g)[2] /\ m = Half(a, b)
        /\ roots = count_roots_open(sturm_sequence(squarefree_part(p)),
                                    squarefree_part(p), a, b)
        /\ T = (IF roots > 1 THEN <<<<a, m>>, <<m, b>>>> ELSE <<>>) \o Tail(g)
        /\ F = IF roots = 1 THEN Append(f, <<a, b>>)
               ELSE IF roots > 1 /\ sign_at(squarefree_part(p), m) = 0
                    THEN Append(f, <<m, m>>) ELSE f

LEMMA BisectStep ==
    ASSUME NEW p \in Searchable, NEW f, NEW g, Searching(p, f, g), g # <<>>,
           NEW F, NEW T, Bisected(p, f, g, F, T), \A i \in DOMAIN T : T[i] \in Intervals(p)
    PROVE  Searching(p, F, T)
<1>. PICK a, b, roots, m :
         /\ a = Head(g)[1] /\ b = Head(g)[2] /\ m = Half(a, b)
         /\ roots = count_roots_open(sturm_sequence(squarefree_part(p)),
                                     squarefree_part(p), a, b)
         /\ T = (IF roots > 1 THEN <<<<a, m>>, <<m, b>>>> ELSE <<>>) \o Tail(g)
         /\ F = IF roots = 1 THEN Append(f, <<a, b>>)
                ELSE IF roots > 1 /\ sign_at(squarefree_part(p), m) = 0
                     THEN Append(f, <<m, m>>) ELSE f
  BY DEF Bisected
<1>. DEFINE h == Head(g)
            none == <<>>
            halves == <<<<a, m>>, <<m, b>>>>
<1>0. h = Head(g)
  OBVIOUS
<1>. HIDE DEF h
<1>1. /\ h \in Intervals(p) /\ h[1] \in Grid(p) /\ h[2] \in Grid(p) /\ Less(h[1], h[2])
      /\ Inside(h, h)
  BY <1>0, FirstPending, Zenon
<1>2. h = <<a, b>> /\ a \in Grid(p) /\ b \in Grid(p) /\ Less(a, b) /\ h[1] = a /\ h[2] = b
  BY <1>0, <1>1 DEF Intervals
<1>3. /\ roots \in Nat
      /\ roots = 0 => ~\E r \in RootsOf(p) : Between(r, a, b)
      /\ roots = 1 => \E r \in RootsOf(p) : OnlyRoot(p, r, a, b)
  BY <1>2, Counting, Zenon
<1>4. /\ Pieces(p, none)
      /\ \A k \in DOMAIN none : Inside(none[k], h) /\ Apart(h, none[k])
      /\ \A u : ~InOneOf(u, none)
  BY DEF Pieces, Open, AllApart, InOneOf
<1>5. CASE roots = 0
  <2>1. F = f /\ T = none \o Tail(g)
    BY <1>5
  <2>2. \A r \in RootsOf(p) : Between(r, h[1], h[2]) => InOneOf(r, none)
    BY <1>2, <1>3, <1>5
  <2>. HIDE DEF none
  <2>. QED
    BY <1>0, <1>4, <2>1, <2>2, Replace, Zenon
<1>6. CASE roots = 1
  <2>1. F = Append(f, h) /\ T = none \o Tail(g)
    BY <1>2, <1>6
  <2>2. HoldsOne(p, h)
    BY <1>1, <1>2, <1>3, <1>6, Zenon DEF HoldsOne
  <2>3. \A r \in RootsOf(p) : Between(r, h[1], h[2]) => Isolated(r, h) \/ InOneOf(r, none)
    BY Zenon DEF Isolated
  <2>4. h[1] # h[2]
    BY <1>1, NumberOrder, Zenon
  <2>. HIDE DEF none
  <2>. QED
    BY <1>0, <1>1, <1>4, <2>1, <2>2, <2>3, <2>4, AnswerAndReplace, Zenon
<1>7. CASE roots > 1
  <2>1. T = halves \o Tail(g)
    BY <1>7
  <2>2. m \in Grid(p)
    <3>1. g \in Seq(Intervals(p)) /\ g # <<>>
      BY DEF Searching, Pieces
    <3>2. Tail(g) \in Seq(Intervals(p))
      BY <3>1, HeadTailProperties
    <3>3. 1 \in DOMAIN T /\ T[1] = <<a, m>>
      BY <2>1, <3>2
    <3>4. <<a, m>> \in Intervals(p)
      BY <3>3
    <3>. QED
      BY <3>4 DEF Intervals
  <2>3. Less(a, m) /\ Less(m, b)
    BY <1>2, <2>2, HalfBetween
  <2>4. halves = <<<<a, m>>, <<m, b>>>>
    OBVIOUS
  <2>. HIDE DEF halves
  <2>5. /\ Pieces(p, halves)
        /\ \A k \in DOMAIN halves : Inside(halves[k], h) /\ Apart(<<m, m>>, halves[k])
        /\ \A u \in Line(p) : Between(u, a, b) => u = At(m) \/ InOneOf(u, halves)
    BY <1>2, <2>2, <2>3, <2>4, Halves
  <2>6. /\ RootsOf(p) \subseteq Line(p)
        /\ sign_at(squarefree_part(p), m) = 0 <=> At(m) \in RootsOf(p)
    BY <2>2, SearchableFacts DEF RootAssumption
  <2>7. CASE sign_at(squarefree_part(p), m) = 0
    <3>. DEFINE x == <<m, m>>
    <3>1. x \in Intervals(p) /\ x[1] = m /\ x[2] = m
      BY <2>2 DEF Intervals
    <3>2. F = Append(f, x)
      BY <1>7, <2>7
    <3>3. \A k \in DOMAIN halves : Apart(x, halves[k])
      BY <2>5
    <3>. HIDE DEF x
    <3>4. HoldsOne(p, x)
      BY <2>6, <2>7, <3>1 DEF HoldsOne
    <3>5. Less(h[1], x[1]) /\ Less(x[2], h[2])
      BY <1>2, <2>3, <3>1
    <3>6. Inside(x, h)
      <4>1. /\ \A n \in Grid(p) : ~Less(n, n)
            /\ \A l, n, o \in Grid(p) : Less(l, n) /\ Less(n, o) => Less(l, o)
        BY NumberOrder, Zenon
      <4>. QED
        BY <1>2, <2>2, <3>1, <3>5, <4>1 DEF Inside
    <3>7. \A r \in RootsOf(p) : Between(r, h[1], h[2]) => Isolated(r, x) \/ InOneOf(r, halves)
      BY <1>2, <2>5, <2>6, <3>1 DEF Isolated
    <3>. QED
      BY <1>0, <2>1, <2>5, <3>1, <3>2, <3>3, <3>4, <3>5, <3>6, <3>7, AnswerAndReplace, Zenon
  <2>8. CASE sign_at(squarefree_part(p), m) # 0
    <3>1. F = f
      BY <1>7, <2>8
    <3>2. \A r \in RootsOf(p) : Between(r, h[1], h[2]) => InOneOf(r, halves)
      BY <1>2, <2>5, <2>6, <2>8
    <3>. QED
      BY <1>0, <2>1, <2>5, <3>1, <3>2, Replace, Zenon
  <2>. QED
    BY <2>7, <2>8
<1>. QED
  BY <1>3, <1>5, <1>6, <1>7

-----------------------------------------------------------------------------
(* What is found is sorted. *)

Ordered(f) == \A i, j \in DOMAIN f : i < j => ~Less(f[j][1], f[i][2])

Arranged(p, f) ==
    /\ f \in Seq(Intervals(p))
    /\ FoundHold(p, f) /\ Once(p, f) /\ Covered(p, f, <<>>) /\ Ordered(f)

\* The end of an interval found is not before its beginning.
LEMMA EndsInOrder ==
    ASSUME NEW p \in Searchable, NEW f \in Seq(Intervals(p)), FoundHold(p, f),
           NEW i \in DOMAIN f
    PROVE  /\ f[i] = <<f[i][1], f[i][2]>> /\ f[i][1] \in Grid(p) /\ f[i][2] \in Grid(p)
           /\ f[i][1] = f[i][2] \/ Less(f[i][1], f[i][2])
<1>1. f[i] \in Intervals(p)
  BY ElementOfSeq, LenProperties
<1>2. HoldsOne(p, f[i])
  BY Zenon DEF FoundHold
<1>. QED
  BY <1>1, <1>2 DEF Intervals, HoldsOne

\* A stable sort by lower end takes every index once.
LEMMA SortingIsPermuting ==
    ASSUME NEW p \in Searchable, NEW f \in Seq(Intervals(p)), NEW order \in SortingOrders(f)
    PROVE  /\ order \in [DOMAIN f -> DOMAIN f]
           /\ \A i, j \in DOMAIN f : i # j => order[i] # order[j]
           /\ \A k \in DOMAIN f : \E i \in DOMAIN f : order[i] = k
<1>. DEFINE D == DOMAIN f
<1>1. /\ D = 1 .. Len(f) /\ Len(f) \in Nat
      /\ \A i \in D : f[i] \in Intervals(p)
  BY LenProperties, ElementOfSeq
<1>2. /\ order \in [D -> D]
      /\ \A i, j \in D : i < j =>
            \/ Less(f[order[i]][1], f[order[j]][1])
            \/ f[order[i]][1] = f[order[j]][1] /\ order[i] < order[j]
  BY DEF SortingOrders
<1>. HIDE DEF D
<1>3. \A n \in Grid(p) : ~Less(n, n)
  BY NumberOrder, Zenon
<1>4. \A i \in D : f[i][1] \in Grid(p)
  BY <1>1 DEF Intervals
<1>5. ASSUME NEW i \in D, NEW j \in D, i < j
      PROVE  order[i] # order[j]
  <2>. SUFFICES ASSUME order[i] = order[j]
                PROVE  FALSE
    OBVIOUS
  <2>1. order[i] \in D
    BY <1>2
  <2>2. ~(order[i] < order[j])
    BY <1>1, <2>1
  <2>3. ~Less(f[order[i]][1], f[order[j]][1])
    BY <1>3, <1>4, <2>1
  <2>. QED
    BY <1>2, <1>5, <2>2, <2>3
<1>6. \A i, j \in D : i # j => order[i] # order[j]
  <2>. TAKE i \in D, j \in D
  <2>. HAVE i # j
  <2>1. i < j \/ j < i
    BY <1>1
  <2>. QED
    BY <1>5, <2>1
<1>7. order \in Injection(D, D)
  BY <1>2, <1>6 DEF Injection, IsInjective
<1>8. IsFiniteSet(D)
  BY <1>1, FS_Interval
<1>9. order \in Surjection(D, D)
  BY <1>7, <1>8, FS_Injection
<1>10. \A k \in D : \E i \in D : order[i] = k
  BY <1>9 DEF Surjection
<1>. QED
  BY <1>2, <1>6, <1>10 DEF D

LEMMA Sorted ==
    ASSUME NEW p \in Searchable, NEW f, Searching(p, f, <<>>), NEW order \in SortingOrders(f),
           NEW F, F = [i \in DOMAIN f |-> f[order[i]]]
    PROVE  Arranged(p, F)
<1>1. /\ f \in Seq(Intervals(p)) /\ Covered(p, f, <<>>)
      /\ FoundHold(p, f) /\ Once(p, f) /\ AllApart(f) /\ ExactFirst(f)
  BY DEF Searching, Answers
<1>2. /\ Len(f) \in Nat /\ DOMAIN f = 1 .. Len(f)
      /\ \A i \in DOMAIN f : f[i] \in Intervals(p)
  BY <1>1, LenProperties, ElementOfSeq
<1>3. /\ order \in [DOMAIN f -> DOMAIN f]
      /\ \A i, j \in DOMAIN f : i # j => order[i] # order[j]
      /\ \A k \in DOMAIN f : \E i \in DOMAIN f : order[i] = k
  BY <1>1, SortingIsPermuting
<1>4. \A i, j \in DOMAIN f : i < j =>
          \/ Less(f[order[i]][1], f[order[j]][1])
          \/ f[order[i]][1] = f[order[j]][1] /\ order[i] < order[j]
  BY DEF SortingOrders
<1>5. /\ DOMAIN F = DOMAIN f /\ \A i \in DOMAIN F : order[i] \in DOMAIN f /\ F[i] = f[order[i]]
  BY <1>3
<1>6. F \in Seq(Intervals(p))
  BY <1>2, <1>3
<1>7. FoundHold(p, F)
  BY <1>1, <1>5, Zenon DEF FoundHold
<1>8. Once(p, F)
  <2>. SUFFICES ASSUME NEW i \in DOMAIN f, NEW j \in DOMAIN f, i # j,
                       NEW u \in RootsOf(p), Isolated(u, F[i]), Isolated(u, F[j])
                PROVE  FALSE
    BY <1>5, Zenon DEF Once
  <2>1. order[i] \in DOMAIN f /\ order[j] \in DOMAIN f /\ order[i] # order[j]
    BY <1>3
  <2>2. Isolated(u, f[order[i]]) /\ Isolated(u, f[order[j]])
    BY <1>5
  <2>. QED
    BY <1>1, <2>1, <2>2, Zenon DEF Once
<1>9. Covered(p, F, <<>>)
  <2>. SUFFICES ASSUME NEW u \in RootsOf(p)
                PROVE  \E i \in DOMAIN F : Isolated(u, F[i])
    BY Zenon DEF Covered
  <2>1. PICK k \in DOMAIN f : Isolated(u, f[k])
    BY <1>1 DEF Covered
  <2>2. PICK i \in DOMAIN f : order[i] = k
    BY <1>3
  <2>. QED
    BY <1>5, <2>1, <2>2
<1>10. Ordered(F)
  <2>. SUFFICES ASSUME NEW i \in DOMAIN f, NEW j \in DOMAIN f, i < j,
                       Less(f[order[j]][1], f[order[i]][2])
                PROVE  FALSE
    BY <1>5, Zenon DEF Ordered
  <2>. DEFINE k == order[i]
              l == order[j]
  <2>1. k \in DOMAIN f /\ l \in DOMAIN f /\ Less(f[l][1], f[k][2])
    BY <1>3
  <2>2. k # l
    <3>1. i # j
      BY <1>2
    <3>. QED
      BY <1>3, <3>1
  <2>3. Less(f[k][1], f[l][1]) \/ (f[k][1] = f[l][1] /\ k < l)
    BY <1>4
  <2>. HIDE DEF k, l
  <2>4. /\ f[k][1] \in Grid(p) /\ f[k][2] \in Grid(p) /\ f[l][1] \in Grid(p) /\ f[l][2] \in Grid(p)
        /\ f[k][1] = f[k][2] \/ Less(f[k][1], f[k][2])
        /\ f[l][1] = f[l][2] \/ Less(f[l][1], f[l][2])
    BY <1>1, <2>1, EndsInOrder
  <2>5. /\ \A m \in Grid(p) : ~Less(m, m)
        /\ \A m, n \in Grid(p) : m = n \/ Less(m, n) \/ Less(n, m)
        /\ \A m, n, o \in Grid(p) : Less(m, n) /\ Less(n, o) => Less(m, o)
    BY NumberOrder, Zenon
  <2>6. ~Less(f[k][1], f[l][2])
    BY <1>1, <2>1, <2>2, Zenon DEF AllApart, Apart
  <2>7. ~Less(f[k][1], f[l][1])
    BY <2>4, <2>5, <2>6
  <2>8. f[k][1] = f[l][1] /\ k < l
    BY <2>3, <2>7
  <2>9. f[l][1] = f[l][2]
    BY <2>4, <2>6, <2>8
  <2>10. Less(f[k][1], f[k][2])
    BY <2>1, <2>8
  <2>11. l < k
    BY <1>1, <2>1, <2>8, <2>9, <2>10 DEF ExactFirst
  <2>. QED
    BY <1>2, <2>1, <2>8, <2>11
<1>. QED
  BY <1>6, <1>7, <1>8, <1>9, <1>10 DEF Arranged

-----------------------------------------------------------------------------
(* What is found is refined. *)

\* Y is what is left of X: its root.
Closer(p, X, Y) ==
    /\ HoldsOne(p, Y) /\ Inside(Y, X)
    /\ \A u \in RootsOf(p) : Isolated(u, Y) <=> Isolated(u, X)

LEMMA Unchanged ==
    ASSUME NEW p \in Searchable, NEW X \in Intervals(p), HoldsOne(p, X)
    PROVE  Closer(p, X, X)
<1>1. X[1] \in Grid(p) /\ X[2] \in Grid(p)
  BY DEF Intervals
<1>2. Inside(X, X)
  BY <1>1, NumberOrder, Zenon DEF Inside
<1>. QED
  BY <1>2 DEF Closer

\* A point in an open interval, or either half of it, that has its root.
LEMMA CloserPart ==
    ASSUME NEW p \in Searchable, NEW a \in Grid(p), NEW m \in Grid(p), NEW b \in Grid(p),
           Less(a, m), Less(m, b), NEW r, OnlyRoot(p, r, a, b)
    PROVE  /\ r = At(m) => Closer(p, <<a, b>>, <<m, m>>)
           /\ Before(r, At(m)) => Closer(p, <<a, b>>, <<a, m>>)
           /\ Before(At(m), r) => Closer(p, <<a, b>>, <<m, b>>)
<1>1. r \in RootsOf(p) /\ Between(r, a, b) /\ \A s \in RootsOf(p) : Between(s, a, b) => s = r
  BY DEF OnlyRoot
<1>2. p \in Inputs /\ RootsOf(p) \subseteq Line(p)
  BY SearchableFacts DEF RootAssumption
<1>3. /\ \A n \in Grid(p) : At(n) \in Line(p)
      /\ \A l, n \in Grid(p) : Less(l, n) <=> Before(At(l), At(n))
      /\ \A n \in Grid(p) : ~Less(n, n)
      /\ \A l, n, o \in Grid(p) : Less(l, n) /\ Less(n, o) => Less(l, o)
  BY NumberOrder, Zenon
<1>4. /\ \A u \in Line(p) : ~Before(u, u)
      /\ \A u, v, w \in Line(p) : Before(u, v) /\ Before(v, w) => Before(u, w)
  BY <1>2, LineOrder, Zenon
<1>5. Less(a, b) /\ a # b /\ a # m /\ m # b
  BY <1>3
<1>6. \A u \in RootsOf(p) : Isolated(u, <<a, b>>) <=> u = r
  BY <1>1, <1>5 DEF Isolated
<1>7. ASSUME r = At(m)
      PROVE  Closer(p, <<a, b>>, <<m, m>>)
  <2>1. HoldsOne(p, <<m, m>>)
    BY <1>1, <1>7 DEF HoldsOne
  <2>2. Inside(<<m, m>>, <<a, b>>)
    BY <1>3 DEF Inside
  <2>3. \A u \in RootsOf(p) : Isolated(u, <<m, m>>) <=> u = r
    <3>. TAKE u \in RootsOf(p)
    <3>1. Isolated(u, <<m, m>>) => u = r
      BY <1>2, <1>7, IsolatedPoint
    <3>. QED
      BY <1>7, <3>1 DEF Isolated
  <2>. QED
    BY <1>6, <2>1, <2>2, <2>3, Zenon DEF Closer
<1>8. ASSUME Before(r, At(m))
      PROVE  Closer(p, <<a, b>>, <<a, m>>)
  <2>1. Between(r, a, m)
    BY <1>1, <1>8 DEF Between
  <2>2. \A u \in RootsOf(p) : Between(u, a, m) => Between(u, a, b)
    BY <1>2, <1>3, <1>4 DEF Between
  <2>3. OnlyRoot(p, r, a, m)
    BY <1>1, <2>1, <2>2 DEF OnlyRoot
  <2>4. HoldsOne(p, <<a, m>>)
    BY <1>1, <2>3 DEF HoldsOne
  <2>5. Inside(<<a, m>>, <<a, b>>)
    BY <1>3 DEF Inside
  <2>6. \A u \in RootsOf(p) : Isolated(u, <<a, m>>) <=> u = r
    BY <1>1, <1>5, <2>1, <2>2 DEF Isolated
  <2>. QED
    BY <1>6, <2>4, <2>5, <2>6, Zenon DEF Closer
<1>9. ASSUME Before(At(m), r)
      PROVE  Closer(p, <<a, b>>, <<m, b>>)
  <2>1. Between(r, m, b)
    BY <1>1, <1>9 DEF Between
  <2>2. \A u \in RootsOf(p) : Between(u, m, b) => Between(u, a, b)
    BY <1>2, <1>3, <1>4 DEF Between
  <2>3. OnlyRoot(p, r, m, b)
    BY <1>1, <2>1, <2>2 DEF OnlyRoot
  <2>4. HoldsOne(p, <<m, b>>)
    BY <1>1, <2>3 DEF HoldsOne
  <2>5. Inside(<<m, b>>, <<a, b>>)
    BY <1>3 DEF Inside
  <2>6. \A u \in RootsOf(p) : Isolated(u, <<m, b>>) <=> u = r
    BY <1>1, <1>5, <2>1, <2>2 DEF Isolated
  <2>. QED
    BY <1>6, <2>4, <2>5, <2>6, Zenon DEF Closer
<1>. QED
  BY <1>7, <1>8, <1>9

\* _shrink keeps the root.
LEMMA Shrinking ==
    ASSUME NEW p \in Searchable, reduced = squarefree_part(p),
           chain = sturm_sequence(squarefree_part(p)),
           NEW X \in Intervals(p), HoldsOne(p, X),
           NEW Y \in Intervals(p), Y = Shrink(X[1], X[2])
    PROVE  Closer(p, X, Y)
<1>. DEFINE a == X[1]
            b == X[2]
            m == Half(a, b)
            count == count_roots_open(sturm_sequence(squarefree_part(p)),
                                      squarefree_part(p), a, m)
<1>1. X = <<a, b>> /\ a \in Grid(p) /\ b \in Grid(p)
  BY DEF Intervals
<1>2. CASE a = b
  <2>1. Y = X
    BY <1>1, <1>2 DEF Shrink
  <2>. QED
    BY <2>1, Unchanged
<1>3. CASE a # b
  <2>1. Less(a, b) /\ \E r \in RootsOf(p) : OnlyRoot(p, r, a, b)
    BY <1>3 DEF HoldsOne
  <2>2. PICK r \in RootsOf(p) : OnlyRoot(p, r, a, b)
    BY <2>1
  <2>3. Y = IF sign_at(squarefree_part(p), m) = 0 THEN <<m, m>>
            ELSE IF count >= 1 THEN <<a, m>> ELSE <<m, b>>
    BY <1>3 DEF Shrink
  <2>. HIDE DEF a, b, count
  <2>4. m \in Grid(p)
    <3>. HIDE DEF m
    <3>. QED
      BY <2>3 DEF Intervals
  <2>5. Less(a, m) /\ Less(m, b)
    BY <1>1, <2>1, <2>4, HalfBetween
  <2>. HIDE DEF m
  <2>6. /\ count \in Nat
        /\ count = 0 <=> ~\E s \in RootsOf(p) : Between(s, a, m)
    <3>1. count = count_roots_open(sturm_sequence(squarefree_part(p)), squarefree_part(p), a, m)
      BY DEF count
    <3>. QED
      BY <1>1, <2>4, <2>5, <3>1, Counting
  <2>7. /\ p \in Inputs /\ RootsOf(p) \subseteq Line(p)
        /\ sign_at(squarefree_part(p), m) = 0 <=> At(m) \in RootsOf(p)
    BY <2>4, SearchableFacts DEF RootAssumption
  <2>8. /\ At(m) \in Line(p) /\ At(a) \in Line(p) /\ At(b) \in Line(p)
        /\ Before(At(a), At(m)) /\ Before(At(m), At(b))
    BY <1>1, <2>4, <2>5, NumberOrder, Zenon
  <2>9. /\ Between(r, a, b) /\ \A s \in RootsOf(p) : Between(s, a, b) => s = r
    BY <2>2 DEF OnlyRoot
  <2>10. /\ r = At(m) => Closer(p, X, <<m, m>>)
         /\ Before(r, At(m)) => Closer(p, X, <<a, m>>)
         /\ Before(At(m), r) => Closer(p, X, <<m, b>>)
    BY <1>1, <2>2, <2>4, <2>5, CloserPart
  <2>11. r = At(m) \/ Before(r, At(m)) \/ Before(At(m), r)
    BY <2>7, <2>8, LineOrder
  <2>12. CASE At(m) \in RootsOf(p)
    <3>1. r = At(m)
      BY <2>8, <2>9, <2>12 DEF Between
    <3>. QED
      BY <2>3, <2>7, <2>10, <2>12, <3>1
  <2>13. CASE At(m) \notin RootsOf(p) /\ count >= 1
    <3>1. PICK s \in RootsOf(p) : Between(s, a, m)
      BY <2>6, <2>13
    <3>2. Between(s, a, b)
      <4>1. Before(s, At(m)) /\ Before(At(m), At(b)) /\ s \in Line(p) /\ Before(At(a), s)
        BY <2>7, <2>8, <3>1 DEF Between
      <4>2. Before(s, At(b))
        BY <2>7, <2>8, <4>1, LineOrder, Zenon
      <4>. QED
        BY <4>1, <4>2 DEF Between
    <3>3. Before(r, At(m))
      BY <2>9, <3>1, <3>2 DEF Between
    <3>. QED
      BY <2>3, <2>7, <2>10, <2>13, <3>3
  <2>14. CASE At(m) \notin RootsOf(p) /\ ~(count >= 1)
    <3>1. ~Between(r, a, m)
      BY <2>6, <2>14
    <3>2. Before(At(m), r)
      BY <2>9, <2>11, <2>14, <3>1 DEF Between
    <3>. QED
      BY <2>3, <2>7, <2>10, <2>14, <3>2
  <2>. QED
    BY <2>12, <2>13, <2>14
<1>. QED
  BY <1>2, <1>3

\* Closer intervals are arranged as those they come from.
LEMMA StillArranged ==
    ASSUME NEW p \in Searchable, NEW f, Arranged(p, f),
           NEW F \in Seq(Intervals(p)), DOMAIN F = DOMAIN f,
           \A i \in DOMAIN f : Closer(p, f[i], F[i])
    PROVE  Arranged(p, F)
<1>1. /\ f \in Seq(Intervals(p))
      /\ FoundHold(p, f) /\ Once(p, f) /\ Covered(p, f, <<>>) /\ Ordered(f)
  BY DEF Arranged
<1>2. \A i \in DOMAIN f : /\ HoldsOne(p, F[i]) /\ Inside(F[i], f[i])
                          /\ \A u \in RootsOf(p) : Isolated(u, F[i]) <=> Isolated(u, f[i])
  BY Zenon DEF Closer
<1>3. FoundHold(p, F)
  BY <1>2, Zenon DEF FoundHold
<1>4. Once(p, F)
  <2>. SUFFICES ASSUME NEW i \in DOMAIN f, NEW j \in DOMAIN f, i # j,
                       NEW u \in RootsOf(p), Isolated(u, F[i]), Isolated(u, F[j])
                PROVE  FALSE
    BY Zenon DEF Once
  <2>1. Isolated(u, f[i]) /\ Isolated(u, f[j])
    BY <1>2, Zenon
  <2>. QED
    BY <1>1, <2>1, Zenon DEF Once
<1>5. Covered(p, F, <<>>)
  <2>. SUFFICES ASSUME NEW u \in RootsOf(p)
                PROVE  \E i \in DOMAIN F : Isolated(u, F[i])
    BY Zenon DEF Covered
  <2>1. PICK i \in DOMAIN f : Isolated(u, f[i])
    BY <1>1 DEF Covered
  <2>. QED
    BY <1>2, <2>1, Zenon
<1>6. Ordered(F)
  <2>. SUFFICES ASSUME NEW i \in DOMAIN f, NEW j \in DOMAIN f, i < j
                PROVE  ~Less(F[j][1], F[i][2])
    BY Zenon DEF Ordered
  <2>1. /\ f[i][2] \in Grid(p) /\ f[j][1] \in Grid(p) /\ F[i][2] \in Grid(p) /\ F[j][1] \in Grid(p)
    <3>1. F[i] \in Intervals(p) /\ F[j] \in Intervals(p) /\ f[i] \in Intervals(p) /\ f[j] \in Intervals(p)
      BY <1>1, ElementOfSeq, LenProperties
    <3>. QED
      BY <3>1 DEF Intervals
  <2>2. ~Less(f[j][1], f[i][2])
    BY <1>1 DEF Ordered
  <2>3. ~Less(f[i][2], F[i][2]) /\ ~Less(F[j][1], f[j][1])
    BY <1>2 DEF Inside
  <2>4. /\ \A m \in Grid(p) : ~Less(m, m)
        /\ \A m, n \in Grid(p) : m = n \/ Less(m, n) \/ Less(n, m)
        /\ \A m, n, o \in Grid(p) : Less(m, n) /\ Less(n, o) => Less(m, o)
    BY NumberOrder, Zenon
  <2>5. ~Less(f[j][1], F[i][2])
    BY <2>1, <2>2, <2>3, <2>4
  <2>. QED
    BY <2>1, <2>3, <2>4, <2>5
<1>. QED
  BY <1>3, <1>4, <1>5, <1>6 DEF Arranged

-----------------------------------------------------------------------------
(* The search as a whole. *)

GapsBefore(f, n) ==
    \A i \in DOMAIN f : i < n /\ i + 1 \in DOMAIN f => Less(f[i][2], f[i + 1][1])

\* The stages after the bounds of the search are known.
Isolating(p) == phase = "isolate" /\ Searching(p, found, pending)

Refining(p) ==
    /\ phase = "refine" /\ pending = <<>>
    /\ Arranged(p, found)
    /\ place \in Nat /\ place >= 1
    /\ ~changed => GapsBefore(found, place)

Finished(p) ==
    /\ phase = "done" /\ pending = <<>>
    /\ Arranged(p, found) /\ GapsBefore(found, Len(found))

\* The inductive invariant: before a search and without one, nothing is found
\* or pending; during one, no root is lost and no two intervals share one.
NotSearched ==
    /\ phase \in {"idle", "done"} /\ found = <<>> /\ pending = <<>>
    /\ phase = "done" => asked \in Inputs

Searched ==
    /\ asked \in Searchable
    /\ reduced = squarefree_part(asked)
    /\ chain = sturm_sequence(squarefree_part(asked))
    /\ Isolating(asked) \/ Refining(asked) \/ Finished(asked)

IsolationInv ==
    /\ asked \in Inputs \cup {Unasked}
    /\ IF p_deg(asked) > 0 THEN Searched ELSE NotSearched

LEMMA InitIsolates == IsolationInit => IsolationInv
<1>. SUFFICES ASSUME IsolationInit PROVE IsolationInv
  OBVIOUS
<1>1. p_deg(Unasked) \in Int /\ p_deg(Unasked) < 0
  BY IsolationAssumption
<1>. QED
  BY <1>1 DEF IsolationInit, IsolationInv, NotSearched

LEMMA AskKeeps ==
    ASSUME IsolationInv, NEW p \in Inputs, Ask(p)
    PROVE  IsolationInv'
<1>1. phase = "idle" /\ place' = place /\ changed' = changed
  BY DEF Ask
<1>2. NotSearched
  BY <1>1 DEF IsolationInv, Searched, Isolating, Refining, Finished
<1>3. CASE p_deg(p) > 0
  <2>1. Search(p)
    BY <1>3 DEF Ask
  <2>2. /\ asked' = p /\ reduced' = squarefree_part(p)
        /\ chain' = sturm_sequence(squarefree_part(p))
        /\ found' = Exact(rational_roots(squarefree_part(p)))
        /\ pending' = Gaps(Bounds(squarefree_part(p)))
        /\ phase' = "isolate"
    BY <2>1 DEF Search
  <2>3. p \in Searchable
    BY <1>3 DEF Searchable
  <2>4. Searching(p, found', pending')
    BY <2>2, <2>3, Start
  <2>5. Isolating(asked)'
    BY <2>2, <2>4 DEF Isolating
  <2>6. Searched'
    BY <2>2, <2>3, <2>5 DEF Searched
  <2>. QED
    BY <1>3, <2>2, <2>6 DEF IsolationInv
<1>4. CASE ~(p_deg(p) > 0)
  <2>1. /\ asked' = p /\ phase' = "done" /\ pending' = pending /\ found' = found
    BY <1>4 DEF Ask
  <2>2. NotSearched'
    BY <1>2, <2>1 DEF NotSearched
  <2>. QED
    BY <1>4, <2>1, <2>2 DEF IsolationInv
<1>. QED
  BY <1>3, <1>4

LEMMA IsolateKeeps ==
    ASSUME IsolationInv, Isolate
    PROVE  IsolationInv'
<1>1. /\ phase = "isolate" /\ pending # <<>>
      /\ InReach(pending')
      /\ asked' = asked /\ reduced' = reduced /\ chain' = chain /\ phase' = phase
  BY DEF Isolate, inputVars
<1>2. p_deg(asked) > 0 /\ Searched
  BY <1>1 DEF IsolationInv, NotSearched
<1>3. /\ asked \in Searchable /\ reduced = squarefree_part(asked)
      /\ chain = sturm_sequence(squarefree_part(asked))
      /\ Searching(asked, found, pending)
  BY <1>1, <1>2 DEF Searched, Isolating, Refining, Finished
<1>4. PICK a, b, roots, m :
          /\ a = Head(pending)[1] /\ b = Head(pending)[2]
          /\ roots = count_roots_open(chain, reduced, a, b) /\ m = Half(a, b)
          /\ Bisect(a, b, roots, m)
  BY DEF Isolate
<1>5. /\ pending' = (IF roots > 1 THEN <<<<a, m>>, <<m, b>>>> ELSE <<>>) \o Tail(pending)
      /\ found' = IF roots = 1 THEN Append(found, <<a, b>>)
                  ELSE IF roots > 1 /\ sign_at(squarefree_part(asked), m) = 0
                       THEN Append(found, <<m, m>>) ELSE found
  BY <1>3, <1>4 DEF Bisect
<1>6. \A i \in DOMAIN pending' : pending'[i] \in Intervals(asked)
  BY <1>1 DEF InReach, Intervals
<1>7. roots = count_roots_open(sturm_sequence(squarefree_part(asked)), squarefree_part(asked), a, b)
  BY <1>3, <1>4
<1>8. Searching(asked, found', pending')
  <2>1. PICK p, f, g, F, T :
            /\ p = asked /\ p \in Searchable
            /\ f = found /\ g = pending /\ F = found' /\ T = pending'
    BY <1>3
  <2>2. Bisected(p, f, g, F, T)
    BY <1>3, <1>4, <1>5, <1>7, <2>1 DEF Bisected
  <2>3. /\ p \in Searchable /\ Searching(p, f, g) /\ g # <<>>
        /\ \A i \in DOMAIN T : T[i] \in Intervals(p)
    BY <1>1, <1>3, <1>6, <2>1
  <2>4. Searching(p, F, T)
    BY <2>2, <2>3, BisectStep, Zenon
  <2>. QED
    BY <2>1, <2>4
<1>9. Searched'
  BY <1>1, <1>3, <1>8 DEF Searched, Isolating
<1>. QED
  BY <1>1, <1>2, <1>9 DEF IsolationInv

LEMMA StartRefiningKeeps ==
    ASSUME IsolationInv, StartRefining
    PROVE  IsolationInv'
<1>1. /\ phase = "isolate" /\ pending = <<>> /\ phase' = "refine"
      /\ place' = 1 /\ changed' = FALSE
      /\ asked' = asked /\ reduced' = reduced /\ chain' = chain /\ pending' = pending
  BY DEF StartRefining, inputVars
<1>2. p_deg(asked) > 0 /\ Searched
  BY <1>1 DEF IsolationInv, NotSearched
<1>3. /\ asked \in Searchable /\ reduced = squarefree_part(asked)
      /\ chain = sturm_sequence(squarefree_part(asked))
      /\ Searching(asked, found, <<>>)
  BY <1>1, <1>2 DEF Searched, Isolating, Refining, Finished
<1>4. PICK order \in SortingOrders(found) : found' = [i \in DOMAIN found |-> found[order[i]]]
  BY DEF StartRefining
<1>5. Arranged(asked, found')
  BY <1>3, <1>4, Sorted
<1>6. GapsBefore(found', 1)
  <2>1. found' \in Seq(Intervals(asked))
    BY <1>5 DEF Arranged
  <2>2. \A i \in DOMAIN found' : ~(i < 1)
    BY <2>1, LenProperties
  <2>. QED
    BY <2>2 DEF GapsBefore
<1>7. Searched'
  BY <1>1, <1>3, <1>5, <1>6 DEF Searched, Refining
<1>. QED
  BY <1>1, <1>2, <1>7 DEF IsolationInv

LEMMA RefineNeighboursKeeps ==
    ASSUME IsolationInv, RefineNeighbours
    PROVE  IsolationInv'
<1>1. /\ phase = "refine" /\ place < Len(found) /\ InReach(found') /\ place' = place + 1
      /\ asked' = asked /\ reduced' = reduced /\ chain' = chain
      /\ phase' = phase /\ pending' = pending
  BY DEF RefineNeighbours, inputVars
<1>2. p_deg(asked) > 0 /\ Searched
  BY <1>1 DEF IsolationInv, NotSearched
<1>3. /\ asked \in Searchable /\ reduced = squarefree_part(asked)
      /\ chain = sturm_sequence(squarefree_part(asked))
      /\ pending = <<>> /\ Arranged(asked, found) /\ place \in Nat /\ place >= 1
      /\ ~changed => GapsBefore(found, place)
  BY <1>1, <1>2 DEF Searched, Isolating, Refining, Finished
<1>4. found \in Seq(Intervals(asked)) /\ FoundHold(asked, found)
  BY <1>3 DEF Arranged
<1>5. /\ Len(found) \in Nat /\ DOMAIN found = 1 .. Len(found)
      /\ \A i \in DOMAIN found : found[i] \in Intervals(asked)
  BY <1>4, LenProperties, ElementOfSeq
<1>6. place \in DOMAIN found /\ place + 1 \in DOMAIN found /\ place # place + 1
  BY <1>1, <1>3, <1>5
<1>7. CASE Touching(found[place], found[place + 1])
  <2>1. /\ found' = [found EXCEPT
                ![place] = Shrink(found[place][1], found[place][2]),
                ![place + 1] = Shrink(found[place + 1][1], found[place + 1][2])]
        /\ changed' = TRUE
    BY <1>7 DEF RefineNeighbours
  <2>2. /\ DOMAIN found' = DOMAIN found
        /\ found'[place] = Shrink(found[place][1], found[place][2])
        /\ found'[place + 1] = Shrink(found[place + 1][1], found[place + 1][2])
        /\ \A i \in DOMAIN found : i # place /\ i # place + 1 => found'[i] = found[i]
    BY <1>5, <1>6, <2>1
  <2>3. \A i \in DOMAIN found : found'[i] \in Intervals(asked)
    BY <1>1, <2>2 DEF InReach, Intervals
  <2>4. found' \in Seq(Intervals(asked))
    <3>1. found' \in [1 .. Len(found) -> Intervals(asked)]
      BY <1>5, <2>1, <2>3
    <3>. QED
      BY <1>5, <3>1, SeqDef
  <2>5. \A i \in DOMAIN found : HoldsOne(asked, found[i])
    BY <1>4, Zenon DEF FoundHold
  <2>6. Closer(asked, found[place], found'[place])
    BY <1>3, <1>5, <1>6, <2>2, <2>3, <2>5, Shrinking
  <2>7. Closer(asked, found[place + 1], found'[place + 1])
    BY <1>3, <1>5, <1>6, <2>2, <2>3, <2>5, Shrinking
  <2>8. \A i \in DOMAIN found : Closer(asked, found[i], found'[i])
    <3>. TAKE i \in DOMAIN found
    <3>1. CASE i # place /\ i # place + 1
      BY <1>3, <1>5, <2>2, <2>5, <3>1, Unchanged
    <3>. QED
      BY <2>6, <2>7, <3>1
  <2>9. Arranged(asked, found')
    BY <1>3, <2>2, <2>4, <2>8, StillArranged
  <2>10. Searched'
    BY <1>1, <1>3, <2>1, <2>9 DEF Searched, Refining
  <2>. QED
    BY <1>1, <1>2, <2>10 DEF IsolationInv
<1>8. CASE ~Touching(found[place], found[place + 1])
  <2>1. found' = found /\ changed' = changed
    BY <1>8 DEF RefineNeighbours
  <2>2. Less(found[place][2], found[place + 1][1])
    BY <1>8 DEF Touching
  <2>3. ASSUME GapsBefore(found, place)
        PROVE  GapsBefore(found, place + 1)
    <3>. SUFFICES ASSUME NEW i \in DOMAIN found, i < place + 1, i + 1 \in DOMAIN found
                  PROVE  Less(found[i][2], found[i + 1][1])
      BY DEF GapsBefore
    <3>1. CASE i = place
      BY <2>2, <3>1
    <3>2. CASE i # place
      <4>1. i < place
        BY <1>3, <1>5, <3>2
      <4>. QED
        BY <2>3, <4>1 DEF GapsBefore
    <3>. QED
      BY <3>1, <3>2
  <2>4. Searched'
    BY <1>1, <1>3, <2>1, <2>3 DEF Searched, Refining
  <2>. QED
    BY <1>1, <1>2, <2>4 DEF IsolationInv
<1>. QED
  BY <1>7, <1>8

LEMMA EndPassKeeps ==
    ASSUME IsolationInv, EndPass
    PROVE  IsolationInv'
<1>1. /\ phase = "refine" /\ place >= Len(found)
      /\ asked' = asked /\ reduced' = reduced /\ chain' = chain
      /\ found' = found /\ pending' = pending
  BY DEF EndPass, inputVars
<1>2. p_deg(asked) > 0 /\ Searched
  BY <1>1 DEF IsolationInv, NotSearched
<1>3. /\ asked \in Searchable /\ reduced = squarefree_part(asked)
      /\ chain = sturm_sequence(squarefree_part(asked))
      /\ pending = <<>> /\ Arranged(asked, found) /\ place \in Nat /\ place >= 1
      /\ ~changed => GapsBefore(found, place)
  BY <1>1, <1>2 DEF Searched, Isolating, Refining, Finished
<1>4. /\ Len(found) \in Nat /\ DOMAIN found = 1 .. Len(found)
  BY <1>3, LenProperties DEF Arranged
<1>5. CASE changed
  <2>1. place' = 1 /\ changed' = FALSE /\ phase' = phase
    BY <1>5 DEF EndPass
  <2>2. GapsBefore(found, 1)
    BY <1>4 DEF GapsBefore
  <2>3. Searched'
    BY <1>1, <1>3, <2>1, <2>2 DEF Searched, Refining
  <2>. QED
    BY <1>1, <1>2, <2>3 DEF IsolationInv
<1>6. CASE ~changed
  <2>1. phase' = "done"
    BY <1>6 DEF EndPass
  <2>2. GapsBefore(found, Len(found))
    BY <1>1, <1>3, <1>4, <1>6 DEF GapsBefore
  <2>3. Searched'
    BY <1>1, <1>3, <2>1, <2>2 DEF Searched, Finished
  <2>. QED
    BY <1>1, <1>2, <2>3 DEF IsolationInv
<1>. QED
  BY <1>5, <1>6

LEMMA StepIsolates == IsolationInv /\ [IsolationNext]_isolationVars => IsolationInv'
<1>. SUFFICES ASSUME IsolationInv, [IsolationNext]_isolationVars
              PROVE  IsolationInv'
  OBVIOUS
<1>1. CASE \E p \in Inputs : Ask(p)
  BY <1>1, AskKeeps
<1>2. CASE Compute
  BY <1>2, IsolateKeeps, StartRefiningKeeps, RefineNeighboursKeeps, EndPassKeeps DEF Compute
<1>3. CASE UNCHANGED isolationVars
  BY <1>3 DEF isolationVars, inputVars, IsolationInv, Searched, NotSearched,
              Isolating, Refining, Finished
<1>. QED
  BY <1>1, <1>2, <1>3 DEF IsolationNext

\* The search keeps its inductive invariant.
THEOREM IsolationIsInductive == IsolationSpec => []IsolationInv
  BY InitIsolates, StepIsolates, PTL DEF IsolationSpec

\* A root that is in exactly one of the intervals is counted once.
LEMMA CountedOnce ==
    ASSUME NEW u, NEW i,
           \/ /\ i \in DOMAIN found /\ Isolated(u, found[i])
              /\ \A j \in DOMAIN found : Isolated(u, found[j]) => j = i
              /\ \A j \in DOMAIN pending : ~Between(u, pending[j][1], pending[j][2])
           \/ /\ i \in DOMAIN pending /\ Between(u, pending[i][1], pending[i][2])
              /\ \A j \in DOMAIN pending : Between(u, pending[j][1], pending[j][2]) => j = i
              /\ \A j \in DOMAIN found : ~Isolated(u, found[j])
    PROVE  PlacesOf(u) = 1
<1>. DEFINE A == {j \in DOMAIN found : Isolated(u, found[j])}
            B == {j \in DOMAIN pending : Between(u, pending[j][1], pending[j][2])}
<1>1. (A = {i} /\ B = {}) \/ (A = {} /\ B = {i})
  OBVIOUS
<1>2. PlacesOf(u) = Cardinality(A) + Cardinality(B)
  BY DEF PlacesOf
<1>3. Cardinality({}) = 0 /\ Cardinality({i}) = 1
  BY FS_EmptySet, FS_Singleton
<1>. HIDE DEF A, B
<1>4. CASE A = {i} /\ B = {}
  <2>1. Cardinality(A) = 1 /\ Cardinality(B) = 0
    BY <1>3, <1>4, Zenon
  <2>. QED
    BY <1>2, <2>1
<1>5. CASE A = {} /\ B = {i}
  <2>1. Cardinality(A) = 0 /\ Cardinality(B) = 1
    BY <1>3, <1>5, Zenon
  <2>. QED
    BY <1>2, <2>1
<1>. QED
  BY <1>1, <1>4, <1>5

LEMMA NothingFound ==
    ASSUME found = <<>>, pending = <<>>, NEW u
    PROVE  PlacesOf(u) = 0
<1>1. /\ {j \in DOMAIN found : Isolated(u, found[j])} = {}
      /\ {j \in DOMAIN pending : Between(u, pending[j][1], pending[j][2])} = {}
  OBVIOUS
<1>. QED
  BY <1>1, FS_EmptySet DEF PlacesOf

\* During a search a root is in one interval.
LEMMA SearchingOnce ==
    ASSUME NEW p \in Searchable, Searching(p, found, pending), NEW u \in RootsOf(p)
    PROVE  PlacesOf(u) = 1
<1>1. /\ found \in Seq(Intervals(p)) /\ pending \in Seq(Intervals(p)) /\ Once(p, found)
      /\ AllApart(pending) /\ Covered(p, found, pending) /\ ApartFrom(found, pending)
  BY DEF Searching, Answers, Pieces
<1>2. /\ \A i \in DOMAIN found : found[i] \in Intervals(p)
      /\ \A i \in DOMAIN pending : pending[i] \in Intervals(p)
  BY <1>1, ElementOfSeq, LenProperties
<1>3. u \in Line(p)
  BY SearchableFacts DEF RootAssumption
<1>4. ASSUME NEW i \in DOMAIN found, NEW j \in DOMAIN pending,
             Isolated(u, found[i]), Between(u, pending[j][1], pending[j][2])
      PROVE  FALSE
  BY <1>1, <1>2, <1>3, <1>4, ApartDisjoint, Zenon DEF ApartFrom
<1>5. ASSUME NEW i \in DOMAIN pending, NEW j \in DOMAIN pending, i # j,
             Between(u, pending[i][1], pending[i][2]), Between(u, pending[j][1], pending[j][2])
      PROVE  FALSE
  <2>1. Isolated(u, pending[i])
    BY <1>5 DEF Isolated
  <2>2. Apart(pending[i], pending[j])
    BY <1>1, <1>5, Zenon DEF AllApart
  <2>. QED
    BY <1>2, <1>3, <1>5, <2>1, <2>2, ApartDisjoint, Zenon
<1>6. ASSUME NEW i \in DOMAIN found, Isolated(u, found[i])
      PROVE  PlacesOf(u) = 1
  <2>1. \A j \in DOMAIN found : Isolated(u, found[j]) => j = i
    BY <1>1, <1>6, Zenon DEF Once
  <2>2. \A j \in DOMAIN pending : ~Between(u, pending[j][1], pending[j][2])
    BY <1>4, <1>6, Zenon
  <2>. QED
    BY <1>6, <2>1, <2>2, CountedOnce, Zenon
<1>7. ASSUME NEW i \in DOMAIN pending, Between(u, pending[i][1], pending[i][2])
      PROVE  PlacesOf(u) = 1
  <2>1. \A j \in DOMAIN pending : Between(u, pending[j][1], pending[j][2]) => j = i
    BY <1>5, <1>7, Zenon
  <2>2. \A j \in DOMAIN found : ~Isolated(u, found[j])
    BY <1>4, <1>7, Zenon
  <2>. QED
    BY <1>7, <2>1, <2>2, CountedOnce, Zenon
<1>. QED
  BY <1>1, <1>6, <1>7, Zenon DEF Covered

\* What is found when nothing is pending has every root once.
LEMMA ArrangedOnce ==
    ASSUME NEW p, Arranged(p, found), pending = <<>>, NEW u \in RootsOf(p)
    PROVE  PlacesOf(u) = 1
<1>1. Once(p, found) /\ Covered(p, found, <<>>)
  BY DEF Arranged
<1>2. PICK i \in DOMAIN found : Isolated(u, found[i])
  BY <1>1 DEF Covered
<1>3. \A j \in DOMAIN found : Isolated(u, found[j]) => j = i
  BY <1>1, <1>2, Zenon DEF Once
<1>4. \A j \in DOMAIN pending : ~Between(u, pending[j][1], pending[j][2])
  OBVIOUS
<1>. QED
  BY <1>2, <1>3, <1>4, CountedOnce, Zenon

LEMMA InvCounts == IsolationInv => EveryRootOnce
<1>. SUFFICES ASSUME IsolationInv PROVE EveryRootOnce
  OBVIOUS
<1>1. CASE ~(p_deg(asked) > 0)
  <2>1. NotSearched
    BY <1>1 DEF IsolationInv
  <2>2. found = <<>> /\ pending = <<>>
    BY <2>1 DEF NotSearched
  <2>3. \A u \in RootsOf(asked) : PlacesOf(u) = IF phase = "idle" \/ p_deg(asked) < 0 THEN 0 ELSE 1
    <3>. TAKE u \in RootsOf(asked)
    <3>1. PlacesOf(u) = 0
      BY <2>2, NothingFound
    <3>2. CASE phase = "idle"
      BY <3>1, <3>2
    <3>3. CASE phase = "done"
      <4>1. asked \in Inputs
        BY <2>1, <3>3 DEF NotSearched
      <4>2. p_deg(asked) \in Int /\ p_deg(asked) # 0
        BY <4>1, IsolationAssumption
      <4>. QED
        BY <1>1, <3>1, <4>2
    <3>. QED
      BY <2>1, <3>2, <3>3 DEF NotSearched
  <2>. QED
    BY <2>2, <2>3 DEF EveryRootOnce
<1>2. CASE p_deg(asked) > 0
  <2>1. Searched
    BY <1>2 DEF IsolationInv
  <2>2. asked \in Searchable
    BY <2>1 DEF Searched
  <2>3. p_deg(asked) \in Int
    BY <2>2, IsolationAssumption DEF Searchable
  <2>4. \A u \in RootsOf(asked) : PlacesOf(u) = 1
    BY <2>1, <2>2, SearchingOnce, ArrangedOnce
       DEF Searched, Isolating, Refining, Finished
  <2>5. phase # "idle"
    BY <2>1 DEF Searched, Isolating, Refining, Finished
  <2>6. ASSUME phase = "done"
        PROVE  /\ \A i \in 1 .. Len(found) - 1 : Less(found[i][2], found[i + 1][1])
               /\ \A i \in DOMAIN found : \E u \in RootsOf(asked) : Isolated(u, found[i])
    <3>1. Arranged(asked, found) /\ GapsBefore(found, Len(found))
      BY <2>1, <2>6 DEF Searched, Isolating, Refining, Finished
    <3>2. found \in Seq(Intervals(asked)) /\ FoundHold(asked, found)
      BY <3>1 DEF Arranged
    <3>3. Len(found) \in Nat /\ DOMAIN found = 1 .. Len(found)
      BY <3>2, LenProperties
    <3>4. \A i \in 1 .. Len(found) - 1 : Less(found[i][2], found[i + 1][1])
      BY <3>1, <3>3 DEF GapsBefore
    <3>5. \A i \in DOMAIN found : \E u \in RootsOf(asked) : Isolated(u, found[i])
      BY <3>2, HeldRoot, Zenon DEF FoundHold
    <3>. QED
      BY <3>4, <3>5
  <2>. QED
    BY <1>2, <2>3, <2>4, <2>5, <2>6 DEF EveryRootOnce
<1>. QED
  BY <1>1, <1>2

\* real_roots_intervals never loses a root and never finds one twice, and its
\* answer is intervals in order with gaps between them and a root in each,
\* however the roots lie, rational or not.
THEOREM RootsAreFoundOnce == IsolationSpec => []EveryRootOnce
  BY IsolationIsInductive, InvCounts, PTL

-----------------------------------------------------------------------------
(* The answer: the roots in order. *)

Answered ==
    /\ asked \in Inputs /\ RootsOf(asked) \subseteq Line(asked)
    /\ Len(found) \in Nat /\ DOMAIN found = 1 .. Len(found)
    /\ found = <<>> => RootsOf(asked) = {}
    /\ found # <<>> => /\ asked \in Searchable
                       /\ Arranged(asked, found) /\ GapsBefore(found, Len(found))

LEMMA DoneIsAnswered == IsolationInv /\ phase = "done" => Answered
<1>. SUFFICES ASSUME IsolationInv, phase = "done" PROVE Answered
  OBVIOUS
<1>1. CASE ~(p_deg(asked) > 0)
  <2>1. asked \in Inputs /\ found = <<>>
    BY <1>1 DEF IsolationInv, NotSearched
  <2>2. p_deg(asked) \in Int /\ p_deg(asked) >= 0
    BY <2>1, IsolationAssumption, CellsAssumption
  <2>3. RootsOf(asked) = {}
    BY <1>1, <2>1, <2>2, IsolationAssumption
  <2>4. Len(found) = 0 /\ DOMAIN found = {}
    BY <2>1
  <2>. QED
    BY <2>1, <2>3, <2>4 DEF Answered
<1>2. CASE p_deg(asked) > 0
  <2>1. asked \in Searchable /\ Arranged(asked, found) /\ GapsBefore(found, Len(found))
    BY <1>2 DEF IsolationInv, Searched, Isolating, Refining, Finished
  <2>2. asked \in Inputs /\ RootsOf(asked) \subseteq Line(asked)
    BY <2>1, SearchableFacts DEF RootAssumption
  <2>3. Len(found) \in Nat /\ DOMAIN found = 1 .. Len(found)
    BY <2>1, LenProperties DEF Arranged
  <2>4. found = <<>> => RootsOf(asked) = {}
    BY <2>1 DEF Arranged, Covered
  <2>. QED
    BY <2>1, <2>2, <2>3, <2>4 DEF Answered
<1>. QED
  BY <1>1, <1>2

RootsInOrder(R) ==
    /\ R \in [DOMAIN found -> RootsOf(asked)]
    /\ \A i \in DOMAIN found, r \in RootsOf(asked) : Isolated(r, found[i]) <=> r = R[i]
    /\ \A r \in RootsOf(asked) : \E i \in DOMAIN found : r = R[i]
    /\ \A i, j \in DOMAIN found : i < j => Before(R[i], R[j])

\* The root is not outside its interval.
LEMMA AtEnds ==
    ASSUME NEW p \in Searchable, NEW X \in Intervals(p), X[1] = X[2] \/ Less(X[1], X[2]),
           NEW r \in Line(p), Isolated(r, X)
    PROVE  /\ r = At(X[2]) \/ Before(r, At(X[2]))
           /\ r = At(X[1]) \/ Before(At(X[1]), r)
  BY DEF Isolated, Between

LEMMA RootsAscend ==
    ASSUME Answered
    PROVE  \E R : RootsInOrder(R)
<1>. DEFINE R == [i \in DOMAIN found |-> CHOOSE r \in RootsOf(asked) : Isolated(r, found[i])]
<1>1. CASE found = <<>>
  <2>1. DOMAIN found = {} /\ RootsOf(asked) = {}
    BY <1>1 DEF Answered
  <2>2. R \in [DOMAIN found -> RootsOf(asked)]
    BY <2>1
  <2>. HIDE DEF R
  <2>3. RootsInOrder(R)
    BY <2>1, <2>2 DEF RootsInOrder
  <2>. QED
    BY <2>3
<1>2. CASE found # <<>>
  <2>1. /\ asked \in Searchable /\ found \in Seq(Intervals(asked))
        /\ FoundHold(asked, found) /\ Once(asked, found) /\ Covered(asked, found, <<>>)
        /\ Ordered(found)
    BY <1>2 DEF Answered, Arranged
  <2>2. asked \in Inputs /\ RootsOf(asked) \subseteq Line(asked) /\ DOMAIN found = 1 .. Len(found)
    BY DEF Answered
  <2>3. \A i \in DOMAIN found : \E r \in RootsOf(asked) : Isolated(r, found[i])
    BY <2>1, HeldRoot, Zenon DEF FoundHold
  <2>4. \A i \in DOMAIN found : R[i] \in RootsOf(asked) /\ Isolated(R[i], found[i])
    BY <2>3
  <2>5. R \in [DOMAIN found -> RootsOf(asked)]
    BY <2>4
  <2>. HIDE DEF R
  <2>6. /\ \A u \in Line(asked) : ~Before(u, u)
        /\ \A u, v \in Line(asked) : u = v \/ Before(u, v) \/ Before(v, u)
        /\ \A u, v, w \in Line(asked) : Before(u, v) /\ Before(v, w) => Before(u, w)
    BY <2>2, LineOrder, Zenon
  <2>7. /\ \A n \in Grid(asked) : At(n) \in Line(asked)
        /\ \A l, n \in Grid(asked) : Less(l, n) <=> Before(At(l), At(n))
    BY <2>1, NumberOrder, Zenon
  <2>8. ASSUME NEW i \in DOMAIN found, NEW r \in RootsOf(asked), Isolated(r, found[i])
        PROVE  r = R[i]
    <3>1. found[i] \in Intervals(asked) /\ HoldsOne(asked, found[i])
      BY <2>1, ElementOfSeq, LenProperties DEF FoundHold
    <3>2. r \in Line(asked) /\ R[i] \in RootsOf(asked) /\ Isolated(R[i], found[i])
          /\ R[i] \in Line(asked)
      BY <2>2, <2>4
    <3>3. CASE found[i][1] = found[i][2]
      <4>1. found[i] = <<found[i][1], found[i][1]>> /\ found[i][1] \in Grid(asked)
        BY <3>1, <3>3 DEF Intervals
      <4>2. r = At(found[i][1]) /\ R[i] = At(found[i][1])
        BY <2>1, <2>8, <3>2, <4>1, IsolatedPoint
      <4>. QED
        BY <4>2
    <3>4. CASE found[i][1] # found[i][2]
      <4>1. \E s \in RootsOf(asked) : OnlyRoot(asked, s, found[i][1], found[i][2])
        BY <3>1, <3>4 DEF HoldsOne
      <4>2. Between(r, found[i][1], found[i][2]) /\ Between(R[i], found[i][1], found[i][2])
        BY <2>8, <3>2, <3>4 DEF Isolated
      <4>. QED
        BY <3>2, <4>1, <4>2 DEF OnlyRoot
    <3>. QED
      BY <3>3, <3>4
  <2>9. ASSUME NEW i \in DOMAIN found, NEW j \in DOMAIN found, i < j
        PROVE  Before(R[i], R[j])
    <3>1. /\ found[i] \in Intervals(asked) /\ HoldsOne(asked, found[i])
          /\ found[j] \in Intervals(asked) /\ HoldsOne(asked, found[j])
      BY <2>1, ElementOfSeq, LenProperties DEF FoundHold
    <3>2. /\ R[i] \in Line(asked) /\ Isolated(R[i], found[i])
          /\ R[j] \in Line(asked) /\ Isolated(R[j], found[j])
      BY <2>2, <2>4
    <3>3. /\ found[i][2] \in Grid(asked) /\ found[j][1] \in Grid(asked)
          /\ At(found[i][2]) \in Line(asked) /\ At(found[j][1]) \in Line(asked)
      BY <2>7, <3>1 DEF Intervals
    <3>4. /\ found[i][1] = found[i][2] \/ Less(found[i][1], found[i][2])
          /\ found[j][1] = found[j][2] \/ Less(found[j][1], found[j][2])
      BY <3>1 DEF HoldsOne
    <3>5. R[i] = At(found[i][2]) \/ Before(R[i], At(found[i][2]))
      BY <2>1, <3>1, <3>2, <3>4, AtEnds, Zenon
    <3>6. R[j] = At(found[j][1]) \/ Before(At(found[j][1]), R[j])
      BY <2>1, <3>1, <3>2, <3>4, AtEnds, Zenon
    <3>7. ~Less(found[j][1], found[i][2])
      BY <2>1, <2>9 DEF Ordered
    <3>8. ~Before(At(found[j][1]), At(found[i][2]))
      BY <2>7, <3>3, <3>7
    <3>9. R[i] # R[j]
      <4>1. i # j
        BY <2>2, <2>9
      <4>. QED
        BY <2>1, <2>4, <4>1, Zenon DEF Once
    <3>10. ~Before(R[j], R[i])
      BY <2>6, <3>2, <3>3, <3>5, <3>6, <3>8
    <3>. QED
      BY <2>6, <3>2, <3>9, <3>10
  <2>10. \A r \in RootsOf(asked) : \E i \in DOMAIN found : r = R[i]
    <3>. TAKE r \in RootsOf(asked)
    <3>1. \E i \in DOMAIN found : Isolated(r, found[i])
      BY <2>1 DEF Covered
    <3>. QED
      BY <2>8, <3>1
  <2>11. RootsInOrder(R)
    BY <2>4, <2>5, <2>8, <2>9, <2>10 DEF RootsInOrder
  <2>. QED
    BY <2>11
<1>. QED
  BY <1>1, <1>2

-----------------------------------------------------------------------------
(* The cells between the roots. *)

\* Points of the line, and the roots among them.
LEMMA RootOrder ==
    ASSUME Answered, NEW R, RootsInOrder(R)
    PROVE  /\ \A i \in DOMAIN found : R[i] \in Line(asked) /\ R[i] \in RootsOf(asked)
           /\ \A i, j \in DOMAIN found : i < j => Before(R[i], R[j])
           /\ \A i, j \in DOMAIN found, u \in Line(asked) :
                 i <= j => /\ Before(u, R[i]) => Before(u, R[j])
                           /\ Before(R[j], u) => Before(R[i], u)
           /\ \A i \in DOMAIN found, u \in Line(asked) : Before(u, R[i]) => ~Before(R[i], u)
           /\ \A u \in Line(asked) : ~Before(u, u)
           /\ \A u, v \in Line(asked) : u = v \/ Before(u, v) \/ Before(v, u)
           /\ \A u, v, w \in Line(asked) : Before(u, v) /\ Before(v, w) => Before(u, w)
<1>1. asked \in Inputs /\ RootsOf(asked) \subseteq Line(asked)
      /\ DOMAIN found = 1 .. Len(found) /\ Len(found) \in Nat
  BY DEF Answered
<1>2. /\ R \in [DOMAIN found -> RootsOf(asked)]
      /\ \A i, j \in DOMAIN found : i < j => Before(R[i], R[j])
  BY DEF RootsInOrder
<1>3. /\ \A u \in Line(asked) : ~Before(u, u)
      /\ \A u, v \in Line(asked) : u = v \/ Before(u, v) \/ Before(v, u)
      /\ \A u, v, w \in Line(asked) : Before(u, v) /\ Before(v, w) => Before(u, w)
  BY <1>1, LineOrder, Zenon
<1>4. \A i \in DOMAIN found : R[i] \in Line(asked) /\ R[i] \in RootsOf(asked)
  BY <1>1, <1>2
<1>5. ASSUME NEW i \in DOMAIN found, NEW j \in DOMAIN found, NEW u \in Line(asked), i <= j
      PROVE  /\ Before(u, R[i]) => Before(u, R[j])
             /\ Before(R[j], u) => Before(R[i], u)
  <2>1. i = j \/ i < j
    BY <1>1, <1>5
  <2>2. R[i] = R[j] \/ Before(R[i], R[j])
    BY <1>2, <2>1
  <2>. QED
    BY <1>3, <1>4, <2>2
<1>6. \A i \in DOMAIN found, u \in Line(asked) : Before(u, R[i]) => ~Before(R[i], u)
  BY <1>3, <1>4
<1>. QED
  BY <1>2, <1>3, <1>4, <1>5, <1>6

\* The numbers of the cells around a root.
LEMMA CellNumbers ==
    ASSUME Answered
    PROVE  /\ \A k \in Cell : k % 2 = 0 =>
                 k \div 2 \in DOMAIN found /\ k = 2 * (k \div 2)
           /\ \A k \in Cell : k % 2 # 0 =>
                 /\ k \div 2 \in 0 .. Len(found) /\ k = 2 * (k \div 2) + 1
                 /\ k > 1 <=> k \div 2 \in DOMAIN found
                 /\ k < 2 * Len(found) + 1 <=> k \div 2 + 1 \in DOMAIN found
           /\ \A i \in DOMAIN found :
                 2 * i \in Cell /\ (2 * i) % 2 = 0 /\ (2 * i) \div 2 = i
           /\ \A i \in 0 .. Len(found) :
                 2 * i + 1 \in Cell /\ (2 * i + 1) % 2 # 0 /\ (2 * i + 1) \div 2 = i
<1>1. Len(found) \in Nat /\ DOMAIN found = 1 .. Len(found)
  BY DEF Answered
<1>2. PICK n \in Nat : n = Len(found)
  BY <1>1
<1>3. Cell = 1 .. 2 * n + 1 /\ DOMAIN found = 1 .. n
  BY <1>1, <1>2 DEF Cell
<1>4. ASSUME NEW k \in 1 .. 2 * n + 1
      PROVE  /\ k % 2 = 0 => k \div 2 \in 1 .. n /\ k = 2 * (k \div 2)
             /\ k % 2 # 0 =>
                   /\ k \div 2 \in 0 .. n /\ k = 2 * (k \div 2) + 1
                   /\ k > 1 <=> k \div 2 \in 1 .. n
                   /\ k < 2 * n + 1 <=> k \div 2 + 1 \in 1 .. n
  <2>1. k \in Nat
    OBVIOUS
  <2>. QED
    BY <2>1
<1>5. ASSUME NEW i \in 0 .. n
      PROVE  /\ i > 0 => 2 * i \in 1 .. 2 * n + 1
             /\ (2 * i) % 2 = 0 /\ (2 * i) \div 2 = i
             /\ 2 * i + 1 \in 1 .. 2 * n + 1 /\ (2 * i + 1) % 2 # 0 /\ (2 * i + 1) \div 2 = i
  OBVIOUS
<1>6. \A i \in 1 .. n : i \in 0 .. n /\ i > 0
  OBVIOUS
<1>. QED
  BY <1>2, <1>3, <1>4, <1>5, <1>6

\* Where a point of a cell is.
LEMMA CellPoints ==
    ASSUME Answered, NEW R, RootsInOrder(R), NEW u \in Line(asked), NEW k \in Cell
    PROVE  /\ k % 2 = 0 => (InCell(u, k) <=> u = R[k \div 2])
           /\ k % 2 # 0 =>
                 (InCell(u, k) <=>
                     /\ k \div 2 \in DOMAIN found => Before(R[k \div 2], u)
                     /\ k \div 2 + 1 \in DOMAIN found => Before(u, R[k \div 2 + 1]))
<1>1. /\ R \in [DOMAIN found -> RootsOf(asked)]
      /\ \A i \in DOMAIN found, r \in RootsOf(asked) : Isolated(r, found[i]) <=> r = R[i]
  BY DEF RootsInOrder
<1>2. \A i \in DOMAIN found : R[i] \in RootsOf(asked)
  BY <1>1
<1>3. \A i \in DOMAIN found : /\ Beyond(u, i) <=> Before(R[i], u)
                              /\ Ahead(u, i) <=> Before(u, R[i])
  BY <1>1, <1>2, Zenon DEF Beyond, Ahead
<1>4. CASE k % 2 = 0
  <2>1. k \div 2 \in DOMAIN found
    BY <1>4, CellNumbers
  <2>2. InCell(u, k) <=> u \in RootsOf(asked) /\ Isolated(u, found[k \div 2])
    BY <1>4 DEF InCell, IsPoint, IsoOf
  <2>. QED
    BY <1>1, <1>2, <1>4, <2>1, <2>2
<1>5. CASE k % 2 # 0
  <2>1. /\ k > 1 <=> k \div 2 \in DOMAIN found
        /\ k < 2 * Len(found) + 1 <=> k \div 2 + 1 \in DOMAIN found
    BY <1>5, CellNumbers
  <2>2. InCell(u, k) <=> /\ k > 1 => Beyond(u, k \div 2)
                         /\ k < 2 * Len(found) + 1 => Ahead(u, k \div 2 + 1)
    BY <1>5 DEF InCell, IsPoint
  <2>. QED
    BY <1>3, <1>5, <2>1, <2>2
<1>. QED
  BY <1>4, <1>5

\* No point is in two cells.
LEMMA CellsDisjoint ==
    ASSUME Answered, NEW R, RootsInOrder(R), NEW u \in Line(asked),
           NEW j \in Cell, NEW k \in Cell, j < k, InCell(u, j), InCell(u, k)
    PROVE  FALSE
<1>. DEFINE a == j \div 2
            b == k \div 2
<1>1. Len(found) \in Nat /\ DOMAIN found = 1 .. Len(found)
  BY DEF Answered
<1>2. /\ \A i \in DOMAIN found : R[i] \in Line(asked)
      /\ \A i, l \in DOMAIN found : i < l => Before(R[i], R[l])
      /\ \A i, l \in DOMAIN found, v \in Line(asked) :
            i <= l => /\ Before(v, R[i]) => Before(v, R[l])
                      /\ Before(R[l], v) => Before(R[i], v)
      /\ \A i \in DOMAIN found, v \in Line(asked) : Before(v, R[i]) => ~Before(R[i], v)
      /\ \A v \in Line(asked) : ~Before(v, v)
  BY RootOrder
<1>3. /\ j % 2 = 0 => a \in DOMAIN found /\ j = 2 * a /\ u = R[a]
      /\ k % 2 = 0 => b \in DOMAIN found /\ k = 2 * b /\ u = R[b]
  <2>1. /\ j % 2 = 0 => j \div 2 \in DOMAIN found /\ j = 2 * (j \div 2)
        /\ k % 2 = 0 => k \div 2 \in DOMAIN found /\ k = 2 * (k \div 2)
    BY CellNumbers
  <2>2. /\ j % 2 = 0 => u = R[j \div 2]
        /\ k % 2 = 0 => u = R[k \div 2]
    BY CellPoints
  <2>. QED
    BY <2>1, <2>2
<1>4. /\ j % 2 # 0 => /\ a \in 0 .. Len(found) /\ j = 2 * a + 1
                      /\ a + 1 \in DOMAIN found => Before(u, R[a + 1])
      /\ k % 2 # 0 => /\ b \in 0 .. Len(found) /\ k = 2 * b + 1
                      /\ b \in DOMAIN found => Before(R[b], u)
  BY CellNumbers, CellPoints
<1>. HIDE DEF a, b
<1>5. CASE j % 2 = 0 /\ k % 2 = 0
  <2>1. a < b
    BY <1>1, <1>3, <1>5
  <2>. QED
    BY <1>2, <1>3, <1>5, <2>1
<1>6. CASE j % 2 = 0 /\ k % 2 # 0
  <2>1. a <= b /\ b \in DOMAIN found
    BY <1>1, <1>3, <1>4, <1>6
  <2>2. Before(R[a], u)
    BY <1>2, <1>3, <1>4, <1>6, <2>1
  <2>. QED
    BY <1>2, <1>3, <1>6, <2>2
<1>7. CASE j % 2 # 0 /\ k % 2 = 0
  <2>1. a + 1 <= b /\ a + 1 \in DOMAIN found
    BY <1>1, <1>3, <1>4, <1>7
  <2>2. Before(u, R[b])
    BY <1>2, <1>3, <1>4, <1>7, <2>1
  <2>. QED
    BY <1>2, <1>3, <1>7, <2>2
<1>8. CASE j % 2 # 0 /\ k % 2 # 0
  <2>1. a + 1 <= b /\ a + 1 \in DOMAIN found /\ b \in DOMAIN found
    BY <1>1, <1>4, <1>8
  <2>2. Before(u, R[b]) /\ Before(R[b], u)
    BY <1>2, <1>4, <1>8, <2>1
  <2>. QED
    BY <1>2, <2>1, <2>2
<1>. QED
  BY <1>5, <1>6, <1>7, <1>8

\* Every point is in a cell.
LEMMA CellsCover ==
    ASSUME Answered, NEW R, RootsInOrder(R), NEW u \in Line(asked)
    PROVE  \E k \in Cell : InCell(u, k)
<1>. DEFINE S == {i \in DOMAIN found : ~Before(u, R[i])}
<1>1. Len(found) \in Nat /\ DOMAIN found = 1 .. Len(found)
  BY DEF Answered
<1>2. /\ \A i \in DOMAIN found : R[i] \in Line(asked)
      /\ \A v, w \in Line(asked) : v = w \/ Before(v, w) \/ Before(w, v)
  BY RootOrder
<1>3. PICK i \in 0 .. Len(found) :
          /\ i \in DOMAIN found => ~Before(u, R[i])
          /\ i + 1 \in DOMAIN found => Before(u, R[i + 1])
  <2>1. CASE S = {}
    BY <1>1, <2>1
  <2>2. CASE S # {}
    <3>1. PICK s \in S : TRUE
      BY <2>2
    <3>2. S \subseteq 1 .. Len(found)
      BY <1>1
    <3>. HIDE DEF S
    <3>3. PICK i \in S : \A l \in S : l <= i
      BY <1>1, <3>1, <3>2, LastExists, Zenon
    <3>4. i \in DOMAIN found /\ ~Before(u, R[i])
      BY <3>3 DEF S
    <3>5. i + 1 \notin S
      BY <1>1, <3>3, <3>4
    <3>6. i \in 0 .. Len(found)
      BY <1>1, <3>4
    <3>. QED
      BY <3>4, <3>5, <3>6 DEF S
  <2>. QED
    BY <2>1, <2>2
<1>4. CASE i \in DOMAIN found /\ u = R[i]
  <2>1. 2 * i \in Cell /\ (2 * i) % 2 = 0 /\ (2 * i) \div 2 = i
    BY <1>4, CellNumbers
  <2>2. InCell(u, 2 * i)
    BY <1>4, <2>1, CellPoints
  <2>. QED
    BY <2>1, <2>2
<1>5. CASE ~(i \in DOMAIN found /\ u = R[i])
  <2>1. 2 * i + 1 \in Cell /\ (2 * i + 1) % 2 # 0 /\ (2 * i + 1) \div 2 = i
    BY CellNumbers
  <2>2. i \in DOMAIN found => Before(R[i], u)
    BY <1>2, <1>3, <1>5
  <2>3. InCell(u, 2 * i + 1)
    BY <1>3, <2>1, <2>2, CellPoints
  <2>. QED
    BY <2>1, <2>3
<1>. QED
  BY <1>4, <1>5

\* A factor of what was asked about.
LEMMA FactorFacts ==
    ASSUME Answered, NEW p \in Factors(asked)
    PROVE  /\ SignAssumption(p, Line(asked), Numbers(asked))
           /\ FactorAssumption(p, asked)
  BY CellsAssumption, Zenon DEF Answered

\* Two points of an open cell have the same sign.
LEMMA SameSign ==
    ASSUME Answered, NEW R, RootsInOrder(R), NEW p \in Factors(asked), ~p_is_zero(p),
           NEW k \in Cell, k % 2 # 0,
           NEW u \in Line(asked), InCell(u, k), NEW v \in Line(asked), InCell(v, k)
    PROVE  SignOf(p, u) = SignOf(p, v)
<1>1. Len(found) \in Nat /\ DOMAIN found = 1 .. Len(found)
  BY DEF Answered
<1>2. /\ \A i \in DOMAIN found : R[i] \in Line(asked)
      /\ \A i, l \in DOMAIN found, w \in Line(asked) :
            i <= l => /\ Before(w, R[i]) => Before(w, R[l])
                      /\ Before(R[l], w) => Before(R[i], w)
      /\ \A i \in DOMAIN found, w \in Line(asked) : Before(w, R[i]) => ~Before(R[i], w)
      /\ \A w \in Line(asked) : ~Before(w, w)
      /\ \A w, x \in Line(asked) : w = x \/ Before(w, x) \/ Before(x, w)
  BY RootOrder
<1>3. /\ k \div 2 \in DOMAIN found => Before(R[k \div 2], u) /\ Before(R[k \div 2], v)
      /\ k \div 2 + 1 \in DOMAIN found => Before(u, R[k \div 2 + 1]) /\ Before(v, R[k \div 2 + 1])
      /\ k \div 2 \in 0 .. Len(found)
  BY CellPoints, CellNumbers
<1>4. /\ \A w, x \in Line(asked) : Before(w, x) /\ SignOf(p, w) # SignOf(p, x) =>
            \E r \in RootsOf(p) : (r = w \/ Before(w, r)) /\ (r = x \/ Before(r, x))
      /\ RootsOf(p) \subseteq RootsOf(asked)
  BY FactorFacts, Zenon DEF SignAssumption, FactorAssumption
<1>5. \A r \in RootsOf(p) : \E i \in DOMAIN found : r = R[i]
  BY <1>4 DEF RootsInOrder
<1>6. ASSUME NEW w \in Line(asked), NEW x \in Line(asked), Before(w, x),
             SignOf(p, w) # SignOf(p, x),
             k \div 2 \in DOMAIN found => Before(R[k \div 2], w),
             k \div 2 + 1 \in DOMAIN found => Before(x, R[k \div 2 + 1])
      PROVE  FALSE
  <2>1. PICK i \in DOMAIN found : (R[i] = w \/ Before(w, R[i])) /\ (R[i] = x \/ Before(R[i], x))
    BY <1>4, <1>5, <1>6
  <2>2. CASE i <= k \div 2
    <3>1. k \div 2 \in DOMAIN found
      BY <1>1, <1>3, <2>2
    <3>2. Before(R[i], w)
      BY <1>2, <1>6, <2>2, <3>1
    <3>. QED
      BY <1>2, <2>1, <3>2
  <2>3. CASE ~(i <= k \div 2)
    <3>1. k \div 2 + 1 \in DOMAIN found /\ k \div 2 + 1 <= i
      BY <1>1, <1>3, <2>3
    <3>2. Before(x, R[i])
      BY <1>2, <1>6, <3>1
    <3>. QED
      BY <1>2, <2>1, <3>2
  <2>. QED
    BY <2>2, <2>3
<1>7. CASE u = v
  BY <1>7
<1>8. CASE Before(u, v)
  BY <1>3, <1>6, <1>8
<1>9. CASE Before(v, u)
  BY <1>3, <1>6, <1>9
<1>. QED
  BY <1>2, <1>7, <1>8, <1>9

\* The intervals found, and where their roots are in them.
LEMMA FoundEnds ==
    ASSUME Answered, NEW R, RootsInOrder(R), NEW i \in DOMAIN found
    PROVE  /\ asked \in Searchable /\ found # <<>>
           /\ found[i] \in Intervals(asked) /\ HoldsOne(asked, found[i])
           /\ found[i][1] \in Grid(asked) /\ found[i][2] \in Grid(asked)
           /\ found[i][1] = found[i][2] \/ Less(found[i][1], found[i][2])
           /\ R[i] = At(found[i][2]) \/ Before(R[i], At(found[i][2]))
           /\ R[i] = At(found[i][1]) \/ Before(At(found[i][1]), R[i])
           /\ i + 1 \in DOMAIN found => Less(found[i][2], found[i + 1][1])
<1>1. /\ DOMAIN found = 1 .. Len(found) /\ Len(found) \in Nat
      /\ found # <<>> => asked \in Searchable /\ Arranged(asked, found)
                            /\ GapsBefore(found, Len(found))
  BY DEF Answered
<1>2. found # <<>>
  OBVIOUS
<1>3. /\ found \in Seq(Intervals(asked)) /\ FoundHold(asked, found)
      /\ asked \in Searchable
  BY <1>1, <1>2 DEF Arranged
<1>4. found[i] \in Intervals(asked) /\ HoldsOne(asked, found[i])
  BY <1>3, ElementOfSeq, LenProperties DEF FoundHold
<1>5. /\ found[i][1] \in Grid(asked) /\ found[i][2] \in Grid(asked)
      /\ found[i][1] = found[i][2] \/ Less(found[i][1], found[i][2])
  BY <1>4 DEF HoldsOne, Intervals
<1>6. R[i] \in RootsOf(asked) /\ Isolated(R[i], found[i])
  BY DEF RootsInOrder
<1>7. R[i] \in Line(asked)
  BY RootOrder
<1>8. /\ R[i] = At(found[i][2]) \/ Before(R[i], At(found[i][2]))
      /\ R[i] = At(found[i][1]) \/ Before(At(found[i][1]), R[i])
  BY <1>3, <1>4, <1>5, <1>6, <1>7, AtEnds, Zenon
<1>9. i + 1 \in DOMAIN found => Less(found[i][2], found[i + 1][1])
  BY <1>1, <1>2 DEF GapsBefore
<1>. QED
  BY <1>2, <1>3, <1>4, <1>5, <1>8, <1>9

\* The sample of an open cell is in it.
LEMMA SampleInCell ==
    ASSUME Answered, NEW R, RootsInOrder(R), NEW k \in Cell, k % 2 # 0
    PROVE  /\ Sample(k) \in Numbers(asked)
           /\ At(Sample(k)) \in Line(asked) /\ InCell(At(Sample(k)), k)
<1>. DEFINE a == k \div 2
            n == Len(found)
<1>1. /\ asked \in Inputs /\ n \in Nat /\ DOMAIN found = 1 .. n
      /\ RootsOf(asked) \subseteq Line(asked)
  BY DEF Answered
<1>2. /\ a \in 0 .. n /\ k = 2 * a + 1
      /\ k > 1 <=> a \in DOMAIN found
      /\ k < 2 * n + 1 <=> a + 1 \in DOMAIN found
  BY CellNumbers
<1>3. SampleAssumption(asked)
  BY <1>1, CellsAssumption
<1>4. /\ \A i \in DOMAIN found : R[i] \in Line(asked) /\ R[i] \in RootsOf(asked)
      /\ \A i, l \in DOMAIN found, w \in Line(asked) :
            i <= l => /\ Before(w, R[i]) => Before(w, R[l])
                      /\ Before(R[l], w) => Before(R[i], w)
      /\ \A i \in DOMAIN found, w \in Line(asked) : Before(w, R[i]) => ~Before(R[i], w)
      /\ \A u, v, w \in Line(asked) : Before(u, v) /\ Before(v, w) => Before(u, w)
  BY RootOrder
<1>5. ASSUME NEW s, s = Sample(k), s \in Numbers(asked), At(s) \in Line(asked),
             a \in DOMAIN found => Before(R[a], At(s)),
             a + 1 \in DOMAIN found => Before(At(s), R[a + 1])
      PROVE  /\ Sample(k) \in Numbers(asked)
             /\ At(Sample(k)) \in Line(asked) /\ InCell(At(Sample(k)), k)
  <2>1. InCell(At(s), k)
    BY <1>5, CellPoints
  <2>. QED
    BY <1>5, <2>1
<1>6. \A i \in DOMAIN found :
          /\ At(found[i][1]) \in Line(asked) /\ At(found[i][2]) \in Line(asked)
          /\ found[i][1] \in Grid(asked) /\ found[i][2] \in Grid(asked)
  BY FoundEnds, NumberOrder
<1>7. CASE found = <<>>
  <2>1. n = 0 /\ Sample(k) = Origin
    BY <1>7 DEF Sample
  <2>2. a \notin DOMAIN found /\ a + 1 \notin DOMAIN found
    BY <1>1, <2>1
  <2>3. Origin \in Numbers(asked) /\ At(Origin) \in Line(asked)
    BY <1>3 DEF Numbers, SampleAssumption
  <2>. QED
    BY <1>5, <2>1, <2>2, <2>3
<1>8. CASE found # <<>> /\ k = 1
  <2>1. Sample(k) = Pred(found[1][1])
    BY <1>8 DEF Sample
  <2>2. 1 \in DOMAIN found
    BY <1>1, <1>8
  <2>3. a = 0 /\ a \notin DOMAIN found
    BY <1>1, <1>2, <1>8
  <2>. DEFINE s == Pred(found[1][1])
  <2>4. s \in Numbers(asked) /\ At(s) \in Line(asked) /\ Before(At(s), At(found[1][1]))
    BY <1>3, <1>6, <2>2 DEF Numbers, SampleAssumption
  <2>5. R[1] = At(found[1][1]) \/ Before(At(found[1][1]), R[1])
    BY <2>2, FoundEnds
  <2>. HIDE DEF s
  <2>6. Before(At(s), R[1])
    BY <1>4, <1>6, <2>2, <2>4, <2>5
  <2>7. s = Sample(k)
    BY <2>1 DEF s
  <2>8. a + 1 = 1
    BY <2>3
  <2>. QED
    BY <1>5, <2>3, <2>4, <2>6, <2>7, <2>8
<1>9. CASE found # <<>> /\ k = 2 * n + 1
  <2>1. n # 0
    BY <1>1, <1>9
  <2>2. Sample(k) = Succ(found[n][2])
    BY <1>1, <1>9, <2>1 DEF Sample
  <2>3. n \in DOMAIN found /\ a = n /\ a + 1 \notin DOMAIN found
    <3>. HIDE DEF a, n
    <3>. QED
      BY <1>1, <1>2, <1>9, <2>1
  <2>. DEFINE s == Succ(found[n][2])
  <2>4. s \in Numbers(asked) /\ At(s) \in Line(asked) /\ Before(At(found[n][2]), At(s))
    BY <1>3, <1>6, <2>3 DEF Numbers, SampleAssumption
  <2>5. R[n] = At(found[n][2]) \/ Before(R[n], At(found[n][2]))
    BY <2>3, FoundEnds
  <2>. HIDE DEF s
  <2>6. Before(R[n], At(s))
    BY <1>4, <1>6, <2>3, <2>4, <2>5
  <2>7. s = Sample(k)
    BY <2>2 DEF s
  <2>. QED
    BY <1>5, <2>3, <2>4, <2>6, <2>7
<1>10. CASE found # <<>> /\ k # 1 /\ k # 2 * n + 1
  <2>1. Sample(k) = Half(found[a][2], found[a + 1][1])
    BY <1>10 DEF Sample
  <2>2. a \in DOMAIN found /\ a + 1 \in DOMAIN found
    BY <1>1, <1>2, <1>10
  <2>3. /\ asked \in Searchable
        /\ Less(found[a][2], found[a + 1][1])
        /\ R[a] = At(found[a][2]) \/ Before(R[a], At(found[a][2]))
        /\ R[a + 1] = At(found[a + 1][1]) \/ Before(At(found[a + 1][1]), R[a + 1])
    BY <2>2, FoundEnds
  <2>. DEFINE l == found[a][2]
              m == found[a + 1][1]
              s == Half(l, m)
  <2>4. /\ l \in Grid(asked) /\ m \in Grid(asked) /\ Less(l, m)
        /\ At(l) \in Line(asked) /\ At(m) \in Line(asked)
    BY <1>6, <2>2, <2>3
  <2>5. s = Sample(k) /\ s \in Numbers(asked)
    BY <2>1, <2>4 DEF Numbers
  <2>6. /\ R[a] = At(l) \/ Before(R[a], At(l))
        /\ R[a + 1] = At(m) \/ Before(At(m), R[a + 1])
    BY <2>3
  <2>7. s = Half(l, m)
    OBVIOUS
  <2>. HIDE DEF l, m, s, a
  <2>8. \A r \in RootsOf(asked) : ~Between(r, l, m)
    <3>. SUFFICES ASSUME NEW r \in RootsOf(asked), Between(r, l, m)
                  PROVE  FALSE
      OBVIOUS
    <3>1. PICK i \in DOMAIN found : r = R[i]
      BY DEF RootsInOrder
    <3>2. r \in Line(asked) /\ Before(At(l), r) /\ Before(r, At(m))
      BY <1>1 DEF Between
    <3>3. Before(R[a], r) /\ Before(r, R[a + 1])
      BY <1>4, <2>2, <2>4, <2>6, <3>2
    <3>4. CASE i <= a
      BY <1>4, <2>2, <3>1, <3>2, <3>3, <3>4
    <3>5. CASE a + 1 <= i
      BY <1>4, <2>2, <3>1, <3>2, <3>3, <3>5
    <3>. QED
      BY <1>1, <2>2, <3>4, <3>5
  <2>9. At(s) \in Line(asked)
    <3>1. At(Half(l, m)) \in Line(asked)
      BY <1>3, <2>4, <2>8, Zenon DEF SampleAssumption
    <3>. QED
      BY <2>7, <3>1
  <2>10. Before(At(l), At(s)) /\ Before(At(s), At(m))
    <3>1. NumberAssumption(asked)
      BY <2>3, SearchableFacts
    <3>2. Between(At(s), l, m)
      BY <2>4, <2>7, <2>9, <3>1 DEF NumberAssumption
    <3>. QED
      BY <3>2 DEF Between
  <2>11. Before(R[a], At(s)) /\ Before(At(s), R[a + 1])
    BY <1>4, <2>2, <2>4, <2>6, <2>9, <2>10
  <2>. QED
    BY <1>5, <2>5, <2>9, <2>11
<1>. QED
  BY <1>7, <1>8, <1>9, <1>10

\* In an open interval around one root, a factor without that root has one sign.
LEMMA SignAround ==
    ASSUME Answered, NEW p \in Factors(asked), ~p_is_zero(p),
           NEW u \in Line(asked), NEW v \in Line(asked), NEW a, NEW b,
           At(a) \in Line(asked), At(b) \in Line(asked),
           Between(u, a, b), Between(v, a, b), ~\E r \in RootsOf(p) : Between(r, a, b)
    PROVE  SignOf(p, u) = SignOf(p, v)
<1>1. asked \in Inputs /\ RootsOf(asked) \subseteq Line(asked)
  BY DEF Answered
<1>2. /\ \A w, x \in Line(asked) : Before(w, x) /\ SignOf(p, w) # SignOf(p, x) =>
            \E r \in RootsOf(p) : (r = w \/ Before(w, r)) /\ (r = x \/ Before(r, x))
      /\ RootsOf(p) \subseteq RootsOf(asked)
  BY FactorFacts, Zenon DEF SignAssumption, FactorAssumption
<1>3. /\ \A w, x \in Line(asked) : w = x \/ Before(w, x) \/ Before(x, w)
      /\ \A w, x, y \in Line(asked) : Before(w, x) /\ Before(x, y) => Before(w, y)
  BY <1>1, LineOrder, Zenon
<1>4. ASSUME NEW w \in Line(asked), NEW x \in Line(asked), Between(w, a, b), Between(x, a, b),
             Before(w, x), SignOf(p, w) # SignOf(p, x)
      PROVE  FALSE
  <2>1. PICK r \in RootsOf(p) : (r = w \/ Before(w, r)) /\ (r = x \/ Before(r, x))
    BY <1>2, <1>4
  <2>2. r \in Line(asked)
    BY <1>1, <1>2
  <2>3. Between(r, a, b)
    BY <1>3, <1>4, <2>1, <2>2 DEF Between
  <2>. QED
    BY <2>3
<1>. QED
  BY <1>3, <1>4

\* The sign at a root of the product.
LEMMA SignAtRoot ==
    ASSUME Answered, NEW R, RootsInOrder(R), NEW p \in Factors(asked), ~p_is_zero(p),
           NEW k \in Cell, k % 2 = 0, ~Raises(p, k)
    PROVE  SignAtCell(p, k) = SignOf(p, R[k \div 2])
<1>. DEFINE i == k \div 2
            X == found[i]
            a == X[1]
            b == X[2]
            own == squarefree_part(p)
            inside == {v \in RootsOf(own) : Between(v, a, b)}
<1>1. i \in DOMAIN found
  BY CellNumbers
<1>2. /\ asked \in Searchable /\ X \in Intervals(asked) /\ HoldsOne(asked, X)
      /\ a \in Grid(asked) /\ b \in Grid(asked)
      /\ a = b \/ Less(a, b)
  BY <1>1, FoundEnds
<1>3. /\ R[i] \in RootsOf(asked) /\ R[i] \in Line(asked)
      /\ \A r \in RootsOf(asked) : Isolated(r, X) <=> r = R[i]
  BY <1>1, RootOrder DEF RootsInOrder
<1>4. At(a) \in Line(asked) /\ At(b) \in Line(asked)
  BY <1>2, NumberOrder
<1>5. /\ \A u \in Line(asked) : SignOf(p, u) = 0 <=> p_is_zero(p) \/ u \in RootsOf(p)
      /\ \A n \in Numbers(asked) : At(n) \in Line(asked) => sign_at(p, n) = SignOf(p, At(n))
      /\ RootsOf(p) \subseteq RootsOf(asked)
      /\ ~p_is_zero(p_deriv(own)) =>
            RootsOf(own) = RootsOf(p) /\ CountAssumption(own, sturm_sequence(own), Grid(asked))
  BY FactorFacts, Zenon DEF SignAssumption, FactorAssumption
<1>6. IsoOf(k) = X /\ IsPoint(k)
  BY DEF IsoOf, IsPoint
<1>7. CASE a = b
  <2>1. SignAtCell(p, k) = sign_at(p, a)
    BY <1>6, <1>7 DEF SignAtCell
  <2>2. R[i] = At(a)
    <3>1. X = <<a, a>>
      BY <1>2, <1>7 DEF Intervals
    <3>2. Isolated(R[i], X)
      BY <1>3
    <3>. HIDE DEF X, a, i
    <3>. QED
      BY <1>2, <1>3, <3>1, <3>2, IsolatedPoint
  <2>3. a \in Numbers(asked)
    BY <1>2 DEF Numbers
  <2>. QED
    BY <1>4, <1>5, <2>1, <2>2, <2>3
<1>8. CASE a # b
  <2>1. SignAtCell(p, k) = SignInside(p, a, b)
    BY <1>6, <1>8 DEF SignAtCell
  <2>2. RootsOf(own) = RootsOf(p) /\ CountAssumption(own, sturm_sequence(own), Grid(asked))
    BY <1>5, <1>6, <1>8 DEF Raises
  <2>3. Less(a, b) /\ Between(R[i], a, b)
    BY <1>2, <1>3, <1>8 DEF Isolated
  <2>4. \A r \in RootsOf(asked) : Between(r, a, b) => r = R[i]
    BY <1>3 DEF Isolated
  <2>5. count_roots_open(sturm_sequence(own), own, a, b) = Cardinality(inside)
    BY <1>2, <2>2, <2>3, Zenon DEF CountAssumption
  <2>6. inside = {v \in RootsOf(p) : Between(v, a, b)}
    BY <2>2
  <2>7. Cardinality(inside) \in Nat /\ (Cardinality(inside) = 0 <=> inside = {})
    <3>1. IsFiniteSet(RootsOf(asked))
      BY <1>2, SearchableFacts DEF RootAssumption
    <3>2. inside \in SUBSET RootsOf(asked)
      BY <1>5, <2>6
    <3>. HIDE DEF inside
    <3>3. IsFiniteSet(inside)
      BY <3>1, <3>2, FS_Subset, Zenon
    <3>. QED
      BY <3>3, FS_EmptySet, FS_CardinalityType, Zenon
  <2>8. SignInside(p, a, b) = IF Cardinality(inside) >= 1 THEN 0 ELSE sign_at(p, Half(a, b))
    BY <2>5 DEF SignInside
  <2>9. CASE inside # {}
    <3>1. PICK r \in RootsOf(p) : Between(r, a, b)
      BY <2>6, <2>9
    <3>2. R[i] \in RootsOf(p)
      BY <1>5, <2>4, <3>1
    <3>3. SignOf(p, R[i]) = 0
      BY <1>3, <1>5, <3>2
    <3>. HIDE DEF inside
    <3>. QED
      BY <2>1, <2>7, <2>8, <2>9, <3>3
  <2>10. CASE inside = {}
    <3>1. ~\E r \in RootsOf(p) : Between(r, a, b)
      BY <2>6, <2>10
    <3>2. SignAtCell(p, k) = sign_at(p, Half(a, b))
      <4>. HIDE DEF inside
      <4>. QED
        BY <2>1, <2>7, <2>8, <2>10
    <3>3. asked \in Inputs
      BY DEF Answered
    <3>4. At(Half(a, b)) \in Line(asked)
      <4>1. SampleAssumption(asked)
        BY <3>3, CellsAssumption
      <4>2. \A r, s \in RootsOf(asked) : Between(r, a, b) /\ Between(s, a, b) => r = s
        BY <2>4
      <4>. QED
        BY <1>2, <2>3, <4>1, <4>2, Zenon DEF SampleAssumption
    <3>5. Between(At(Half(a, b)), a, b)
      <4>1. NumberAssumption(asked)
        BY <1>2, SearchableFacts
      <4>. HIDE DEF a, b
      <4>. QED
        BY <1>2, <2>3, <3>4, <4>1 DEF NumberAssumption
    <3>6. Half(a, b) \in Numbers(asked)
      BY <1>2 DEF Numbers
    <3>7. sign_at(p, Half(a, b)) = SignOf(p, At(Half(a, b)))
      BY <1>5, <3>4, <3>6
    <3>8. SignOf(p, At(Half(a, b))) = SignOf(p, R[i])
      <4>. DEFINE h == At(Half(a, b))
      <4>1. h \in Line(asked) /\ Between(h, a, b)
        BY <3>4, <3>5
      <4>. HIDE DEF h, a, b, i
      <4>2. SignOf(p, h) = SignOf(p, R[i])
        BY <1>3, <1>4, <2>3, <3>1, <4>1, SignAround, Zenon
      <4>. QED
        BY <4>2 DEF h
    <3>. QED
      BY <3>2, <3>7, <3>8
  <2>. QED
    BY <2>9, <2>10
<1>. QED
  BY <1>7, <1>8

\* The sign computed on a cell is that at each of its points.
LEMMA SignInCell ==
    ASSUME Answered, NEW R, RootsInOrder(R), NEW p \in Factors(asked),
           NEW k \in Cell, NEW u \in Line(asked), InCell(u, k), ~Raises(p, k)
    PROVE  SignAtCell(p, k) = SignOf(p, u)
<1>1. /\ \A v \in Line(asked) : SignOf(p, v) = 0 <=> p_is_zero(p) \/ v \in RootsOf(p)
      /\ \A n \in Numbers(asked) : At(n) \in Line(asked) => sign_at(p, n) = SignOf(p, At(n))
  BY FactorFacts, Zenon DEF SignAssumption
<1>2. CASE p_is_zero(p)
  <2>1. SignAtCell(p, k) = 0
    BY <1>2 DEF SignAtCell
  <2>. QED
    BY <1>1, <1>2, <2>1
<1>3. CASE ~p_is_zero(p) /\ k % 2 = 0
  <2>1. u = R[k \div 2]
    BY <1>3, CellPoints
  <2>. QED
    BY <1>3, <2>1, SignAtRoot
<1>4. CASE ~p_is_zero(p) /\ k % 2 # 0
  <2>1. SignAtCell(p, k) = sign_at(p, Sample(k))
    BY <1>4 DEF SignAtCell, IsPoint
  <2>2. /\ Sample(k) \in Numbers(asked)
        /\ At(Sample(k)) \in Line(asked) /\ InCell(At(Sample(k)), k)
    BY <1>4, SampleInCell
  <2>3. SignOf(p, At(Sample(k))) = SignOf(p, u)
    BY <1>4, <2>2, SameSign
  <2>. QED
    BY <1>1, <2>1, <2>2, <2>3
<1>. QED
  BY <1>2, <1>3, <1>4

LEMMA InvSigns == IsolationInv => SignsHold
<1>. SUFFICES ASSUME IsolationInv, phase = "done", NEW u \in Line(asked)
              PROVE  \E k \in Cell :
                        /\ \A j \in Cell : InCell(u, j) <=> j = k
                        /\ \A p \in Factors(asked) :
                              Raises(p, k) \/ SignAtCell(p, k) = SignOf(p, u)
  BY DEF SignsHold
<1>1. Answered
  BY DoneIsAnswered
<1>2. PICK R : RootsInOrder(R)
  BY <1>1, RootsAscend
<1>3. PICK k \in Cell : InCell(u, k)
  BY <1>1, <1>2, CellsCover
<1>4. ASSUME NEW j \in Cell, InCell(u, j)
      PROVE  j = k
  <2>1. j \in Int /\ k \in Int
    BY <1>1 DEF Cell, Answered
  <2>2. ~(j < k) /\ ~(k < j)
    BY <1>1, <1>2, <1>3, <1>4, CellsDisjoint
  <2>. QED
    BY <2>1, <2>2
<1>5. \A p \in Factors(asked) : Raises(p, k) \/ SignAtCell(p, k) = SignOf(p, u)
  BY <1>1, <1>2, <1>3, SignInCell
<1>. QED
  BY <1>3, <1>4, <1>5

\* The cells of CellPartition cover the line without overlap, and sign_at_cell
\* gives the sign that a factor has on all of a cell, unless it divides by the
\* derivative of a constant.
THEOREM SignsHoldOnCells == IsolationSpec => []SignsHold
  BY IsolationIsInductive, InvSigns, PTL

-----------------------------------------------------------------------------
(* The components of a set of cells. *)

\* The roots around a point, and its cell.
LEMMA CellAndRoots ==
    ASSUME Answered, NEW R, RootsInOrder(R), NEW u \in Line(asked),
           NEW k \in Cell, InCell(u, k), NEW i \in DOMAIN found
    PROVE  /\ Before(R[i], u) <=> 2 * i < k
           /\ u = R[i] <=> k = 2 * i
           /\ Before(u, R[i]) <=> k < 2 * i
<1>. DEFINE a == k \div 2
<1>1. Len(found) \in Nat /\ DOMAIN found = 1 .. Len(found)
  BY DEF Answered
<1>2. /\ \A l \in DOMAIN found : R[l] \in Line(asked)
      /\ \A l, m \in DOMAIN found : l < m => Before(R[l], R[m])
      /\ \A l, m \in DOMAIN found, v \in Line(asked) :
            l <= m => /\ Before(v, R[l]) => Before(v, R[m])
                      /\ Before(R[m], v) => Before(R[l], v)
      /\ \A l \in DOMAIN found, v \in Line(asked) : Before(v, R[l]) => ~Before(R[l], v)
      /\ \A v \in Line(asked) : ~Before(v, v)
  BY RootOrder
<1>3. CASE k % 2 = 0
  <2>1. a \in DOMAIN found /\ k = 2 * a
    BY <1>3, CellNumbers
  <2>2. u = R[a]
    BY <1>3, CellPoints
  <2>. HIDE DEF a
  <2>3. CASE i < a
    BY <1>1, <1>2, <2>1, <2>2, <2>3
  <2>4. CASE i = a
    BY <1>1, <1>2, <2>1, <2>2, <2>4
  <2>5. CASE a < i
    BY <1>1, <1>2, <2>1, <2>2, <2>5
  <2>. QED
    BY <1>1, <2>1, <2>3, <2>4, <2>5
<1>4. CASE k % 2 # 0
  <2>1. a \in 0 .. Len(found) /\ k = 2 * a + 1
    BY <1>4, CellNumbers
  <2>2. /\ a \in DOMAIN found => Before(R[a], u)
        /\ a + 1 \in DOMAIN found => Before(u, R[a + 1])
    BY <1>4, CellPoints
  <2>. HIDE DEF a
  <2>3. CASE i <= a
    <3>1. a \in DOMAIN found
      BY <1>1, <2>1, <2>3
    <3>2. Before(R[i], u)
      BY <1>2, <2>2, <2>3, <3>1
    <3>3. ~Before(u, R[i]) /\ u # R[i]
      BY <1>2, <3>2
    <3>. QED
      BY <1>1, <2>1, <2>3, <3>2, <3>3
  <2>4. CASE a + 1 <= i
    <3>1. a + 1 \in DOMAIN found
      BY <1>1, <2>1, <2>4
    <3>2. Before(u, R[i])
      BY <1>2, <2>2, <2>4, <3>1
    <3>3. ~Before(R[i], u) /\ u # R[i]
      BY <1>2, <3>2
    <3>. QED
      BY <1>1, <2>1, <2>4, <3>2, <3>3
  <2>. QED
    BY <1>1, <2>1, <2>3, <2>4
<1>. QED
  BY <1>3, <1>4

Within(u, run) ==
    /\ AboveLow(u, Component(run[1], run[2]))
    /\ BelowHigh(u, Component(run[1], run[2]))

\* A point is within the ends of a component if its cell is one of it.
LEMMA WithinEnds ==
    ASSUME Answered, NEW R, RootsInOrder(R), NEW u \in Line(asked),
           NEW k \in Cell, InCell(u, k), NEW first \in Cell, NEW last \in Cell,
           NEW run, run = <<first, last>>
    PROVE  Within(u, run) <=> first <= k /\ k <= last
<1>. DEFINE c == Component(first, last)
            n == Len(found)
<1>1. n \in Nat /\ DOMAIN found = 1 .. n /\ Cell = 1 .. 2 * n + 1
  BY DEF Answered, Cell
<1>2. /\ c.lo = IF first = 1 THEN <<>> ELSE found[first \div 2]
      /\ c.hi = IF last = 2 * n + 1 THEN <<>> ELSE found[(last + 1) \div 2]
      /\ c.loClosed = (first % 2 = 0) /\ c.hiClosed = (last % 2 = 0)
  BY DEF Component, IsPoint
<1>3. \A i \in DOMAIN found : found[i] # <<>>
  BY FoundEnds DEF Intervals
<1>4. \A i \in DOMAIN found, r \in RootsOf(asked) : Isolated(r, found[i]) <=> r = R[i]
  BY DEF RootsInOrder
<1>5. \A i \in DOMAIN found : R[i] \in RootsOf(asked)
  BY RootOrder
<1>6. \A i \in DOMAIN found : /\ Before(R[i], u) <=> 2 * i < k
                              /\ u = R[i] <=> k = 2 * i
                              /\ Before(u, R[i]) <=> k < 2 * i
  BY CellAndRoots
<1>7. AboveLow(u, c) <=> first <= k
  <2>1. CASE first = 1
    BY <1>1, <1>2, <2>1 DEF AboveLow
  <2>2. CASE first # 1
    <3>. DEFINE i == first \div 2
    <3>1. i \in DOMAIN found /\ c.lo = found[i] /\ c.lo # <<>>
      BY <1>1, <1>2, <1>3, <2>2
    <3>2. AboveLow(u, c) <=> Before(R[i], u) \/ (first % 2 = 0 /\ R[i] = u)
      BY <1>2, <1>4, <1>5, <3>1 DEF AboveLow
    <3>3. (first % 2 = 0 /\ first = 2 * i) \/ (first % 2 # 0 /\ first = 2 * i + 1)
      BY <1>1
    <3>. HIDE DEF i
    <3>. QED
      BY <1>1, <1>6, <3>1, <3>2, <3>3
  <2>. QED
    BY <2>1, <2>2
<1>8. BelowHigh(u, c) <=> k <= last
  <2>1. CASE last = 2 * n + 1
    BY <1>1, <1>2, <2>1 DEF BelowHigh
  <2>2. CASE last # 2 * n + 1
    <3>. DEFINE i == (last + 1) \div 2
    <3>1. i \in DOMAIN found /\ c.hi = found[i] /\ c.hi # <<>>
      BY <1>1, <1>2, <1>3, <2>2
    <3>2. BelowHigh(u, c) <=> Before(u, R[i]) \/ (last % 2 = 0 /\ R[i] = u)
      BY <1>2, <1>4, <1>5, <3>1 DEF BelowHigh
    <3>3. (last % 2 = 0 /\ last = 2 * i) \/ (last % 2 # 0 /\ last + 1 = 2 * i)
      BY <1>1
    <3>. HIDE DEF i
    <3>. QED
      BY <1>1, <1>6, <3>1, <3>2, <3>3
  <2>. QED
    BY <2>1, <2>2
<1>9. run[1] = first /\ run[2] = last
  OBVIOUS
<1>. QED
  BY <1>7, <1>8, <1>9 DEF Within

\* The runs of a set of cells: each of its cells is in one, and only cells of
\* the set are.
LEMMA RunsPartition ==
    ASSUME NEW n \in Nat, NEW D, D \subseteq 1 .. n
    PROVE  /\ \A run \in Runs(D) :
                 /\ run = <<run[1], run[2]>> /\ run[1] \in D /\ run[2] \in D
                 /\ run[1] <= run[2] /\ run[1] .. run[2] \subseteq D
                 /\ run[1] - 1 \notin D /\ run[2] + 1 \notin D
           /\ \A k \in D : \E run \in Runs(D) : run[1] <= k /\ k <= run[2]
           /\ \A k \in D, run, other \in Runs(D) :
                 run[1] <= k /\ k <= run[2] /\ other[1] <= k /\ k <= other[2] => run = other
<1>1. ASSUME NEW run \in Runs(D)
      PROVE  /\ run = <<run[1], run[2]>> /\ run[1] \in D /\ run[2] \in D
             /\ run[1] <= run[2] /\ run[1] .. run[2] \subseteq D
             /\ run[1] - 1 \notin D /\ run[2] + 1 \notin D
  BY DEF Runs
<1>2. ASSUME NEW k \in D
      PROVE  \E run \in Runs(D) : run[1] <= k /\ k <= run[2]
  <2>. DEFINE below == {m \in 1 .. k : m \notin D}
              onwards == {m \in k .. n : k .. m \subseteq D}
  <2>1. k \in 1 .. n
    OBVIOUS
  <2>2. PICK first \in D : first <= k /\ first .. k \subseteq D /\ first - 1 \notin D
    <3>1. CASE below = {}
      <4>1. \A m \in 1 .. k : m \in D
        BY <3>1
      <4>2. 1 \in D /\ 1 <= k /\ 1 .. k \subseteq D
        BY <2>1, <4>1
      <4>3. 0 \notin D
        OBVIOUS
      <4>. QED
        BY <4>2, <4>3
    <3>2. CASE below # {}
      <4>1. PICK s \in below : TRUE
        BY <3>2
      <4>2. below \subseteq 1 .. k /\ k \in Nat
        BY <2>1
      <4>. HIDE DEF below
      <4>3. PICK m \in below : \A l \in below : l <= m
        BY <4>1, <4>2, LastExists, Zenon
      <4>4. m \in 1 .. k /\ m \notin D /\ \A l \in 1 .. k : l \notin D => l <= m
        BY <4>3 DEF below
      <4>5. m + 1 \in 1 .. k /\ m + 1 <= k /\ m + 1 - 1 = m
        BY <2>1, <4>4
      <4>6. m + 1 .. k \subseteq D
        BY <2>1, <4>4
      <4>7. m + 1 \in D
        BY <2>1, <4>5, <4>6
      <4>. QED
        BY <4>4, <4>5, <4>6, <4>7
    <3>. QED
      BY <3>1, <3>2
  <2>3. PICK last \in D : k <= last /\ k .. last \subseteq D /\ last + 1 \notin D
    <3>1. k \in onwards /\ onwards \subseteq 1 .. n
      BY <2>1
    <3>2. \A m : m \in onwards <=> m \in k .. n /\ k .. m \subseteq D
      OBVIOUS
    <3>. HIDE DEF onwards
    <3>3. PICK m \in onwards : \A l \in onwards : l <= m
      BY <3>1, LastExists, Zenon
    <3>4. m \in k .. n /\ k .. m \subseteq D /\ m \in D
      BY <2>1, <3>2, <3>3
    <3>5. m + 1 \notin onwards
      BY <3>3, <3>4
    <3>6. m + 1 \notin D
      <4>. SUFFICES ASSUME m + 1 \in D
                    PROVE  FALSE
        OBVIOUS
      <4>1. k .. m + 1 \subseteq D
        BY <2>1, <3>4
      <4>2. m + 1 \in k .. n
        BY <2>1, <3>4
      <4>. QED
        BY <3>2, <3>5, <4>1, <4>2
    <3>. QED
      BY <3>4, <3>6
  <2>4. first .. last \subseteq D
    BY <2>1, <2>2, <2>3
  <2>5. first <= last
    BY <2>1, <2>2, <2>3
  <2>6. <<first, last>> \in Runs(D)
    BY <2>2, <2>3, <2>4, <2>5 DEF Runs
  <2>. QED
    BY <2>2, <2>3, <2>6
<1>3. ASSUME NEW k \in D, NEW run \in Runs(D), NEW other \in Runs(D),
             run[1] <= k, k <= run[2], other[1] <= k, k <= other[2]
      PROVE  ~(run[1] < other[1]) /\ ~(run[2] < other[2])
  <2>1. /\ run[1] \in Int /\ run[2] \in Int /\ other[1] \in Int /\ other[2] \in Int /\ k \in Int
        /\ run[1] .. run[2] \subseteq D /\ other[1] - 1 \notin D
        /\ run[2] + 1 \notin D /\ other[1] .. other[2] \subseteq D
    BY <1>1
  <2>2. ~(run[1] < other[1])
    <3>. SUFFICES ASSUME run[1] < other[1]
                  PROVE  FALSE
      OBVIOUS
    <3>1. other[1] - 1 \in run[1] .. run[2]
      BY <1>3, <2>1
    <3>. QED
      BY <2>1, <3>1
  <2>3. ~(run[2] < other[2])
    <3>. SUFFICES ASSUME run[2] < other[2]
                  PROVE  FALSE
      OBVIOUS
    <3>1. run[2] + 1 \in other[1] .. other[2]
      BY <1>3, <2>1
    <3>. QED
      BY <2>1, <3>1
  <2>. QED
    BY <2>2, <2>3
<1>4. ASSUME NEW k \in D, NEW run \in Runs(D), NEW other \in Runs(D),
             run[1] <= k, k <= run[2], other[1] <= k, k <= other[2]
      PROVE  run = other
  <2>1. ~(run[1] < other[1]) /\ ~(run[2] < other[2])
    BY <1>3, <1>4
  <2>2. ~(other[1] < run[1]) /\ ~(other[2] < run[2])
    BY <1>3, <1>4
  <2>3. run[1] \in Int /\ run[2] \in Int /\ other[1] \in Int /\ other[2] \in Int
    BY <1>1
  <2>4. run[1] = other[1] /\ run[2] = other[2]
    BY <2>1, <2>2, <2>3
  <2>5. run = <<run[1], run[2]>> /\ other = <<other[1], other[2]>>
    BY <1>1
  <2>. QED
    BY <2>4, <2>5
<1>. QED
  BY <1>1, <1>2, <1>4

\* For any set of cells, the points of these cells are each within the ends of
\* exactly one component, other points in none, and two points are in the same
\* component exactly if all cells from the one's to the other's are in the set.
ComponentsConnect ==
    phase = "done" =>
        \A D \in SUBSET Cell, u, v \in Line(asked), j, k \in Cell :
            InCell(u, j) /\ InCell(v, k) =>
                /\ j \in D <=> \E run \in Runs(D) : Within(u, run)
                /\ \A run, other \in Runs(D) : Within(u, run) /\ Within(u, other) => run = other
                /\ j <= k => \A run \in Runs(D) :
                                Within(u, run) => (Within(v, run) <=> j .. k \subseteq D)

LEMMA InvConnects == IsolationInv => ComponentsConnect
<1>. SUFFICES ASSUME IsolationInv, phase = "done", NEW D \in SUBSET Cell,
                     NEW u \in Line(asked), NEW v \in Line(asked),
                     NEW j \in Cell, NEW k \in Cell, InCell(u, j), InCell(v, k)
              PROVE  /\ j \in D <=> \E run \in Runs(D) : Within(u, run)
                     /\ \A run, other \in Runs(D) :
                           Within(u, run) /\ Within(u, other) => run = other
                     /\ j <= k => \A run \in Runs(D) :
                                     Within(u, run) => (Within(v, run) <=> j .. k \subseteq D)
  BY DEF ComponentsConnect
<1>1. Answered
  BY DoneIsAnswered
<1>2. PICK R : RootsInOrder(R)
  BY <1>1, RootsAscend
<1>3. PICK n \in Nat : n = 2 * Len(found) + 1
  BY <1>1 DEF Answered
<1>4. D \subseteq 1 .. n /\ Cell = 1 .. n
  BY <1>3 DEF Cell
<1>5. /\ \A run \in Runs(D) :
            /\ run = <<run[1], run[2]>> /\ run[1] \in D /\ run[2] \in D
            /\ run[1] <= run[2] /\ run[1] .. run[2] \subseteq D
            /\ run[1] - 1 \notin D /\ run[2] + 1 \notin D
      /\ \A m \in D : \E run \in Runs(D) : run[1] <= m /\ m <= run[2]
      /\ \A m \in D, run, other \in Runs(D) :
            run[1] <= m /\ m <= run[2] /\ other[1] <= m /\ m <= other[2] => run = other
  BY <1>3, <1>4, RunsPartition
<1>6. ASSUME NEW run \in Runs(D)
      PROVE  /\ Within(u, run) <=> run[1] <= j /\ j <= run[2]
             /\ Within(v, run) <=> run[1] <= k /\ k <= run[2]
  <2>1. PICK first \in Cell, last \in Cell : run = <<first, last>>
    BY <1>5
  <2>2. run[1] = first /\ run[2] = last
    BY <2>1
  <2>. QED
    BY <1>1, <1>2, <2>1, <2>2, WithinEnds
<1>7. \A run \in Runs(D) : Within(u, run) => j \in D
  <2>. SUFFICES ASSUME NEW run \in Runs(D), Within(u, run)
                PROVE  j \in D
    OBVIOUS
  <2>1. run[1] <= j /\ j <= run[2] /\ run[1] .. run[2] \subseteq D
        /\ run[1] \in Int /\ run[2] \in Int
    BY <1>4, <1>5, <1>6
  <2>. QED
    BY <1>4, <2>1
<1>8. j \in D <=> \E run \in Runs(D) : Within(u, run)
  BY <1>5, <1>6, <1>7
<1>9. \A run, other \in Runs(D) : Within(u, run) /\ Within(u, other) => run = other
  BY <1>5, <1>6, <1>7
<1>10. ASSUME j <= k, NEW run \in Runs(D), Within(u, run)
       PROVE  Within(v, run) <=> j .. k \subseteq D
  <2>1. /\ run[1] <= j /\ j <= run[2] /\ run[1] .. run[2] \subseteq D /\ run[2] + 1 \notin D
        /\ run[1] \in Int /\ run[2] \in Int /\ j \in Int /\ k \in Int
    BY <1>4, <1>5, <1>6, <1>10
  <2>2. ASSUME k <= run[2]
        PROVE  j .. k \subseteq D
    BY <2>1, <2>2
  <2>3. ASSUME ~(k <= run[2]), j .. k \subseteq D
        PROVE  FALSE
    <3>1. run[2] + 1 \in j .. k
      BY <2>1, <2>3
    <3>. QED
      BY <2>1, <2>3, <3>1
  <2>4. Within(v, run) <=> k <= run[2]
    BY <1>6, <1>10, <2>1
  <2>. QED
    BY <2>2, <2>3, <2>4
<1>. QED
  BY <1>8, <1>9, <1>10

\* connected_components: whatever the cells are on which a value is defined,
\* the components it makes are the connected parts of the domain.
THEOREM ComponentsAreMaximalRuns == IsolationSpec => []ComponentsConnect
  BY IsolationIsInductive, InvConnects, PTL
===============================================================================
