------------------------------ MODULE MCSession ------------------------------
(***************************************************************************)
(* A conversation over four atoms: r (what the user claims), p (the         *)
(* condition of a case split), q (a conclusion drawn from r, or from r and  *)
(* q) and g (what drawing it from r needs), in the worlds where p implies   *)
(* g, and r and g imply q.                                                  *)
(***************************************************************************)
EXTENDS Session

p == Atom("p")
g == Atom("g")
q == Atom("q")
r == Atom("r")

MCProp == {p, Not(p), g, q, r, Or(p, Not(p)), Implies(p, g), Implies(Not(p), g)}

\* A world is the set of the atoms true in it.
MCWorld ==
    {w \in SUBSET {"p", "g", "q", "r"} :
        /\ "p" \in w => "g" \in w
        /\ {"r", "g"} \subseteq w => "q" \in w}

Holding(name) == {w \in MCWorld : name \in w}

MCTruth ==
    [t \in MCProp |->
        CASE t = p          -> Holding("p")
          [] t = Not(p)     -> MCWorld \ Holding("p")
          [] t = g          -> Holding("g")
          [] t = q          -> Holding("q")
          [] t = r          -> Holding("r")
          [] t.head = "Or"  -> MCWorld
          [] t = Implies(p, g) -> (MCWorld \ Holding("p")) \cup Holding("g")
          [] OTHER          -> Holding("p") \cup Holding("g")]

MCFreeVars == [t \in MCProp |-> {}]

\* r |- q [g], and r, q |- q.
MCRule ==
    {[premises |-> <<r>>, conclusion |-> q, direct |-> <<g>>, request |-> "Solve"],
     [premises |-> <<r, q>>, conclusion |-> q, direct |-> <<>>, request |-> ""]}

\* An equation with two solutions.
MCPoints ==
    LET point == CHOOSE rule \in MCRule : rule.request = "Solve"
    IN  {<<point, point>>}

MCDomCondition == [t \in MCProp |-> <<>>]

\* A procedure that knows the assumptions, their negations and that p implies g.
MCDecide(assumed, t) ==
    IF t \in assumed \/ t = Implies(p, g) \/ (t = g /\ p \in assumed) THEN "yes"
    ELSE IF \E a \in assumed : Negates(a, t) THEN "no"
    ELSE "unknown"

MCEquations == {r, q}
MCClaimable == {r}
MCSplittable == {p}
MCNone == {}
MCBody == {{}}
MCCommand ==
    {"Step", "Claim", "Split", "Enter", "MergeBranches", "Declare", "Define", "AddConstraint"}
MCRef ==
    [kind: {"artifact", "task", "judgment", "branch", "scope", "constraint"},
     id: 1..(MaxEvents + MaxScopes + MaxJudgments)]
MCPointer == 1..MaxScopes
===============================================================================
