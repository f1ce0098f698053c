------------------------------ MODULE MCWorkflow ------------------------------
(***************************************************************************)
(* The workflow over four atoms: r (what the user claims), p (the condition *)
(* of a case split), q (a conclusion drawn from r) and g (what that rule    *)
(* needs), in the worlds where p implies g, and r and g imply q: the guard  *)
(* is met in one branch and stays open in the other.                       *)
(***************************************************************************)
EXTENDS Workflow

p == Atom("p")
g == Atom("g")
q == Atom("q")
r == Atom("r")

MCProp == {p, Not(p), g, q, r, Or(p, Not(p)), Implies(p, g), Implies(Not(p), g)}

\* A world is the set of the atoms true in it.
MCWorld ==
    {w \in SUBSET {"p", "g", "q", "r"} :
        /\ "p" \in w => "g" \in w
        /\ {"r", "g"} \subseteq w => "q" \in w}

Holding(name) == {w \in MCWorld : name \in w}

MCTruth ==
    [t \in MCProp |->
        CASE t = p          -> Holding("p")
          [] t = Not(p)     -> MCWorld \ Holding("p")
          [] t = g          -> Holding("g")
          [] t = q          -> Holding("q")
          [] t = r          -> Holding("r")
          [] t.head = "Or"  -> MCWorld
          [] t = Implies(p, g) -> (MCWorld \ Holding("p")) \cup Holding("g")
          [] OTHER          -> Holding("p") \cup Holding("g")]

\* Claim and conclusion mention x, the condition of the split y.
MCFreeVars ==
    [t \in MCProp |-> IF t \in {q, r} THEN Sym \cap {"x"}
                      ELSE IF t \in {p, Not(p)} THEN Sym \cap {"y"} ELSE {}]

\* r |- q [g], a rewrite of the claim.
MCRule ==
    {[premises |-> <<r>>, conclusion |-> q, direct |-> <<g>>, request |-> "Simplify"]}

MCDomCondition == [t \in MCProp |-> <<>>]

\* A procedure that knows the assumptions, their negations and that p implies g.
MCDecide(assumed, t) ==
    IF t \in assumed \/ t = Implies(p, g) \/ (t = g /\ p \in assumed) THEN "yes"
    ELSE IF \E a \in assumed : Negates(a, t) THEN "no"
    ELSE "unknown"

MCClaimable == {r}
MCSplittable == {p}
MCNone == {}
MCBody == {{}, {"x"}, {"y"}}
MCRelation == {"relation"}

MCCommand ==
    {"Step", "Claim", "Split", "Enter", "MergeBranches", "Declare", "Define", "AddConstraint"}

MCRef ==
    [kind: {"artifact", "task", "judgment", "branch", "scope", "constraint"},
     id: 1..(MaxEvents + MaxScopes + MaxJudgments)]

MCPointer == 1..MaxScopes
===============================================================================
