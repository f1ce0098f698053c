---------------------------- MODULE MCKernelLedger ----------------------------
(***************************************************************************)
(* The kernel over three atoms: p (a branch condition), q (a conclusion)   *)
(* and g (what q needs to make sense), in the worlds where p and g imply q *)
(* and q implies g. Only g speaks of the local symbol: once a fork has     *)
(* introduced it, a context that assumes g may still conclude q under it,  *)
(* but not g itself.                                                       *)
(***************************************************************************)
EXTENDS KernelLedger

p == Atom("p")
g == Atom("g")
q == Atom("q")

MCProp == {p, Not(p), g, Not(g), q, Or(p, Not(p)), True}

\* g, the condition of q, mentions the local symbol.
MCFreeVars == [t \in MCProp |-> IF t \in {g, Not(g)} THEN {"x"} ELSE {}]

\* A world is the set of the atoms true in it.
MCWorld ==
    {w \in SUBSET {"p", "g", "q"} :
        /\ {"p", "g"} \subseteq w => "q" \in w
        /\ "q" \in w => "g" \in w}

Holding(name) == {w \in MCWorld : name \in w}

MCTruth ==
    [t \in MCProp |->
        CASE t = p      -> Holding("p")
          [] t = Not(p) -> MCWorld \ Holding("p")
          [] t = g      -> Holding("g")
          [] t = Not(g) -> MCWorld \ Holding("g")
          [] t = q      -> Holding("q")
          [] OTHER      -> MCWorld]

\* p |- q [g]  and  q |- g.
MCRule ==
    {[premises |-> <<p>>, conclusion |-> q, direct |-> <<g>>],
     [premises |-> <<q>>, conclusion |-> g, direct |-> <<>>]}

MCDomCondition == [t \in MCProp |-> IF t = q THEN <<g>> ELSE <<>>]

MCAssumable == {p, Not(p), g}
MCClaimable == {q, Not(g)}

\* A procedure that only knows the assumptions and their negations.
MCDecide(assumed, t) ==
    IF t \in assumed THEN "yes"
    ELSE IF \E a \in assumed : Negates(a, t) THEN "no"
    ELSE "unknown"
===============================================================================
