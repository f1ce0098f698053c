--------------------------- MODULE MCDecisionCache ---------------------------
(***************************************************************************)
(* The same said of x and of a symbol u that may be defined, decided by    *)
(* looking through the worlds: with u defined, what is said of u is what   *)
(* is said of its body.                                                    *)
(***************************************************************************)
EXTENDS DecisionCache

MCSym == {"u", "x"}
P == Atom("p")      \* of x
U == Atom("u")      \* the same of u
MCProp == {P, U}
MCFreeVars == [q \in MCProp |-> IF q = P THEN {"x"} ELSE {"u"}]

\* A world says which of the atoms hold.
MCWorld == SUBSET {"p", "u"}
MCTruth ==
    [q \in MCProp |-> {w \in MCWorld : q.head \in w}]

\* Defined by x, u is what x is; the number it may be defined by does not do.
Expanded(definitions) ==
    {w \in MCWorld :
        "u" \in DOMAIN definitions =>
            IF definitions["u"] = {"x"} THEN "u" \in w <=> "p" \in w ELSE "u" \notin w}

MCJudge(assumed, definitions, q) ==
    LET worlds == {w \in Expanded(definitions) : \A a \in assumed : w \in MCTruth[a]}
    IN  IF worlds \subseteq MCTruth[q] THEN "yes"
        ELSE IF worlds \cap MCTruth[q] = {} THEN "no" ELSE "unknown"

Defining(body, assumed) == Entries({}, [y \in {"u"} |-> body], assumed)

MCAdded == {Entries({}, NoDefinition, {P}), Defining({}, {}), Defining({"x"}, {P})}
===============================================================================
