----------------------------- MODULE Propositions -----------------------------
(***************************************************************************)
(* The terms the kernel looks inside: a head and its arguments             *)
(* (cas/syntax/term.py Expr). Everything but the three connectives is an   *)
(* atom here; what an atom says is given by the worlds it is true in.      *)
(***************************************************************************)
EXTENDS Naturals, Sequences, FiniteSets

CONSTANTS
    Sym,        \* symbols
    Prop,       \* the propositions that may be submitted or assumed
    FreeVars,   \* proposition -> the symbols occurring free in it
    World,      \* the valuations of the symbols
    Truth       \* proposition -> the worlds it is true in

Atom(name) == [head |-> name, args |-> <<>>]
Not(p) == [head |-> "Not", args |-> <<p>>]
Or(p, q) == [head |-> "Or", args |-> <<p, q>>]
Implies(p, q) == [head |-> "Implies", args |-> <<p, q>>]

\* The literal TRUE.
True == Atom("True")

ASSUME PropositionsAssumption ==
    /\ FreeVars \in [Prop -> SUBSET Sym]
    /\ Truth \in [Prop -> SUBSET World]

\* The literal and the connectives mean what they say, and the parts of a proposition are
\* propositions.
ASSUME ConnectiveAssumption ==
    \A p \in Prop :
        /\ DOMAIN p.args = 1..Len(p.args)
        /\ \A i \in DOMAIN p.args : p.args[i] \in Prop
        /\ p = True => Truth[p] = World
        /\ p.head = "Not" => Truth[p] = World \ Truth[p.args[1]]
        /\ p.head = "Or" => Truth[p] = UNION {Truth[p.args[i]] : i \in DOMAIN p.args}
        /\ p.head = "Implies" => Truth[p] = (World \ Truth[p.args[1]]) \cup Truth[p.args[2]]

\* negation_arg compares terms by identity: p is the operand of the syntactic
\* negation q, or q the operand of p.
Negates(p, q) == p = Not(q) \/ q = Not(p)

\* _is_tautology: the literal, or a disjunction with a complementary pair among
\* its disjuncts.
IsTautology(p) ==
    \/ p = True
    \/ /\ p.head = "Or"
       /\ \E i, j \in DOMAIN p.args : p.args[i] = Not(p.args[j])
===============================================================================
