------------------------------ MODULE Decisions ------------------------------
(***************************************************************************)
(* A caller of the decision layer: it assumes facts one after the other    *)
(* (extend_frame), asks for a verdict (decide), whether constraints can be *)
(* met together (satisfiable), or whether a value solves an equation       *)
(* (verify_solution of cas/math/judge.py).  The layer keeps nothing; the   *)
(* caller keeps the frame and the last answer.                             *)
(*                                                                         *)
(* frame   the facts assumed, oldest first                                 *)
(* answer  the last question, what it was about, and the verdict           *)
(***************************************************************************)
EXTENDS Decide

CONSTANTS
    Assumable,    \* facts the caller may assume
    Questions,    \* facts it may ask about
    Constraints,  \* sequences of constraints it may ask about together
    Candidates,   \* [equation, variable, value, guards] it may have verified
    MaxFacts,     \* bound: facts in a frame
    World         \* values of symbols and constants, in which facts are read

VARIABLES frame, answer

decisionVars == <<frame, answer>>

NoAnswer == [ask |-> "nothing"]

DecisionsInit ==
    /\ frame = <<>>
    /\ answer = NoAnswer

\* extend_frame: every fact read here has a domain, so none is refused, and a
\* contradictory frame is not refused by design.
ExtendFrame(f) ==
    /\ Len(frame) < MaxFacts
    /\ frame' = Append(frame, f)
    /\ answer' = NoAnswer

Ask(fact) ==
    /\ answer = NoAnswer
    /\ answer' = [ask |-> "decide", fact |-> fact, verdict |-> Decide(fact, frame)]
    /\ UNCHANGED frame

\* Every constraint is decided with the others assumed, and so is its
\* negation.  Constraints are found contradictory or not, never satisfiable.
Satisfiable(constraints) ==
    LET Others(i) == frame \o [j \in 1 .. Len(constraints) - 1 |->
                                constraints[IF j < i THEN j ELSE j + 1]]
        Refuted(i) == \/ Decide(constraints[i], Others(i)) = No
                      \/ Decide(Negate(constraints[i]), Others(i)) = Yes
    IN  IF constraints = <<>> THEN Yes
        ELSE IF \E i \in DOMAIN constraints : Refuted(i) THEN No
        ELSE Unknown

AskSatisfiable(constraints) ==
    /\ answer = NoAnswer
    /\ answer' = [ask |-> "satisfiable", constraints |-> constraints,
                  verdict |-> Satisfiable(constraints)]
    /\ UNCHANGED frame

\* is_zero of a term without conditional values: the frame is not consulted.
JudgeZero(t) ==
    LET z == ZeroOf(t) IN IF z = Nothing THEN Unknown ELSE z

\* Mutant: the first guard stands for all of them.
VerifySolution_FirstGuard(c) ==
    LET At(t) == Fold(Subst(t, c.variable, c.value))
        zero  == JudgeZero(Difference(Subst(Left(c.equation), c.variable, c.value),
                                      Subst(Right(c.equation), c.variable, c.value)))
    IN  IF c.guards = <<>> THEN zero
        ELSE And3(zero, Decide(At(c.guards[1]), frame))

\* verify_solution: the two sides at the value differ by nothing and every
\* guard is decided there; a refusal comes before an unknown.
VerifySolution(c) ==
    LET At(t) == Fold(Subst(t, c.variable, c.value))
        zero  == JudgeZero(Difference(Subst(Left(c.equation), c.variable, c.value),
                                      Subst(Right(c.equation), c.variable, c.value)))
    IN  FoldLeft(And3, zero,
            [i \in DOMAIN c.guards |-> Decide(At(c.guards[i]), frame)])

Verify(c) ==
    /\ answer = NoAnswer
    /\ answer' = [ask |-> "verify", candidate |-> c, verdict |-> VerifySolution(c)]
    /\ UNCHANGED frame

DecisionsNext ==
    \/ \E f \in Assumable : ExtendFrame(f)
    \/ \E f \in Questions : Ask(f)
    \/ \E s \in Constraints : AskSatisfiable(s)
    \/ \E c \in Candidates : Verify(c)

DecisionsSpec == DecisionsInit /\ [][DecisionsNext]_decisionVars

-------------------------------------------------------------------------------
(* What facts mean.                                                        *)

RECURSIVE Holds(_, _)
Holds(f, w) ==
    CASE Kind(f) \in Comparisons ->
            LET p == Value(Left(f), w)
                q == Value(Right(f), w)
            IN  Compares(Kind(f), p[1] * q[2], q[1] * p[2])
      [] Kind(f) = "And" -> \A i \in DOMAIN Args(f) : Holds(Args(f)[i], w)
      [] Kind(f) = "Or"  -> \E i \in DOMAIN Args(f) : Holds(Args(f)[i], w)
      [] Kind(f) = "Not" -> ~Holds(Args(f)[1], w)
      [] Kind(f) = "Attr" ->
            LET v == Value(Args(f)[1], w) IN v[1] % v[2] = 0

\* The worlds the frame allows.  A fact about a constant that is not real
\* says nothing about an ordered world.
Allowed ==
    {w \in World : \A i \in DOMAIN frame :
        NonRealIn(frame[i]) \/ Holds(frame[i], w)}

\* Whether the last verdict is right about f in every one of the worlds.
RightAbout(f, worlds) ==
    /\ answer.verdict = Yes => \A w \in worlds : Holds(f, w)
    /\ answer.verdict = No => \A w \in worlds : ~Holds(f, w)

\* A fact answered yes holds in every world the frame allows, and one
\* answered no in none of them.
AnswersHold == answer.ask = "decide" => RightAbout(answer.fact, Allowed)

\* The worlds in which the code's answers are known not to hold: something
\* assumed to be at most zero, which counts as below zero, is zero there, or a
\* sum is equal to the bound assumed of it, which takes over the strictness
\* of its terms' bounds.
OnItsBound(f, w) ==
    /\ ~NonRealIn(f)
    /\ \/ Kind(f) = "Le" /\ Right(f) = Zero
       \/ /\ Kind(f) \in {"Le", "Ge", "Eq"}
          /\ "Plus" \in {Kind(Left(f)), Kind(Right(f))}
    /\ Holds(Mk("Eq", Args(f)), w)

Elsewhere(facts) == {w \in Allowed : \A i \in DOMAIN facts : ~OnItsBound(facts[i], w)}

\* What an answer may be right about instead of f: a product compared for
\* equality is taken as compared with zero, whatever the other side (the run
\* zero_product shows one such answer).
RECURSIVE AsRead(_)
AsRead(f) ==
    CASE Kind(f) \in {"Eq", "Ne"} /\ Kind(Left(f)) = "Times" -> Mk(Kind(f), <<Left(f), Zero>>)
      [] Kind(f) \in {"And", "Or", "Not"} ->
            Mk(Kind(f), [i \in DOMAIN Args(f) |-> AsRead(Args(f)[i])])
      [] OTHER -> f

\* No channel is missing an answer at the end: what the caller sees is one of
\* the three-valued verdicts, never the internal "nothing".  Off those bounds
\* the answer is right about the fact, or about the fact as read, whatever the
\* mixture of bounds, chains, equations and sign rules that led to it.
AnswersHoldElsewhere ==
    answer.ask = "decide" =>
        /\ answer.verdict \in Verdict
        /\ \E f \in {answer.fact, AsRead(answer.fact)} : RightAbout(f, Elsewhere(frame))

\* A set of constraints is called contradictory only if no world the frame
\* allows meets all of them.  Each constraint is an assumption to the others,
\* so worlds on a bound of theirs are left out as well.
RefusalsHold ==
    answer.ask = "satisfiable" /\ answer.verdict = No =>
        \A w \in Elsewhere(frame \o answer.constraints) :
            \E i \in DOMAIN answer.constraints : ~Holds(answer.constraints[i], w)

\* A value is confirmed as a solution only if it makes the equation and every
\* guard true in every world the frame allows.
VerifiedSolves ==
    answer.ask = "verify" /\ answer.verdict = Yes
        => LET c == answer.candidate
               At(t) == Subst(t, c.variable, c.value)
           IN  \A w \in Allowed :
                   /\ Holds(At(c.equation), w)
                   /\ \A i \in DOMAIN c.guards : Holds(At(c.guards[i]), w)

\* An answer does not depend on the order in which the facts were assumed, as
\* long as they do not contradict each other.
OrderIrrelevant ==
    answer.ask = "decide" /\ Allowed # {}
        => Decide(answer.fact, Reverse(frame)) = answer.verdict
===============================================================================
