------------------------------ MODULE Verdicts ------------------------------
(***************************************************************************)
(* cas/kernel/verdict.py: three-valued answers.  A refutation is "no"      *)
(* whatever its evidence; an unknown keeps its reason, "budget" for one    *)
(* nobody could afford.  Nothing is what a channel returns that has no     *)
(* answer at all (None in the code), so that the next one is asked.        *)
(***************************************************************************)
EXTENDS Sequences, SequencesExt

Yes == "yes"
No == "no"
Reason == {"fragment", "guarded", "budget"}
Verdict == {Yes, No} \cup Reason
Nothing == "nothing"

\* unknown() without an argument.
Unknown == "fragment"

\* The first channel that answers.
a ?? b == IF a = Nothing THEN b ELSE a

Answer(holds) == IF holds THEN Yes ELSE No

FirstUnknown(a, b) == IF a \in Reason THEN a ELSE b

And3(a, b) ==
    IF No \in {a, b} THEN No
    ELSE IF {a, b} = {Yes} THEN Yes
    ELSE FirstUnknown(a, b)

Or3(a, b) ==
    IF Yes \in {a, b} THEN Yes
    ELSE IF {a, b} = {No} THEN No
    ELSE FirstUnknown(a, b)

Not3(a) == IF a = Yes THEN No ELSE IF a = No THEN Yes ELSE a
===============================================================================
