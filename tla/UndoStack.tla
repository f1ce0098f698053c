------------------------------ MODULE UndoStack -------------------------------
(***************************************************************************)
(* What undo and redo promise a user of the workflow, with no mention of   *)
(* events, revisions or tables: a stack of operations done and a stack of  *)
(* operations undone, each operation remembering the scope version it left *)
(* current.                                                                *)
(***************************************************************************)
EXTENDS Naturals, Sequences, SequencesExt

CONSTANTS Command, Ref, Pointer, Root

VARIABLES done, undone, at

stackVars == <<done, undone, at>>

Operation == [command: Command, outputs: SUBSET Ref, pointer: Pointer]

Top(stack) == IF stack = <<>> THEN Root ELSE Last(stack).pointer

Init ==
    /\ done = <<>>
    /\ undone = <<>>
    /\ at = Root

Do(op) ==
    /\ done' = Append(done, op)
    /\ undone' = <<>>
    /\ at' = op.pointer

Undo ==
    /\ done # <<>>
    /\ undone' = Append(undone, Last(done))
    /\ done' = Front(done)
    /\ at' = Top(Front(done))

Redo ==
    /\ undone # <<>>
    /\ done' = Append(done, Last(undone))
    /\ undone' = Front(undone)
    /\ at' = Last(undone).pointer

\* The operation performed is the one that ends up on top of the stack.
DoSome ==
    /\ done' # <<>>
    /\ Last(done') \in Operation
    /\ Do(Last(done'))

Next ==
    \/ DoSome
    \/ Undo
    \/ Redo

Spec == Init /\ [][Next]_stackVars
===============================================================================
