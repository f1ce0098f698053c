------------------------------- MODULE Timeline -------------------------------
(***************************************************************************)
(* The undo/redo layer of cas/workflow/workflow.py: the event log together *)
(* with the workflow's scope pointer and the table _scope_at that says     *)
(* which scope version was current at each revision.                       *)
(*                                                                         *)
(* Every operation of the workflow goes through _append_event once, after  *)
(* it has moved the scope pointer; Operate is that pair of effects.        *)
(***************************************************************************)
EXTENDS EventLog

CONSTANTS
    Pointer,    \* names of scope versions
    Root        \* the version the workflow starts in

ASSUME TimelineAssumption == Root \in Pointer

VARIABLES
    scope,      \* Workflow.scope: the version later submissions use
    scopeAt     \* Workflow._scope_at: revision -> version; never shrinks

timelineVars == <<logVars, scope, scopeAt>>

TimelineInit ==
    /\ LogInit
    /\ scope = Root
    /\ scopeAt = [r \in {0} |-> Root]

\* Mutant: the version is filed under the number of events, not the revision.
Operate_FiledByCount(c, outs, s) ==
    /\ AppendEvent(c, outs)
    /\ scope' = s
    /\ scopeAt' = [r \in DOMAIN scopeAt \cup {Len(events')} |->
                      IF r = Len(events') THEN s ELSE scopeAt[r]]

\* An operation that leaves the pointer at s, recorded by _append_event.
Operate(c, outs, s) ==
    /\ AppendEvent(c, outs)
    /\ scope' = s
    /\ scopeAt' = [r \in DOMAIN scopeAt \cup {revision'} |->
                      IF r = revision' THEN s ELSE scopeAt[r]]

\* The pointer follows the revision only when the revision moved.
Restore ==
    /\ scope' = IF revision' # revision THEN scopeAt[revision'] ELSE scope
    /\ UNCHANGED scopeAt

\* Workflow.undo.
Undo == UndoEvent /\ Restore

\* Workflow.redo.
Redo == RedoEvent /\ Restore

TimelineNext ==
    \/ \E c \in Command, outs \in SUBSET Ref, s \in Pointer : Operate(c, outs, s)
    \/ Undo
    \/ Redo

TimelineSpec == TimelineInit /\ [][TimelineNext]_timelineVars

-----------------------------------------------------------------------------

TimelineTypeOK ==
    /\ LogTypeOK
    /\ scope \in Pointer
    /\ DOMAIN scopeAt \subseteq Nat
    /\ \A r \in DOMAIN scopeAt : scopeAt[r] \in Pointer

\* The scope pointer is the one remembered for the revision in view, and a
\* version is remembered for every revision undo or redo can still reach.
PointerFollowsRevision ==
    /\ 0..(Len(view) + Len(future)) \subseteq DOMAIN scopeAt
    /\ scopeAt[0] = Root
    /\ scope = scopeAt[revision]

-----------------------------------------------------------------------------
(***************************************************************************)
(* What the layer promises is UndoStack: two stacks of operations, each    *)
(* carrying the version it left current. The code keeps no such stacks;    *)
(* they are read off the view, the redo list and _scope_at.                *)
(***************************************************************************)
Entry(e, r) ==
    [command |-> events[e].command, outputs |-> events[e].outputs,
     pointer |-> scopeAt[r]]

Done == [k \in 1..Len(view) |-> Entry(view[k], k)]

Undone ==
    [k \in 1..Len(future) |->
        Entry(future[k], Len(view) + Len(future) - k + 1)]

Stack == INSTANCE UndoStack WITH done <- Done, undone <- Undone, at <- scope

\* The undo/redo layer implements the two stacks of UndoStack: undoing any
\* number of operations and redoing them restores every pointer exactly, and
\* no operation is lost or duplicated.
StackSpec == Stack!Spec
===============================================================================
