------------------------------- MODULE EventLog -------------------------------
(***************************************************************************)
(* cas/workflow/event.py: the operation history.                           *)
(*                                                                         *)
(* events    every operation ever recorded, in recording order; an event   *)
(*           is named by its position, as its id is in the code            *)
(* view      the positions in view, in occurrence order                    *)
(* future    the positions an undo moved out of view, most recent last     *)
(* revision  the revision in view                                          *)
(* producers the inverted index: output reference -> events producing it   *)
(*                                                                         *)
(* An event's inputs are not modelled: nothing reads them back.            *)
(***************************************************************************)
EXTENDS Naturals, Sequences, SequencesExt

CONSTANTS
    Command,    \* names of operations
    Ref,        \* typed references to the objects an operation may output
    MaxEvents   \* bound: operations ever recorded

ASSUME EventLogAssumption == MaxEvents \in Nat

VARIABLES events, view, future, revision, producers

logVars == <<events, view, future, revision, producers>>

Event == [command: Command, outputs: SUBSET Ref, parentRevision: Nat]

LogInit ==
    /\ events = <<>>
    /\ view = <<>>
    /\ future = <<>>
    /\ revision = 0
    /\ producers = [r \in {} |-> <<>>]

\* The index with event e added under each of the references in outs.
Indexed(index, outs, e) ==
    [r \in DOMAIN index \cup outs |->
        LET known == IF r \in DOMAIN index THEN index[r] ELSE <<>>
        IN  IF r \in outs THEN Append(known, e) ELSE known]

\* EventLog.append: record one operation on top of the current view.
AppendEvent(c, outs) ==
    /\ Len(events) < MaxEvents
    /\ events' = Append(events, [command |-> c, outputs |-> outs,
                                 parentRevision |-> revision])
    /\ view' = Append(view, Len(events) + 1)
    /\ future' = <<>>
    /\ producers' = Indexed(producers, outs, Len(events) + 1)
    /\ revision' = Len(view')

\* EventLog.undo: the most recent event in view leaves it.
UndoEvent ==
    /\ \/ /\ view # <<>>
          /\ view' = Front(view)
          /\ future' = Append(future, Last(view))
       \/ /\ view = <<>>
          /\ UNCHANGED <<view, future>>
    /\ revision' = Len(view')
    /\ UNCHANGED <<events, producers>>

\* Mutant, a slip event.py might have had: the oldest undone event comes back.
RedoEvent_Oldest ==
    /\ \/ /\ future # <<>>
          /\ view' = Append(view, Head(future))
          /\ future' = Tail(future)
       \/ /\ future = <<>>
          /\ UNCHANGED <<view, future>>
    /\ revision' = Len(view')
    /\ UNCHANGED <<events, producers>>

\* EventLog.redo: the most recently undone event returns to view.
RedoEvent ==
    /\ \/ /\ future # <<>>
          /\ view' = Append(view, Last(future))
          /\ future' = Front(future)
       \/ /\ future = <<>>
          /\ UNCHANGED <<view, future>>
    /\ revision' = Len(view')
    /\ UNCHANGED <<events, producers>>

LogNext ==
    \/ \E c \in Command, outs \in SUBSET Ref : AppendEvent(c, outs)
    \/ UndoEvent
    \/ RedoEvent

-----------------------------------------------------------------------------

LogTypeOK ==
    /\ events \in Seq(Event)
    /\ view \in Seq(1..Len(events))
    /\ future \in Seq(1..Len(events))
    /\ revision = Len(view)
    /\ DOMAIN producers \subseteq Ref
    /\ \A r \in DOMAIN producers : producers[r] \in Seq(1..Len(events))

\* The line of history a user can walk with undo and redo: what is in view,
\* followed by what redo would bring back, nearest first.
Line == view \o Reverse(future)

Increasing(s) == \A i, j \in 1..Len(s) : i < j => s[i] < s[j]

\* Walking the line never visits an operation twice nor out of the order in
\* which the operations were performed, whatever mix of append, undo and redo
\* led here (event.py keeps view and future as two independent lists).
LineIsChronological == Increasing(Line)

\* The point in history an operation was applied to is the place it holds on
\* the line: parent_revision is the revision in view when it was performed
\* and stays right while the operation is undone and redone.
ParentIsPlaceOnLine ==
    \A k \in 1..Len(Line) : events[Line[k]].parentRevision = k - 1
===============================================================================
