---------------------------- MODULE Session_proofs ----------------------------
(***************************************************************************)
(* The conversation on top of the workflow, for every workflow: it does    *)
(* only what the workflow allows, its focus follows what undo and redo     *)
(* bring into view, and what a step in view was derived from is in view.   *)
(***************************************************************************)
EXTENDS Session, Workflow_proofs

\* A step rests on older ones, and was recorded by a later operation than they.
OlderPremises ==
    /\ IsASequence(basis) /\ Len(basis) = Len(wsteps)
    /\ \A k \in StepId :
          /\ IsASequence(basis[k].on)
          /\ basis[k].premises \in {<<>>, basis[k].on}
          /\ Range(basis[k].on) \subseteq 1..(k - 1)
          /\ \A j \in 1..(k - 1) : wsteps[j].event < wsteps[k].event

\* Where an operation is on the line of history, so are the operations that
\* recorded what its step rests on, unless the user reached out of view.
PremisesOnTheLine ==
    \A k \in StepId :
        ~basis[k].stale /\ wsteps[k].event \in Range(Line) =>
            \A j \in Range(basis[k].on) : wsteps[j].event \in Range(Line)

\* The focus, and the branch group, exist.
FocusInv ==
    /\ FocusFollowsTheView
    /\ focus \in {0} \cup StepId
    /\ chosen \in BOOLEAN
    /\ group \in {0} \cup DOMAIN branches

\* The steps in view are in view after these operations too.
ViewInv == OlderPremises /\ PremisesOnTheLine /\ FocusInv

\* A point still to be submitted rests on one step, which is in view unless the
\* user named it.
PointOK(item) ==
    /\ item.kind = "point" /\ item.rule \in Rule
    /\ \E k \in StepId : item.on = <<k>>
    /\ Fits(item.rule, item.on)
    /\ ~item.named => Range(item.on) \subseteq InView

PointsLeft == IsASequence(todo) /\ \A i \in 1..Len(todo) : PointOK(todo[i])

\* A merge to be finished has entered the parent, and one undo leads back.
MergeLeft ==
    \E item :
        /\ todo = <<item>>
        /\ item.kind = "merge"
        /\ item.on \in [1..2 -> StepId]
        /\ group # 0 /\ revision >= 1
        /\ scopeAt[revision - 1] = item.from
        /\ scope = HeadOf(branches[group].parentLineage)

SessionInv ==
    /\ WorkflowInv
    /\ LineInv
    /\ ViewInv
    /\ PointsLeft \/ MergeLeft

-----------------------------------------------------------------------------
(* What a step of the workflow does to what is in view.                     *)

\* An operation is recorded.
Performs ==
    /\ Len(events') = Len(events) + 1
    /\ view' = Append(view, Len(events) + 1)
    /\ future' = <<>>

\* A step is recorded with it.
Submits ==
    /\ Performs
    /\ \E rec : rec.event = Len(events) + 1 /\ wsteps' = Append(wsteps, rec)

LEMMA OperatePerforms ==
    ASSUME NEW name, NEW outs, NEW t, Operate(name, outs, t), IsASequence(events)
    PROVE  Performs
<1>1. /\ events' = Append(events, [command |-> name, outputs |-> outs,
                                   parentRevision |-> revision])
      /\ view' = Append(view, Len(events) + 1)
      /\ future' = <<>>
  BY DEF Operate, AppendEvent
<1>. QED
  BY <1>1, Appended DEF Performs

LEMMA RecordSubmits ==
    ASSUME NEW name, NEW content, NEW status, NEW j, NEW guards, NEW request, NEW s, NEW t,
           Record(name, content, status, j, guards, request, s, t), IsASequence(events)
    PROVE  Submits
<1>. DEFINE rec == [content |-> content, status |-> status, judgment |-> j, guards |-> guards,
                    task |-> IF request = NoRequest THEN 0 ELSE Len(tasks) + 1,
                    scope |-> s, event |-> Len(events) + 1]
<1>1. wsteps' = Append(wsteps, rec) /\ Operate(name, Outputs(request, j), t)
  BY DEF Record
<1>2. rec.event = Len(events) + 1
  OBVIOUS
<1>. HIDE DEF rec
<1>. QED
  BY <1>1, <1>2, OperatePerforms DEF Submits

LEMMA SubmissionSubmits ==
    ASSUME NEW name, NEW p, NEW answer, NEW request, NEW s, NEW t,
           Submission(name, p, answer, request, s, t), IsASequence(events)
    PROVE  Submits
BY RecordSubmits, Zenon DEF Submission

\* The operations that submit something.
LEMMA Submitting ==
    ASSUME IsASequence(events)
    PROVE  /\ \A r, preds : Apply(r, preds) => Submits
           /\ \A q : Claim(q) => Submits
           /\ \A b, q, results : Merge(b, q, results) => Submits
<1>1. ASSUME NEW r, NEW preds, Apply(r, preds)
      PROVE  Submits
  BY <1>1, SubmissionSubmits, Zenon DEF Apply
<1>2. ASSUME NEW q, Claim(q)
      PROVE  Submits
  BY <1>2, SubmissionSubmits, Zenon DEF Claim
<1>3. ASSUME NEW b, NEW q, NEW results, Merge(b, q, results)
      PROVE  Submits
  BY <1>3, SubmissionSubmits, Zenon DEF Merge
<1>. QED
  BY <1>1, <1>2, <1>3, Zenon

\* The operations that submit nothing.
LEMMA Performing ==
    ASSUME IsASequence(events)
    PROVE  /\ \A c : SplitOn(c) => Performs /\ wsteps' = wsteps
           /\ \A s : Enter(s) => Performs /\ wsteps' = wsteps
           /\ \A x : Declare(x) => Performs /\ wsteps' = wsteps
           /\ \A x, body : Define(x, body) => Performs /\ wsteps' = wsteps
<1>1. ASSUME NEW c, SplitOn(c)
      PROVE  Performs /\ wsteps' = wsteps
  BY <1>1, OperatePerforms, Zenon DEF SplitOn
<1>2. ASSUME NEW s, Enter(s)
      PROVE  Performs /\ wsteps' = wsteps
  BY <1>2, OperatePerforms, Zenon DEF Enter, recordVars
<1>3. ASSUME NEW x, Declare(x)
      PROVE  Performs /\ wsteps' = wsteps
  BY <1>3, OperatePerforms, Zenon DEF Declare, recordVars
<1>4. ASSUME NEW x, NEW body, Define(x, body)
      PROVE  Performs /\ wsteps' = wsteps
  BY <1>4, OperatePerforms, Zenon DEF Define, recordVars
<1>. QED
  BY <1>1, <1>2, <1>3, <1>4, Zenon

-----------------------------------------------------------------------------
(* The operations in view, and on the line of history.                      *)

\* What is in view is on the line, with everything on the line before it.
LEMMA ViewOnTheLine ==
    ASSUME LineInv
    PROVE  /\ Range(view) \subseteq Range(Line)
           /\ Range(view) \subseteq 1..Len(events)
           /\ \A e \in Range(Line), f \in Range(view) : e < f => e \in Range(view)
<1>1. /\ Line \in Seq(1..Len(events)) /\ Joins(Line, view, future)
      /\ view \in Seq(1..Len(events)) /\ future \in Seq(1..Len(events))
  BY LineShape DEF LineInv, LogTypeOK
<1>2. /\ Len(view) \in Nat /\ Len(future) \in Nat /\ Len(Line) = Len(view) + Len(future)
      /\ DOMAIN Line = 1..Len(Line) /\ DOMAIN view = 1..Len(view)
      /\ \A k \in 1..Len(view) : Line[k] = view[k]
      /\ \A k \in 1..Len(Line) : Line[k] \in 1..Len(events)
  <2>1. \A k \in 1..Len(Line) : Line[k] \in 1..Len(events)
    BY <1>1, ElementOfSeq, Zenon
  <2>. HIDE DEF Line
  <2>. QED
    BY <1>1, <2>1 DEF Joins
<1>3. Range(view) \subseteq Range(Line)
  BY <1>2 DEF Range
<1>4. Range(view) \subseteq 1..Len(events)
  BY <1>1 DEF Range
<1>5. ASSUME NEW e \in Range(Line), NEW f \in Range(view), e < f
      PROVE  e \in Range(view)
  <2>1. PICK i \in 1..Len(Line), j \in 1..Len(view) : Line[i] = e /\ view[j] = f
    BY <1>2 DEF Range
  <2>2. j \in 1..Len(Line) /\ Line[j] = f
    BY <1>2, <2>1
  <2>3. Len(events) \in Nat
    BY DEF LineInv, LogTypeOK
  <2>4. e \in Int /\ f \in Int
    BY <1>2, <2>1, <2>2, <2>3
  <2>5. j < i => f < e
    BY <2>1, <2>2 DEF LineInv, LineIsChronological, Increasing
  <2>6. i <= j
    <3>1. CASE i = j
      BY <1>5, <2>1, <2>2, <2>4, <3>1
    <3>. QED
      BY <1>5, <2>4, <2>5, <3>1, <1>2
  <2>7. i \in 1..Len(view)
    BY <1>2, <2>6
  <2>. QED
    BY <1>2, <2>1, <2>7 DEF Range
<1>. QED
  BY <1>3, <1>4, <1>5

\* An operation just recorded is in view, with what was, and nothing can be redone.
LEMMA PerformsSight ==
    ASSUME LogTypeOK, LogTypeOK', Performs
    PROVE  /\ Range(view') = Range(view) \cup {Len(events) + 1}
           /\ Range(Line') = Range(view')
<1>1. /\ view \in Seq(1..Len(events)) /\ Len(view) \in Nat /\ Len(events) \in Nat
      /\ view' \in Seq(1..Len(events')) /\ DOMAIN view = 1..Len(view)
  BY DEF LogTypeOK
<1>2. /\ Len(view') = Len(view) + 1 /\ DOMAIN view' = 1..(Len(view) + 1)
      /\ \A k \in 1..Len(view) : view'[k] = view[k]
      /\ view'[Len(view) + 1] = Len(events) + 1
  BY <1>1, AppendProperties DEF Performs
<1>3. 1..(Len(view) + 1) = 1..Len(view) \cup {Len(view) + 1}
  BY <1>1
<1>4. Range(view') = Range(view) \cup {Len(events) + 1}
  BY <1>1, <1>2, <1>3 DEF Range
<1>5. Line' \in Seq(1..Len(events')) /\ Joins(Line', view', future')
  BY LineShapeAfter
<1>6. Len(future') = 0
  BY DEF Performs
<1>7. /\ DOMAIN Line' = 1..Len(view') /\ DOMAIN view' = 1..Len(view')
      /\ \A k \in 1..Len(view') : Line'[k] = view'[k]
  BY <1>1, <1>2, <1>5, <1>6 DEF Joins
<1>8. Range(Line') = Range(view')
  BY <1>7 DEF Range
<1>. QED
  BY <1>4, <1>8

\* An undo takes at most one operation out of view, a redo none.
LEMMA WalkSight ==
    ASSUME LogTypeOK
    PROVE  /\ UndoEvent => \E e : Range(view) \subseteq Range(view') \cup {e}
           /\ RedoEvent => Range(view) \subseteq Range(view')
<1>1. ASSUME view # <<>>, view' = Front(view)
      PROVE  Range(view) \subseteq Range(view') \cup {Last(view)}
  <2>1. view \in Seq(1..Len(events))
    BY DEF LogTypeOK
  <2>2. /\ Len(view) \in Nat \ {0} /\ Len(view') = Len(view) - 1
        /\ view' \in Seq(1..Len(events))
        /\ \A i \in 1..(Len(view) - 1) : view'[i] = view[i]
        /\ Last(view) = view[Len(view)]
    BY <1>1, <2>1, FrontLast, Zenon
  <2>3. DOMAIN view = 1..Len(view) /\ DOMAIN view' = 1..(Len(view) - 1)
    BY <2>1, <2>2
  <2>4. \A i \in 1..Len(view) : i \in 1..(Len(view) - 1) \/ i = Len(view)
    BY <2>2
  <2>. QED
    BY <2>2, <2>3, <2>4 DEF Range
<1>2. ASSUME future # <<>>, view' = Append(view, Last(future))
      PROVE  Range(view) \subseteq Range(view')
  <2>1. view \in Seq(1..Len(events)) /\ Last(future) \in 1..Len(events)
    BY <1>2, FrontLast DEF LogTypeOK
  <2>2. /\ DOMAIN view \subseteq DOMAIN view'
        /\ \A k \in DOMAIN view : view'[k] = view[k]
    BY <1>2, <2>1, AppendProperties
  <2>. QED
    BY <2>2 DEF Range
<1>3. UndoEvent => \E e : Range(view) \subseteq Range(view') \cup {e}
  BY <1>1 DEF UndoEvent
<1>4. RedoEvent => Range(view) \subseteq Range(view')
  BY <1>2 DEF RedoEvent
<1>. QED
  BY <1>3, <1>4

-----------------------------------------------------------------------------
(* Three kinds of commands, by what they do to the steps in view.           *)

\* A step is recorded that rests on preds and takes the focus.
Lands ==
    \E preds, premises, named :
        /\ Submits
        /\ Land(preds, premises, named)
        /\ premises \in {<<>>, preds}
        /\ IsASequence(preds) /\ Range(preds) \subseteq StepId
        /\ ~named => Range(preds) \subseteq InView

\* No step is recorded, and nothing leaves the view; the focus may be moved by
\* the user.
Settles ==
    /\ UNCHANGED <<wsteps, basis>>
    /\ Performs \/ UNCHANGED logVars
    /\ UNCHANGED <<focus, chosen>> \/ (focus' \in StepId /\ chosen' = TRUE)

\* History is walked, and the focus goes to the last step in view.
Walks ==
    /\ UNCHANGED <<wsteps, basis, events>>
    /\ (UndoEvent /\ Cardinality(InView) > 1) \/ RedoEvent
    /\ focus' = LastOf(StepsIn(view'))
    /\ chosen' = FALSE

\* Where a step without a record goes: everything as for its predecessor.
LEMMA OldSteps ==
    ASSUME WorkflowInv, OlderPremises, NEW k \in StepId
    PROVE  /\ k \in Nat \ {0} /\ k <= Len(wsteps) /\ Len(wsteps) \in Nat
           /\ wsteps[k].event \in 1..Len(events) /\ Len(events) \in Nat
           /\ \A j \in Range(basis[k].on) :
                 j \in StepId /\ wsteps[j].event < wsteps[k].event
<1>1. /\ Len(wsteps) \in Nat /\ Len(events) \in Nat
  BY SequenceShape DEF WorkflowInv, RecordSeqs, TimelineInv, TimelineTypeOK, LogTypeOK
<1>2. wsteps[k].event \in 1..Len(events)
  BY DEF WorkflowInv, StepOK
<1>3. k \in Nat \ {0} /\ k <= Len(wsteps)
  BY <1>1 DEF StepId
<1>4. ASSUME NEW j \in Range(basis[k].on)
      PROVE  j \in StepId /\ wsteps[j].event < wsteps[k].event
  <2>1. j \in 1..(k - 1)
    BY DEF OlderPremises
  <2>. QED
    BY <1>1, <1>3, <2>1 DEF OlderPremises, StepId
<1>. QED
  BY <1>1, <1>2, <1>3, <1>4

\* Old steps keep their premises on the line when an operation is recorded.
LEMMA OldPremisesKept ==
    ASSUME WorkflowInv, LineInv, LineInv', ViewInv, Performs,
           NEW k \in StepId, ~basis[k].stale, wsteps[k].event \in Range(Line'),
           NEW j \in Range(basis[k].on)
    PROVE  wsteps[j].event \in Range(Line')
<1>1. /\ wsteps[k].event \in 1..Len(events) /\ Len(events) \in Nat
      /\ j \in StepId /\ wsteps[j].event < wsteps[k].event
  BY OldSteps DEF ViewInv
<1>2. Range(view') = Range(view) \cup {Len(events) + 1} /\ Range(Line') = Range(view')
  BY PerformsSight DEF LineInv
<1>3. wsteps[k].event \in Range(view)
  BY <1>1, <1>2
<1>4. wsteps[k].event \in Range(Line)
  BY <1>3, ViewOnTheLine
<1>5. wsteps[j].event \in Range(Line)
  BY <1>4 DEF ViewInv, PremisesOnTheLine
<1>6. wsteps[j].event \in Range(view)
  BY <1>1, <1>3, <1>5, ViewOnTheLine
<1>. QED
  BY <1>2, <1>6

\* A recorded step rests on older ones, in view unless the user named them.
LEMMA LandsKeeps ==
    ASSUME WorkflowInv, LineInv, LineInv', ViewInv, group' \in {0} \cup DOMAIN branches', Lands
    PROVE  ViewInv'
<1>1. PICK preds, premises, named :
        /\ Submits
        /\ Land(preds, premises, named)
        /\ premises \in {<<>>, preds}
        /\ IsASequence(preds) /\ Range(preds) \subseteq StepId
        /\ ~named => Range(preds) \subseteq InView
  BY DEF Lands
<1>2. PICK rec : rec.event = Len(events) + 1 /\ wsteps' = Append(wsteps, rec)
  BY <1>1 DEF Submits
<1>3. PICK new : new = Len(wsteps) + 1
  OBVIOUS
<1>4. PICK why : why = [on |-> preds, premises |-> premises,
                        stale |-> named /\ ~(Range(preds) \subseteq InView)]
  OBVIOUS
<1>5. /\ focus' = new /\ chosen' = FALSE /\ basis' = Append(basis, why)
      /\ why.on = preds /\ why.premises = premises
      /\ (~why.stale => Range(preds) \subseteq InView)
  BY <1>1, <1>3, <1>4 DEF Land
<1>6. /\ IsASequence(wsteps) /\ Len(wsteps) \in Nat /\ IsASequence(basis)
      /\ Len(basis) = Len(wsteps)
  BY SequenceShape DEF WorkflowInv, RecordSeqs, ViewInv, OlderPremises
<1>7. /\ Len(wsteps') = new /\ \A k \in StepId : wsteps'[k] = wsteps[k]
      /\ wsteps'[new] = rec
  BY <1>2, <1>3, <1>6, Appended DEF StepId
<1>8. /\ IsASequence(basis') /\ Len(basis') = new
      /\ \A k \in StepId : basis'[k] = basis[k]
      /\ basis'[new] = why
  BY <1>3, <1>5, <1>6, Appended DEF StepId
<1>9. /\ StepId = 1..(new - 1) /\ StepId' = 1..new /\ new \in StepId' /\ new \in Nat \ {0}
      /\ \A k \in StepId' : k \in StepId \/ k = new
  BY <1>3, <1>6, <1>7 DEF StepId
<1>10. /\ Performs /\ Len(events) \in Nat
       /\ Range(view') = Range(view) \cup {Len(events) + 1} /\ Range(Line') = Range(view')
  <2>1. Performs
    BY <1>1 DEF Submits
  <2>. QED
    BY <2>1, PerformsSight DEF LineInv, LogTypeOK
<1>11. \A k \in StepId : wsteps'[k].event \in 1..Len(events) /\ wsteps'[k].event < Len(events) + 1
  BY <1>7, <1>10, OldSteps DEF ViewInv
<1>12. OlderPremises'
  <2>1. ASSUME NEW k \in StepId
        PROVE  /\ IsASequence(basis'[k].on)
               /\ basis'[k].premises \in {<<>>, basis'[k].on}
               /\ Range(basis'[k].on) \subseteq 1..(k - 1)
               /\ \A j \in 1..(k - 1) : wsteps'[j].event < wsteps'[k].event
    <3>1. /\ IsASequence(basis[k].on)
          /\ basis[k].premises \in {<<>>, basis[k].on}
          /\ Range(basis[k].on) \subseteq 1..(k - 1)
          /\ \A j \in 1..(k - 1) : wsteps[j].event < wsteps[k].event
      BY DEF ViewInv, OlderPremises
    <3>2. \A j \in 1..(k - 1) : j \in StepId
      BY <1>9
    <3>. QED
      BY <1>7, <1>8, <3>1, <3>2
  <2>2. /\ IsASequence(basis'[new].on)
        /\ basis'[new].premises \in {<<>>, basis'[new].on}
        /\ Range(basis'[new].on) \subseteq 1..(new - 1)
        /\ \A j \in 1..(new - 1) : wsteps'[j].event < wsteps'[new].event
    BY <1>1, <1>2, <1>5, <1>7, <1>8, <1>9, <1>11
  <2>3. \A k \in StepId' : /\ IsASequence(basis'[k].on)
                           /\ basis'[k].premises \in {<<>>, basis'[k].on}
                           /\ Range(basis'[k].on) \subseteq 1..(k - 1)
                           /\ \A j \in 1..(k - 1) : wsteps'[j].event < wsteps'[k].event
    BY <1>9, <2>1, <2>2
  <2>. QED
    BY <1>7, <1>8, <2>3 DEF OlderPremises
<1>13. PremisesOnTheLine'
  <2>1. ASSUME NEW k \in StepId, ~basis'[k].stale, wsteps'[k].event \in Range(Line'),
               NEW j \in Range(basis'[k].on)
        PROVE  wsteps'[j].event \in Range(Line')
    <3>1. j \in StepId /\ wsteps[j].event \in Range(Line')
      BY <1>7, <1>8, <1>10, <2>1, OldSteps, OldPremisesKept DEF ViewInv
    <3>. QED
      BY <1>7, <3>1
  <2>2. ASSUME ~basis'[new].stale, NEW j \in Range(basis'[new].on)
        PROVE  wsteps'[j].event \in Range(Line')
    <3>1. j \in InView
      BY <1>5, <1>8, <2>2
    <3>. QED
      BY <1>7, <1>10, <3>1 DEF InView, StepsIn
  <2>. QED
    BY <1>9, <2>1, <2>2 DEF PremisesOnTheLine
<1>14. new \in InView'
  BY <1>2, <1>7, <1>9, <1>10 DEF InView, StepsIn
<1>15. FocusInv'
  <2>1. FocusFollowsTheView'
    BY <1>5, <1>7, <1>8, <1>9, <1>14 DEF FocusFollowsTheView
  <2>. QED
    BY <1>5, <1>9, <2>1 DEF FocusInv
<1>. QED
  BY <1>12, <1>13, <1>15 DEF ViewInv

\* What a command that records no step leaves of the premises.
LEMMA QuietPremises ==
    ASSUME ViewInv, UNCHANGED <<wsteps, basis>>, Range(Line') = Range(Line)
    PROVE  OlderPremises' /\ PremisesOnTheLine'
<1>1. wsteps' = wsteps /\ basis' = basis /\ StepId' = StepId
  BY DEF StepId
<1>2. OlderPremises'
  BY <1>1 DEF ViewInv, OlderPremises
<1>3. PremisesOnTheLine'
  BY <1>1 DEF ViewInv, PremisesOnTheLine
<1>. QED
  BY <1>2, <1>3

\* An operation that records no step keeps every step in view in view.
LEMMA SettlesKeeps ==
    ASSUME WorkflowInv, LineInv, LineInv', ViewInv, group' \in {0} \cup DOMAIN branches', Settles
    PROVE  ViewInv'
<1>1. wsteps' = wsteps /\ basis' = basis /\ StepId' = StepId
  BY DEF Settles, StepId
<1>2. OlderPremises' /\ PremisesOnTheLine' /\ InView \subseteq InView'
  <2>1. CASE Performs
    <3>1. Range(view') = Range(view) \cup {Len(events) + 1}
      BY <2>1, PerformsSight DEF LineInv
    <3>2. InView \subseteq InView'
      BY <1>1, <3>1 DEF InView, StepsIn
    <3>3. OlderPremises'
      BY <1>1 DEF ViewInv, OlderPremises
    <3>4. PremisesOnTheLine'
      <4>. SUFFICES ASSUME NEW k \in StepId, ~basis[k].stale, wsteps[k].event \in Range(Line'),
                           NEW j \in Range(basis[k].on)
                    PROVE  wsteps[j].event \in Range(Line')
        BY <1>1 DEF PremisesOnTheLine
      <4>. QED
        BY <2>1, OldPremisesKept
    <3>. QED
      BY <3>2, <3>3, <3>4
  <2>2. CASE UNCHANGED logVars
    <3>1. view' = view /\ future' = future
      BY <2>2 DEF logVars
    <3>2. Range(Line') = Range(Line)
      BY <3>1 DEF Line
    <3>3. InView' = InView
      BY <1>1, <3>1 DEF InView, StepsIn
    <3>. QED
      BY <1>1, <3>2, <3>3, QuietPremises
  <2>. QED
    BY <2>1, <2>2 DEF Settles
<1>3. FocusInv'
  <2>1. FocusInv
    BY DEF ViewInv
  <2>2. CASE UNCHANGED <<focus, chosen>>
    BY <1>1, <1>2, <2>1, <2>2 DEF FocusInv, FocusFollowsTheView
  <2>3. CASE focus' \in StepId /\ chosen' = TRUE
    BY <1>1, <1>2, <2>1, <2>3 DEF FocusInv, FocusFollowsTheView
  <2>. QED
    BY <2>2, <2>3 DEF Settles
<1>. QED
  BY <1>2, <1>3 DEF ViewInv

\* The last of some steps is one of them, and so is the first.
LEMMA LastIsOne ==
    ASSUME Len(wsteps) \in Nat, NEW T \in SUBSET StepId, T # {}
    PROVE  LastOf(T) \in T /\ Min(T) \in T
<1>1. T \subseteq 1..Len(wsteps)
  BY DEF StepId
<1>2. \E x \in T : \A y \in T : x >= y
  <2>1. PICK x \in T : \A y \in T : y <= x
    BY <1>1, LargestExists
  <2>. QED
    BY <1>1, <2>1
<1>3. \E x \in T : \A y \in T : x <= y
  <2>. PICK n \in Nat : n = Len(wsteps)
    OBVIOUS
  <2>. DEFINE flipped == {n + 1 - y : y \in T}
  <2>1. flipped \subseteq 1..n /\ flipped # {}
    <3>1. PICK y \in T : TRUE
      OBVIOUS
    <3>2. n + 1 - y \in flipped
      BY <3>1
    <3>. QED
      BY <1>1, <3>2
  <2>2. PICK z \in flipped : \A w \in flipped : w <= z
    <3>. HIDE DEF flipped
    <3>1. flipped \in SUBSET (1..n)
      BY <2>1
    <3>. QED
      BY <2>1, <3>1, LargestExists
  <2>3. PICK x \in T : z = n + 1 - x
    BY <2>2
  <2>4. ASSUME NEW y \in T
        PROVE  x <= y
    <3>1. n + 1 - y <= n + 1 - x
      BY <2>2, <2>3
    <3>2. x \in Int /\ y \in Int
      BY <1>1
    <3>. QED
      BY <3>1, <3>2
  <2>. QED
    BY <2>4
<1>. QED
  BY <1>2, <1>3 DEF LastOf, Max, Min

\* Undo never leaves the user without a step, nor redo, and the focus follows.
LEMMA WalksKeeps ==
    ASSUME WorkflowInv, LineInv, LineInv', ViewInv, group' \in {0} \cup DOMAIN branches', Walks
    PROVE  ViewInv'
<1>1. wsteps' = wsteps /\ basis' = basis /\ StepId' = StepId /\ InView' = StepsIn(view')
  BY DEF Walks, StepId, InView, StepsIn
<1>2. Len(wsteps) \in Nat
  BY SequenceShape DEF WorkflowInv, RecordSeqs
<1>3. OlderPremises' /\ PremisesOnTheLine'
  <2>1. Line' = Line
    BY LineKept DEF LineInv, Walks
  <2>. QED
    BY <1>1, <2>1, QuietPremises
<1>4. wsteps # <<>> => InView # {}
  BY DEF ViewInv, FocusInv, FocusFollowsTheView
<1>5. ASSUME InView # {}
      PROVE  InView' # {}
  <2>1. CASE RedoEvent
    <3>1. Range(view) \subseteq Range(view')
      BY <2>1, WalkSight DEF LineInv
    <3>. QED
      BY <1>1, <1>5, <3>1 DEF InView, StepsIn
  <2>2. CASE UndoEvent /\ Cardinality(InView) > 1
    <3>1. PICK e : Range(view) \subseteq Range(view') \cup {e}
      BY <2>2, WalkSight DEF LineInv
    <3>2. PICK k \in InView : TRUE
      BY <1>5
    <3>3. InView # {k}
      <4>1. Cardinality({k}) = 1
        BY FS_Singleton
      <4>. QED
        BY <2>2, <4>1
    <3>4. PICK j \in InView : j # k
      BY <3>2, <3>3
    <3>5. wsteps[j].event # wsteps[k].event
      <4>1. j \in StepId /\ k \in StepId
        BY DEF InView, StepsIn
      <4>2. /\ wsteps[j].event \in Nat /\ wsteps[k].event \in Nat
            /\ j \in Nat \ {0} /\ k \in Nat \ {0}
        BY <4>1, OldSteps DEF ViewInv
      <4>3. \A a, b \in StepId : a \in 1..(b - 1) => wsteps[a].event < wsteps[b].event
        BY DEF ViewInv, OlderPremises
      <4>4. j \in 1..(k - 1) \/ k \in 1..(j - 1)
        BY <3>4, <4>2
      <4>. QED
        BY <4>1, <4>2, <4>3, <4>4
    <3>. QED
      BY <1>1, <3>1, <3>4, <3>5 DEF InView, StepsIn
  <2>. QED
    BY <2>1, <2>2 DEF Walks
<1>6. /\ wsteps # <<>> => focus' \in InView'
      /\ focus' \in {0} \cup InView'
      /\ InView' \subseteq StepId
  <2>1. InView' \subseteq StepId
    BY <1>1 DEF StepsIn
  <2>2. InView' # {} => LastOf(InView') \in InView'
    BY <1>2, <2>1, LastIsOne
  <2>3. InView' = {} => LastOf(InView') = 0
    BY DEF LastOf
  <2>4. focus' = LastOf(InView')
    BY <1>1 DEF Walks
  <2>. QED
    BY <1>4, <1>5, <2>1, <2>2, <2>3, <2>4
<1>7. FocusInv'
  <2>1. FocusFollowsTheView'
    BY <1>1, <1>4, <1>5, <1>6 DEF FocusFollowsTheView, Walks, ViewInv, FocusInv
  <2>. QED
    BY <1>1, <1>6, <2>1 DEF FocusInv, Walks
<1>. QED
  BY <1>3, <1>7 DEF ViewInv

-----------------------------------------------------------------------------
(* Every command is one step of the workflow, or none, of these kinds.      *)

Commands ==
    /\ [WorkflowNext]_workflowVars
    /\ Lands \/ Settles \/ Walks
    /\ group' = group \/ (group' = Len(branches) + 1 /\ \E c \in Splittable : SplitOn(c))

\* A rule applied to steps it fits is a step of the workflow.
LEMMA ApplyFits ==
    ASSUME NEW r \in Rule, NEW preds, IsASequence(preds), Range(preds) \subseteq StepId,
           Fits(r, preds), Apply(r, preds)
    PROVE  WorkflowNext
<1>1. DOMAIN preds = 1..Len(preds)
  BY SequenceShape
<1>2. r.premises \in Seq(Prop)
  BY KernelAssumption
<1>3. DOMAIN r.premises = DOMAIN preds
  BY <1>1, <1>2 DEF Fits
<1>4. preds = [i \in DOMAIN preds |-> preds[i]]
  <2>1. PICK S : preds \in Seq(S)
    BY DEF IsASequence
  <2>. QED
    BY <2>1
<1>5. \A i \in DOMAIN preds : preds[i] \in StepId
  BY DEF Range
<1>6. preds \in [DOMAIN r.premises -> StepId]
  BY <1>3, <1>4, <1>5, Zenon
<1>7. \A i \in DOMAIN preds : wsteps[preds[i]].content = r.premises[i]
  BY DEF Fits
<1>. QED
  BY <1>6, <1>7, Zenon DEF WorkflowNext

\* What one step, two steps, or none rest on.
LEMMA FewSteps ==
    /\ IsASequence(<<>>) /\ Range(<<>>) = {}
    /\ \A j \in StepId : IsASequence(<<j>>) /\ Range(<<j>>) = {j}
    /\ \A j, k \in StepId : IsASequence(<<j, k>>) /\ Range(<<j, k>>) = {j, k}
    /\ \A f \in [1..2 -> StepId] : IsASequence(f) /\ Range(f) \subseteq StepId
<1>1. IsASequence(<<>>) /\ Range(<<>>) = {}
  BY EmptyIsASequence DEF Range
<1>2. ASSUME NEW j \in StepId
      PROVE  IsASequence(<<j>>) /\ Range(<<j>>) = {j}
  <2>1. <<j>> \in Seq(StepId) /\ DOMAIN <<j>> = {1} /\ <<j>>[1] = j
    OBVIOUS
  <2>. QED
    BY <2>1 DEF IsASequence, Range
<1>3. ASSUME NEW j \in StepId, NEW k \in StepId
      PROVE  IsASequence(<<j, k>>) /\ Range(<<j, k>>) = {j, k}
  <2>1. /\ <<j, k>> \in Seq(StepId) /\ DOMAIN <<j, k>> = {1, 2}
        /\ <<j, k>>[1] = j /\ <<j, k>>[2] = k
    OBVIOUS
  <2>. QED
    BY <2>1 DEF IsASequence, Range
<1>4. ASSUME NEW f \in [1..2 -> StepId]
      PROVE  IsASequence(f) /\ Range(f) \subseteq StepId
  <2>1. f \in Seq(StepId)
    <3>1. \E n \in Nat : f \in [1..n -> StepId]
      <4>. WITNESS 2 \in Nat
      <4>. QED
        OBVIOUS
    <3>. QED
      BY <3>1, SeqDef
  <2>. QED
    BY <2>1 DEF IsASequence, Range
<1>. QED
  BY <1>1, <1>2, <1>3, <1>4

\* The operations are a sequence.
LEMMA EventsAreASequence == WorkflowInv => IsASequence(events)
BY DEF IsASequence, WorkflowInv, TimelineInv, TimelineTypeOK, LogTypeOK

LEMMA ClaimCommands ==
    ASSUME SessionInv, NEW q \in Claimable, CmdClaim(q)
    PROVE  Commands
<1>1. Claim(q) /\ Land(<<>>, <<>>, FALSE) /\ group' = group
  BY DEF CmdClaim
<1>2. Submits
  BY <1>1, Submitting, EventsAreASequence DEF SessionInv
<1>3. Lands
  BY <1>1, <1>2, FewSteps, Zenon DEF Lands
<1>4. WorkflowNext
  BY <1>1, Zenon DEF WorkflowNext
<1>. QED
  BY <1>1, <1>3, <1>4 DEF Commands

\* The step a command works on, if there is one, was recorded.
LEMMA WorksOnAStep ==
    ASSUME SessionInv, NEW ref \in StepId \cup {0}, WorksOn(ref) # 0
    PROVE  WorksOn(ref) \in StepId /\ (~Named(ref) => WorksOn(ref) \in InView)
<1>1. focus \in {0} \cup StepId /\ (focus # 0 /\ ~chosen => focus \in InView)
  BY DEF SessionInv, ViewInv, FocusInv, FocusFollowsTheView
<1>. QED
  BY <1>1 DEF WorksOn, Named

LEMMA ComputeCommands ==
    ASSUME SessionInv, NEW r \in Rule, NEW ref \in StepId \cup {0}, CmdCompute(r, ref)
    PROVE  Commands
<1>. PICK k : k = WorksOn(ref)
  OBVIOUS
<1>1. /\ k # 0 /\ Fits(r, <<k>>) /\ Apply(r, <<k>>) /\ Land(<<k>>, <<k>>, Named(ref))
      /\ group' = group
  BY DEF CmdCompute
<1>2. k \in StepId /\ (~Named(ref) => k \in InView)
  BY <1>1, WorksOnAStep
<1>3. IsASequence(<<k>>) /\ Range(<<k>>) = {k}
  BY <1>2, FewSteps
<1>4. Submits
  BY <1>1, Submitting, EventsAreASequence DEF SessionInv
<1>5. Range(<<k>>) \subseteq StepId /\ (~Named(ref) => Range(<<k>>) \subseteq InView)
  BY <1>2, <1>3
<1>6. Lands
  BY <1>1, <1>3, <1>4, <1>5, Zenon DEF Lands
<1>7. WorkflowNext
  BY <1>1, <1>3, <1>5, ApplyFits, Zenon
<1>. QED
  BY <1>1, <1>6, <1>7 DEF Commands

LEMMA CombineCommands ==
    ASSUME SessionInv, NEW r \in Rule, NEW first \in StepId, NEW second \in StepId,
           CmdCombine(r, first, second)
    PROVE  Commands
<1>. PICK preds : preds = <<first, second>>
  OBVIOUS
<1>1. Fits(r, preds) /\ Apply(r, preds) /\ Land(preds, preds, TRUE) /\ group' = group
  BY DEF CmdCombine
<1>2. IsASequence(preds) /\ Range(preds) \subseteq StepId
  BY FewSteps
<1>3. Submits
  BY <1>1, Submitting, EventsAreASequence DEF SessionInv
<1>4. Lands
  BY <1>1, <1>2, <1>3, Zenon DEF Lands
<1>5. WorkflowNext
  BY <1>1, <1>2, ApplyFits, Zenon
<1>. QED
  BY <1>1, <1>4, <1>5 DEF Commands

LEMMA SplitCommands ==
    ASSUME SessionInv, NEW c \in Splittable, CmdSplit(c)
    PROVE  Commands
<1>1. SplitOn(c) /\ group' = Len(branches) + 1 /\ UNCHANGED <<focus, chosen, basis>>
  BY DEF CmdSplit
<1>2. Performs /\ wsteps' = wsteps
  BY <1>1, Performing, EventsAreASequence DEF SessionInv
<1>3. Settles
  BY <1>1, <1>2 DEF Settles
<1>4. WorkflowNext
  BY <1>1, Zenon DEF WorkflowNext
<1>. QED
  BY <1>1, <1>3, <1>4 DEF Commands

LEMMA EnterCommands ==
    ASSUME SessionInv, NEW s \in ScopeId, Enter(s), UNCHANGED <<focus, chosen, basis, group>>
    PROVE  Commands
<1>1. Performs /\ wsteps' = wsteps
  BY Performing, EventsAreASequence DEF SessionInv
<1>2. Settles
  BY <1>1 DEF Settles
<1>3. WorkflowNext
  BY Zenon DEF WorkflowNext
<1>. QED
  BY <1>2, <1>3 DEF Commands

LEMMA IntroduceCommands ==
    ASSUME SessionInv, NEW x \in Sym, CmdIntroduce(x)
    PROVE  Commands
<1>1. (Declare(x) \/ \E body \in Body : Define(x, body)) /\ UNCHANGED <<focus, chosen, basis, group>>
  BY DEF CmdIntroduce, frontendVars
<1>2. Performs /\ wsteps' = wsteps
  BY <1>1, Performing, EventsAreASequence DEF SessionInv
<1>3. Settles
  BY <1>1, <1>2 DEF Settles
<1>4. WorkflowNext
  BY <1>1, Zenon DEF WorkflowNext
<1>. QED
  BY <1>1, <1>3, <1>4 DEF Commands

\* Commands that do nothing to the workflow.
LEMMA IdleCommands ==
    ASSUME SessionInv, UNCHANGED <<workflowVars, group, basis>>,
           UNCHANGED <<focus, chosen>> \/ (focus' \in StepId /\ chosen' = TRUE)
    PROVE  Commands
<1>1. UNCHANGED logVars /\ wsteps' = wsteps
  BY DEF workflowVars, timelineVars, recordVars
<1>2. Settles
  BY <1>1 DEF Settles
<1>. QED
  BY <1>2 DEF Commands

LEMMA HistoryCommands ==
    ASSUME SessionInv, CmdUndo \/ CmdRedo
    PROVE  Commands
<1>1. /\ group' = group /\ basis' = basis
      /\ focus' = LastOf(StepsIn(view')) /\ chosen' = FALSE
      /\ (UndoOperation /\ Cardinality(InView) > 1) \/ RedoOperation
  BY DEF CmdUndo, CmdRedo
<1>2. WorkflowNext
  BY <1>1, Zenon DEF WorkflowNext
<1>3. /\ wsteps' = wsteps
      /\ (UndoEvent /\ Cardinality(InView) > 1) \/ RedoEvent
      /\ events' = events
  BY <1>1 DEF UndoOperation, RedoOperation, Undo, Redo, recordVars, UndoEvent, RedoEvent
<1>4. Walks
  BY <1>1, <1>3 DEF Walks
<1>. QED
  BY <1>1, <1>2, <1>4 DEF Commands

-----------------------------------------------------------------------------
(* What is left of a command.                                               *)

\* The next thing to do is a point when points are left, a merge otherwise.
LEMMA NextIsAPoint ==
    ASSUME SessionInv, ~Idle, Head(todo).kind = "point"
    PROVE  /\ IsASequence(todo) /\ PointOK(Head(todo))
           /\ \A i \in 1..(Len(todo) - 1) : PointOK(Tail(todo)[i])
           /\ IsASequence(Tail(todo)) /\ Len(Tail(todo)) = Len(todo) - 1 /\ Len(todo) \in Nat
<1>1. ~MergeLeft
  BY DEF MergeLeft
<1>2. IsASequence(todo) /\ \A i \in 1..Len(todo) : PointOK(todo[i])
  BY <1>1 DEF SessionInv, PointsLeft
<1>3. PICK S : todo \in Seq(S)
  BY <1>2 DEF IsASequence
<1>4. todo # <<>>
  BY DEF Idle
<1>5. /\ Len(todo) \in Nat \ {0} /\ Head(todo) = todo[1]
      /\ Tail(todo) \in Seq(S) /\ Len(Tail(todo)) = Len(todo) - 1
      /\ \A i \in 1..(Len(todo) - 1) : Tail(todo)[i] = todo[i + 1]
  BY <1>3, <1>4
<1>6. PointOK(Head(todo))
  <2>1. 1 \in 1..Len(todo)
    BY <1>5
  <2>. QED
    BY <1>2, <1>5, <2>1
<1>7. \A i \in 1..(Len(todo) - 1) : PointOK(Tail(todo)[i])
  <2>1. \A i \in 1..(Len(todo) - 1) : i + 1 \in 1..Len(todo)
    BY <1>5
  <2>. QED
    BY <1>2, <1>5, <2>1
<1>. QED
  BY <1>2, <1>5, <1>6, <1>7 DEF IsASequence

LEMMA NextIsAMerge ==
    ASSUME SessionInv, ~Idle, Head(todo).kind = "merge"
    PROVE  /\ MergeLeft
           /\ todo = <<Head(todo)>>
           /\ Head(todo).on \in [1..2 -> StepId]
           /\ group \in DOMAIN branches /\ revision >= 1
           /\ scopeAt[revision - 1] = Head(todo).from
           /\ scope = HeadOf(branches[group].parentLineage)
<1>1. MergeLeft
  <2>. SUFFICES ASSUME PointsLeft PROVE FALSE
    BY DEF SessionInv
  <2>1. PICK S : todo \in Seq(S)
    BY DEF PointsLeft, IsASequence
  <2>2. todo # <<>>
    BY DEF Idle
  <2>3. Len(todo) \in Nat \ {0} /\ Head(todo) = todo[1]
    BY <2>1, <2>2
  <2>4. 1 \in 1..Len(todo)
    BY <2>3
  <2>5. PointOK(Head(todo))
    BY <2>3, <2>4 DEF PointsLeft
  <2>. QED
    BY <2>5 DEF PointOK
<1>2. PICK item :
        /\ todo = <<item>>
        /\ item.kind = "merge"
        /\ item.on \in [1..2 -> StepId]
        /\ group # 0 /\ revision >= 1
        /\ scopeAt[revision - 1] = item.from
        /\ scope = HeadOf(branches[group].parentLineage)
  BY <1>1 DEF MergeLeft
<1>3. Head(todo) = item
  BY <1>2
<1>4. group \in DOMAIN branches
  BY <1>2 DEF SessionInv, ViewInv, FocusInv
<1>. QED
  BY <1>1, <1>2, <1>3, <1>4

LEMMA PointCommands ==
    ASSUME SessionInv, SubmitPoint
    PROVE  Commands
<1>. PICK item : item = Head(todo)
  OBVIOUS
<1>1. /\ ~Idle /\ item.kind = "point" /\ Apply(item.rule, item.on)
      /\ Land(item.on, item.on, item.named) /\ group' = group
  BY DEF SubmitPoint
<1>2. PointOK(item)
  BY <1>1, NextIsAPoint
<1>3. /\ item.rule \in Rule /\ Fits(item.rule, item.on)
      /\ IsASequence(item.on) /\ Range(item.on) \subseteq StepId
      /\ ~item.named => Range(item.on) \subseteq InView
  <2>1. PICK k \in StepId : item.on = <<k>>
    BY <1>2 DEF PointOK
  <2>2. IsASequence(item.on) /\ Range(item.on) = {k}
    BY <2>1, FewSteps, Zenon
  <2>. QED
    BY <1>2, <2>2 DEF PointOK
<1>4. Submits
  BY <1>1, Submitting, EventsAreASequence DEF SessionInv
<1>5. Lands
  BY <1>1, <1>3, <1>4, Zenon DEF Lands
<1>6. WorkflowNext
  BY <1>1, <1>3, ApplyFits, Zenon
<1>. QED
  BY <1>1, <1>5, <1>6 DEF Commands

LEMMA FinishCommands ==
    ASSUME SessionInv, FinishMerge
    PROVE  Commands
<1>. PICK results, b, q : /\ results = Head(todo).on
                          /\ b = branches[group]
                          /\ q = wsteps[results[1]].content
  OBVIOUS
<1>1. /\ ~Idle /\ Head(todo).kind = "merge" /\ group' = group
      /\ \/ Merge(b, q, results) /\ Land(results, <<>>, TRUE)
         \/ UNCHANGED <<workflowVars, focus, basis, chosen>>
  BY DEF FinishMerge
<1>2. results \in [1..2 -> StepId] /\ group \in DOMAIN branches
  BY <1>1, NextIsAMerge
<1>3. CASE Merge(b, q, results) /\ Land(results, <<>>, TRUE)
  <2>1. IsASequence(results) /\ Range(results) \subseteq StepId
    BY <1>2, FewSteps
  <2>2. Submits
    BY <1>3, Submitting, EventsAreASequence DEF SessionInv
  <2>3. Lands
    BY <1>3, <2>1, <2>2, Zenon DEF Lands
  <2>4. q \in {wsteps[k].content : k \in StepId}
    <3>1. results[1] \in StepId
      BY <1>2
    <3>. QED
      BY <3>1
  <2>5. WorkflowNext
    BY <1>2, <1>3, <2>4, Zenon DEF WorkflowNext
  <2>. QED
    BY <1>1, <2>3, <2>5 DEF Commands
<1>4. CASE UNCHANGED <<workflowVars, focus, basis, chosen>>
  BY <1>1, <1>4, IdleCommands
<1>. QED
  BY <1>1, <1>3, <1>4

\* The parent of a branch group can be entered.
LEMMA MergeCommands ==
    ASSUME SessionInv, NEW results, CmdMerge(results)
    PROVE  Commands /\ UNCHANGED <<group, branches, wsteps, kernelVars>>
<1>1. /\ group # 0 /\ Enter(branches[group].parentLineage)
      /\ UNCHANGED <<focus, group, basis, chosen>>
  BY DEF CmdMerge
<1>2. branches[group].parentLineage \in ScopeId
  <2>1. group \in DOMAIN branches
    BY <1>1 DEF SessionInv, ViewInv, FocusInv
  <2>2. branches[group].parentLineage \in DOMAIN heads
    BY <2>1 DEF SessionInv, WorkflowInv, BranchOK
  <2>3. PICK s \in ScopeId : scopes[s].lineage = branches[group].parentLineage
    BY <2>2 DEF SessionInv, WorkflowInv, StoreInv, ScopeInv, ScopeTypeOK
  <2>4. scopes[s].lineage \in 1..s /\ s \in 1..Len(scopes) /\ Len(scopes) \in Nat
    BY DEF SessionInv, WorkflowInv, StoreInv, ScopeInv, ScopeTypeOK, ScopeId
  <2>. QED
    BY <2>3, <2>4 DEF ScopeId
<1>3. Commands
  BY <1>1, <1>2, EnterCommands
<1>4. UNCHANGED <<branches, wsteps, kernelVars>>
  <2>1. UNCHANGED <<kernelVars, recordVars>>
    BY <1>1, Zenon DEF Enter
  <2>. QED
    BY <2>1 DEF recordVars
<1>. QED
  BY <1>1, <1>3, <1>4

\* Every command of the session.
LEMMA SessionStep ==
    ASSUME SessionInv, [SessionNext]_sessionVars
    PROVE  Commands
<1>1. CASE \E q \in Claimable : CmdClaim(q)
  BY <1>1, ClaimCommands
<1>2. CASE \E r \in Rule, ref \in StepId \cup {0} : CmdCompute(r, ref)
  BY <1>2, ComputeCommands
<1>3. CASE \E r \in Rule, first, second \in StepId : CmdCombine(r, first, second)
  BY <1>3, CombineCommands
<1>4. CASE \E c \in Splittable : CmdSplit(c)
  BY <1>4, SplitCommands
<1>5. CASE \E s \in ScopeId : CmdEnter(s)
  BY <1>5, EnterCommands DEF CmdEnter, frontendVars
<1>6. CASE \E x \in Sym : CmdIntroduce(x)
  BY <1>6, IntroduceCommands
<1>7. CASE \E k \in StepId : CmdFocus(k)
  BY <1>7, IdleCommands DEF CmdFocus
<1>8. CASE CmdUndo \/ CmdRedo
  BY <1>8, HistoryCommands
<1>9. CASE \E points \in Points, ref \in StepId \cup {0} : CmdSolve(points, ref)
  BY <1>9, IdleCommands DEF CmdSolve
<1>10. CASE SubmitPoint
  BY <1>10, PointCommands
<1>11. CASE \E first, second \in StepId : CmdMerge(<<first, second>>)
  BY <1>11, MergeCommands
<1>12. CASE FinishMerge
  BY <1>12, FinishCommands
<1>13. CASE UNCHANGED sessionVars
  <2>1. UNCHANGED <<workflowVars, group, basis>> /\ UNCHANGED <<focus, chosen>>
    BY <1>13 DEF sessionVars, frontendVars
  <2>. QED
    BY <2>1, IdleCommands
<1>. QED
  BY <1>1, <1>2, <1>3, <1>4, <1>5, <1>6, <1>7, <1>8, <1>9, <1>10, <1>11, <1>12, <1>13
  DEF SessionNext

-----------------------------------------------------------------------------
(* The invariant is kept.                                                    *)

\* What every command keeps, but for what is left of it.
LEMMA CommandsKeep ==
    ASSUME SessionInv, Commands
    PROVE  WorkflowInv' /\ LineInv' /\ ViewInv' /\ RecordsGrow
<1>1. Kept
  BY WorkflowStep DEF SessionInv, Commands
<1>2. WorkflowInv' /\ RecordsGrow
  BY <1>1 DEF Kept
<1>3. LineInv'
  BY <1>1, LineInvStep, TimelineStepsLog DEF SessionInv, Kept
<1>4. group' \in {0} \cup DOMAIN branches'
  <2>1. /\ Len(branches) \in Nat /\ Len(branches') \in Nat
        /\ DOMAIN branches = 1..Len(branches) /\ DOMAIN branches' = 1..Len(branches')
        /\ Len(branches) <= Len(branches')
    BY <1>2, SequenceShape DEF SessionInv, WorkflowInv, RecordSeqs, RecordsGrow
  <2>2. CASE group' = group
    BY <2>1, <2>2 DEF SessionInv, ViewInv, FocusInv
  <2>3. CASE group' = Len(branches) + 1 /\ \E c \in Splittable : SplitOn(c)
    <3>1. \E c \in Splittable : Splits(c)
      BY <2>3, SplitShape DEF SessionInv
    <3>2. Len(branches) + 1 \in DOMAIN branches'
      BY <3>1 DEF Splits
    <3>. QED
      BY <2>3, <3>2
  <2>. QED
    BY <2>2, <2>3 DEF Commands
<1>5. ViewInv'
  BY <1>3, <1>4, LandsKeeps, SettlesKeeps, WalksKeeps DEF SessionInv, Commands
<1>. QED
  BY <1>2, <1>3, <1>5

\* A point left is still to be submitted when nothing left the view.
LEMMA PointStays ==
    ASSUME RecordsGrow, RecordSeqs, RecordSeqs', Range(view) \subseteq Range(view'),
           NEW item, PointOK(item)
    PROVE  PointOK(item)'
<1>1. /\ Len(wsteps) \in Nat /\ Len(wsteps') \in Nat
      /\ \A k \in StepId : k \in StepId' /\ wsteps'[k] = wsteps[k]
  BY SequenceShape DEF RecordSeqs, RecordsGrow, StepId
<1>2. PICK k \in StepId : item.on = <<k>>
  BY DEF PointOK
<1>3. InView \subseteq InView'
  BY <1>1 DEF InView, StepsIn
<1>4. Fits(item.rule, item.on)'
  <2>1. DOMAIN <<k>> = {1} /\ <<k>>[1] = k
    OBVIOUS
  <2>2. Fits(item.rule, <<k>>)
    BY <1>2 DEF PointOK
  <2>3. /\ Len(item.rule.premises) = Len(<<k>>)
        /\ \A i \in {1} : wsteps[<<k>>[i]].content = item.rule.premises[i]
    BY <2>1, <2>2 DEF Fits
  <2>4. \A i \in DOMAIN <<k>> : wsteps'[<<k>>[i]].content = item.rule.premises[i]
    BY <1>1, <2>1, <2>3
  <2>. QED
    BY <1>2, <2>3, <2>4 DEF Fits
<1>. QED
  BY <1>1, <1>2, <1>3, <1>4 DEF PointOK

\* Nothing left of a command.
LEMMA NothingLeft == todo' = <<>> => PointsLeft'
<1>. SUFFICES ASSUME todo' = <<>> PROVE PointsLeft'
  OBVIOUS
<1>1. IsASequence(todo') /\ Len(todo') = 0
  BY EmptyIsASequence
<1>. QED
  BY <1>1 DEF PointsLeft

\* A command with several points starts with all of them fitting.
LEMMA SolveLeaves ==
    ASSUME SessionInv, NEW points \in Points, NEW ref \in StepId \cup {0}, CmdSolve(points, ref)
    PROVE  PointsLeft'
<1>. PICK k, named : k = WorksOn(ref) /\ named = Named(ref)
  OBVIOUS
<1>1. /\ k # 0
      /\ \A i \in DOMAIN points : Fits(points[i], <<k>>)
      /\ todo' = [i \in DOMAIN points |->
                    [kind |-> "point", rule |-> points[i], on |-> <<k>>, named |-> named]]
      /\ UNCHANGED workflowVars
  BY DEF CmdSolve
<1>2. k \in StepId /\ (~named => k \in InView)
  BY <1>1, WorksOnAStep
<1>3. points \in Seq(Rule)
  BY SessionAssumption
<1>4. DOMAIN points = 1..Len(points) /\ Len(points) \in Nat /\ \A i \in DOMAIN points : points[i] \in Rule
  BY <1>3, ElementOfSeq
<1>. DEFINE item(i) == [kind |-> "point", rule |-> points[i], on |-> <<k>>, named |-> named]
<1>5. ASSUME NEW i \in DOMAIN points
      PROVE  PointOK(item(i))
  <2>. PICK r : r = item(i)
    OBVIOUS
  <2>1. r.kind = "point" /\ r.rule = points[i] /\ r.on = <<k>> /\ r.named = named
    OBVIOUS
  <2>2. Range(<<k>>) = {k}
    BY <1>2, FewSteps
  <2>3. PointOK(r)
    BY <1>1, <1>2, <1>4, <2>1, <2>2 DEF PointOK
  <2>. QED
    BY <2>3
<1>6. \A x : PointOK(x) => PointOK(x)'
  <2>1. wsteps' = wsteps /\ view' = view
    BY <1>1 DEF workflowVars, recordVars, timelineVars, logVars
  <2>. QED
    BY <2>1 DEF PointOK, Fits, StepId, InView, StepsIn
<1>7. IsASequence(todo') /\ Len(todo') = Len(points) /\ \A i \in DOMAIN points : todo'[i] = item(i)
  <2>. PICK S : S = {item(i) : i \in DOMAIN points}
    OBVIOUS
  <2>1. \A i \in DOMAIN points : item(i) \in S
    OBVIOUS
  <2>2. todo' = [i \in 1..Len(points) |-> item(i)]
    BY <1>1, <1>4
  <2>. HIDE DEF item
  <2>3. todo' \in Seq(S) /\ Len(todo') = Len(points)
    BY <1>4, <2>1, <2>2
  <2>. QED
    BY <1>4, <2>2, <2>3 DEF IsASequence
<1>. HIDE DEF item
<1>. QED
  BY <1>4, <1>5, <1>6, <1>7 DEF PointsLeft

\* The points left after one was submitted.
LEMMA PointLeaves ==
    ASSUME SessionInv, SubmitPoint
    PROVE  PointsLeft'
<1>1. ~Idle /\ Head(todo).kind = "point" /\ todo' = Tail(todo)
  BY DEF SubmitPoint
<1>2. /\ IsASequence(todo')
      /\ Len(todo') = Len(todo) - 1
      /\ \A i \in 1..(Len(todo) - 1) : PointOK(todo'[i])
  BY <1>1, NextIsAPoint
<1>3. Commands /\ Apply(Head(todo).rule, Head(todo).on)
  BY PointCommands DEF SubmitPoint
<1>4. WorkflowInv' /\ LineInv' /\ RecordsGrow
  BY <1>3, CommandsKeep
<1>5. Performs
  BY <1>3, Submitting, EventsAreASequence DEF SessionInv, Submits
<1>6. Range(view) \subseteq Range(view')
  BY <1>4, <1>5, PerformsSight DEF SessionInv, LineInv
<1>7. \A x : PointOK(x) => PointOK(x)'
  BY <1>4, <1>6, PointStays DEF SessionInv, WorkflowInv
<1>. QED
  BY <1>2, <1>7 DEF PointsLeft

\* A merge starts by entering the parent: one undo would take that back.
LEMMA MergeStarts ==
    ASSUME SessionInv, NEW first \in StepId, NEW second \in StepId, CmdMerge(<<first, second>>)
    PROVE  MergeLeft'
<1>. PICK on, item : /\ on = <<first, second>>
                     /\ item = [kind |-> "merge", on |-> on, from |-> scope]
  OBVIOUS
<1>. PICK t : t = HeadOf(branches[group].parentLineage)
  OBVIOUS
<1>1. /\ group # 0 /\ todo' = <<item>> /\ Operate("Enter", {}, t)
  BY DEF CmdMerge, Enter
<1>2. /\ group' = group /\ branches' = branches /\ wsteps' = wsteps
      /\ scopes' = scopes /\ heads' = heads
  BY MergeCommands DEF kernelVars, scopeVars
<1>3. item.kind = "merge" /\ item.on = on /\ item.from = scope /\ on \in [1..2 -> StepId]
  OBVIOUS
<1>4. /\ Len(view) \in Nat /\ revision = Len(view)
      /\ scope = scopeAt[revision] /\ revision \in DOMAIN scopeAt
      /\ view \in Seq(1..Len(events)) /\ Len(events) \in Nat
  <2>1. /\ Len(view) \in Nat /\ Len(future) \in Nat /\ revision = Len(view)
        /\ view \in Seq(1..Len(events)) /\ Len(events) \in Nat
        /\ 0..(Len(view) + Len(future)) \subseteq DOMAIN scopeAt /\ scope = scopeAt[revision]
    BY DEF SessionInv, WorkflowInv, TimelineInv, TimelineTypeOK, LogTypeOK, PointerFollowsRevision
  <2>. QED
    BY <2>1
<1>5. /\ revision' = revision + 1 /\ scope' = t
      /\ scopeAt' = [r \in DOMAIN scopeAt \cup {revision'} |->
                        IF r = revision' THEN t ELSE scopeAt[r]]
  <2>1. /\ view' = Append(view, Len(events) + 1) /\ revision' = Len(view') /\ scope' = t
        /\ scopeAt' = [r \in DOMAIN scopeAt \cup {revision'} |->
                        IF r = revision' THEN t ELSE scopeAt[r]]
    BY <1>1 DEF Operate, AppendEvent
  <2>2. Len(view') = Len(view) + 1
    BY <1>4, <2>1
  <2>. QED
    BY <1>4, <2>1, <2>2
<1>6. revision' >= 1 /\ revision' - 1 = revision /\ scopeAt'[revision] = scope
  BY <1>4, <1>5
<1>7. HeadOf(branches[group].parentLineage)' = t /\ StepId' = StepId
  BY <1>2 DEF HeadOf, StepId
<1>. QED
  BY <1>1, <1>2, <1>3, <1>5, <1>6, <1>7 DEF MergeLeft

\* What is left of the command after a step.
LEMMA TodoKept ==
    ASSUME SessionInv, [SessionNext]_sessionVars
    PROVE  (PointsLeft \/ MergeLeft)'
<1>1. CASE SubmitPoint
  BY <1>1, PointLeaves
<1>2. CASE \E first, second \in StepId : CmdMerge(<<first, second>>)
  BY <1>2, MergeStarts
<1>3. CASE \E points \in Points, ref \in StepId \cup {0} : CmdSolve(points, ref)
  BY <1>3, SolveLeaves
<1>4. CASE FinishMerge
  BY <1>4, NothingLeft DEF FinishMerge
<1>5. CASE Idle /\ todo' = todo
  BY <1>5, NothingLeft DEF Idle
<1>6. CASE UNCHANGED sessionVars
  <2>1. /\ todo' = todo /\ wsteps' = wsteps /\ view' = view /\ group' = group
        /\ branches' = branches /\ revision' = revision /\ scopeAt' = scopeAt
        /\ scope' = scope /\ scopes' = scopes /\ heads' = heads
    BY <1>6 DEF sessionVars, frontendVars, workflowVars, timelineVars, logVars, recordVars,
                kernelVars, scopeVars
  <2>2. StepId' = StepId /\ InView' = InView
        /\ HeadOf(branches[group].parentLineage)' = HeadOf(branches[group].parentLineage)
    BY <2>1 DEF StepId, InView, StepsIn, HeadOf
  <2>3. CASE MergeLeft
    BY <2>1, <2>2, <2>3 DEF MergeLeft
  <2>4. CASE PointsLeft
    <3>1. \A x : PointOK(x) => PointOK(x)'
      BY <2>1, <2>2 DEF PointOK, Fits
    <3>. QED
      BY <2>1, <2>4, <3>1 DEF PointsLeft
  <2>. QED
    BY <2>3, <2>4 DEF SessionInv
<1>. QED
  BY <1>1, <1>2, <1>3, <1>4, <1>5, <1>6
  DEF SessionNext, CmdClaim, CmdCompute, CmdCombine, CmdSplit, CmdEnter, CmdIntroduce, CmdFocus,
      CmdUndo, CmdRedo, frontendVars

LEMMA SessionInvStep ==
    ASSUME SessionInv, [SessionNext]_sessionVars
    PROVE  SessionInv'
<1>1. Commands
  BY SessionStep
<1>. QED
  BY <1>1, CommandsKeep, TodoKept DEF SessionInv

-----------------------------------------------------------------------------
(* The theorems.                                                            *)

LEMMA SessionInvInit == SessionInit => SessionInv
<1>. SUFFICES ASSUME SessionInit PROVE SessionInv
  OBVIOUS
<1>1. WorkflowInv
  BY WorkflowInvInit DEF SessionInit
<1>2. LineInv
  BY LineInvInit DEF SessionInit, WorkflowInit, TimelineInit
<1>3. /\ wsteps = <<>> /\ basis = <<>> /\ focus = 0 /\ chosen = FALSE /\ group = 0
      /\ todo = <<>> /\ StepId = {}
  BY DEF SessionInit, WorkflowInit, StepId
<1>4. ViewInv
  <2>1. OlderPremises
    BY <1>3, EmptyIsASequence DEF OlderPremises
  <2>2. PremisesOnTheLine
    BY <1>3 DEF PremisesOnTheLine
  <2>3. FocusInv
    BY <1>3 DEF FocusInv, FocusFollowsTheView
  <2>. QED
    BY <2>1, <2>2, <2>3 DEF ViewInv
<1>5. PointsLeft
  <2>1. IsASequence(todo) /\ Len(todo) = 0
    BY <1>3, EmptyIsASequence
  <2>. QED
    BY <2>1 DEF PointsLeft
<1>. QED
  BY <1>1, <1>2, <1>4, <1>5 DEF SessionInv

LEMMA SessionInvAlways == SessionSpec => []SessionInv
<1>1. SessionInv /\ [SessionNext]_sessionVars => SessionInv'
  BY SessionInvStep
<1>. QED
  BY <1>1, SessionInvInit, PTL DEF SessionSpec

\* A conversation does to the workflow only what the workflow allows: every
\* command, with all the operations it performs, is a sequence of steps of the
\* workflow (repl.py only calls session.w). What is shown of the workflow
\* therefore holds in every conversation.
THEOREM SessionImplementsWorkflow == SessionSpec => OperatesTheWorkflow
<1>1. SessionInit => WorkflowInit
  BY DEF SessionInit
<1>2. SessionInv /\ [SessionNext]_sessionVars => [WorkflowNext]_workflowVars
  BY SessionStep DEF Commands
<1>. QED
  BY <1>1, <1>2, SessionInvAlways, PTL DEF SessionSpec, WorkflowSpec, OperatesTheWorkflow

\* Once a step was recorded one is in view and one in focus, whatever is undone
\* and redone, and the focus is in view unless the user picked it.
THEOREM FocusCorrect == SessionSpec => []FocusFollowsTheView
<1>1. SessionInv => FocusFollowsTheView
  BY DEF SessionInv, ViewInv, FocusInv
<1>. QED
  BY <1>1, SessionInvAlways, PTL

\* A set that rests on itself holds whatever is reached from one of its steps.
LEMMA ReachStays ==
    ASSUME NEW k \in StepId, NEW from, NEW T \in SUBSET StepId, k \in T,
           \A j \in T : from[j] \subseteq T
    PROVE  Reach(k, from) \subseteq T
BY DEF Reach

\* What is reached rests on what is reached.
LEMMA ReachCloses ==
    ASSUME NEW k \in StepId, NEW from, \A j \in StepId : from[j] \subseteq StepId
    PROVE  /\ Reach(k, from) \subseteq StepId /\ k \in Reach(k, from)
           /\ \A j \in Reach(k, from) : from[j] \subseteq Reach(k, from)
<1>1. Reach(k, from) \subseteq StepId /\ k \in Reach(k, from)
  BY DEF Reach
<1>2. ASSUME NEW j \in Reach(k, from), NEW i \in from[j],
             NEW T \in SUBSET StepId, k \in T, \A m \in T : from[m] \subseteq T
      PROVE  i \in T
  <2>1. j \in T
    BY <1>2, ReachStays
  <2>. QED
    BY <1>2, <2>1
<1>3. \A j \in Reach(k, from) : from[j] \subseteq Reach(k, from)
  BY <1>1, <1>2 DEF Reach
<1>. QED
  BY <1>1, <1>3

\* Premises named in view keep the whole derivation in view.
LEMMA DerivationHolds == SessionInv => DerivationsStayInView
<1>. SUFFICES ASSUME SessionInv, NEW k \in InView,
                     \A j \in DerivationOf(k) : ~basis[j].stale
              PROVE  DerivationOf(k) \subseteq InView /\ ProblemOf(k) \in InView \cup {0}
  BY DEF DerivationsStayInView
<1>. PICK from : from = [j \in StepId |-> Range(basis[j].on)]
  OBVIOUS
<1>. PICK first : first = FirstPremise
  OBVIOUS
<1>. PICK D : D = DerivationOf(k)
  OBVIOUS
<1>1. k \in StepId /\ D = Reach(k, from) /\ Len(wsteps) \in Nat
  BY SequenceShape DEF InView, StepsIn, DerivationOf, SessionInv, WorkflowInv, RecordSeqs
<1>2. \A j \in StepId : from[j] \subseteq StepId /\ from[j] = Range(basis[j].on)
  BY OldSteps DEF SessionInv, ViewInv
<1>3. D \subseteq StepId /\ k \in D /\ \A j \in D : from[j] \subseteq D
  BY <1>1, <1>2, ReachCloses
<1>4. ASSUME NEW j \in D \cap InView, NEW i \in from[j]
      PROVE  i \in D \cap InView
  <2>1. i \in D /\ i \in Range(basis[j].on) /\ j \in StepId /\ i \in StepId /\ ~basis[j].stale
    BY <1>2, <1>3
  <2>2. wsteps[j].event \in Range(view)
    BY DEF InView, StepsIn
  <2>3. wsteps[j].event \in Range(Line)
    BY <2>2, ViewOnTheLine DEF SessionInv
  <2>4. wsteps[i].event \in Range(Line) /\ wsteps[i].event < wsteps[j].event
    BY <2>1, <2>3, OldSteps DEF SessionInv, ViewInv, PremisesOnTheLine
  <2>5. wsteps[i].event \in Range(view)
    BY <2>2, <2>4, ViewOnTheLine DEF SessionInv
  <2>. QED
    BY <2>1, <2>5 DEF InView, StepsIn
<1>5. D \subseteq InView
  <2>1. D \cap InView \in SUBSET StepId /\ k \in D \cap InView
    BY <1>3
  <2>2. \A j \in D \cap InView : from[j] \subseteq D \cap InView
    BY <1>4
  <2>3. Reach(k, from) \subseteq D \cap InView
    BY <1>1, <2>1, <2>2, ReachStays, Zenon
  <2>. QED
    BY <1>1, <2>3
<1>6. \A j \in StepId : first[j] \subseteq from[j]
  <2>. SUFFICES ASSUME NEW j \in StepId, basis[j].premises # <<>>
                PROVE  basis[j].premises[1] \in Range(basis[j].on)
    BY <1>2 DEF FirstPremise
  <2>1. IsASequence(basis[j].on) /\ basis[j].premises = basis[j].on
    BY DEF SessionInv, ViewInv, OlderPremises
  <2>2. PICK S : basis[j].on \in Seq(S)
    BY <2>1 DEF IsASequence
  <2>3. 1 \in DOMAIN basis[j].on
    BY <2>1, <2>2
  <2>. QED
    BY <2>1, <2>3 DEF Range
<1>7. Reach(k, first) \subseteq D
  <2>1. \A j \in D : first[j] \subseteq D
    BY <1>3, <1>6
  <2>2. D \in SUBSET StepId
    BY <1>3
  <2>. QED
    BY <1>1, <1>3, <2>1, <2>2, ReachStays, Zenon
<1>8. ProblemOf(k) \in InView \cup {0}
  <2>. PICK equations : equations = {j \in Reach(k, first) : wsteps[j].content \in Equations}
    OBVIOUS
  <2>1. ProblemOf(k) = IF equations = {} THEN 0 ELSE Min(equations)
    BY DEF ProblemOf
  <2>2. equations \subseteq InView /\ equations \in SUBSET StepId
    BY <1>3, <1>5, <1>7
  <2>3. equations # {} => Min(equations) \in equations
    BY <1>1, <2>2, LastIsOne
  <2>. QED
    BY <2>1, <2>2, <2>3
<1>. QED
  BY <1>5, <1>8

\* Undo leaves no stale target behind: whatever a step in view was derived
\* from, and the equation it is checked against, are in view, unless the user
\* reached for a step out of view (repl.py 867-886, _problem_of).
THEOREM DerivationsCorrect == SessionSpec => []DerivationsStayInView
<1>. QED
  BY DerivationHolds, SessionInvAlways, PTL

\* How a command that merges ends.
LEMMA MergeEnds ==
    ASSUME SessionInv, SessionInv', [SessionNext]_sessionVars,
           ~Idle, Head(todo).kind = "merge", ~UNCHANGED sessionVars
    PROVE  LET undone == IF wsteps' = wsteps THEN 1 ELSE 2
           IN  /\ scopeAt'[revision' - undone] = Head(todo).from
               /\ scope' = HeadOf(branches[group].parentLineage)
<1>1. FinishMerge
  BY DEF SessionNext, CmdClaim, CmdCompute, CmdCombine, CmdSplit, CmdEnter, CmdIntroduce, CmdFocus,
         CmdUndo, CmdRedo, CmdSolve, CmdMerge, SubmitPoint
<1>. PICK from : from = Head(todo).from
  OBVIOUS
<1>. PICK b : b = branches[group]
  OBVIOUS
<1>. PICK results, q : results = Head(todo).on /\ q = wsteps[results[1]].content
  OBVIOUS
<1>2. /\ revision >= 1 /\ scopeAt[revision - 1] = from
      /\ scope = HeadOf(b.parentLineage)
  BY NextIsAMerge
<1>3. Merge(b, q, results) \/ UNCHANGED workflowVars
  BY <1>1 DEF FinishMerge
<1>4. CASE UNCHANGED workflowVars
  <2>1. /\ wsteps' = wsteps /\ scopeAt' = scopeAt /\ revision' = revision /\ scope' = scope
    BY <1>4 DEF workflowVars, timelineVars, logVars, recordVars
  <2>. QED
    BY <1>2, <2>1
<1>5. CASE Merge(b, q, results)
  <2>1. /\ Submits /\ IsASequence(wsteps)
    BY <1>5, Submitting, EventsAreASequence DEF SessionInv, WorkflowInv, RecordSeqs
  <2>2. wsteps' # wsteps
    <3>1. PICK rec : wsteps' = Append(wsteps, rec)
      BY <2>1 DEF Submits
    <3>2. Len(wsteps') = Len(wsteps) + 1 /\ Len(wsteps) \in Nat
      BY <2>1, <3>1, Appended, SequenceShape
    <3>. QED
      BY <3>2
  <2>3. PICK name, outs : Operate(name, outs, scope)
    BY <1>5, Zenon DEF Merge, Submission, Record
  <2>4. /\ view' = Append(view, Len(events) + 1) /\ revision' = Len(view') /\ scope' = scope
        /\ scopeAt' = [r \in DOMAIN scopeAt \cup {revision'} |->
                          IF r = revision' THEN scope ELSE scopeAt[r]]
    BY <2>3 DEF Operate, AppendEvent
  <2>5. /\ Len(view) \in Nat /\ Len(future) \in Nat /\ revision = Len(view)
        /\ view \in Seq(1..Len(events))
        /\ 0..(Len(view) + Len(future)) \subseteq DOMAIN scopeAt
    BY DEF SessionInv, WorkflowInv, TimelineInv, TimelineTypeOK, LogTypeOK, PointerFollowsRevision
  <2>6. revision' = revision + 1 /\ revision' - 2 = revision - 1 /\ revision - 1 # revision'
        /\ revision - 1 \in DOMAIN scopeAt
    <3>1. revision' = Len(view) + 1
      BY <2>4, <2>5
    <3>. PICK n \in Nat, m \in Nat : n = Len(view) /\ m = Len(future)
      BY <2>5
    <3>2. revision = n /\ revision' = n + 1 /\ n >= 1 /\ 0..(n + m) \subseteq DOMAIN scopeAt
      BY <1>2, <2>5, <3>1
    <3>3. n - 1 \in 0..(n + m)
      BY <3>2
    <3>4. n - 1 \in DOMAIN scopeAt
      BY <3>2, <3>3, Zenon
    <3>. QED
      BY <3>2, <3>4
  <2>7. scopeAt'[revision' - 2] = from
    BY <1>2, <2>4, <2>6
  <2>. QED
    BY <1>2, <2>2, <2>4, <2>7
<1>. QED
  BY <1>3, <1>4, <1>5

\* A refused merge leaves only the entry of the parent behind, and one undo
\* takes that back; an accepted one needs two (repl.py cmd_merge).
THEOREM MergeEntryCorrect == SessionSpec => MergeLeavesItsEntry
<1>1. SessionInv /\ SessionInv' /\ [SessionNext]_sessionVars =>
        [~Idle /\ Head(todo).kind = "merge" =>
          LET undone == IF wsteps' = wsteps THEN 1 ELSE 2
          IN  /\ scopeAt'[revision' - undone] = Head(todo).from
              /\ scope' = HeadOf(branches[group].parentLineage)]_sessionVars
  BY MergeEnds
<1>. QED
  BY <1>1, SessionInvAlways, PTL DEF SessionSpec, MergeLeavesItsEntry
===============================================================================
