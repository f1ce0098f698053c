---------------------------- MODULE Workflow_proofs ----------------------------
(***************************************************************************)
(* Theorems about the workflow: its records point at what exists, its      *)
(* steps are steps of the undo/redo layer, nothing is assumed that nobody  *)
(* asked for, the graphs agree on provenance, and aliases stay acyclic.    *)
(***************************************************************************)
EXTENDS Workflow, KernelLedger_proofs, Timeline_proofs

-----------------------------------------------------------------------------
(* Sequences whose elements are of no fixed kind.                           *)

IsASequence(s) == \E S : s \in Seq(S)

LEMMA SequenceShape ==
    ASSUME NEW s, IsASequence(s)
    PROVE  Len(s) \in Nat /\ DOMAIN s = 1..Len(s)
<1>1. PICK S : s \in Seq(S)
  BY DEF IsASequence
<1>. QED
  BY <1>1

\* What append does to a sequence of anything.
LEMMA Appended ==
    ASSUME NEW s, IsASequence(s), NEW e
    PROVE  /\ IsASequence(Append(s, e))
           /\ Len(Append(s, e)) = Len(s) + 1
           /\ \A k \in 1..Len(s) : Append(s, e)[k] = s[k]
           /\ Append(s, e)[Len(s) + 1] = e
<1>1. PICK S : s \in Seq(S)
  BY DEF IsASequence
<1>. DEFINE T == S \cup {e}
<1>2. s \in Seq(T) /\ e \in T
  <2>1. S \subseteq T
    OBVIOUS
  <2>. QED
    BY <1>1, <2>1
<1>. HIDE DEF T
<1>3. Append(s, e) \in Seq(T)
  BY <1>2
<1>. QED
  BY <1>2, <1>3 DEF IsASequence

\* The empty sequence.
LEMMA EmptyIsASequence == IsASequence(<<>>)
<1>1. <<>> \in Seq({})
  OBVIOUS
<1>. QED
  BY <1>1 DEF IsASequence

-----------------------------------------------------------------------------
(* The inductive invariant: the records point at what exists.               *)

RecordSeqs ==
    /\ IsASequence(wsteps)
    /\ IsASequence(tasks)
    /\ IsASequence(branches)
    /\ IsASequence(constraints)

\* Every record came with an operation, so the bound on those bounds them.
Counts ==
    /\ Len(wsteps) <= Len(events)
    /\ Len(tasks) <= Len(wsteps)
    /\ Len(branches) <= Len(events)
    /\ Len(constraints) <= Len(events)
    /\ Len(scopes) <= MaxScopes

\* The pointer, and every pointer undo may bring back, is a version.
PointersExist ==
    /\ scope \in ScopeId
    /\ \A r \in DOMAIN scopeAt : scopeAt[r] \in ScopeId

\* A step records the proposition and the conditions of its judgment.
StepOK(k) ==
    /\ wsteps[k].content \in Prop
    /\ wsteps[k].judgment \in {0} \cup JudgmentId
    /\ wsteps[k].judgment # 0 =>
          /\ judgments[wsteps[k].judgment].proposition = wsteps[k].content
          /\ wsteps[k].guards = Conditions(wsteps[k].judgment)
    /\ wsteps[k].event \in 1..Len(events)
    /\ wsteps[k].scope \in ScopeId

\* The candidate of a task is validated by the judgment of its step.
TaskOK(t) ==
    /\ tasks[t].artifact \in StepId
    /\ tasks[t].validation = wsteps[tasks[t].artifact].judgment

\* The cases of a branch group are lineages of their own inside its parent, each
\* assuming its condition; the coverage says that one of the two holds.
CaseOK(lineage, c) ==
    /\ c.condition \in Prop
    /\ c.scope \in ScopeId
    /\ scopes[c.scope].lineage = c.scope
    /\ scopes[c.scope].entries.assumed = {c.condition}
    /\ scopes[c.scope].parent \in ScopeId
    /\ scopes[scopes[c.scope].parent].lineage = lineage

BranchOK(b) ==
    /\ branches[b].parentLineage \in DOMAIN heads
    /\ \A i \in 1..2 : CaseOK(branches[b].parentLineage, branches[b].cases[i])
    /\ branches[b].coverage \in {0} \cup JudgmentId
    /\ branches[b].coverage # 0 =>
          /\ judgments[branches[b].coverage].proposition =
                Or(branches[b].cases[1].condition, branches[b].cases[2].condition)
          /\ Conditions(branches[b].coverage) = {}

WorkflowInv ==
    /\ StoreInv
    /\ TimelineInv
    /\ RecordSeqs
    /\ Counts
    /\ PointersExist
    /\ \A k \in StepId : StepOK(k)
    /\ \A t \in DOMAIN tasks : TaskOK(t)
    /\ \A b \in DOMAIN branches : BranchOK(b)

\* What has been recorded stays as it was recorded.
RecordsGrow ==
    /\ Len(wsteps) <= Len(wsteps')
    /\ \A k \in StepId : wsteps'[k] = wsteps[k]
    /\ Len(tasks) <= Len(tasks')
    /\ \A t \in DOMAIN tasks : tasks'[t] = tasks[t]
    /\ Len(branches) <= Len(branches')
    /\ \A b \in DOMAIN branches : branches'[b] = branches[b]
    /\ Len(events) <= Len(events')

\* A lineage has a head for good.
LEMMA HeadsKept ==
    ASSUME ScopeInv, ScopeInv', ScopesGrow, NEW l \in DOMAIN heads
    PROVE  l \in DOMAIN heads'
<1>1. PICK s \in ScopeId : scopes[s].lineage = l
  BY DEF ScopeInv, ScopeTypeOK
<1>2. s \in ScopeId' /\ scopes'[s] = scopes[s]
  BY DEF ScopeInv, ScopesGrow, ScopeId
<1>3. scopes'[s].lineage \in DOMAIN heads'
  BY <1>2 DEF ScopeInv, ScopeTypeOK
<1>. QED
  BY <1>1, <1>2, <1>3

\* Records stay right while contexts, ledger and records grow.
LEMMA OldRecordsOK ==
    ASSUME WorkflowInv, StoreInv', TimelineInv', RecordSeqs', ScopesGrow, LedgerGrows, RecordsGrow
    PROVE  /\ \A k \in StepId : StepOK(k)'
           /\ \A t \in DOMAIN tasks : TaskOK(t)'
           /\ \A b \in DOMAIN branches : BranchOK(b)'
<1>1. /\ ScopeInv /\ ScopeInv' /\ LedgerInv
  BY DEF WorkflowInv, StoreInv
<1>2. /\ \A s \in ScopeId : s \in ScopeId' /\ scopes'[s] = scopes[s]
      /\ \A j \in JudgmentId : /\ j \in JudgmentId' /\ judgments'[j] = judgments[j]
                               /\ Conditions(j)' = Conditions(j)
  BY <1>1, GroundStable DEF ScopesGrow, LedgerGrows
<1>3. /\ Len(events) \in Nat /\ Len(events') \in Nat /\ Len(events) <= Len(events')
      /\ Len(wsteps) \in Nat /\ Len(wsteps') \in Nat /\ Len(wsteps) <= Len(wsteps')
  <2>1. Len(events) \in Nat /\ Len(events') \in Nat
    BY DEF WorkflowInv, TimelineInv, TimelineTypeOK, LogTypeOK
  <2>2. Len(wsteps) \in Nat /\ Len(wsteps') \in Nat
    BY SequenceShape DEF WorkflowInv, RecordSeqs
  <2>. QED
    BY <2>1, <2>2 DEF RecordsGrow
<1>4. \A k \in StepId : k \in StepId' /\ wsteps'[k] = wsteps[k]
  BY <1>3 DEF StepId, RecordsGrow
<1>5. ASSUME NEW k \in StepId
      PROVE  StepOK(k)'
  <2>1. StepOK(k) /\ wsteps'[k] = wsteps[k]
    BY <1>4 DEF WorkflowInv
  <2>2. wsteps[k].event \in 1..Len(events')
    BY <1>3, <2>1 DEF StepOK
  <2>3. wsteps[k].judgment \in {0} \cup JudgmentId'
    BY <1>2, <2>1 DEF StepOK
  <2>4. wsteps[k].judgment # 0 =>
          /\ judgments'[wsteps[k].judgment].proposition = wsteps[k].content
          /\ wsteps[k].guards = Conditions(wsteps[k].judgment)'
    BY <1>2, <2>1 DEF StepOK
  <2>. QED
    BY <1>2, <2>1, <2>2, <2>3, <2>4 DEF StepOK
<1>6. ASSUME NEW t \in DOMAIN tasks
      PROVE  TaskOK(t)'
  <2>1. TaskOK(t) /\ tasks'[t] = tasks[t]
    BY DEF WorkflowInv, RecordsGrow
  <2>. QED
    BY <1>4, <2>1 DEF TaskOK
<1>7. ASSUME NEW b \in DOMAIN branches
      PROVE  BranchOK(b)'
  <2>1. BranchOK(b) /\ branches'[b] = branches[b]
    BY DEF WorkflowInv, RecordsGrow
  <2>2. branches[b].parentLineage \in DOMAIN heads'
    BY <1>1, <2>1, HeadsKept DEF BranchOK
  <2>3. ASSUME NEW i \in 1..2
        PROVE  CaseOK(branches[b].parentLineage, branches[b].cases[i])'
    <3>1. CaseOK(branches[b].parentLineage, branches[b].cases[i])
      BY <2>1 DEF BranchOK
    <3>. QED
      BY <1>2, <2>1, <3>1 DEF CaseOK
  <2>4. branches[b].coverage \in {0} \cup JudgmentId'
    BY <1>2, <2>1 DEF BranchOK
  <2>5. branches[b].coverage # 0 =>
          /\ judgments'[branches[b].coverage].proposition =
                Or(branches[b].cases[1].condition, branches[b].cases[2].condition)
          /\ Conditions(branches[b].coverage)' = {}
    BY <1>2, <2>1 DEF BranchOK
  <2>. QED
    BY <2>1, <2>2, <2>3, <2>4, <2>5 DEF BranchOK
<1>. QED
  BY <1>5, <1>6, <1>7

-----------------------------------------------------------------------------
(* Every operation is a step of the undo/redo layer.                         *)

\* An operation that leaves the pointer at a version there is.
LEMMA OperateShape ==
    ASSUME WorkflowInv, ScopeInv', ScopesGrow, Len(scopes') <= MaxScopes,
           NEW name \in Command, NEW outs \in SUBSET Ref, NEW t \in ScopeId',
           Operate(name, outs, t)
    PROVE  /\ TimelineNext /\ TimelineInv' /\ PointersExist'
           /\ Len(events') = Len(events) + 1
           /\ Len(events) \in Nat /\ Len(events) < MaxEvents
           /\ scope' = t
<1>1. t \in Pointer
  <2>1. t \in 1..MaxScopes
    BY ScopeStoreAssumption DEF ScopeInv, ScopeId
  <2>. QED
    BY <2>1, WorkflowAssumption
<1>2. TimelineNext
  BY <1>1 DEF TimelineNext
<1>3. TimelineInv'
  BY <1>2, TimelineInvStep DEF WorkflowInv
<1>4. events \in Seq(Event) /\ Len(events) \in Nat
  BY DEF WorkflowInv, TimelineInv, TimelineTypeOK, LogTypeOK
<1>5. Len(events') = Len(events) + 1 /\ Len(events) < MaxEvents
  BY <1>4 DEF Operate, AppendEvent
<1>6. scope' = t
  BY DEF Operate
<1>7. \A s \in ScopeId : s \in ScopeId'
  BY DEF WorkflowInv, StoreInv, ScopeInv, ScopesGrow, ScopeId
<1>8. \A r \in DOMAIN scopeAt' : scopeAt'[r] = t \/ (r \in DOMAIN scopeAt /\ scopeAt'[r] = scopeAt[r])
  BY DEF Operate
<1>9. PointersExist'
  BY <1>6, <1>7, <1>8 DEF PointersExist, WorkflowInv
<1>. QED
  BY <1>2, <1>3, <1>4, <1>5, <1>6, <1>9

\* Undo and redo bring back a version there is.
LEMMA RestoreShape ==
    ASSUME WorkflowInv, UNCHANGED kernelVars, Undo \/ Redo
    PROVE  /\ TimelineNext /\ TimelineInv' /\ PointersExist'
           /\ events' = events /\ producers' = producers
<1>1. TimelineNext /\ TimelineInv'
  BY TimelineInvStep DEF TimelineNext, WorkflowInv
<1>2. events' = events /\ producers' = producers /\ scopeAt' = scopeAt
  BY DEF Undo, Redo, UndoEvent, RedoEvent, Restore
<1>3. revision' \in DOMAIN scopeAt /\ scope' = scopeAt'[revision']
  <2>1. /\ Len(view') \in Nat /\ Len(future') \in Nat /\ revision' = Len(view')
        /\ 0..(Len(view') + Len(future')) \subseteq DOMAIN scopeAt'
        /\ scope' = scopeAt'[revision']
    BY <1>1 DEF TimelineInv, TimelineTypeOK, LogTypeOK, PointerFollowsRevision
  <2>2. revision' \in 0..(Len(view') + Len(future'))
    BY <2>1
  <2>. QED
    BY <1>2, <2>1, <2>2
<1>4. ScopeId' = ScopeId
  BY DEF kernelVars, scopeVars, ScopeId
<1>. QED
  BY <1>1, <1>2, <1>3, <1>4 DEF PointersExist, WorkflowInv

-----------------------------------------------------------------------------
(* Submissions.                                                             *)

\* What a submission answered with `answer` leaves in the records and the index.
Recorded(p, answer, s) ==
    LET new == Len(wsteps) + 1
        j == IF answer = "committed" THEN Len(judgments) + 1 ELSE 0
    IN  /\ Len(wsteps') = new
        /\ \A k \in StepId : wsteps'[k] = wsteps[k]
        /\ wsteps'[new].content = p.conclusion
        /\ wsteps'[new].judgment = j
        /\ wsteps'[new].scope = s
        /\ wsteps'[new].event = Len(events) + 1
        /\ \E outs \in SUBSET Ref :
              /\ producers' = Indexed(producers, outs, Len(events) + 1)
              /\ \A i \in Nat \ {0} : Reference("judgment", i) \in outs <=> i = j

\* The references an operation outputs are in the vocabulary.
LEMMA OutputsInVocabulary ==
    ASSUME Len(wsteps) \in Nat, Len(tasks) \in Nat, Len(wsteps) < MaxEvents,
           Len(tasks) <= Len(wsteps), NEW request, NEW j \in 0..MaxJudgments
    PROVE  /\ Outputs(request, j) \in SUBSET Ref
           /\ \A i \in Nat \ {0} : Reference("judgment", i) \in Outputs(request, j) <=> i = j
<1>1. /\ MaxEvents \in Nat /\ MaxScopes \in Nat /\ MaxJudgments \in Nat
  BY EventLogAssumption, ScopeStoreAssumption, KernelAssumption
<1>. DEFINE n == MaxEvents + MaxScopes + MaxJudgments
<1>2. /\ Len(wsteps) + 1 \in 1..n /\ Len(tasks) + 1 \in 1..n
      /\ j # 0 => j \in 1..n
  BY <1>1
<1>3. \A kind \in {"artifact", "task", "judgment"}, id \in 1..n : Reference(kind, id) \in Ref
  BY VocabularyAssumption
<1>. HIDE DEF n
<1>4. Outputs(request, j) \in SUBSET Ref
  BY <1>2, <1>3 DEF Outputs
<1>5. \A i : /\ Reference("judgment", i) # Reference("artifact", Len(wsteps) + 1)
             /\ Reference("judgment", i) # Reference("task", Len(tasks) + 1)
             /\ Reference("judgment", i) = Reference("judgment", j) => i = j
  BY DEF Reference
<1>. QED
  BY <1>4, <1>5 DEF Outputs

\* A submission, whatever it answers, keeps the invariant.
LEMMA SubmissionShape ==
    ASSUME WorkflowInv, NEW name \in Command, NEW p, NEW answer, NEW request,
           NEW s \in ScopeId, NEW t \in ScopeId',
           Submission(name, p, answer, request, s, t),
           p.conclusion \in Prop, answer = "committed" => Proposed(p),
           ScopeInv', ScopesGrow, Len(scopes') <= MaxScopes, UNCHANGED <<branches, constraints>>
    PROVE  /\ WorkflowInv' /\ LedgerGrows /\ RecordsGrow /\ TimelineNext
           /\ Recorded(p, answer, s)
           /\ IF answer = "committed" THEN Commit(p) ELSE UNCHANGED ledgerVars
<1>0. /\ StoreInv /\ ScopeInv /\ LedgerInv /\ RecordSeqs /\ Counts
      /\ Len(wsteps) \in Nat /\ Len(tasks) \in Nat /\ Len(judgments) \in Nat
      /\ DOMAIN tasks = 1..Len(tasks)
  BY SequenceShape DEF WorkflowInv, StoreInv, RecordSeqs, LedgerInv, LedgerSeqs
<1>. PICK j : j = IF answer = "committed" THEN Len(judgments) + 1 ELSE 0
  OBVIOUS
<1>. PICK new : new = Len(wsteps) + 1
  OBVIOUS
<1>1. PICK guards, status : Record(name, p.conclusion, status, j, guards, request, s, t) /\
            (answer = "committed" => guards = Conditions(j)')
  <2>1. CASE answer = "committed"
    <3>1. Record(name, p.conclusion, answer, j,
                 {requirements'[r].proposition : r \in judgments'[j].requirements},
                 request, s, t)
      BY <2>1 DEF Submission
    <3>2. {requirements'[r].proposition : r \in judgments'[j].requirements} = Conditions(j)'
      BY DEF Conditions
    <3>. QED
      BY <3>1, <3>2
  <2>2. CASE answer # "committed"
    <3>1. Record(name, p.conclusion, answer, j,
                 IF answer = "needs_split" THEN {ToSplit(p)} ELSE {}, request, s, t)
      BY <2>2 DEF Submission
    <3>. QED
      BY <2>2, <3>1
  <2>. QED
    BY <2>1, <2>2
<1>2. IF answer = "committed" THEN Commit(p) ELSE UNCHANGED ledgerVars
  BY DEF Submission
<1>3. StoreInv' /\ LedgerGrows
  BY <1>0, <1>2, CommitKeepsStore, ScopesGrowKeepsStore
<1>4. j \in 0..MaxJudgments
  BY <1>0, <1>2, KernelAssumption DEF Commit
<1>5. Operate(name, Outputs(request, j), t)
  BY <1>1 DEF Record
<1>6. Len(wsteps) < MaxEvents
  <2>1. Len(events) < MaxEvents /\ Len(events) \in Nat
    BY <1>5 DEF Operate, AppendEvent, WorkflowInv, TimelineInv, TimelineTypeOK, LogTypeOK
  <2>. QED
    BY <1>0, <2>1, EventLogAssumption DEF Counts
<1>7. Outputs(request, j) \in SUBSET Ref
      /\ \A i \in Nat \ {0} : Reference("judgment", i) \in Outputs(request, j) <=> i = j
  BY <1>0, <1>4, <1>6, OutputsInVocabulary DEF Counts
<1>8. /\ TimelineNext /\ TimelineInv' /\ PointersExist'
      /\ Len(events') = Len(events) + 1 /\ Len(events) \in Nat
  BY <1>5, <1>7, OperateShape
<1>9. PICK record, task :
        /\ wsteps' = Append(wsteps, record)
        /\ tasks' = tasks \/ tasks' = Append(tasks, task)
        /\ record.content = p.conclusion /\ record.judgment = j /\ record.guards = guards
        /\ record.scope = s /\ record.event = Len(events) + 1
        /\ task.artifact = new /\ task.validation = j
  <2>. DEFINE record == [content |-> p.conclusion, status |-> status, judgment |-> j,
                         guards |-> guards,
                         task |-> IF request = NoRequest THEN 0 ELSE Len(tasks) + 1,
                         scope |-> s, event |-> Len(events) + 1]
              task == [scope |-> s, request |-> request, artifact |-> new, validation |-> j]
  <2>1. wsteps' = Append(wsteps, record) /\ (tasks' = tasks \/ tasks' = Append(tasks, task))
    BY <1>1 DEF Record
  <2>2. /\ record.content = p.conclusion /\ record.judgment = j /\ record.guards = guards
        /\ record.scope = s /\ record.event = Len(events) + 1
        /\ task.artifact = new /\ task.validation = j
    OBVIOUS
  <2>. HIDE DEF record, task
  <2>. QED
    BY <2>1, <2>2
<1>11. /\ IsASequence(wsteps') /\ Len(wsteps') = new
       /\ \A k \in StepId : wsteps'[k] = wsteps[k]
       /\ wsteps'[new] = record
  BY <1>0, <1>9, Appended DEF StepId, RecordSeqs
<1>12. /\ IsASequence(tasks')
       /\ Len(tasks') = Len(tasks) \/ (Len(tasks') = Len(tasks) + 1 /\ tasks'[Len(tasks) + 1] = task)
       /\ \A i \in DOMAIN tasks : tasks'[i] = tasks[i]
  <2>1. CASE tasks' = tasks
    BY <1>0, <2>1 DEF RecordSeqs
  <2>2. CASE tasks' = Append(tasks, task)
    <3>1. /\ IsASequence(tasks')
          /\ Len(tasks') = Len(tasks) + 1
          /\ \A i \in 1..Len(tasks) : tasks'[i] = tasks[i]
          /\ tasks'[Len(tasks) + 1] = task
      <4>1. IsASequence(tasks)
        BY <1>0 DEF RecordSeqs
      <4>. QED
        BY <2>2, <4>1, Appended
    <3>. QED
      BY <1>0, <3>1
  <2>. QED
    BY <1>9, <2>1, <2>2
<1>13. /\ StepId = 1..Len(wsteps) /\ StepId' = 1..new /\ new \in StepId'
       /\ \A k \in StepId' : k \in StepId \/ k = new
       /\ DOMAIN tasks' = 1..Len(tasks') /\ Len(tasks') \in Nat
  BY <1>0, <1>11, <1>12, SequenceShape DEF StepId
<1>14. RecordSeqs' /\ RecordsGrow /\ Counts'
  <2>1. RecordSeqs'
    BY <1>0, <1>11, <1>12 DEF RecordSeqs
  <2>2. RecordsGrow
    <3>1. Len(branches) \in Nat
      BY <1>0, SequenceShape DEF RecordSeqs
    <3>. QED
      BY <1>0, <1>8, <1>11, <1>12, <3>1 DEF RecordsGrow
  <2>3. Counts'
    <3>1. Len(branches) \in Nat /\ Len(constraints) \in Nat
      BY <1>0, SequenceShape DEF RecordSeqs
    <3>. QED
      BY <1>0, <1>8, <1>11, <1>12, <3>1 DEF Counts
  <2>. QED
    BY <2>1, <2>2, <2>3
<1>15. /\ \A k \in StepId : StepOK(k)'
       /\ \A i \in DOMAIN tasks : TaskOK(i)'
       /\ \A b \in DOMAIN branches : BranchOK(b)'
  BY <1>3, <1>8, <1>14, OldRecordsOK
<1>16. StepOK(new)'
  <2>1. s \in ScopeId'
    BY <1>0, <1>3, GroundStable
  <2>2. Len(events) + 1 \in 1..Len(events')
    BY <1>8
  <2>3. CASE answer = "committed"
    <3>1. PICK direct \in Seq(Prop) : \E settled \in InOrder(SettledAt(p, direct)) :
              Wrote(p, direct, settled)
      BY <1>0, <1>2, <2>3, CommitShape
    <3>2. PICK settled \in InOrder(SettledAt(p, direct)) : Wrote(p, direct, settled)
      BY <3>1
    <3>3. judgments'[j].proposition = p.conclusion
      BY <2>3, <3>2 DEF Wrote
    <3>4. j \in JudgmentId'
      <4>1. JudgmentId' = 1..(Len(judgments) + 1 + Len(settled)) /\ Len(settled) \in Nat
        BY <1>0, <3>2, WroteIds
      <4>. QED
        BY <1>0, <2>3, <4>1
    <3>. QED
      BY <1>1, <1>9, <1>11, <2>1, <2>2, <2>3, <3>3, <3>4 DEF StepOK
  <2>4. CASE answer # "committed"
    <3>1. j = 0
      BY <2>4
    <3>. QED
      BY <1>9, <1>11, <2>1, <2>2, <3>1 DEF StepOK
  <2>. QED
    BY <2>3, <2>4
<1>17. \A k \in StepId' : StepOK(k)'
  BY <1>13, <1>15, <1>16
<1>18. \A i \in DOMAIN tasks' : TaskOK(i)'
  <2>1. \A i \in DOMAIN tasks' : i \in DOMAIN tasks \/ tasks'[i] = task
    <3>1. CASE Len(tasks') = Len(tasks)
      BY <1>0, <1>13, <3>1
    <3>2. CASE Len(tasks') = Len(tasks) + 1 /\ tasks'[Len(tasks) + 1] = task
      <4>1. \A i \in 1..(Len(tasks) + 1) : i \in 1..Len(tasks) \/ i = Len(tasks) + 1
        BY <1>0
      <4>. QED
        BY <1>0, <1>13, <3>2, <4>1
    <3>. QED
      BY <1>12, <3>1, <3>2
  <2>2. ASSUME NEW i \in DOMAIN tasks', tasks'[i] = task
        PROVE  TaskOK(i)'
    BY <1>9, <1>11, <1>13, <2>2 DEF TaskOK
  <2>. QED
    BY <1>15, <2>1, <2>2
<1>19. \A b \in DOMAIN branches' : BranchOK(b)'
  BY <1>15
<1>20. WorkflowInv'
  BY <1>3, <1>8, <1>14, <1>17, <1>18, <1>19 DEF WorkflowInv
<1>21. Recorded(p, answer, s)
  <2>1. producers' = Indexed(producers, Outputs(request, j), Len(events) + 1)
    BY <1>5 DEF Operate, AppendEvent
  <2>. QED
    BY <1>7, <1>9, <1>11, <2>1 DEF Recorded
<1>. QED
  BY <1>2, <1>3, <1>8, <1>14, <1>20, <1>21

-----------------------------------------------------------------------------
(* The other operations.                                                    *)

\* What an operation that records no step must show.
LEMMA QuietShape ==
    ASSUME WorkflowInv, StoreInv', LedgerGrows, ScopesGrow, Len(scopes') <= MaxScopes,
           TimelineInv', PointersExist', UNCHANGED <<wsteps, tasks>>,
           IsASequence(branches'), IsASequence(constraints'),
           Len(events) <= Len(events'), Len(branches) <= Len(branches'),
           Len(branches') <= Len(events'), Len(constraints') <= Len(events'),
           \A b \in DOMAIN branches : branches'[b] = branches[b],
           \A b \in DOMAIN branches' : b \in DOMAIN branches \/ BranchOK(b)'
    PROVE  WorkflowInv' /\ RecordsGrow
<1>1. RecordSeqs /\ Counts
  BY DEF WorkflowInv
<1>2. RecordSeqs'
  BY <1>1 DEF RecordSeqs
<1>3. /\ Len(wsteps) \in Nat /\ Len(tasks) \in Nat
      /\ Len(events) \in Nat /\ Len(events') \in Nat
      /\ StepId' = StepId
  BY <1>1, SequenceShape
     DEF RecordSeqs, WorkflowInv, TimelineInv, TimelineTypeOK, LogTypeOK, StepId
<1>4. RecordsGrow
  BY <1>3 DEF RecordsGrow
<1>5. /\ \A k \in StepId : StepOK(k)'
      /\ \A t \in DOMAIN tasks : TaskOK(t)'
      /\ \A b \in DOMAIN branches : BranchOK(b)'
  BY <1>2, <1>4, OldRecordsOK
<1>6. Counts'
  BY <1>1, <1>3 DEF Counts
<1>7. \A b \in DOMAIN branches' : BranchOK(b)'
  BY <1>5
<1>8. /\ \A k \in StepId' : StepOK(k)'
      /\ \A t \in DOMAIN tasks' : TaskOK(t)'
  BY <1>3, <1>5
<1>. QED
  BY <1>2, <1>4, <1>6, <1>7, <1>8 DEF WorkflowInv

\* The index got nothing about a judgment.
Silent ==
    \/ producers' = producers
    \/ \E outs \in SUBSET Ref :
          /\ producers' = Indexed(producers, outs, Len(events) + 1)
          /\ \A i : Reference("judgment", i) \notin outs

\* What every step keeps.
Kept ==
    /\ WorkflowInv'
    /\ ScopesGrow
    /\ LedgerGrows
    /\ RecordsGrow
    /\ [TimelineNext]_timelineVars

\* An operation that outputs a reference to something else than a judgment.
LEMMA OperationShape ==
    ASSUME WorkflowInv, StoreInv', LedgerGrows, ScopesGrow, Len(scopes') <= MaxScopes,
           NEW name \in Command, NEW t \in ScopeId', UNCHANGED <<wsteps, tasks>>,
           NEW outs \in SUBSET Ref, Operate(name, outs, t),
           \A i : Reference("judgment", i) \notin outs,
           IsASequence(branches'), IsASequence(constraints'),
           Len(branches) <= Len(branches'), Len(branches') <= Len(branches) + 1,
           Len(constraints') <= Len(constraints) + 1,
           \A b \in DOMAIN branches : branches'[b] = branches[b],
           \A b \in DOMAIN branches' : b \in DOMAIN branches \/ BranchOK(b)'
    PROVE  Kept /\ Silent
<1>1. /\ TimelineNext /\ TimelineInv' /\ PointersExist'
      /\ Len(events') = Len(events) + 1 /\ Len(events) \in Nat
  <2>1. ScopeInv'
    BY DEF StoreInv
  <2>. QED
    BY <2>1, OperateShape
<1>2. /\ Len(branches) <= Len(events) /\ Len(constraints) <= Len(events)
      /\ Len(branches) \in Nat /\ Len(constraints) \in Nat
      /\ Len(branches') \in Nat /\ Len(constraints') \in Nat
  BY SequenceShape DEF WorkflowInv, Counts, RecordSeqs
<1>3. WorkflowInv' /\ RecordsGrow
  <2>1. /\ Len(events) <= Len(events') /\ Len(branches') <= Len(events')
        /\ Len(constraints') <= Len(events')
    BY <1>1, <1>2
  <2>. QED
    BY <1>1, <2>1, QuietShape
<1>4. Silent
  <2>1. producers' = Indexed(producers, outs, Len(events) + 1)
    BY DEF Operate, AppendEvent
  <2>. QED
    BY <2>1 DEF Silent
<1>. QED
  BY <1>1, <1>3, <1>4 DEF Kept

\* Only the history, the revision and the pointer move.
Moves == UNCHANGED <<kernelVars, wsteps, tasks, branches>> /\ Silent

\* What stands when the kernel does nothing.
LEMMA KernelStands ==
    ASSUME WorkflowInv, UNCHANGED kernelVars
    PROVE  /\ StoreInv' /\ ScopeInv' /\ LedgerGrows /\ ScopesGrow /\ Len(scopes') <= MaxScopes
           /\ ScopeId' = ScopeId
<1>1. UNCHANGED scopeVars /\ UNCHANGED ledgerVars
  BY DEF kernelVars
<1>2. ScopeInv' /\ ScopesGrow
  BY <1>1, ScopesUnchanged DEF WorkflowInv, StoreInv
<1>3. StoreInv' /\ LedgerGrows
  BY <1>1, <1>2, ScopesGrowKeepsStore DEF WorkflowInv
<1>4. scopes' = scopes
  BY <1>1 DEF scopeVars
<1>5. Len(scopes') <= MaxScopes /\ ScopeId' = ScopeId
  BY <1>4 DEF WorkflowInv, Counts, ScopeId
<1>. QED
  BY <1>2, <1>3, <1>5

\* Entering a context.
LEMMA EnterShape ==
    ASSUME WorkflowInv, NEW s \in ScopeId, Enter(s)
    PROVE  Kept /\ Moves
<1>1. UNCHANGED kernelVars /\ UNCHANGED recordVars /\ Operate("Enter", {}, HeadOf(s))
  BY DEF Enter
<1>2. /\ StoreInv' /\ ScopeInv' /\ LedgerGrows /\ ScopesGrow /\ Len(scopes') <= MaxScopes
      /\ ScopeId' = ScopeId
  BY <1>1, KernelStands
<1>3. HeadOf(s) \in ScopeId'
  <2>1. /\ DOMAIN heads = {scopes[v].lineage : v \in ScopeId}
        /\ \A l \in DOMAIN heads : heads[l] \in ScopeId
    BY DEF WorkflowInv, StoreInv, ScopeInv, ScopeTypeOK
  <2>. QED
    BY <1>2, <2>1 DEF HeadOf
<1>4. /\ wsteps' = wsteps /\ tasks' = tasks /\ branches' = branches /\ constraints' = constraints
  BY <1>1 DEF recordVars
<1>5. "Enter" \in Command
  BY VocabularyAssumption
<1>6. /\ IsASequence(branches') /\ IsASequence(constraints')
      /\ Len(branches') \in Nat /\ Len(constraints') \in Nat
  BY <1>4, SequenceShape DEF WorkflowInv, RecordSeqs
<1>7. /\ Len(branches) <= Len(branches') /\ Len(branches') <= Len(branches) + 1
      /\ Len(constraints') <= Len(constraints) + 1
  BY <1>4, <1>6
<1>8. Kept /\ Silent
  <2>1. \A b \in DOMAIN branches' : b \in DOMAIN branches \/ BranchOK(b)'
    BY <1>4
  <2>. QED
    BY <1>1, <1>2, <1>3, <1>4, <1>5, <1>6, <1>7, <2>1, OperationShape
<1>. QED
  BY <1>1, <1>4, <1>8 DEF Moves

\* Registering a constraint.
LEMMA AddConstraintShape ==
    ASSUME WorkflowInv, NEW relation, AddConstraint(relation)
    PROVE  Kept /\ Moves
<1>1. /\ UNCHANGED kernelVars /\ wsteps' = wsteps /\ tasks' = tasks /\ branches' = branches
      /\ Operate("AddConstraint", {Reference("constraint", Len(constraints) + 1)}, scope)
      /\ constraints' = Append(constraints, [scope |-> scope, relation |-> relation])
  BY DEF AddConstraint
<1>2. /\ StoreInv' /\ ScopeInv' /\ LedgerGrows /\ ScopesGrow /\ Len(scopes') <= MaxScopes
      /\ scope \in ScopeId'
  BY <1>1, KernelStands DEF WorkflowInv, PointersExist
<1>3. /\ IsASequence(branches') /\ Len(branches') \in Nat
      /\ IsASequence(constraints') /\ Len(constraints') = Len(constraints) + 1
      /\ Len(constraints) \in Nat
  BY <1>1, SequenceShape, Appended DEF WorkflowInv, RecordSeqs
<1>4. /\ "AddConstraint" \in Command
      /\ {Reference("constraint", Len(constraints) + 1)} \in SUBSET Ref
      /\ \A i : Reference("judgment", i) \notin {Reference("constraint", Len(constraints) + 1)}
  <2>1. Len(constraints) < MaxEvents
    <3>1. Len(events) < MaxEvents /\ Len(constraints) <= Len(events) /\ Len(events) \in Nat
      BY <1>1 DEF WorkflowInv, Counts, TimelineInv, TimelineTypeOK, LogTypeOK, Operate, AppendEvent
    <3>. QED
      BY <1>3, <3>1, EventLogAssumption
  <2>2. Len(constraints) + 1 \in 1..(MaxEvents + MaxScopes + MaxJudgments)
    BY <1>3, <2>1, EventLogAssumption, ScopeStoreAssumption, KernelAssumption
  <2>3. Reference("constraint", Len(constraints) + 1) \in Ref
    BY <2>2, VocabularyAssumption
  <2>4. \A i : Reference("judgment", i) # Reference("constraint", Len(constraints) + 1)
    BY DEF Reference
  <2>. QED
    BY <2>3, <2>4, VocabularyAssumption
<1>5. Kept /\ Silent
  <2>1. \A b \in DOMAIN branches' : b \in DOMAIN branches \/ BranchOK(b)'
    BY <1>1
  <2>2. Len(branches) <= Len(branches') /\ Len(branches') <= Len(branches) + 1
    BY <1>1, <1>3
  <2>3. Len(constraints') <= Len(constraints) + 1
    BY <1>3
  <2>. QED
    BY <1>1, <1>2, <1>3, <1>4, <2>1, <2>2, <2>3, OperationShape
<1>. QED
  BY <1>1, <1>5 DEF Moves

\* Undo, redo, and standing still.
LEMMA RestoredShape ==
    ASSUME WorkflowInv, UNCHANGED <<kernelVars, recordVars>>,
           Undo \/ Redo \/ UNCHANGED timelineVars
    PROVE  Kept /\ Moves
<1>1. /\ UNCHANGED kernelVars
      /\ wsteps' = wsteps /\ tasks' = tasks /\ branches' = branches /\ constraints' = constraints
  BY DEF recordVars
<1>2. /\ StoreInv' /\ LedgerGrows /\ ScopesGrow /\ Len(scopes') <= MaxScopes
      /\ ScopeId' = ScopeId
  BY <1>1, KernelStands
<1>3. /\ [TimelineNext]_timelineVars /\ TimelineInv' /\ PointersExist'
      /\ events' = events /\ producers' = producers
  <2>1. CASE Undo \/ Redo
    BY <1>1, <2>1, RestoreShape
  <2>2. CASE UNCHANGED timelineVars
    <3>1. TimelineInv'
      BY <2>2, TimelineInvStep DEF WorkflowInv
    <3>2. /\ events' = events /\ producers' = producers /\ scope' = scope /\ scopeAt' = scopeAt
      BY <2>2 DEF timelineVars, logVars
    <3>3. PointersExist'
      BY <1>2, <3>2 DEF PointersExist, WorkflowInv
    <3>. QED
      BY <2>2, <3>1, <3>2, <3>3
  <2>. QED
    BY <2>1, <2>2
<1>4. /\ IsASequence(branches') /\ IsASequence(constraints')
      /\ Len(branches') \in Nat /\ Len(constraints') \in Nat /\ Len(events) \in Nat
      /\ Len(branches') <= Len(events') /\ Len(constraints') <= Len(events')
  BY <1>1, <1>3, SequenceShape
     DEF WorkflowInv, RecordSeqs, Counts, TimelineInv, TimelineTypeOK, LogTypeOK
<1>5. WorkflowInv' /\ RecordsGrow
  <2>1. /\ Len(events) <= Len(events') /\ Len(branches) <= Len(branches')
        /\ \A b \in DOMAIN branches : branches'[b] = branches[b]
        /\ \A b \in DOMAIN branches' : b \in DOMAIN branches \/ BranchOK(b)'
    BY <1>1, <1>3, <1>4
  <2>. QED
    BY <1>1, <1>2, <1>3, <1>4, <2>1, QuietShape
<1>. QED
  BY <1>1, <1>2, <1>3, <1>5 DEF Kept, Moves, Silent

-----------------------------------------------------------------------------
(* Conclusions: Apply and Merge.                                            *)

\* What Merge proposes.
MergeProposal(b, q, results) ==
    LET step(i) == wsteps[results[i]]
        payload == [conditions |-> [i \in 1..2 |-> b.cases[i].condition],
                    answers |-> [i \in 1..2 |-> judgments[step(i).judgment].proposition],
                    guards |-> [i \in 1..2 |-> SetToSeq(step(i).guards)]]
    IN  Proposal(heads[b.parentLineage], <<b.coverage>>, q, "merge", payload, WorkflowPolicy)

Merges(p) ==
    \E i \in DOMAIN branches, q \in Prop, results \in [1..2 -> StepId] :
        Mergeable(branches[i], q, results) /\ p = MergeProposal(branches[i], q, results)

\* A step proposed a conclusion, and what the kernel accepts of it is committed.
Concludes(p, answer) ==
    /\ p.checker \in {"rule", "merge"}
    /\ p.conclusion \in Prop
    /\ Recorded(p, answer, scope)
    /\ IF answer = "committed" THEN Proposed(p) /\ Commit(p) ELSE UNCHANGED ledgerVars
    /\ p.checker = "merge" => Merges(p)
    /\ UNCHANGED <<scopeVars, branches>>

\* A rule applied to the conclusions of earlier steps.
LEMMA ApplyShape ==
    ASSUME WorkflowInv, NEW r \in Rule, NEW preds \in [DOMAIN r.premises -> StepId],
           Apply(r, preds)
    PROVE  Kept /\ \E p, answer : Concludes(p, answer)
<1>. PICK p : p = Proposal(scope, [i \in DOMAIN preds |-> wsteps[preds[i]].judgment],
                          r.conclusion, "rule", NoPayload, WorkflowPolicy)
  OBVIOUS
<1>. PICK answer :
        /\ answer = IF \A i \in DOMAIN preds : wsteps[preds[i]].judgment # 0
                    THEN Outcome(p) ELSE "undecided"
  OBVIOUS
<1>. PICK request : request = Request(r.request, r.conclusion, preds)
  OBVIOUS
<1>1. /\ Submission("Step", p, answer, request, scope, scope)
      /\ UNCHANGED <<scopeVars, branches, constraints>>
  BY DEF Apply
<1>2. /\ p.scope = scope /\ p.conclusion = r.conclusion /\ p.checker = "rule"
      /\ p.premises = [i \in DOMAIN preds |-> wsteps[preds[i]].judgment]
  BY DEF Proposal
<1>3. /\ scope \in ScopeId /\ scope \in ScopeId'
      /\ ScopeInv' /\ ScopesGrow /\ Len(scopes') <= MaxScopes
  <2>1. ScopeInv' /\ ScopesGrow
    BY <1>1, ScopesUnchanged DEF WorkflowInv, StoreInv
  <2>2. scopes' = scopes
    BY <1>1 DEF scopeVars
  <2>. QED
    BY <2>1, <2>2 DEF WorkflowInv, PointersExist, Counts, ScopeId
<1>4. ASSUME answer = "committed"
      PROVE  Proposed(p)
  <2>1. \A i \in DOMAIN preds : wsteps[preds[i]].judgment # 0
    BY <1>4
  <2>2. r.premises \in Seq(Prop) /\ r.conclusion \in Prop
    BY KernelAssumption
  <2>3. DOMAIN preds = 1..Len(r.premises) /\ Len(r.premises) \in Nat
    BY <2>2
  <2>4. \A i \in DOMAIN preds : wsteps[preds[i]].judgment \in JudgmentId
    BY <2>1 DEF WorkflowInv, StepOK
  <2>5. p.premises \in Seq(JudgmentId)
    BY <1>2, <2>3, <2>4
  <2>. QED
    BY <1>2, <1>3, <2>2, <2>5 DEF Proposed, CheckerName
<1>5. "Step" \in Command /\ p.conclusion \in Prop
  BY <1>2, VocabularyAssumption, KernelAssumption
<1>6. /\ WorkflowInv' /\ LedgerGrows /\ RecordsGrow /\ TimelineNext
      /\ Recorded(p, answer, scope)
      /\ IF answer = "committed" THEN Commit(p) ELSE UNCHANGED ledgerVars
  BY <1>1, <1>3, <1>4, <1>5, SubmissionShape
<1>7. Concludes(p, answer)
  BY <1>1, <1>2, <1>4, <1>5, <1>6 DEF Concludes
<1>8. Kept
  BY <1>3, <1>6 DEF Kept
<1>. QED
  BY <1>7, <1>8

\* A judgment carries finitely many conditions, each a proposition.
LEMMA ConditionsFinite ==
    ASSUME LedgerInv, NEW j \in JudgmentId
    PROVE  IsFiniteSet(Conditions(j)) /\ Conditions(j) \subseteq Prop
<1>1. judgments[j].requirements \subseteq RequirementId
  BY DEF LedgerInv, LedgerTypeOK
<1>2. Len(requirements) \in Nat /\ RequirementId = 1..Len(requirements)
  BY DEF LedgerInv, LedgerSeqs, RequirementId
<1>3. IsFiniteSet(judgments[j].requirements)
  <2>1. IsFiniteSet(RequirementId)
    BY <1>2, FS_Interval
  <2>. QED
    BY <1>1, <2>1, FS_Subset
<1>. DEFINE T == judgments[j].requirements
            f == [r \in T |-> requirements[r].proposition]
            S == Conditions(j)
<1>4. f \in Surjection(T, S)
  <2>1. \A r \in T : f[r] \in S
    BY DEF Conditions
  <2>2. \A c \in S : \E r \in T : f[r] = c
    BY DEF Conditions
  <2>3. f \in [T -> S]
    <3>. HIDE DEF S
    <3>. QED
      BY <2>1
  <2>. HIDE DEF f, T, S
  <2>. QED
    BY <2>2, <2>3 DEF Surjection
<1>5. IsFiniteSet(S)
  <2>. HIDE DEF f, S
  <2>. QED
    BY <1>3, <1>4, FS_Surjection
<1>6. Conditions(j) \subseteq Prop
  BY <1>1 DEF Conditions, LedgerInv, LedgerTypeOK
<1>. QED
  BY <1>5, <1>6

\* A finite set laid out in a sequence: nothing else, and nothing missing.
LEMMA LaidOut ==
    ASSUME NEW S, IsFiniteSet(S)
    PROVE  /\ SetToSeq(S) \in Seq(S)
           /\ DOMAIN SetToSeq(S) = 1..Len(SetToSeq(S))
           /\ \A x \in S : \E k \in DOMAIN SetToSeq(S) : SetToSeq(S)[k] = x
<1>. DEFINE N == 1..Cardinality(S)
            f == CHOOSE g \in [N -> S] : IsInjective(g)
<1>1. Cardinality(S) \in Nat /\ ExistsBijection(N, S)
  BY FS_CardinalityType
<1>2. \E g \in [N -> S] : IsInjective(g)
  <2>1. PICK g \in Bijection(N, S) : TRUE
    BY <1>1 DEF ExistsBijection
  <2>2. g \in Injection(N, S)
    BY <2>1 DEF Bijection
  <2>. QED
    BY <2>2 DEF Injection
<1>3. f \in [N -> S] /\ IsInjective(f)
  <2>. HIDE DEF N
  <2>. QED
    BY <1>2
<1>4. SetToSeq(S) = f
  BY DEF SetToSeq
<1>. HIDE DEF f
<1>5. f \in Injection(N, S)
  BY <1>3 DEF Injection
<1>6. IsFiniteSet(N) /\ Cardinality(N) = Cardinality(S)
  BY <1>1, FS_Interval
<1>7. f \in Surjection(N, S)
  <2>. HIDE DEF N
  <2>. QED
    BY <1>5, <1>6, FS_Injection
<1>8. f \in Seq(S) /\ DOMAIN f = 1..Len(f) /\ DOMAIN f = N
  BY <1>1, <1>3
<1>9. \A x \in S : \E k \in DOMAIN f : f[k] = x
  BY <1>7, <1>8 DEF Surjection
<1>. QED
  BY <1>4, <1>8, <1>9

\* The parts of what Merge proposes.
LEMMA MergeParts ==
    ASSUME NEW b, NEW q, NEW results, NEW p, p = MergeProposal(b, q, results)
    PROVE  /\ p.scope = heads[b.parentLineage] /\ p.premises = <<b.coverage>>
           /\ p.conclusion = q /\ p.checker = "merge"
           /\ \A i \in 1..2 :
                 /\ p.payload.conditions[i] = b.cases[i].condition
                 /\ p.payload.answers[i] = judgments[wsteps[results[i]].judgment].proposition
                 /\ p.payload.guards[i] = SetToSeq(wsteps[results[i]].guards)
BY DEF MergeProposal, Proposal

\* Cases merged into a conclusion of the parent.
LEMMA MergeShape ==
    ASSUME WorkflowInv, NEW n \in DOMAIN branches, NEW q \in Prop,
           NEW results \in [1..2 -> StepId], Merge(branches[n], q, results)
    PROVE  Kept /\ \E p, answer : Concludes(p, answer)
<1>. PICK b : b = branches[n]
  OBVIOUS
<1>. PICK p : p = MergeProposal(b, q, results)
  OBVIOUS
<1>. PICK answer : answer = Outcome(p)
  OBVIOUS
<1>1. /\ Mergeable(b, q, results) /\ Expressible(b, results)
      /\ Submission("MergeBranches", p, answer, NoRequest, scope, scope)
      /\ UNCHANGED <<scopeVars, branches, constraints>>
  BY DEF Merge, MergeProposal
<1>2. /\ scope \in ScopeId /\ scope \in ScopeId'
      /\ ScopeInv /\ LedgerInv /\ ScopeInv' /\ ScopesGrow /\ Len(scopes') <= MaxScopes
  <2>1. ScopeInv' /\ ScopesGrow
    BY <1>1, ScopesUnchanged DEF WorkflowInv, StoreInv
  <2>2. scopes' = scopes
    BY <1>1 DEF scopeVars
  <2>. QED
    BY <2>1, <2>2 DEF WorkflowInv, StoreInv, PointersExist, Counts, ScopeId
<1>3. BranchOK(n)
  BY DEF WorkflowInv
<1>4. /\ p.scope = heads[b.parentLineage] /\ p.premises = <<b.coverage>>
      /\ p.conclusion = q /\ p.checker = "merge"
      /\ \A i \in 1..2 :
            /\ p.payload.conditions[i] = b.cases[i].condition
            /\ p.payload.guards[i] = SetToSeq(wsteps[results[i]].guards)
  BY MergeParts
<1>5. Proposed(p)
  <2>1. p.scope \in ScopeId
    BY <1>2, <1>3, <1>4 DEF BranchOK, ScopeInv, ScopeTypeOK
  <2>2. b.coverage \in JudgmentId
    BY <1>1, <1>3 DEF BranchOK, Mergeable
  <2>3. p.premises \in Seq(JudgmentId)
    BY <1>4, <2>2
  <2>4. ASSUME NEW i \in 1..2
        PROVE  /\ p.payload.guards[i] \in Seq(Prop)
               /\ \A k \in DOMAIN p.payload.guards[i] :
                     Implies(p.payload.conditions[i], p.payload.guards[i][k]) \in Prop
    <3>. PICK g : g = wsteps[results[i]].guards
      OBVIOUS
    <3>. PICK laid : laid = SetToSeq(g)
      OBVIOUS
    <3>1. /\ wsteps[results[i]].judgment # 0 /\ results[i] \in StepId
          /\ \A c \in g : Implies(b.cases[i].condition, c) \in Prop
      BY <1>1 DEF Mergeable, Expressible
    <3>2. /\ g = Conditions(wsteps[results[i]].judgment)
          /\ wsteps[results[i]].judgment \in JudgmentId
      BY <3>1 DEF WorkflowInv, StepOK
    <3>3. IsFiniteSet(g) /\ g \subseteq Prop
      BY <1>2, <3>2, ConditionsFinite
    <3>4. laid \in Seq(g)
      BY <3>3, LaidOut
    <3>5. laid \in Seq(Prop) /\ \A k \in DOMAIN laid : laid[k] \in g
      BY <3>3, <3>4
    <3>. QED
      BY <1>4, <3>1, <3>5
  <2>5. Promotable(p.payload)
    BY <2>4 DEF Promotable
  <2>. QED
    BY <1>4, <2>1, <2>3, <2>5 DEF Proposed, CheckerName
<1>6. "MergeBranches" \in Command /\ p.conclusion \in Prop
  BY <1>4, VocabularyAssumption
<1>7. /\ WorkflowInv' /\ LedgerGrows /\ RecordsGrow /\ TimelineNext
      /\ Recorded(p, answer, scope)
      /\ IF answer = "committed" THEN Commit(p) ELSE UNCHANGED ledgerVars
  BY <1>1, <1>2, <1>5, <1>6, SubmissionShape
<1>8. Merges(p)
  BY <1>1 DEF Merges
<1>9. Concludes(p, answer)
  BY <1>1, <1>4, <1>5, <1>6, <1>7, <1>8 DEF Concludes
<1>10. Kept
  BY <1>2, <1>7 DEF Kept
<1>. QED
  BY <1>9, <1>10

-----------------------------------------------------------------------------
(* Contexts that grow: Claim, SplitOn, Declare and Define.                  *)

\* New entries land in one new version under s.
LEMMA GrowShape ==
    ASSUME WorkflowInv, NEW s \in ScopeId, NEW e \in EntriesRecord, Grow(s, e)
    PROVE  /\ ScopeInv' /\ ScopesGrow
           /\ Len(scopes') = Len(scopes) + 1 /\ Len(scopes') <= MaxScopes
           /\ Len(scopes) \in Nat /\ Len(scopes) + 1 \in ScopeId'
           /\ \E l : Issues(Len(scopes) + 1, s, l, e)
<1>1. ScopeInv /\ Len(scopes) \in Nat
  BY DEF WorkflowInv, StoreInv, ScopeInv
<1>2. /\ ScopeInv' /\ ScopesGrow
      /\ Len(scopes') = Len(scopes) + 1 /\ Len(scopes') <= MaxScopes
      /\ \E l : Issues(Len(scopes) + 1, s, l, e)
  <2>1. CASE Extend(s, e)
    BY <1>1, <2>1, ExtendKeepsScopeInv
  <2>2. CASE Create(s, e)
    <3>1. /\ <<e>> \in Seq(EntriesRecord) /\ Children(s, <<e>>)
          /\ Len(<<e>>) = 1 /\ 1 \in DOMAIN <<e>> /\ <<e>>[1] = e
      BY <2>2 DEF Create
    <3>. PICK entries : entries = <<e>>
      OBVIOUS
    <3>2. /\ ScopeInv' /\ ScopesGrow
          /\ Len(scopes') = Len(scopes) + Len(entries) /\ Len(scopes') <= MaxScopes
          /\ \A k \in DOMAIN entries :
                Issues(Len(scopes) + k, s, Len(scopes) + k, entries[k])
      BY <1>1, <3>1, ChildrenKeepsScopeInv
    <3>. QED
      BY <3>1, <3>2
  <2>. QED
    BY <2>1, <2>2 DEF Grow
<1>. QED
  BY <1>1, <1>2 DEF ScopeId

\* A claim was put to the kernel; a committed one is assumed from here on.
Claims(q) ==
    LET p == Proposal(scope, <<>>, q, "claim", NoPayload, WorkflowPolicy)
    IN  /\ Recorded(p, Outcome(p), scope)
        /\ Proposed(p)
        /\ IF Outcome(p) = "committed"
           THEN /\ Commit(p)
                /\ Len(scopes') = Len(scopes) + 1
                /\ \E l : Issues(Len(scopes) + 1, scope, l, Entries({}, NoDefinition, {q}))
           ELSE UNCHANGED kernelVars
        /\ UNCHANGED branches

\* The parts of a proposal nothing supports.
LEMMA BareProposal ==
    ASSUME NEW s \in ScopeId, NEW q \in Prop, NEW checker \in {"claim", "decide", "coverage"},
           NEW policy, NEW p, p = Proposal(s, <<>>, q, checker, NoPayload, policy)
    PROVE  /\ p.scope = s /\ p.premises = <<>> /\ p.conclusion = q /\ p.checker = checker
           /\ Proposed(p)
<1>1. p.scope = s /\ p.premises = <<>> /\ p.conclusion = q /\ p.checker = checker
  BY DEF Proposal
<1>2. <<>> \in Seq(JudgmentId)
  OBVIOUS
<1>. QED
  BY <1>1, <1>2 DEF Proposed, CheckerName

\* Claiming.
LEMMA ClaimShape ==
    ASSUME WorkflowInv, NEW q \in Claimable, Claim(q)
    PROVE  Kept /\ Claims(q)
<1>. PICK p : p = Proposal(scope, <<>>, q, "claim", NoPayload, WorkflowPolicy)
  OBVIOUS
<1>. PICK answer : answer = Outcome(p)
  OBVIOUS
<1>. PICK t : t = IF answer = "committed" THEN Len(scopes) + 1 ELSE scope
  OBVIOUS
<1>1. /\ Submission("Claim", p, answer, NoRequest, scope, t)
      /\ IF answer = "committed" THEN Grow(scope, Entries({}, NoDefinition, {q}))
         ELSE UNCHANGED scopeVars
      /\ UNCHANGED <<branches, constraints>>
  BY DEF Claim
<1>2. scope \in ScopeId /\ q \in Prop /\ "Claim" \in Command /\ ScopeInv
  BY KernelAssumption, VocabularyAssumption DEF WorkflowInv, StoreInv, PointersExist
<1>3. p.conclusion = q /\ Proposed(p)
  BY <1>2, BareProposal
<1>4. /\ ScopeInv' /\ ScopesGrow /\ Len(scopes') <= MaxScopes /\ t \in ScopeId'
      /\ IF answer = "committed"
         THEN /\ Len(scopes') = Len(scopes) + 1
              /\ \E l : Issues(Len(scopes) + 1, scope, l, Entries({}, NoDefinition, {q}))
         ELSE UNCHANGED scopeVars
  <2>1. CASE answer = "committed"
    <3>1. PICK e \in EntriesRecord : e = Entries({}, NoDefinition, {q})
      BY <1>2, EntriesMade
    <3>. QED
      BY <1>1, <1>2, <2>1, <3>1, GrowShape
  <2>2. CASE answer # "committed"
    <3>1. scopes' = scopes /\ UNCHANGED scopeVars
      BY <1>1, <2>2 DEF scopeVars
    <3>2. ScopeInv' /\ ScopesGrow
      BY <1>2, <3>1, ScopesUnchanged
    <3>. QED
      BY <1>2, <2>2, <3>1, <3>2 DEF WorkflowInv, Counts, ScopeId
  <2>. QED
    BY <2>1, <2>2
<1>5. /\ WorkflowInv' /\ LedgerGrows /\ RecordsGrow /\ TimelineNext
      /\ Recorded(p, answer, scope)
      /\ IF answer = "committed" THEN Commit(p) ELSE UNCHANGED ledgerVars
  BY <1>1, <1>2, <1>3, <1>4, SubmissionShape
<1>6. Claims(q)
  BY <1>1, <1>3, <1>4, <1>5 DEF Claims, kernelVars
<1>. QED
  BY <1>4, <1>5, <1>6 DEF Kept

\* A coverage the kernel accepts carries no conditions.
LEMMA CoverageUnconditional ==
    ASSUME StoreInv, NEW p, Proposed(p), p.checker = "coverage", p.premises = <<>>, Commit(p),
           NEW main, main = Len(judgments) + 1
    PROVE  /\ main \in JudgmentId'
           /\ judgments'[main].proposition = p.conclusion
           /\ Conditions(main)' = {}
<1>1. ScopeInv /\ LedgerInv
  BY DEF StoreInv
<1>2. PICK direct \in Seq(Prop) : \E settled \in InOrder(SettledAt(p, direct)) :
          Grounds(p, direct) /\ Wrote(p, direct, settled)
  BY <1>1, CommitShape
<1>3. PICK settled \in InOrder(SettledAt(p, direct)) :
          Grounds(p, direct) /\ Wrote(p, direct, settled)
  BY <1>2
<1>4. direct = <<>>
  BY <1>3 DEF Grounds
<1>5. Carried(p, direct) = {}
  <2>1. Range(direct) = {} /\ Range(p.premises) = {}
    BY <1>4 DEF Range
  <2>2. Inherited(p.premises) = {}
    BY <2>1 DEF Inherited
  <2>. QED
    BY <2>1, <2>2 DEF Carried
<1>6. /\ judgments'[main].proposition = p.conclusion
      /\ judgments'[main].requirements = {}
  BY <1>3, <1>5 DEF Wrote
<1>7. main \in JudgmentId'
  <2>1. /\ JudgmentId' = 1..(Len(judgments) + 1 + Len(settled))
        /\ Len(settled) \in Nat /\ Len(judgments) \in Nat
    BY <1>1, <1>3, WroteIds
  <2>. QED
    BY <2>1
<1>. QED
  BY <1>6, <1>7 DEF Conditions

CoverageProposal(c) ==
    Proposal(scope, <<>>, Or(c, Not(c)), "coverage", NoPayload, "require_proved")

\* Two cases were opened, and their coverage put to the kernel.
Splits(c) ==
    LET p == CoverageProposal(c)
    IN  /\ Proposed(p) /\ p.checker = "coverage"
        /\ IF Outcome(p) = "committed" THEN Commit(p) ELSE UNCHANGED ledgerVars
        /\ Len(scopes') = Len(scopes) + 2
        /\ \E l : Issues(Len(scopes) + 1, scope, l, Entries({}, NoDefinition, {c}))
        /\ \E l : Issues(Len(scopes) + 2, scope, l, Entries({}, NoDefinition, {Not(c)}))
        /\ Len(branches) + 1 \in DOMAIN branches'
        /\ branches'[Len(branches) + 1].cases =
                <<[condition |-> c, scope |-> Len(scopes) + 1],
                  [condition |-> Not(c), scope |-> Len(scopes) + 2]>>
        /\ UNCHANGED <<wsteps, tasks>> /\ Silent

\* Splitting on a condition.
LEMMA SplitShape ==
    ASSUME WorkflowInv, NEW c \in Splittable, SplitOn(c)
    PROVE  Kept /\ Splits(c)
<1>. PICK p : p = CoverageProposal(c)
  OBVIOUS
<1>. PICK n : n = Len(scopes)
  OBVIOUS
<1>. PICK covered \in BOOLEAN : covered = (Outcome(p) = "committed")
  OBVIOUS
<1>. PICK main : main = Len(judgments) + 1
  OBVIOUS
<1>. PICK here : here = scope
  OBVIOUS
<1>. PICK line : line = scopes[here].lineage
  OBVIOUS
<1>. PICK first, second : /\ first = [condition |-> c, scope |-> n + 1]
                         /\ second = [condition |-> Not(c), scope |-> n + 2]
  OBVIOUS
<1>. PICK group : group = [parentLineage |-> line, cases |-> <<first, second>>,
                          coverage |-> IF covered THEN main ELSE 0]
  OBVIOUS
<1>. PICK new : new = Len(branches) + 1
  OBVIOUS
<1>. PICK entries : entries = <<Entries({}, NoDefinition, {c}), Entries({}, NoDefinition, {Not(c)})>>
  OBVIOUS
<1>1. /\ IF covered THEN Commit(p) ELSE UNCHANGED ledgerVars
      /\ Children(here, entries)
      /\ branches' = Append(branches, group)
      /\ Operate("Split", {Reference("branch", new)}, here)
      /\ wsteps' = wsteps /\ tasks' = tasks /\ constraints' = constraints
  BY DEF SplitOn, CoverageProposal
<1>2. /\ here \in ScopeId /\ c \in Prop /\ Not(c) \in Prop /\ Or(c, Not(c)) \in Prop
      /\ "Split" \in Command /\ StoreInv /\ ScopeInv /\ LedgerInv
      /\ n \in Nat
  <2>1. c \in Prop /\ Not(c) \in Prop /\ Or(c, Not(c)) \in Prop
    BY WorkflowAssumption
  <2>. QED
    BY <2>1, VocabularyAssumption DEF WorkflowInv, StoreInv, PointersExist, ScopeInv
<1>3. p.premises = <<>> /\ p.conclusion = Or(c, Not(c)) /\ p.checker = "coverage" /\ Proposed(p)
  BY <1>2, BareProposal DEF CoverageProposal
<1>4. /\ ScopeInv' /\ ScopesGrow
      /\ Len(scopes') = n + 2 /\ Len(scopes') <= MaxScopes
      /\ Issues(n + 1, here, n + 1, Entries({}, NoDefinition, {c}))
      /\ Issues(n + 2, here, n + 2, Entries({}, NoDefinition, {Not(c)}))
  <2>1. /\ Entries({}, NoDefinition, {c}) \in EntriesRecord
        /\ Entries({}, NoDefinition, {Not(c)}) \in EntriesRecord
    BY <1>2, EntriesMade
  <2>2. entries \in Seq(EntriesRecord) /\ Len(entries) = 2 /\ 1 \in DOMAIN entries /\ 2 \in DOMAIN entries
    BY <2>1
  <2>3. /\ ScopeInv' /\ ScopesGrow
        /\ Len(scopes') = Len(scopes) + Len(entries) /\ Len(scopes') <= MaxScopes
        /\ \A k \in DOMAIN entries : Issues(Len(scopes) + k, here, Len(scopes) + k, entries[k])
    BY <1>1, <1>2, <2>2, ChildrenKeepsScopeInv
  <2>4. /\ entries[1] = Entries({}, NoDefinition, {c})
        /\ entries[2] = Entries({}, NoDefinition, {Not(c)})
    OBVIOUS
  <2>. QED
    BY <2>2, <2>3, <2>4
<1>5. StoreInv' /\ LedgerGrows
  BY <1>1, <1>2, <1>3, <1>4, CommitKeepsStore, ScopesGrowKeepsStore
<1>6. /\ here \in ScopeId' /\ n + 1 \in ScopeId' /\ n + 2 \in ScopeId'
      /\ scopes'[here] = scopes[here]
  BY <1>2, <1>4 DEF ScopeId, ScopesGrow
<1>7. /\ IsASequence(branches') /\ Len(branches') = new /\ Len(branches) \in Nat
      /\ \A b \in DOMAIN branches : branches'[b] = branches[b]
      /\ branches'[new] = group
      /\ DOMAIN branches' = 1..new
      /\ \A b \in DOMAIN branches' : b \in DOMAIN branches \/ b = new
      /\ new \in DOMAIN branches'
  <2>1. IsASequence(branches)
    BY DEF WorkflowInv, RecordSeqs
  <2>2. Len(branches) \in Nat /\ DOMAIN branches = 1..Len(branches)
    BY <2>1, SequenceShape
  <2>3. /\ IsASequence(branches') /\ Len(branches') = new
        /\ \A b \in DOMAIN branches : branches'[b] = branches[b]
        /\ branches'[new] = group
    BY <1>1, <2>1, <2>2, Appended
  <2>4. DOMAIN branches' = 1..new
    BY <2>3, SequenceShape
  <2>. QED
    BY <2>2, <2>3, <2>4
<1>8. BranchOK(new)'
  <2>1. line \in DOMAIN heads'
    BY <1>4, <1>6 DEF ScopeInv, ScopeTypeOK
  <2>2. CaseOK(line, first)' /\ CaseOK(line, second)'
    <3>1. \A k, a : Issues(k, here, k, Entries({}, NoDefinition, {a})) /\ k \in ScopeId' /\ a \in Prop =>
                CaseOK(line, [condition |-> a, scope |-> k])'
      BY <1>6 DEF Issues, CaseOK, Entries
    <3>. QED
      BY <1>2, <1>4, <1>6, <3>1
  <2>3. /\ group.parentLineage = line /\ group.cases[1] = first /\ group.cases[2] = second
        /\ group.coverage = IF covered THEN main ELSE 0
        /\ first.condition = c /\ second.condition = Not(c)
    OBVIOUS
  <2>4. ASSUME covered
        PROVE  /\ main \in JudgmentId'
               /\ judgments'[main].proposition = Or(c, Not(c))
               /\ Conditions(main)' = {}
    BY <1>1, <1>2, <1>3, <2>4, CoverageUnconditional
  <2>5. main # 0
    BY <1>2 DEF LedgerInv, LedgerSeqs
  <2>6. \A i \in 1..2 : CaseOK(line, group.cases[i])'
    <3>1. \A i \in 1..2 : i = 1 \/ i = 2
      OBVIOUS
    <3>. QED
      BY <2>2, <2>3, <3>1
  <2>7. group.coverage \in {0} \cup JudgmentId'
    BY <2>3, <2>4
  <2>8. group.coverage # 0 =>
          /\ judgments'[group.coverage].proposition =
                Or(group.cases[1].condition, group.cases[2].condition)
          /\ Conditions(group.coverage)' = {}
    BY <2>3, <2>4
  <2>. QED
    BY <1>7, <2>1, <2>3, <2>6, <2>7, <2>8 DEF BranchOK
<1>9. Kept /\ Silent
  <2>1. \A b \in DOMAIN branches' : b \in DOMAIN branches \/ BranchOK(b)'
    BY <1>7, <1>8
  <2>2. /\ Len(branches) <= Len(branches') /\ Len(branches') <= Len(branches) + 1
    BY <1>7
  <2>3. /\ IsASequence(constraints') /\ Len(constraints') <= Len(constraints) + 1
    BY <1>1, SequenceShape DEF WorkflowInv, RecordSeqs
  <2>4. Reference("branch", new) \in Ref
    <3>1. Len(events) < MaxEvents /\ Len(branches) <= Len(events) /\ Len(events) \in Nat
      BY <1>1 DEF WorkflowInv, Counts, TimelineInv, TimelineTypeOK, LogTypeOK, Operate, AppendEvent
    <3>2. new \in 1..(MaxEvents + MaxScopes + MaxJudgments)
      BY <1>7, <3>1, EventLogAssumption, ScopeStoreAssumption, KernelAssumption
    <3>. QED
      BY <3>2, VocabularyAssumption
  <2>5. \A i : Reference("judgment", i) \notin {Reference("branch", new)}
    BY DEF Reference
  <2>6. UNCHANGED <<wsteps, tasks>> /\ {Reference("branch", new)} \in SUBSET Ref
    BY <1>1, <2>4
  <2>. QED
    BY <1>1, <1>2, <1>4, <1>5, <1>6, <1>7, <2>1, <2>2, <2>3, <2>5, <2>6, OperationShape
<1>10. Splits(c)
  <2>1. group.cases = <<first, second>>
    OBVIOUS
  <2>. QED
    BY <1>1, <1>3, <1>4, <1>7, <1>9, <2>1 DEF Splits
<1>. QED
  BY <1>9, <1>10

\* A version with entries e came on top of the current one.
Introduces(e) ==
    /\ UNCHANGED <<ledgerVars, recordVars>> /\ Silent
    /\ Len(scopes') = Len(scopes) + 1
    /\ \E l : Issues(Len(scopes) + 1, scope, l, e)

\* What Declare and Define do to the workflow.
LEMMA IntroduceShape ==
    ASSUME WorkflowInv, NEW e \in EntriesRecord, NEW name \in Command,
           Grow(scope, e), Operate(name, {Reference("scope", Len(scopes) + 1)}, Len(scopes) + 1),
           UNCHANGED <<ledgerVars, recordVars>>
    PROVE  Kept /\ Introduces(e)
<1>. PICK new : new = Len(scopes) + 1
  OBVIOUS
<1>1. /\ wsteps' = wsteps /\ tasks' = tasks /\ branches' = branches /\ constraints' = constraints
      /\ UNCHANGED ledgerVars
  BY DEF recordVars
<1>2. /\ ScopeInv' /\ ScopesGrow
      /\ Len(scopes') = new /\ Len(scopes') <= MaxScopes
      /\ Len(scopes) \in Nat /\ new \in ScopeId'
      /\ \E l : Issues(new, scope, l, e)
  BY GrowShape DEF WorkflowInv, PointersExist
<1>3. StoreInv' /\ LedgerGrows
  BY <1>1, <1>2, ScopesGrowKeepsStore DEF WorkflowInv
<1>4. /\ {Reference("scope", new)} \in SUBSET Ref
      /\ \A i : Reference("judgment", i) \notin {Reference("scope", new)}
  <2>1. new \in 1..(MaxEvents + MaxScopes + MaxJudgments)
    BY <1>2, EventLogAssumption, ScopeStoreAssumption, KernelAssumption
  <2>2. Reference("scope", new) \in Ref
    BY <2>1, VocabularyAssumption
  <2>3. \A i : Reference("judgment", i) # Reference("scope", new)
    BY DEF Reference
  <2>. QED
    BY <2>2, <2>3
<1>5. Kept /\ Silent
  <2>1. /\ IsASequence(branches') /\ IsASequence(constraints')
        /\ Len(branches') \in Nat /\ Len(constraints') \in Nat
    BY <1>1, SequenceShape DEF WorkflowInv, RecordSeqs
  <2>2. /\ Len(branches) <= Len(branches') /\ Len(branches') <= Len(branches) + 1
        /\ Len(constraints') <= Len(constraints) + 1
        /\ \A b \in DOMAIN branches : branches'[b] = branches[b]
        /\ \A b \in DOMAIN branches' : b \in DOMAIN branches \/ BranchOK(b)'
    BY <1>1, <2>1
  <2>3. UNCHANGED <<wsteps, tasks>> /\ Operate(name, {Reference("scope", new)}, new)
    BY <1>1
  <2>. QED
    BY <1>2, <1>3, <1>4, <2>1, <2>2, <2>3, OperationShape
<1>. QED
  BY <1>1, <1>2, <1>5 DEF Introduces

\* What may be introduced: a new symbol, with or without a definition.
Introducible(e) ==
    \E x \in Sym :
        /\ Fresh(x)
        /\ \/ e = Entries({x}, NoDefinition, {})
           \/ \E body \in SUBSET Sym :
                 ~AliasCycle(x, body) /\ e = Entries({}, [y \in {x} |-> body], {})

\* Declaring.
LEMMA DeclareShape ==
    ASSUME WorkflowInv, NEW x \in Sym, Declare(x)
    PROVE  Kept /\ \E e : Introducible(e) /\ Introduces(e)
<1>1. PICK e \in EntriesRecord : e = Entries({x}, NoDefinition, {})
  BY EntriesMade
<1>2. /\ Grow(scope, e) /\ UNCHANGED <<ledgerVars, recordVars>>
      /\ Operate("Declare", {Reference("scope", Len(scopes) + 1)}, Len(scopes) + 1)
      /\ Fresh(x)
  BY <1>1 DEF Declare
<1>3. "Declare" \in Command
  BY VocabularyAssumption
<1>4. Kept /\ Introduces(e)
  BY <1>2, <1>3, IntroduceShape
<1>5. Introducible(e)
  BY <1>1, <1>2 DEF Introducible
<1>. QED
  BY <1>4, <1>5

\* Defining.
LEMMA DefineShape ==
    ASSUME WorkflowInv, NEW x \in Sym, NEW body \in Body, Define(x, body)
    PROVE  Kept /\ \E e : Introducible(e) /\ Introduces(e)
<1>0. body \in SUBSET Sym
  BY WorkflowAssumption
<1>1. PICK e \in EntriesRecord : e = Entries({}, [y \in {x} |-> body], {})
  <2>1. [y \in {x} |-> body] \in [{x} -> SUBSET Sym]
    BY <1>0
  <2>2. [y \in {x} |-> body] \in UNION {[D -> SUBSET Sym] : D \in SUBSET Sym}
    BY <2>1
  <2>3. Entries({}, [y \in {x} |-> body], {}) \in EntriesRecord
    BY <2>2 DEF Entries, EntriesRecord
  <2>. QED
    BY <2>3
<1>2. /\ Grow(scope, e) /\ UNCHANGED <<ledgerVars, recordVars>>
      /\ Operate("Define", {Reference("scope", Len(scopes) + 1)}, Len(scopes) + 1)
      /\ Fresh(x) /\ ~AliasCycle(x, body)
  BY <1>1 DEF Define
<1>3. "Define" \in Command
  BY VocabularyAssumption
<1>4. Kept /\ Introduces(e)
  BY <1>2, <1>3, IntroduceShape
<1>5. Introducible(e)
  BY <1>0, <1>1, <1>2 DEF Introducible
<1>. QED
  BY <1>4, <1>5

-----------------------------------------------------------------------------
(* Every step of the workflow is of one of five kinds.                      *)

WorkflowStepKind ==
    \/ \E p, answer : Concludes(p, answer)
    \/ \E q \in Claimable : Claims(q)
    \/ \E c \in Splittable : Splits(c)
    \/ \E e : Introducible(e) /\ Introduces(e)
    \/ Moves

LEMMA WorkflowStep ==
    ASSUME WorkflowInv, [WorkflowNext]_workflowVars
    PROVE  Kept /\ WorkflowStepKind
<1>1. CASE \E r \in Rule : \E preds \in [DOMAIN r.premises -> StepId] : Apply(r, preds)
  BY <1>1, ApplyShape DEF WorkflowStepKind
<1>2. CASE \E q \in Claimable : Claim(q)
  BY <1>2, ClaimShape DEF WorkflowStepKind
<1>3. CASE \E c \in Splittable : SplitOn(c)
  BY <1>3, SplitShape DEF WorkflowStepKind
<1>4. CASE \E s \in ScopeId : Enter(s)
  BY <1>4, EnterShape DEF WorkflowStepKind
<1>5. CASE \E i \in DOMAIN branches : \E q \in {wsteps[k].content : k \in StepId} :
             \E results \in [1..2 -> StepId] : Merge(branches[i], q, results)
  <2>1. \A k \in StepId : wsteps[k].content \in Prop
    BY DEF WorkflowInv, StepOK
  <2>2. \E i \in DOMAIN branches, q \in Prop :
             \E results \in [1..2 -> StepId] : Merge(branches[i], q, results)
    BY <1>5, <2>1
  <2>. QED
    BY <2>2, MergeShape DEF WorkflowStepKind
<1>6. CASE \E x \in Sym : Declare(x) \/ \E body \in Body : Define(x, body)
  BY <1>6, DeclareShape, DefineShape DEF WorkflowStepKind
<1>7. CASE \E relation \in Relation : AddConstraint(relation)
  BY <1>7, AddConstraintShape DEF WorkflowStepKind
<1>8. CASE UndoOperation \/ RedoOperation \/ UNCHANGED workflowVars
  <2>1. UNCHANGED <<kernelVars, recordVars>> /\ (Undo \/ Redo \/ UNCHANGED timelineVars)
    BY <1>8 DEF UndoOperation, RedoOperation, workflowVars
  <2>. QED
    BY <2>1, RestoredShape DEF WorkflowStepKind
<1>. QED
  BY <1>1, <1>2, <1>3, <1>4, <1>5, <1>6, <1>7, <1>8 DEF WorkflowNext

\* The start.
LEMMA WorkflowInvInit == WorkflowInit => WorkflowInv
<1>. SUFFICES ASSUME WorkflowInit PROVE WorkflowInv
  OBVIOUS
<1>1. StoreInv
  BY KernelInvInit DEF WorkflowInit, KernelInv
<1>2. TimelineInv
  BY TimelineInvInit DEF WorkflowInit
<1>3. /\ wsteps = <<>> /\ tasks = <<>> /\ branches = <<>> /\ constraints = <<>>
      /\ events = <<>>
  BY DEF WorkflowInit, TimelineInit, LogInit
<1>4. RecordSeqs
  BY <1>3, EmptyIsASequence DEF RecordSeqs
<1>5. Len(scopes) = 1 /\ ScopeId = 1..1
  BY DEF WorkflowInit, KernelInit, ScopeInit, ScopeId
<1>6. Counts
  <2>1. 1 <= MaxScopes
    BY TimelineAssumption, WorkflowAssumption, ScopeStoreAssumption
  <2>. QED
    BY <1>3, <1>5, <2>1 DEF Counts
<1>7. PointersExist
  <2>1. scope = 1 /\ \A r \in DOMAIN scopeAt : scopeAt[r] = 1
    BY WorkflowAssumption DEF WorkflowInit, TimelineInit
  <2>. QED
    BY <1>5, <2>1 DEF PointersExist
<1>8. StepId = {} /\ DOMAIN tasks = {} /\ DOMAIN branches = {}
  BY <1>3 DEF StepId
<1>. QED
  BY <1>1, <1>2, <1>4, <1>6, <1>7, <1>8 DEF WorkflowInv

LEMMA WorkflowInvAlways == WorkflowSpec => []WorkflowInv
<1>1. WorkflowInv /\ [WorkflowNext]_workflowVars => WorkflowInv'
  BY WorkflowStep DEF Kept
<1>. QED
  BY <1>1, WorkflowInvInit, PTL DEF WorkflowSpec

\* The workflow implements the undo/redo layer.
LEMMA WorkflowStepsTimeline == WorkflowSpec => TimelineSpec
<1>1. WorkflowInit => TimelineInit
  BY DEF WorkflowInit
<1>2. WorkflowInv /\ [WorkflowNext]_workflowVars => [TimelineNext]_timelineVars
  BY WorkflowStep DEF Kept
<1>. QED
  BY <1>1, <1>2, WorkflowInvAlways, PTL DEF WorkflowSpec, TimelineSpec

-----------------------------------------------------------------------------
(* Nothing is assumed that nobody asked for.                                *)

\* A reason for version s to assume a.
Accounted(s, a) ==
    \/ \E k \in StepId :
          /\ wsteps[k].judgment # 0
          /\ steps[wsteps[k].judgment].checker = "claim"
          /\ wsteps[k].content = a
          /\ wsteps[k].scope = scopes[s].parent
    \/ \E b \in DOMAIN branches, i \in 1..2 :
          branches[b].cases[i] = [condition |-> a, scope |-> s]

\* The reasons there were are still there.
LEMMA AccountedStays ==
    ASSUME WorkflowInv, Kept, NEW s \in ScopeId, NEW a, Accounted(s, a)
    PROVE  Accounted(s, a)'
<1>1. /\ scopes'[s] = scopes[s]
      /\ \A k \in StepId : k \in StepId' /\ wsteps'[k] = wsteps[k]
      /\ \A b \in DOMAIN branches : b \in DOMAIN branches' /\ branches'[b] = branches[b]
  <2>1. /\ Len(wsteps) \in Nat /\ Len(wsteps') \in Nat
        /\ Len(branches) \in Nat /\ Len(branches') \in Nat
        /\ DOMAIN branches = 1..Len(branches) /\ DOMAIN branches' = 1..Len(branches')
    BY SequenceShape DEF Kept, WorkflowInv, RecordSeqs
  <2>. QED
    BY <2>1 DEF Kept, RecordsGrow, ScopesGrow, StepId
<1>2. \A j \in JudgmentId : steps'[j] = steps[j]
  BY DEF Kept, LedgerGrows
<1>3. \A k \in StepId : wsteps[k].judgment \in {0} \cup JudgmentId
  BY DEF WorkflowInv, StepOK
<1>4. CASE \E k \in StepId :
             /\ wsteps[k].judgment # 0
             /\ steps[wsteps[k].judgment].checker = "claim"
             /\ wsteps[k].content = a
             /\ wsteps[k].scope = scopes[s].parent
  BY <1>1, <1>2, <1>3, <1>4 DEF Accounted
<1>5. CASE \E b \in DOMAIN branches, i \in 1..2 :
             branches[b].cases[i] = [condition |-> a, scope |-> s]
  BY <1>1, <1>5 DEF Accounted
<1>. QED
  BY <1>4, <1>5 DEF Accounted

\* Every step accounts for what it assumes.
LEMMA AccountedStep ==
    ASSUME WorkflowInv, AssumptionsAccounted, Kept, WorkflowStepKind
    PROVE  AssumptionsAccounted'
<1>1. /\ Len(scopes) \in Nat /\ Len(scopes') \in Nat
      /\ ScopeId = 1..Len(scopes) /\ ScopeId' = 1..Len(scopes')
      /\ \A s \in ScopeId : scopes'[s] = scopes[s]
  BY DEF Kept, WorkflowInv, StoreInv, ScopeInv, ScopeId, ScopesGrow
<1>2. ASSUME NEW s \in ScopeId, NEW a \in scopes'[s].entries.assumed
      PROVE  Accounted(s, a)'
  <2>1. Accounted(s, a)
    BY <1>1, <1>2 DEF AssumptionsAccounted, Accounted
  <2>. QED
    BY <2>1, AccountedStays
<1>. SUFFICES ASSUME NEW s \in ScopeId', s \notin ScopeId, NEW a \in scopes'[s].entries.assumed
              PROVE  Accounted(s, a)'
  BY <1>2 DEF AssumptionsAccounted, Accounted
<1>3. ASSUME scopes' = scopes
      PROVE  FALSE
  BY <1>1, <1>3
<1>4. ASSUME NEW p, NEW answer, Concludes(p, answer)
      PROVE  FALSE
  BY <1>3, <1>4 DEF Concludes, scopeVars
<1>5. ASSUME NEW q \in Claimable, Claims(q)
      PROVE  Accounted(s, a)'
  <2>. PICK p : p = Proposal(scope, <<>>, q, "claim", NoPayload, WorkflowPolicy)
    OBVIOUS
  <2>. PICK main : main = Len(judgments) + 1
    OBVIOUS
  <2>. PICK new : new = Len(wsteps) + 1
    OBVIOUS
  <2>1. p.conclusion = q /\ p.checker = "claim"
    BY DEF Proposal
  <2>2. CASE Outcome(p) # "committed"
    BY <1>3, <1>5, <2>2 DEF Claims, kernelVars, scopeVars
  <2>3. CASE Outcome(p) = "committed"
    <3>1. /\ Recorded(p, "committed", scope) /\ Proposed(p) /\ Commit(p)
          /\ Len(scopes') = Len(scopes) + 1
      BY <1>5, <2>3 DEF Claims
    <3>2. s = Len(scopes) + 1
      BY <1>1, <3>1
    <3>3. PICK l : Issues(s, scope, l, Entries({}, NoDefinition, {q}))
      BY <1>5, <2>3, <3>2 DEF Claims
    <3>4. a = q /\ scopes'[s].parent = scope
      BY <3>3 DEF Issues, Entries
    <3>5. steps'[main].checker = "claim"
      <4>1. ScopeInv /\ LedgerInv
        BY DEF WorkflowInv, StoreInv
      <4>2. PICK direct \in Seq(Prop) : \E settled \in InOrder(SettledAt(p, direct)) :
                Wrote(p, direct, settled)
        BY <3>1, <4>1, CommitShape
      <4>. QED
        BY <2>1, <4>2 DEF Wrote
    <3>6. main # 0 /\ new \in StepId'
      <4>1. Len(judgments) \in Nat /\ Len(wsteps) \in Nat /\ Len(wsteps') = new
        BY <3>1, SequenceShape
           DEF WorkflowInv, StoreInv, LedgerInv, LedgerSeqs, RecordSeqs, Recorded
      <4>. QED
        BY <4>1 DEF StepId
    <3>7. wsteps'[new].content = q /\ wsteps'[new].judgment = main /\ wsteps'[new].scope = scope
      BY <2>1, <3>1 DEF Recorded
    <3>. QED
      BY <3>4, <3>5, <3>6, <3>7 DEF Accounted
  <2>. QED
    BY <2>2, <2>3
<1>6. ASSUME NEW c \in Splittable, Splits(c)
      PROVE  Accounted(s, a)'
  <2>. PICK new : new = Len(branches) + 1
    OBVIOUS
  <2>. PICK n : n = Len(scopes)
    OBVIOUS
  <2>1. /\ Len(scopes') = n + 2
        /\ \E l : Issues(n + 1, scope, l, Entries({}, NoDefinition, {c}))
        /\ \E l : Issues(n + 2, scope, l, Entries({}, NoDefinition, {Not(c)}))
        /\ new \in DOMAIN branches'
        /\ branches'[new].cases = <<[condition |-> c, scope |-> n + 1],
                                    [condition |-> Not(c), scope |-> n + 2]>>
    BY <1>6 DEF Splits
  <2>2. s = n + 1 \/ s = n + 2
    BY <1>1, <2>1
  <2>3. ASSUME NEW k, NEW d, s = k, \E l : Issues(k, scope, l, Entries({}, NoDefinition, {d}))
        PROVE  a = d
    BY <2>3 DEF Issues, Entries
  <2>4. \/ branches'[new].cases[1] = [condition |-> a, scope |-> s]
        \/ branches'[new].cases[2] = [condition |-> a, scope |-> s]
    <3>1. /\ branches'[new].cases[1] = [condition |-> c, scope |-> n + 1]
          /\ branches'[new].cases[2] = [condition |-> Not(c), scope |-> n + 2]
      BY <2>1
    <3>2. CASE s = n + 1
      <4>1. a = c
        BY <2>1, <2>3, <3>2
      <4>. QED
        BY <3>1, <3>2, <4>1
    <3>3. CASE s = n + 2
      <4>1. a = Not(c)
        BY <2>1, <2>3, <3>3
      <4>. QED
        BY <3>1, <3>3, <4>1
    <3>. QED
      BY <2>2, <3>2, <3>3
  <2>5. 1 \in 1..2 /\ 2 \in 1..2
    OBVIOUS
  <2>. QED
    BY <2>1, <2>4, <2>5 DEF Accounted
<1>7. ASSUME NEW e, Introducible(e), Introduces(e)
      PROVE  FALSE
  <2>1. e.assumed = {}
    BY <1>7 DEF Introducible, Entries
  <2>2. s = Len(scopes) + 1
    BY <1>1, <1>7 DEF Introduces
  <2>3. scopes'[s].entries = e
    BY <1>7, <2>2 DEF Introduces, Issues
  <2>. QED
    BY <2>1, <2>3
<1>8. CASE Moves
  BY <1>3, <1>8 DEF Moves, kernelVars, scopeVars
<1>. QED
  BY <1>4, <1>5, <1>6, <1>7, <1>8 DEF WorkflowStepKind

-----------------------------------------------------------------------------
(* The graphs agree.                                                        *)

\* The operations of the steps that record judgment j.
By(j) == {wsteps[k].event : k \in {k \in StepId : wsteps[k].judgment = j}}

\* Nothing is indexed under a judgment to come.
ProvenanceInv ==
    /\ \A j \in Nat \ {0} : Reference("judgment", j) \in DOMAIN producers => j \in JudgmentId
    /\ ProvenanceAgrees

\* Indexing an event under references that are not a given one.
LEMMA IndexedElsewhere ==
    ASSUME NEW index, NEW outs, NEW e, NEW ref, ref \notin outs
    PROVE  /\ ref \in DOMAIN Indexed(index, outs, e) <=> ref \in DOMAIN index
           /\ ref \in DOMAIN index => Indexed(index, outs, e)[ref] = index[ref]
BY DEF Indexed

\* Indexing an event under a new reference.
LEMMA IndexedHere ==
    ASSUME NEW index, NEW outs, NEW e \in Nat, NEW ref \in outs, ref \notin DOMAIN index
    PROVE  /\ ref \in DOMAIN Indexed(index, outs, e)
           /\ Range(Indexed(index, outs, e)[ref]) = {e}
<1>1. ref \in DOMAIN Indexed(index, outs, e) /\ Indexed(index, outs, e)[ref] = Append(<<>>, e)
  BY DEF Indexed
<1>2. Append(<<>>, e) = <<e>>
  OBVIOUS
<1>3. Range(<<e>>) = {e}
  BY DEF Range
<1>. QED
  BY <1>1, <1>2, <1>3

\* Each step leaves the graphs in agreement: `made` is the judgment the index
\* gets, 0 when there is none.
LEMMA ProvenanceKept ==
    ASSUME WorkflowInv, Kept, ProvenanceInv, NEW made \in Nat,
           made # 0 => made \in JudgmentId' /\ made \notin JudgmentId,
           \A j \in Nat \ {0} : j # made =>
              LET ref == Reference("judgment", j)
              IN  /\ ref \in DOMAIN producers' <=> ref \in DOMAIN producers
                  /\ ref \in DOMAIN producers => producers'[ref] = producers[ref]
                  /\ By(j)' = By(j),
           made # 0 =>
              LET ref == Reference("judgment", made)
              IN  ref \in DOMAIN producers' /\ Range(producers'[ref]) = By(made)'
    PROVE  ProvenanceInv'
<1>1. /\ JudgmentId \subseteq JudgmentId' /\ JudgmentId' \subseteq Nat \ {0}
  <2>1. /\ Len(judgments) \in Nat /\ Len(judgments') \in Nat
        /\ Len(judgments) <= Len(judgments')
    BY DEF Kept, WorkflowInv, StoreInv, LedgerInv, LedgerSeqs, LedgerGrows
  <2>. QED
    BY <2>1 DEF JudgmentId
<1>2. ASSUME NEW j \in Nat \ {0}, Reference("judgment", j) \in DOMAIN producers'
      PROVE  j \in JudgmentId'
  BY <1>1, <1>2 DEF ProvenanceInv
<1>3. \A j \in Nat \ {0} : j \notin JudgmentId => By(j) = {}
  BY DEF WorkflowInv, StepOK, By
<1>4. ASSUME NEW j \in JudgmentId', j # made
      PROVE  By(j)' = IF Reference("judgment", j) \in DOMAIN producers'
                      THEN Range(producers'[Reference("judgment", j)]) ELSE {}
  <2>. PICK ref : ref = Reference("judgment", j)
    OBVIOUS
  <2>1. /\ ref \in DOMAIN producers' <=> ref \in DOMAIN producers
        /\ ref \in DOMAIN producers => producers'[ref] = producers[ref]
        /\ By(j)' = By(j)
    BY <1>1, <1>4
  <2>2. CASE j \in JudgmentId
    <3>1. By(j) = IF ref \in DOMAIN producers THEN Range(producers[ref]) ELSE {}
      BY <2>2 DEF ProvenanceInv, ProvenanceAgrees, By
    <3>. QED
      BY <2>1, <3>1
  <2>3. CASE j \notin JudgmentId
    <3>1. ref \notin DOMAIN producers /\ By(j) = {}
      BY <1>1, <1>3, <2>3 DEF ProvenanceInv
    <3>. QED
      BY <2>1, <3>1
  <2>. QED
    BY <2>2, <2>3
<1>5. ASSUME NEW j \in JudgmentId'
      PROVE  By(j)' = IF Reference("judgment", j) \in DOMAIN producers'
                      THEN Range(producers'[Reference("judgment", j)]) ELSE {}
  <2>1. CASE j = made
    <3>1. made # 0
      BY <1>1, <2>1
    <3>. QED
      BY <2>1, <3>1
  <2>. QED
    BY <1>4, <2>1
<1>6. ProvenanceAgrees'
  BY <1>5 DEF ProvenanceAgrees, By
<1>. QED
  BY <1>2, <1>6 DEF ProvenanceInv

\* A recorded submission indexes its judgment, and no other.
LEMMA RecordedProvenance ==
    ASSUME WorkflowInv, Kept, ProvenanceInv, NEW p, NEW answer, NEW s, Recorded(p, answer, s),
           answer = "committed" => Proposed(p) /\ Commit(p)
    PROVE  ProvenanceInv'
<1>. PICK made : made = IF answer = "committed" THEN Len(judgments) + 1 ELSE 0
  OBVIOUS
<1>. PICK new : new = Len(wsteps) + 1
  OBVIOUS
<1>. PICK e : e = Len(events) + 1
  OBVIOUS
<1>1. /\ ScopeInv /\ LedgerInv
      /\ Len(judgments) \in Nat /\ JudgmentId = 1..Len(judgments)
      /\ Len(wsteps) \in Nat /\ e \in Nat
  BY SequenceShape DEF WorkflowInv, StoreInv, LedgerInv, LedgerSeqs, RecordSeqs, JudgmentId,
                       TimelineInv, TimelineTypeOK, LogTypeOK
<1>2. /\ Len(wsteps') = new
      /\ \A k \in StepId : wsteps'[k] = wsteps[k]
      /\ wsteps'[new].judgment = made
      /\ wsteps'[new].event = e
  BY DEF Recorded
<1>3. PICK outs : /\ producers' = Indexed(producers, outs, e)
                  /\ \A i \in Nat \ {0} : Reference("judgment", i) \in outs <=> i = made
  BY DEF Recorded
<1>4. /\ made \in Nat
      /\ made # 0 => made \in JudgmentId' /\ made \notin JudgmentId
  <2>1. CASE answer = "committed"
    <3>1. PICK direct \in Seq(Prop) : \E settled \in InOrder(SettledAt(p, direct)) :
              Wrote(p, direct, settled)
      BY <1>1, <2>1, CommitShape
    <3>2. \E n \in Nat : JudgmentId' = 1..(Len(judgments) + 1 + n)
      BY <1>1, <3>1, WroteIds
    <3>. QED
      BY <1>1, <2>1, <3>2
  <2>2. CASE answer # "committed"
    BY <2>2
  <2>. QED
    BY <2>1, <2>2
<1>5. /\ StepId = 1..Len(wsteps) /\ StepId' = 1..new
      /\ \A k : k \in StepId' <=> k \in StepId \/ k = new
      /\ new \notin StepId
  BY <1>1, <1>2 DEF StepId
<1>6. ASSUME NEW j
      PROVE  By(j)' = IF j = made THEN By(j) \cup {e} ELSE By(j)
  <2>1. By(j)' = {wsteps'[k].event : k \in {k \in StepId' : wsteps'[k].judgment = j}}
    BY DEF By
  <2>2. By(j) = {wsteps[k].event : k \in {k \in StepId : wsteps[k].judgment = j}}
    BY DEF By
  <2>3. ASSUME NEW x
        PROVE  x \in By(j)' <=> x \in By(j) \/ (j = made /\ x = e)
    <3>1. x \in By(j)' <=> \E k \in StepId' : wsteps'[k].judgment = j /\ x = wsteps'[k].event
      BY <2>1
    <3>2. x \in By(j) <=> \E k \in StepId : wsteps[k].judgment = j /\ x = wsteps[k].event
      BY <2>2
    <3>. QED
      BY <1>2, <1>5, <3>1, <3>2
  <2>. QED
    BY <2>3
<1>7. ASSUME NEW j \in Nat \ {0}, j # made
      PROVE  LET ref == Reference("judgment", j)
             IN  /\ ref \in DOMAIN producers' <=> ref \in DOMAIN producers
                 /\ ref \in DOMAIN producers => producers'[ref] = producers[ref]
                 /\ By(j)' = By(j)
  <2>. PICK ref : ref = Reference("judgment", j)
    OBVIOUS
  <2>1. ref \notin outs
    BY <1>3, <1>7
  <2>2. /\ ref \in DOMAIN producers' <=> ref \in DOMAIN producers
        /\ ref \in DOMAIN producers => producers'[ref] = producers[ref]
    BY <1>3, <2>1, IndexedElsewhere
  <2>. QED
    BY <1>6, <1>7, <2>2
<1>8. ASSUME made # 0
      PROVE  LET ref == Reference("judgment", made)
             IN  ref \in DOMAIN producers' /\ Range(producers'[ref]) = By(made)'
  <2>. PICK ref : ref = Reference("judgment", made)
    OBVIOUS
  <2>1. ref \in outs /\ ref \notin DOMAIN producers
    BY <1>3, <1>4, <1>8 DEF ProvenanceInv
  <2>2. ref \in DOMAIN producers' /\ Range(producers'[ref]) = {e}
    BY <1>1, <1>3, <2>1, IndexedHere
  <2>3. By(made) = {}
    BY <1>4, <1>8 DEF By, WorkflowInv, StepOK
  <2>. QED
    BY <1>6, <2>2, <2>3
<1>. QED
  BY <1>4, <1>7, <1>8, ProvenanceKept

\* The other operations index no judgment.
LEMMA SilentProvenance ==
    ASSUME WorkflowInv, Kept, ProvenanceInv, Silent, UNCHANGED wsteps
    PROVE  ProvenanceInv'
<1>1. \A j : By(j)' = By(j)
  BY DEF By, StepId
<1>2. ASSUME NEW j
      PROVE  LET ref == Reference("judgment", j)
             IN  /\ ref \in DOMAIN producers' <=> ref \in DOMAIN producers
                 /\ ref \in DOMAIN producers => producers'[ref] = producers[ref]
  <2>. PICK ref : ref = Reference("judgment", j)
    OBVIOUS
  <2>1. CASE producers' = producers
    BY <2>1
  <2>2. ASSUME NEW outs \in SUBSET Ref, producers' = Indexed(producers, outs, Len(events) + 1),
               ref \notin outs
        PROVE  /\ ref \in DOMAIN producers' <=> ref \in DOMAIN producers
               /\ ref \in DOMAIN producers => producers'[ref] = producers[ref]
    BY <2>2, IndexedElsewhere
  <2>. QED
    BY <2>1, <2>2 DEF Silent
<1>. PICK made \in Nat : made = 0
  OBVIOUS
<1>3. \A j \in Nat \ {0} : j # made =>
         LET ref == Reference("judgment", j)
         IN  /\ ref \in DOMAIN producers' <=> ref \in DOMAIN producers
             /\ ref \in DOMAIN producers => producers'[ref] = producers[ref]
             /\ By(j)' = By(j)
  BY <1>1, <1>2
<1>. QED
  BY <1>3, ProvenanceKept

LEMMA ProvenanceStep ==
    ASSUME WorkflowInv, ProvenanceInv, Kept, WorkflowStepKind
    PROVE  ProvenanceInv'
<1>1. ASSUME NEW p, NEW answer, Concludes(p, answer)
      PROVE  ProvenanceInv'
  BY <1>1, RecordedProvenance DEF Concludes
<1>2. ASSUME NEW q \in Claimable, Claims(q)
      PROVE  ProvenanceInv'
  <2>. PICK p : p = Proposal(scope, <<>>, q, "claim", NoPayload, WorkflowPolicy)
    OBVIOUS
  <2>1. /\ Recorded(p, Outcome(p), scope)
        /\ Outcome(p) = "committed" => Proposed(p) /\ Commit(p)
    BY <1>2 DEF Claims
  <2>. QED
    BY <2>1, RecordedProvenance
<1>3. ASSUME NEW c \in Splittable, Splits(c)
      PROVE  ProvenanceInv'
  BY <1>3, SilentProvenance DEF Splits
<1>4. ASSUME NEW e, Introduces(e)
      PROVE  ProvenanceInv'
  BY <1>4, SilentProvenance DEF Introduces, recordVars
<1>5. CASE Moves
  BY <1>5, SilentProvenance DEF Moves
<1>. QED
  BY <1>1, <1>2, <1>3, <1>4, <1>5 DEF WorkflowStepKind

-----------------------------------------------------------------------------
(* Aliases stay acyclic.                                                    *)

\* What a version introduces.
Introduced(v) == scopes[v].entries.declared \cup DOMAIN scopes[v].entries.defined

\* No symbol is introduced twice in sight of s.
OnceInSight(s) ==
    \A u, v \in scopes[s].chain : u # v => {} = Introduced(u) \cap Introduced(v)

\* T contains, with each alias of version s, what the alias stands for.
Closed(s, T) == \A y \in T \cap Defined(s) : DefinitionOf(s, y) \subseteq T

\* A closed set around the definition of each alias of s that misses the alias.
WellFounded(s) ==
    \A x \in Defined(s) :
        \E T \in SUBSET Sym : DefinitionOf(s, x) \subseteq T /\ Closed(s, T) /\ x \notin T

\* In sight of s a symbol has one definition: its defining version's.
OneDefinition ==
    \A s \in ScopeId : OnceInSight(s) =>
        \A v \in scopes[s].chain : \A x \in DOMAIN scopes[v].entries.defined :
            DefinitionOf(s, x) = scopes[v].entries.defined[x]

LEMMA DefinitionsUnique == ScopeInv => OneDefinition
<1>. SUFFICES ASSUME ScopeInv, NEW s \in ScopeId, OnceInSight(s),
                     NEW v \in scopes[s].chain, NEW x \in DOMAIN scopes[v].entries.defined
              PROVE  DefinitionOf(s, x) = scopes[v].entries.defined[x]
  BY DEF OneDefinition
<1>. DEFINE P(w) == /\ x \in DOMAIN scopes[w].entries.defined
                    /\ \A u \in scopes[s].chain : x \in DOMAIN scopes[u].entries.defined => u <= w
            c == CHOOSE w \in scopes[s].chain : P(w)
<1>1. scopes[s].chain \subseteq Nat
  <2>1. scopes[s].chain \subseteq 1..s /\ s \in Nat
    BY DEF ScopeInv, ChainsClosed, ScopeId
  <2>. QED
    BY <2>1
<1>2. \A u \in scopes[s].chain : x \in DOMAIN scopes[u].entries.defined => u = v
  BY DEF OnceInSight, Introduced
<1>3. v \in Nat
  BY <1>1
<1>4. P(v)
  BY <1>2, <1>3
<1>5. c \in scopes[s].chain /\ P(c)
  <2>. HIDE DEF P
  <2>. QED
    BY <1>4
<1>6. c = v
  BY <1>2, <1>5
<1>7. DefinitionOf(s, x) = scopes[c].entries.defined[x]
  BY DEF DefinitionOf
<1>. QED
  BY <1>6, <1>7

LEMMA DefinitionsUniqueNext == ScopeInv' => OneDefinition'
<1>1. ScopeInv => OneDefinition
  BY DefinitionsUnique
<1>. QED
  BY <1>1, PTL

\* Expansion is the least closed set.
LEMMA ExpansionLeast ==
    ASSUME NEW s, NEW body \in SUBSET Sym,
           \A y \in Defined(s) : DefinitionOf(s, y) \subseteq Sym
    PROVE  /\ body \subseteq Expansion(s, body) /\ Expansion(s, body) \in SUBSET Sym
           /\ Closed(s, Expansion(s, body))
           /\ \A T \in SUBSET Sym : body \subseteq T /\ Closed(s, T) => Expansion(s, body) \subseteq T
<1>. DEFINE E == Expansion(s, body)
<1>1. \A x : x \in E <=> /\ x \in Sym
                         /\ \A T \in SUBSET Sym : body \subseteq T /\ Closed(s, T) => x \in T
  BY DEF Expansion, Closed
<1>. HIDE DEF E
<1>2. body \subseteq E /\ E \in SUBSET Sym
  BY <1>1
<1>3. \A T \in SUBSET Sym : body \subseteq T /\ Closed(s, T) => E \subseteq T
  BY <1>1
<1>4. Closed(s, E)
  <2>. SUFFICES ASSUME NEW y \in E \cap Defined(s), NEW z \in DefinitionOf(s, y)
                PROVE  z \in E
    BY DEF Closed
  <2>1. z \in Sym
    OBVIOUS
  <2>2. ASSUME NEW T \in SUBSET Sym, body \subseteq T, Closed(s, T)
        PROVE  z \in T
    <3>1. y \in T
      BY <1>3, <2>2
    <3>. QED
      BY <2>2, <3>1 DEF Closed
  <2>. QED
    BY <1>1, <2>1, <2>2
<1>. QED
  BY <1>2, <1>3, <1>4 DEF E

\* Definitions are sets of symbols, of aliases in sight.
LEMMA DefinitionsType ==
    ASSUME ScopeInv, NEW s \in ScopeId, OnceInSight(s)
    PROVE  \A x \in Defined(s) : DefinitionOf(s, x) \subseteq Sym
<1>. SUFFICES ASSUME NEW x \in Defined(s)
              PROVE  DefinitionOf(s, x) \subseteq Sym
  OBVIOUS
<1>1. PICK v \in scopes[s].chain : x \in DOMAIN scopes[v].entries.defined
  BY DEF Defined
<1>2. v \in ScopeId
  <2>1. scopes[s].chain \subseteq 1..s /\ ScopeId = 1..Len(scopes) /\ Len(scopes) \in Nat
    BY DEF ScopeInv, ChainsClosed, ScopeId
  <2>. QED
    BY <2>1
<1>3. scopes[v].entries.defined[x] \subseteq Sym
  BY <1>1, <1>2 DEF ScopeInv, ScopeTypeOK, EntriesType
<1>. QED
  BY <1>1, <1>3, DefinitionsUnique DEF OneDefinition

AliasInv == \A s \in ScopeId : OnceInSight(s) /\ WellFounded(s)

\* An alias misses a closed set around its definition exactly when it is not
\* in the expansion of the definition.
LEMMA AcyclicIsWellFounded == ScopeInv /\ AliasInv => AliasesAcyclic
<1>. SUFFICES ASSUME ScopeInv, AliasInv, NEW s \in ScopeId
              PROVE  /\ \A x \in Defined(s) : x \notin Expansion(s, DefinitionOf(s, x))
                     /\ OnceInSight(s)
  BY DEF AliasesAcyclic, OnceInSight, Introduced
<1>1. OnceInSight(s) /\ WellFounded(s)
  BY DEF AliasInv
<1>2. ASSUME NEW x \in Defined(s)
      PROVE  x \notin Expansion(s, DefinitionOf(s, x))
  <2>1. PICK T \in SUBSET Sym : DefinitionOf(s, x) \subseteq T /\ Closed(s, T) /\ x \notin T
    BY <1>1 DEF WellFounded
  <2>2. \A y \in Defined(s) : DefinitionOf(s, y) \subseteq Sym
    BY <1>1, DefinitionsType
  <2>3. Expansion(s, DefinitionOf(s, x)) \subseteq T
    BY <2>1, <2>2, ExpansionLeast
  <2>. QED
    BY <2>1, <2>3
<1>. QED
  BY <1>1, <1>2

\* A version keeps what it sees.
LEMMA OldSight ==
    ASSUME ScopeInv, ScopeInv', ScopesGrow, AliasInv, NEW s \in ScopeId
    PROVE  OnceInSight(s)' /\ WellFounded(s)'
<1>1. /\ s \in ScopeId' /\ scopes[s].chain \subseteq ScopeId
      /\ \A v \in ScopeId : scopes'[v] = scopes[v]
  <2>1. scopes[s].chain \subseteq 1..s /\ ScopeId = 1..Len(scopes) /\ Len(scopes) \in Nat
    BY DEF ScopeInv, ChainsClosed, ScopeId
  <2>. QED
    BY <2>1 DEF ScopesGrow, ScopeId, ScopeInv
<1>2. /\ scopes'[s].chain = scopes[s].chain
      /\ \A v \in scopes[s].chain : scopes'[v] = scopes[v]
  BY <1>1
<1>3. OnceInSight(s) /\ WellFounded(s)
  BY DEF AliasInv
<1>4. OnceInSight(s)'
  BY <1>2, <1>3 DEF OnceInSight, Introduced
<1>5. Defined(s)' = Defined(s)
  BY <1>2 DEF Defined
<1>6. ASSUME NEW x \in Defined(s)
      PROVE  DefinitionOf(s, x)' = DefinitionOf(s, x)
  <2>1. PICK v \in scopes[s].chain : x \in DOMAIN scopes[v].entries.defined
    BY DEF Defined
  <2>2. DefinitionOf(s, x) = scopes[v].entries.defined[x]
    BY <1>3, <2>1, DefinitionsUnique DEF OneDefinition
  <2>3. DefinitionOf(s, x)' = scopes'[v].entries.defined[x]
    BY <1>1, <1>2, <1>4, <2>1, DefinitionsUniqueNext DEF OneDefinition
  <2>. QED
    BY <1>2, <2>2, <2>3
<1>7. \A T \in SUBSET Sym : Closed(s, T) => Closed(s, T)'
  BY <1>5, <1>6 DEF Closed
<1>8. ASSUME NEW x \in Defined(s)
      PROVE  \E T \in SUBSET Sym :
                DefinitionOf(s, x)' \subseteq T /\ Closed(s, T)' /\ x \notin T
  BY <1>3, <1>6, <1>7 DEF WellFounded
<1>9. WellFounded(s)'
  BY <1>5, <1>8 DEF WellFounded
<1>. QED
  BY <1>4, <1>9

\* A new version sees what its parent sees, and its own entries, when what it
\* introduces is fresh.
LEMMA NewSight ==
    ASSUME ScopeInv, ScopeInv', ScopesGrow, AliasInv, NEW p \in ScopeId,
           NEW new \in ScopeId', new \notin ScopeId, NEW l, NEW e, Issues(new, p, l, e),
           \A x \in e.declared \cup DOMAIN e.defined : x \notin Declared(p) \cup Defined(p)
    PROVE  /\ OnceInSight(new)'
           /\ Defined(new)' = Defined(p) \cup DOMAIN e.defined
           /\ \A x \in Defined(p) : DefinitionOf(new, x)' = DefinitionOf(p, x)
           /\ \A x \in DOMAIN e.defined : DefinitionOf(new, x)' = e.defined[x]
<1>1. /\ scopes[p].chain \subseteq ScopeId
      /\ \A v \in ScopeId : scopes'[v] = scopes[v]
  <2>1. scopes[p].chain \subseteq 1..p /\ ScopeId = 1..Len(scopes) /\ Len(scopes) \in Nat
    BY DEF ScopeInv, ChainsClosed, ScopeId
  <2>. QED
    BY <2>1 DEF ScopesGrow, ScopeId, ScopeInv
<1>2. /\ scopes'[new].chain = {new} \cup scopes[p].chain
      /\ scopes'[new].entries = e
      /\ \A v \in scopes[p].chain : scopes'[v] = scopes[v] /\ v # new
  BY <1>1 DEF Issues
<1>3. OnceInSight(p)
  BY DEF AliasInv
<1>4. \A v \in scopes[p].chain : Introduced(v) \subseteq Declared(p) \cup Defined(p)
  BY DEF Introduced, Declared, Defined
<1>5. /\ Introduced(new)' = e.declared \cup DOMAIN e.defined
      /\ \A v \in scopes[p].chain : Introduced(v)' = Introduced(v)
  BY <1>2 DEF Introduced
<1>6. OnceInSight(new)'
  <2>1. ASSUME NEW u \in scopes'[new].chain, NEW v \in scopes'[new].chain, u # v
        PROVE  {} = Introduced(u)' \cap Introduced(v)'
    <3>1. CASE u \in scopes[p].chain /\ v \in scopes[p].chain
      BY <1>3, <1>5, <2>1, <3>1 DEF OnceInSight
    <3>2. CASE u = new /\ v \in scopes[p].chain
      BY <1>4, <1>5, <3>2
    <3>3. CASE v = new /\ u \in scopes[p].chain
      BY <1>4, <1>5, <3>3
    <3>. QED
      BY <1>2, <2>1, <3>1, <3>2, <3>3
  <2>. QED
    BY <2>1 DEF OnceInSight
<1>7. Defined(new)' = Defined(p) \cup DOMAIN e.defined
  BY <1>2 DEF Defined
<1>8. ASSUME NEW v \in scopes'[new].chain, NEW x \in DOMAIN scopes'[v].entries.defined
      PROVE  DefinitionOf(new, x)' = scopes'[v].entries.defined[x]
  BY <1>6, DefinitionsUniqueNext DEF OneDefinition
<1>9. ASSUME NEW x \in Defined(p)
      PROVE  DefinitionOf(new, x)' = DefinitionOf(p, x)
  <2>1. PICK v \in scopes[p].chain : x \in DOMAIN scopes[v].entries.defined
    BY DEF Defined
  <2>2. DefinitionOf(p, x) = scopes[v].entries.defined[x]
    BY <1>3, <2>1, DefinitionsUnique DEF OneDefinition
  <2>3. v \in scopes'[new].chain /\ scopes'[v] = scopes[v]
    BY <1>2
  <2>. QED
    BY <1>8, <2>1, <2>2, <2>3
<1>10. ASSUME NEW x \in DOMAIN e.defined
       PROVE  DefinitionOf(new, x)' = e.defined[x]
  <2>1. new \in scopes'[new].chain /\ x \in DOMAIN scopes'[new].entries.defined
    BY <1>2
  <2>. QED
    BY <1>2, <1>8, <2>1
<1>. QED
  BY <1>6, <1>7, <1>9, <1>10

\* A version that defines nothing is as well-founded as its parent.
LEMMA NothingDefined ==
    ASSUME ScopeInv, ScopeInv', ScopesGrow, AliasInv, NEW p \in ScopeId,
           NEW new \in ScopeId', new \notin ScopeId, NEW l, NEW e, Issues(new, p, l, e),
           \A x \in e.declared : x \notin Declared(p) \cup Defined(p),
           DOMAIN e.defined = {}
    PROVE  OnceInSight(new)' /\ WellFounded(new)'
<1>1. /\ OnceInSight(new)'
      /\ Defined(new)' = Defined(p)
      /\ \A x \in Defined(p) : DefinitionOf(new, x)' = DefinitionOf(p, x)
  BY NewSight
<1>2. \A T \in SUBSET Sym : Closed(p, T) => Closed(new, T)'
  BY <1>1 DEF Closed
<1>3. ASSUME NEW x \in Defined(new)'
      PROVE  \E T \in SUBSET Sym :
                DefinitionOf(new, x)' \subseteq T /\ Closed(new, T)' /\ x \notin T
  BY <1>1, <1>2 DEF AliasInv, WellFounded
<1>4. WellFounded(new)'
  BY <1>3 DEF WellFounded
<1>. QED
  BY <1>1, <1>4

\* A new alias that its own expansion does not reach closes no cycle, whatever
\* else is expanded through it.
LEMMA AliasDefined ==
    ASSUME ScopeInv, ScopeInv', ScopesGrow, AliasInv, NEW p \in ScopeId,
           NEW new \in ScopeId', new \notin ScopeId, NEW l,
           NEW x \in Sym, NEW body \in SUBSET Sym,
           Issues(new, p, l, Entries({}, [y \in {x} |-> body], {})),
           x \notin Declared(p) \cup Defined(p), x \notin Expansion(p, body)
    PROVE  OnceInSight(new)' /\ WellFounded(new)'
<1>. PICK e : e = Entries({}, [y \in {x} |-> body], {})
  OBVIOUS
<1>. PICK E : E = Expansion(p, body)
  OBVIOUS
<1>1. e.declared = {} /\ DOMAIN e.defined = {x} /\ e.defined[x] = body
  BY DEF Entries
<1>2. /\ OnceInSight(new)'
      /\ Defined(new)' = Defined(p) \cup {x}
      /\ \A z \in Defined(p) : DefinitionOf(new, z)' = DefinitionOf(p, z)
      /\ DefinitionOf(new, x)' = body
  BY <1>1, NewSight
<1>3. OnceInSight(p) /\ WellFounded(p)
  BY DEF AliasInv
<1>4. \A z \in Defined(p) : DefinitionOf(p, z) \subseteq Sym
  BY <1>3, DefinitionsType
<1>5. /\ body \subseteq E /\ E \in SUBSET Sym /\ Closed(p, E)
      /\ x \notin E /\ x \notin Defined(p)
  BY <1>4, ExpansionLeast
<1>6. ASSUME NEW T \in SUBSET Sym, Closed(p, T), x \in T => body \subseteq T
      PROVE  Closed(new, T)'
  <2>1. \A y \in T \cap Defined(new)' : DefinitionOf(new, y)' \subseteq T
    <3>1. \A y \in T \cap Defined(p) : DefinitionOf(new, y)' \subseteq T
      BY <1>2, <1>6 DEF Closed
    <3>2. x \in T => DefinitionOf(new, x)' \subseteq T
      BY <1>2, <1>6
    <3>. QED
      BY <1>2, <3>1, <3>2
  <2>. QED
    BY <2>1 DEF Closed
<1>7. ASSUME NEW z \in Defined(p)
      PROVE  \E T \in SUBSET Sym :
                DefinitionOf(new, z)' \subseteq T /\ Closed(new, T)' /\ z \notin T
  <2>. PICK F : F = Expansion(p, DefinitionOf(p, z))
    OBVIOUS
  <2>1. DefinitionOf(p, z) \subseteq Sym
    BY <1>4
  <2>2. /\ DefinitionOf(p, z) \subseteq F /\ F \in SUBSET Sym /\ Closed(p, F)
        /\ \A T \in SUBSET Sym : DefinitionOf(p, z) \subseteq T /\ Closed(p, T) => F \subseteq T
    BY <1>4, <2>1, ExpansionLeast
  <2>3. z \notin F
    BY <1>3, <2>2 DEF WellFounded
  <2>4. CASE x \notin F
    BY <1>2, <1>6, <2>2, <2>3, <2>4
  <2>5. CASE x \in F
    <3>1. z \notin E
      <4>1. ASSUME z \in E PROVE FALSE
        <5>1. DefinitionOf(p, z) \subseteq E
          BY <1>5, <4>1 DEF Closed
        <5>2. F \subseteq E
          BY <1>5, <2>2, <5>1
        <5>. QED
          BY <1>5, <2>5, <5>2
      <4>. QED
        BY <4>1
    <3>2. F \cup E \in SUBSET Sym /\ Closed(p, F \cup E) /\ body \subseteq F \cup E
      BY <1>5, <2>2 DEF Closed
    <3>3. Closed(new, F \cup E)'
      BY <1>6, <3>2
    <3>4. DefinitionOf(new, z)' \subseteq F \cup E /\ z \notin F \cup E
      BY <1>2, <2>2, <2>3, <3>1
    <3>. QED
      BY <3>2, <3>3, <3>4
  <2>. QED
    BY <2>4, <2>5
<1>8. Closed(new, E)'
  BY <1>5, <1>6
<1>9. WellFounded(new)'
  <2>1. ASSUME NEW z \in Defined(new)'
        PROVE  \E T \in SUBSET Sym :
                  DefinitionOf(new, z)' \subseteq T /\ Closed(new, T)' /\ z \notin T
    <3>1. CASE z \in Defined(p)
      BY <1>7, <3>1
    <3>2. CASE z = x
      BY <1>2, <1>5, <1>8, <3>2
    <3>. QED
      BY <1>2, <3>1, <3>2
  <2>. QED
    BY <2>1 DEF WellFounded
<1>. QED
  BY <1>2, <1>9

LEMMA AliasStep ==
    ASSUME WorkflowInv, AliasInv, Kept, WorkflowStepKind
    PROVE  AliasInv'
<1>1. /\ ScopeInv /\ ScopeInv' /\ ScopesGrow /\ scope \in ScopeId
      /\ Len(scopes) \in Nat /\ Len(scopes') \in Nat
      /\ ScopeId = 1..Len(scopes) /\ ScopeId' = 1..Len(scopes')
  BY DEF Kept, WorkflowInv, StoreInv, ScopeInv, ScopeId, PointersExist
<1>2. \A s \in ScopeId : OnceInSight(s)' /\ WellFounded(s)'
  BY <1>1, OldSight
<1>. SUFFICES ASSUME NEW s \in ScopeId', s \notin ScopeId
              PROVE  OnceInSight(s)' /\ WellFounded(s)'
  BY <1>2 DEF AliasInv
<1>3. ASSUME NEW l, NEW a, Issues(s, scope, l, Entries({}, NoDefinition, a))
      PROVE  OnceInSight(s)' /\ WellFounded(s)'
  <2>. PICK e : e = Entries({}, NoDefinition, a)
    OBVIOUS
  <2>1. e.declared = {} /\ DOMAIN e.defined = {}
    BY DEF Entries, NoDefinition
  <2>. QED
    BY <1>1, <1>3, <2>1, NothingDefined
<1>4. ASSUME scopes' = scopes
      PROVE  FALSE
  BY <1>1, <1>4
<1>5. ASSUME NEW p, NEW answer, Concludes(p, answer)
      PROVE  FALSE
  BY <1>4, <1>5 DEF Concludes, scopeVars
<1>6. ASSUME NEW q \in Claimable, Claims(q)
      PROVE  OnceInSight(s)' /\ WellFounded(s)'
  <2>. PICK committed \in BOOLEAN :
          committed = (Outcome(Proposal(scope, <<>>, q, "claim", NoPayload, WorkflowPolicy)) = "committed")
    OBVIOUS
  <2>1. CASE committed
    <3>1. /\ Len(scopes') = Len(scopes) + 1
          /\ \E l : Issues(Len(scopes) + 1, scope, l, Entries({}, NoDefinition, {q}))
      BY <1>6, <2>1 DEF Claims
    <3>2. s = Len(scopes) + 1
      BY <1>1, <3>1
    <3>. QED
      BY <1>3, <3>1, <3>2
  <2>2. CASE ~committed
    BY <1>4, <1>6, <2>2 DEF Claims, kernelVars, scopeVars
  <2>. QED
    BY <2>1, <2>2
<1>7. ASSUME NEW c \in Splittable, Splits(c)
      PROVE  OnceInSight(s)' /\ WellFounded(s)'
  <2>1. /\ Len(scopes') = Len(scopes) + 2
        /\ \E l : Issues(Len(scopes) + 1, scope, l, Entries({}, NoDefinition, {c}))
        /\ \E l : Issues(Len(scopes) + 2, scope, l, Entries({}, NoDefinition, {Not(c)}))
    BY <1>7 DEF Splits
  <2>2. s = Len(scopes) + 1 \/ s = Len(scopes) + 2
    BY <1>1, <2>1
  <2>. QED
    BY <1>3, <2>1, <2>2
<1>8. ASSUME NEW e, Introducible(e), Introduces(e)
      PROVE  OnceInSight(s)' /\ WellFounded(s)'
  <2>1. s = Len(scopes) + 1
    BY <1>1, <1>8 DEF Introduces
  <2>2. PICK l : Issues(s, scope, l, e)
    BY <1>8, <2>1 DEF Introduces
  <2>3. PICK x \in Sym :
          /\ x \notin Declared(scope) \cup Defined(scope)
          /\ \/ e = Entries({x}, NoDefinition, {})
             \/ \E body \in SUBSET Sym : /\ x \notin Expansion(scope, body)
                                         /\ e = Entries({}, [y \in {x} |-> body], {})
    BY <1>8 DEF Introducible, Fresh, AliasCycle
  <2>4. CASE e = Entries({x}, NoDefinition, {})
    <3>1. e.declared = {x} /\ DOMAIN e.defined = {}
      BY <2>4 DEF Entries, NoDefinition
    <3>. QED
      BY <1>1, <2>2, <2>3, <3>1, NothingDefined
  <2>5. ASSUME NEW body \in SUBSET Sym, x \notin Expansion(scope, body),
               e = Entries({}, [y \in {x} |-> body], {})
        PROVE  OnceInSight(s)' /\ WellFounded(s)'
    <3>1. Issues(s, scope, l, Entries({}, [y \in {x} |-> body], {}))
      BY <2>2, <2>5
    <3>. QED
      BY <1>1, <2>3, <2>5, <3>1, AliasDefined
  <2>. QED
    BY <2>3, <2>4, <2>5
<1>9. CASE Moves
  BY <1>4, <1>9 DEF Moves, kernelVars, scopeVars
<1>. QED
  BY <1>5, <1>6, <1>7, <1>8, <1>9 DEF WorkflowStepKind

-----------------------------------------------------------------------------
(* The theorems.                                                            *)

\* A new workflow has the root version, which assumes and introduces nothing.
LEMMA RootIsBare ==
    ASSUME WorkflowInit
    PROVE  /\ ScopeId = {1} /\ scopes[1].chain = {1} /\ scopes[1].entries = NoEntries
           /\ StepId = {} /\ JudgmentId = {}
<1>1. /\ scopes = <<[parent |-> 0, lineage |-> 1, entries |-> NoEntries, chain |-> {1}]>>
      /\ wsteps = <<>> /\ judgments = <<>>
  BY DEF WorkflowInit, KernelInit, ScopeInit, LedgerInit
<1>2. Len(scopes) = 1 /\ scopes[1].chain = {1} /\ scopes[1].entries = NoEntries
  BY <1>1
<1>3. Len(wsteps) = 0 /\ Len(judgments) = 0
  BY <1>1
<1>. QED
  BY <1>2, <1>3 DEF ScopeId, StepId, JudgmentId

\* Whatever the rules, claims, splits and definitions are: an assumption of a
\* context is a claim the kernel committed in the version above or the
\* condition of a case (workflow.py add 204-282, split_on 451-485).
THEOREM AssumptionsAccountedCorrect == WorkflowSpec => []AssumptionsAccounted
<1>1. WorkflowInit => AssumptionsAccounted
  BY RootIsBare DEF AssumptionsAccounted, NoEntries, Entries
<1>2. WorkflowInv /\ AssumptionsAccounted /\ [WorkflowNext]_workflowVars => AssumptionsAccounted'
  BY WorkflowStep, AccountedStep
<1>. QED
  BY <1>1, <1>2, WorkflowInvAlways, PTL DEF WorkflowSpec

\* The operation graph, the step records and the ledger name the same origin
\* for every conclusion, whatever was submitted, undone and redone
\* (workflow.py _record and _append_event, event.py producers).
THEOREM ProvenanceCorrect == WorkflowSpec => []ProvenanceAgrees
<1>1. WorkflowInit => ProvenanceInv
  <2>. SUFFICES ASSUME WorkflowInit PROVE ProvenanceInv
    OBVIOUS
  <2>1. DOMAIN producers = {}
    BY DEF WorkflowInit, TimelineInit, LogInit
  <2>. QED
    BY <2>1, RootIsBare DEF ProvenanceInv, ProvenanceAgrees
<1>2. WorkflowInv /\ ProvenanceInv /\ [WorkflowNext]_workflowVars => ProvenanceInv'
  BY WorkflowStep, ProvenanceStep
<1>3. ProvenanceInv => ProvenanceAgrees
  BY DEF ProvenanceInv
<1>. QED
  BY <1>1, <1>2, <1>3, WorkflowInvAlways, PTL DEF WorkflowSpec

\* Expanding aliases terminates in every context of every workflow, for any
\* symbols and right-hand sides (workflow.py define 712-756, _alias_cycle 789-816).
THEOREM AliasesCorrect == WorkflowSpec => []AliasesAcyclic
<1>1. WorkflowInit => AliasInv
  <2>. SUFFICES ASSUME WorkflowInit PROVE OnceInSight(1) /\ WellFounded(1)
    BY RootIsBare DEF AliasInv
  <2>1. scopes[1].chain = {1} /\ scopes[1].entries.defined = NoDefinition
    BY RootIsBare DEF NoEntries, Entries
  <2>2. Defined(1) = {}
    BY <2>1 DEF Defined, NoDefinition
  <2>. QED
    BY <2>1, <2>2 DEF OnceInSight, WellFounded
<1>2. WorkflowInv /\ AliasInv /\ [WorkflowNext]_workflowVars => AliasInv'
  BY WorkflowStep, AliasStep
<1>3. WorkflowInv /\ AliasInv => AliasesAcyclic
  BY AcyclicIsWellFounded DEF WorkflowInv, StoreInv
<1>. QED
  BY <1>1, <1>2, <1>3, WorkflowInvAlways, PTL DEF WorkflowSpec

\* A step of the undo/redo layer records one operation, the last one, or is an
\* undo or a redo.
LEMMA TimelineMove ==
    ASSUME TimelineInv, TimelineNext
    PROVE  \/ /\ Len(events') = Len(events) + 1
              /\ Operate(Last(events').command, Last(events').outputs, scope')
           \/ Undo
           \/ Redo
<1>1. ASSUME NEW c \in Command, NEW outs \in SUBSET Ref, NEW s \in Pointer,
             Operate(c, outs, s)
      PROVE  /\ Len(events') = Len(events) + 1
             /\ Operate(Last(events').command, Last(events').outputs, scope')
  <2>. PICK e : e = [command |-> c, outputs |-> outs, parentRevision |-> revision]
    OBVIOUS
  <2>1. /\ events \in Seq(Event) /\ revision \in Nat
    BY DEF TimelineInv, TimelineTypeOK, LogTypeOK
  <2>2. e \in Event
    BY <2>1 DEF Event
  <2>3. events' = Append(events, e)
    BY <1>1 DEF Operate, AppendEvent
  <2>4. /\ Len(events') = Len(events) + 1
        /\ events'[Len(events')] = e
    BY <2>1, <2>2, <2>3
  <2>5. Last(events') = e
    BY <2>4 DEF Last
  <2>6. Last(events').command = c /\ Last(events').outputs = outs /\ scope' = s
    BY <1>1, <2>5 DEF Operate
  <2>. QED
    BY <1>1, <2>4, <2>6
<1>. QED
  BY <1>1 DEF TimelineNext

\* Every operation of the workflow is recorded exactly once, with the version
\* it leaves current, or is an undo or a redo (workflow.py _append_event,
\* undo, redo).
THEOREM MovesTheTimelineCorrect == WorkflowSpec => MovesTheTimeline
<1>1. WorkflowInv /\ [WorkflowNext]_workflowVars
        => [\/ /\ Len(events') = Len(events) + 1
               /\ Operate(Last(events').command, Last(events').outputs, scope')
            \/ Undo
            \/ Redo]_timelineVars
  <2>. SUFFICES ASSUME WorkflowInv, [WorkflowNext]_workflowVars,
                       ~ UNCHANGED timelineVars
                PROVE  \/ /\ Len(events') = Len(events) + 1
                          /\ Operate(Last(events').command, Last(events').outputs, scope')
                       \/ Undo
                       \/ Redo
    OBVIOUS
  <2>1. TimelineInv /\ TimelineNext
    BY WorkflowStep DEF Kept, WorkflowInv
  <2>. QED
    BY <2>1, TimelineMove
<1>. QED
  BY <1>1, WorkflowInvAlways, PTL DEF WorkflowSpec, MovesTheTimeline

\* In every workflow the pointer is the one remembered for the revision in
\* view (workflow.py undo 830-843, redo 845-852).
THEOREM WorkflowPointerCorrect == WorkflowSpec => []PointerFollowsRevision
BY WorkflowStepsTimeline, PointerCorrect, PTL

\* In every workflow the view and what was undone form one line in the order
\* of recording (event.py 63-118).
THEOREM WorkflowLineCorrect == WorkflowSpec => []LineIsChronological
BY WorkflowStepsTimeline, LineCorrect, PTL

\* The workflow, whatever it computes, gives its user the two stacks of
\* UndoStack: undo and redo restore every context exactly.
THEOREM WorkflowImplementsStack == WorkflowSpec => StackSpec
BY WorkflowStepsTimeline, TimelineImplementsStack, PTL

\* In every workflow, undone or not, a context inside another never answers
\* better about a conclusion (store.py applicability 174-196).
THEOREM WorkflowInheritsAnswers == WorkflowSpec => []ApplicabilityInherited
<1>1. WorkflowInv => ApplicabilityInherited
  BY SeenInside DEF WorkflowInv
<1>. QED
  BY <1>1, WorkflowInvAlways, PTL

\* In every workflow, whatever is undone, merged or claimed later, an answer
\* about a context is never taken back for a better one: undo moves the pointer
\* and leaves ledger and contexts alone (workflow.py undo 830-843, store.py
\* applicability 174-196).
THEOREM WorkflowAnswersStand == WorkflowSpec => ApplicabilityMonotone
<1>. DEFINE Stands == \A s \in ScopeId, j \in JudgmentId :
          /\ Applicability(j, s) = "inapplicable" => Applicability(j, s)' = "inapplicable"
          /\ Applicability(j, s) = "applicable" => Applicability(j, s)' # "conditional"
<1>1. WorkflowInv /\ [WorkflowNext]_workflowVars => Stands
  BY WorkflowStep, AnswersStand DEF Kept, WorkflowInv
<1>2. WorkflowInv /\ [WorkflowNext]_workflowVars => [Stands]_kernelVars
  BY <1>1
<1>3. WorkflowSpec => [][Stands]_kernelVars
  <2>. HIDE DEF Stands
  <2>. QED
    BY <1>2, WorkflowInvAlways, PTL DEF WorkflowSpec
<1>. QED
  BY <1>3 DEF ApplicabilityMonotone

===============================================================================
