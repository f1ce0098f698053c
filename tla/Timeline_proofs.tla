--------------------------- MODULE Timeline_proofs ----------------------------
(***************************************************************************)
(* Theorems about the undo/redo layer, for every set of commands,          *)
(* references and scope versions and every bound on the log.               *)
(***************************************************************************)
EXTENDS Timeline, SequenceTheorems, TLAPS

\* What Front and Last return on a sequence that is not empty.
LEMMA FrontLast ==
    ASSUME NEW S, NEW s \in Seq(S), s # <<>>
    PROVE  /\ Len(s) \in Nat \ {0}
           /\ Front(s) \in Seq(S)
           /\ Len(Front(s)) = Len(s) - 1
           /\ \A i \in 1..(Len(s) - 1) : Front(s)[i] = s[i]
           /\ Last(s) \in S
           /\ Last(s) = s[Len(s)]
<1>1. Len(s) \in Nat \ {0}
  BY EmptySeq
<1>2. \A i \in 1..(Len(s) - 1) : s[i] \in S
  BY <1>1, ElementOfSeq
<1>3. /\ Front(s) \in Seq(S)
      /\ Len(Front(s)) = Len(s) - 1
      /\ \A i \in 1..(Len(s) - 1) : Front(s)[i] = s[i]
  <2>1. 1 \in Int /\ Len(s) - 1 \in Int /\ (Len(s) - 1) - 1 + 1 = Len(s) - 1
    BY <1>1
  <2>2. /\ SubSeq(s, 1, Len(s) - 1) \in Seq(S)
        /\ Len(SubSeq(s, 1, Len(s) - 1)) = IF 1 <= Len(s) - 1 THEN (Len(s) - 1) - 1 + 1 ELSE 0
        /\ \A i \in 1..((Len(s) - 1) - 1 + 1) : SubSeq(s, 1, Len(s) - 1)[i] = s[1 + i - 1]
    BY <1>2, <2>1, SubSeqProperties
  <2>. QED
    BY <1>1, <2>1, <2>2 DEF Front
<1>4. Last(s) \in S /\ Last(s) = s[Len(s)]
  BY <1>1, ElementOfSeq DEF Last
<1>. QED
  BY <1>1, <1>3, <1>4

\* Append and Front undo each other.
LEMMA FrontOfAppend ==
    ASSUME NEW S, NEW s \in Seq(S), NEW x \in S
    PROVE  Append(s, x) # <<>> /\ Front(Append(s, x)) = s /\ Last(Append(s, x)) = x
<1>1. /\ Append(s, x) \in Seq(S) /\ Len(Append(s, x)) = Len(s) + 1
      /\ \A i \in 1..Len(s) : Append(s, x)[i] = s[i]
      /\ Append(s, x)[Len(s) + 1] = x
      /\ Len(s) \in Nat
  BY AppendProperties
<1>. DEFINE a == Append(s, x)
<1>. HIDE DEF a
<1>2. a # <<>>
  BY <1>1 DEF a
<1>3. /\ Front(a) \in Seq(S) /\ Len(Front(a)) = Len(s)
      /\ \A i \in 1..Len(s) : Front(a)[i] = s[i]
      /\ Last(a) = x
  <2>1. a \in Seq(S) /\ Len(a) = Len(s) + 1
    BY <1>1 DEF a
  <2>2. /\ Front(a) \in Seq(S)
        /\ Len(Front(a)) = Len(a) - 1
        /\ \A i \in 1..(Len(a) - 1) : Front(a)[i] = a[i]
        /\ Last(a) = a[Len(a)]
    BY <1>2, <2>1, FrontLast, Zenon
  <2>3. (\A i \in 1..Len(s) : a[i] = s[i]) /\ a[Len(s) + 1] = x
    BY <1>1 DEF a
  <2>4. Len(a) - 1 = Len(s)
    BY <1>1, <2>1
  <2>. QED
    BY <2>1, <2>2, <2>3, <2>4
<1>4. Front(a) = s
  BY <1>3, SeqEqual
<1>. QED
  BY <1>2, <1>3, <1>4 DEF a

\* A sequence is its front with its last element.
LEMMA AppendOfFront ==
    ASSUME NEW S, NEW s \in Seq(S), s # <<>>
    PROVE  s = Append(Front(s), Last(s))
<1>. DEFINE f == Front(s)
            a == Append(f, Last(s))
<1>1. /\ Len(s) \in Nat \ {0} /\ f \in Seq(S) /\ Len(f) = Len(s) - 1
      /\ \A i \in 1..(Len(s) - 1) : f[i] = s[i]
      /\ Last(s) \in S /\ Last(s) = s[Len(s)]
  BY FrontLast
<1>. HIDE DEF f
<1>2. /\ a \in Seq(S) /\ Len(a) = Len(f) + 1
      /\ \A i \in 1..Len(f) : a[i] = f[i]
      /\ a[Len(f) + 1] = Last(s)
  BY <1>1, AppendProperties
<1>. HIDE DEF a
<1>3. \A i \in 1..Len(s) : a[i] = s[i]
  BY <1>1, <1>2
<1>4. a = s
  BY <1>1, <1>2, <1>3, SeqEqual
<1>. QED
  BY <1>4 DEF a, f

\* The operations of the log are type correct.
LEMMA LogTypeStep ==
    ASSUME LogTypeOK, [LogNext]_logVars
    PROVE  LogTypeOK'
<1>1. ASSUME NEW c \in Command, NEW outs \in SUBSET Ref, AppendEvent(c, outs)
      PROVE  LogTypeOK'
  <2>1. Len(events) \in Nat /\ Len(view) \in Nat
    BY DEF LogTypeOK
  <2>2. events' \in Seq(Event) /\ Len(events') = Len(events) + 1
    BY <1>1, <2>1 DEF AppendEvent, LogTypeOK, Event
  <2>3. 1..Len(events) \subseteq 1..Len(events') /\ Len(events) + 1 \in 1..Len(events')
    BY <2>1, <2>2
  <2>4. view \in Seq(1..Len(events'))
    BY <2>3, SeqMonotonic DEF LogTypeOK
  <2>5. view' \in Seq(1..Len(events'))
    BY <1>1, <2>3, <2>4 DEF AppendEvent
  <2>6. future' \in Seq(1..Len(events')) /\ revision' = Len(view')
    BY <1>1, EmptySeq DEF AppendEvent
  <2>7. ASSUME NEW r \in DOMAIN producers'
        PROVE  r \in Ref /\ producers'[r] \in Seq(1..Len(events'))
    <3>1. /\ DOMAIN producers' = DOMAIN producers \cup outs
          /\ r \in Ref
      BY <1>1, <2>7 DEF AppendEvent, Indexed, LogTypeOK
    <3>2. r \in DOMAIN producers => producers[r] \in Seq(1..Len(events'))
      BY <2>3, SeqMonotonic DEF LogTypeOK
    <3>3. <<>> \in Seq(1..Len(events'))
      BY EmptySeq
    <3>4. producers'[r] = LET known == IF r \in DOMAIN producers THEN producers[r] ELSE <<>>
                          IN  IF r \in outs THEN Append(known, Len(events) + 1) ELSE known
      BY <1>1, <3>1, <2>7 DEF AppendEvent, Indexed
    <3>5. CASE r \in DOMAIN producers
      <4>1. CASE r \in outs
        BY <3>1, <3>2, <3>4, <3>5, <4>1, <2>3, AppendProperties
      <4>2. CASE r \notin outs
        BY <3>1, <3>2, <3>4, <3>5, <4>2
      <4>. QED
        BY <4>1, <4>2
    <3>6. CASE r \notin DOMAIN producers
      <4>1. r \in outs
        BY <1>1, <2>7, <3>1, <3>6
      <4>. QED
        BY <3>1, <3>3, <3>4, <3>6, <4>1, <2>3, AppendProperties
    <3>. QED
      BY <3>1, <3>5, <3>6
  <2>. QED
    BY <2>2, <2>5, <2>6, <2>7 DEF LogTypeOK
<1>2. CASE UndoEvent
  <2>1. CASE view # <<>> /\ view' = Front(view) /\ future' = Append(future, Last(view))
    <3>1. Front(view) \in Seq(1..Len(events)) /\ Last(view) \in 1..Len(events)
      BY <2>1, FrontLast DEF LogTypeOK
    <3>. QED
      BY <1>2, <2>1, <3>1 DEF UndoEvent, LogTypeOK
  <2>2. CASE UNCHANGED <<view, future>>
    BY <1>2, <2>2 DEF UndoEvent, LogTypeOK
  <2>. QED
    BY <1>2, <2>1, <2>2 DEF UndoEvent
<1>3. CASE RedoEvent
  <2>1. CASE future # <<>> /\ view' = Append(view, Last(future)) /\ future' = Front(future)
    <3>1. Front(future) \in Seq(1..Len(events)) /\ Last(future) \in 1..Len(events)
      BY <2>1, FrontLast DEF LogTypeOK
    <3>. QED
      BY <1>3, <2>1, <3>1 DEF RedoEvent, LogTypeOK
  <2>2. CASE UNCHANGED <<view, future>>
    BY <1>3, <2>2 DEF RedoEvent, LogTypeOK
  <2>. QED
    BY <1>3, <2>1, <2>2 DEF RedoEvent
<1>4. CASE UNCHANGED logVars
  BY <1>4 DEF logVars, LogTypeOK
<1>. QED
  BY <1>1, <1>2, <1>3, <1>4 DEF LogNext

-----------------------------------------------------------------------------

\* The empty log.
LEMMA LogTypeInit == LogInit => LogTypeOK
<1>. SUFFICES ASSUME LogInit PROVE LogTypeOK
  OBVIOUS
<1>1. DOMAIN producers = {}
  BY DEF LogInit
<1>. QED
  BY <1>1, EmptySeq DEF LogInit, LogTypeOK

\* A step of the timeline is a step of the log or leaves the log alone.
LEMMA TimelineStepsLog == [TimelineNext]_timelineVars => [LogNext]_logVars
BY DEF TimelineNext, timelineVars, LogNext, Operate, Undo, Redo

\* The inductive invariant behind the undo/redo layer: its types, and the
\* agreement of the scope pointer with the revision in view.
TimelineInv == TimelineTypeOK /\ PointerFollowsRevision

\* The pointer starts where revision 0 remembers it.
LEMMA TimelineInvInit == TimelineInit => TimelineInv
<1>. SUFFICES ASSUME TimelineInit PROVE TimelineInv
  OBVIOUS
<1>1. LogTypeOK
  BY LogTypeInit DEF TimelineInit
<1>2. Len(view) = 0 /\ Len(future) = 0 /\ revision = 0
  BY DEF TimelineInit, LogInit
<1>3. DOMAIN scopeAt = {0} /\ scopeAt[0] = Root /\ scope = Root
  BY DEF TimelineInit
<1>. QED
  BY <1>1, <1>2, <1>3, TimelineAssumption
  DEF TimelineInv, TimelineTypeOK, PointerFollowsRevision

\* Undo and redo only read the table of pointers.
LEMMA RestoreStep ==
    ASSUME TimelineInv, LogTypeOK', Restore,
           Len(view') + Len(future') = Len(view) + Len(future)
    PROVE  TimelineInv'
<1>1. /\ Len(view) \in Nat /\ Len(future) \in Nat
      /\ Len(view') \in Nat /\ Len(future') \in Nat
      /\ revision = Len(view) /\ revision' = Len(view')
  BY DEF TimelineInv, TimelineTypeOK, LogTypeOK
<1>2. Len(view') \in 0..(Len(view) + Len(future))
  BY <1>1
<1>3. scope' = scopeAt[revision'] /\ scopeAt[revision'] \in Pointer
  BY <1>1, <1>2 DEF TimelineInv, TimelineTypeOK, PointerFollowsRevision, Restore
<1>4. scopeAt' = scopeAt
  BY DEF Restore
<1>5. TimelineTypeOK'
  BY <1>3, <1>4 DEF TimelineInv, TimelineTypeOK
<1>6. PointerFollowsRevision'
  BY <1>1, <1>2, <1>3, <1>4 DEF TimelineInv, PointerFollowsRevision
<1>. QED
  BY <1>5, <1>6 DEF TimelineInv

\* Undo moves an event to the redo list; none is lost.
LEMMA UndoKeepsTotal ==
    ASSUME LogTypeOK, UndoEvent
    PROVE  Len(view') + Len(future') = Len(view) + Len(future)
<1>1. CASE view # <<>> /\ view' = Front(view) /\ future' = Append(future, Last(view))
  <2>1. /\ Len(view') = Len(view) - 1
        /\ Len(view) \in Nat
        /\ Last(view) \in 1..Len(events)
    BY <1>1, FrontLast DEF LogTypeOK
  <2>2. Len(future') = Len(future) + 1 /\ Len(future) \in Nat
    BY <1>1, <2>1 DEF LogTypeOK
  <2>. QED
    BY <2>1, <2>2
<1>2. CASE UNCHANGED <<view, future>>
  BY <1>2
<1>. QED
  BY <1>1, <1>2 DEF UndoEvent

\* Redo moves an event back; none is lost.
LEMMA RedoKeepsTotal ==
    ASSUME LogTypeOK, RedoEvent
    PROVE  Len(view') + Len(future') = Len(view) + Len(future)
<1>1. CASE future # <<>> /\ view' = Append(view, Last(future)) /\ future' = Front(future)
  <2>1. /\ Len(future') = Len(future) - 1
        /\ Len(future) \in Nat
        /\ Last(future) \in 1..Len(events)
    BY <1>1, FrontLast DEF LogTypeOK
  <2>2. Len(view') = Len(view) + 1 /\ Len(view) \in Nat
    BY <1>1, <2>1 DEF LogTypeOK
  <2>. QED
    BY <2>1, <2>2
<1>2. CASE UNCHANGED <<view, future>>
  BY <1>2
<1>. QED
  BY <1>1, <1>2 DEF RedoEvent

\* Operations, undo and redo keep the pointer with its revision.
LEMMA TimelineInvStep ==
    ASSUME TimelineInv, [TimelineNext]_timelineVars
    PROVE  TimelineInv'
<1>1. LogTypeOK /\ LogTypeOK'
  BY LogTypeStep, TimelineStepsLog DEF TimelineInv, TimelineTypeOK
<1>2. ASSUME NEW c \in Command, NEW outs \in SUBSET Ref, NEW s \in Pointer,
             Operate(c, outs, s)
      PROVE  TimelineInv'
  <2>1. /\ revision' = Len(view') /\ revision' = Len(view) + 1
        /\ Len(view) \in Nat /\ Len(future') = 0
        /\ Len(future) \in Nat
    BY <1>1, <1>2 DEF Operate, AppendEvent, LogTypeOK
  <2>2. /\ DOMAIN scopeAt' = DOMAIN scopeAt \cup {revision'}
        /\ \A r \in DOMAIN scopeAt' :
              scopeAt'[r] = IF r = revision' THEN s ELSE scopeAt[r]
        /\ scope' = s
    BY <1>2 DEF Operate
  <2>3. TimelineTypeOK'
    BY <1>1, <2>1, <2>2 DEF TimelineInv, TimelineTypeOK
  <2>4. 0..(Len(view) + 1) = 0..Len(view) \cup {Len(view) + 1}
    BY <2>1
  <2>5. 0..(Len(view') + Len(future')) \subseteq DOMAIN scopeAt'
    BY <2>1, <2>2, <2>4 DEF TimelineInv, PointerFollowsRevision
  <2>6. 0 \in DOMAIN scopeAt' /\ 0 # revision'
    BY <2>1, <2>5
  <2>7. PointerFollowsRevision'
    BY <2>1, <2>2, <2>5, <2>6 DEF TimelineInv, PointerFollowsRevision
  <2>. QED
    BY <2>3, <2>7 DEF TimelineInv
<1>3. CASE Undo
  BY <1>1, <1>3, UndoKeepsTotal, RestoreStep DEF Undo
<1>4. CASE Redo
  BY <1>1, <1>4, RedoKeepsTotal, RestoreStep DEF Redo
<1>5. CASE UNCHANGED timelineVars
  BY <1>5 DEF timelineVars, logVars, TimelineInv, TimelineTypeOK, LogTypeOK,
              PointerFollowsRevision
<1>. QED
  BY <1>2, <1>3, <1>4, <1>5 DEF TimelineNext

\* The types of the undo/redo layer, whatever operations are performed,
\* undone and redone (event.py, workflow.py 284-302 and 830-852).
THEOREM TimelineTypeCorrect == TimelineSpec => []TimelineTypeOK
<1>1. TimelineInv => TimelineTypeOK
  BY DEF TimelineInv
<1>. QED
  BY <1>1, TimelineInvInit, TimelineInvStep, PTL DEF TimelineSpec

\* The scope pointer is always the one remembered for the revision in view,
\* and every revision within reach of undo and redo has one remembered.
THEOREM PointerCorrect == TimelineSpec => []PointerFollowsRevision
<1>1. TimelineInv => PointerFollowsRevision
  BY DEF TimelineInv
<1>. QED
  BY <1>1, TimelineInvInit, TimelineInvStep, PTL DEF TimelineSpec

-----------------------------------------------------------------------------

\* l is v followed by f backwards.
Joins(l, v, f) ==
    /\ Len(l) = Len(v) + Len(f)
    /\ \A k \in 1..Len(v) : l[k] = v[k]
    /\ \A j \in 1..Len(f) : \A k \in 1..Len(l) :
          j + k = Len(l) + 1 => l[k] = f[j]

\* The places on the line that undo and redo walk.
LEMMA ConcatReverse ==
    ASSUME NEW S, NEW v \in Seq(S), NEW f \in Seq(S)
    PROVE  v \o Reverse(f) \in Seq(S) /\ Joins(v \o Reverse(f), v, f)
<1>. DEFINE r == Reverse(f)
            l == v \o r
<1>1. Len(v) \in Nat /\ Len(f) \in Nat
  OBVIOUS
<1>2. \A i \in 1..Len(f) : f[Len(f) - i + 1] \in S
  BY <1>1, ElementOfSeq
<1>3. /\ r \in Seq(S)
      /\ Len(r) = Len(f)
      /\ \A i \in 1..Len(f) : r[i] = f[Len(f) - i + 1]
  BY <1>1, <1>2 DEF Reverse
<1>. HIDE DEF r
<1>4. /\ l \in Seq(S)
      /\ Len(l) = Len(v) + Len(f)
      /\ \A k \in 1..Len(v) + Len(f) :
            l[k] = IF k <= Len(v) THEN v[k] ELSE r[k - Len(v)]
  <2>1. r \in Seq(S) /\ Len(r) = Len(f)
    BY <1>3
  <2>2. l \in Seq(S) /\ Len(l) = Len(v) + Len(r)
    BY <2>1, ConcatProperties
  <2>3. \A k \in 1..Len(v) + Len(r) :
            l[k] = IF k <= Len(v) THEN v[k] ELSE r[k - Len(v)]
    BY <2>1
  <2>. QED
    BY <2>1, <2>2, <2>3
<1>. HIDE DEF l
<1>5. \A k \in 1..Len(v) : l[k] = v[k]
  BY <1>1, <1>4
<1>6. ASSUME NEW j \in 1..Len(f), NEW k \in 1..Len(l), j + k = Len(l) + 1
      PROVE  l[k] = f[j]
  <2>1. /\ ~(k <= Len(v))
        /\ k - Len(v) \in 1..Len(f)
        /\ Len(f) - (k - Len(v)) + 1 = j
    BY <1>1, <1>4, <1>6
  <2>2. l[k] = r[k - Len(v)]
    BY <1>1, <1>4, <2>1
  <2>3. r[k - Len(v)] = f[Len(f) - (k - Len(v)) + 1]
    BY <1>3, <2>1
  <2>. QED
    BY <2>1, <2>2, <2>3
<1>7. Joins(l, v, f)
  BY <1>4, <1>5, <1>6 DEF Joins
<1>. QED
  BY <1>4, <1>7 DEF l, r

\* The line is the view followed by the redo list backwards.
LEMMA LineShape ==
    ASSUME LogTypeOK
    PROVE  Line \in Seq(1..Len(events)) /\ Joins(Line, view, future)
<1>1. view \in Seq(1..Len(events)) /\ future \in Seq(1..Len(events))
  BY DEF LogTypeOK
<1>. QED
  BY <1>1, ConcatReverse, Zenon DEF Line

\* The same one step later.
LEMMA LineShapeAfter ==
    ASSUME LogTypeOK'
    PROVE  Line' \in Seq(1..Len(events')) /\ Joins(Line', view', future')
<1>1. view' \in Seq(1..Len(events')) /\ future' \in Seq(1..Len(events'))
  BY DEF LogTypeOK
<1>. QED
  BY <1>1, ConcatReverse, Zenon DEF Line

\* The first operation of one list moved to the other: the join is the same.
LEMMA JoinsSame ==
    ASSUME NEW S, NEW l \in Seq(S), NEW m \in Seq(S),
           NEW v \in Seq(S), NEW f \in Seq(S), NEW b, NEW a,
           v # <<>>, b = Front(v), a = Append(f, Last(v)),
           Joins(l, v, f), Joins(m, b, a)
    PROVE  m = l
<1>0. /\ Len(v) \in Nat \ {0}
      /\ Len(b) = Len(v) - 1
      /\ \A i \in 1..(Len(v) - 1) : b[i] = v[i]
      /\ Last(v) \in S
      /\ Last(v) = v[Len(v)]
  BY FrontLast, Zenon
<1>1. Len(f) \in Nat
  OBVIOUS
<1>2. /\ Len(a) = Len(f) + 1
      /\ \A i \in 1..Len(f) : a[i] = f[i]
      /\ a[Len(a)] = Last(v)
  BY <1>0, AppendProperties
<1>3. Len(l) = Len(v) + Len(f) /\ Len(m) = Len(l)
  BY <1>0, <1>1, <1>2 DEF Joins
<1>4. \A k \in 1..Len(l) : m[k] = l[k]
  <2>. TAKE k \in 1..Len(l)
  <2>1. CASE k \in 1..(Len(v) - 1)
    <3>1. k \in 1..Len(b) /\ k \in 1..Len(v)
      BY <1>0, <2>1
    <3>2. m[k] = b[k] /\ l[k] = v[k]
      BY <3>1, Zenon DEF Joins
    <3>. QED
      BY <1>0, <2>1, <3>2, Zenon
  <2>2. CASE k = Len(v)
    <3>1. Len(a) + k = Len(m) + 1 /\ Len(a) \in 1..Len(a) /\ k \in 1..Len(m)
      BY <1>0, <1>1, <1>2, <1>3, <2>2
    <3>2. m[k] = a[Len(a)]
      BY <3>1 DEF Joins
    <3>3. l[k] = v[k]
      BY <1>0, <2>2 DEF Joins
    <3>. QED
      BY <1>0, <1>2, <2>2, <3>2, <3>3, Zenon
  <2>3. CASE k > Len(v)
    <3>. DEFINE j == Len(l) + 1 - k
    <3>1. j \in 1..Len(f) /\ j \in 1..Len(a) /\ j + k = Len(l) + 1 /\ k \in 1..Len(m)
      BY <1>0, <1>1, <1>2, <1>3, <2>3
    <3>. HIDE DEF j
    <3>2. m[k] = a[j] /\ l[k] = f[j]
      BY <1>3, <3>1 DEF Joins
    <3>. QED
      BY <1>2, <3>1, <3>2
  <2>4. k \in 1..(Len(v) - 1) \/ k = Len(v) \/ k > Len(v)
    BY <1>0, <1>1, <1>3
  <2>. QED
    BY <2>1, <2>2, <2>3, <2>4
<1>. QED
  BY <1>3, <1>4, SeqEqual

\* Moving one operation between the view and the redo list leaves the line
\* as it was.
LEMMA LineKept ==
    ASSUME LogTypeOK, LogTypeOK', UndoEvent \/ RedoEvent
    PROVE  Line' = Line
<1>1. events' = events
  BY DEF UndoEvent, RedoEvent
<1>2. /\ view \in Seq(1..Len(events)) /\ future \in Seq(1..Len(events))
      /\ Line \in Seq(1..Len(events)) /\ Joins(Line, view, future)
  BY LineShape DEF LogTypeOK
<1>3. /\ view' \in Seq(1..Len(events)) /\ future' \in Seq(1..Len(events))
      /\ Line' \in Seq(1..Len(events)) /\ Joins(Line', view', future')
  BY LineShapeAfter, <1>1 DEF LogTypeOK
<1>4. CASE UNCHANGED <<view, future>>
  BY <1>4 DEF Line
<1>5. CASE view # <<>> /\ view' = Front(view) /\ future' = Append(future, Last(view))
  BY <1>2, <1>3, <1>5, JoinsSame, Zenon
<1>6. CASE future # <<>> /\ view' = Append(view, Last(future)) /\ future' = Front(future)
  <2>1. view' # <<>> /\ Front(view') = view /\ Last(view') = Last(future)
    <3>1. Last(future) \in 1..Len(events)
      BY <1>2, <1>6, FrontLast
    <3>2. LET a == Append(view, Last(future))
          IN  a # <<>> /\ Front(a) = view /\ Last(a) = Last(future)
      BY <1>2, <3>1, FrontOfAppend, Zenon
    <3>. QED
      BY <1>6, <3>2, Zenon
  <2>2. future = Append(future', Last(view'))
    BY <1>2, <1>6, <2>1, AppendOfFront
  <2>. QED
    BY <1>2, <1>3, <2>1, <2>2, JoinsSame, Zenon
<1>. QED
  BY <1>4, <1>5, <1>6 DEF UndoEvent, RedoEvent

\* The inductive invariant behind the shape of history.
LineInv == LogTypeOK /\ LineIsChronological /\ ParentIsPlaceOnLine

\* The line of the empty log.
LEMMA LineInvInit == LogInit => LineInv
<1>. SUFFICES ASSUME LogInit PROVE LineInv
  OBVIOUS
<1>1. LogTypeOK
  BY LogTypeInit
<1>2. Len(Line) = 0
  <2>1. Len(view) = 0 /\ Len(future) = 0
    BY DEF LogInit
  <2>. QED
    BY <1>1, <2>1, LineShape DEF Joins
<1>. QED
  BY <1>1, <1>2 DEF LineInv, LineIsChronological, ParentIsPlaceOnLine, Increasing

\* Recording, undo and redo keep the line in order.
LEMMA LineInvStep ==
    ASSUME LineInv, [LogNext]_logVars
    PROVE  LineInv'
<1>1. LogTypeOK /\ LogTypeOK'
  BY LogTypeStep DEF LineInv
<1>2. ASSUME NEW c \in Command, NEW outs \in SUBSET Ref, AppendEvent(c, outs)
      PROVE  LineIsChronological' /\ ParentIsPlaceOnLine'
  <2>. DEFINE m == Len(view)
  <2>1. m \in Nat /\ Len(future) \in Nat /\ Len(events) \in Nat /\ revision = m
    BY <1>1 DEF LogTypeOK
  <2>2. /\ Len(view') = m + 1 /\ Len(future') = 0
        /\ \A k \in 1..m : view'[k] = view[k]
        /\ view'[m + 1] = Len(events) + 1
    BY <1>1, <1>2, AppendProperties DEF AppendEvent, LogTypeOK
  <2>3. /\ Len(Line') = m + 1
        /\ \A k \in 1..m : Line'[k] = view[k]
        /\ Line'[m + 1] = Len(events) + 1
    <3>1. Joins(Line', view', future')
      BY <1>1, LineShapeAfter
    <3>2. Len(Line') = m + 1 /\ \A k \in 1..(m + 1) : Line'[k] = view'[k]
      BY <2>1, <2>2, <3>1 DEF Joins
    <3>. QED
      BY <2>1, <2>2, <3>2
  <2>4. /\ m <= Len(Line)
        /\ \A k \in 1..m : Line[k] = view[k] /\ view[k] \in 1..Len(events)
    <3>1. Joins(Line, view, future)
      BY <1>1, LineShape
    <3>2. m <= Len(Line) /\ \A k \in 1..m : Line[k] = view[k]
      BY <2>1, <3>1 DEF Joins
    <3>3. \A k \in 1..m : view[k] \in 1..Len(events)
      BY <1>1, ElementOfSeq DEF LogTypeOK
    <3>. QED
      BY <3>2, <3>3
  <2>5. /\ \A e \in 1..Len(events) : events'[e] = events[e]
        /\ events'[Len(events) + 1].parentRevision = revision
    BY <1>1, <1>2, AppendProperties DEF AppendEvent, LogTypeOK, Event
  <2>8. Len(Line) \in Nat
    BY <1>1, LineShape
  <2>. HIDE DEF m
  <2>6. LineIsChronological'
    <3>. SUFFICES ASSUME NEW i \in 1..(m + 1), NEW j \in 1..(m + 1), i < j
                  PROVE  Line'[i] < Line'[j]
      BY <2>3 DEF LineIsChronological, Increasing
    <3>1. i \in 1..m /\ i \in 1..Len(Line)
      BY <2>1, <2>4, <2>8
    <3>2. CASE j \in 1..m
      <4>1. j \in 1..Len(Line)
        BY <2>1, <2>4, <2>8, <3>2
      <4>2. Line[i] < Line[j]
        BY <3>1, <4>1 DEF LineInv, LineIsChronological, Increasing
      <4>. QED
        BY <2>3, <2>4, <3>1, <3>2, <4>2
    <3>3. CASE j = m + 1
      <4>1. Line'[i] = view[i] /\ view[i] \in 1..Len(events) /\ Line'[j] = Len(events) + 1
        BY <2>3, <2>4, <3>1, <3>3
      <4>. QED
        BY <2>1, <4>1
    <3>. QED
      BY <2>1, <3>2, <3>3
  <2>7. ParentIsPlaceOnLine'
    <3>. SUFFICES ASSUME NEW k \in 1..(m + 1)
                  PROVE  events'[Line'[k]].parentRevision = k - 1
      BY <2>3 DEF ParentIsPlaceOnLine
    <3>1. CASE k \in 1..m
      <4>1. k \in 1..Len(Line)
        BY <2>1, <2>4, <2>8, <3>1
      <4>2. events[Line[k]].parentRevision = k - 1
        BY <4>1 DEF LineInv, ParentIsPlaceOnLine
      <4>. QED
        BY <2>3, <2>4, <2>5, <3>1, <4>2
    <3>2. CASE k = m + 1
      BY <2>1, <2>3, <2>5, <3>2
    <3>. QED
      BY <2>1, <3>1, <3>2
  <2>. QED
    BY <2>6, <2>7
<1>3. CASE UndoEvent \/ RedoEvent
  <2>1. Line' = Line /\ events' = events
    BY <1>1, <1>3, LineKept DEF UndoEvent, RedoEvent
  <2>. QED
    BY <1>1, <2>1 DEF LineInv, LineIsChronological, ParentIsPlaceOnLine, Increasing
<1>4. CASE UNCHANGED logVars
  BY <1>1, <1>4 DEF LineInv, LineIsChronological, ParentIsPlaceOnLine, Increasing,
                    Line, logVars
<1>. QED
  BY <1>1, <1>2, <1>3, <1>4 DEF LineInv, LogNext

\* Whatever mix of operations, undos and redos was performed, walking the
\* line of history visits each operation at most once and in the order in
\* which the operations were performed (event.py 75-118).
THEOREM LineCorrect == TimelineSpec => []LineIsChronological
<1>1. TimelineInit => LineInv
  BY LineInvInit DEF TimelineInit
<1>2. LineInv /\ [TimelineNext]_timelineVars => LineInv'
  BY LineInvStep, TimelineStepsLog
<1>3. LineInv => LineIsChronological
  BY DEF LineInv
<1>. QED
  BY <1>1, <1>2, <1>3, PTL DEF TimelineSpec

\* The revision an event was applied to is the place it holds on the line,
\* while it is in view and while it is undone (event.py 20-25 and 80-87).
THEOREM ParentCorrect == TimelineSpec => []ParentIsPlaceOnLine
<1>1. TimelineInit => LineInv
  BY LineInvInit DEF TimelineInit
<1>2. LineInv /\ [TimelineNext]_timelineVars => LineInv'
  BY LineInvStep, TimelineStepsLog
<1>3. LineInv => ParentIsPlaceOnLine
  BY DEF LineInv
<1>. QED
  BY <1>1, <1>2, <1>3, PTL DEF TimelineSpec

-----------------------------------------------------------------------------

\* The two stacks read off the view, the redo list and the table of pointers.
Item(log, table, e, r) ==
    [command |-> log[e].command, outputs |-> log[e].outputs, pointer |-> table[r]]

StacksRead(done, undone, now, later, log, table) ==
    /\ done \in Seq(Stack!Operation)
    /\ Len(done) = Len(now)
    /\ \A k \in 1..Len(now) : done[k] = Item(log, table, now[k], k)
    /\ undone \in Seq(Stack!Operation)
    /\ Len(undone) = Len(later)
    /\ \A k \in 1..Len(later) : \A r \in 1..(Len(now) + Len(later)) :
          r + k = Len(now) + Len(later) + 1 => undone[k] = Item(log, table, later[k], r)

\* What a stack holds is an operation.
LEMMA EntryType ==
    ASSUME TimelineInv, NEW e \in 1..Len(events),
           NEW r \in 0..(Len(view) + Len(future))
    PROVE  Item(events, scopeAt, e, r) \in Stack!Operation
<1>1. events[e] \in Event
  BY ElementOfSeq DEF TimelineInv, TimelineTypeOK, LogTypeOK
<1>2. scopeAt[r] \in Pointer
  BY DEF TimelineInv, TimelineTypeOK, PointerFollowsRevision
<1>. QED
  BY <1>1, <1>2 DEF Item, Event, Stack!Operation

\* The two stacks, place by place.
LEMMA StackShape ==
    TimelineInv => StacksRead(Done, Undone, view, future, events, scopeAt)
<1>. SUFFICES ASSUME TimelineInv PROVE StacksRead(Done, Undone, view, future, events, scopeAt)
  OBVIOUS
<1>1. /\ Len(view) \in Nat /\ Len(future) \in Nat
      /\ \A k \in 1..Len(view) : view[k] \in 1..Len(events)
      /\ \A k \in 1..Len(future) : future[k] \in 1..Len(events)
  <2>1. view \in Seq(1..Len(events)) /\ future \in Seq(1..Len(events))
    BY DEF TimelineInv, TimelineTypeOK, LogTypeOK
  <2>2. Len(view) \in Nat /\ Len(future) \in Nat
    BY <2>1
  <2>3. \A k \in 1..Len(view) : view[k] \in 1..Len(events)
    BY <2>1, ElementOfSeq, Zenon
  <2>4. \A k \in 1..Len(future) : future[k] \in 1..Len(events)
    BY <2>1, ElementOfSeq, Zenon
  <2>. QED
    BY <2>2, <2>3, <2>4
<1>2. \A k \in 1..Len(view) : Item(events, scopeAt, view[k], k) \in Stack!Operation
  <2>. TAKE k \in 1..Len(view)
  <2>1. k \in 0..(Len(view) + Len(future)) /\ view[k] \in 1..Len(events)
    BY <1>1
  <2>. QED
    BY <2>1, EntryType
<1>3. \A k \in 1..Len(future) :
        Item(events, scopeAt, future[k], Len(view) + Len(future) - k + 1) \in Stack!Operation
  <2>. TAKE k \in 1..Len(future)
  <2>1. /\ Len(view) + Len(future) - k + 1 \in 0..(Len(view) + Len(future))
        /\ future[k] \in 1..Len(events)
    BY <1>1
  <2>. QED
    BY <2>1, EntryType
<1>4. /\ Done \in Seq(Stack!Operation)
      /\ Len(Done) = Len(view)
      /\ \A k \in 1..Len(view) : Done[k] = Item(events, scopeAt, view[k], k)
  BY <1>1, <1>2 DEF Done, Entry, Item
<1>5. /\ Undone \in Seq(Stack!Operation)
      /\ Len(Undone) = Len(future)
      /\ \A k \in 1..Len(future) :
            Undone[k] = Item(events, scopeAt, future[k], Len(view) + Len(future) - k + 1)
  BY <1>1, <1>3 DEF Undone, Entry, Item
<1>6. ASSUME NEW k \in 1..Len(future), NEW r \in 1..(Len(view) + Len(future)),
             r + k = Len(view) + Len(future) + 1
      PROVE  Undone[k] = Item(events, scopeAt, future[k], r)
  <2>1. r = Len(view) + Len(future) - k + 1
    BY <1>1, <1>6
  <2>. QED
    BY <1>5, <2>1
<1>. QED
  BY <1>4, <1>5, <1>6 DEF StacksRead

\* The same one step later.
LEMMA StackShapeAfter ==
    TimelineInv' => StacksRead(Done', Undone', view', future', events', scopeAt')
<1>1. TimelineInv' => StacksRead(Done, Undone, view, future, events, scopeAt)'
  BY StackShape, PTL
<1>. QED
  BY <1>1

\* Nothing done maps to two empty stacks.
LEMMA StackInit == TimelineInit => Stack!Init
<1>. SUFFICES ASSUME TimelineInit PROVE Stack!Init
  OBVIOUS
<1>1. StacksRead(Done, Undone, view, future, events, scopeAt)
  BY StackShape, TimelineInvInit
<1>2. Len(Done) = 0 /\ Len(Undone) = 0 /\ scope = Root
  BY <1>1 DEF StacksRead, TimelineInit, LogInit
<1>3. Done = <<>> /\ Undone = <<>>
  BY <1>1, <1>2, EmptySeq DEF StacksRead
<1>. QED
  BY <1>2, <1>3 DEF Stack!Init

\* An operation is pushed on the first stack and empties the second.
LEMMA OperateDoes ==
    ASSUME TimelineInv, TimelineInv', NEW c \in Command, NEW outs \in SUBSET Ref,
           NEW s \in Pointer, Operate(c, outs, s)
    PROVE  Stack!Next
<1>. DEFINE op == [command |-> c, outputs |-> outs, pointer |-> s]
<1>0. PICK m : m = Len(view)
  OBVIOUS
<1>1. op \in Stack!Operation
  BY DEF Stack!Operation
<1>2. /\ view \in Seq(1..Len(events)) /\ m \in Nat /\ Len(future) \in Nat
      /\ Len(events) \in Nat /\ revision = m
      /\ DOMAIN scopeAt \subseteq Nat
      /\ 0..(m + Len(future)) \subseteq DOMAIN scopeAt
      /\ events \in Seq(Event)
  BY <1>0 DEF TimelineInv, TimelineTypeOK, LogTypeOK, PointerFollowsRevision
<1>3. /\ view' = Append(view, Len(events) + 1)
      /\ events' = Append(events, [command |-> c, outputs |-> outs, parentRevision |-> revision])
      /\ future' = <<>>
      /\ revision' = Len(view')
      /\ scope' = s
      /\ scopeAt' = [r \in DOMAIN scopeAt \cup {revision'} |->
                        IF r = revision' THEN s ELSE scopeAt[r]]
  BY DEF Operate, AppendEvent
<1>4. /\ Len(view') = m + 1 /\ view'[m + 1] = Len(events) + 1
      /\ \A k \in 1..m : view'[k] = view[k] /\ view[k] \in 1..Len(events)
  <2>1. \A k \in 1..m : view[k] \in 1..Len(events)
    BY <1>0, <1>2, ElementOfSeq, Zenon
  <2>. QED
    BY <1>0, <1>2, <1>3, <2>1, AppendProperties
<1>5. /\ \A e \in 1..Len(events) : events'[e] = events[e]
      /\ events'[Len(events) + 1] = [command |-> c, outputs |-> outs, parentRevision |-> revision]
  BY <1>2, <1>3
<1>6. /\ scopeAt'[m + 1] = s
      /\ \A k \in 1..m : scopeAt'[k] = scopeAt[k]
  <2>1. revision' = m + 1
    BY <1>3, <1>4
  <2>2. \A k \in 1..m : k \in DOMAIN scopeAt /\ k # m + 1
    <3>. TAKE k \in 1..m
    <3>1. k \in 0..(m + Len(future)) /\ k # m + 1
      BY <1>2
    <3>. QED
      BY <1>2, <3>1
  <2>. QED
    BY <1>3, <2>1, <2>2
<1>7. /\ StacksRead(Done, Undone, view, future, events, scopeAt)
      /\ StacksRead(Done', Undone', view', future', events', scopeAt')
  BY StackShape, StackShapeAfter
<1>8. Undone' = <<>>
  <2>1. Undone' \in Seq(Stack!Operation) /\ Len(Undone') = Len(future')
    BY <1>7 DEF StacksRead
  <2>. QED
    BY <1>3, <2>1, EmptySeq
<1>9. Done' = Append(Done, op)
  <2>1. /\ Done \in Seq(Stack!Operation) /\ Len(Done) = m
        /\ \A k \in 1..m : Done[k] = Item(events, scopeAt, view[k], k)
    BY <1>0, <1>7 DEF StacksRead
  <2>2. /\ Done' \in Seq(Stack!Operation) /\ Len(Done') = m + 1
        /\ \A k \in 1..(m + 1) : Done'[k] = Item(events', scopeAt', view'[k], k)
    BY <1>4, <1>7 DEF StacksRead
  <2>. DEFINE a == Append(Done, op)
  <2>3. /\ a \in Seq(Stack!Operation) /\ Len(a) = m + 1
        /\ \A k \in 1..m : a[k] = Done[k]
        /\ a[m + 1] = op
    BY <1>1, <2>1, AppendProperties
  <2>. HIDE DEF a
  <2>4. ASSUME NEW k \in 1..m
        PROVE  Done'[k] = a[k]
    <3>1. Done'[k] = Item(events', scopeAt', view'[k], k) /\ a[k] = Item(events, scopeAt, view[k], k)
      BY <1>2, <2>1, <2>2, <2>3
    <3>2. Item(events', scopeAt', view'[k], k) = Item(events, scopeAt, view[k], k)
      BY <1>4, <1>5, <1>6 DEF Item
    <3>. QED
      BY <3>1, <3>2
  <2>5. Done'[m + 1] = a[m + 1]
    <3>1. Done'[m + 1] = Item(events', scopeAt', view'[m + 1], m + 1)
      BY <1>2, <2>2
    <3>2. Item(events', scopeAt', view'[m + 1], m + 1) = op
      BY <1>4, <1>5, <1>6 DEF Item
    <3>. QED
      BY <2>3, <3>1, <3>2
  <2>6. \A k \in 1..(m + 1) : Done'[k] = a[k]
    BY <1>2, <2>4, <2>5
  <2>7. Done' = a
    BY <2>2, <2>3, <2>6, SeqEqual
  <2>. QED
    BY <2>7 DEF a
<1>10. /\ Done' # <<>>
       /\ Stack!Last(Done') = op
  <2>1. Done \in Seq(Stack!Operation)
    BY <1>7 DEF StacksRead
  <2>2. /\ Len(Append(Done, op)) = Len(Done) + 1 /\ Len(Done) \in Nat
        /\ Append(Done, op)[Len(Done) + 1] = op
    BY <1>1, <2>1, AppendProperties
  <2>. QED
    BY <1>9, <2>2 DEF Stack!Last
<1>11. Stack!Do(op)
  BY <1>3, <1>8, <1>9 DEF Stack!Do
<1>. QED
  BY <1>1, <1>10, <1>11, Zenon DEF Stack!Next, Stack!DoSome

\* Moving the last operation of one list to the other, with the table of
\* pointers left alone, moves the top of one stack to the other.
LEMMA StacksMoved ==
    ASSUME NEW S, NEW d \in Seq(S), NEW u \in Seq(S), NEW e \in Seq(S), NEW w \in Seq(S),
           Len(d) \in Nat \ {0}, Len(e) = Len(d) - 1, Len(w) = Len(u) + 1,
           \A k \in 1..Len(e) : e[k] = d[k],
           \A k \in 1..Len(u) : w[k] = u[k],
           w[Len(w)] = d[Len(d)]
    PROVE  d # <<>> /\ e = Front(d) /\ w = Append(u, Last(d))
<1>1. d # <<>>
  OBVIOUS
<1>2. /\ Front(d) \in Seq(S) /\ Len(Front(d)) = Len(d) - 1
      /\ \A i \in 1..(Len(d) - 1) : Front(d)[i] = d[i]
      /\ Last(d) \in S /\ Last(d) = d[Len(d)]
  BY <1>1, FrontLast, Zenon
<1>3. e = Front(d)
  BY <1>2, SeqEqual
<1>. DEFINE a == Append(u, Last(d))
<1>4. /\ a \in Seq(S) /\ Len(a) = Len(u) + 1
      /\ \A i \in 1..Len(u) : a[i] = u[i]
      /\ a[Len(u) + 1] = Last(d)
  BY <1>2, AppendProperties
<1>. HIDE DEF a
<1>5. Len(u) \in Nat /\ Len(w) = Len(a)
  BY <1>4
<1>6. w[Len(u) + 1] = a[Len(u) + 1]
  BY <1>2, <1>4, <1>5
<1>7. ASSUME NEW i \in 1..Len(w)
      PROVE  w[i] = a[i]
  <2>1. i \in 1..Len(u) \/ i = Len(u) + 1
    BY <1>5
  <2>2. CASE i \in 1..Len(u)
    BY <1>4, <2>2
  <2>3. CASE i = Len(u) + 1
    BY <1>6, <2>3
  <2>. QED
    BY <2>1, <2>2, <2>3
<1>8. w = a
  BY <1>4, <1>5, <1>7, SeqEqual
<1>. QED
  BY <1>1, <1>3, <1>8 DEF a

\* An undo that finds something pops one stack onto the other.
LEMMA UndoUndoes ==
    ASSUME TimelineInv, TimelineInv', Undo, view # <<>>
    PROVE  Stack!Undo
<1>0. PICK m, n : m = Len(view) /\ n = Len(future)
  OBVIOUS
<1>1. /\ view \in Seq(1..Len(events)) /\ future \in Seq(1..Len(events))
      /\ m \in Nat \ {0} /\ n \in Nat /\ revision = m
  BY <1>0, EmptySeq DEF TimelineInv, TimelineTypeOK, LogTypeOK
<1>2. /\ view' = Front(view) /\ future' = Append(future, Last(view))
      /\ events' = events /\ scopeAt' = scopeAt
      /\ revision' = Len(view')
      /\ scope' = IF revision' # revision THEN scopeAt[revision'] ELSE scope
  BY DEF Undo, UndoEvent, Restore
<1>3. /\ Len(view') = m - 1
      /\ \A k \in 1..(m - 1) : view'[k] = view[k]
      /\ Last(view) \in 1..Len(events) /\ Last(view) = view[m]
  BY <1>0, <1>1, <1>2, FrontLast, Zenon
<1>4. /\ Len(future') = n + 1 /\ future'[n + 1] = view[m]
      /\ \A k \in 1..n : future'[k] = future[k]
  BY <1>0, <1>1, <1>2, <1>3, AppendProperties
<1>5. /\ StacksRead(Done, Undone, view, future, events, scopeAt)
      /\ StacksRead(Done', Undone', view', future', events, scopeAt)
  BY <1>2, StackShape, StackShapeAfter
<1>6. /\ Done \in Seq(Stack!Operation) /\ Len(Done) = m
      /\ \A k \in 1..m : Done[k] = Item(events, scopeAt, view[k], k)
      /\ Undone \in Seq(Stack!Operation) /\ Len(Undone) = n
      /\ \A k \in 1..n : \A r \in 1..(m + n) :
            r + k = m + n + 1 => Undone[k] = Item(events, scopeAt, future[k], r)
  BY <1>0, <1>5 DEF StacksRead
<1>7. /\ Done' \in Seq(Stack!Operation) /\ Len(Done') = m - 1
      /\ \A k \in 1..(m - 1) : Done'[k] = Item(events, scopeAt, view'[k], k)
      /\ Undone' \in Seq(Stack!Operation) /\ Len(Undone') = n + 1
      /\ \A k \in 1..(n + 1) : \A r \in 1..(m + n) :
            r + k = m + n + 1 => Undone'[k] = Item(events, scopeAt, future'[k], r)
  <2>1. Len(view') = m - 1 /\ Len(future') = n + 1 /\ Len(view') + Len(future') = m + n
    BY <1>1, <1>3, <1>4
  <2>. QED
    BY <1>5, <2>1 DEF StacksRead
<1>8. \A k \in 1..(m - 1) : Done'[k] = Done[k]
  <2>. TAKE k \in 1..(m - 1)
  <2>1. k \in 1..m
    BY <1>1
  <2>2. view'[k] = view[k]
    BY <1>3
  <2>3. Done[k] = Item(events, scopeAt, view[k], k)
    BY <1>6, <2>1
  <2>4. Done'[k] = Item(events, scopeAt, view'[k], k)
    BY <1>7
  <2>. QED
    BY <2>2, <2>3, <2>4
<1>9. \A k \in 1..n : Undone'[k] = Undone[k]
  <2>. TAKE k \in 1..n
  <2>. DEFINE r == m + n + 1 - k
  <2>1. r \in 1..(m + n) /\ r + k = m + n + 1 /\ k \in 1..(n + 1)
    BY <1>1
  <2>. HIDE DEF r
  <2>. QED
    BY <1>4, <1>6, <1>7, <2>1
<1>10. Undone'[n + 1] = Done[m]
  <2>1. m \in 1..(m + n) /\ m \in 1..m /\ n + 1 \in 1..(n + 1) /\ m + (n + 1) = m + n + 1
    BY <1>1
  <2>. QED
    BY <1>4, <1>6, <1>7, <2>1
<1>11. Done # <<>> /\ Done' = Front(Done) /\ Undone' = Append(Undone, Last(Done))
  <2>1. /\ Len(Done) \in Nat \ {0}
        /\ Len(Done') = Len(Done) - 1 /\ Len(Undone') = Len(Undone) + 1
    BY <1>1, <1>6, <1>7
  <2>2. /\ \A k \in 1..Len(Done') : Done'[k] = Done[k]
        /\ \A k \in 1..Len(Undone) : Undone'[k] = Undone[k]
        /\ Undone'[Len(Undone')] = Done[Len(Done)]
    BY <1>6, <1>7, <1>8, <1>9, <1>10
  <2>. QED
    BY <1>6, <1>7, <2>1, <2>2, StacksMoved, Zenon
<1>12. scope' = scopeAt[m - 1]
  BY <1>1, <1>2, <1>3
<1>13. scope' = Stack!Top(Done')
  <2>1. CASE m = 1
    <3>1. Done' = <<>> /\ scopeAt[m - 1] = Root
      BY <1>7, <2>1, EmptySeq DEF TimelineInv, PointerFollowsRevision
    <3>. QED
      BY <1>12, <3>1 DEF Stack!Top
  <2>2. CASE m # 1
    <3>1. Done' # <<>> /\ m - 1 \in 1..(m - 1)
      BY <1>1, <1>7, <2>2
    <3>2. Last(Done') = Item(events, scopeAt, view'[m - 1], m - 1)
      BY <1>7, <3>1, FrontLast
    <3>3. Stack!Last(Done') = Last(Done')
      BY DEF Stack!Last, Last
    <3>. QED
      BY <1>12, <3>1, <3>2, <3>3 DEF Stack!Top, Item
  <2>. QED
    BY <2>1, <2>2
<1>14. Stack!Last(Done) = Last(Done) /\ Stack!Front(Done) = Front(Done)
  BY DEF Stack!Last, Last, Stack!Front, Front
<1>. QED
  BY <1>11, <1>13, <1>14, Zenon DEF Stack!Undo

\* A redo that finds something pops it back.
LEMMA RedoRedoes ==
    ASSUME TimelineInv, TimelineInv', Redo, future # <<>>
    PROVE  Stack!Redo
<1>0. PICK m, n : m = Len(view) /\ n = Len(future)
  OBVIOUS
<1>1. /\ view \in Seq(1..Len(events)) /\ future \in Seq(1..Len(events))
      /\ m \in Nat /\ n \in Nat \ {0} /\ revision = m
  BY <1>0, EmptySeq DEF TimelineInv, TimelineTypeOK, LogTypeOK
<1>2. /\ view' = Append(view, Last(future)) /\ future' = Front(future)
      /\ events' = events /\ scopeAt' = scopeAt
      /\ revision' = Len(view')
      /\ scope' = IF revision' # revision THEN scopeAt[revision'] ELSE scope
  BY DEF Redo, RedoEvent, Restore
<1>3. /\ Len(future') = n - 1
      /\ \A k \in 1..(n - 1) : future'[k] = future[k]
      /\ Last(future) \in 1..Len(events) /\ Last(future) = future[n]
  BY <1>0, <1>1, <1>2, FrontLast, Zenon
<1>4. /\ Len(view') = m + 1 /\ view'[m + 1] = future[n]
      /\ \A k \in 1..m : view'[k] = view[k]
  BY <1>0, <1>1, <1>2, <1>3, AppendProperties
<1>5. /\ StacksRead(Done, Undone, view, future, events, scopeAt)
      /\ StacksRead(Done', Undone', view', future', events, scopeAt)
  BY <1>2, StackShape, StackShapeAfter
<1>6. /\ Done \in Seq(Stack!Operation) /\ Len(Done) = m
      /\ \A k \in 1..m : Done[k] = Item(events, scopeAt, view[k], k)
      /\ Undone \in Seq(Stack!Operation) /\ Len(Undone) = n
      /\ \A k \in 1..n : \A r \in 1..(m + n) :
            r + k = m + n + 1 => Undone[k] = Item(events, scopeAt, future[k], r)
  BY <1>0, <1>5 DEF StacksRead
<1>7. /\ Done' \in Seq(Stack!Operation) /\ Len(Done') = m + 1
      /\ \A k \in 1..(m + 1) : Done'[k] = Item(events, scopeAt, view'[k], k)
      /\ Undone' \in Seq(Stack!Operation) /\ Len(Undone') = n - 1
      /\ \A k \in 1..(n - 1) : \A r \in 1..(m + n) :
            r + k = m + n + 1 => Undone'[k] = Item(events, scopeAt, future'[k], r)
  <2>1. Len(view') = m + 1 /\ Len(future') = n - 1 /\ Len(view') + Len(future') = m + n
    BY <1>1, <1>3, <1>4
  <2>. QED
    BY <1>5, <2>1 DEF StacksRead
<1>8. \A k \in 1..m : Done'[k] = Done[k]
  <2>. TAKE k \in 1..m
  <2>1. k \in 1..(m + 1)
    BY <1>1
  <2>2. view'[k] = view[k]
    BY <1>4
  <2>3. Done[k] = Item(events, scopeAt, view[k], k)
    BY <1>6
  <2>4. Done'[k] = Item(events, scopeAt, view'[k], k)
    BY <1>7, <2>1
  <2>. QED
    BY <2>2, <2>3, <2>4
<1>9. \A k \in 1..(n - 1) : Undone'[k] = Undone[k]
  <2>. TAKE k \in 1..(n - 1)
  <2>. DEFINE r == m + n + 1 - k
  <2>1. r \in 1..(m + n) /\ r + k = m + n + 1 /\ k \in 1..n
    BY <1>1
  <2>. HIDE DEF r
  <2>2. Undone[k] = Item(events, scopeAt, future[k], r)
    BY <1>6, <2>1
  <2>3. Undone'[k] = Item(events, scopeAt, future'[k], r)
    BY <1>7, <2>1
  <2>4. future'[k] = future[k]
    BY <1>3
  <2>. QED
    BY <2>2, <2>3, <2>4
<1>10. Done'[m + 1] = Undone[n]
  <2>1. m + 1 \in 1..(m + n) /\ m + 1 \in 1..(m + 1) /\ n \in 1..n /\ (m + 1) + n = m + n + 1
    BY <1>1
  <2>2. Done'[m + 1] = Item(events, scopeAt, view'[m + 1], m + 1)
    BY <1>7, <2>1
  <2>3. Undone[n] = Item(events, scopeAt, future[n], m + 1)
    BY <1>6, <2>1
  <2>. QED
    BY <1>4, <2>2, <2>3
<1>11. Undone # <<>> /\ Undone' = Front(Undone) /\ Done' = Append(Done, Last(Undone))
  <2>1. /\ Len(Undone) \in Nat \ {0}
        /\ Len(Undone') = Len(Undone) - 1 /\ Len(Done') = Len(Done) + 1
    BY <1>1, <1>6, <1>7
  <2>2. /\ \A k \in 1..Len(Undone') : Undone'[k] = Undone[k]
        /\ \A k \in 1..Len(Done) : Done'[k] = Done[k]
        /\ Done'[Len(Done')] = Undone[Len(Undone)]
    BY <1>6, <1>7, <1>8, <1>9, <1>10
  <2>. QED
    BY <1>6, <1>7, <2>1, <2>2, StacksMoved, Zenon
<1>12. scope' = scopeAt[m + 1]
  BY <1>1, <1>2, <1>4
<1>13. Last(Undone).pointer = scopeAt[m + 1]
  <2>1. m + 1 \in 1..(m + n) /\ n \in 1..n /\ (m + 1) + n = m + n + 1
    BY <1>1
  <2>2. Last(Undone) = Item(events, scopeAt, future[n], m + 1)
    <3>1. Undone[n] = Item(events, scopeAt, future[n], m + 1)
      BY <1>6, <2>1
    <3>2. Last(Undone) = Undone[n]
      BY <1>6 DEF Last
    <3>. QED
      BY <3>1, <3>2
  <2>. QED
    BY <2>2 DEF Item
<1>14. Stack!Last(Undone) = Last(Undone) /\ Stack!Front(Undone) = Front(Undone)
  BY DEF Stack!Last, Last, Stack!Front, Front
<1>. QED
  BY <1>11, <1>12, <1>13, <1>14, Zenon DEF Stack!Redo

\* A step that moves no operation leaves the stacks alone.
LEMMA StacksStutter ==
    ASSUME TimelineInv, TimelineInv',
           UNCHANGED <<events, view, future, scope, scopeAt>>
    PROVE  UNCHANGED Stack!stackVars
<1>. QED
  BY DEF Stack!stackVars, Done, Undone, Entry

\* The undo/redo layer implements the two stacks of UndoStack: undoing and
\* redoing restores operations and scope versions exactly (workflow.py
\* 284-302 and 830-852 over event.py 75-118).
THEOREM TimelineImplementsStack == TimelineSpec => StackSpec
<1>1. TimelineInv /\ TimelineInv' /\ [TimelineNext]_timelineVars => [Stack!Next]_Stack!stackVars
  <2>. SUFFICES ASSUME TimelineInv, TimelineInv', [TimelineNext]_timelineVars
                PROVE  [Stack!Next]_Stack!stackVars
    OBVIOUS
  <2>1. ASSUME NEW c \in Command, NEW outs \in SUBSET Ref, NEW s \in Pointer,
               Operate(c, outs, s)
        PROVE  Stack!Next
    BY <2>1, OperateDoes
  <2>2. CASE Undo
    <3>1. CASE view # <<>>
      BY <2>2, <3>1, UndoUndoes DEF Stack!Next
    <3>2. CASE view = <<>>
      <4>1. UNCHANGED <<events, view, future, scopeAt>> /\ revision' = Len(view')
        BY <2>2, <3>2 DEF Undo, UndoEvent, Restore
      <4>2. revision = Len(view)
        BY DEF TimelineInv, TimelineTypeOK, LogTypeOK
      <4>3. scope' = scope
        BY <2>2, <4>1, <4>2 DEF Undo, Restore
      <4>. QED
        BY <4>1, <4>3, StacksStutter
    <3>. QED
      BY <3>1, <3>2
  <2>3. CASE Redo
    <3>1. CASE future # <<>>
      BY <2>3, <3>1, RedoRedoes DEF Stack!Next
    <3>2. CASE future = <<>>
      <4>1. UNCHANGED <<events, view, future, scopeAt>> /\ revision' = Len(view')
        BY <2>3, <3>2 DEF Redo, RedoEvent, Restore
      <4>2. revision = Len(view)
        BY DEF TimelineInv, TimelineTypeOK, LogTypeOK
      <4>3. scope' = scope
        BY <2>3, <4>1, <4>2 DEF Redo, Restore
      <4>. QED
        BY <4>1, <4>3, StacksStutter
    <3>. QED
      BY <3>1, <3>2
  <2>4. CASE UNCHANGED timelineVars
    BY <2>4, StacksStutter DEF timelineVars, logVars
  <2>. QED
    BY <2>1, <2>2, <2>3, <2>4 DEF TimelineNext
<1>. QED
  BY <1>1, StackInit, TimelineInvInit, TimelineInvStep, PTL
  DEF TimelineSpec, StackSpec, Stack!Spec
===============================================================================
