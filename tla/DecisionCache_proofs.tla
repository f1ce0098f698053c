------------------------- MODULE DecisionCache_proofs -------------------------
(***************************************************************************)
(* The decision cache and the tracked context, for every cache limit,      *)
(* every vocabulary and every bound: answers stay fresh while contexts     *)
(* grow, the cache holds what was asked last, and the steps of the         *)
(* mathematical checkers record what their conditions were decided by.     *)
(***************************************************************************)
EXTENDS DecisionCache, ScopeStore_proofs

Verdict == {"yes", "no", "unknown"}

CacheEntry == [key : Nat \X Prop, scope : Nat, proposition : Prop, verdict : Verdict]

AskRecord == [scope : Nat, proposition : Prop, answer : Verdict]

CommitRecord ==
    [scope   : Nat,
     checker : {"math", "decide"},
     decided : SUBSET [proposition : Prop, verdict : Verdict],
     reads   : SUBSET [kind : {"definition", "assumption", "decide"}, of : Sym \cup Prop]]

\* v is the decision on p in context s, asked afresh.
Settled(s, p, v) == s \in ScopeId /\ p \in Prop /\ v = Fresh(s, p)

\* The reads hold everything a decision in context s may depend on.
ReadsAll(s, reads) ==
    /\ \A x \in Defined(s) : Read("definition", x) \in reads
    /\ \A a \in Assumptions(s) : Read("assumption", a) \in reads

CacheInv ==
    /\ ScopeInv
    /\ cache \in Seq(CacheEntry)
    /\ Len(cache) <= CacheLimit
    /\ asked \in Seq(AskRecord)
    /\ commits \in Seq(CommitRecord)
    /\ \A i \in DOMAIN cache :
          /\ cache[i].key = Question(cache[i])
          /\ Settled(cache[i].scope, cache[i].proposition, cache[i].verdict)
    /\ \A i \in DOMAIN asked :
          Settled(asked[i].scope, asked[i].proposition, asked[i].answer)
    /\ \A k \in DOMAIN commits :
          /\ commits[k].scope \in ScopeId
          /\ \A d \in commits[k].decided :
                Settled(commits[k].scope, d.proposition, d.verdict)
          /\ RecordsReads /\ commits[k].checker = "math" =>
                ReadsAll(commits[k].scope, commits[k].reads)

-----------------------------------------------------------------------------
(* What the decision procedure is asked stands with the context. *)

\* The definitions in sight are definitions over the vocabulary.
LEMMA DefinitionMapType ==
    ASSUME ScopeInv, NEW s \in ScopeId
    PROVE  /\ Assumptions(s) \subseteq Prop
           /\ Defined(s) \subseteq Sym
           /\ DefinitionMap(s) \in UNION {[D -> SUBSET Sym] : D \in SUBSET Sym}
<1>1. /\ Len(scopes) \in Nat /\ ScopeId = 1..Len(scopes)
      /\ scopes[s].chain \subseteq ScopeId
      /\ scopes[s].chain \subseteq 1..s /\ s \in Nat
  <2>1. Len(scopes) \in Nat /\ ScopeId = 1..Len(scopes)
    BY DEF ScopeInv, ScopeId
  <2>2. scopes[s].chain \subseteq 1..s
    BY DEF ScopeInv, ChainsClosed
  <2>. QED
    BY <2>1, <2>2
<1>2. \A v \in scopes[s].chain : EntriesType(scopes[v].entries)
  BY <1>1 DEF ScopeInv, ScopeTypeOK
<1>3. Assumptions(s) \subseteq Prop /\ Defined(s) \subseteq Sym
  BY <1>2 DEF Assumptions, Defined, EntriesType
<1>4. \A x \in Defined(s) : DefinitionOf(s, x) \in SUBSET Sym
  <2>. SUFFICES ASSUME NEW x \in Defined(s) PROVE DefinitionOf(s, x) \in SUBSET Sym
    OBVIOUS
  <2>. DEFINE T == {v \in scopes[s].chain : x \in DOMAIN scopes[v].entries.defined}
  <2>1. T \subseteq 1..s /\ T # {}
    BY <1>1 DEF Defined
  <2>2. PICK v \in T : \A u \in T : u <= v
    <3>. HIDE DEF T
    <3>. QED
      BY <1>1, <2>1, LargestExists
  <2>3. \E w \in scopes[s].chain :
              /\ x \in DOMAIN scopes[w].entries.defined
              /\ \A u \in scopes[s].chain : x \in DOMAIN scopes[u].entries.defined => u <= w
    BY <2>2
  <2>4. PICK w \in scopes[s].chain :
              /\ x \in DOMAIN scopes[w].entries.defined
              /\ DefinitionOf(s, x) = scopes[w].entries.defined[x]
    BY <2>3, Zenon DEF DefinitionOf
  <2>. QED
    BY <1>2, <2>4 DEF EntriesType
<1>5. DefinitionMap(s) \in [Defined(s) -> SUBSET Sym]
  BY <1>4 DEF DefinitionMap
<1>. QED
  BY <1>3, <1>5

\* So is every decision one of the three.
LEMMA FreshType ==
    ASSUME ScopeInv, NEW s \in ScopeId, NEW p \in Prop
    PROVE  Fresh(s, p) \in Verdict
BY DefinitionMapType, JudgeAssumption DEF Fresh, Verdict

\* A decision for a version never changes: the version does not.
LEMMA SettledStands ==
    ASSUME ScopeInv, ScopeInv', ScopesGrow
    PROVE  \A s, p, v : Settled(s, p, v) => Settled(s, p, v)'
<1>. SUFFICES ASSUME NEW s, NEW p, NEW v, Settled(s, p, v) PROVE Settled(s, p, v)'
  OBVIOUS
<1>1. s \in ScopeId
  BY DEF Settled
<1>2. /\ s \in ScopeId'
      /\ Assumptions(s)' = Assumptions(s)
      /\ Defined(s)' = Defined(s)
      /\ \A x \in Defined(s) : DefinitionOf(s, x)' = DefinitionOf(s, x)
  BY <1>1, ContextStands
<1>3. DefinitionMap(s)' = DefinitionMap(s)
  BY <1>2 DEF DefinitionMap
<1>4. Fresh(s, p)' = Fresh(s, p)
  BY <1>2, <1>3 DEF Fresh
<1>. QED
  BY <1>2, <1>4 DEF Settled

\* And what a step had to record it had to record for good.
LEMMA ReadsStand ==
    ASSUME ScopeInv, ScopeInv', ScopesGrow, NEW s \in ScopeId, NEW reads, ReadsAll(s, reads)
    PROVE  ReadsAll(s, reads)'
BY ContextStands DEF ReadsAll, Read

-----------------------------------------------------------------------------
(* The operations on the entries. *)

\* The first entry for a question, if it has one.
LEMMA PlaceIs ==
    ASSUME NEW key, NEW entries \in Seq(CacheEntry)
    PROVE  /\ PlaceOf(key, entries) \in 0..Len(entries)
           /\ PlaceOf(key, entries) # 0 => entries[PlaceOf(key, entries)].key = key
           /\ PlaceOf(key, entries) = 0 => \A i \in 1..Len(entries) : entries[i].key # key
<1>. DEFINE n == Len(entries)
            I == {i \in 1..n : entries[i].key = key}
<1>1. PlaceOf(key, entries) = IF I # {} THEN Min(I) ELSE 0
  BY Zenon DEF PlaceOf, SelectInSeq
<1>2. n \in Nat
  OBVIOUS
<1>3. CASE I = {}
  BY <1>1, <1>2, <1>3
<1>4. CASE I # {}
  <2>2. \E i \in I : \A j \in I : i <= j
    <3>1. {j \in 1..n : n + 1 - j \in I} # {}
      <4>1. PICK i \in I : TRUE
        BY <1>4
      <4>2. n + 1 - i \in 1..n /\ n + 1 - (n + 1 - i) = i
        BY <1>2, <4>1
      <4>. QED
        BY <4>1, <4>2
    <3>2. PICK j \in {j \in 1..n : n + 1 - j \in I} :
             \A k \in {k \in 1..n : n + 1 - k \in I} : k <= j
      <4>. HIDE DEF I, n
      <4>. QED
        BY <1>2, <3>1, LargestExists
    <3>3. ASSUME NEW i \in I
          PROVE  n + 1 - j <= i
      <4>1. n + 1 - i \in 1..n /\ n + 1 - (n + 1 - i) = i
        BY <1>2
      <4>2. n + 1 - i <= j
        BY <3>2, <4>1
      <4>. QED
        BY <1>2, <3>2, <4>1, <4>2
    <3>. QED
      BY <3>2, <3>3
  <2>3. Min(I) \in I
    <3>. HIDE DEF I
    <3>. QED
      BY <2>2, Zenon DEF Min
  <2>. QED
    BY <1>1, <1>4, <2>3
<1>. QED
  BY <1>3, <1>4

\* move_to_end: what came after the entry moves up one place.
LEMMA MovedToEnd ==
    ASSUME NEW S, NEW entries \in Seq(S), NEW i \in 1..Len(entries)
    PROVE  /\ Used(entries, i) \in Seq(S)
           /\ Len(Used(entries, i)) = Len(entries)
           /\ \A k \in 1..Len(entries) :
                 Used(entries, i)[k] = IF k = Len(entries) THEN entries[i]
                                       ELSE IF k < i THEN entries[k] ELSE entries[k + 1]
<1>. DEFINE n == Len(entries)
            before == SubSeq(entries, 1, i - 1)
            after == SubSeq(entries, i + 1, n)
<1>1. n \in Nat /\ i \in Nat /\ i <= n /\ 1 <= i
  OBVIOUS
<1>2. before \in Seq(S) /\ Len(before) = i - 1 /\ \A k \in 1..(i - 1) : before[k] = entries[k]
  BY <1>1
<1>3. after \in Seq(S) /\ Len(after) = n - i /\ \A k \in 1..(n - i) : after[k] = entries[i + k]
  BY <1>1
<1>. HIDE DEF before, after
<1>. DEFINE rest == before \o after
<1>4. /\ rest \in Seq(S)
      /\ Len(rest) = Len(before) + Len(after)
      /\ \A k \in 1..(Len(before) + Len(after)) :
            rest[k] = IF k <= Len(before) THEN before[k] ELSE after[k - Len(before)]
  BY <1>2, <1>3, ConcatProperties, Zenon
<1>5. Used(entries, i) = Append(rest, entries[i])
  BY DEF Used, RemoveAt, before, after
<1>. HIDE DEF rest
<1>6. /\ Len(rest) = n - 1
      /\ \A k \in 1..(n - 1) :
            rest[k] = IF k <= i - 1 THEN before[k] ELSE after[k - (i - 1)]
  <2>1. Len(before) = i - 1 /\ Len(before) + Len(after) = n - 1
    BY <1>1, <1>2, <1>3
  <2>. QED
    BY <1>4, <2>1
<1>7. ASSUME NEW k \in 1..(n - 1)
      PROVE  rest[k] = IF k < i THEN entries[k] ELSE entries[k + 1]
  <2>1. CASE k < i
    <3>1. k \in 1..(i - 1) /\ k <= i - 1
      BY <1>1, <2>1
    <3>. QED
      BY <1>2, <1>6, <2>1, <3>1
  <2>2. CASE ~(k < i)
    <3>1. k - (i - 1) \in 1..(n - i) /\ i + (k - (i - 1)) = k + 1
      BY <1>1, <2>2
    <3>2. rest[k] = after[k - (i - 1)]
      BY <1>1, <1>6, <2>2
    <3>. QED
      BY <1>3, <2>2, <3>1, <3>2
  <2>. QED
    BY <2>1, <2>2
<1>8. Used(entries, i) \in Seq(S) /\ Len(Used(entries, i)) = n
  BY <1>1, <1>4, <1>5, <1>6
<1>9. ASSUME NEW k \in 1..n
      PROVE  Used(entries, i)[k] = IF k = n THEN entries[i]
                                   ELSE IF k < i THEN entries[k] ELSE entries[k + 1]
  <2>1. CASE k = n
    BY <1>1, <1>4, <1>5, <1>6, <2>1
  <2>2. CASE k # n
    <3>1. k \in 1..(n - 1)
      BY <1>1, <2>2
    <3>2. Used(entries, i)[k] = rest[k]
      BY <1>1, <1>4, <1>5, <1>6, <3>1
    <3>. QED
      BY <1>7, <2>2, <3>1, <3>2
  <2>. QED
    BY <2>1, <2>2
<1>. QED
  BY <1>8, <1>9

\* What is too much is dropped at the front.
LEMMA KeptEnd ==
    ASSUME NEW S, NEW entries \in Seq(S), Len(entries) <= CacheLimit + 1
    PROVE  \E cut \in 0..1 :
              /\ cut = 1 => Len(entries) = CacheLimit + 1
              /\ cut = 0 => Len(entries) <= CacheLimit
              /\ Kept(entries) \in Seq(S)
              /\ Len(Kept(entries)) = Len(entries) - cut
              /\ \A k \in 1..Len(Kept(entries)) : Kept(entries)[k] = entries[k + cut]
<1>1. CacheLimit \in Nat /\ CacheLimit >= 1 /\ Len(entries) \in Nat
  BY CacheAssumption
<1>2. CASE Len(entries) > CacheLimit
  <2>1. Len(entries) = CacheLimit + 1
    BY <1>1, <1>2
  <2>2. Kept(entries) = SubSeq(entries, 2, Len(entries))
    BY <1>1, <1>2, <2>1 DEF Kept
  <2>3. /\ Kept(entries) \in Seq(S)
        /\ Len(Kept(entries)) = Len(entries) - 1
        /\ \A k \in 1..Len(Kept(entries)) : Kept(entries)[k] = entries[k + 1]
    BY <1>1, <2>1, <2>2
  <2>. WITNESS 1 \in 0..1
  <2>. QED
    BY <2>1, <2>3
<1>3. CASE ~(Len(entries) > CacheLimit)
  <2>1. Kept(entries) = entries
    BY <1>3 DEF Kept
  <2>2. \A k \in 1..Len(Kept(entries)) : k + 0 = k
    BY <2>1
  <2>. WITNESS 0 \in 0..1
  <2>. QED
    BY <1>1, <1>3, <2>1, <2>2
<1>. QED
  BY <1>2, <1>3

\* The entry made for a question that had none.
Made(s, p) == [key |-> Key(s, p), scope |-> s, proposition |-> p, verdict |-> Fresh(s, p)]

\* The question had entry i, which is now the last.
Found(s, p, before, after) ==
    \E i \in 1..Len(before) :
        /\ before[i].key = Key(s, p)
        /\ Answer(s, p, before) = before[i].verdict
        /\ Len(after) = Len(before)
        /\ \A k \in 1..Len(after) :
              after[k] = IF k = Len(after) THEN before[i]
                         ELSE IF k < i THEN before[k] ELSE before[k + 1]

\* The question had none: one is made, and the first is dropped if it has to be.
Missed(s, p, before, after) ==
    /\ \A i \in 1..Len(before) : before[i].key # Key(s, p)
    /\ Answer(s, p, before) = Fresh(s, p)
    /\ \E cut \in 0..1 :
          /\ cut = 1 => Len(before) = CacheLimit
          /\ Len(after) = Len(before) + 1 - cut
          /\ \A k \in 1..Len(after) :
                after[k] = IF k = Len(after) THEN Made(s, p) ELSE before[k + cut]

\* A question leaves the cache in one of two ways.
LEMMA Remembered ==
    ASSUME NEW s \in Nat, NEW p \in Prop, Fresh(s, p) \in Verdict,
           NEW entries \in Seq(CacheEntry), Len(entries) <= CacheLimit
    PROVE  /\ Remember(s, p, entries) \in Seq(CacheEntry)
           /\ Len(Remember(s, p, entries)) <= CacheLimit
           /\ \/ Found(s, p, entries, Remember(s, p, entries))
              \/ Missed(s, p, entries, Remember(s, p, entries))
<1>. PICK i : i = PlaceOf(Key(s, p), entries)
  OBVIOUS
<1>1. /\ i \in 0..Len(entries)
      /\ i # 0 => entries[i].key = Key(s, p)
      /\ i = 0 => \A j \in 1..Len(entries) : entries[j].key # Key(s, p)
  BY PlaceIs
<1>2. CacheLimit \in Nat /\ CacheLimit >= 1 /\ Len(entries) \in Nat
  BY CacheAssumption
<1>3. CASE i # 0
  <2>1. i \in 1..Len(entries)
    BY <1>1, <1>2, <1>3
  <2>2. Remember(s, p, entries) = Used(entries, i) /\ Answer(s, p, entries) = entries[i].verdict
    BY <1>3 DEF Remember, Answer
  <2>3. /\ Used(entries, i) \in Seq(CacheEntry)
        /\ Len(Used(entries, i)) = Len(entries)
        /\ \A k \in 1..Len(entries) :
              Used(entries, i)[k] = IF k = Len(entries) THEN entries[i]
                                    ELSE IF k < i THEN entries[k] ELSE entries[k + 1]
    BY <2>1, MovedToEnd
  <2>4. Found(s, p, entries, Remember(s, p, entries))
    BY <1>1, <1>3, <2>1, <2>2, <2>3 DEF Found
  <2>. QED
    BY <2>2, <2>3, <2>4
<1>4. CASE i = 0
  <2>. DEFINE more == Append(entries, Made(s, p))
  <2>1. Remember(s, p, entries) = Kept(more) /\ Answer(s, p, entries) = Fresh(s, p)
    BY <1>4 DEF Remember, Answer, Made
  <2>2. Made(s, p) \in CacheEntry
    BY DEF Made, Key, CacheEntry
  <2>3. /\ more \in Seq(CacheEntry)
        /\ Len(more) = Len(entries) + 1
        /\ more[Len(entries) + 1] = Made(s, p)
        /\ \A k \in 1..Len(entries) : more[k] = entries[k]
    BY <2>2
  <2>. HIDE DEF more
  <2>4. PICK cut \in 0..1 :
              /\ cut = 1 => Len(more) = CacheLimit + 1
              /\ cut = 0 => Len(more) <= CacheLimit
              /\ Kept(more) \in Seq(CacheEntry)
              /\ Len(Kept(more)) = Len(more) - cut
              /\ \A k \in 1..Len(Kept(more)) : Kept(more)[k] = more[k + cut]
    <3>1. Len(more) <= CacheLimit + 1
      BY <1>2, <2>3
    <3>. QED
      BY <2>3, <3>1, KeptEnd
  <2>5. /\ cut = 1 => Len(entries) = CacheLimit
        /\ Len(Kept(more)) = Len(entries) + 1 - cut
        /\ Len(Kept(more)) <= CacheLimit
    <3>1. cut = 0 \/ cut = 1
      BY <2>4
    <3>. QED
      BY <1>2, <2>3, <2>4, <3>1
  <2>6. ASSUME NEW k \in 1..Len(Kept(more))
        PROVE  Kept(more)[k] = IF k = Len(Kept(more)) THEN Made(s, p) ELSE entries[k + cut]
    <3>1. Kept(more)[k] = more[k + cut]
      BY <2>4
    <3>2. CASE k = Len(Kept(more))
      <4>1. k + cut = Len(entries) + 1
        BY <1>2, <2>4, <2>5, <3>2
      <4>. QED
        BY <2>3, <3>1, <3>2, <4>1
    <3>3. CASE k # Len(Kept(more))
      <4>1. k + cut \in 1..Len(entries)
        BY <1>2, <2>4, <2>5, <3>3
      <4>. QED
        BY <2>3, <3>1, <3>3, <4>1
    <3>. QED
      BY <3>2, <3>3
  <2>7. Missed(s, p, entries, Remember(s, p, entries))
    BY <1>1, <1>4, <2>1, <2>4, <2>5, <2>6 DEF Missed
  <2>. QED
    BY <2>1, <2>4, <2>5, <2>7
<1>. QED
  BY <1>3, <1>4

-----------------------------------------------------------------------------
(* Every question, wherever it comes from. *)

\* Question p is put in context s.
Put(s, p) ==
    /\ cache' = Remember(s, p, cache)
    /\ asked' = Append(asked, [scope |-> s, proposition |-> p, answer |-> Answer(s, p, cache)])
    /\ UNCHANGED scopeVars

\* A question is given the fresh answer, and so are those still kept.
LEMMA PutAnswersFreshly ==
    ASSUME CacheInv, NEW s \in ScopeId, NEW p \in Prop, Put(s, p)
    PROVE  /\ Settled(s, p, Answer(s, p, cache))
           /\ ScopeInv' /\ ScopesGrow
           /\ cache' \in Seq(CacheEntry) /\ Len(cache') <= CacheLimit
           /\ asked' \in Seq(AskRecord)
           /\ \A i \in DOMAIN cache' :
                 /\ cache'[i].key = Question(cache'[i])
                 /\ Settled(cache'[i].scope, cache'[i].proposition, cache'[i].verdict)
           /\ \A i \in DOMAIN asked' :
                 Settled(asked'[i].scope, asked'[i].proposition, asked'[i].answer)
<1>1. ScopeInv' /\ ScopesGrow
  BY ScopesUnchanged DEF CacheInv, Put
<1>2. /\ cache \in Seq(CacheEntry) /\ Len(cache) <= CacheLimit /\ asked \in Seq(AskRecord)
      /\ s \in Nat /\ Fresh(s, p) \in Verdict
  BY FreshType DEF CacheInv, ScopeInv, ScopeId
<1>3. /\ cache' \in Seq(CacheEntry) /\ Len(cache') <= CacheLimit
      /\ Found(s, p, cache, cache') \/ Missed(s, p, cache, cache')
  BY <1>2, Remembered DEF Put
<1>4. \A i \in 1..Len(cache) :
         /\ cache[i].key = Question(cache[i])
         /\ Settled(cache[i].scope, cache[i].proposition, cache[i].verdict)
  BY <1>2 DEF CacheInv
<1>5. /\ Made(s, p).key = Question(Made(s, p))
      /\ Settled(Made(s, p).scope, Made(s, p).proposition, Made(s, p).verdict)
  BY DEF Made, Question, Key, Settled
<1>6. Settled(s, p, Answer(s, p, cache))
  <2>1. CASE Found(s, p, cache, cache')
    <3>1. PICK i \in 1..Len(cache) :
             cache[i].key = Key(s, p) /\ Answer(s, p, cache) = cache[i].verdict
      BY <2>1 DEF Found
    <3>2. cache[i].scope = s /\ cache[i].proposition = p
      BY <1>4, <3>1 DEF Question, Key
    <3>. QED
      BY <1>4, <3>1, <3>2
  <2>2. CASE Missed(s, p, cache, cache')
    BY <2>2 DEF Missed, Settled
  <2>. QED
    BY <1>3, <2>1, <2>2
<1>7. ASSUME NEW k \in 1..Len(cache')
      PROVE  cache'[k] = Made(s, p) \/ \E i \in 1..Len(cache) : cache'[k] = cache[i]
  <2>1. Len(cache') \in Nat /\ Len(cache) \in Nat
    BY <1>2, <1>3
  <2>2. CASE Found(s, p, cache, cache')
    <3>1. PICK i \in 1..Len(cache) :
             /\ Len(cache') = Len(cache)
             /\ cache'[k] = IF k = Len(cache') THEN cache[i]
                            ELSE IF k < i THEN cache[k] ELSE cache[k + 1]
      BY <2>2 DEF Found
    <3>2. k < i => k \in 1..Len(cache)
      BY <2>1, <3>1
    <3>3. k # Len(cache') => k + 1 \in 1..Len(cache)
      BY <2>1, <3>1
    <3>. QED
      BY <3>1, <3>2, <3>3
  <2>3. CASE Missed(s, p, cache, cache')
    <3>1. PICK cut \in 0..1 :
             /\ Len(cache') = Len(cache) + 1 - cut
             /\ cache'[k] = IF k = Len(cache') THEN Made(s, p) ELSE cache[k + cut]
      BY <2>3 DEF Missed
    <3>2. k # Len(cache') => k + cut \in 1..Len(cache)
      BY <2>1, <3>1
    <3>. QED
      BY <3>1, <3>2
  <2>. QED
    BY <1>3, <2>2, <2>3
<1>8. \A k \in DOMAIN cache' :
         /\ cache'[k].key = Question(cache'[k])
         /\ Settled(cache'[k].scope, cache'[k].proposition, cache'[k].verdict)
  BY <1>3, <1>4, <1>5, <1>7
<1>9. /\ asked' \in Seq(AskRecord)
      /\ \A i \in DOMAIN asked' :
            Settled(asked'[i].scope, asked'[i].proposition, asked'[i].answer)
  <2>. PICK a : a = [scope |-> s, proposition |-> p, answer |-> Answer(s, p, cache)]
    OBVIOUS
  <2>1. Answer(s, p, cache) \in Verdict
    BY <1>2, <1>6 DEF Settled
  <2>2. a \in AskRecord /\ a.scope = s /\ a.proposition = p /\ a.answer = Answer(s, p, cache)
    BY <1>2, <2>1 DEF AskRecord
  <2>3. asked' = Append(asked, a)
    BY DEF Put
  <2>4. /\ asked' \in Seq(AskRecord) /\ Len(asked') = Len(asked) + 1
        /\ \A i \in 1..Len(asked) : asked'[i] = asked[i]
        /\ asked'[Len(asked) + 1] = a
    BY <1>2, <2>2, <2>3
  <2>5. \A i \in 1..Len(asked) :
           Settled(asked[i].scope, asked[i].proposition, asked[i].answer)
    BY <1>2 DEF CacheInv
  <2>6. \A i \in DOMAIN asked' : i \in 1..Len(asked) \/ i = Len(asked) + 1
    BY <1>2, <2>4
  <2>. QED
    BY <1>6, <2>2, <2>4, <2>5, <2>6
<1>. QED
  BY <1>1, <1>3, <1>6, <1>8, <1>9

-----------------------------------------------------------------------------
(* Steps that are written. *)

\* A step as CommitUnder or CommitDecided writes it.
Wrote(s, checker, p, reads) ==
    commits' = Append(commits,
        [scope |-> s, checker |-> checker,
         decided |-> {[proposition |-> p, verdict |-> Answer(s, p, cache)]},
         reads |-> reads])

\* The record that a step is leaves the others as they were.
LEMMA WroteKeeps ==
    ASSUME CacheInv, NEW s \in ScopeId, NEW p \in Prop, Settled(s, p, Answer(s, p, cache)),
           NEW checker \in {"math", "decide"},
           NEW reads \in SUBSET [kind : {"definition", "assumption", "decide"}, of : Sym \cup Prop],
           RecordsReads /\ checker = "math" => ReadsAll(s, reads),
           Wrote(s, checker, p, reads)
    PROVE  /\ commits' \in Seq(CommitRecord)
           /\ \A k \in DOMAIN commits' :
                 /\ commits'[k].scope \in ScopeId
                 /\ \A d \in commits'[k].decided :
                       Settled(commits'[k].scope, d.proposition, d.verdict)
                 /\ RecordsReads /\ commits'[k].checker = "math" =>
                       ReadsAll(commits'[k].scope, commits'[k].reads)
<1>. DEFINE new == [scope |-> s, checker |-> checker,
                    decided |-> {[proposition |-> p, verdict |-> Answer(s, p, cache)]},
                    reads |-> reads]
<1>1. commits \in Seq(CommitRecord) /\ Len(commits) \in Nat /\ s \in Nat
  BY DEF CacheInv, ScopeInv, ScopeId
<1>2. Answer(s, p, cache) \in Verdict
  BY FreshType DEF Settled, CacheInv
<1>3. new \in CommitRecord
  BY <1>1, <1>2 DEF CommitRecord
<1>4. /\ new.scope = s /\ new.checker = checker /\ new.reads = reads
      /\ \A d \in new.decided : d.proposition = p /\ d.verdict = Answer(s, p, cache)
  OBVIOUS
<1>5. commits' = Append(commits, new)
  BY DEF Wrote
<1>. HIDE DEF new
<1>6. /\ commits' \in Seq(CommitRecord) /\ Len(commits') = Len(commits) + 1
      /\ \A k \in 1..Len(commits) : commits'[k] = commits[k]
      /\ commits'[Len(commits) + 1] = new
  BY <1>1, <1>3, <1>5
<1>7. \A k \in DOMAIN commits' : k \in 1..Len(commits) \/ k = Len(commits) + 1
  BY <1>1, <1>6
<1>8. \A k \in 1..Len(commits) :
         /\ commits[k].scope \in ScopeId
         /\ \A d \in commits[k].decided : Settled(commits[k].scope, d.proposition, d.verdict)
         /\ RecordsReads /\ commits[k].checker = "math" =>
               ReadsAll(commits[k].scope, commits[k].reads)
  BY <1>1 DEF CacheInv
<1>9. ASSUME NEW k \in DOMAIN commits'
      PROVE  /\ commits'[k].scope \in ScopeId
             /\ \A d \in commits'[k].decided :
                   Settled(commits'[k].scope, d.proposition, d.verdict)
             /\ RecordsReads /\ commits'[k].checker = "math" =>
                   ReadsAll(commits'[k].scope, commits'[k].reads)
  <2>1. CASE k \in 1..Len(commits)
    BY <1>6, <1>8, <2>1
  <2>2. CASE k = Len(commits) + 1
    BY <1>4, <1>6, <2>2
  <2>. QED
    BY <1>7, <2>1, <2>2
<1>. QED
  BY <1>6, <1>9

\* What a decision reads, and what a merge adds from its branches.
LEMMA ReadsMade ==
    ASSUME CacheInv, NEW s \in ScopeId, NEW p \in Prop, NEW from \in SUBSET DOMAIN commits,
           NEW reads, reads = Recorded(ReadByDecide(s, p)) \cup UNION {commits[k].reads : k \in from}
    PROVE  /\ reads \in SUBSET [kind : {"definition", "assumption", "decide"}, of : Sym \cup Prop]
           /\ RecordsReads => ReadsAll(s, reads)
<1>. DEFINE ReadRecord == [kind : {"definition", "assumption", "decide"}, of : Sym \cup Prop]
<1>1. Assumptions(s) \subseteq Prop /\ Defined(s) \subseteq Sym
  BY DefinitionMapType DEF CacheInv
<1>2. ReadByDecide(s, p) \subseteq ReadRecord
  BY <1>1 DEF ReadByDecide, Read
<1>3. Recorded(ReadByDecide(s, p)) \subseteq ReadRecord
  BY <1>2 DEF Recorded, NothingRead
<1>4. \A k \in from : commits[k].reads \subseteq ReadRecord
  <2>1. \A k \in from : commits[k] \in CommitRecord
    BY DEF CacheInv
  <2>. QED
    BY <2>1 DEF CommitRecord
<1>5. reads \subseteq ReadRecord
  BY <1>3, <1>4
<1>6. ASSUME RecordsReads
      PROVE  ReadsAll(s, reads)
  <2>1. ReadByDecide(s, p) \subseteq reads
    BY <1>6 DEF Recorded
  <2>. QED
    BY <2>1 DEF ReadByDecide, ReadsAll, Read
<1>. QED
  BY <1>5, <1>6

LEMMA CacheInvInit == CacheInit => CacheInv
<1>. SUFFICES ASSUME CacheInit PROVE CacheInv
  OBVIOUS
<1>1. ScopeInv
  BY ScopeInvInit DEF CacheInit
<1>2. cache = <<>> /\ asked = <<>> /\ commits = <<>>
  BY DEF CacheInit
<1>3. /\ cache \in Seq(CacheEntry) /\ asked \in Seq(AskRecord) /\ commits \in Seq(CommitRecord)
      /\ Len(cache) = 0 /\ DOMAIN cache = {} /\ DOMAIN asked = {} /\ DOMAIN commits = {}
  BY <1>2
<1>4. Len(cache) <= CacheLimit
  BY <1>3, CacheAssumption
<1>. QED
  BY <1>1, <1>3, <1>4 DEF CacheInv

\* What is settled about the entries, the questions and the steps stands while
\* contexts grow.
LEMMA ContentStands ==
    ASSUME ScopeInv, ScopeInv', ScopesGrow,
           cache' \in Seq(CacheEntry), Len(cache') <= CacheLimit,
           asked' \in Seq(AskRecord), commits' \in Seq(CommitRecord),
           \A i \in DOMAIN cache' :
              /\ cache'[i].key = Question(cache'[i])
              /\ Settled(cache'[i].scope, cache'[i].proposition, cache'[i].verdict),
           \A i \in DOMAIN asked' :
              Settled(asked'[i].scope, asked'[i].proposition, asked'[i].answer),
           \A k \in DOMAIN commits' :
              /\ commits'[k].scope \in ScopeId
              /\ \A d \in commits'[k].decided :
                    Settled(commits'[k].scope, d.proposition, d.verdict)
              /\ RecordsReads /\ commits'[k].checker = "math" =>
                    ReadsAll(commits'[k].scope, commits'[k].reads)
    PROVE  CacheInv'
<1>1. \A s, p, v : Settled(s, p, v) => Settled(s, p, v)'
  BY SettledStands
<1>2. \A s \in ScopeId : \A reads : ReadsAll(s, reads) => ReadsAll(s, reads)'
  BY ReadsStand
<1>3. \A s \in ScopeId : s \in ScopeId'
  BY DEF ScopesGrow, ScopeInv, ScopeId
<1>4. \A i \in DOMAIN cache' :
         (/\ cache[i].key = Question(cache[i])
          /\ Settled(cache[i].scope, cache[i].proposition, cache[i].verdict))'
  BY <1>1 DEF Question
<1>5. \A i \in DOMAIN asked' :
         Settled(asked[i].scope, asked[i].proposition, asked[i].answer)'
  BY <1>1
<1>6. \A k \in DOMAIN commits' :
         (/\ commits[k].scope \in ScopeId
          /\ \A d \in commits[k].decided :
                Settled(commits[k].scope, d.proposition, d.verdict)
          /\ RecordsReads /\ commits[k].checker = "math" =>
                ReadsAll(commits[k].scope, commits[k].reads))'
  BY <1>1, <1>2, <1>3
<1>. QED
  BY <1>4, <1>5, <1>6 DEF CacheInv

LEMMA CacheInvStep == CacheInv /\ [CacheNext]_cacheVars => CacheInv'
<1>. SUFFICES ASSUME CacheInv, [CacheNext]_cacheVars PROVE CacheInv'
  OBVIOUS
<1>1. CASE Grow
  <2>1. PICK s \in ScopeId, e \in Added : (Create(s, e) \/ Extend(s, e)) /\ UNCHANGED serviceVars
    BY <1>1 DEF Grow
  <2>2. ScopeInv /\ e \in EntriesRecord
    BY CacheAssumption DEF CacheInv
  <2>3. ScopeInv' /\ ScopesGrow
    <3>1. CASE Create(s, e)
      <4>1. <<e>> \in Seq(EntriesRecord)
        BY <2>2
      <4>. QED
        BY <2>2, <3>1, <4>1, ChildrenKeepsScopeInv DEF Create
    <3>2. CASE Extend(s, e)
      BY <2>2, <3>2, ExtendKeepsScopeInv
    <3>. QED
      BY <2>1, <3>1, <3>2
  <2>4. cache' = cache /\ asked' = asked /\ commits' = commits
    BY <2>1 DEF serviceVars
  <2>. QED
    BY <2>2, <2>3, <2>4, ContentStands DEF CacheInv
<1>2. ASSUME NEW s \in ScopeId, NEW p \in Prop, Ask(s, p)
      PROVE  CacheInv'
  <2>1. Put(s, p) /\ commits' = commits
    BY <1>2 DEF Ask, Put
  <2>. QED
    BY <2>1, PutAnswersFreshly, ContentStands DEF CacheInv
<1>3. ASSUME NEW s \in ScopeId, NEW p \in Prop, NEW from \in SUBSET DOMAIN commits,
             CommitUnder(s, p, from)
      PROVE  CacheInv'
  <2>. DEFINE reads == Recorded(ReadByDecide(s, p)) \cup UNION {commits[k].reads : k \in from}
  <2>1. Put(s, p) /\ Wrote(s, "math", p, reads)
    BY <1>3 DEF CommitUnder, AskedFor, Put, Write, Wrote, Decided
  <2>2. /\ reads \in SUBSET [kind : {"definition", "assumption", "decide"}, of : Sym \cup Prop]
        /\ RecordsReads => ReadsAll(s, reads)
    BY ReadsMade
  <2>. HIDE DEF reads
  <2>3. Settled(s, p, Answer(s, p, cache))
    BY <2>1, PutAnswersFreshly
  <2>4. /\ commits' \in Seq(CommitRecord)
        /\ \A k \in DOMAIN commits' :
              /\ commits'[k].scope \in ScopeId
              /\ \A d \in commits'[k].decided :
                    Settled(commits'[k].scope, d.proposition, d.verdict)
              /\ RecordsReads /\ commits'[k].checker = "math" =>
                    ReadsAll(commits'[k].scope, commits'[k].reads)
    BY <2>1, <2>2, <2>3, WroteKeeps
  <2>. QED
    BY <2>1, <2>4, PutAnswersFreshly, ContentStands DEF CacheInv
<1>4. ASSUME NEW s \in ScopeId, NEW p \in Prop, CommitDecided(s, p)
      PROVE  CacheInv'
  <2>. PICK reads : reads = Recorded(NothingRead)
    OBVIOUS
  <2>1. Put(s, p) /\ Wrote(s, "decide", p, reads)
    BY <1>4 DEF CommitDecided, AskedFor, Put, Write, Wrote, Decided
  <2>2. reads = {}
    BY DEF Recorded, NothingRead
  <2>3. Settled(s, p, Answer(s, p, cache))
    BY <2>1, PutAnswersFreshly
  <2>4. /\ commits' \in Seq(CommitRecord)
        /\ \A k \in DOMAIN commits' :
              /\ commits'[k].scope \in ScopeId
              /\ \A d \in commits'[k].decided :
                    Settled(commits'[k].scope, d.proposition, d.verdict)
              /\ RecordsReads /\ commits'[k].checker = "math" =>
                    ReadsAll(commits'[k].scope, commits'[k].reads)
    BY <2>1, <2>2, <2>3, WroteKeeps
  <2>. QED
    BY <2>1, <2>4, PutAnswersFreshly, ContentStands DEF CacheInv
<1>5. CASE UNCHANGED cacheVars
  <2>1. cache' = cache /\ asked' = asked /\ commits' = commits /\ UNCHANGED scopeVars
    BY <1>5 DEF cacheVars, serviceVars
  <2>2. ScopeInv' /\ ScopesGrow
    BY <2>1, ScopesUnchanged DEF CacheInv
  <2>. QED
    BY <2>1, <2>2, ContentStands DEF CacheInv
<1>. QED
  BY <1>1, <1>2, <1>3, <1>4, <1>5 DEF CacheNext

-----------------------------------------------------------------------------

\* services.py, 27-53: the cache is keyed by version, and a version never
\* changes, so no answer it ever gives differs from a fresh one, whatever has
\* been forked, extended, asked and dropped meanwhile.
THEOREM AnswersFresh == CacheSpec => []AnswersAreFresh
<1>1. CacheInv => AnswersAreFresh
  BY DEF CacheInv, AnswersAreFresh, Settled
<1>. QED
  BY <1>1, CacheInvInit, CacheInvStep, PTL DEF CacheSpec

\* A set of reads that holds all of a kind gives them back.
LEMMA ReadsSuffice ==
    ASSUME CacheInv, NEW k \in DOMAIN commits, RecordsReads, commits[k].checker = "math"
    PROVE  Suffices(commits[k])
<1>. PICK step : step = commits[k]
  OBVIOUS
<1>1. /\ step.scope \in ScopeId
      /\ \A d \in step.decided : Settled(step.scope, d.proposition, d.verdict)
      /\ ReadsAll(step.scope, step.reads)
  BY DEF CacheInv
<1>. PICK s \in ScopeId : s = step.scope
  BY <1>1
<1>. DEFINE read(kind) == {r.of : r \in {r \in step.reads : r.kind = kind}}
<1>2. Assumptions(s) \subseteq read("assumption")
  <2>. SUFFICES ASSUME NEW a \in Assumptions(s) PROVE a \in read("assumption")
    OBVIOUS
  <2>1. Read("assumption", a) \in step.reads
    BY <1>1 DEF ReadsAll
  <2>2. Read("assumption", a).of = a /\ Read("assumption", a).kind = "assumption"
    BY DEF Read
  <2>. QED
    BY <2>1, <2>2
<1>3. Defined(s) \subseteq read("definition")
  <2>. SUFFICES ASSUME NEW x \in Defined(s) PROVE x \in read("definition")
    OBVIOUS
  <2>1. Read("definition", x) \in step.reads
    BY <1>1 DEF ReadsAll
  <2>2. Read("definition", x).of = x /\ Read("definition", x).kind = "definition"
    BY DEF Read
  <2>. QED
    BY <2>1, <2>2
<1>. HIDE DEF read
<1>4. read("assumption") \cap Assumptions(s) = Assumptions(s)
  BY <1>2
<1>5. read("definition") \cap Defined(s) = Defined(s)
  BY <1>3
<1>6. [x \in read("definition") \cap Defined(s) |-> DefinitionOf(s, x)] = DefinitionMap(s)
  BY <1>5 DEF DefinitionMap
<1>7. \A d \in step.decided :
         Judge(read("assumption") \cap Assumptions(s),
               [x \in read("definition") \cap Defined(s) |-> DefinitionOf(s, x)],
               d.proposition) = d.verdict
  BY <1>1, <1>4, <1>6 DEF Settled, Fresh
<1>. QED
  BY <1>7, Zenon DEF Suffices, read

\* kernel/context.py 14-66, TrackedContext: a step of a mathematical checker has recorded
\* enough of its context to decide its conditions again, cached or not.
THEOREM ConditionsRecorded == CacheSpec => []ConditionsLeaveTheirReads
<1>1. CacheInv => ConditionsLeaveTheirReads
  BY ReadsSuffice DEF ConditionsLeaveTheirReads
<1>. QED
  BY <1>1, CacheInvInit, CacheInvStep, PTL DEF CacheSpec

-----------------------------------------------------------------------------
(* What is kept. *)

\* HoldsTheLatest, of any entries and any log.
Latest(entries, log) ==
    /\ Len(entries) <= CacheLimit
    /\ \A k \in DOMAIN entries : LastUse(Question(entries[k]), log) # 0
    /\ \A k, l \in DOMAIN entries :
          k < l => LastUse(Question(entries[k]), log) < LastUse(Question(entries[l]), log)
    /\ \A i \in DOMAIN log :
          \/ \E k \in DOMAIN entries : Question(entries[k]) = Question(log[i])
          \/ /\ Len(entries) = CacheLimit
             /\ \A k \in DOMAIN entries :
                   LastUse(Question(log[i]), log) < LastUse(Question(entries[k]), log)

\* The last place a question has in the log.
LEMMA LastUseIs ==
    ASSUME NEW log \in Seq(AskRecord), NEW q
    PROVE  /\ LastUse(q, log) \in 0..Len(log)
           /\ LastUse(q, log) # 0 => Question(log[LastUse(q, log)]) = q
           /\ \A i \in 1..Len(log) : Question(log[i]) = q => i <= LastUse(q, log)
<1>. DEFINE n == Len(log)
            T == {i \in DOMAIN log : Question(log[i]) = q}
<1>1. n \in Nat /\ DOMAIN log = 1..n
  OBVIOUS
<1>2. T \subseteq 1..n
  BY <1>1
<1>3. LastUse(q, log) = Max({0} \cup T)
  BY DEF LastUse
<1>4. \E x \in {0} \cup T : \A y \in {0} \cup T : x >= y
  <2>1. CASE T = {}
    BY <2>1
  <2>2. CASE T # {}
    <3>1. PICK x \in T : \A y \in T : y <= x
      <4>. HIDE DEF T, n
      <4>. QED
        BY <1>1, <1>2, <2>2, LargestExists
    <3>. HIDE DEF T
    <3>2. \A y \in {0} \cup T : x >= y
      BY <1>1, <1>2, <3>1
    <3>. QED
      BY <3>2
  <2>. QED
    BY <2>1, <2>2
<1>5. /\ Max({0} \cup T) \in {0} \cup T
      /\ \A y \in {0} \cup T : Max({0} \cup T) >= y
  <2>. HIDE DEF T
  <2>. QED
    BY <1>4, Zenon DEF Max
<1>. QED
  BY <1>1, <1>2, <1>3, <1>5

\* A question put again is put last; the others were put when they were.
LEMMA LastUseGrows ==
    ASSUME NEW log \in Seq(AskRecord), NEW a \in AskRecord, NEW q
    PROVE  LastUse(q, Append(log, a)) =
              IF q = Question(a) THEN Len(log) + 1 ELSE LastUse(q, log)
<1>. DEFINE more == Append(log, a)
<1>1. /\ more \in Seq(AskRecord) /\ Len(more) = Len(log) + 1 /\ Len(log) \in Nat
      /\ \A i \in 1..Len(log) : more[i] = log[i]
      /\ more[Len(log) + 1] = a
  OBVIOUS
<1>. HIDE DEF more
<1>2. /\ LastUse(q, more) \in 0..Len(more)
      /\ LastUse(q, more) # 0 => Question(more[LastUse(q, more)]) = q
      /\ \A i \in 1..Len(more) : Question(more[i]) = q => i <= LastUse(q, more)
  BY <1>1, LastUseIs
<1>3. /\ LastUse(q, log) \in 0..Len(log)
      /\ LastUse(q, log) # 0 => Question(log[LastUse(q, log)]) = q
      /\ \A i \in 1..Len(log) : Question(log[i]) = q => i <= LastUse(q, log)
  BY LastUseIs
<1>4. CASE q = Question(a)
  <2>1. Len(log) + 1 <= LastUse(q, more)
    BY <1>1, <1>2, <1>4
  <2>. QED
    BY <1>1, <1>2, <1>4, <2>1 DEF more
<1>5. CASE q # Question(a)
  <2>1. LastUse(q, more) # Len(log) + 1
    BY <1>1, <1>2, <1>5
  <2>2. LastUse(q, more) \in 0..Len(log)
    BY <1>1, <1>2, <2>1
  <2>3. LastUse(q, more) # 0 => LastUse(q, more) <= LastUse(q, log)
    <3>. SUFFICES ASSUME LastUse(q, more) # 0 PROVE LastUse(q, more) <= LastUse(q, log)
      OBVIOUS
    <3>1. LastUse(q, more) \in 1..Len(log)
      BY <1>1, <2>2
    <3>2. Question(log[LastUse(q, more)]) = q
      BY <1>1, <1>2, <3>1
    <3>. QED
      BY <1>3, <3>1, <3>2
  <2>4. LastUse(q, log) # 0 => LastUse(q, log) <= LastUse(q, more)
    <3>. SUFFICES ASSUME LastUse(q, log) # 0 PROVE LastUse(q, log) <= LastUse(q, more)
      OBVIOUS
    <3>1. LastUse(q, log) \in 1..Len(log) /\ LastUse(q, log) \in 1..Len(more)
      BY <1>1, <1>3
    <3>2. Question(more[LastUse(q, log)]) = q
      BY <1>1, <1>3, <3>1
    <3>. QED
      BY <1>2, <3>1, <3>2
  <2>5. LastUse(q, more) = LastUse(q, log)
    BY <1>1, <1>3, <2>2, <2>3, <2>4
  <2>. QED
    BY <1>5, <2>5 DEF more
<1>. QED
  BY <1>4, <1>5

\* A question goes to the end; what else is kept keeps its order and was there
\* before, under other questions. At most one entry goes, the first, when the
\* cache was full.
Moved(q, before, after, from) ==
    /\ Len(after) \in Nat /\ Len(after) >= 1
    /\ Question(after[Len(after)]) = q
    /\ from \in [1..(Len(after) - 1) -> 1..Len(before)]
    /\ \A k \in 1..(Len(after) - 1) :
          after[k] = before[from[k]] /\ Question(before[from[k]]) # q
    /\ \A k, l \in 1..(Len(after) - 1) : k < l => from[k] < from[l]
    /\ Len(before) = CacheLimit => Len(after) = CacheLimit
    /\ \A j \in 1..Len(before) :
          \/ \E k \in 1..Len(after) : Question(after[k]) = Question(before[j])
          \/ /\ j = 1 /\ Len(after) = CacheLimit
             /\ \A k \in 1..(Len(after) - 1) : from[k] > 1

\* An entry that is found moves to the end.
LEMMA FoundMoves ==
    ASSUME NEW before \in Seq(CacheEntry), NEW after \in Seq(CacheEntry),
           NEW s, NEW p, Found(s, p, before, after),
           \A i \in 1..Len(before) : before[i].key = Question(before[i]),
           \A i, j \in 1..Len(before) : i # j => Question(before[i]) # Question(before[j])
    PROVE  \E from : Moved(<<s, p>>, before, after, from)
<1>1. PICK i \in 1..Len(before) :
        /\ before[i].key = Key(s, p)
        /\ Len(after) = Len(before)
        /\ \A k \in 1..Len(after) :
              after[k] = IF k = Len(after) THEN before[i]
                         ELSE IF k < i THEN before[k] ELSE before[k + 1]
  BY DEF Found
<1>. DEFINE n == Len(before)
            from == [k \in 1..(n - 1) |-> IF k < i THEN k ELSE k + 1]
<1>2. n \in Nat /\ Len(after) = n /\ i \in Nat /\ 1 <= i /\ i <= n
  BY <1>1
<1>3. Question(before[i]) = <<s, p>>
  BY <1>1 DEF Key
<1>4. from \in [1..(n - 1) -> 1..n] /\ \A k \in 1..(n - 1) : from[k] # i
  BY <1>2
<1>5. \A k, l \in 1..(n - 1) : k < l => from[k] < from[l]
  BY <1>2
<1>6. ASSUME NEW k \in 1..(n - 1)
      PROVE  after[k] = before[from[k]] /\ Question(before[from[k]]) # <<s, p>>
  <2>1. k \in 1..n /\ k # n
    BY <1>2
  <2>2. after[k] = IF k < i THEN before[k] ELSE before[k + 1]
    BY <1>1, <1>2, <2>1
  <2>3. from[k] = IF k < i THEN k ELSE k + 1
    OBVIOUS
  <2>4. from[k] \in 1..n /\ from[k] # i
    BY <1>4
  <2>. HIDE DEF from
  <2>. QED
    BY <1>2, <1>3, <2>2, <2>3, <2>4
<1>7. ASSUME NEW j \in 1..n
      PROVE  \E k \in 1..n : Question(after[k]) = Question(before[j])
  <2>1. CASE j = i
    <3>1. after[n] = before[i] /\ n \in 1..n
      BY <1>1, <1>2
    <3>. QED
      BY <2>1, <3>1
  <2>2. CASE j < i
    <3>1. after[j] = before[j]
      BY <1>1, <1>2, <2>2
    <3>. QED
      BY <3>1
  <2>3. CASE j > i
    <3>1. j - 1 \in 1..n /\ j - 1 # n /\ ~(j - 1 < i) /\ (j - 1) + 1 = j
      BY <1>2, <2>3
    <3>2. after[j - 1] = before[j]
      BY <1>1, <1>2, <3>1
    <3>. QED
      BY <3>1, <3>2
  <2>. QED
    BY <1>2, <2>1, <2>2, <2>3
<1>8. Question(after[n]) = <<s, p>>
  BY <1>1, <1>2, <1>3
<1>. HIDE DEF from
<1>9. Moved(<<s, p>>, before, after, from)
  BY <1>2, <1>4, <1>5, <1>6, <1>7, <1>8 DEF Moved
<1>. QED
  BY <1>9

\* An entry that is made comes last.
LEMMA MissedMoves ==
    ASSUME NEW before \in Seq(CacheEntry), NEW after \in Seq(CacheEntry),
           NEW s, NEW p, Missed(s, p, before, after), Len(before) <= CacheLimit, Len(after) <= CacheLimit,
           \A i \in 1..Len(before) : before[i].key = Question(before[i])
    PROVE  \E from : Moved(<<s, p>>, before, after, from)
<1>1. PICK cut \in 0..1 :
          /\ cut = 1 => Len(before) = CacheLimit
          /\ Len(after) = Len(before) + 1 - cut
          /\ \A k \in 1..Len(after) :
                after[k] = IF k = Len(after) THEN Made(s, p) ELSE before[k + cut]
  BY DEF Missed
<1>. DEFINE n == Len(before)
            m == Len(after)
            from == [k \in 1..(m - 1) |-> k + cut]
<1>2. /\ n \in Nat /\ m \in Nat /\ CacheLimit \in Nat /\ CacheLimit >= 1
      /\ cut = 0 \/ cut = 1
      /\ m = n + 1 - cut
      /\ n <= CacheLimit /\ m <= CacheLimit
      /\ cut = 1 => n = CacheLimit
  BY <1>1, CacheAssumption
<1>3. m >= 1 /\ (n = CacheLimit => m = CacheLimit /\ cut = 1) /\ (cut = 1 => m = CacheLimit)
  BY <1>2
<1>4. from \in [1..(m - 1) -> 1..n]
  BY <1>2
<1>5. \A k, l \in 1..(m - 1) : k < l => from[k] < from[l]
  BY <1>2
<1>6. \A i \in 1..n : Question(before[i]) # <<s, p>>
  BY DEF Missed, Key
<1>7. ASSUME NEW k \in 1..(m - 1)
      PROVE  after[k] = before[from[k]] /\ Question(before[from[k]]) # <<s, p>>
  <2>1. k \in 1..m /\ k # m /\ from[k] = k + cut
    BY <1>2
  <2>2. after[k] = before[k + cut]
    BY <1>1, <2>1
  <2>3. from[k] \in 1..n
    BY <1>4
  <2>. HIDE DEF from
  <2>. QED
    BY <1>6, <2>1, <2>2, <2>3
<1>8. Question(after[m]) = <<s, p>>
  <2>1. after[m] = Made(s, p)
    BY <1>1, <1>2, <1>3
  <2>. QED
    BY <2>1 DEF Made, Question
<1>9. ASSUME NEW j \in 1..n
      PROVE  \/ \E k \in 1..m : Question(after[k]) = Question(before[j])
             \/ /\ j = 1 /\ m = CacheLimit
                /\ \A k \in 1..(m - 1) : from[k] > 1
  <2>1. CASE j - cut >= 1
    <3>1. j - cut \in 1..m /\ j - cut # m /\ (j - cut) + cut = j
      BY <1>2, <2>1
    <3>2. after[j - cut] = before[j]
      BY <1>1, <3>1
    <3>. QED
      BY <3>1, <3>2
  <2>2. CASE ~(j - cut >= 1)
    <3>1. j = 1 /\ cut = 1
      BY <1>2, <2>2
    <3>. QED
      BY <1>2, <1>3, <3>1
  <2>. QED
    BY <2>1, <2>2
<1>. HIDE DEF from
<1>10. Moved(<<s, p>>, before, after, from)
  BY <1>2, <1>3, <1>4, <1>5, <1>7, <1>8, <1>9 DEF Moved
<1>. QED
  BY <1>10

\* So the cache still holds the latest.
LEMMA MovedLatest ==
    ASSUME NEW before \in Seq(CacheEntry), NEW after \in Seq(CacheEntry),
           NEW log \in Seq(AskRecord), NEW a \in AskRecord, NEW from,
           Latest(before, log), Moved(Question(a), before, after, from),
           Len(after) <= CacheLimit
    PROVE  Latest(after, Append(log, a))
<1>. DEFINE L(q) == LastUse(q, log)
            N(q) == LastUse(q, Append(log, a))
            q0 == Question(a)
            m == Len(after)
<1>1. /\ m \in Nat /\ m >= 1 /\ DOMAIN after = 1..m
      /\ DOMAIN before = 1..Len(before) /\ Len(before) \in Nat /\ Len(log) \in Nat
  BY DEF Moved
<1>2. \A q : L(q) \in 0..Len(log) /\ N(q) = IF q = q0 THEN Len(log) + 1 ELSE L(q)
  BY LastUseIs, LastUseGrows
<1>3. /\ \A k \in 1..Len(before) : L(Question(before[k])) # 0
      /\ \A k, l \in 1..Len(before) : k < l => L(Question(before[k])) < L(Question(before[l]))
      /\ \A i \in DOMAIN log :
            \/ \E k \in 1..Len(before) : Question(before[k]) = Question(log[i])
            \/ /\ Len(before) = CacheLimit
               /\ \A k \in 1..Len(before) : L(Question(log[i])) < L(Question(before[k]))
  BY <1>1 DEF Latest
<1>4. /\ Question(after[m]) = q0
      /\ \A k \in 1..(m - 1) :
            /\ from[k] \in 1..Len(before)
            /\ after[k] = before[from[k]] /\ Question(before[from[k]]) # q0
      /\ \A k, l \in 1..(m - 1) : k < l => from[k] < from[l]
      /\ Len(before) = CacheLimit => m = CacheLimit
      /\ \A j \in 1..Len(before) :
            \/ \E k \in 1..m : Question(after[k]) = Question(before[j])
            \/ /\ j = 1 /\ m = CacheLimit
               /\ \A k \in 1..(m - 1) : from[k] > 1
  BY DEF Moved
<1>. HIDE DEF L, N, q0, m
<1>5. N(Question(after[m])) = Len(log) + 1
  BY <1>2, <1>4
<1>6. \A k \in 1..(m - 1) : N(Question(after[k])) = L(Question(before[from[k]]))
  BY <1>2, <1>4
<1>7. \A k \in 1..m : k = m \/ k \in 1..(m - 1)
  BY <1>1
<1>8. \A k \in 1..m : N(Question(after[k])) # 0
  <2>1. N(Question(after[m])) # 0
    BY <1>1, <1>5
  <2>2. \A k \in 1..(m - 1) : L(Question(before[from[k]])) # 0
    BY <1>3, <1>4
  <2>. QED
    BY <1>6, <1>7, <2>1, <2>2
<1>9. ASSUME NEW k \in 1..m, NEW l \in 1..m, k < l
      PROVE  N(Question(after[k])) < N(Question(after[l]))
  <2>1. k \in 1..(m - 1)
    BY <1>1, <1>9
  <2>2. CASE l = m
    <3>1. N(Question(after[k])) \in 0..Len(log)
      BY <1>2, <1>6, <2>1
    <3>. QED
      BY <1>1, <1>5, <2>2, <3>1
  <2>3. CASE l \in 1..(m - 1)
    <3>1. from[k] < from[l] /\ from[k] \in 1..Len(before) /\ from[l] \in 1..Len(before)
      BY <1>4, <1>9, <2>1, <2>3
    <3>. QED
      BY <1>3, <1>6, <2>1, <2>3, <3>1
  <2>. QED
    BY <1>7, <2>2, <2>3
<1>10. ASSUME NEW q, \A k \in 1..m : Question(after[k]) # q,
              \/ \E j \in 1..Len(before) : Question(before[j]) = q
              \/ /\ Len(before) = CacheLimit
                 /\ \A k \in 1..Len(before) : L(q) < L(Question(before[k]))
       PROVE  m = CacheLimit /\ \A k \in 1..m : N(q) < N(Question(after[k]))
  <2>1. N(q) = L(q) /\ L(q) \in 0..Len(log)
    <3>1. m \in 1..m
      BY <1>1
    <3>2. q # q0
      BY <1>4, <1>10, <3>1
    <3>. QED
      BY <1>2, <3>2
  <2>2. m = CacheLimit /\ \A k \in 1..(m - 1) : L(q) < L(Question(before[from[k]]))
    <3>1. CASE \E j \in 1..Len(before) : Question(before[j]) = q
      <4>1. PICK j \in 1..Len(before) : Question(before[j]) = q
        BY <3>1
      <4>2. /\ j = 1 /\ m = CacheLimit
            /\ \A k \in 1..(m - 1) : from[k] > 1
        BY <1>4, <1>10, <4>1
      <4>. QED
        BY <1>3, <1>4, <4>1, <4>2
    <3>2. CASE /\ Len(before) = CacheLimit
               /\ \A k \in 1..Len(before) : L(q) < L(Question(before[k]))
      BY <1>4, <3>2
    <3>. QED
      BY <1>10, <3>1, <3>2
  <2>3. L(q) < N(Question(after[m]))
    BY <1>1, <1>5, <2>1
  <2>. QED
    BY <1>6, <1>7, <2>1, <2>2, <2>3
<1>11. ASSUME NEW i \in DOMAIN Append(log, a)
       PROVE  \/ \E k \in 1..m : Question(after[k]) = Question(Append(log, a)[i])
              \/ /\ m = CacheLimit
                 /\ \A k \in 1..m : N(Question(Append(log, a)[i])) < N(Question(after[k]))
  <2>1. \/ i \in DOMAIN log /\ Append(log, a)[i] = log[i]
        \/ Append(log, a)[i] = a
    OBVIOUS
  <2>2. CASE Append(log, a)[i] = a
    <3>1. m \in 1..m
      BY <1>1
    <3>. QED
      BY <1>4, <2>2, <3>1 DEF q0
  <2>3. CASE i \in DOMAIN log /\ Append(log, a)[i] = log[i]
    <3>. PICK q : q = Question(log[i])
      OBVIOUS
    <3>1. \/ \E j \in 1..Len(before) : Question(before[j]) = q
          \/ /\ Len(before) = CacheLimit
             /\ \A k \in 1..Len(before) : L(q) < L(Question(before[k]))
      BY <1>3, <2>3
    <3>. QED
      BY <1>10, <2>3, <3>1
  <2>. QED
    BY <2>1, <2>2, <2>3
<1>. QED
  BY <1>1, <1>8, <1>9, <1>11, Zenon DEF Latest, N, m

LEMMA LatestInit == CacheInit => HoldsTheLatest
<1>. SUFFICES ASSUME CacheInit PROVE HoldsTheLatest
  OBVIOUS
<1>1. cache = <<>> /\ asked = <<>>
  BY DEF CacheInit
<1>2. Len(cache) = 0 /\ DOMAIN cache = {} /\ DOMAIN asked = {}
  BY <1>1
<1>. QED
  BY <1>2, CacheAssumption DEF HoldsTheLatest

LEMMA LatestPut ==
    ASSUME CacheInv, HoldsTheLatest, NEW s \in ScopeId, NEW p \in Prop, Put(s, p)
    PROVE  HoldsTheLatest'
<1>. DEFINE a == [scope |-> s, proposition |-> p, answer |-> Answer(s, p, cache)]
<1>1. Latest(cache, asked)
  BY Zenon DEF Latest, HoldsTheLatest
<1>2. /\ cache \in Seq(CacheEntry) /\ Len(cache) <= CacheLimit /\ asked \in Seq(AskRecord)
      /\ s \in Nat /\ Fresh(s, p) \in Verdict
      /\ cache' \in Seq(CacheEntry) /\ Len(cache') <= CacheLimit
      /\ Settled(s, p, Answer(s, p, cache))
  BY FreshType, PutAnswersFreshly DEF CacheInv, ScopeInv, ScopeId
<1>3. a \in AskRecord /\ Question(a) = <<s, p>>
  BY <1>2 DEF AskRecord, Question, Settled
<1>4. asked' = Append(asked, a)
  BY DEF Put
<1>. HIDE DEF a
<1>5. Found(s, p, cache, cache') \/ Missed(s, p, cache, cache')
  BY <1>2, Remembered DEF Put
<1>6. \A i \in 1..Len(cache) : cache[i].key = Question(cache[i])
  BY <1>2 DEF CacheInv
<1>7. \A i, j \in 1..Len(cache) : i # j => Question(cache[i]) # Question(cache[j])
  <2>. SUFFICES ASSUME NEW i \in 1..Len(cache), NEW j \in 1..Len(cache), i < j
                PROVE  Question(cache[i]) # Question(cache[j])
    BY <1>2
  <2>1. LastUse(Question(cache[i]), asked) < LastUse(Question(cache[j]), asked)
    BY <1>1, <1>2 DEF Latest
  <2>2. LastUse(Question(cache[i]), asked) \in Nat /\ LastUse(Question(cache[j]), asked) \in Nat
    BY <1>2, LastUseIs
  <2>. QED
    BY <2>1, <2>2
<1>8. PICK from : Moved(<<s, p>>, cache, cache', from)
  BY <1>2, <1>5, <1>6, <1>7, FoundMoves, MissedMoves
<1>9. Latest(cache', Append(asked, a))
  BY <1>1, <1>2, <1>3, <1>8, MovedLatest
<1>. QED
  BY <1>4, <1>9, Zenon DEF Latest, HoldsTheLatest

LEMMA LatestStep == CacheInv /\ HoldsTheLatest /\ [CacheNext]_cacheVars => HoldsTheLatest'
<1>. SUFFICES ASSUME CacheInv, HoldsTheLatest, [CacheNext]_cacheVars PROVE HoldsTheLatest'
  OBVIOUS
<1>1. CASE cache' = cache /\ asked' = asked
  BY <1>1, Zenon DEF HoldsTheLatest
<1>2. CASE \E s \in ScopeId, p \in Prop : Put(s, p)
  BY <1>2, LatestPut
<1>3. ASSUME NEW s \in ScopeId, NEW p \in Prop,
             \/ Ask(s, p)
             \/ \E from \in SUBSET DOMAIN commits : CommitUnder(s, p, from)
             \/ CommitDecided(s, p)
      PROVE  Put(s, p)
  BY <1>3 DEF Ask, CommitUnder, CommitDecided, AskedFor, Put
<1>4. Grow \/ UNCHANGED cacheVars => cache' = cache /\ asked' = asked
  BY DEF Grow, serviceVars, cacheVars
<1>. QED
  BY <1>1, <1>2, <1>3, <1>4, Zenon DEF CacheNext

\* services.py, 29-53, _CACHE_LIMIT and move_to_end: however questions follow
\* each other, the cache holds the ones put last, each once, and drops none
\* before it is full.
THEOREM CacheHoldsTheLatest == CacheSpec => []HoldsTheLatest
BY CacheInvInit, CacheInvStep, LatestInit, LatestStep, PTL DEF CacheSpec
===============================================================================
