---------------------------- MODULE DecisionCache ----------------------------
(***************************************************************************)
(* How the kernel gets its decisions: cas/runtime/services.py, which       *)
(* answers from a bounded cache in front of the decision procedure, and    *)
(* cas/kernel/context.py, which records what a step has read of its        *)
(* context on the way.                                                     *)
(*                                                                         *)
(* cache    the entries, the one used longest ago first                    *)
(* asked    every question put so far, in order                            *)
(* commits  the steps written: where, by which checker, what was decided   *)
(*          for them, and Step.reads                                       *)
(*                                                                         *)
(* Meanwhile contexts are forked and extended (ScopeStore).  How often a   *)
(* thing was read, which AUDIT mode keeps, is left out.                    *)
(***************************************************************************)
EXTENDS ScopeStore

CONSTANTS
    Judge(_, _, _), \* the verdict on a proposition, given what is assumed and
                    \* the definitions that are expanded everywhere
    CacheLimit,     \* _CACHE_LIMIT
    RecordsReads,   \* mode.records_reads()
    Added,          \* the entries a version may add
    MaxAsked,       \* bound: questions put
    MaxCommits      \* bound: steps written

ASSUME CacheAssumption ==
    /\ CacheLimit \in Nat \ {0}
    /\ RecordsReads \in BOOLEAN
    /\ Added \subseteq EntriesRecord
    /\ MaxAsked \in Nat
    /\ MaxCommits \in Nat

\* Three-valued, whatever is assumed and defined.
ASSUME JudgeAssumption ==
    \A assumed \in SUBSET Prop, p \in Prop :
        \A definitions \in UNION {[D -> SUBSET Sym] : D \in SUBSET Sym} :
            Judge(assumed, definitions, p) \in {"yes", "no", "unknown"}

VARIABLES cache, asked, commits

serviceVars == <<cache, asked, commits>>
cacheVars == <<scopeVars, serviceVars>>

\* definition_map
DefinitionMap(s) == [x \in Defined(s) |-> DefinitionOf(s, x)]

\* The decision procedure, asked afresh.
Fresh(s, p) == Judge(Assumptions(s), DefinitionMap(s), p)

\* Mutant: entries are kept for a lineage, whichever of its versions asks.
Key_OfLineage(s, p) == <<scopes[s].lineage, p>>

\* A version and a proposition.
Key(s, p) == <<s, p>>

\* Where the entry for a question is; 0 if there is none.
PlaceOf(key, entries) == SelectInSeq(entries, LAMBDA e : e.key = key)

\* Mutant: an entry stays in its place when it is used.
Used_InPlace(entries, i) == entries

\* move_to_end
Used(entries, i) == Append(RemoveAt(entries, i), entries[i])

\* popitem(last=False) until no more than the limit is left.
Kept(entries) ==
    IF Len(entries) > CacheLimit
    THEN SubSeq(entries, Len(entries) - CacheLimit + 1, Len(entries))
    ELSE entries

\* ScopeServices.decide: its answer, and the cache it leaves.
Answer(s, p, entries) ==
    LET i == PlaceOf(Key(s, p), entries)
    IN  IF i # 0 THEN entries[i].verdict ELSE Fresh(s, p)

Remember(s, p, entries) ==
    LET i == PlaceOf(Key(s, p), entries)
    IN  IF i # 0 THEN Used(entries, i)
        ELSE Kept(Append(entries, [key |-> Key(s, p), scope |-> s, proposition |-> p,
                                   verdict |-> Fresh(s, p)]))

\* A question put outside any step, as algorithms and displays do.
Ask(s, p) ==
    /\ Len(asked) < MaxAsked
    /\ cache' = Remember(s, p, cache)
    /\ asked' = Append(asked, [scope |-> s, proposition |-> p, answer |-> Answer(s, p, cache)])
    /\ UNCHANGED <<scopeVars, commits>>

-----------------------------------------------------------------------------
(* The tracked context of one commit.                                       *)

Read(kind, of) == [kind |-> kind, of |-> of]

NothingRead == {}

\* Mutant: the definitions that were expanded are not recorded.
ReadByDecide_NoDefinitions(s, p) ==
    {Read("assumption", a) : a \in Assumptions(s)} \cup {Read("decide", p)}

\* TrackedContext.decide records all definitions and all assumptions in sight
\* before it asks.
ReadByDecide(s, p) ==
    {Read("definition", x) : x \in Defined(s)}
    \cup {Read("assumption", a) : a \in Assumptions(s)}
    \cup {Read("decide", p)}

\* _record
Recorded(reads) == IF RecordsReads THEN reads ELSE NothingRead

\* A step as commit writes it; its checker and its conditions have been judged
\* as decided says.
Write(s, checker, decided, reads) ==
    commits' = Append(commits, [scope |-> s, checker |-> checker, decided |-> decided,
                                reads |-> reads])

Decided(s, p) == [proposition |-> p, verdict |-> Answer(s, p, cache)]

AskedFor(s, p) ==
    /\ Len(asked) < MaxAsked
    /\ Len(commits) < MaxCommits
    /\ cache' = Remember(s, p, cache)
    /\ asked' = Append(asked, [scope |-> s, proposition |-> p, answer |-> Answer(s, p, cache)])

\* commit, for a conclusion whose one condition p is decided by the tracked
\* context and not refuted; from is the steps of the branch answers that a
\* merge inherits its reads from.
CommitUnder(s, p, from) ==
    /\ AskedFor(s, p)
    /\ Answer(s, p, cache) # "no"
    /\ Write(s, "math", {Decided(s, p)},
             Recorded(ReadByDecide(s, p)) \cup UNION {commits[k].reads : k \in from})
    /\ UNCHANGED scopeVars

\* commit, for a conclusion the kernel's own DecideChecker accepts: it asks the
\* services, not the context it is handed.
CommitDecided(s, p) ==
    /\ AskedFor(s, p)
    /\ Answer(s, p, cache) = "yes"
    /\ Write(s, "decide", {Decided(s, p)}, Recorded(NothingRead))
    /\ UNCHANGED scopeVars

\* Contexts are forked and extended while answers are kept.
Grow ==
    \E s \in ScopeId, e \in Added :
        /\ Create(s, e) \/ Extend(s, e)
        /\ UNCHANGED serviceVars

CacheInit ==
    /\ ScopeInit
    /\ cache = <<>>
    /\ asked = <<>>
    /\ commits = <<>>

CacheNext ==
    \/ Grow
    \/ \E s \in ScopeId, p \in Prop :
          \/ Ask(s, p)
          \/ \E from \in SUBSET DOMAIN commits : CommitUnder(s, p, from)
          \/ CommitDecided(s, p)

CacheSpec == CacheInit /\ [][CacheNext]_cacheVars
-----------------------------------------------------------------------------

\* Whatever has been forked, extended, evicted or asked in between, an answer
\* from the cache is the one the decision procedure would give now for the
\* same version, and it was so for every answer ever given.
AnswersAreFresh ==
    /\ \A i \in DOMAIN cache : cache[i].verdict = Fresh(cache[i].scope, cache[i].proposition)
    /\ \A i \in DOMAIN asked : asked[i].answer = Fresh(asked[i].scope, asked[i].proposition)

Question(a) == <<a.scope, a.proposition>>

\* When a question was put last, by the log; 0 if it never was.
LastUse(q, log) == Max({0} \cup {i \in DOMAIN log : Question(log[i]) = q})

\* The cache holds the questions put last, each once, the one put longest ago
\* first, and it is full before any is dropped: what is asked again and again
\* is never driven out by other questions.
HoldsTheLatest ==
    /\ Len(cache) <= CacheLimit
    /\ \A k \in DOMAIN cache : LastUse(Question(cache[k]), asked) # 0
    /\ \A k, l \in DOMAIN cache :
          k < l => LastUse(Question(cache[k]), asked) < LastUse(Question(cache[l]), asked)
    /\ \A i \in DOMAIN asked :
          \/ \E k \in DOMAIN cache : Question(cache[k]) = Question(asked[i])
          \/ /\ Len(cache) = CacheLimit
             /\ \A k \in DOMAIN cache :
                   LastUse(Question(asked[i]), asked) < LastUse(Question(cache[k]), asked)

\* What a step has recorded of its context (a merge also records what its
\* branches read of theirs) is enough to decide again what was decided for it.
Suffices(step) ==
    LET read(kind) == {r.of : r \in {r \in step.reads : r.kind = kind}}
        known == [x \in read("definition") \cap Defined(step.scope) |->
                    DefinitionOf(step.scope, x)]
    IN  \A d \in step.decided :
            Judge(read("assumption") \cap Assumptions(step.scope), known, d.proposition)
                = d.verdict

\* A step of a mathematical checker has recorded all that its conditions were
\* decided by, whether the decision was computed for it or had been cached.
ConditionsLeaveTheirReads ==
    \A k \in DOMAIN commits :
        RecordsReads /\ commits[k].checker = "math" => Suffices(commits[k])

-----------------------------------------------------------------------------

\* model.py, 111: every implicit use leaves a read dependency, otherwise a step
\* depends on an assumption it does not record.
EveryUseIsRecorded ==
    \A k \in DOMAIN commits : RecordsReads => Suffices(commits[k])
===============================================================================
