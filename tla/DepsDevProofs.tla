--------------------------- MODULE DepsDevProofs ---------------------------
(***************************************************************************)
(* What a scan makes of the answers of deps.dev, for any packages,         *)
(* manifests, number of scans, threads, failures and kills.                *)
(*                                                                         *)
(* The properties are about the moments at which answers are used.  Life   *)
(* says what a scan has done by then: from the collector on, every job is  *)
(* done and its package is in the cache, and nothing changes there.        *)
(***************************************************************************)
EXTENDS DepsDev, FiniteSetTheorems, TLAPS

After == {"enrich", "solve", "exit", "save"}   \* prefetching is over

Life(s) ==
  /\ pc[s] = "off" => manifest[s] = <<>>
  /\ pc[s] \notin {"exit", "save"} => outcome[s] = "none"
  /\ \A j \in Jobs(s) :
       /\ pc[s] = "import" => job[s][j] = "idle"
       /\ pc[s] \in After => job[s][j] = "done"
       /\ pc[s] \notin After => status[s][j] = "unread"
       /\ job[s][j] = "done" => cache[s][NameOf(s, j)] # Unknown
       /\ status[s][j] # "unread" => status[s][j] = StatusOf(cache[s][NameOf(s, j)])

Inv == TypeOK /\ \A s \in Scans : Life(s)

\* What a step of another scan leaves alone.
Same(r) ==
  /\ pc'[r] = pc[r] /\ manifest'[r] = manifest[r] /\ cache'[r] = cache[r]
  /\ dirty'[r] = dirty[r] /\ job'[r] = job[r] /\ status'[r] = status[r]
  /\ outcome'[r] = outcome[r]

-----------------------------------------------------------------------------
\* A manifest names packages and what it asks of them.
LEMMA JobNames ==
  ASSUME TypeOK, NEW s \in Scans, NEW j \in Jobs(s)
  PROVE  NameOf(s, j) \in Packages /\ manifest[s][j].spec \in Specifiers
<1>1. manifest[s] \in Manifests \cup {<<>>}
  BY DEF TypeOK
<1>2. manifest[s] # <<>>
  BY DEF Jobs
<1> DEFINE D == [name : Packages, spec : Specifiers]
<1>3. Manifests \subseteq Seq(D)
  BY DepsDevAssumption
<1>4. \A d \in D : d.name \in Packages /\ d.spec \in Specifiers
  OBVIOUS
<1>5. manifest[s][j] \in D
  <2> HIDE DEF D
  <2>1. manifest[s] \in Seq(D)
    BY <1>1, <1>2, <1>3
  <2> QED BY <2>1 DEF Jobs
<1> QED BY <1>4, <1>5 DEF NameOf

\* A step of a scan leaves the others alone.
LEMMA Others ==
  ASSUME TypeOK, NEW s \in Scans,
         \/ \E declared \in Manifests : Start(s, declared)
         \/ Step(s) \/ Dies(s)
         \/ \E j \in Jobs(s) : LookupFails(s, j)
  PROVE  \A r \in Scans \ {s} : Same(r)
<1> USE DEF TypeOK, Same
<1>1. CASE \E declared \in Manifests : Start(s, declared) BY <1>1 DEF Start
<1>2. CASE LoadFileCache(s) BY <1>2 DEF LoadFileCache
<1>3. CASE End(s) /\ UNCHANGED <<failed, starts>> BY <1>3 DEF End
<1>4. CASE \E j \in Jobs(s) : BeginJob(s, j) BY <1>4 DEF BeginJob
<1>5. CASE \E j \in Jobs(s) : \E result : Answer(s, j, result) BY <1>5 DEF Answer
<1>6. CASE \E j \in Jobs(s) : Enrich(s, j) BY <1>6 DEF Enrich
<1>7. CASE Prefetched(s) BY <1>7 DEF Prefetched
<1>8. CASE EvaluateUpgradePath(s) BY <1>8 DEF EvaluateUpgradePath
<1>9. CASE OpenFileCache(s) BY <1>9 DEF OpenFileCache
<1> QED
  BY <1>1, <1>2, <1>3, <1>4, <1>5, <1>6, <1>7, <1>8, <1>9
  DEF Step, ImportFails, NothingToSave, SaveFileCache, Dies, Answered, LookupFails

-----------------------------------------------------------------------------
LEMMA TypeInit == Init => TypeOK
<1> SUFFICES ASSUME Init PROVE TypeOK
  OBVIOUS
<1>1. NothingKnown \in Answers
  BY DEF NothingKnown, Answers
<1>2. \A s \in Scans : /\ job[s] \in [Jobs(s) -> {"idle", "queued", "looking", "done"}]
                       /\ status[s] \in [Jobs(s) -> {"unread", "ok", "not_found", "failed"}]
  BY DEF Init, Jobs
<1>3. /\ pc \in [Scans -> {"off", "import", "prefetch", "enrich", "solve", "exit", "save"}]
      /\ manifest \in [Scans -> Manifests \cup {<<>>}]
      /\ cache \in [Scans -> Answers] /\ dirty \in [Scans -> BOOLEAN]
      /\ outcome \in [Scans -> Outcomes]
      /\ DOMAIN job = Scans /\ DOMAIN status = Scans
  BY <1>1 DEF Init, Outcomes
<1> QED BY <1>2, <1>3 DEF Init, TypeOK, NoContent

\* What End leaves has its type.
LEMMA EndType ==
  ASSUME TypeOK, NEW s \in Scans, End(s),
         file' \in NoContent \cup Answers, clash' \in BOOLEAN,
         failed' \subseteq Packages, starts' \in Nat, faults' \in Nat
  PROVE  TypeOK'
<1>1. NothingKnown \in Answers
  BY DEF NothingKnown, Answers
<1>2. \A r \in Scans \ {s} : Jobs(r)' = Jobs(r)
  BY DEF End, Jobs, TypeOK
<1>3. Jobs(s)' = DOMAIN <<>> /\ job'[s] = <<>> /\ status'[s] = <<>>
  BY DEF End, Jobs, TypeOK
<1>4. \A r \in Scans :
        /\ job'[r] \in [Jobs(r)' -> {"idle", "queued", "looking", "done"}]
        /\ status'[r] \in [Jobs(r)' -> {"unread", "ok", "not_found", "failed"}]
  BY <1>2, <1>3 DEF End, TypeOK
<1> QED BY <1>1, <1>4 DEF End, TypeOK, Outcomes

LEMMA TypeStep == ASSUME TypeOK, [Next]_vars PROVE TypeOK'
<1> USE DEF TypeOK, Jobs
<1>1. ASSUME NEW s \in Scans, NEW declared \in Manifests, Start(s, declared) PROVE TypeOK'
  BY <1>1 DEF Start
<1>2. ASSUME NEW s \in Scans, LoadFileCache(s) PROVE TypeOK'
  <2>1. Loaded \in Answers
    BY <1>2 DEF LoadFileCache, Loaded, NothingKnown, Answers, NoContent
  <2>2. Uncached(s) \in [Jobs(s) -> {"idle", "queued", "looking", "done"}]
    BY DEF Uncached
  <2> QED BY <1>2, <2>1, <2>2 DEF LoadFileCache
<1>3. ASSUME NEW s \in Scans, ImportFails(s) PROVE TypeOK'
  BY <1>3, EndType DEF ImportFails
<1>4. ASSUME NEW s \in Scans, NEW j \in Jobs(s), BeginJob(s, j) PROVE TypeOK'
  BY <1>4 DEF BeginJob
<1>5. ASSUME NEW s \in Scans, NEW j \in Jobs(s), Answered(s, j) PROVE TypeOK'
  <2>1. NameOf(s, j) \in Packages BY JobNames
  <2>2. Published[NameOf(s, j)] \in {None, Unknown} \cup SUBSET Versions
    BY <2>1, DepsDevAssumption
  <2>3. [cache EXCEPT ![s][NameOf(s, j)] = Published[NameOf(s, j)]] \in [Scans -> Answers]
    BY <2>1, <2>2 DEF Answers
  <2> QED BY <1>5, <2>3 DEF Answered, Answer
<1>6. ASSUME NEW s \in Scans, NEW j \in Jobs(s), LookupFails(s, j) PROVE TypeOK'
  <2>1. NameOf(s, j) \in Packages BY JobNames
  <2>2. [cache EXCEPT ![s][NameOf(s, j)] = None] \in [Scans -> Answers]
    BY <2>1 DEF Answers
  <2> QED BY <1>6, <2>1, <2>2 DEF LookupFails, Answer, Fault
<1>7. ASSUME NEW s \in Scans, Prefetched(s) PROVE TypeOK'
  BY <1>7 DEF Prefetched
<1>8. ASSUME NEW s \in Scans, NEW j \in Jobs(s), Enrich(s, j) PROVE TypeOK'
  BY <1>8 DEF Enrich, StatusOf
<1>9. ASSUME NEW s \in Scans, EvaluateUpgradePath(s) PROVE TypeOK'
  BY <1>9 DEF EvaluateUpgradePath, Outcomes, ResolveDependencies
<1>10. ASSUME NEW s \in Scans, NothingToSave(s) PROVE TypeOK'
  BY <1>10, EndType DEF NothingToSave
<1>11. ASSUME NEW s \in Scans, OpenFileCache(s) PROVE TypeOK'
  BY <1>11 DEF OpenFileCache, NoContent
<1>12. ASSUME NEW s \in Scans, SaveFileCache(s) PROVE TypeOK'
  <2>1. file' \in NoContent \cup Answers BY <1>12 DEF SaveFileCache, Saved, NoContent
  <2>2. clash' \in BOOLEAN BY <1>12 DEF SaveFileCache
  <2> QED BY <1>12, <2>1, <2>2, EndType DEF SaveFileCache
<1>13. ASSUME NEW s \in Scans, Dies(s) PROVE TypeOK'
  <2>1. clash' \in BOOLEAN BY <1>13 DEF Dies
  <2> QED BY <1>13, <2>1, EndType DEF Dies, Fault
<1>14. CASE UNCHANGED vars
  BY <1>14 DEF vars, scan
<1> QED
  BY <1>1, <1>2, <1>3, <1>4, <1>5, <1>6, <1>7, <1>8, <1>9, <1>10, <1>11, <1>12,
     <1>13, <1>14 DEF Next, Step

\* Every variable keeps its type, for any manifests and any answers.
THEOREM TypeCorrect == Spec => []TypeOK
<1>1. TypeOK /\ [Next]_vars => TypeOK'
  BY TypeStep
<1> QED BY <1>1, TypeInit, PTL DEF Spec

-----------------------------------------------------------------------------
LEMMA LifeInit == Init => \A s \in Scans : Life(s)
  BY DEF Init, Life, Jobs, After

\* Of another scan nothing changes.
LEMMA LifeOfOthers == ASSUME NEW r \in Scans, Life(r), Same(r) PROVE Life(r)'
  BY DEF Same, Life, Jobs, NameOf

LEMMA LifeOfEnded == ASSUME TypeOK, NEW s \in Scans, End(s) PROVE Life(s)'
<1>1. pc'[s] = "off" /\ manifest'[s] = <<>> /\ outcome'[s] = "none" /\ Jobs(s)' = DOMAIN <<>>
  BY DEF End, TypeOK, Jobs
<1> QED BY <1>1 DEF Life, After

\* What a lookup stores is an answer.
LEMMA AnswerKnown ==
  ASSUME TypeOK, NEW s \in Scans, NEW j \in Jobs(s)
  PROVE  Published[NameOf(s, j)] # Unknown /\ None # Unknown
<1>1. NameOf(s, j) \in Packages
  BY JobNames
<1>2. /\ Published \in [Packages -> {None} \cup SUBSET Versions] /\ None # Unknown
      /\ \A vs \in SUBSET Versions : vs \notin {None, Unknown}
  BY DepsDevAssumption
<1> QED BY <1>1, <1>2

LEMMA LifeStep == ASSUME Inv, [Next]_vars PROVE \A s \in Scans : Life(s)'
<1>0. ASSUME NEW s \in Scans,
              \/ \E declared \in Manifests : Start(s, declared)
              \/ Step(s) \/ Dies(s)
              \/ \E j \in Jobs(s) : LookupFails(s, j)
       PROVE  \A r \in Scans \ {s} : Life(r)'
  <2>1. TypeOK /\ \A r \in Scans : Life(r) BY DEF Inv
  <2>2. \A r \in Scans \ {s} : Same(r) BY <1>0, <2>1, Others
  <2> QED BY <2>1, <2>2, LifeOfOthers
<1> USE DEF Inv, TypeOK, Jobs, NameOf, Life, After
<1>1. ASSUME NEW s \in Scans, NEW declared \in Manifests, Start(s, declared) PROVE Life(s)'
  BY <1>1 DEF Start
<1>2. ASSUME NEW s \in Scans, LoadFileCache(s) PROVE Life(s)'
  BY <1>2 DEF LoadFileCache, Uncached
<1>3. ASSUME NEW s \in Scans, NEW j \in Jobs(s), BeginJob(s, j) PROVE Life(s)'
  BY <1>3 DEF BeginJob
<1>4. ASSUME NEW s \in Scans, NEW j \in Jobs(s), NEW result, result # Unknown,
             Answer(s, j, result)
      PROVE  Life(s)'
  <2>1. pc[s] = "prefetch" \/ pc[s] \notin After \cup {"import"}
    BY <1>4 DEF Answer
  <2>2. NameOf(s, j) \in Packages
    BY JobNames
  <2>3. /\ pc' = pc /\ manifest' = manifest /\ status' = status /\ outcome' = outcome
        /\ cache'[s][NameOf(s, j)] = result
        /\ \A i \in Jobs(s) : NameOf(s, i) # NameOf(s, j) =>
             cache'[s][NameOf(s, i)] = cache[s][NameOf(s, i)]
        /\ \A i \in Jobs(s) : i # j => job'[s][i] = job[s][i]
    BY <1>4, <2>2 DEF Answer, Answers
  <2> QED BY <1>4, <2>1, <2>3
<1>5. ASSUME NEW s \in Scans, Prefetched(s) PROVE Life(s)'
  BY <1>5 DEF Prefetched
<1>6. ASSUME NEW s \in Scans, NEW j \in Jobs(s), Enrich(s, j) PROVE Life(s)'
  BY <1>6 DEF Enrich
<1>7. ASSUME NEW s \in Scans, EvaluateUpgradePath(s) PROVE Life(s)'
  BY <1>7 DEF EvaluateUpgradePath
<1>8. ASSUME NEW s \in Scans, OpenFileCache(s) PROVE Life(s)'
  BY <1>8 DEF OpenFileCache
<1>9. ASSUME NEW s \in Scans, End(s) PROVE Life(s)'
  BY <1>9, LifeOfEnded
<1>10. CASE UNCHANGED vars
  BY <1>10 DEF vars, scan
<1>12. ASSUME NEW s \in Scans,
              \/ \E declared \in Manifests : Start(s, declared)
              \/ Step(s) \/ Dies(s)
              \/ \E j \in Jobs(s) : LookupFails(s, j)
       PROVE  Life(s)'
  BY <1>1, <1>2, <1>3, <1>4, <1>5, <1>6, <1>7, <1>8, <1>9, <1>12, AnswerKnown
  DEF Step, ImportFails, NothingToSave, SaveFileCache, Dies, Answered, LookupFails
<1> QED
  BY <1>0, <1>10, <1>12 DEF Next

LEMMA Invariant == Spec => []Inv
<1>1. Init => Inv
  BY TypeInit, LifeInit DEF Inv
<1>2. Inv /\ [Next]_vars => Inv'
  BY TypeStep, LifeStep DEF Inv
<1> QED BY <1>1, <1>2, PTL DEF Spec

-----------------------------------------------------------------------------
LEMMA GenuineStep ==
  ASSUME TypeOK, AnswersAreGenuine, [Next]_vars
  PROVE  AnswersAreGenuine'
<1> USE DEF Genuine
<1>0. /\ \A s \in Scans : Genuine(cache[s])
      /\ file \notin NoContent => Genuine(file)
      /\ cache \in [Scans -> Answers] /\ file \in NoContent \cup Answers
  BY DEF AnswersAreGenuine, TypeOK
<1>1. Genuine(NothingKnown)
  BY DEF NothingKnown
<1>2. SUFFICES ASSUME NEW s \in Scans,
                      \/ \E declared \in Manifests : Start(s, declared)
                      \/ Step(s) \/ Dies(s)
                      \/ \E j \in Jobs(s) : LookupFails(s, j)
               PROVE  AnswersAreGenuine'
  <2>1. CASE UNCHANGED vars BY <2>1, <1>0 DEF vars, scan, AnswersAreGenuine
  <2> QED BY <1>2, <2>1 DEF Next
<1>3. CASE LoadFileCache(s)
  <2>1. Genuine(Loaded)
    BY <1>0, <1>1, <1>3 DEF LoadFileCache, Loaded, NoContent
  <2> QED BY <1>0, <1>3, <2>1 DEF LoadFileCache, AnswersAreGenuine
<1>4. CASE \E j \in Jobs(s) : Answered(s, j)
  BY <1>0, <1>4 DEF Answered, Answer, AnswersAreGenuine, Answers
<1>5. CASE \E j \in Jobs(s) : LookupFails(s, j)
  <2>1. PICK j \in Jobs(s) : LookupFails(s, j) BY <1>5
  <2>2. NameOf(s, j) \in Packages /\ failed \subseteq failed' /\ NameOf(s, j) \in failed'
    BY <2>1, JobNames DEF LookupFails
  <2>3. file' = file /\ cache' = [cache EXCEPT ![s][NameOf(s, j)] = None]
    BY <2>1 DEF LookupFails, Answer
  <2> QED BY <1>0, <2>2, <2>3 DEF AnswersAreGenuine, Answers
<1>6. CASE SaveFileCache(s)
  <2>1. file' \in {Cut, Damaged, cache[s]} /\ failed' = failed
    BY <1>6 DEF SaveFileCache, Saved
  <2>2. \A r \in Scans : cache'[r] \in {cache[r], NothingKnown}
    BY <1>0, <1>6 DEF SaveFileCache, End
  <2> QED BY <1>0, <1>1, <2>1, <2>2 DEF AnswersAreGenuine, NoContent
<1>7. CASE OpenFileCache(s)
  BY <1>0, <1>7 DEF OpenFileCache, AnswersAreGenuine, NoContent
<1>8. CASE End(s) /\ UNCHANGED <<file, failed>>
  <2>1. \A r \in Scans : cache'[r] \in {cache[r], NothingKnown}
    BY <1>0, <1>8 DEF End
  <2> QED BY <1>0, <1>1, <1>8, <2>1 DEF AnswersAreGenuine
<1>9. CASE UNCHANGED <<cache, file, failed>>
  BY <1>0, <1>9 DEF AnswersAreGenuine
<1> QED
  BY <1>2, <1>3, <1>4, <1>5, <1>6, <1>7, <1>8, <1>9
  DEF Step, Start, ImportFails, BeginJob, Prefetched, Enrich, EvaluateUpgradePath,
      NothingToSave, Dies

\* Any chain of scans that save their caches, die and overlap leaves only
\* answers of the registry, and None only for what it does not know or for what
\* could not be asked.
THEOREM GenuineAnswers == Spec => []AnswersAreGenuine
<1>1. Init => AnswersAreGenuine
  BY DEF Init, AnswersAreGenuine, Genuine, NothingKnown, NoContent
<1>2. TypeOK /\ AnswersAreGenuine /\ [Next]_vars => AnswersAreGenuine'
  BY GenuineStep
<1> QED BY <1>1, <1>2, TypeCorrect, PTL DEF Spec

-----------------------------------------------------------------------------
\* If find_matches finds nothing, every version fails some specifier.
LEMMA NothingMatches ==
  ASSUME NEW published \in SUBSET Versions, published # {}, NEW specs,
         FindMatches(published, specs) = {}, NEW v \in published
  PROVE  \E spec \in Parsed(specs) : ~ InRange(v, spec)
<1> DEFINE filtered == IF Parsed(specs) = {} THEN published
                       ELSE {w \in published : InRange(w, Combined(specs))}
<1>1. filtered = {}
  BY DEF FindMatches
<1>2. Parsed(specs) # {} /\ ~ InRange(v, Combined(specs))
  BY <1>1
<1>3. CASE v \notin Combined(specs).span
  BY <1>3 DEF Combined, InRange
<1>4. CASE v \in Prereleases /\ ~ Combined(specs).pre
  BY <1>2, <1>4 DEF Combined, InRange
<1> QED BY <1>2, <1>3, <1>4 DEF InRange

\* What the solver sees of a package with an answer is what the registry has.
LEMMA SeenIsPublished ==
  ASSUME Inv, AnswersAreGenuine, NEW s \in Scans, NEW j \in Jobs(s), status[s][j] = "ok"
  PROVE  LET p == NameOf(s, j)
         IN  /\ Published[p] \in SUBSET Versions /\ Published[p] # {}
             /\ VersionsSeen(s)[p] = Published[p]
<1> DEFINE p == NameOf(s, j)
<1>1. p \in Packages
  BY JobNames DEF Inv
<1>2. cache[s][p] = Published[p] \/ cache[s][p] \in {Unknown, None}
  BY <1>1 DEF AnswersAreGenuine, Genuine
<1>3. job[s][j] = "done" /\ "ok" = StatusOf(cache[s][p])
  BY DEF Inv, Life, TypeOK, After
<1>4. cache[s][p] \notin {Unknown, None, {}}
  BY <1>3 DEF Inv, Life, StatusOf
<1>5. Published[p] \in {None} \cup SUBSET Versions
  BY <1>1, DepsDevAssumption
<1>6. cache[s][p] = Published[p] /\ Published[p] \in SUBSET Versions /\ Published[p] # {}
  BY <1>2, <1>4, <1>5
<1>7. VersionsSeen(s)[p] = cache[s][p]
  BY <1>1, <1>4 DEF VersionsSeen
<1> QED BY <1>6, <1>7

LEMMA UnsolvableStep ==
  ASSUME Inv, AnswersAreGenuine, UnsolvableIsGenuine, [Next]_vars
  PROVE  UnsolvableIsGenuine'
<1> SUFFICES ASSUME NEW s \in Scans, outcome'[s] = "unsolvable"
             PROVE  (\E j \in Jobs(s) : /\ Published[NameOf(s, j)] # None
                                        /\ NoVersionFits(s, NameOf(s, j)))'
  BY DEF UnsolvableIsGenuine
<1>1. CASE EvaluateUpgradePath(s)
  <2> DEFINE input == SolverInput(s)
             seen == VersionsSeen(s)
  <2>1. Unsolvable(input, seen) /\ manifest' = manifest
    BY <1>1 DEF EvaluateUpgradePath, ResolveDependencies, Inv, TypeOK
  <2>2. PICK n \in DOMAIN input :
          FindMatches(seen[input[n].name],
            SpecsOf(input, input[n].name, {i \in DOMAIN input : i <= n})) = {}
    BY <2>1 DEF Unsolvable, Candidates
  <2>3. n \in Jobs(s) /\ status[s][n] = "ok" /\ input[n].name = NameOf(s, n)
    BY <2>2 DEF SolverInput, NameOf
  <2>4. ASSUME NEW v \in Published[NameOf(s, n)]
        PROVE  \E i \in Jobs(s) :
                 /\ NameOf(s, i) = NameOf(s, n)
                 /\ manifest[s][i].spec \notin {AnyVersion, Malformed}
                 /\ ~ InRange(v, manifest[s][i].spec)
    <3> DEFINE specs == SpecsOf(input, NameOf(s, n), {i \in DOMAIN input : i <= n})
    <3>1. PICK spec \in Parsed(specs) : ~ InRange(v, spec)
      BY <2>2, <2>3, <2>4, SeenIsPublished, NothingMatches
    <3>2. spec \in specs /\ spec \notin {AnyVersion, Malformed}
      BY <3>1 DEF Parsed
    <3>3. PICK i \in DOMAIN input : input[i].name = NameOf(s, n) /\ input[i].spec = spec
      BY <3>2 DEF SpecsOf
    <3>4. i \in Jobs(s) /\ input[i] = manifest[s][i]
      BY <3>3 DEF SolverInput
    <3> QED BY <3>1, <3>2, <3>3, <3>4 DEF NameOf
  <2>5. Published[NameOf(s, n)] # None
    BY <2>3, SeenIsPublished, DepsDevAssumption
  <2> QED BY <2>1, <2>3, <2>4, <2>5 DEF NoVersionFits, Jobs, NameOf
<1>2. CASE outcome'[s] = outcome[s] /\ manifest'[s] = manifest[s]
  BY <1>2 DEF UnsolvableIsGenuine, NoVersionFits, Jobs, NameOf
<1>3. CASE End(s)
  BY <1>3 DEF End, Inv, TypeOK
<1>4. CASE \E declared \in Manifests : Start(s, declared)
  BY <1>4 DEF Start, Inv, Life
<1>5. CASE \E r \in Scans \ {s} : \/ \E declared \in Manifests : Start(r, declared)
                                 \/ Step(r) \/ Dies(r)
                                 \/ \E j \in Jobs(r) : LookupFails(r, j)
  BY <1>2, <1>5, Others DEF Same, Inv
<1> QED
  BY <1>1, <1>2, <1>3, <1>4, <1>5
  DEF Next, vars, scan, Step, LoadFileCache, ImportFails, BeginJob, Answered, Answer,
      LookupFails, Prefetched, Enrich, NothingToSave, OpenFileCache, SaveFileCache, Dies

\* Whatever fails, the rule calls constraints unsolvable only if no published
\* version of some package satisfies all that is declared of it.
THEOREM GenuinelyUnsolvable == Spec => []UnsolvableIsGenuine
<1>1. Init => UnsolvableIsGenuine
  BY DEF Init, UnsolvableIsGenuine
<1>2. Inv /\ AnswersAreGenuine /\ UnsolvableIsGenuine /\ [Next]_vars => UnsolvableIsGenuine'
  BY UnsolvableStep
<1> QED BY <1>1, <1>2, Invariant, GenuineAnswers, PTL DEF Spec

-----------------------------------------------------------------------------
\* A finite set of numbers has a greatest one: one with the fewest above it.
LEMMA Greatest ==
  ASSUME NEW S \in SUBSET Nat, IsFiniteSet(S), S # {}
  PROVE  \E v \in S : \A w \in S : w <= v
<1> DEFINE Above(v) == {w \in S : v < w}
           R == {ss \in Nat \X Nat : ss[1] < ss[2]}
           T == {Cardinality(Above(v)) : v \in S}
<1>1. \A v \in S : IsFiniteSet(Above(v)) /\ Cardinality(Above(v)) \in Nat
  <2>1. ASSUME NEW v \in S PROVE IsFiniteSet(Above(v))
    BY FS_Subset
  <2> QED BY <2>1, FS_CardinalityType
<1>2. T \in SUBSET Nat /\ T # {}
  BY <1>1
<1>3. PICK n \in T : \A m \in T : ~ (<<m, n>> \in R)
  <2>1. IsWellFoundedOn(R, Nat)
    BY NatLessThanWellFounded DEF OpToRel
  <2> HIDE DEF R, T
  <2> QED BY <1>2, <2>1, WFMin
<1>4. PICK v \in S : n = Cardinality(Above(v))
  BY <1>3
<1>5. ASSUME NEW w \in S, v < w PROVE FALSE
  <2>1. Above(w) \in SUBSET Above(v) /\ w \in Above(v) /\ w \notin Above(w)
    <3>1. v \in Nat /\ w \in Nat /\ \A u \in S : u \in Nat
      OBVIOUS
    <3>2. \A u \in S : w < u => v < u
      BY <1>5, <3>1
    <3>3. ~ (w < w)
      BY <3>1
    <3> QED BY <1>5, <3>2, <3>3
  <2>2. /\ Cardinality(Above(w)) <= Cardinality(Above(v))
        /\ Cardinality(Above(v)) = Cardinality(Above(w)) => Above(v) = Above(w)
    <3>1. IsFiniteSet(Above(v))
      BY <1>1
    <3> HIDE DEF Above
    <3> QED BY <2>1, <3>1, FS_Subset
  <2>3. Cardinality(Above(w)) < Cardinality(Above(v))
    <3>1. Cardinality(Above(w)) # Cardinality(Above(v))
      BY <2>1, <2>2
    <3>2. Cardinality(Above(w)) \in Nat /\ Cardinality(Above(v)) \in Nat
      BY <1>1
    <3> HIDE DEF Above
    <3> QED BY <2>2, <3>1, <3>2
  <2>4. Cardinality(Above(w)) \in T /\ Cardinality(Above(w)) \in Nat /\ n \in Nat
    BY <1>1, <1>2
  <2> HIDE DEF Above, T
  <2> QED BY <1>3, <1>4, <2>3, <2>4
<1> QED BY <1>5

LEMMA GreatestPlace ==
  ASSUME NEW len \in Nat, NEW S \in SUBSET (1 .. len), S # {}
  PROVE  \E v \in S : \A w \in S : w <= v
<1>1. S \in SUBSET Nat
  OBVIOUS
<1>2. \A v \in S : v <= len
  OBVIOUS
<1>3. IsFiniteSet(S)
  BY <1>1, <1>2, FS_BoundedSetOfNaturals
<1> QED BY <1>1, <1>3, Greatest

\* The newest of some versions is one of them.
LEMMA NewestMember ==
  ASSUME NEW vs \in SUBSET Versions, vs # {}
  PROVE  Newest(vs) \in vs /\ \A w \in vs : w <= Newest(vs)
<1>1. vs \in SUBSET Nat /\ IsFiniteSet(vs)
  BY DepSolverAssumption, FS_Subset
<1>2. \E v \in vs : \A w \in vs : w <= v
  BY <1>1, Greatest
<1> QED BY <1>2 DEF Newest

\* What find_matches finds is published and includes every stable version that
\* satisfies the specifiers.
LEMMA MatchesFit ==
  ASSUME NEW published \in SUBSET Versions, NEW specs
  PROVE  /\ FindMatches(published, specs) \subseteq published
         /\ \A v \in published \ Prereleases :
              (\A spec \in Parsed(specs) : InRange(v, spec)) =>
                v \in FindMatches(published, specs)
<1> DEFINE filtered == IF Parsed(specs) = {} THEN published
                       ELSE {w \in published : InRange(w, Combined(specs))}
<1>1. /\ filtered \subseteq published
      /\ FindMatches(published, specs) \in {filtered, filtered \ Prereleases}
  BY DEF FindMatches
<1>2. ASSUME NEW v \in published \ Prereleases, \A spec \in Parsed(specs) : InRange(v, spec)
      PROVE  v \in filtered
  <2>1. InRange(v, Combined(specs))
    BY <1>2 DEF Combined, InRange
  <2> QED BY <2>1
<1> HIDE DEF filtered
<1> QED BY <1>1, <1>2

\* When the rule solves, the collector has read every answer.
AllRead ==
  \A s \in Scans : pc[s] \in {"solve", "exit", "save"} =>
    \A j \in Jobs(s) : status[s][j] # "unread"

LEMMA AllReadStep ==
  ASSUME Inv, AllRead, [Next]_vars
  PROVE  AllRead'
<1> SUFFICES ASSUME NEW s \in Scans, pc'[s] \in {"solve", "exit", "save"}
             PROVE  (\A j \in Jobs(s) : status[s][j] # "unread")'
  BY DEF AllRead
<1>1. CASE \E j \in Jobs(s) : Enrich(s, j)
  <2>1. PICK j \in Jobs(s) : Enrich(s, j)
    BY <1>1
  <2>2. /\ manifest' = manifest /\ pc[s] = "enrich"
        /\ status' = [status EXCEPT ![s][j] = StatusOf(cache[s][NameOf(s, j)])]
        /\ \A i \in Jobs(s) \ {j} : status[s][i] # "unread"
    BY <2>1 DEF Enrich, Inv, TypeOK
  <2>3. status'[s][j] # "unread" /\ \A i \in Jobs(s) \ {j} : status'[s][i] = status[s][i]
    BY <2>2 DEF Inv, TypeOK, StatusOf
  <2> QED BY <2>2, <2>3 DEF Jobs
<1>2. CASE /\ pc[s] \in {"solve", "exit", "save"}
           /\ status'[s] = status[s] /\ manifest'[s] = manifest[s]
  BY <1>2 DEF AllRead, Jobs
<1>3. CASE End(s)
  BY <1>3 DEF End, Inv, TypeOK
<1>4. CASE \E declared \in Manifests : Start(s, declared)
  BY <1>4 DEF Start, Inv, TypeOK
<1>5. CASE LoadFileCache(s) \/ Prefetched(s)
  BY <1>5 DEF LoadFileCache, Prefetched, Inv, TypeOK
<1>6. CASE \E r \in Scans \ {s} : \/ \E declared \in Manifests : Start(r, declared)
                                 \/ Step(r) \/ Dies(r)
                                 \/ \E j \in Jobs(r) : LookupFails(r, j)
  BY <1>2, <1>6, Others DEF Same, Inv
<1>7. CASE \/ \E j \in Jobs(s) : BeginJob(s, j) \/ Answered(s, j) \/ LookupFails(s, j)
           \/ UNCHANGED vars
  BY <1>2, <1>7 DEF BeginJob, Answered, LookupFails, Answer, vars, scan
<1>8. CASE EvaluateUpgradePath(s) \/ OpenFileCache(s)
  BY <1>2, <1>8 DEF EvaluateUpgradePath, OpenFileCache
<1> QED
  BY <1>1, <1>3, <1>4, <1>5, <1>6, <1>7, <1>8
  DEF Next, Step, ImportFails, NothingToSave, SaveFileCache, Dies

\* What the solver pins: nothing declared of the package was left out of its input,
\* and what it saw of the package is what is published.
LEMMA PinFound ==
  ASSUME Inv, AnswersAreGenuine, NEW s \in Scans, NEW j \in Jobs(s), status[s][j] = "ok",
         \A i \in Jobs(s) : status[s][i] # "unread",
         ~ Unsolvable(SolverInput(s), VersionsSeen(s))
  PROVE  LET p == NameOf(s, j)
             input == SolverInput(s)
             pin == PinOf(input, VersionsSeen(s), p)
             found == FindMatches(Published[p], Declared(s, p))
         IN  /\ Published[p] \in SUBSET Versions
             /\ p \in NamesOf(input) /\ SpecsOf(input, p, DOMAIN input) = Declared(s, p)
             /\ found \subseteq Published[p]
             /\ pin \in found /\ \A w \in found : w <= pin
<1> DEFINE p == NameOf(s, j)
           input == SolverInput(s)
           seen == VersionsSeen(s)
           mine == {i \in Jobs(s) : NameOf(s, i) = p}
           specs == Declared(s, p)
           found == FindMatches(Published[p], specs)
           pin == PinOf(input, seen, p)
<1>1. Published[p] \in SUBSET Versions /\ seen[p] = Published[p]
  BY SeenIsPublished
<1>2. /\ j \in mine /\ \A i \in mine : input[i] = manifest[s][i]
      /\ mine = {i \in DOMAIN input : input[i].name = p}
  <2>1. \A i \in Jobs(s) : status[s][i] = StatusOf(cache[s][NameOf(s, i)])
    BY DEF Inv, Life
  <2>2. \A i \in mine : status[s][i] = "ok"
    BY <2>1
  <2> QED BY <2>2 DEF SolverInput, NameOf
<1>3. SpecsOf(input, p, DOMAIN input) = specs /\ p \in NamesOf(input)
  BY <1>2 DEF SpecsOf, Declared, NamesOf
<1>4. found # {}
  <2>1. PICK len \in Nat : Jobs(s) = 1 .. len
    <3>1. manifest[s] \in Manifests \cup {<<>>}
      BY DEF Inv, TypeOK
    <3>2. \E len \in Nat : Jobs(s) = 1 .. len
      BY <3>1, DepsDevAssumption DEF Jobs
    <3> QED BY <3>2
  <2>2. PICK n \in mine : \A i \in mine : i <= n
    <3>1. mine \in SUBSET (1 .. len) /\ mine # {}
      BY <1>2, <2>1
    <3> HIDE DEF mine
    <3> QED BY <3>1, GreatestPlace
  <2>3. SpecsOf(input, p, {i \in DOMAIN input : i <= n}) = specs
    BY <1>2, <2>2 DEF SpecsOf, Declared
  <2>4. n \in DOMAIN input /\ input[n].name = p
    BY <1>2
  <2> QED BY <1>1, <2>3, <2>4 DEF Unsolvable, Candidates
<1>5. /\ pin \in found /\ \A w \in found : w <= pin
      /\ found \subseteq Published[p]
  <2>1. pin = Newest(found)
    BY <1>1, <1>3 DEF PinOf, Candidates
  <2>2. found \subseteq Published[p]
    BY <1>1, MatchesFit
  <2> HIDE DEF found, pin
  <2> QED BY <1>1, <1>4, <2>1, <2>2, NewestMember
<1> QED BY <1>1, <1>3, <1>5

\* One recommendation.
LEMMA NewestRecommended ==
  ASSUME Inv, AnswersAreGenuine, NEW s \in Scans, NEW j \in Jobs(s), status[s][j] = "ok",
         \A i \in Jobs(s) : status[s][i] # "unread",
         ResolveDependencies(SolverInput(s), VersionsSeen(s)) = "resolved"
  PROVE  LET p == NameOf(s, j)
             pin == PinOf(SolverInput(s), VersionsSeen(s), p)
             fitting == {v \in Published[p] : \A r \in Declared(s, p) : IsSatisfiedBy(r, v)}
         IN  pin \in fitting /\ \A v \in fitting \ Prereleases : v <= pin
<1> DEFINE p == NameOf(s, j)
           input == SolverInput(s)
           specs == Declared(s, p)
           found == FindMatches(Published[p], specs)
           pin == PinOf(input, VersionsSeen(s), p)
           fitting == {v \in Published[p] : \A r \in specs : IsSatisfiedBy(r, v)}
<1>1. /\ ~ Unsolvable(input, VersionsSeen(s))
      /\ ~ Inconsistent(input, VersionsSeen(s))
  BY DEF ResolveDependencies
<1>2. /\ Published[p] \in SUBSET Versions
      /\ p \in NamesOf(input) /\ SpecsOf(input, p, DOMAIN input) = specs
      /\ found \subseteq Published[p] /\ pin \in found /\ \A w \in found : w <= pin
  BY <1>1, PinFound
<1>3. \A r \in specs : IsSatisfiedBy(r, pin)
  BY <1>1, <1>2 DEF Inconsistent
<1>4. ASSUME NEW v \in fitting \ Prereleases PROVE v \in found
  <2>1. \A r \in Parsed(specs) : InRange(v, r)
    BY <1>4 DEF Parsed, IsSatisfiedBy
  <2> QED BY <1>2, <1>4, <2>1, MatchesFit
<1>5. pin \in fitting /\ \A v \in fitting \ Prereleases : v <= pin
  BY <1>2, <1>3, <1>4
<1> QED BY <1>5

LEMMA NewestStep ==
  ASSUME Inv, AllRead, AnswersAreGenuine, RecommendationIsNewest, [Next]_vars
  PROVE  RecommendationIsNewest'
<1> SUFFICES ASSUME NEW s \in Scans, outcome'[s] = "resolved",
                    NEW j \in Jobs(s)', status'[s][j] = "ok"
             PROVE  (LET p == NameOf(s, j)
                         pin == PinOf(SolverInput(s), VersionsSeen(s), p)
                         fitting == {v \in Published[p] :
                                       \A r \in Declared(s, p) : IsSatisfiedBy(r, v)}
                     IN  pin \in fitting /\ \A v \in fitting \ Prereleases : v <= pin)'
  BY DEF RecommendationIsNewest
<1>1. CASE EvaluateUpgradePath(s)
  <2>1. /\ ResolveDependencies(SolverInput(s), VersionsSeen(s)) = "resolved"
        /\ pc[s] = "solve" /\ UNCHANGED <<manifest, cache, status>>
    BY <1>1 DEF EvaluateUpgradePath, Inv, TypeOK
  <2>2. /\ SolverInput(s)' = SolverInput(s) /\ VersionsSeen(s)' = VersionsSeen(s)
        /\ Jobs(s)' = Jobs(s) /\ \A i : NameOf(s, i)' = NameOf(s, i)
        /\ \A p : Declared(s, p)' = Declared(s, p)
    BY <2>1 DEF SolverInput, VersionsSeen, Jobs, NameOf, Declared
  <2>3. j \in Jobs(s) /\ status[s][j] = "ok" /\ \A i \in Jobs(s) : status[s][i] # "unread"
    BY <2>1, <2>2 DEF AllRead
  <2> QED BY <2>1, <2>2, <2>3, NewestRecommended
<1>2. CASE /\ outcome'[s] = outcome[s] /\ manifest'[s] = manifest[s]
           /\ cache'[s] = cache[s] /\ status'[s] = status[s]
  <2>1. /\ SolverInput(s)' = SolverInput(s) /\ VersionsSeen(s)' = VersionsSeen(s)
        /\ Jobs(s)' = Jobs(s) /\ \A i : NameOf(s, i)' = NameOf(s, i)
        /\ \A p : Declared(s, p)' = Declared(s, p)
    BY <1>2 DEF SolverInput, VersionsSeen, Jobs, NameOf, Declared
  <2> QED BY <1>2, <2>1 DEF RecommendationIsNewest
<1>3. CASE End(s)
  BY <1>3 DEF End, Inv, TypeOK
<1>4. CASE pc[s] \notin {"exit", "save"} /\ outcome'[s] = outcome[s]
  BY <1>4 DEF Inv, Life
<1>5. CASE \E i \in Jobs(s) : Answered(s, i) \/ LookupFails(s, i)
  <2>1. PICK i \in Jobs(s) : job[s][i] = "looking"
    BY <1>5 DEF Answered, LookupFails, Answer
  <2>2. pc[s] \notin After
    BY <2>1 DEF Inv, Life
  <2> QED BY <1>4, <1>5, <2>2 DEF After, Answered, LookupFails, Answer
<1>6. CASE \E r \in Scans \ {s} : \/ \E declared \in Manifests : Start(r, declared)
                                 \/ Step(r) \/ Dies(r)
                                 \/ \E i \in Jobs(r) : LookupFails(r, i)
  BY <1>2, <1>6, Others DEF Same, Inv
<1>7. CASE \/ \E i \in Jobs(s) : BeginJob(s, i)
           \/ OpenFileCache(s) \/ UNCHANGED vars
  BY <1>2, <1>7 DEF BeginJob, OpenFileCache, vars, scan
<1>8. CASE \/ \E declared \in Manifests : Start(s, declared)
           \/ LoadFileCache(s) \/ Prefetched(s)
           \/ \E i \in Jobs(s) : Enrich(s, i)
  BY <1>4, <1>8 DEF Start, LoadFileCache, Prefetched, Enrich
<1> QED
  BY <1>1, <1>3, <1>5, <1>6, <1>7, <1>8
  DEF Next, Step, ImportFails, NothingToSave, SaveFileCache, Dies

\* The version recommended for a package is published and satisfies all that the
\* manifest declares of it, and no newer stable version does.
THEOREM RecommendationsNewest == Spec => []RecommendationIsNewest
<1>1. Init => AllRead /\ RecommendationIsNewest
  BY DEF Init, AllRead, RecommendationIsNewest
<1>2. Inv /\ AllRead /\ [Next]_vars => AllRead'
  BY AllReadStep
<1>3. Inv /\ AllRead /\ AnswersAreGenuine /\ RecommendationIsNewest /\ [Next]_vars
        => RecommendationIsNewest'
  BY NewestStep
<1> QED BY <1>1, <1>2, <1>3, Invariant, GenuineAnswers, PTL DEF Spec

-----------------------------------------------------------------------------
\* What the pin of some specifiers is that not all of them accept.
LEMMA RefusedPin ==
  ASSUME NEW published \in SUBSET Versions, NEW specs \in SUBSET Specifiers,
         NEW pin \in FindMatches(published, specs),
         \A w \in FindMatches(published, specs) : w <= pin,
         NEW spec \in specs, ~ IsSatisfiedBy(spec, pin), spec # Malformed
  PROVE  LET spanned == {v \in published : \A r \in Parsed(specs) : v \in r.span}
         IN  /\ \E r, q \in Parsed(specs) : r.pre /\ ~ q.pre
             /\ \E v \in spanned \cap Prereleases : \A w \in spanned : w <= v
<1> DEFINE spanned == {v \in published : \A r \in Parsed(specs) : v \in r.span}
           joined == Combined(specs)
           filtered == {v \in published : InRange(v, joined)}
<1>1. spec \in Parsed(specs) /\ spec \in Ranges /\ ~ InRange(pin, spec)
  BY DEF IsSatisfiedBy, Parsed, Specifiers
<1>2. pin \in filtered /\ FindMatches(published, specs) \subseteq filtered
  BY <1>1 DEF FindMatches
<1>3. pin \in spanned /\ pin \in spec.span /\ pin \in Prereleases /\ ~ spec.pre /\ joined.pre
  <2>1. pin \in joined.span /\ (pin \in Prereleases => joined.pre)
    BY <1>2 DEF InRange
  <2>2. \A r \in Parsed(specs) : pin \in r.span
    BY <2>1 DEF Combined
  <2>3. pin \in Prereleases /\ ~ spec.pre
    BY <1>1, <2>2 DEF InRange
  <2> QED BY <1>1, <1>2, <2>1, <2>2, <2>3
<1>4. \E r \in Parsed(specs) : r.pre
  BY <1>3 DEF Combined
<1>5. ASSUME NEW w \in spanned PROVE w <= pin
  <2>1. w \in joined.span
    BY <1>5 DEF Combined
  <2>2. w \in FindMatches(published, specs)
    BY <1>1, <1>3, <2>1 DEF FindMatches, InRange
  <2> QED BY <2>2
<1> QED BY <1>1, <1>3, <1>4, <1>5

\* A job whose package explains why the solver raises.
Explains(s, j) ==
  LET p == NameOf(s, j)
      specs == Declared(s, p)
      spanned == {v \in Published[p] : \A r \in Parsed(specs) : v \in r.span}
  IN  \/ Malformed \in specs
      \/ /\ \E r, q \in Parsed(specs) : r.pre /\ ~ q.pre
         /\ \E v \in spanned \cap Prereleases : \A w \in spanned : w <= v

LEMMA DeclaredSpecifiers ==
  ASSUME TypeOK, NEW s \in Scans, NEW p
  PROVE  Declared(s, p) \in SUBSET Specifiers
  BY JobNames DEF Declared

LEMMA RaisesExplained ==
  ASSUME Inv, AnswersAreGenuine, NEW s \in Scans,
         \A i \in Jobs(s) : status[s][i] # "unread",
         ResolveDependencies(SolverInput(s), VersionsSeen(s)) = "raises"
  PROVE  \E j \in Jobs(s) : status[s][j] = "ok" /\ Explains(s, j)
<1> DEFINE input == SolverInput(s)
           seen == VersionsSeen(s)
<1>1. ~ Unsolvable(input, seen) /\ Inconsistent(input, seen)
  BY DEF ResolveDependencies
<1>2. PICK name \in NamesOf(input) : \E r \in SpecsOf(input, name, DOMAIN input) :
        ~ IsSatisfiedBy(r, PinOf(input, seen, name))
  BY <1>1 DEF Inconsistent
<1>3. PICK j \in DOMAIN input : input[j].name = name
  BY <1>2 DEF NamesOf
<1>4. j \in Jobs(s) /\ status[s][j] = "ok" /\ name = NameOf(s, j)
  BY <1>3 DEF SolverInput, NameOf
<1> DEFINE specs == Declared(s, name)
           found == FindMatches(Published[name], specs)
           pin == PinOf(input, seen, name)
<1>5. /\ Published[name] \in SUBSET Versions /\ SpecsOf(input, name, DOMAIN input) = specs
      /\ pin \in found /\ \A w \in found : w <= pin
  BY <1>1, <1>4, PinFound
<1>6. specs \in SUBSET Specifiers
  BY DeclaredSpecifiers DEF Inv
<1>7. PICK spec \in specs : ~ IsSatisfiedBy(spec, pin)
  BY <1>2, <1>5
<1>8. CASE spec = Malformed
  BY <1>4, <1>7, <1>8 DEF Explains
<1>9. CASE spec # Malformed
  <2> HIDE DEF pin, specs
  <2>1. LET spanned == {v \in Published[name] : \A r \in Parsed(specs) : v \in r.span}
        IN  /\ \E r, q \in Parsed(specs) : r.pre /\ ~ q.pre
            /\ \E v \in spanned \cap Prereleases : \A w \in spanned : w <= v
    BY <1>5, <1>6, <1>7, <1>9, RefusedPin
  <2> QED BY <1>4, <2>1 DEF Explains, specs
<1> QED BY <1>8, <1>9

LEMMA ExplainsStill ==
  ASSUME NEW s \in Scans, manifest'[s] = manifest[s], status'[s] = status[s],
         \E j \in Jobs(s) : status[s][j] = "ok" /\ Explains(s, j)
  PROVE  (\E j \in Jobs(s) : status[s][j] = "ok" /\ Explains(s, j))'
<1>1. Jobs(s)' = Jobs(s) /\ \A j : NameOf(s, j)' = NameOf(s, j)
  BY DEF Jobs, NameOf
<1>2. \A p : Declared(s, p)' = Declared(s, p)
  BY <1>1 DEF Declared
<1>3. \A j : Explains(s, j)' = Explains(s, j)
  BY <1>1, <1>2 DEF Explains
<1> QED BY <1>1, <1>3

LEMMA RaisingStep ==
  ASSUME Inv, AllRead, AnswersAreGenuine, RaisingIsExplained, [Next]_vars
  PROVE  RaisingIsExplained'
<1> SUFFICES ASSUME NEW s \in Scans, outcome'[s] = "raises"
             PROVE  (\E j \in Jobs(s) : status[s][j] = "ok" /\ Explains(s, j))'
  BY DEF RaisingIsExplained, Explains
<1>1. CASE EvaluateUpgradePath(s)
  <2>1. /\ ResolveDependencies(SolverInput(s), VersionsSeen(s)) = "raises"
        /\ pc[s] = "solve" /\ UNCHANGED <<manifest, status>>
    BY <1>1 DEF EvaluateUpgradePath, Inv, TypeOK
  <2>2. \E j \in Jobs(s) : status[s][j] = "ok" /\ Explains(s, j)
    BY <2>1, RaisesExplained DEF AllRead
  <2> QED BY <2>1, <2>2, ExplainsStill
<1>2. CASE /\ outcome'[s] = outcome[s] /\ manifest'[s] = manifest[s]
           /\ status'[s] = status[s]
  <2>1. \E j \in Jobs(s) : status[s][j] = "ok" /\ Explains(s, j)
    BY <1>2 DEF RaisingIsExplained, Explains
  <2> QED BY <1>2, <2>1, ExplainsStill
<1>3. CASE End(s)
  BY <1>3 DEF End, Inv, TypeOK
<1>4. CASE pc[s] \notin {"exit", "save"} /\ outcome'[s] = outcome[s]
  BY <1>4 DEF Inv, Life
<1>5. CASE \E r \in Scans \ {s} : \/ \E declared \in Manifests : Start(r, declared)
                                 \/ Step(r) \/ Dies(r)
                                 \/ \E i \in Jobs(r) : LookupFails(r, i)
  BY <1>2, <1>5, Others DEF Same, Inv
<1>6. CASE \/ \E i \in Jobs(s) : BeginJob(s, i) \/ Answered(s, i) \/ LookupFails(s, i)
           \/ OpenFileCache(s) \/ UNCHANGED vars
  BY <1>2, <1>6 DEF BeginJob, Answered, LookupFails, Answer, OpenFileCache, vars, scan
<1>7. CASE \/ \E declared \in Manifests : Start(s, declared)
           \/ LoadFileCache(s) \/ Prefetched(s)
           \/ \E i \in Jobs(s) : Enrich(s, i)
  BY <1>4, <1>7 DEF Start, LoadFileCache, Prefetched, Enrich
<1> QED
  BY <1>1, <1>3, <1>5, <1>6, <1>7
  DEF Next, Step, ImportFails, NothingToSave, SaveFileCache, Dies

\* The solver raises, and the rule with it, only on a specifier that cannot be
\* parsed, or on two specifiers that disagree on a pre-release.
THEOREM RaisingExplained == Spec => []RaisingIsExplained
<1>1. Init => RaisingIsExplained
  BY DEF Init, RaisingIsExplained
<1>2. Init => AllRead
  BY DEF Init, AllRead
<1>3. Inv /\ AllRead /\ [Next]_vars => AllRead'
  BY AllReadStep
<1>4. Inv /\ AllRead /\ AnswersAreGenuine /\ RaisingIsExplained /\ [Next]_vars
        => RaisingIsExplained'
  BY RaisingStep
<1> QED BY <1>1, <1>2, <1>3, <1>4, Invariant, GenuineAnswers, PTL DEF Spec

-----------------------------------------------------------------------------
LEMMA OneViewChanges ==
  ASSUME NEW s \in Scans, NEW answers, ViewOf(s)' = answers,
         \A r \in Scans \ {s} : ViewOf(r)' = ViewOf(r)
  PROVE  [r \in Scans |-> ViewOf(r)]' = [[r \in Scans |-> ViewOf(r)] EXCEPT ![s] = answers]
  OBVIOUS

\* Reading the registry for a set of packages.
LEMMA ReadingIsRead ==
  ASSUME NEW s \in Scans, NEW P \in SUBSET Packages, NEW answers,
         answers = [p \in P |-> answers[p]],
         \A p \in P : answers[p] \in {Published[p], None},
         ViewOf(s) = Unknown, ViewOf(s)' = answers,
         \A r \in Scans \ {s} : ViewOf(r)' = ViewOf(r)
  PROVE  Snapshot!Next
<1>1. answers \in [P -> UNION {{Published[p], None} : p \in Packages}]
  OBVIOUS
<1>2. DOMAIN answers = P
  OBVIOUS
<1>3. Snapshot!Reading(answers)
  BY <1>2 DEF Snapshot!Reading
<1>4. [r \in Scans |-> ViewOf(r)]' = [[r \in Scans |-> ViewOf(r)] EXCEPT ![s] = answers]
  BY OneViewChanges
<1>5. Snapshot!Read(s)
  BY <1>1, <1>3, <1>4 DEF Snapshot!Read
<1> QED BY <1>5 DEF Snapshot!Next

LEMMA ForgettingIsForget ==
  ASSUME NEW s \in Scans, ViewOf(s) # Unknown, ViewOf(s)' = Unknown,
         \A r \in Scans \ {s} : ViewOf(r)' = ViewOf(r)
  PROVE  Snapshot!Next
<1>1. [r \in Scans |-> ViewOf(r)]' = [[r \in Scans |-> ViewOf(r)] EXCEPT ![s] = Unknown]
  BY OneViewChanges
<1>2. Snapshot!Forget(s)
  BY <1>1 DEF Snapshot!Forget
<1> QED BY <1>2 DEF Snapshot!Next

LEMMA SnapshotStep ==
  ASSUME Inv, Inv', AnswersAreGenuine, [Next]_vars
  PROVE  [Snapshot!Next]_([s \in Scans |-> ViewOf(s)])
<1>1. CASE UNCHANGED vars
  BY <1>1 DEF vars, scan, ViewOf, NameOf, Jobs
<1>2. SUFFICES ASSUME NEW s \in Scans,
                      \/ \E declared \in Manifests : Start(s, declared)
                      \/ Step(s) \/ Dies(s)
                      \/ \E j \in Jobs(s) : LookupFails(s, j)
               PROVE  [Snapshot!Next]_([r \in Scans |-> ViewOf(r)])
  BY <1>1 DEF Next
<1>3. \A r \in Scans \ {s} : ViewOf(r)' = ViewOf(r)
  BY <1>2, Others DEF Inv, Same, ViewOf, NameOf, Jobs
<1>4. CASE ViewOf(s)' = ViewOf(s)
  BY <1>3, <1>4
<1>5. CASE ViewOf(s)' = Unknown /\ ViewOf(s) # Unknown
  BY <1>3, <1>5, ForgettingIsForget
<1>6. CASE Prefetched(s)
  <2> DEFINE P == {NameOf(s, j) : j \in Jobs(s)}
             answers == [p \in P |-> cache[s][p]]
  <2>1. P \in SUBSET Packages
    BY JobNames DEF Inv
  <2>2. ASSUME NEW j \in Jobs(s) PROVE cache[s][NameOf(s, j)] \in {Published[NameOf(s, j)], None}
    <3>1. cache[s][NameOf(s, j)] # Unknown
      BY <1>6, <2>2 DEF Prefetched, Inv, Life
    <3>2. NameOf(s, j) \in Packages
      BY <2>1
    <3> QED BY <3>1, <3>2 DEF AnswersAreGenuine, Genuine
  <2>3. \A p \in P : answers[p] \in {Published[p], None}
    BY <2>2
  <2>4. ViewOf(s) = Unknown /\ ViewOf(s)' = answers
    BY <1>6 DEF Prefetched, ViewOf, NameOf, Jobs, Inv, TypeOK
  <2>5. answers = [p \in P |-> answers[p]]
    OBVIOUS
  <2> HIDE DEF P, answers
  <2> QED BY <1>3, <2>1, <2>3, <2>4, <2>5, ReadingIsRead
<1>7. CASE End(s)
  BY <1>4, <1>5, <1>7 DEF End, ViewOf, Inv, TypeOK
<1>8. CASE pc[s] \notin After /\ pc'[s] \notin After
  BY <1>4, <1>8 DEF ViewOf, After
<1>9. CASE /\ pc[s] \in After /\ pc'[s] \in After
           /\ manifest'[s] = manifest[s] /\ cache'[s] = cache[s]
  BY <1>4, <1>9 DEF ViewOf, After, NameOf, Jobs
<1>10. CASE \E declared \in Manifests : Start(s, declared)
  BY <1>8, <1>10 DEF Start, After, Inv, TypeOK
<1>11. CASE LoadFileCache(s)
  BY <1>8, <1>11 DEF LoadFileCache, After, Inv, TypeOK
<1>12. CASE \E j \in Jobs(s) : BeginJob(s, j)
  BY <1>8, <1>12 DEF BeginJob, Inv, Life
<1>13. CASE \E j \in Jobs(s) : Answered(s, j) \/ LookupFails(s, j)
  BY <1>8, <1>13 DEF Answered, LookupFails, Answer, Inv, Life
<1>14. CASE \E j \in Jobs(s) : Enrich(s, j)
  BY <1>9, <1>14 DEF Enrich, After, Inv, TypeOK
<1>15. CASE EvaluateUpgradePath(s) \/ OpenFileCache(s)
  BY <1>9, <1>15 DEF EvaluateUpgradePath, OpenFileCache, After, Inv, TypeOK
<1> QED
  BY <1>2, <1>6, <1>7, <1>10, <1>11, <1>12, <1>13, <1>14, <1>15
  DEF Step, ImportFails, NothingToSave, SaveFileCache, Dies

\* A scan works on one reading of the registry: the pool, its threads and the
\* two later rounds of lookups cannot be told from reading all packages at once.
THEOREM ImplementsSnapshot == Spec => SnapshotSpec
<1>1. Init => Snapshot!Init
  BY DEF Init, Snapshot!Init, ViewOf
<1>2. Inv /\ Inv' /\ AnswersAreGenuine /\ [Next]_vars
        => [Snapshot!Next]_([s \in Scans |-> ViewOf(s)])
  BY SnapshotStep
<1> QED
  BY <1>1, <1>2, Invariant, GenuineAnswers, PTL DEF Spec, SnapshotSpec, Snapshot!Spec
=============================================================================
