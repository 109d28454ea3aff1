------------------------------ MODULE DepsDev ------------------------------
(***************************************************************************)
(* Looking packages up at deps.dev (src/nfr_review/deps_dev_client.py),    *)
(* the collector that does so (collectors/python_deps.py and its four      *)
(* likes) and the rule that solves for an upgrade path                     *)
(* (rules/dep_upgrade_path.py).                                            *)
(*                                                                         *)
(* Several scans share a cache file.  Each loads it at import, warms its   *)
(* cache with a pool of threads, one job per dependency, then reads every  *)
(* answer twice, in the collector and in the rule, and saves the cache at  *)
(* exit.  A lookup may fail and a scan may be killed.  A package has one   *)
(* path; the lookups of single versions are left out.                      *)
(***************************************************************************)
EXTENDS DepSolver, Sequences

CONSTANTS
  Scans,          \* processes that share the cache file
  Packages,
  Published,      \* versions the registry has of each package, or None
  Manifests,      \* declared dependencies of a repository: <<[name, spec], ...>>
  MaxWorkers,     \* max_workers
  Unknown,        \* not in the cache
  None,           \* "no such package"; also what a failed lookup leaves
  Missing, Cut, Damaged,  \* cache files without content
  MaxStarts, MaxFaults    \* bounds

Answers == [Packages -> {None, Unknown} \cup SUBSET Versions]
NoContent == {Missing, Cut, Damaged}

ASSUME DepsDevAssumption ==
  /\ Published \in [Packages -> {None} \cup SUBSET Versions]
  /\ Manifests \subseteq Seq([name : Packages, spec : Specifiers]) \ {<<>>}
  /\ MaxWorkers \in Nat \ {0}
  /\ None # Unknown /\ \A vs \in SUBSET Versions : vs \notin {None, Unknown}
  /\ \A answers \in Answers : answers \notin NoContent
  /\ MaxStarts \in Nat /\ MaxFaults \in Nat

VARIABLES
  pc,        \* of a scan: "off", "import", "prefetch", "enrich", "solve", "exit", "save"
  manifest,  \* raw_deps: what the scanned repository declares
  cache,     \* _shared_cache
  dirty,     \* _cache_dirty
  job,       \* of the pool: "idle", "queued", "looking", "done"
  status,    \* of a dependency in the evidence: "unread", "ok", "not_found", "failed"
  outcome,   \* of the rule: "none", "skipped", or what resolve_dependencies gives
  file,      \* the cache file
  clash,     \* two scans had it open for writing at a time
  \* kept for the properties and the bounds:
  failed,    \* packages some lookup of which failed
  starts, faults

scan == <<pc, manifest, cache, dirty, job, status, outcome>>
vars == <<scan, file, clash, failed, starts, faults>>

Jobs(s) == DOMAIN manifest[s]
NameOf(s, j) == manifest[s][j].name
NothingKnown == [p \in Packages |-> Unknown]

Init ==
  /\ pc = [s \in Scans |-> "off"]
  /\ manifest = [s \in Scans |-> <<>>]
  /\ cache = [s \in Scans |-> NothingKnown]
  /\ dirty = [s \in Scans |-> FALSE]
  /\ job = [s \in Scans |-> <<>>]
  /\ status = [s \in Scans |-> <<>>]
  /\ outcome = [s \in Scans |-> "none"]
  /\ file = Missing /\ clash = FALSE
  /\ failed = {} /\ starts = 0 /\ faults = 0

Fault == faults < MaxFaults /\ faults' = faults + 1

(***************************************************************************)
(* A process starts.                                                       *)
(***************************************************************************)
Start(s, declared) ==
  /\ pc[s] = "off" /\ starts < MaxStarts
  /\ starts' = starts + 1
  /\ pc' = [pc EXCEPT ![s] = "import"]
  /\ manifest' = [manifest EXCEPT ![s] = declared]
  /\ job' = [job EXCEPT ![s] = [j \in DOMAIN declared |-> "idle"]]
  /\ status' = [status EXCEPT ![s] = [j \in DOMAIN declared |-> "unread"]]
  /\ UNCHANGED <<cache, dirty, outcome, file, clash, failed, faults>>

\* It ends, and with it all it held in memory.
End(s) ==
  /\ pc' = [pc EXCEPT ![s] = "off"]
  /\ manifest' = [manifest EXCEPT ![s] = <<>>]
  /\ cache' = [cache EXCEPT ![s] = NothingKnown]
  /\ dirty' = [dirty EXCEPT ![s] = FALSE]
  /\ job' = [job EXCEPT ![s] = <<>>]
  /\ status' = [status EXCEPT ![s] = <<>>]
  /\ outcome' = [outcome EXCEPT ![s] = "none"]

LoadedWithoutSentinel ==  \* mutant: what is not cached reads as None
  [p \in Packages |->
     IF file \in {Missing, Damaged} THEN None
     ELSE IF file[p] = Unknown THEN None ELSE file[p]]
Loaded == IF file \in {Missing, Damaged} THEN NothingKnown ELSE file

UncachedOnly(s) ==  \* mutant: cached entries are counted but never done
  [j \in Jobs(s) |-> IF Loaded[NameOf(s, j)] = Unknown THEN "queued" ELSE "idle"]
Uncached(s) ==
  [j \in Jobs(s) |-> IF Loaded[NameOf(s, j)] = Unknown THEN "queued" ELSE "done"]

\* _load_file_cache at import, and the list of what is not cached yet, which
\* may name a package more than once.  A damaged file is ignored.
LoadFileCache(s) ==
  /\ pc[s] = "import" /\ file # Cut
  /\ cache' = [cache EXCEPT ![s] = Loaded] /\ job' = [job EXCEPT ![s] = Uncached(s)]
  /\ pc' = [pc EXCEPT ![s] = "prefetch"]
  /\ UNCHANGED <<manifest, dirty, status, outcome, file, clash, failed, starts, faults>>

\* Reading a gzip file that was cut short raises EOFError, which is not an
\* OSError: the import of the collectors fails, and with it the program.
ImportFails(s) ==
  /\ pc[s] = "import" /\ file = Cut
  /\ End(s) /\ UNCHANGED <<file, clash, failed, starts, faults>>

(***************************************************************************)
(* prefetch_package_versions: one job per entry of the list.               *)
(***************************************************************************)
BeginJob(s, j) ==
  /\ pc[s] # "off" /\ job[s][j] = "queued"
  /\ Cardinality({i \in Jobs(s) : job[s][i] = "looking"}) < MaxWorkers
  /\ job' = [job EXCEPT ![s][j] =
               IF cache[s][NameOf(s, j)] = Unknown THEN "looking" ELSE "done"]
  /\ UNCHANGED <<pc, manifest, cache, dirty, status, outcome, file, clash, failed, starts, faults>>

\* _get stores what it got.
Answer(s, j, result) ==
  /\ pc[s] # "off" /\ job[s][j] = "looking"
  /\ job' = [job EXCEPT ![s][j] = "done"]
  /\ cache' = [cache EXCEPT ![s][NameOf(s, j)] = result]
  /\ dirty' = [dirty EXCEPT ![s] = TRUE]
  /\ UNCHANGED <<pc, manifest, status, outcome, file, clash, starts>>

Answered(s, j) ==
  Answer(s, j, Published[NameOf(s, j)]) /\ UNCHANGED <<failed, faults>>

\* No connection, a time-out, an error status, an answer that is not JSON.
LookupFails(s, j) ==
  /\ Answer(s, j, None) /\ Fault
  /\ failed' = failed \cup {NameOf(s, j)}

PrefetchedUnawaited(s) ==  \* mutant: nobody waits for the last answers
  /\ pc[s] = "prefetch" /\ \A j \in Jobs(s) : job[s][j] \in {"looking", "done"}
  /\ pc' = [pc EXCEPT ![s] = "enrich"]
  /\ UNCHANGED <<manifest, cache, dirty, job, status, outcome, file, clash, failed, starts, faults>>

\* The executor waits for all its jobs.
Prefetched(s) ==
  /\ pc[s] = "prefetch" /\ \A j \in Jobs(s) : job[s][j] = "done"
  /\ pc' = [pc EXCEPT ![s] = "enrich"]
  /\ UNCHANGED <<manifest, cache, dirty, job, status, outcome, file, clash, failed, starts, faults>>

(***************************************************************************)
(* _enrich: a cache hit, for every dependency.                             *)
(***************************************************************************)
StatusOf(answer) ==
  IF answer = None THEN "failed" ELSE IF answer = {} THEN "not_found" ELSE "ok"

Enrich(s, j) ==
  /\ pc[s] = "enrich" /\ status[s][j] = "unread" /\ cache[s][NameOf(s, j)] # Unknown
  /\ status' = [status EXCEPT ![s][j] = StatusOf(cache[s][NameOf(s, j)])]
  /\ pc' = [pc EXCEPT ![s] =
              IF \A i \in Jobs(s) \ {j} : status[s][i] # "unread" THEN "solve" ELSE "enrich"]
  /\ UNCHANGED <<manifest, cache, dirty, job, outcome, file, clash, failed, starts, faults>>

(***************************************************************************)
(* The rule looks the dependencies up again, those with status "ok".       *)
(***************************************************************************)
SolverInputOfAll(s) == manifest[s]  \* mutant: _filter_deps is gone
SolverInput(s) ==
  [j \in {j \in Jobs(s) : status[s][j] = "ok"} |-> manifest[s][j]]

VersionsSeen(s) == [p \in Packages |-> IF cache[s][p] \in {None, Unknown} THEN {}
                                       ELSE cache[s][p]]

EvaluateUpgradePath(s) ==
  /\ pc[s] = "solve"
  /\ outcome' = [outcome EXCEPT ![s] =
       IF DOMAIN SolverInput(s) = {} THEN "skipped"
       ELSE ResolveDependencies(SolverInput(s), VersionsSeen(s))]
  /\ pc' = [pc EXCEPT ![s] = "exit"]
  /\ UNCHANGED <<manifest, cache, dirty, job, status, file, clash, failed, starts, faults>>

(***************************************************************************)
(* _save_file_cache, at exit: the file is truncated and then written.      *)
(***************************************************************************)
NothingToSave(s) ==
  /\ pc[s] = "exit" /\ ~ dirty[s]
  /\ End(s) /\ UNCHANGED <<file, clash, failed, starts, faults>>

Writing(s) == pc[s] = "save"

OpenFileCache(s) ==
  /\ pc[s] = "exit" /\ dirty[s]
  /\ pc' = [pc EXCEPT ![s] = "save"]
  /\ file' \in {Cut, Damaged}
  /\ clash' = \E r \in Scans \ {s} : Writing(r)
  /\ UNCHANGED <<manifest, cache, dirty, job, status, outcome, failed, starts, faults>>

Saved(s) == cache[s]

\* Two writers leave anything, the last of them alone its own cache.
SaveFileCache(s) ==
  /\ Writing(s)
  /\ End(s)
  /\ IF clash THEN file' \in {Cut, Damaged, Saved(s)} ELSE file' = Saved(s)
  /\ clash' = (clash /\ \E r \in Scans \ {s} : Writing(r))
  /\ UNCHANGED <<failed, starts, faults>>

\* The file cannot be written, which is only logged, or the scan is killed.
Dies(s) ==
  /\ pc[s] # "off" /\ Fault /\ End(s)
  /\ clash' = (clash /\ \E r \in Scans \ {s} : Writing(r))
  /\ UNCHANGED <<file, failed, starts>>

Step(s) ==
  \/ LoadFileCache(s) \/ ImportFails(s)
  \/ \E j \in Jobs(s) : BeginJob(s, j) \/ Answered(s, j) \/ Enrich(s, j)
  \/ Prefetched(s) \/ EvaluateUpgradePath(s)
  \/ NothingToSave(s) \/ OpenFileCache(s) \/ SaveFileCache(s)

Next ==
  \E s \in Scans : \/ \E declared \in Manifests : Start(s, declared)
                   \/ Step(s) \/ Dies(s)
                   \/ \E j \in Jobs(s) : LookupFails(s, j)

\* A request has a time-out and an executor runs its jobs: a scan goes on.
Fairness == \A s \in Scans : WF_vars(Step(s))

Spec == Init /\ [][Next]_vars /\ Fairness

-----------------------------------------------------------------------------
Outcomes == {"none", "skipped", "unsolvable", "raises", "resolved"}

\* Every variable has its type.
TypeOK ==
  /\ pc \in [Scans -> {"off", "import", "prefetch", "enrich", "solve", "exit", "save"}]
  /\ manifest \in [Scans -> Manifests \cup {<<>>}]
  /\ cache \in [Scans -> Answers] /\ dirty \in [Scans -> BOOLEAN]
  /\ DOMAIN job = Scans /\ DOMAIN status = Scans
  /\ \A s \in Scans :
       /\ job[s] \in [Jobs(s) -> {"idle", "queued", "looking", "done"}]
       /\ status[s] \in [Jobs(s) -> {"unread", "ok", "not_found", "failed"}]
  /\ outcome \in [Scans -> Outcomes]
  /\ file \in NoContent \cup Answers /\ clash \in BOOLEAN
  /\ failed \subseteq Packages /\ starts \in Nat /\ faults \in Nat

\* What holds of an answer wherever it is kept.
Genuine(answers) ==
  \A p \in Packages :
    \/ answers[p] \in {Unknown, Published[p]}
    \/ answers[p] = None /\ p \in failed

\* An answer is the registry's; "no such package" is that too or goes back to a
\* lookup that failed, in this scan or in an earlier one that saved it.
\* (_get, _load_file_cache, _save_file_cache)
AnswersAreGenuine ==
  /\ \A s \in Scans : Genuine(cache[s])
  /\ file \notin NoContent => Genuine(file)

\* No published version satisfies all that the manifest asks of a package.
NoVersionFits(s, p) ==
  \A v \in Published[p] : \E j \in Jobs(s) :
    /\ NameOf(s, j) = p
    /\ manifest[s][j].spec \notin {AnyVersion, Malformed}
    /\ ~ InRange(v, manifest[s][j].spec)

\* "Dependency constraints are unsolvable", a critical finding, is said only of
\* constraints that are: a failed lookup, which the solver takes for a package
\* without versions, never leads to it.  (DepUpgradePathRule.evaluate)
UnsolvableIsGenuine ==
  \A s \in Scans : outcome[s] = "unsolvable" =>
    \E j \in Jobs(s) :
      Published[NameOf(s, j)] # None /\ NoVersionFits(s, NameOf(s, j))

\* What the manifest asks of a package.
Declared(s, p) == {manifest[s][j].spec : j \in {j \in Jobs(s) : NameOf(s, j) = p}}

\* The version recommended for a package is one the registry has, it satisfies
\* every declared specifier, and no newer stable version does.
RecommendationIsNewest ==
  \A s \in Scans : outcome[s] = "resolved" =>
    \A j \in Jobs(s) : status[s][j] = "ok" =>
      LET p == NameOf(s, j)
          pin == PinOf(SolverInput(s), VersionsSeen(s), p)
          fitting == {v \in Published[p] : \A r \in Declared(s, p) : IsSatisfiedBy(r, v)}
      IN  pin \in fitting /\ \A v \in fitting \ Prereleases : v <= pin

\* resolve_dependencies raises, and the rule with it, for one of two reasons: a
\* specifier that cannot be parsed, or two specifiers of a package of which one
\* names a pre-release and the other does not, if the newest version that both span
\* is a pre-release.  find_matches offers it and is_satisfied_by refuses it; failed
\* lookups and constraints without a solution do not raise.
RaisingIsExplained ==
  \A s \in Scans : outcome[s] = "raises" =>
    \E j \in Jobs(s) : status[s][j] = "ok" /\
      LET p == NameOf(s, j)
          specs == Declared(s, p)
          spanned == {v \in Published[p] : \A r \in Parsed(specs) : v \in r.span}
      IN  \/ Malformed \in specs
          \/ /\ \E r, q \in Parsed(specs) : r.pre /\ ~ q.pre
             /\ \E v \in spanned \cap Prereleases : \A w \in spanned : w <= v

\* A scan that was started ends: the pool is never left waiting for a job.
ScansEnd == \A s \in Scans : []<>(pc[s] = "off")

\* To a scan, prefetching is one reading of the registry (RegistrySnapshot).
ViewOf(s) ==
  IF pc[s] \in {"enrich", "solve", "exit", "save"}
  THEN [p \in {NameOf(s, j) : j \in Jobs(s)} |-> cache[s][p]]
  ELSE Unknown
Snapshot == INSTANCE RegistrySnapshot WITH view <- [s \in Scans |-> ViewOf(s)]
SnapshotSpec == Snapshot!Spec
=============================================================================
