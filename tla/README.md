# Verification of nfr-review

nfr-review is a static reviewer of non-functional requirements. Collectors read a
repository and produce evidence, rules judge the evidence and produce findings, and
the findings are written, compared with a baseline, or filed as GitHub issues. A
second program, `nfr-review monitor`, receives production traces and raises an alert
when it sees an interaction that the UAT baseline lacks.

This directory holds the TLA+ specifications of that code. Every definition is
translated from `src/nfr_review/`; `PROJECT.json` maps each definition to its lines.

    tlc -workers 2 -config EngineScan.cfg MCEngine     # model-check a run
    tlapm EngineProofs.tla                                 # check the proofs

## 1. The system

| Component | State it keeps | Operations | Interacts with |
|---|---|---|---|
| Scan engine (`engine.py`) | evidence, warnings, succeeded collectors; one result per rule, rules run, findings; pool futures and their slots | `run`: collect in line or in a `ThreadPoolExecutor`, merge, judge | calls collectors and rules (registry); returns a `RunResult` to the CLI |
| Production monitor (`monitor/engine.py`, `window.py`, `receiver.py`) | window of spans, seen hashes, counters, shutdown event, open handlers | `POST /v1/traces`, timer flush, final flush, alerts, shutdown, cleanup | exporters over HTTP; alert file or stdout; baseline file |
| Fingerprints and baseline diff (`monitor/fingerprint.py`, `baseline.py`, `diff.py`) | none (baseline file) | extract, compare, bootstrap | the monitor and `monitor baseline` |
| Issue sync (`issues.py`) | none of its own: the repository's issues are its state | list, update, look at a closed issue, create, close resolved | the `gh` CLI, one subprocess per command; people who touch issues |
| Baseline, suppression, run pipeline, design change (`baseline.py`, `suppression.py`, `output/jsonl.py`, `cli.py`) | the JSONL file of a run, which a later run reads as its baseline; the structural snapshot | load, filter, classify, suppress, compare and replace the snapshot, write, exit code | engine, outputs, the next run |
| deps.dev client, dependency solver (`deps_dev_client.py`, `dep_solver.py`) | a cache shared by threads and kept in a file shared by processes | prefetch, get, load, save; resolve | collectors, the dependency rules, the registry |
| OTel collector lifecycle (`collector_manager.py`, `collectors/otel_trace.py`) | a subprocess, a temporary file, the spans it collected | start, stop, kill, clean up; read | wraps a scan |
| Rules about workloads, images and the mesh (29 rules and their 4 collectors) | none: functions of the repository | judge; an all-clear where there is no hit | the team that edits the repository and follows recommendations; the pipeline |
| Graphify MCP client (`mcp_client.py`), LLM client (`llm_client.py`) | a JSON-RPC subprocess; a chosen backend | call, restart, fall back; retry with back-off | reports |
| Registries, configuration, detection, scoring, compliance, architecture and Structurizr reports, output writers, the other collectors and rules | tables, or nothing | pure functions of files and findings | one process, in sequence |

What is hard in it: threads that finish in any order and fail (engine, cache), handlers
that are suspended while the window is flushed or the loop has ended (monitor), a store
that is read once and written one failing command at a time while other people change it
(issue sync), files of one run that decide what the next one reports, and a run that dies
between two of them (pipeline, cache), a subprocess that hangs or outlives its program
(collector lifecycle), and rules that judge the same few fields, each by itself, with
keys that do not tell a hit from an all-clear (rules). `PROJECT.json`, "hazards", lists
these by line with the property that covers each, or the reason why none does.

What makes the components correct, and where it is stated:

- Engine: the thread pool is invisible. A scan is what running the plugins one after
  the other would give; a rule never sees partial evidence; every rule is accounted for;
  no thread outlives the scan; the scan ends. (`Engine`, `ScanContract`)
- Monitor: spans are conserved; the window is bounded; deduplication neither repeats nor
  hides; an alert is about something real, and what is sent together is not torn apart; nothing acknowledged is left behind at shutdown;
  to a reader of the alerts, clients, counters and evictions are invisible.
  (`Monitor`, `AlertStream`)
- Issue sync: at most one open issue per finding; people's decisions stand; an undisturbed
  run settles the repository and a second one writes nothing; damage heals; what the tool
  opens, rewrites and closes, it does for the findings it was given, whatever fails.
  (`IssueSync`, `IssueTracker`)
- Pipeline: no chain of runs and baselines silences a finding that nothing like was ever
  recorded for; known debt is not new again; a fix is listed, and nothing is listed that
  is unchanged; a design change is reported once. (`RunPipeline`)
- deps.dev cache: what is cached is the registry's answer or the trace of a failure; a
  failure never leads to a wrong verdict on the constraints, nor does the solver raise
  without cause; to a scan, its threads and
  rounds of lookups are one reading of the registry. (`DepsDev`, `RegistrySnapshot`)
- Collector lifecycle: no subprocess outlives its run, but that of a program that was killed
  or one that SIGKILL takes too long to end, and no temporary file, but one that `stop`
  cannot read; a scan sees no span of another; every run ends. (`TraceCollector`)
- Rules: a pull request scan is silent about a hit only if it was known; the
  recommendations agree with each other and can be satisfied. (`WorkloadReview`)

## 2. The modules

| Module | What it is |
|---|---|
| `EngineBase` | constants of a scan, the ways a plugin call ends, the four gates of a rule |
| `ScanContract` | abstract specification: collect one by one, judge one by one |
| `Engine` | `Engine.run` with one worker or a thread pool; implements `ScanContract` |
| `Fingerprint` | `extract_fingerprints`, a pure operator on a window |
| `AlertStream` | abstract specification: what a reader of the alerts is promised |
| `Monitor` | receiver, window, loop, alerts, shutdown; implements `AlertStream`; uses `Fingerprint` |
| `IssueTracker` | abstract specification: what the owner of a repository's issues is promised |
| `IssueSync` | successive `issues sync` runs against one repository; implements `IssueTracker` |
| `Baseline` | keys, suppression, `filter_new_findings`, `classify_findings`: pure operators |
| `RunPipeline` | successive `run` commands on a repository that changes; uses `Baseline` |
| `DepSolver` | what resolvelib gives for declared dependencies: pure operators |
| `RegistrySnapshot` | abstract specification: one reading of the registry per scan |
| `DepsDev` | threads and processes that share the lookup cache; implements `RegistrySnapshot`; uses `DepSolver` |
| `TraceCollector` | runs with `--collector`: program, child, file, pipes |
| `K8sRules` | the rules about single workloads: pure operators |
| `DeliveryRules` | the rules that relate workloads, images, documents and the mesh, and all findings |
| `WorkloadReview` | a team that edits, scans and follows advice; composes the rules with `Baseline` |
| `MC...` | the constants of the runs |
| `...Proofs` | theorems about the module they are named after |

Operators commented "mutant" are not part of any specification. Each is a plausible bug
in the definition it is named after, kept to show that a property would notice it.

### Engine

A collector or a rule is its position in the registry, since `Engine.run` iterates in
that order. A plugin call is the way it ends (`Outcome`): "ok" with a number of items,
"raised", "skipped" (rules), or "malformed", which is a value that makes the *consuming*
code raise outside the `try` around the call. Item contents are abstracted to the plugin
that produced them: no property of the engine tells two items of one plugin apart.

`phase` is where the main thread is. The initial states choose the number of `workers`.
With one the main thread runs `CollectHere` per
collector (`_collect_sequential`). Otherwise (`_collect_parallel`) pool threads take
futures in submission order (`Start`), each call ends (`Return`), the main thread stores
what `as_completed` yields (`Store`), leaves the executor when every future is done
(`BeginMerge`, or `AbortWhenDrained` if one of them raised), and merges the slots
(`MergeNext`). `GateRule`, `Evaluate` and `Finish` are `_run_rules_phase`. An exception
that leaves `run` discards its local lists (`Abort`).

`future` keeps what each call returned, also with one worker, where the code holds it in
a local variable; the properties compare against it.

### Monitor

All of the monitor runs on one event loop, so an action is the code between two awaits.
A handler is a client's connection: `Post` opens it and counts the request, then it waits
for the body; `HandleBody` is everything after `await request.read()`, which has no
further await, and `BodyLost` is a read that raises. `conn[r]` is "reading" while the
handler is suspended, then what the client was answered, or "lost"; a client posts again
after 429 or no answer. `WindowElapses` is the timer of `_window_loop`, `LoopEnds` its
wake-up by the shutdown event with the last flush, `CleanupEnds` the return of
`runner.cleanup()`, which lets handlers in progress finish or cancels them.

`FlushAndEmit` is `WindowManager.flush` with `_emit_alerts`: comparison, eviction of the
seen set at its cap, deduplication, and writing, which may raise after any part of the
lines. Which part is a set here (the code iterates over a list in an order of its own).
A fingerprint is identified with its hash, an alert with its fingerprint.

The variables `flushed`, `compared`, `epoch` and `late` are history for the properties.

`AlertStream` keeps the loop, the window and the lines and has four steps: take in a batch,
compare all that has come, close, stop. A comparison may tell of anything novel and must
tell of what was never told of, unless a write fails; so it allows the repetitions after
an eviction and what `deduplicate: false` does, and no omission.

Not in the model: timestamps, `total_flushes`, `alerts_emitted`, the read-only probes and
`/statsz`, and `should_flush` and `reset_seen`, which the engine never calls. aiohttp is
external: after the loop ended it accepts no new request.

### Issue sync

The repository is the sequence `issues`, oldest first; an issue's number is its position.
A finding is its dedup key and the body that `generate_issue_body` makes of it, so a
scan is a function from keys to bodies. Thresholds are applied before: only findings that
pass them appear.

A run is one action per `gh` command: `ListIssues`, then per finding, in any order,
`Update`, `CheckClosed` or `Create` (a tool-closed issue leads from `CheckClosed` to
`Create`, the fall-through in `sync_issues`), then `Close` per resolved issue. The
decisions use `fetched`, what the list returned, while `issues` may have moved on. A
command in `Unreliable` may fail; writing commands may have taken effect nevertheless
(a time-out), and `gh issue close --comment` may stop between the comment and the closing.
"run" in `Unreliable` is the death of the process, which is also what the uncaught
`TimeoutExpired` of list and view amounts to.

`clean` and `misread` are history: whether this run was disturbed (a failure, a touch, a
list that was cut), and whether any list so far failed or was cut at `FetchLimit`. Not in the model: the dry run, which writes nothing;
labels; the report; the older `file_issues`, which only creates; two runs at a time.

`IssueTracker` keeps the issues, the findings of the run under way and `misread`; it has no
list, phases, cap or failures. It allows to open an issue (for a given finding, beside none
of the tool's own and not against people's decision), to rewrite one to what its finding
says, and to mark or close one whose finding was not given. Only opening may go wrong, and
only after an incomplete list.

### Run pipeline

One state machine for successive `nfr-review run` commands and the edits between them. A
defect is a flaw in the code with one finding; a group stands for what all keys of a
finding share (rule, file, pattern tag), and its line and content hash are what the two
kinds of keys add. `Scan` is the engine's result after `_apply_suppressions`, with rules
that were skipped and an extractor that failed; `FilterBaseline`, `DesignChange`,
`WriteCsv`, `WriteJsonl` and `Finish` are the steps of `run_cmd` in their order. A run
may die between any two, a baseline may be missing or torn (`BaselineUnreadable`), a
write may stop after any part of its records (`Beginnings`) or in the middle of one.
Command lines are records: which baseline, which output, what the framework and origin
filters let through, whether the design is compared. `ResolvedKeys` is a set of possible
results, since the code iterates over sets. `history`, `told` and `muted` are history for
the properties. Not in the model: other output formats, all metrics but one, the score
(see 6), and what `apply_thresholds` does with metrics that are no numbers.

### deps.dev cache and solver

Each scan loads the cache file at import (`LoadFileCache`), warms its cache with a pool
of threads (`BeginJob`, `Answered`, `LookupFails`), reads every answer in the collector
(`Enrich`) and once more in the rule (`EvaluateUpgradePath`), and writes the file at exit,
which is two steps: it is truncated when it is opened (`OpenFileCache`) and complete when
it is closed (`SaveFileCache`). Two scans may write at a time, and one may be killed in
between; a file cut short is gzip data without an end, which the code does not survive.
`DepSolver` says what resolvelib does without transitive dependencies, which is how the
rule calls it; its search is external. The lookups of single versions are left out.

### Collector lifecycle

The program is `_run_nfr_scan` with `CollectorManager`; the child is external, modelled
from what the program relies on: it buffers spans, writes them to the file, logs into
pipes that nobody reads and hangs when these are full, and cannot start while another one
has the port. `WaitTimesOut` leads from SIGTERM to SIGKILL, `StopRaises` is the second
wait that times out too. `evidence` is what the otel-trace collector read during the scan.

Once the child has ended, `stop` counts the lines of the file for its log (`CountLines`),
and this may fail. A child that dies at the wrong moment leaves the file cut within a
character (`cut`), which the decoding of `stop` refuses (`CutFileRaises`), or the operating
system may refuse the file (`UnreadableFileRaises`). These exceptions, like that of
`StopRaises`, leave the `finally` clause before `cleanup` and end the program with a
traceback; the scan is done, but its findings are not written.

### Rules

`K8sRules` and `DeliveryRules` translate 29 rules with what they read of manifests,
Dockerfiles, mesh files and the documents at the root. A finding is its rule, its
place (evidence locator) and its colour. `ContainerFails` and `WorkloadFails` are the
`check` methods, `Judged` is `FieldRule.evaluate` with its all-clear; the rules with an
`evaluate` of their own have an operator each. A file is a value with the fields that
rules look at; a file that is no YAML is passed over by its collector (`Collected`).
`Followed` is what a team makes of a recommendation: every way of doing what its text
asks for, in the fields that the rules read. It is the one part that is not code, and the
map marks it external. `WorkloadReview` adds the team, the nightly scan that records all
findings, and `Reported`, what a scan of a pull request says, with the operators of
`Baseline`. `Provokes` lists which rule's advice may bring hits of which other rule, and
`TakeSeveralSteps` the rules whose hit may outlast one act of following it.

The engine skips a rule whose `required_tech` the configuration does not have
(`engine.py:257-260`), and `detect.py` fills in what the configuration leaves open. The
model is of repositories that declare `kubernetes`, `dockerfile` and `istio`, so that all
29 rules run on every scan. Where that is left to detection, fewer rules may run, and
advice that adds a file of a technology for the first time may turn rules on: their hits
are then new, which `Provokes` does not list.

## 3. What the runs check

| Run | Bounds | What it shows |
|---|---|---|
| `engine_scan` | 4 collectors, 4 rules, 1 or 2 threads, calls of 0 or 1 item | `CollectionIsDeterministic`, `NoRuleOnFailedCollector`, `AccountingComplete`, `PoolDrained`, `ScanAdvances`, `Terminates`, and that `Engine` implements `ScanContract` |
| `engine_never_aborts` | | violated: see 6 |
| `monitor_alerts` | 4 clients, 4 requests, 4 spans, limit 2, seen cap 1 | `SpansConserved`, `RequestsAccounted`, `QueueBounded`, `AtMostOncePerEpoch`, `NothingSuppressed`, `AlertsAreReal`, `StopsClean`, `WindowIsFlushed`, `ShutdownEnds`, and that `Monitor` implements `AlertStream` |
| `monitor_final_flush` | the same | violated: see 6 |
| `issues_runs` | 2 findings, 2 bodies, cap 1, one failure, two code changes, one touch | `OneOpenPerKey`, `NewIssueJustified`, `RunSettles`, `RunIsIdempotent`, `Settles`, and that `IssueSync` implements `IssueTracker` |
| `issues_duplicates`, `issues_test_manual` | 1 finding | violated: see 6 |
| `pipeline_runs` | 4 defects of one group, 2 lines, 2 files, 4 command lines, 3 runs, 3 edits, one fault | `SilenceIsJustified`, `KnownDebtIsNotNew`, `FixesAreReported`, `ResolvedIsGone`, `DriftIsReported` |
| `pipeline_resolved` | the same without faults | violated: see 6 |
| `deps_cache` | 2 scans at a time, 3 starts, 2 packages, 3 versions, 2 threads, one fault | `AnswersAreGenuine`, `UnsolvableIsGenuine`, `RecommendationIsNewest`, `RaisingIsExplained`, `ScansEnd`, and that `DepsDev` implements `RegistrySnapshot` |
| `collector_runs` | 2 runs, 2 spans, pipes of 2 log writes, 2 faults | `NothingLeftBehind`, `EvidenceIsOwn`, `RunsEnd` |
| `workload_review` | 2 workloads, 1 Dockerfile, 2 mesh files, 1 document, 9 drafts, 2 edits | `OnlyKnownHitsAreSilent`, `AdviceIsSound`, `AdviceSettles` |

Why the bounds are enough for what is asked:

- Engine: with two threads and four collectors one call can be overtaken by two others,
  a third is still queued while one fails, and a thread is reused. The four rules go each
  through another gate: two required collectors, a required technology, `rules.skip`, a
  collector that is not active. More collectors repeat these situations, and the theorems
  cover any number. Calls of 0 or 1 item tell an empty result from evidence.
- Monitor: the trace has a parent and child in two services, posted by two exporters, so
  a window boundary can fall between them, and a second child that is posted along with the
  parent, before it; the first child is posted twice, by a retry and by a third exporter;
  batches of two spans overshoot the limit of 2; a seen cap of 1 is reached by the first
  alert, so evictions happen; two edges are in the baseline. Four
  requests allow three batches and a retry, or a refusal and its retry.
- Issue sync: a cap of 1 with two findings holds one back; two code changes let a
  finding resolve and return; one failure at any command, or one death, is enough to
  leave each intermediate state for the next run; one touch closes or reopens any issue
  at any point of a run. Runs are unlimited in number. `FetchLimit` is 9, more than the
  issues that these bounds can produce, so `misread` here means that a list failed. The
  same properties also hold with two touches, and the safety properties with two
  failures, and with a `FetchLimit` of 2 and three code changes (up to six million
  states, not kept as runs). `Settles` does not hold when lists are cut, see 6.
- Pipeline: the four defects are two of one text, one without a hash and one without a
  line, all of one group, so that each kind of key can be mistaken for each other. Three
  runs are a nightly scan, a pull request against it, and a run whose baseline is the
  output of that one. Thresholds of 60 and 50 percent on metrics up to 2 give a change
  that is below the threshold (none), above one of them or above both, and an extractor
  that fails. One fault is a skipped rule, a failed extractor or a death at any step.
- Cache: one package has a stable range and a newer pre-release, the other is unknown to
  the registry; the manifests name a package twice, ask for the impossible, need the
  pre-release, need it in one place and not in another, or use a specifier that does not
  parse. Three starts let two scans overlap
  and a third read what they left.
- Collector: two runs are what it takes for a leftover child to hold the port and for a
  file to be read by another run; two faults let a program die and the next one's child
  crash; pipes of two writes fill before or during termination.
- Rules: each draft has a few flaws that interact (a bare service that calls a store of
  a lower ring in the same pool, an agent that runs as root, a Dockerfile that ends in
  the image of the service with another tag, a mesh file with and without STRICT). Two
  edits give a scan before, between and after them, and recommendations are followed
  without bound. No draft lacks resource limits, whose rule meets no other; the theorems
  cover it. `Tcp` is the only probe a team writes when it is asked for one: it is the
  one that other rules object to.

`CHECK_DEADLOCK FALSE` stands where the program stops: a scan that is done, a monitor
that is stopped, runs that are used up, a repository that nobody edits any more.
`IssueSync` never stops: there is always a next run.

### Fairness

- Engine: the main thread and each pool thread keep running (weak fairness of
  `MainThread` and of each `Worker`), which is the operating system's scheduling. It
  includes that a plugin call returns; the engine sets no time-out, so a collector that
  hangs hangs the scan, and `Terminates` says nothing about it.
- Monitor: the timer runs out, the shutdown event wakes the loop, and `runner.cleanup()`
  returns (aiohttp bounds it by its own time-out). Nothing is assumed of clients or of
  the operator: no fairness for posts, bodies or the shutdown request.
- Issue sync: weak fairness of `SyncStep`: runs are scheduled again and a run under way
  goes on. Failures, code changes and touches are bounded and never forced.
- Pipeline: none, and no liveness is claimed.
- Cache: weak fairness of each scan's `Step`. A request has a time-out of its own
  (`deps_dev_client.py`), an executor runs its jobs; failures and deaths are never forced.
- Collector: weak fairness of `Program`, whose waits have time-outs, and of `Killed`,
  which is the kernel's delivery of SIGKILL. Nothing is assumed of the child: it need not
  heed SIGTERM, and `RunsEnd` holds all the same.
- Rules: weak fairness of `FollowSomeAdvice`. This is no promise of the code but the
  subject of the property: what happens *if* a team goes on following advice, choosing
  freely among the recommendations and the ways to follow each. Edits are bounded, for a
  team that keeps writing new flaws never settles.

## 4. What is proved

`EngineProofs`, for any registry, configuration, number of items and of workers:

| Theorem | Statement |
|---|---|
| `TypeCorrect` | `Spec => []TypeOK` |
| `Drained` | `Spec => []PoolDrained` |
| `RulesRunOnFullEvidence` | `Spec => []NoRuleOnFailedCollector` |
| `EveryRuleAccounted` | `Spec => []AccountingComplete` |
| `CollectionDeterministic` | `Spec => []CollectionIsDeterministic` |
| `EngineImplementsContract` | `Spec => ContractSpec` |
| `EveryStepAdvances` | `Spec => ScanAdvances` |

`TypeOK` is not inductive: the range of `next` depends on the loop the main thread is in
(`NextInRange`). A filled slot must hold what its collector returned, with a kind that can
be merged (`SlotsHonest`), and every slot is filled when the merge begins (`SlotsFilled`).
A collector in `succeeded` has had its turn and returned (`SucceededAreOk`), and rules are
judged on `succeeded` (`JudgedOnSucceeded`). The accounting invariant adds that the results
recorded so far are those of the rules before `next`.

`ScanAdvances` is the half of termination that is not about scheduling: the work left (calls
not begun or not returned, slots not stored, turns of the loops) is a natural number that
*every* step lessens. What TLC adds in `Terminates` is that some step is taken, and that
no state without one is short of the end.

`CollectionIsDeterministic` compares the lists with `Gathered`, which is computed by
recursion over the registry. Its invariant (`OneByOne`) carries the table of `Gathered` up
to where the loop has come: there is a function `g` with the entries that the recursion
asks for, and its last entry is what the lists hold. A turn of either loop extends it by
one entry (`OneMore`), any other step leaves its outcomes alone (`SamePrefix`). When the
loop is done the table is whole, so the recursion has a solution, and it has only one: two
tables would differ at some first entry (`OneTable`, by well-foundedness of `<` in place of
an induction theorem). Hence the table is `Gathered` (`GatheredIs`).

The refinement is proved step by
step: until the merge, thread steps are stutters; each `CollectHere` and `MergeNext` is a
`Collect`, each abort a `CollectAborts` or `RuleAborts`. Assumptions: `EngineAssumption`
and `WorkersAssumption`, that the numbers are natural, `MaxWorkers` is positive (the code
takes `max(1, workers)`) and required collectors are collectors.

`MonitorProofs`, for any clients, bodies, limits and baseline:

| Theorem | Statement |
|---|---|
| `TypeCorrect` | `Spec => []TypeOK` |
| `Conservation` | `Spec => []SpansConserved` |
| `EveryRequestCounted` | `Spec => []RequestsAccounted` |
| `BoundedWindow` | `Spec => []QueueBounded` |
| `AlertOnce` | `Spec => []AtMostOncePerEpoch` |
| `DedupHidesNothing` | `Spec => []NothingSuppressed` |
| `AlertsReal` | `Spec => []AlertsAreReal` |
| `CleanStop` | `Spec => []StopsClean` |
| `ImplementsAlertStream` | `Spec => StreamSpec` |
| `ExtractionIgnoresOrder` | windows with the same set of spans show the same interactions |
| `WindowCut` | what a cut between two windows loses and adds |

The counting properties are inductive with the types. Deduplication needs `DedupInv`:
while the loop runs, the seen set is *exactly* what was reported since the last eviction.
One inclusion gives "at most once"; the other gives "hides nothing", since a suppressed
hash must have a line. A write that raises breaks the equality, and the proof
needs that the loop ends with it. `StopsClean` needs `LateInv`: after the loop, a handler
that still reads is one that was reading when it ended. `ExtractReal` is the lemma on
fingerprints: in any window that is made of whole batches (`HoldsBatches`, which a batch
taken in at the limit must not break), what is extracted is real. A span that is taken for
a leaf call was sent without its caller, for a caller in its batch would be in the window,
and in the index unless another span has its id (`LeafSentApart`). The refinement maps
an accepted batch to `Take`, a flush to one `Compare` whatever its writes came to, and
everything about clients and counters to stutters. It rests on `DedupInv` once more: what
was never told of is not in the seen set, before and after an eviction. The two theorems on
extraction rest on `ExtractionOfSet`: the index, which keeps the last span of an id, finds
every parent when an id names one span, so that extraction is a function of the set of
spans. Order and repeats in one window then do not matter. The cut of a trace by a flush
does: it loses only calls whose two spans it separates, and turns only such a call's own
span into a leaf call (section 6). Assumption:
`MonitorAssumption`, that clients are finitely many, limits natural, `deduplicate` Boolean
and each body of one of four kinds.

`IssueSyncProofs`, for any findings, bodies, cap, list limit and set of unreliable
commands:

| Theorem | Statement |
|---|---|
| `TypeCorrect` | `Spec => []TypeOK` |
| `NoDuplicates` | `Spec => []OneOpenPerKey` |
| `NewIssuesJustified` | `Spec => NewIssueJustified` |
| `RunsSettle` | `Spec => []RunSettles` |
| `RunsIdempotent` | `Spec => []RunIsIdempotent` |
| `ImplementsTracker` | `Spec => TrackerSpec` |

The argument is about a list that was read once. While findings are filed (`ListFaithful`),
what is open by the tool's hand was listed as open, because in this phase only people
open or close; and what was not listed was created by this run, for findings it has
handled. So when `Create` is reached for a finding, no issue of it is open by the tool's
hand, and either none exists or `CheckClosed` has seen the mark on one
(`RecreatingJustified`; the mark is never taken off). Every other step is of one kind
(`Kept`: each issue keeps its number, key and mark), which each part of the invariant
survives. A cut or failed list breaks `ListFaithful`, which is why the properties are
conditional on `misread`.

The last two are about one run that nothing disturbs (`clean`), so they need no
`misread`: a clean run has listed everything. `SettlingInv` says how far such a run has come:
which listed issues are still as they were, that all others are its own and show their
finding, what is handled, what is closed. That a run writes nothing then follows, since each
of its commands needs an issue that is not in place (`NothingToDo`).

The refinement maps a `gh` command that took effect to the step that its effect is, and all
else to stutters. `Create` is an `Open` by the argument above. For a `Close`, which works
from an old list, `TrackInv` says what is still true of it, complete or not: an issue that
was listed is still there under its key (`StillThere`), and what is left to close are issues
whose finding is gone (`OnlyGone`). Hence no list, however stale or cut, makes the tool
close the issue of a finding it was given.
Assumption: `IssueSyncAssumption`, that the bounds are natural
and `Unreliable` is a set of the commands.

`RunPipelineProofs`, for any defects, groups, hashes, files, command lines, thresholds and
number of runs, edits and failures:

| Theorem | Statement |
|---|---|
| `TypeCorrect` | `Spec => []TypeOK` |
| `SilenceJustified` | `Spec => []SilenceIsJustified` |
| `KnownDebtStaysKnown` | `Spec => []KnownDebtIsNotNew` |
| `FixesReported` | `Spec => []FixesAreReported` |
| `ResolvedGone` | `Spec => []ResolvedIsGone` |
| `RescanIsQuiet` | `Spec => [](SelfComparison => reported = {} /\ resolved = {})` |
| `DriftReported` | `Spec => []DriftIsReported` |

The silence of a chain of runs needs that every record of every file, torn ones and those
of resolved findings included, goes back to a finding that some output recorded: a resolved
record keeps the group and line of a key but loses the hash (`SilenceInv`). The
next three follow from the comparison itself, once it is shown that the baseline is not
overwritten between the comparison and the write. The two directions of "resolved" meet in
`RescanIsQuiet`: a run that finds exactly what its baseline records (`SelfComparison`: group,
hash and line) reports nothing and resolves nothing, whatever runs wrote that file. For the drift the invariant says where
the snapshot stands relative to the last output: it is the metric that was told, or a
later one only while the run that replaced it is still on its way to its output or has
died on it (`muted`). Assumptions: `BaselineAssumption`, `RunPipelineAssumption`.

`DepsDevProofs`, for any scans, packages, registry, manifests, number of threads and
failures:

| Theorem | Statement |
|---|---|
| `TypeCorrect` | `Spec => []TypeOK` |
| `GenuineAnswers` | `Spec => []AnswersAreGenuine` |
| `GenuinelyUnsolvable` | `Spec => []UnsolvableIsGenuine` |
| `RecommendationsNewest` | `Spec => []RecommendationIsNewest` |
| `RaisingExplained` | `Spec => []RaisingIsExplained` |
| `ImplementsSnapshot` | `Spec => SnapshotSpec` |

Answers stay genuine through file, cache and overlapping writers by induction over the
steps. For the verdict, a dependency of status "ok" was read from a cache that still holds
its answer, and by the first theorem that answer is the registry's; the rest is a lemma on
`FindMatches`. The recommendation needs in addition that the collector has read every
answer before the rule solves (`AllRead`), so that no declaration of a package is left out, and
that finitely many versions have a greatest one (`Greatest`: one with the fewest above it).
From the same facts follows when the solver raises (`RefusedPin`): a version that
`find_matches` offers, and a specifier it could parse refuses, is a pre-release that another
specifier names.
The refinement maps prefetching to stutters and `Prefetched` to the
reading, and shows that every package of the manifest is then in the cache and stays as it
is. Assumptions: `DepSolverAssumption` (versions are finitely many), `DepsDevAssumption`.

`TraceCollectorProofs`, for any number of runs, spans, log writes and failures:

| Theorem | Statement |
|---|---|
| `TypeCorrect` | `Spec => []TypeOK` |
| `CleanedUp` | `Spec => []NothingLeftBehind` |
| `OwnEvidence` | `Spec => []EvidenceIsOwn` |

The invariant ties the phase to the child and the file of the run under way. A run ends by
itself through `Cleanup` or through one of the exceptions of `stop`; each of those leaves a
mark (`cut`, `unreadable`, `abandoned`), and `NothingLeftBehind` names exactly these. A cut
file stays cut, because only a dead child has one. That no scan
reads another's spans rests on the file's name being new and on a span reaching only the
file of the child it was sent to, which is the child of an earlier run if the port was
taken. Assumption: `TraceCollectorAssumption`.

`DeliveryRulesProofs` and `WorkloadReviewProofs`, for any workloads, files, labels, drafts
and number of edits:

| Theorem | Statement |
|---|---|
| `FindingsGood` (lemma) | a finding has its type and one of the shapes below; a hit stands at something that is there |
| `FollowedTyped` (lemma) | following a recommendation leaves a repository |
| `TypeCorrect` | `Spec => []TypeOK` |
| `SilenceHasReason` | `Spec => []OnlyKnownHitsAreSilent` |
| `AdviceSound` | `Spec => AdviceIsSound` |
| `AdviceLeadsNowhereBack` | `Spec => AdviceGoesDown` |

A comparison by keys can confuse two findings of one rule and place. The shapes
(`Shaped`) say when these differ in colour: only seven rules put an all-clear where a
hit would stand, and only one has both amber and red hits. The inductive invariant is the
type with the shapes of what the nightly scan recorded. Well-foundedness of the order in
which files are read is needed to know that `First` is one of them.

`AdviceSound` needs the types only, and the 29 rules one by one. `HitsAre` says what makes
a hit of each rule, without the all-clears. `ReplacedWorkload`, `ReplacedContainer`,
`ReplacedDockerfile`, `ReplacedMesh` and `ReplacedResource` say which hits an edit of one
thing can bring, from the fields that differ. One lemma for each kind of hit then follows
its recommendation. `AdviceGoesDown` ranks the rules and says of every step that follows
advice, in any repository: it brings no hit of a rule that ranks as high as its own, and
takes its own hit away unless that rule takes several steps; the one exception are hits
of the rule itself that move to another place (a shared pool, a lower ring, a root user).
Counted from the highest rank down, hits become fewer, so that no two rules contradict each
other by whatever way round. It follows from the case analysis of the rules behind
`AdviceSound` and from `ProvokesGoesDown`: the pairs met there respect the ranking.
That the moves end too is `AdviceSettles`, which is liveness and only checked. Assumptions:
`K8sRulesAssumption`, `DeliveryRulesAssumption`, `WorkloadReviewAssumption`, that names of
files, workloads and containers differ from the fixed locators, and that what stands for
"absent" is no value.

Only model-checked: liveness (`Terminates`, `WindowIsFlushed`, `ShutdownEnds`, `Settles`,
`ScansEnd`, `RunsEnd`, `AdviceSettles`), which is out of the prover's reach. `TypeOK`
is proved and not run: the proof says more. Every
invariant, action property and refinement that a passing run checks is stated by a theorem.

## 5. Plan

Done: the engine, the monitor, issue sync, the pipeline with baselines and design changes,
the dependency cache and solver, the collector lifecycle, and 29 rules with what follows
from their advice; every property of a passing run that is not liveness is proved. Left,
in this order:

1. `IssueSync` with two runs at a time (nightly and manual), as a second next-state
   relation over the same actions: both see no issue and both create one.
2. More rules over the repository of `DeliveryRules`, those whose recommendations touch
   the same files first: affinity and service accounts, Helm values, Terraform, telemetry.
3. `McpClient` with the retries of `llm_client.py`: restart, handshake, fallback. No
   command uses the client yet.

Bounds: at most two processes, two threads, three keys, one or two failures. Runs and
properties are kept few: one passing run per component, a violation run only where the
documentation or a test says otherwise.

### Not modelled

The parts in the last two rows of section 1, with one reason each in `PROJECT.json`. They
are functions of their input without state between calls (AST collectors and their rules,
scoring, compliance, architecture and Structurizr reports, writers), and a model would
restate them; or no command runs them (MCP client). Of the modelled components the parts
left out are named in section 2. The share of all lines that the map covers is small for
this reason: most of the code is parsing, tables of wording, and reports.

## 6. Where the code and its documentation part

Shown by a run:

- `engine_never_aborts`: the module docstring promises that a misbehaving plugin never
  aborts a run. The `try` covers the call; what consumes its result (the path filter,
  `future.result()`, `result.skipped`) is outside, so a plugin that returns the wrong
  kind of value ends the run with an exception.
- `monitor_final_flush`: the deployment guide says that shutdown flushes the remaining
  spans. A handler that finishes during `runner.cleanup()` puts spans into the window
  after the last flush, answers 200, and they are lost. `StopsClean` says that this is the
  only way.
- `issues_duplicates`: the recipe says an issue is created when a finding has no open one.
  A failing `gh issue list` reads as an empty repository: everything is filed again, and
  the run counts as a first run. Later runs update and close only the oldest duplicate, but
  `Settles` shows that they clear all of them once the finding is gone, one per run.
- `issues_test_manual`: `test_manually_closed_issue_not_recreated`. The oldest closed issue
  of a finding decides, and the tool's comment on it stays: after one tool closing, closing
  a later issue by hand no longer stops the next run from creating another.

- `pipeline_resolved`: the field reference says that a resolved finding was in the
  baseline and is no longer present, so the issue was fixed. A finding that is
  suppressed, or whose text now stands on another line, is listed as resolved while it is
  still there. `FixesAreReported` and `ResolvedIsGone` state what does hold.

Met while modelling, without a run of their own:

- `github-issues.mdx` says that issues closed by hand reopen on the next scan; the code
  skips them, and nothing is ever reopened.
- It says that after the first run only new findings create issues; the second run creates
  everything that the cap held back. If the first run created nothing, the second is a
  first run again.
- It says that the first run creates at most the cap; a create that timed out is not
  counted, although the issue may exist.
- The list is cut at 200 issues of any state. An older open issue is not seen: its finding
  gets a duplicate, and it is never closed. `OneOpenPerKey` and `NewIssueJustified` are
  therefore claimed for complete lists only.
- `monitor-deployment.md` says that an alert means the interaction was never exercised in
  UAT. A CLIENT span whose parent arrives in another window is fingerprinted as a call to
  its own callee, which a baseline of the same traffic does not hold. `AlertsAreReal` states
  what does hold: both ends and the operation are real, and only a span that some exporter
  sends apart from its parent is mistaken in this way; `WindowCut` says that nothing else is
  added or lost.
- Findings have no colour in their keys. A hit at the place of an earlier all-clear is
  "known": removing a disruption budget (PATCH-ARCH-004), STRICT mutual TLS, a dependency
  annotation, weighted routing or connection pools, adding the first workload to a
  repository without rollback documents, and a readiness hit that turns from amber to red
  when its workload is scaled up. A diff-mode run reports none of these and, if nothing
  else is new, exits 0, while `continuous-compliance.md` promises to
  prevent regressions. Conversely, fixing a rule's last hit creates its project-wide
  all-clear, which is new, and the run exits 1 (`cli.py:844`).
- A manifest that cannot be parsed is passed over: its hits vanish without a word, and
  are new when it can be read again.
- The budget rule reads `matchLabels` only. A budget with `matchExpressions` or an empty
  selector never satisfies it; `AdviceSettles` assumes `matchLabels`.
- PATCH-DEPS-002 counts two entries of one workload that name a database host as two
  workloads, and neither documenting nor anti-affinity, which it recommends, clears it.
  Base pinning flags `FROM <earlier stage>` as a floating tag. Two Dockerfiles that end in
  one image with different tags leave image drift nothing to align to, and aligning a
  Dockerfile to a floating tag brings back base pinning. Adding the `USER` that one rule
  asks for may give a red conflict by another (`Provokes` has all such pairs). `Unanswerable` in `WorkloadReview` lists
  the hits that no edit of the files clears.
- Hits in Dockerfiles have line locators and no content hash: any inserted line makes
  them new.
- The docstring of `patch_deps.py` speaks of INFO when no ring labels are found; the code
  emits green.
- `dependencies.md:189` says that freshness rules return no findings if the registry is
  unavailable; when every lookup failed, `dep_freshness.py` says that all dependencies are
  up to date.
- A cache file cut short raises `EOFError` at import, which nothing catches: every later
  run fails until the file is removed. `ImportFails` is that step.
- A NuGet range such as `[1.0,2.0)` becomes a specifier that does not parse; resolvelib's
  `InconsistentCandidate` then leaves `resolve_dependencies`. `DepSolver` calls it "raises".
  The same happens to well-formed manifests that declare a package twice, `>=3.0rc1` and
  `>=1.0` say, while its newest version is a pre-release: `find_matches` joins the specifiers
  and offers it, `is_satisfied_by` asks each of them and refuses it. `RaisingIsExplained`
  says that there is no third reason.
- `dynamic-analysis.md:164-167` says that captured traces go to the rules after the
  collector stops; they are read during the scan, and what the collector writes when it
  stops is deleted.
- `CollectorManager.stop` opens the trace file as strict text to count its lines
  (`collector_manager.py:138`), where the collector that reads it replaces what it cannot
  decode (`otel_trace.py:165`). After a child that died within a character the count raises,
  the temporary file stays, and the results of a scan that had succeeded are lost to a
  number in a log line. `NothingLeftBehind` makes the exception.
- In a diff-mode run design changes are written with `classification: "baseline"`, which
  `finding-fields.mdx:63` defines as suppressed from the exit code, and cause exit code 1.
- The exit-code tables (`cli.mdx:6-14` and others) give 1 for errors only; a diff-mode run
  exits 1 for new findings.
- A run that dies after it saved the snapshot loses the design change for good, and a torn
  snapshot makes every later run with it abort. A torn baseline does the same.
- The output of a diff-mode run holds the new findings only. As a baseline it makes the
  known ones new again; given to `issues sync` it closes their issues; and
  `load_baseline_score` drops records with the key `classification`, so that such a
  baseline scores 100.
- The score of a diff-mode run is that of its new findings, compared with that of the
  whole baseline: the trend is nearly always "improved".
- A finding in a category without a configured weight enters the average and may raise the
  overall score, while `07-scoring.mdx` says that all findings contribute to the six core
  categories.
- The earlier locator of a shifted finding may be that of any legacy key of its group
  (`baseline.py:121-139`), and which line-less keys are resolved depends on the iteration
  order of a set.
