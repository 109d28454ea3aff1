--------------------------- MODULE RunPipeline ---------------------------
(***************************************************************************)
(* `nfr-review run` (run_cmd of src/nfr_review/cli.py) after the engine:   *)
(* suppression, comparison with a baseline, the framework and origin       *)
(* filters, design changes, the output files and the exit code.            *)
(*                                                                         *)
(* Runs follow each other on a repository that is edited in between: the   *)
(* nightly scan writes the file that later runs take as their baseline.  A *)
(* rule may be skipped, a metric extractor may fail, a write may fail and  *)
(* a run may be killed between two steps or in the middle of a write.      *)
(*                                                                         *)
(* A defect is a flaw of the code with one finding.  The CSV file is read  *)
(* by nobody, and of the structural baseline one numeric metric is kept.   *)
(***************************************************************************)
EXTENDS Baseline, FiniteSets

CONSTANTS
  Defects,
  GroupOf, HashOf,  \* of the finding of a defect
  Lineless,         \* defects whose finding has no line
  DesignGroup,      \* the group of design-change findings
  Severe,           \* groups at or above config.severity_threshold
  Paths,            \* where runs write their JSONL
  Options,          \* the command lines in use
  NoFile, NoDefect, \* nothing there
  Threshold,        \* config.design_change.thresholds, in percent
  SeverePercent,    \* a design change of so many percent is severe
  MaxMetric,        \* bound: the metric of the structural baseline
  MaxEdits, MaxRuns, MaxFaults  \* bounds

\* --baseline, --jsonl, what --framework and --origin let through, and
\* --design-baseline-dir.
CommandLine == [baseline : Paths \cup {NoFile}, out : Paths, keep : SUBSET Groups,
                design : BOOLEAN]

Snapshot == [value : Nat, torn : BOOLEAN]

ASSUME RunPipelineAssumption ==
  /\ GroupOf \in [Defects -> Groups \ {DesignGroup}]
  /\ HashOf \in [Defects -> Hashes \cup {NoHash}]
  /\ DesignGroup \in Groups /\ Severe \subseteq Groups
  /\ Lineless \subseteq Defects /\ Options \subseteq CommandLine
  /\ NoFile \notin Paths \cup Snapshot /\ NoDefect \notin Defects /\ Paths # {}
  /\ {Threshold, SeverePercent, MaxMetric, MaxEdits, MaxRuns, MaxFaults} \subseteq Nat

\* A line of the JSONL file.  class: the classification, or "suppressed".
\* defect is not in the file; the properties need it.
Record == [group : Groups, line : Lines \cup {0}, hash : Hashes \cup {NoHash},
           class : {"none", "new", "baseline", "resolved", "suppressed"},
           defect : Defects \cup {NoDefect}]

VARIABLES
  present,     \* defects in the code
  line,        \* where they are
  markers,     \* <<group, line>> with a suppression marker
  metric,      \* the structural metric
  files,       \* [records, torn] or NoFile; torn: ends in half a record
  snapshot,    \* the structural baseline: [value, torn] or NoFile
  phase,       \* "idle", "scanned", "filtered", "designed", "csv", "jsonl", "done"
  options,     \* of the run
  active, suppressed,  \* the defects found, by apply_suppressions
  measured,    \* the metric as extracted
  reported,    \* defects among result.findings
  resolved,    \* classification.resolved
  drift,       \* the numeric deltas reported: {} or {<<old, new>>}
  verdict,     \* "none", "clean", "findings", "threshold", "error"
  \* kept for the properties and the bounds:
  history,     \* findings that some output recorded
  told,        \* the metric at the last run that compared it and wrote its output
  muted,       \* since then a run replaced the snapshot and wrote no output
  edits, runs, faults

code == <<present, line, markers, metric>>
run == <<options, active, suppressed, measured, reported, resolved, drift>>
ghosts == <<history, told, muted>>
bounds == <<edits, runs, faults>>
vars == <<code, files, snapshot, phase, run, verdict, ghosts, bounds>>

FindingOf(d) ==
  [group |-> GroupOf[d], line |-> IF d \in Lineless THEN 0 ELSE line[d],
   hash |-> HashOf[d]]
FindingsOf(D) == {FindingOf(d) : d \in D}

NoRun == [baseline |-> NoFile, out |-> CHOOSE p \in Paths : TRUE, keep |-> {},
          design |-> FALSE]

Init ==
  /\ present = {}
  /\ line = [d \in Defects |-> CHOOSE l \in Lines : TRUE] /\ markers = {}
  /\ metric = 1
  /\ files = [p \in Paths |-> NoFile] /\ snapshot = NoFile
  /\ phase = "idle" /\ options = NoRun
  /\ active = {} /\ suppressed = {} /\ measured = 0
  /\ reported = {} /\ resolved = {} /\ drift = {} /\ verdict = "none"
  /\ history = {} /\ told = NoFile /\ muted = FALSE
  /\ edits = 0 /\ runs = 0 /\ faults = 0

(***************************************************************************)
(* The repository changes between runs.                                    *)
(***************************************************************************)
Edit ==
  /\ phase \in {"idle", "done"} /\ edits < MaxEdits
  /\ edits' = edits + 1 /\ phase' = "idle" /\ verdict' = "none"
  /\ options' = NoRun /\ active' = {} /\ suppressed' = {} /\ measured' = 0
  /\ reported' = {} /\ resolved' = {} /\ drift' = {}
  /\ UNCHANGED <<files, snapshot, ghosts, runs, faults>>

Introduce(d, l) ==
  /\ Edit /\ d \notin present
  /\ present' = present \cup {d} /\ line' = [line EXCEPT ![d] = l]
  /\ UNCHANGED <<markers, metric>>

Fix(d) ==
  /\ Edit /\ d \in present
  /\ present' = present \ {d}
  /\ UNCHANGED <<line, markers, metric>>

Move(d, l) ==
  /\ Edit /\ d \in present \ Lineless /\ l # line[d]
  /\ line' = [line EXCEPT ![d] = l]
  /\ UNCHANGED <<present, markers, metric>>

\* A marker is written or removed.
Mark(g, l) ==
  /\ Edit
  /\ markers' = IF <<g, l>> \in markers THEN markers \ {<<g, l>>}
                ELSE markers \cup {<<g, l>>}
  /\ UNCHANGED <<present, line, metric>>

Redesign(m) ==
  /\ Edit /\ m # metric
  /\ metric' = m
  /\ UNCHANGED <<present, line, markers>>

(***************************************************************************)
(* A failure, out of the MaxFaults there are.                              *)
(***************************************************************************)
Fault == faults < MaxFaults /\ faults' = faults + 1

End(v) == phase' = "done" /\ verdict' = v

(***************************************************************************)
(* Engine.run and _apply_suppressions.  The rules of the groups in missed  *)
(* are skipped; an extractor that fails leaves its metric out, which a     *)
(* comparison reads as 0.                                                  *)
(***************************************************************************)
Scan(o, missed, value) ==
  /\ phase \in {"idle", "done"} /\ runs < MaxRuns
  /\ runs' = runs + 1
  /\ IF missed = {} /\ value = metric THEN UNCHANGED faults ELSE Fault
  /\ LET found == {d \in present : GroupOf[d] \notin missed}
         hidden == {d \in found : IsFindingSuppressed(FindingOf(d), markers)}
     IN  active' = found \ hidden /\ suppressed' = hidden
  /\ options' = o /\ measured' = value
  /\ reported' = {} /\ resolved' = {} /\ drift' = {}
  /\ phase' = "scanned" /\ verdict' = "none"
  /\ UNCHANGED <<code, files, snapshot, ghosts, edits>>

Kept(D) == {d \in D : GroupOf[d] \in options.keep}

\* _apply_baseline_filter and _apply_optional_filters.
FilterBaseline ==
  /\ phase = "scanned" /\ phase' = "filtered"
  /\ IF options.baseline = NoFile
     THEN reported' = Kept(active) /\ resolved' = {}
     ELSE /\ files[options.baseline] # NoFile
          /\ ~ files[options.baseline].torn
          /\ LET baseline == LoadBaseline(files[options.baseline].records)
                 new == FilterNewFindings(FindingsOf(active), baseline)
             IN  /\ reported' = Kept({d \in active : FindingOf(d) \in new})
                 /\ resolved' \in ResolvedKeys(FindingsOf(active), baseline)
  /\ UNCHANGED <<code, files, snapshot, options, active, suppressed, measured,
                 drift, verdict, ghosts, bounds>>

\* The baseline is missing or cannot be parsed: nothing catches that.
BaselineUnreadable ==
  /\ phase = "scanned" /\ options.baseline # NoFile
  /\ \/ files[options.baseline] = NoFile
     \/ files[options.baseline] # NoFile /\ files[options.baseline].torn
  /\ End("error")
  /\ UNCHANGED <<code, files, snapshot, run, ghosts, bounds>>

(***************************************************************************)
(* _handle_design_change: diff_baselines, apply_thresholds and then the    *)
(* snapshot is replaced, whatever becomes of the findings.                 *)
(***************************************************************************)
Distance(a, b) == IF a < b THEN b - a ELSE a - b
ChangesBy(old, new, percent) ==
  old # new /\ (old = 0 \/ Distance(old, new) * 100 >= percent * old)
Deltas(old, new) == IF ChangesBy(old, new, Threshold) THEN {<<old, new>>} ELSE {}

SnapshotIfDrifted ==  \* mutant: the snapshot stays until a change is reported
  IF snapshot # NoFile /\ Deltas(snapshot.value, measured) = {} THEN snapshot
  ELSE [value |-> measured, torn |-> FALSE]
NewSnapshot == [value |-> measured, torn |-> FALSE]

DesignChange ==
  /\ phase = "filtered" /\ options.design
  /\ phase' = "designed"
  /\ IF snapshot = NoFile THEN UNCHANGED drift
     ELSE /\ ~ snapshot.torn
          /\ drift' = Deltas(snapshot.value, measured)
  /\ snapshot' = NewSnapshot
  /\ UNCHANGED <<code, files, options, active, suppressed, measured, reported,
                 resolved, verdict, ghosts, bounds>>

NoDesignChange ==
  /\ phase = "filtered" /\ ~ options.design
  /\ phase' = "designed"
  /\ UNCHANGED <<code, files, snapshot, run, verdict, ghosts, bounds>>

\* A torn snapshot cannot be parsed: the run ends and does not replace it.
SnapshotUnreadable ==
  /\ phase = "filtered" /\ options.design
  /\ snapshot # NoFile /\ snapshot.torn
  /\ End("error")
  /\ UNCHANGED <<code, files, snapshot, run, ghosts, bounds>>

\* The run is killed while it writes the snapshot.
SnapshotTorn ==
  /\ phase = "filtered" /\ options.design /\ Fault
  /\ snapshot' = [value |-> 0, torn |-> TRUE]
  /\ End("error")
  /\ UNCHANGED <<code, files, run, ghosts, edits, runs>>

(***************************************************************************)
(* _write_run_outputs: CSV, JSONL, SARIF, in this order.                   *)
(***************************************************************************)
RecordOf(d, class) ==
  [group |-> GroupOf[d], line |-> FindingOf(d).line, hash |-> HashOf[d],
   class |-> class, defect |-> d]
Tag(class) == IF options.baseline = NoFile THEN "none" ELSE class

\* A resolved record keeps three parts of its key: the hash is lost.
ResolvedRecord(k) ==
  [group |-> k.group, line |-> k.line, hash |-> NoHash, class |-> "resolved",
   defect |-> NoDefect]
DesignRecord ==
  [group |-> DesignGroup, line |-> 0, hash |-> NoHash, class |-> Tag("baseline"),
   defect |-> NoDefect]

FindingRecords ==
  {RecordOf(d, Tag("new")) : d \in reported}
    \cup (IF drift = {} THEN {} ELSE {DesignRecord})
ResolvedRecords == {ResolvedRecord(k) : k \in resolved}
SuppressedRecords == {RecordOf(d, "suppressed") : d \in suppressed}
Records == FindingRecords \cup ResolvedRecords \cup SuppressedRecords

\* What a write that stops early may leave: the sections are written in order.
Beginnings ==
  (SUBSET FindingRecords)
    \cup {FindingRecords \cup R : R \in SUBSET ResolvedRecords}
    \cup {FindingRecords \cup ResolvedRecords \cup S : S \in SUBSET SuppressedRecords}

FindingOfRecord(r) == [group |-> r.group, line |-> r.line, hash |-> r.hash]
Recorded(records) ==
  {FindingOfRecord(r) : r \in {r \in records : r.defect # NoDefect}}

WriteCsv ==
  /\ phase = "designed" /\ phase' = "csv"
  /\ UNCHANGED <<code, files, snapshot, run, verdict, ghosts, bounds>>

WriteJsonl ==
  /\ phase = "csv" /\ phase' = "jsonl"
  /\ files' = [files EXCEPT ![options.out] = [records |-> Records, torn |-> FALSE]]
  /\ history' = history \cup Recorded(Records)
  /\ told' = IF options.design THEN measured ELSE told
  /\ muted' = (muted /\ ~ options.design)
  /\ UNCHANGED <<code, snapshot, run, verdict, bounds>>

\* write_jsonl fails or is killed after it opened the file.
WriteJsonlStops(records, torn) ==
  /\ phase = "csv" /\ Fault
  /\ files' = [files EXCEPT ![options.out] = [records |-> records, torn |-> torn]]
  /\ history' = history \cup Recorded(records)
  /\ End("error")
  /\ muted' = (muted \/ options.design)
  /\ UNCHANGED <<code, snapshot, run, told, edits, runs>>

\* write_csv or write_sarif fails, write_jsonl cannot open its file, or the
\* run is killed between two steps.
Dies ==
  /\ phase \in {"scanned", "filtered", "designed", "csv", "jsonl"} /\ Fault
  /\ End("error")
  /\ muted' = (muted \/ (options.design /\ phase \in {"designed", "csv"}))
  /\ UNCHANGED <<code, files, snapshot, run, history, told, edits, runs>>

\* write_sarif and the exit code: 1 for new findings, 2 for the threshold.
ExceedsThreshold ==
  \/ \E d \in reported : GroupOf[d] \in Severe
  \/ \E delta \in drift : ChangesBy(delta[1], delta[2], SeverePercent)
Regression == options.baseline # NoFile /\ (reported # {} \/ drift # {})

Finish ==
  /\ phase = "jsonl"
  /\ End(IF Regression THEN "findings"
         ELSE IF ExceedsThreshold THEN "threshold" ELSE "clean")
  /\ UNCHANGED <<code, files, snapshot, run, ghosts, bounds>>

Next ==
  \/ \E d \in Defects : Fix(d) \/ \E l \in Lines : Introduce(d, l) \/ Move(d, l)
  \/ \E g \in Groups \ {DesignGroup}, l \in Lines : Mark(g, l)
  \/ \E m \in 0 .. MaxMetric : Redesign(m)
  \/ \E o \in Options, missed \in SUBSET (Groups \ {DesignGroup}), value \in {metric, 0} :
       Scan(o, missed, value)
  \/ FilterBaseline \/ BaselineUnreadable
  \/ DesignChange \/ NoDesignChange \/ SnapshotUnreadable \/ SnapshotTorn
  \/ WriteCsv \/ WriteJsonl \/ Dies \/ Finish
  \/ \E records \in Beginnings, torn \in BOOLEAN : WriteJsonlStops(records, torn)

Spec == Init /\ [][Next]_vars

-----------------------------------------------------------------------------
File == [records : SUBSET Record, torn : BOOLEAN]

\* Every variable has its type.
TypeOK ==
  /\ present \subseteq Defects /\ line \in [Defects -> Lines]
  /\ markers \subseteq Groups \X Lines /\ metric \in Nat
  /\ files \in [Paths -> File \cup {NoFile}] /\ snapshot \in Snapshot \cup {NoFile}
  /\ phase \in {"idle", "scanned", "filtered", "designed", "csv", "jsonl", "done"}
  /\ options \in CommandLine
  /\ active \subseteq present /\ suppressed \subseteq present
  /\ measured \in Nat /\ reported \subseteq active
  /\ resolved \subseteq Finding /\ drift \subseteq Nat \X Nat
  /\ verdict \in {"none", "clean", "findings", "threshold", "error"}
  /\ history \subseteq Finding /\ told \in Nat \cup {NoFile} /\ muted \in BOOLEAN
  /\ edits \in Nat /\ runs \in Nat /\ faults \in Nat

\* The run has compared with a baseline and not yet overwritten anything.
Compared == phase \in {"filtered", "designed", "csv"} /\ options.baseline # NoFile
BaselineRecords == files[options.baseline].records

\* Two findings that the comparison may take for one another.
Alike(f, g) ==
  /\ f.group = g.group
  /\ \/ f.hash = g.hash /\ g.hash # NoHash
     \/ f.line = g.line
     \/ g.line = 0

\* A finding the filters let through is left out of the report only if some
\* earlier output recorded one like it, of the same text, at the same line or,
\* for a finding without a line, in the same file: however long the chain of
\* outputs, keys of resolved and suppressed records included, no defect is
\* declared known out of nothing.  (load_baseline, filter_new_findings)
SilenceIsJustified ==
  Compared =>
    \A d \in Kept(active) \ reported : \E f \in history : Alike(f, FindingOf(d))

\* What the baseline holds of a defect, suppressed or not, keeps it from being
\* new, wherever its text moved and whether or not its marker is still there;
\* only a finding without a hash is new again when it moves.
KnownDebtIsNotNew ==
  Compared =>
    \A r \in BaselineRecords : r.defect \in reported =>
      r.hash = NoHash /\ r.line # FindingOf(r.defect).line

\* If nothing the scan finds has the text or the line of a baseline record,
\* then a resolved key of its group is listed.  (classify_findings)
FixesAreReported ==
  Compared =>
    \A r \in BaselineRecords :
      (\A d \in active : GroupOf[d] = r.group =>
         HashOf[d] # r.hash /\ FindingOf(d).line # r.line)
      => \E k \in resolved : k.group = r.group

\* The converse: a resolved key is that of a baseline record, and nothing that the
\* scan finds has its text or, for a key with a line, its line.  What is unchanged
\* and was recorded is never resolved.  (classify_findings)
ResolvedIsGone ==
  Compared =>
    \A k \in resolved : \E r \in BaselineRecords :
      \/ /\ k = ContentKey(r) /\ r.hash # NoHash
         /\ \A d \in active : GroupOf[d] = r.group => HashOf[d] # r.hash
      \/ /\ k = IdentityKey(r)
         /\ \A d \in active : GroupOf[d] = r.group => FindingOf(d).line # r.line

\* As long as no run died between the snapshot and its output, a run compares
\* its metric with the one the last output was written for: a change above
\* the threshold is reported once, by the first run that sees it, and one
\* below it never.  (_handle_design_change)
DriftIsReported ==
  phase \in {"designed", "csv"} /\ options.design /\ ~ muted /\ told # NoFile
    => drift = Deltas(told, measured)

\* `resolved` | Finding was in baseline but is no longer present -- the issue
\* was fixed (finding-fields.mdx): every resolved key is that of a baseline
\* record whose defect is gone.
ResolvedIsFixed ==
  Compared =>
    \A k \in resolved : \E r \in BaselineRecords :
      r.defect \notin present /\ k \in {IdentityKey(r), ContentKey(r)}
=============================================================================
