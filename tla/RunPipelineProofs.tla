------------------------- MODULE RunPipelineProofs -------------------------
(***************************************************************************)
(* What a run keeps silent about, reports and calls resolved, for any      *)
(* defects, groups, files, command lines and failures, and any number of   *)
(* edits and runs.                                                         *)
(***************************************************************************)
EXTENDS RunPipeline, TLAPS

-----------------------------------------------------------------------------
LEMMA FindingType ==
  ASSUME TypeOK, NEW d \in Defects
  PROVE  /\ FindingOf(d) \in Finding
         /\ GroupOf[d] \in Groups /\ GroupOf[d] # DesignGroup
         /\ HashOf[d] \in Hashes \cup {NoHash}
         /\ FindingOf(d).group = GroupOf[d] /\ FindingOf(d).hash = HashOf[d]
         /\ FindingOf(d).line \in Lines \cup {0}
  BY RunPipelineAssumption DEF TypeOK, FindingOf, Finding

LEMMA NoRunType == NoRun \in CommandLine /\ NoRun.design = FALSE /\ NoRun.baseline = NoFile
<1>1. (CHOOSE p \in Paths : TRUE) \in Paths
  BY RunPipelineAssumption
<1> QED BY <1>1 DEF NoRun, CommandLine

LEMMA TypeInit == Init => TypeOK
<1> SUFFICES ASSUME Init PROVE TypeOK
  OBVIOUS
<1>1. (CHOOSE l \in Lines : TRUE) \in Lines
  BY BaselineAssumption
<1>2. line \in [Defects -> Lines] /\ files \in [Paths -> File \cup {NoFile}]
  BY <1>1 DEF Init
<1> QED BY <1>2, NoRunType DEF Init, TypeOK

LEMMA EditType ==
  ASSUME TypeOK, Edit, present' \subseteq Defects, line' \in [Defects -> Lines],
         markers' \subseteq Groups \X Lines, metric' \in Nat
  PROVE  TypeOK'
  BY NoRunType, RunPipelineAssumption DEF TypeOK, Edit, ghosts

\* The records of a file are records, also those of a write that stops early.
LEMMA RecordsType ==
  ASSUME TypeOK
  PROVE  Records \subseteq Record
<1>1. FindingRecords \subseteq Record
  <2>1. ASSUME NEW d \in reported PROVE RecordOf(d, Tag("new")) \in Record
    BY <2>1, FindingType DEF RecordOf, Tag, Record, TypeOK
  <2>2. DesignRecord \in Record
    BY RunPipelineAssumption DEF DesignRecord, Tag, Record
  <2> QED BY <2>1, <2>2 DEF FindingRecords
<1>2. ResolvedRecords \subseteq Record
  BY DEF ResolvedRecords, ResolvedRecord, Record, TypeOK, Finding
<1>3. SuppressedRecords \subseteq Record
  BY FindingType DEF SuppressedRecords, RecordOf, Record, TypeOK
<1> QED BY <1>1, <1>2, <1>3 DEF Records

LEMMA BeginningsAreRecords ==
  ASSUME NEW records \in Beginnings
  PROVE  records \subseteq Records
<1>1. CASE records \in SUBSET FindingRecords
  BY <1>1 DEF Records
<1>2. CASE \E R \in SUBSET ResolvedRecords : records = FindingRecords \cup R
  BY <1>2 DEF Records
<1>3. CASE \E S \in SUBSET SuppressedRecords :
             records = FindingRecords \cup ResolvedRecords \cup S
  BY <1>3 DEF Records
<1> QED BY <1>1, <1>2, <1>3 DEF Beginnings

LEMMA RecordedType ==
  ASSUME NEW records \in SUBSET Record
  PROVE  Recorded(records) \subseteq Finding
  BY DEF Recorded, FindingOfRecord, Record, Finding

LEMMA KeysType ==
  ASSUME NEW findings, NEW records \in SUBSET Record,
         NEW keys \in ResolvedKeys(findings, LoadBaseline(records))
  PROVE  keys \subseteq Finding
<1>1. \A r \in records : IdentityKey(r) \in Finding /\ ContentKey(r) \in Finding
  BY DEF IdentityKey, ContentKey, Record, Finding
<1> QED BY <1>1 DEF ResolvedKeys, UnmatchedStable, UnmatchedLegacy, LoadBaseline

LEMMA TypeStep == ASSUME TypeOK, [Next]_vars PROVE TypeOK'
<1> USE DEF code, run, ghosts, bounds, Fault, End
<1>1. ASSUME NEW d \in Defects, Fix(d) PROVE TypeOK'
  BY <1>1, EditType DEF Fix, TypeOK
<1>2. ASSUME NEW d \in Defects, NEW l \in Lines, Introduce(d, l) \/ Move(d, l) PROVE TypeOK'
  BY <1>2, EditType DEF Introduce, Move, TypeOK
<1>3. ASSUME NEW g \in Groups, NEW l \in Lines, Mark(g, l) PROVE TypeOK'
  BY <1>3, EditType DEF Mark, TypeOK
<1>4. ASSUME NEW m \in 0 .. MaxMetric, Redesign(m) PROVE TypeOK'
  <2>1. m \in Nat BY RunPipelineAssumption
  <2> QED BY <1>4, <2>1, EditType DEF Redesign, TypeOK
<1>5. ASSUME NEW o \in Options, NEW missed, NEW value \in {metric, 0}, Scan(o, missed, value)
      PROVE  TypeOK'
  BY <1>5, RunPipelineAssumption DEF Scan, TypeOK
<1>6. CASE FilterBaseline
  <2>1. resolved' \subseteq Finding
    BY <1>6, KeysType, RunPipelineAssumption DEF FilterBaseline, TypeOK, CommandLine, File
  <2>2. reported' \subseteq active
    BY <1>6 DEF FilterBaseline, Kept
  <2> QED BY <1>6, <2>1, <2>2 DEF FilterBaseline, TypeOK
<1>7. CASE BaselineUnreadable BY <1>7 DEF BaselineUnreadable, TypeOK
<1>8. CASE DesignChange
  <2>1. snapshot' \in Snapshot
    BY <1>8 DEF DesignChange, NewSnapshot, TypeOK, Snapshot
  <2>2. drift' \subseteq Nat \X Nat
    BY <1>8 DEF DesignChange, Deltas, TypeOK, Snapshot
  <2> QED BY <1>8, <2>1, <2>2 DEF DesignChange, TypeOK
<1>9. CASE NoDesignChange BY <1>9 DEF NoDesignChange, TypeOK
<1>10. CASE SnapshotUnreadable BY <1>10 DEF SnapshotUnreadable, TypeOK
<1>11. CASE SnapshotTorn BY <1>11 DEF SnapshotTorn, TypeOK, Snapshot
<1>12. CASE WriteCsv BY <1>12 DEF WriteCsv, TypeOK
<1>13. CASE WriteJsonl
  <2>1. [records |-> Records, torn |-> FALSE] \in File /\ Recorded(Records) \subseteq Finding
    BY RecordsType, RecordedType DEF File
  <2> QED BY <1>13, <2>1 DEF WriteJsonl, TypeOK
<1>14. ASSUME NEW records \in Beginnings, NEW torn \in BOOLEAN, WriteJsonlStops(records, torn)
       PROVE  TypeOK'
  <2>1. [records |-> records, torn |-> torn] \in File /\ Recorded(records) \subseteq Finding
    BY RecordsType, BeginningsAreRecords, RecordedType DEF File
  <2>2. muted' \in BOOLEAN
    BY <1>14, Zenon DEF WriteJsonlStops
  <2>3. files' \in [Paths -> File \cup {NoFile}] /\ history' \subseteq Finding
    BY <1>14, <2>1 DEF WriteJsonlStops, TypeOK
  <2> QED BY <1>14, <2>2, <2>3 DEF WriteJsonlStops, TypeOK
<1>15. CASE Dies BY <1>15 DEF Dies, TypeOK
<1>16. CASE Finish BY <1>16 DEF Finish, TypeOK
<1>17. CASE UNCHANGED vars BY <1>17 DEF vars, TypeOK
<1> QED
  BY <1>1, <1>2, <1>3, <1>4, <1>5, <1>6, <1>7, <1>8, <1>9, <1>10, <1>11, <1>12,
     <1>13, <1>14, <1>15, <1>16, <1>17 DEF Next

\* Every variable keeps its type.
THEOREM TypeCorrect == Spec => []TypeOK
<1>1. TypeOK /\ [Next]_vars => TypeOK'
  BY TypeStep
<1> QED BY <1>1, TypeInit, PTL DEF Spec

-----------------------------------------------------------------------------
(***************************************************************************)
(* Every key in a file goes back to findings that some output recorded.    *)
(***************************************************************************)

\* A legacy key: line and all, or the file alone.
Grounded(k) ==
  \/ k.group = DesignGroup
  \/ \E f \in history : f.group = k.group /\ (f.line = k.line \/ k.line = 0)

Rooted(r) ==
  /\ Grounded(r)
  /\ r.hash # NoHash => \E f \in history : f.group = r.group /\ f.hash = r.hash
  /\ r.defect \in Defects => r.group = GroupOf[r.defect] /\ r.hash = HashOf[r.defect]

FilesRooted == \A p \in Paths : files[p] # NoFile => \A r \in files[p].records : Rooted(r)
KeysGrounded == \A k \in resolved : Grounded(k)

SilenceInv == SilenceIsJustified /\ FilesRooted /\ KeysGrounded

\* Grounds stay, as the history only grows.
LEMMA RootsStay ==
  ASSUME history \subseteq history'
  PROVE  /\ \A k : Grounded(k) => Grounded(k)'
         /\ \A r : Rooted(r) => Rooted(r)'
  BY DEF Grounded, Rooted

LEMMA RecordsRooted ==
  ASSUME TypeOK, KeysGrounded, NEW r \in Records, r.defect = NoDefect
  PROVE  Rooted(r)
<1>1. ASSUME NEW d \in Defects, NEW class, r = RecordOf(d, class) PROVE FALSE
  BY <1>1, RunPipelineAssumption DEF RecordOf
<1>2. CASE r = DesignRecord
  BY <1>2, RunPipelineAssumption DEF DesignRecord, Rooted, Grounded
<1>3. CASE r \in ResolvedRecords
  <2>1. PICK k \in resolved : r = ResolvedRecord(k)
    BY <1>3 DEF ResolvedRecords
  <2>2. r.group = k.group /\ r.line = k.line /\ r.hash = NoHash
    BY <2>1 DEF ResolvedRecord
  <2>3. Grounded(k)
    BY DEF KeysGrounded
  <2> QED BY <2>2, <2>3, RunPipelineAssumption DEF Rooted, Grounded
<1> QED
  BY <1>1, <1>2, <1>3 DEF Records, FindingRecords, SuppressedRecords, TypeOK

\* So a file that is written has rooted records.
LEMMA WrittenRooted ==
  ASSUME TypeOK, KeysGrounded, FilesRooted, NEW records \in SUBSET Records, NEW torn,
         files' = [files EXCEPT ![options.out] = [records |-> records, torn |-> torn]],
         history' = history \cup Recorded(records),
         resolved' = resolved
  PROVE  FilesRooted' /\ KeysGrounded'
<1>1. history \subseteq history'
  OBVIOUS
<1>2. KeysGrounded'
  BY <1>1, RootsStay DEF KeysGrounded
<1>3. ASSUME NEW r \in records PROVE Rooted(r)'
  <2>1. FindingOfRecord(r) \in history' \/ r.defect = NoDefect
    BY DEF Recorded
  <2>2. CASE r.defect = NoDefect
    BY <1>1, <2>2, RecordsRooted, RootsStay
  <2>3. CASE r.defect # NoDefect
    <3>1. PICK d \in Defects, class \in {Tag("new"), "suppressed"} : r = RecordOf(d, class)
      BY <2>3 DEF Records, FindingRecords, ResolvedRecords, SuppressedRecords, DesignRecord,
                  ResolvedRecord, TypeOK
    <3>2. r.group = GroupOf[d] /\ r.hash = HashOf[d] /\ r.defect = d
      BY <3>1 DEF RecordOf
    <3>3. /\ FindingOfRecord(r).group = r.group /\ FindingOfRecord(r).line = r.line
          /\ FindingOfRecord(r).hash = r.hash
      BY DEF FindingOfRecord
    <3> QED BY <2>1, <2>3, <3>2, <3>3 DEF Rooted, Grounded
  <2> QED BY <2>2, <2>3
<1>4. \A p \in Paths : files'[p] = files[p] \/ files'[p].records = records
  BY DEF TypeOK
<1>5. ASSUME NEW p \in Paths, files'[p] # NoFile, NEW r \in files'[p].records PROVE Rooted(r)'
  BY <1>1, <1>3, <1>4, <1>5, RootsStay DEF FilesRooted
<1> QED BY <1>2, <1>5 DEF FilesRooted

\* The baseline's keys, and so the keys a comparison leaves over, are grounded.
LEMMA ResolvedGrounded ==
  ASSUME NEW findings, NEW records, \A r \in records : Rooted(r),
         NEW keys \in ResolvedKeys(findings, LoadBaseline(records)), NEW k \in keys
  PROVE  Grounded(k)
<1>1. \A r \in records : Grounded(IdentityKey(r)) /\ Grounded(ContentKey(r))
  BY DEF Rooted, Grounded, IdentityKey, ContentKey
<1> QED BY <1>1 DEF ResolvedKeys, UnmatchedStable, UnmatchedLegacy, LoadBaseline

\* What matches a rooted record resembles what some output recorded.
LEMMA MatchIsAlike ==
  ASSUME TypeOK, NEW d \in Defects, NEW records, \A r \in records : Rooted(r),
         StableMatch(FindingOf(d), LoadBaseline(records))
           \/ LegacyMatch(FindingOf(d), LoadBaseline(records))
  PROVE  \E f \in history : Alike(f, FindingOf(d))
<1> DEFINE g == FindingOf(d)
<1>1. g.group # DesignGroup
  BY FindingType
<1>2. CASE StableMatch(g, LoadBaseline(records))
  <2>1. PICK r \in records : r.hash # NoHash /\ ContentKey(r) = ContentKey(g) /\ g.hash # NoHash
    BY <1>2 DEF StableMatch, LoadBaseline, StableIdentityKey
  <2>2. r.group = g.group /\ r.hash = g.hash
    BY <2>1 DEF ContentKey
  <2> QED BY <2>1, <2>2 DEF Rooted, Alike
<1>3. CASE LegacyMatch(g, LoadBaseline(records))
  <2>1. PICK r \in records : IdentityKey(r) = IdentityKey(g)
    BY <1>3 DEF LegacyMatch, LoadBaseline
  <2>2. r.group = g.group /\ r.line = g.line
    BY <2>1 DEF IdentityKey
  <2> QED BY <1>1, <2>2 DEF Rooted, Grounded, Alike
<1> QED BY <1>2, <1>3

-----------------------------------------------------------------------------
\* After the comparison nothing it used or found changes until the JSONL file
\* is written.
LEMMA ComparedStays ==
  ASSUME [Next]_vars, Compared', ~ FilterBaseline
  PROVE  /\ Compared
         /\ UNCHANGED <<line, files, options, active, reported, resolved, history>>
<1> USE DEF Compared, code, run, ghosts, bounds, End
<1>1. CASE DesignChange BY <1>1 DEF DesignChange
<1>2. CASE NoDesignChange BY <1>2 DEF NoDesignChange
<1>3. CASE WriteCsv BY <1>3 DEF WriteCsv
<1>4. CASE UNCHANGED vars BY <1>4 DEF vars
<1>5. CASE phase' \in {"idle", "scanned", "jsonl", "done"}
  BY <1>5
<1> QED
  BY <1>1, <1>2, <1>3, <1>4, <1>5
  DEF Next, Edit, Introduce, Fix, Move, Mark, Redesign, Scan, BaselineUnreadable,
      SnapshotUnreadable, SnapshotTorn, WriteJsonl, WriteJsonlStops, Dies, Finish

LEMMA SilenceStep ==
  ASSUME TypeOK, SilenceInv, [Next]_vars
  PROVE  SilenceInv'
<1> USE DEF SilenceInv
<1>1. CASE FilterBaseline
  <2>1. UNCHANGED <<line, files, options, active, history>>
    BY <1>1 DEF FilterBaseline, code, ghosts
  <2>2. FilesRooted'
    BY <2>1 DEF FilesRooted, Rooted, Grounded
  <2>3. CASE options.baseline = NoFile
    BY <1>1, <2>1, <2>2, <2>3 DEF FilterBaseline, KeysGrounded, SilenceIsJustified, Compared
  <2>4. CASE options.baseline # NoFile
    <3> DEFINE records == files[options.baseline].records
               findings == FindingsOf(active)
    <3>1. /\ reported' = Kept({d \in active : FindingOf(d) \in
                                 FilterNewFindings(findings, LoadBaseline(records))})
          /\ resolved' \in ResolvedKeys(findings, LoadBaseline(records))
          /\ files[options.baseline] # NoFile
      BY <1>1, <2>4 DEF FilterBaseline
    <3>2. options.baseline \in Paths
      BY <2>4 DEF TypeOK, CommandLine
    <3>3. \A r \in records : Rooted(r)
      BY <3>1, <3>2 DEF FilesRooted
    <3>4. KeysGrounded'
      BY <2>1, <3>1, <3>3, ResolvedGrounded DEF KeysGrounded, Grounded
    <3>5. ASSUME NEW d \in Kept(active) \ reported'
          PROVE  \E f \in history : Alike(f, FindingOf(d))
      <4>1. d \in active /\ FindingOf(d) \in findings /\ d \in Defects
        BY DEF Kept, FindingsOf, TypeOK
      <4>2. FindingOf(d) \notin FilterNewFindings(findings, LoadBaseline(records))
        BY <3>1, <3>5, <4>1 DEF Kept
      <4> QED BY <3>3, <4>1, <4>2, MatchIsAlike DEF FilterNewFindings
    <3>6. SilenceIsJustified'
      BY <2>1, <3>5 DEF SilenceIsJustified, Kept, FindingOf
    <3> QED BY <2>2, <3>4, <3>6
  <2> QED BY <2>3, <2>4
<1>2. CASE ~ FilterBaseline
  <2>1. SilenceIsJustified'
    BY <1>2, ComparedStays DEF SilenceIsJustified, Kept, FindingOf
  <2>2. CASE WriteJsonl
    BY <2>1, <2>2, WrittenRooted DEF WriteJsonl, run
  <2>3. ASSUME NEW records \in Beginnings, NEW torn \in BOOLEAN, WriteJsonlStops(records, torn)
        PROVE  SilenceInv'
    BY <2>1, <2>3, BeginningsAreRecords, WrittenRooted DEF WriteJsonlStops, run
  <2>4. CASE UNCHANGED <<files, history>> /\ resolved' \in {resolved, {}}
    BY <2>1, <2>4 DEF FilesRooted, KeysGrounded, Rooted, Grounded
  <2> QED
    BY <1>2, <2>2, <2>3, <2>4
    DEF Next, vars, code, run, ghosts, bounds, Edit, Introduce, Fix, Move, Mark, Redesign, Scan,
        BaselineUnreadable, DesignChange, NoDesignChange, SnapshotUnreadable, SnapshotTorn,
        WriteCsv, Dies, Finish
<1> QED BY <1>1, <1>2

LEMMA SilenceInvariant == Spec => []SilenceInv
<1>1. Init => SilenceInv
  BY DEF Init, SilenceInv, SilenceIsJustified, FilesRooted, KeysGrounded, Compared
<1>2. TypeOK /\ SilenceInv /\ [Next]_vars => SilenceInv'
  BY SilenceStep
<1> QED BY <1>1, <1>2, TypeCorrect, PTL DEF Spec

\* No chain of outputs and baselines silences a finding that none of its kind
\* was ever recorded for.
THEOREM SilenceJustified == Spec => []SilenceIsJustified
<1>1. SilenceInv => SilenceIsJustified
  BY DEF SilenceInv
<1> QED BY <1>1, SilenceInvariant, PTL

-----------------------------------------------------------------------------
(***************************************************************************)
(* The comparison itself: one step establishes what it says of baseline    *)
(* and findings, and the steps up to the output keep it.                   *)
(***************************************************************************)
LEMMA KnownDebtStep ==
  ASSUME TypeOK, SilenceInv, KnownDebtIsNotNew, [Next]_vars
  PROVE  KnownDebtIsNotNew'
<1>1. CASE FilterBaseline /\ options.baseline # NoFile
  <2> DEFINE records == BaselineRecords
             new == FilterNewFindings(FindingsOf(active), LoadBaseline(records))
  <2>1. /\ reported' = Kept({d \in active : FindingOf(d) \in new})
        /\ files[options.baseline] # NoFile
        /\ UNCHANGED <<line, files, options>>
    BY <1>1 DEF FilterBaseline, BaselineRecords, code
  <2>2. \A r \in records : Rooted(r)
    BY <1>1, <2>1 DEF SilenceInv, FilesRooted, TypeOK, CommandLine, BaselineRecords
  <2>3. ASSUME NEW r \in records, r.defect \in reported'
        PROVE  r.hash = NoHash /\ r.line # FindingOf(r.defect).line
    <3> DEFINE f == FindingOf(r.defect)
    <3>1. r.defect \in Defects /\ f \in new
      BY <2>1, <2>3 DEF Kept, TypeOK
    <3>2. f.group = r.group /\ f.hash = r.hash
      BY <2>2, <3>1, FindingType DEF Rooted
    <3>3. r.hash = NoHash
      <4>1. ASSUME r.hash # NoHash PROVE StableMatch(f, LoadBaseline(records))
        BY <3>2, <4>1 DEF StableMatch, StableIdentityKey, ContentKey, LoadBaseline
      <4> QED BY <3>1, <4>1 DEF FilterNewFindings
    <3>4. r.line # f.line
      <4>1. ASSUME r.line = f.line PROVE LegacyMatch(f, LoadBaseline(records))
        BY <3>2, <4>1 DEF LegacyMatch, IdentityKey, LoadBaseline
      <4> QED BY <3>1, <4>1 DEF FilterNewFindings
    <3> QED BY <3>3, <3>4
  <2> QED BY <2>1, <2>3 DEF KnownDebtIsNotNew, BaselineRecords, FindingOf
<1>2. CASE FilterBaseline /\ options.baseline = NoFile
  BY <1>2 DEF FilterBaseline, KnownDebtIsNotNew, Compared
<1>3. CASE ~ FilterBaseline
  BY <1>3, ComparedStays DEF KnownDebtIsNotNew, BaselineRecords, FindingOf
<1> QED BY <1>1, <1>2, <1>3

\* A defect the baseline knows is new only without a hash and on another line.
THEOREM KnownDebtStaysKnown == Spec => []KnownDebtIsNotNew
<1>1. Init => KnownDebtIsNotNew
  BY DEF Init, KnownDebtIsNotNew, Compared
<1>2. TypeOK /\ SilenceInv /\ KnownDebtIsNotNew /\ [Next]_vars => KnownDebtIsNotNew'
  BY KnownDebtStep
<1> QED BY <1>1, <1>2, TypeCorrect, SilenceInvariant, PTL DEF Spec

\* A legacy key no finding matched is resolved, or another key of its group is.
LEMMA LeftOverIsListed ==
  ASSUME NEW findings, NEW records \in SUBSET Record, NEW r \in records,
         \A f \in findings : f.group = r.group => f.line # r.line,
         NEW keys \in ResolvedKeys(findings, LoadBaseline(records))
  PROVE  \E k \in keys : k.group = r.group
<1> DEFINE baseline == LoadBaseline(records)
           gone == UnmatchedStable(findings, baseline)
           lost == {k \in UnmatchedLegacy(findings, baseline) :
                      \A s \in gone : s.group # k.group}
           hideable == {k \in lost : k.line # 0 /\ [k EXCEPT !.line = 0] \in lost}
           key == IdentityKey(r)
           ofFile == [key EXCEPT !.line = 0]
<1>1. PICK later \in SUBSET hideable : keys = gone \cup (lost \ later)
  BY DEF ResolvedKeys
<1>2. key.group = r.group /\ ofFile.group = r.group /\ ofFile.line = 0
  BY DEF IdentityKey
<1>3. key \in UnmatchedLegacy(findings, baseline)
  <2>1. key \in baseline.legacy_keys
    BY DEF LoadBaseline
  <2>2. ASSUME NEW f \in findings, IdentityKey(f) = key PROVE FALSE
    BY <2>2 DEF IdentityKey
  <2> QED BY <2>1, <2>2 DEF UnmatchedLegacy
<1>4. CASE \E s \in gone : s.group = r.group
  BY <1>1, <1>4
<1>5. CASE \A s \in gone : s.group # r.group
  <2>1. key \in lost
    BY <1>2, <1>3, <1>5
  <2>2. CASE key \notin later
    BY <1>1, <1>2, <2>1, <2>2
  <2>3. CASE key \in later
    <3>1. ofFile \in lost /\ ofFile \notin later
      BY <1>2, <2>3
    <3> QED BY <1>1, <1>2, <3>1
  <2> QED BY <2>2, <2>3
<1> QED BY <1>4, <1>5

LEMMA FixesStep ==
  ASSUME TypeOK, FixesAreReported, [Next]_vars
  PROVE  FixesAreReported'
<1>1. CASE FilterBaseline /\ options.baseline # NoFile
  <2>1. /\ resolved' \in ResolvedKeys(FindingsOf(active), LoadBaseline(BaselineRecords))
        /\ files[options.baseline] # NoFile
        /\ UNCHANGED <<line, files, options, active>>
    BY <1>1 DEF FilterBaseline, BaselineRecords, code
  <2>2. BaselineRecords \in SUBSET Record
    BY <1>1, <2>1 DEF TypeOK, CommandLine, File, BaselineRecords
  <2>3. ASSUME NEW r \in BaselineRecords,
               \A d \in active : GroupOf[d] = r.group => FindingOf(d).line # r.line
        PROVE  \E k \in resolved' : k.group = r.group
    <3>1. \A f \in FindingsOf(active) : f.group = r.group => f.line # r.line
      BY <2>3, FindingType DEF FindingsOf, TypeOK
    <3> QED BY <2>1, <2>2, <3>1, LeftOverIsListed
  <2> QED BY <2>1, <2>3 DEF FixesAreReported, BaselineRecords, FindingOf
<1>2. CASE FilterBaseline /\ options.baseline = NoFile
  BY <1>2 DEF FilterBaseline, FixesAreReported, Compared
<1>3. CASE ~ FilterBaseline
  BY <1>3, ComparedStays DEF FixesAreReported, BaselineRecords, FindingOf
<1> QED BY <1>1, <1>2, <1>3

\* Whatever a baseline holds and nothing found resembles is reported as resolved.
THEOREM FixesReported == Spec => []FixesAreReported
<1>1. Init => FixesAreReported
  BY DEF Init, FixesAreReported, Compared
<1>2. TypeOK /\ FixesAreReported /\ [Next]_vars => FixesAreReported'
  BY FixesStep
<1> QED BY <1>1, <1>2, TypeCorrect, PTL DEF Spec

\* A resolved key is that of a record whose text or line no finding has.
LEMMA ResolvedUnmatched ==
  ASSUME NEW findings, NEW records \in SUBSET Record,
         NEW keys \in ResolvedKeys(findings, LoadBaseline(records)), NEW k \in keys
  PROVE  \E r \in records :
           \/ /\ k = ContentKey(r) /\ r.hash # NoHash
              /\ \A f \in findings : f.group = r.group => f.hash # r.hash
           \/ /\ k = IdentityKey(r)
              /\ \A f \in findings : f.group = r.group => f.line # r.line
<1> DEFINE baseline == LoadBaseline(records)
<1>1. k \in UnmatchedStable(findings, baseline) \/ k \in UnmatchedLegacy(findings, baseline)
  BY DEF ResolvedKeys
<1>2. CASE k \in UnmatchedStable(findings, baseline)
  <2>1. PICK r \in records : r.hash # NoHash /\ k = ContentKey(r)
    BY <1>2 DEF UnmatchedStable, LoadBaseline
  <2>2. ASSUME NEW f \in findings, f.group = r.group, f.hash = r.hash PROVE FALSE
    <3>1. StableIdentityKey(f) = k
      BY <2>1, <2>2 DEF StableIdentityKey, ContentKey
    <3> QED BY <1>2, <3>1 DEF UnmatchedStable
  <2> QED BY <2>1, <2>2
<1>3. CASE k \in UnmatchedLegacy(findings, baseline)
  <2>1. PICK r \in records : k = IdentityKey(r)
    BY <1>3 DEF UnmatchedLegacy, LoadBaseline
  <2>2. ASSUME NEW f \in findings, f.group = r.group, f.line = r.line PROVE FALSE
    <3>1. IdentityKey(f) = k
      BY <2>1, <2>2 DEF IdentityKey
    <3> QED BY <1>3, <3>1 DEF UnmatchedLegacy
  <2> QED BY <2>1, <2>2
<1> QED BY <1>1, <1>2, <1>3

LEMMA GoneStep ==
  ASSUME TypeOK, ResolvedIsGone, [Next]_vars
  PROVE  ResolvedIsGone'
<1>1. CASE FilterBaseline /\ options.baseline # NoFile
  <2>1. /\ resolved' \in ResolvedKeys(FindingsOf(active), LoadBaseline(BaselineRecords))
        /\ files[options.baseline] # NoFile
        /\ UNCHANGED <<line, files, options, active>>
    BY <1>1 DEF FilterBaseline, BaselineRecords, code
  <2>2. BaselineRecords \in SUBSET Record
    BY <1>1, <2>1 DEF TypeOK, CommandLine, File, BaselineRecords
  <2>3. ASSUME NEW k \in resolved'
        PROVE  \E r \in BaselineRecords :
                 \/ /\ k = ContentKey(r) /\ r.hash # NoHash
                    /\ \A d \in active : GroupOf[d] = r.group => HashOf[d] # r.hash
                 \/ /\ k = IdentityKey(r)
                    /\ \A d \in active : GroupOf[d] = r.group => FindingOf(d).line # r.line
    <3>1. PICK r \in BaselineRecords :
             \/ /\ k = ContentKey(r) /\ r.hash # NoHash
                /\ \A f \in FindingsOf(active) : f.group = r.group => f.hash # r.hash
             \/ /\ k = IdentityKey(r)
                /\ \A f \in FindingsOf(active) : f.group = r.group => f.line # r.line
      BY <2>1, <2>2, ResolvedUnmatched
    <3>2. \A d \in active : FindingOf(d) \in FindingsOf(active)
                            /\ FindingOf(d).group = GroupOf[d] /\ FindingOf(d).hash = HashOf[d]
      BY FindingType DEF FindingsOf, TypeOK
    <3> QED BY <3>1, <3>2
  <2> QED BY <2>1, <2>3 DEF ResolvedIsGone, BaselineRecords, FindingOf
<1>2. CASE FilterBaseline /\ options.baseline = NoFile
  BY <1>2 DEF FilterBaseline, ResolvedIsGone, Compared
<1>3. CASE ~ FilterBaseline
  BY <1>3, ComparedStays DEF ResolvedIsGone, BaselineRecords, FindingOf
<1> QED BY <1>1, <1>2, <1>3

\* What is listed as resolved was recorded, and nothing found has its text or line.
THEOREM ResolvedGone == Spec => []ResolvedIsGone
<1>1. Init => ResolvedIsGone
  BY DEF Init, ResolvedIsGone, Compared
<1>2. TypeOK /\ ResolvedIsGone /\ [Next]_vars => ResolvedIsGone'
  BY GoneStep
<1> QED BY <1>1, <1>2, TypeCorrect, PTL DEF Spec

-----------------------------------------------------------------------------
\* The run was compared with a file that records just what it finds.
SelfComparison ==
  Compared /\ {FindingOfRecord(r) : r \in BaselineRecords} = FindingsOf(active)

\* What is recorded as it is found is not new.
KnownAsFound ==
  Compared =>
    \A d \in reported : \A r \in BaselineRecords : FindingOfRecord(r) # FindingOf(d)

LEMMA KnownStep ==
  ASSUME TypeOK, KnownAsFound, [Next]_vars
  PROVE  KnownAsFound'
<1>1. CASE FilterBaseline /\ options.baseline # NoFile
  <2> DEFINE new == FilterNewFindings(FindingsOf(active), LoadBaseline(BaselineRecords))
  <2>1. /\ reported' = Kept({d \in active : FindingOf(d) \in new})
        /\ UNCHANGED <<line, files, options>>
    BY <1>1 DEF FilterBaseline, BaselineRecords, code
  <2>2. ASSUME NEW d \in reported', NEW r \in BaselineRecords, FindingOfRecord(r) = FindingOf(d)
        PROVE  FALSE
    <3>1. FindingOf(d) \in new
      BY <2>1 DEF Kept
    <3>2. FindingOf(d).group = r.group /\ FindingOf(d).line = r.line
      BY <2>2 DEF FindingOfRecord
    <3>3. LegacyMatch(FindingOf(d), LoadBaseline(BaselineRecords))
      BY <3>2 DEF LegacyMatch, IdentityKey, LoadBaseline
    <3> QED BY <3>1, <3>3 DEF FilterNewFindings
  <2> QED BY <2>1, <2>2 DEF KnownAsFound, BaselineRecords, FindingOf
<1>2. CASE FilterBaseline /\ options.baseline = NoFile
  BY <1>2 DEF FilterBaseline, KnownAsFound, Compared
<1>3. CASE ~ FilterBaseline
  BY <1>3, ComparedStays DEF KnownAsFound, BaselineRecords, FindingOf
<1> QED BY <1>1, <1>2, <1>3

\* A run that finds just what its baseline records reports nothing and resolves
\* nothing, whatever happened to either in between.
THEOREM RescanIsQuiet == Spec => [](SelfComparison => reported = {} /\ resolved = {})
<1>1. Init => KnownAsFound
  BY DEF Init, KnownAsFound, Compared
<1>2. TypeOK /\ KnownAsFound /\ [Next]_vars => KnownAsFound'
  BY KnownStep
<1>3. TypeOK /\ ResolvedIsGone /\ KnownAsFound =>
        (SelfComparison => reported = {} /\ resolved = {})
  <2> SUFFICES ASSUME TypeOK, ResolvedIsGone, KnownAsFound, SelfComparison
               PROVE  reported = {} /\ resolved = {}
    OBVIOUS
  <2>1. ASSUME NEW d \in reported PROVE FALSE
    <3>1. FindingOf(d) \in FindingsOf(active)
      BY DEF TypeOK, FindingsOf
    <3> QED BY <3>1 DEF SelfComparison, KnownAsFound
  <2>2. ASSUME NEW k \in resolved PROVE FALSE
    <3>1. PICK r \in BaselineRecords :
            \/ \A d \in active : GroupOf[d] = r.group => HashOf[d] # r.hash
            \/ \A d \in active : GroupOf[d] = r.group => FindingOf(d).line # r.line
      BY DEF SelfComparison, ResolvedIsGone
    <3>2. PICK d \in active : FindingOf(d) = FindingOfRecord(r)
      BY DEF SelfComparison, FindingsOf
    <3>3. GroupOf[d] = r.group /\ HashOf[d] = r.hash /\ FindingOf(d).line = r.line
      BY <3>2, FindingType DEF FindingOfRecord, TypeOK
    <3> QED BY <3>1, <3>3
  <2> QED BY <2>1, <2>2
<1> QED BY <1>1, <1>2, <1>3, TypeCorrect, ResolvedGone, PTL DEF Spec

-----------------------------------------------------------------------------
(***************************************************************************)
(* Between the replacement of the snapshot and the end of the run, the     *)
(* snapshot is ahead of the outputs; otherwise, unless a run died in       *)
(* between, it is torn or holds the metric of the last output.             *)
(***************************************************************************)
Ahead == phase \in {"designed", "csv"} /\ options.design
DriftInv ==
  /\ DriftIsReported
  /\ Ahead => snapshot = NewSnapshot
  /\ ~ muted /\ told # NoFile /\ ~ Ahead =>
       snapshot # NoFile /\ (snapshot.torn \/ snapshot.value = told)

LEMMA DriftStep ==
  ASSUME TypeOK, DriftInv, [Next]_vars
  PROVE  DriftInv'
<1> USE DEF DriftInv, Ahead, NewSnapshot, code, run, ghosts, bounds, Fault, End
<1>1. CASE Edit
  <2>1. options'.design = FALSE
    BY <1>1, NoRunType DEF Edit
  <2> QED BY <1>1, <2>1 DEF Edit, DriftIsReported
<1>2. ASSUME NEW o, NEW missed, NEW value, Scan(o, missed, value) PROVE DriftInv'
  BY <1>2 DEF Scan, DriftIsReported
<1>3. CASE DesignChange
  <2>1. [value |-> measured, torn |-> FALSE] \in Snapshot
    BY DEF Snapshot, TypeOK
  <2>2. [value |-> measured, torn |-> FALSE] # NoFile
    BY <2>1, RunPipelineAssumption
  <2> QED BY <1>3, <2>2 DEF DesignChange, DriftIsReported
<1>4. CASE SnapshotTorn
  <2>1. [value |-> 0, torn |-> TRUE] \in Snapshot
    BY DEF Snapshot
  <2>2. snapshot' # NoFile /\ snapshot'.torn /\ phase' = "done"
    BY <1>4, <2>1, RunPipelineAssumption DEF SnapshotTorn
  <2> QED BY <1>4, <2>2 DEF SnapshotTorn, DriftIsReported
<1>5. CASE WriteJsonl
  <2>1. CASE options.design
    <3>1. snapshot' = NewSnapshot /\ told' = measured /\ phase' = "jsonl"
      BY <1>5, <2>1 DEF WriteJsonl
    <3>2. NewSnapshot \in Snapshot
      BY DEF Snapshot, TypeOK
    <3>3. NewSnapshot # NoFile
      BY <3>2, RunPipelineAssumption
    <3> QED BY <3>1, <3>3 DEF DriftIsReported
  <2>2. CASE ~ options.design
    BY <1>5, <2>2 DEF WriteJsonl, DriftIsReported
  <2> QED BY <2>1, <2>2
<1>6. ASSUME NEW records, NEW torn, WriteJsonlStops(records, torn) PROVE DriftInv'
  BY <1>6 DEF WriteJsonlStops, DriftIsReported
<1>7. CASE Dies
  BY <1>7 DEF Dies, DriftIsReported
<1>8. CASE FilterBaseline \/ BaselineUnreadable \/ NoDesignChange \/ SnapshotUnreadable
             \/ WriteCsv \/ Finish \/ UNCHANGED vars
  BY <1>8 DEF FilterBaseline, BaselineUnreadable, NoDesignChange, SnapshotUnreadable, WriteCsv,
              Finish, vars, DriftIsReported
<1> QED
  BY <1>1, <1>2, <1>3, <1>4, <1>5, <1>6, <1>7, <1>8
  DEF Next, Introduce, Fix, Move, Mark, Redesign

\* A run compares with the metric the last output was written for.
THEOREM DriftReported == Spec => []DriftIsReported
<1>1. Init => DriftInv
  BY DEF Init, DriftInv, DriftIsReported, Ahead
<1>2. TypeOK /\ DriftInv /\ [Next]_vars => DriftInv'
  BY DriftStep
<1>3. DriftInv => DriftIsReported
  BY DEF DriftInv
<1> QED BY <1>1, <1>2, <1>3, TypeCorrect, PTL DEF Spec
=============================================================================
