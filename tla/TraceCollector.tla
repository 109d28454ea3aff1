-------------------------- MODULE TraceCollector --------------------------
(***************************************************************************)
(* `nfr-review run --collector`: an OpenTelemetry Collector runs beside    *)
(* the scan (CollectorManager of src/nfr_review/collector_manager.py, used *)
(* by _run_nfr_scan of cli.py), and the scan reads what it wrote           *)
(* (collectors/otel_trace.py).                                             *)
(*                                                                         *)
(* Runs follow each other.  The child buffers spans, writes them to the    *)
(* temporary file of its run and logs into pipes that nobody reads: once   *)
(* they are full it hangs.  It listens on a fixed port, so that a child    *)
(* left over from an earlier run keeps the next one from starting.  A line *)
(* the child has half written is skipped by the reader, as if not written; *)
(* a child that dies while it writes may leave the file cut within a       *)
(* character, where stop(), unlike the reader, decodes it strictly.        *)
(***************************************************************************)
EXTENDS Naturals, FiniteSets

CONSTANTS Spans, NoFile,
          MaxRuns, PipeSize, MaxFaults  \* bounds; PipeSize: log writes a pipe holds

ASSUME TraceCollectorAssumption ==
  /\ \A S \in SUBSET Spans : S # NoFile
  /\ MaxRuns \in Nat /\ PipeSize \in Nat /\ MaxFaults \in Nat

Runs == 1 .. MaxRuns

VARIABLES
  now,       \* the run under way or the last one, 0 before the first
  phase,     \* "over", "created", "scanning", "stopping", "killing", "cleaning"
  child,     \* of each run: "none", "up", "terminating", "gone"
  buffer,    \* spans it holds
  pipe,      \* log writes it has made
  file,      \* the temporary file: the spans in it, or NoFile
  cut,       \* it ends within a character, and will stay so
  evidence,  \* spans the otel-trace collector read
  read,      \* it has read in this run
  sentIn,    \* of a span: the run in which it was sent, 0 before
  abandoned, \* runs that were killed or whose child SIGKILL did not end in time
  unreadable,\* runs whose file stop() could not stat or open
  faults

vars == <<now, phase, child, buffer, pipe, file, cut, evidence, read, sentIn,
          abandoned, unreadable, faults>>
traces == <<file, cut>>
ended == <<abandoned, unreadable>>

Init ==
  /\ now = 0 /\ phase = "over" /\ read = FALSE
  /\ child = [r \in Runs |-> "none"] /\ buffer = [r \in Runs |-> {}]
  /\ pipe = [r \in Runs |-> 0] /\ file = [r \in Runs |-> NoFile]
  /\ cut = [r \in Runs |-> FALSE] /\ evidence = [r \in Runs |-> {}]
  /\ sentIn = [x \in Spans |-> 0]
  /\ abandoned = {} /\ unreadable = {} /\ faults = 0

Fault == faults < MaxFaults /\ faults' = faults + 1

Alive(r) == child[r] \in {"up", "terminating"}
Hangs(r) == pipe[r] = PipeSize

(***************************************************************************)
(* CollectorManager.start: mkstemp, then Popen.  A child that finds the    *)
(* port taken exits at once, and nobody looks.                             *)
(***************************************************************************)
CreateNamedTraceFile ==  \* mutant: a fixed path, left as an earlier run left it
  /\ phase = "over" /\ now < MaxRuns
  /\ now' = now + 1 /\ phase' = "created" /\ read' = FALSE
  /\ file' = [file EXCEPT ![now + 1] =
                IF now = 0 THEN {} ELSE IF file[now] = NoFile THEN {} ELSE file[now]]
  /\ UNCHANGED <<child, buffer, pipe, cut, evidence, sentIn, ended, faults>>

CreateTraceFile ==
  /\ phase = "over" /\ now < MaxRuns
  /\ now' = now + 1 /\ phase' = "created" /\ read' = FALSE
  /\ file' = [file EXCEPT ![now + 1] = {}]
  /\ UNCHANGED <<child, buffer, pipe, cut, evidence, sentIn, ended, faults>>

Popen ==
  /\ phase = "created" /\ phase' = "scanning"
  /\ child' = [child EXCEPT ![now] =
                 IF \E r \in Runs : Alive(r) THEN "gone" ELSE "up"]
  /\ UNCHANGED <<now, buffer, pipe, traces, evidence, read, sentIn, ended, faults>>

StartOutsideTry ==  \* mutant: start() is called before the try
  /\ phase = "created" /\ Fault
  /\ phase' = "over"
  /\ UNCHANGED <<now, child, buffer, pipe, traces, evidence, read, sentIn, ended>>

\* The finally clause runs: stop() finds no process and returns.
PopenFails ==
  /\ phase = "created" /\ Fault
  /\ phase' = "cleaning"
  /\ UNCHANGED <<now, child, buffer, pipe, traces, evidence, read, sentIn, ended>>

(***************************************************************************)
(* The child (external).  An application sends its spans to whoever        *)
(* listens.  The pipes of a program that is gone kill the child that       *)
(* writes to them.                                                         *)
(***************************************************************************)
Send(x, r) ==
  /\ sentIn[x] = 0 /\ child[r] = "up" /\ ~ Hangs(r)
  /\ sentIn' = [sentIn EXCEPT ![x] = now]
  /\ buffer' = [buffer EXCEPT ![r] = @ \cup {x}]
  /\ UNCHANGED <<now, phase, child, pipe, traces, evidence, read, ended, faults>>

\* Writing to a file that was removed reaches nobody.
Written(r) ==
  file' = [file EXCEPT ![r] = IF @ = NoFile THEN NoFile ELSE @ \cup buffer[r]]

Flush(r) ==
  /\ Alive(r) /\ ~ Hangs(r) /\ buffer[r] # {}
  /\ Written(r) /\ buffer' = [buffer EXCEPT ![r] = {}]
  /\ UNCHANGED <<now, phase, child, pipe, cut, evidence, read, sentIn, ended, faults>>

\* A child that dies before its time may do so halfway through a write.
Dies(r) ==
  /\ child' = [child EXCEPT ![r] = "gone"]
  /\ \E within \in BOOLEAN :
       /\ within => buffer[r] # {} /\ file[r] # NoFile
       /\ cut' = [cut EXCEPT ![r] = within]
  /\ UNCHANGED <<buffer, file>>

Log(r) ==
  /\ Alive(r) /\ ~ Hangs(r)
  /\ IF r = now /\ phase # "over"
     THEN pipe' = [pipe EXCEPT ![r] = @ + 1] /\ UNCHANGED <<child, buffer, traces>>
     ELSE Dies(r) /\ UNCHANGED pipe
  /\ UNCHANGED <<now, phase, evidence, read, sentIn, ended, faults>>

Terminate(r) ==
  /\ child[r] = "terminating" /\ ~ Hangs(r)
  /\ Written(r) /\ buffer' = [buffer EXCEPT ![r] = {}]
  /\ child' = [child EXCEPT ![r] = "gone"]
  /\ UNCHANGED <<now, phase, pipe, cut, evidence, read, sentIn, ended, faults>>

Crash(r) ==
  /\ Alive(r) /\ Fault /\ Dies(r)
  /\ UNCHANGED <<now, phase, pipe, evidence, read, sentIn, ended>>

(***************************************************************************)
(* The scan; the otel-trace collector reads the file while the child       *)
(* still runs.  An EngineError ends it early.                              *)
(***************************************************************************)
ReadTraces ==
  /\ phase = "scanning" /\ ~ read
  /\ read' = TRUE /\ evidence' = [evidence EXCEPT ![now] = file[now]]
  /\ UNCHANGED <<now, phase, child, buffer, pipe, traces, sentIn, ended, faults>>

\* stop() sends SIGTERM.
ScanEnds ==
  /\ phase = "scanning" /\ phase' = "stopping"
  /\ IF read THEN UNCHANGED faults ELSE Fault
  /\ child' = [child EXCEPT ![now] = IF @ = "up" THEN "terminating" ELSE @]
  /\ UNCHANGED <<now, buffer, pipe, traces, evidence, read, sentIn, ended>>

(***************************************************************************)
(* CollectorManager.stop.  When the child has ended it counts the lines of *)
(* the file for its log.  Whatever stop() raises skips cleanup() and ends  *)
(* the program.                                                            *)
(***************************************************************************)
ChildEnded == phase \in {"stopping", "killing"} /\ child[now] = "gone"

CountLines ==
  /\ ChildEnded /\ ~ cut[now]
  /\ phase' = "cleaning"
  /\ UNCHANGED <<now, child, buffer, pipe, traces, evidence, read, sentIn, ended, faults>>

\* UnicodeDecodeError.
CutFileRaises ==
  /\ ChildEnded /\ cut[now]
  /\ phase' = "over"
  /\ UNCHANGED <<now, child, buffer, pipe, traces, evidence, read, sentIn, ended, faults>>

\* OSError, of stat or open.
UnreadableFileRaises ==
  /\ ChildEnded /\ Fault
  /\ phase' = "over" /\ unreadable' = unreadable \cup {now}
  /\ UNCHANGED <<now, child, buffer, pipe, traces, evidence, read, sentIn, abandoned>>

WaitForever == FALSE  \* mutant: wait() without a time-out

\* Ten seconds have passed: SIGKILL is sent.
WaitTimesOut ==
  /\ phase = "stopping" /\ child[now] # "gone"
  /\ phase' = "killing"
  /\ UNCHANGED <<now, child, buffer, pipe, traces, evidence, read, sentIn, ended, faults>>

\* The kernel delivers it.
Killed ==
  /\ phase = "killing" /\ Alive(now) /\ Dies(now)
  /\ UNCHANGED <<now, phase, pipe, evidence, read, sentIn, ended, faults>>

\* The second wait times out: TimeoutExpired.
StopRaises ==
  /\ phase = "killing" /\ child[now] # "gone" /\ Fault
  /\ phase' = "over" /\ abandoned' = abandoned \cup {now}
  /\ UNCHANGED <<now, child, buffer, pipe, traces, evidence, read, sentIn, unreadable>>

Cleanup ==
  /\ phase = "cleaning" /\ phase' = "over"
  /\ file' = [file EXCEPT ![now] = NoFile]
  /\ UNCHANGED <<now, child, buffer, pipe, cut, evidence, read, sentIn, ended, faults>>

ProgramKilled ==
  /\ phase # "over" /\ Fault
  /\ phase' = "over" /\ abandoned' = abandoned \cup {now}
  /\ UNCHANGED <<now, child, buffer, pipe, traces, evidence, read, sentIn, unreadable>>

Program ==
  \/ Popen \/ ReadTraces \/ ScanEnds \/ WaitTimesOut
  \/ CountLines \/ CutFileRaises \/ Cleanup

Next ==
  \/ CreateTraceFile \/ Program \/ PopenFails \/ StopRaises \/ UnreadableFileRaises
  \/ ProgramKilled \/ Killed
  \/ \E r \in Runs : \/ Flush(r) \/ Log(r) \/ Terminate(r) \/ Crash(r)
                     \/ \E x \in Spans : Send(x, r)

\* The program runs on, its waits time out, and the kernel kills.
Fairness == WF_vars(Program) /\ WF_vars(Killed)

Spec == Init /\ [][Next]_vars /\ Fairness

-----------------------------------------------------------------------------
\* Every variable has its type.
TypeOK ==
  /\ now \in 0 .. MaxRuns
  /\ phase \in {"over", "created", "scanning", "stopping", "killing", "cleaning"}
  /\ child \in [Runs -> {"none", "up", "terminating", "gone"}]
  /\ buffer \in [Runs -> SUBSET Spans] /\ pipe \in [Runs -> 0 .. PipeSize]
  /\ file \in [Runs -> {NoFile} \cup SUBSET Spans] /\ cut \in [Runs -> BOOLEAN]
  /\ evidence \in [Runs -> SUBSET Spans]
  /\ read \in BOOLEAN /\ sentIn \in [Spans -> 0 .. MaxRuns]
  /\ abandoned \subseteq Runs /\ unreadable \subseteq Runs /\ faults \in Nat

\* A run that is over has outlived its child, unless the program was killed or not
\* even SIGKILL ended the child in time; and it has removed its file, whether Popen,
\* the engine or the child failed, unless the child died within a character that it
\* was writing or the operating system would not open the file: these leave stop()
\* as exceptions.  (_run_nfr_scan, stop, cleanup)
NothingLeftBehind ==
  \A r \in Runs :
    r <= now /\ (r = now => phase = "over") /\ r \notin abandoned =>
      /\ ~ Alive(r)
      /\ file[r] = NoFile \/ cut[r] \/ r \in unreadable

\* The rules see no span of an earlier run, though a child left over from it may
\* still be listening and writing.
EvidenceIsOwn ==
  \A r \in Runs : \A x \in evidence[r] : sentIn[x] = r

\* Every run ends, though a child whose pipes are full heeds no SIGTERM.
\* (stop)
RunsEnd == []<>(phase = "over")
=============================================================================
