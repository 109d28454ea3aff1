----------------------- MODULE TraceCollectorProofs -----------------------
(***************************************************************************)
(* What a run leaves behind, whatever fails, and that it reads its own     *)
(* traces.                                                                 *)
(*                                                                         *)
(* Both properties need to know what holds in the middle of a run (Life):  *)
(* its file exists until Cleanup, its child is gone before Cleanup, and    *)
(* runs to come have nothing.  EvidenceIsOwn needs in addition that the    *)
(* spans on their way to the file of the run under way are its own (Own).  *)
(***************************************************************************)
EXTENDS TraceCollector, TLAPS

Life ==
  /\ phase # "over" => now \in Runs /\ file[now] # NoFile
  /\ phase = "created" => child[now] = "none"
  /\ phase = "cleaning" => ~ Alive(now)
  /\ \A r \in Runs : r > now => child[r] = "none" /\ buffer[r] = {}

Own ==
  now \in Runs =>
    /\ \A x \in buffer[now] : sentIn[x] = now
    /\ file[now] # NoFile => \A x \in file[now] : sentIn[x] = now

Inv == TypeOK /\ Life

LEMMA TypeInit == Init => TypeOK
<1>1. 0 \in 0 .. MaxRuns /\ 0 \in 0 .. PipeSize BY TraceCollectorAssumption
<1> SUFFICES ASSUME Init PROVE TypeOK
  OBVIOUS
<1>2. /\ child \in [Runs -> {"none", "up", "terminating", "gone"}]
      /\ buffer \in [Runs -> SUBSET Spans] /\ evidence \in [Runs -> SUBSET Spans]
      /\ cut \in [Runs -> BOOLEAN]
      /\ file \in [Runs -> {NoFile} \cup SUBSET Spans]
  BY DEF Init
<1>3. pipe \in [Runs -> 0 .. PipeSize] /\ sentIn \in [Spans -> 0 .. MaxRuns]
  BY <1>1, Zenon DEF Init
<1> QED BY <1>1, <1>2, <1>3 DEF Init, TypeOK

\* Type correctness needs Life where the file is read.
LEMMA TypeStep == ASSUME Inv, [Next]_vars PROVE TypeOK'
<1> USE TraceCollectorAssumption DEF Inv, TypeOK, Fault, traces, ended
<1>1. CASE CreateTraceFile
  <2>1. now + 1 \in 0 .. MaxRuns BY <1>1 DEF CreateTraceFile
  <2> QED BY <1>1, <2>1 DEF CreateTraceFile
<1>2. CASE Popen BY <1>2 DEF Popen
<1>3. CASE PopenFails BY <1>3 DEF PopenFails
<1>4. ASSUME NEW r \in Runs, NEW x \in Spans, Send(x, r) PROVE TypeOK'
  BY <1>4 DEF Send
<1>5. ASSUME NEW r \in Runs, Flush(r) PROVE TypeOK'
  BY <1>5 DEF Flush, Written
<1>6. ASSUME NEW r \in Runs, Log(r) PROVE TypeOK'
  <2>1. pipe[r] \in 0 .. PipeSize /\ pipe[r] # PipeSize
    BY <1>6 DEF Log, Hangs
  <2>2. pipe[r] + 1 \in 0 .. PipeSize
    BY <2>1
  <2> QED BY <1>6, <2>2 DEF Log, Dies
<1>7. ASSUME NEW r \in Runs, Terminate(r) PROVE TypeOK'
  BY <1>7 DEF Terminate, Written
<1>8. ASSUME NEW r \in Runs, Crash(r) PROVE TypeOK'
  BY <1>8 DEF Crash, Dies
<1>9. CASE ReadTraces
  <2>1. now \in Runs /\ file[now] \in SUBSET Spans
    BY <1>9 DEF ReadTraces, Life
  <2> QED BY <1>9, <2>1 DEF ReadTraces
<1>10. CASE ScanEnds
  <2>1. faults' \in Nat
    <3>1. CASE read BY <1>10, <3>1, Zenon DEF ScanEnds
    <3>2. CASE ~ read
      <4>1. faults' = faults + 1 BY <1>10, <3>2, Zenon DEF ScanEnds
      <4> QED BY <4>1
    <3> QED BY <3>1, <3>2
  <2>2. child' \in [Runs -> {"none", "up", "terminating", "gone"}]
    BY <1>10 DEF ScanEnds
  <2>3. phase' = "stopping" /\ UNCHANGED <<now, buffer, pipe, file, cut, evidence, read,
                                           sentIn, abandoned, unreadable>>
    BY <1>10 DEF ScanEnds
  <2> QED BY <2>1, <2>2, <2>3
<1>11. CASE CountLines BY <1>11 DEF CountLines, ChildEnded
<1>12. CASE WaitTimesOut BY <1>12 DEF WaitTimesOut
<1>13. CASE Killed
  <2>1. now \in Runs BY <1>13 DEF Killed, Life
  <2> QED BY <1>13, <2>1 DEF Killed, Dies
<1>14. CASE StopRaises BY <1>14 DEF StopRaises, Runs, Life
<1>15. CASE Cleanup BY <1>15 DEF Cleanup
<1>16. CASE ProgramKilled BY <1>16 DEF ProgramKilled, Runs, Life
<1>17. CASE CutFileRaises BY <1>17 DEF CutFileRaises, ChildEnded
<1>18. CASE UnreadableFileRaises
  <2>1. now \in Runs BY <1>18 DEF UnreadableFileRaises, ChildEnded, Life
  <2> QED BY <1>18, <2>1 DEF UnreadableFileRaises, ChildEnded
<1>19. CASE UNCHANGED vars BY <1>19 DEF vars
<1> QED
  BY <1>1, <1>2, <1>3, <1>4, <1>5, <1>6, <1>7, <1>8, <1>9, <1>10, <1>11, <1>12,
     <1>13, <1>14, <1>15, <1>16, <1>17, <1>18, <1>19 DEF Next, Program

LEMMA LifeInit == Init => Life
  BY DEF Init, Life, Runs

\* The file of a run is created before its child and outlives it.
LEMMA LifeStep == ASSUME Inv, [Next]_vars PROVE Life'
<1> USE DEF Inv, Life, Alive, traces, ended
<1> now \in Nat /\ \A r \in Runs : r \in Nat BY TraceCollectorAssumption DEF TypeOK, Runs
<1>1. CASE CreateTraceFile
  <2>1. now + 1 \in Runs /\ now' = now + 1 /\ file'[now + 1] = {}
    BY <1>1, TraceCollectorAssumption DEF CreateTraceFile, TypeOK, Runs
  <2>2. {} # NoFile BY TraceCollectorAssumption
  <2>3. child[now + 1] = "none" /\ \A r \in Runs : r > now + 1 => r > now
    BY <2>1
  <2> QED BY <1>1, <2>1, <2>2, <2>3 DEF CreateTraceFile
<1>2. CASE Popen BY <1>2 DEF Popen, TypeOK
<1>3. CASE PopenFails BY <1>3 DEF PopenFails, TypeOK
<1>4. ASSUME NEW r \in Runs, NEW x \in Spans, Send(x, r) PROVE Life'
  BY <1>4 DEF Send, TypeOK
<1>5. ASSUME NEW r \in Runs, Flush(r) PROVE Life'
  <2>1. \A q \in Runs : file[q] # NoFile => file'[q] # NoFile
    BY <1>5, TraceCollectorAssumption DEF Flush, Written, TypeOK
  <2> QED BY <1>5, <2>1 DEF Flush, TypeOK
<1>6. ASSUME NEW r \in Runs, Log(r) PROVE Life'
  BY <1>6 DEF Log, Dies, TypeOK
<1>7. ASSUME NEW r \in Runs, Terminate(r) PROVE Life'
  <2>1. \A q \in Runs : file[q] # NoFile => file'[q] # NoFile
    BY <1>7, TraceCollectorAssumption DEF Terminate, Written, TypeOK
  <2> QED BY <1>7, <2>1 DEF Terminate, TypeOK
<1>8. ASSUME NEW r \in Runs, Crash(r) PROVE Life'
  BY <1>8 DEF Crash, Dies, TypeOK
<1>9. CASE ReadTraces BY <1>9 DEF ReadTraces
<1>10. CASE ScanEnds BY <1>10 DEF ScanEnds, TypeOK
<1>11. CASE CountLines BY <1>11 DEF CountLines, ChildEnded, TypeOK
<1>12. CASE WaitTimesOut BY <1>12 DEF WaitTimesOut
<1>13. CASE Killed BY <1>13 DEF Killed, Dies, TypeOK
<1>14. CASE StopRaises BY <1>14 DEF StopRaises
<1>15. CASE Cleanup BY <1>15 DEF Cleanup
<1>16. CASE ProgramKilled BY <1>16 DEF ProgramKilled
<1>17. CASE CutFileRaises BY <1>17 DEF CutFileRaises, ChildEnded
<1>18. CASE UnreadableFileRaises BY <1>18 DEF UnreadableFileRaises, ChildEnded, Runs
<1>19. CASE UNCHANGED vars BY <1>19 DEF vars
<1> QED
  BY <1>1, <1>2, <1>3, <1>4, <1>5, <1>6, <1>7, <1>8, <1>9, <1>10, <1>11, <1>12,
     <1>13, <1>14, <1>15, <1>16, <1>17, <1>18, <1>19 DEF Next, Program

LEMMA Invariant == Spec => []Inv
<1>1. Init => Inv BY TypeInit, LifeInit DEF Inv
<1>2. Inv /\ [Next]_vars => Inv' BY TypeStep, LifeStep DEF Inv
<1> QED BY <1>1, <1>2, PTL DEF Spec

-----------------------------------------------------------------------------
\* What is on its way to the file of the run under way was sent in it.
LEMMA OwnStep == ASSUME Inv, Own, [Next]_vars PROVE Own'
<1> USE DEF Inv, Own, traces, ended
<1>1. CASE CreateTraceFile
  <2>1. now + 1 \in Runs /\ now' = now + 1 /\ file'[now + 1] = {}
    BY <1>1, TraceCollectorAssumption DEF CreateTraceFile, TypeOK, Runs
  <2>2. buffer'[now + 1] = {}
    BY <1>1, <2>1 DEF CreateTraceFile, Life, TypeOK, Runs
  <2> QED BY <2>1, <2>2
<1>2. ASSUME NEW r \in Runs, NEW x \in Spans, Send(x, r) PROVE Own'
  <2>1. /\ \A y \in Spans : y # x => sentIn'[y] = sentIn[y]
        /\ sentIn'[x] = now /\ sentIn[x] = 0
    BY <1>2 DEF Send, TypeOK
  <2>2. ASSUME now \in Runs PROVE buffer[now] \subseteq Spans /\ buffer'[now] \subseteq buffer[now] \cup {x}
    BY <1>2, <2>2 DEF Send, TypeOK
  <2>3. ASSUME now \in Runs, file[now] # NoFile PROVE file[now] \subseteq Spans
    BY <2>3 DEF TypeOK
  <2> QED BY <1>2, <2>1, <2>2, <2>3 DEF Send
<1>3. ASSUME NEW r \in Runs, Flush(r) PROVE Own'
  <2>1. \A q \in Runs : /\ file'[q] # NoFile => file[q] # NoFile
                        /\ file[q] # NoFile => file'[q] \subseteq file[q] \cup buffer[q]
                        /\ buffer'[q] \subseteq buffer[q]
    BY <1>3, TraceCollectorAssumption DEF Flush, Written, TypeOK
  <2> QED BY <1>3, <2>1 DEF Flush
<1>4. ASSUME NEW r \in Runs, Terminate(r) PROVE Own'
  <2>1. \A q \in Runs : /\ file'[q] # NoFile => file[q] # NoFile
                        /\ file[q] # NoFile => file'[q] \subseteq file[q] \cup buffer[q]
                        /\ buffer'[q] \subseteq buffer[q]
    BY <1>4, TraceCollectorAssumption DEF Terminate, Written, TypeOK
  <2> QED BY <1>4, <2>1 DEF Terminate
<1>5. CASE Cleanup BY <1>5 DEF Cleanup, TypeOK
<1>6. CASE UNCHANGED <<now, buffer, file, sentIn>> BY <1>6
<1> QED
  BY <1>1, <1>2, <1>3, <1>4, <1>5, <1>6
  DEF Next, Program, vars, Popen, PopenFails, Log, Crash, ReadTraces, ScanEnds,
      CountLines, CutFileRaises, UnreadableFileRaises, WaitTimesOut, Killed, StopRaises,
      ProgramKilled, Dies

\* So what is read was, too; a span that is sent now was not read before.
LEMMA EvidenceStep == ASSUME Inv, Own, EvidenceIsOwn, [Next]_vars PROVE EvidenceIsOwn'
<1> USE DEF Inv, EvidenceIsOwn, traces, ended
<1>1. ASSUME NEW r \in Runs, NEW x \in Spans, Send(x, r) PROVE EvidenceIsOwn'
  <2>1. /\ \A y \in Spans : y # x => sentIn'[y] = sentIn[y]
        /\ sentIn[x] = 0 /\ evidence' = evidence
    BY <1>1 DEF Send, TypeOK
  <2>2. \A q \in Runs : evidence[q] \subseteq Spans /\ q # 0
    BY DEF TypeOK, Runs
  <2> QED BY <2>1, <2>2
<1>2. CASE ReadTraces
  <2>1. now \in Runs /\ file[now] # NoFile BY <1>2 DEF ReadTraces, Life
  <2>2. \A x \in file[now] : sentIn[x] = now BY <2>1 DEF Own
  <2> QED BY <1>2, <2>1, <2>2 DEF ReadTraces, TypeOK
<1>3. CASE UNCHANGED <<evidence, sentIn>> BY <1>3
<1> QED
  BY <1>1, <1>2, <1>3
  DEF Next, Program, vars, CreateTraceFile, Popen, PopenFails, Flush, Log, Terminate,
      Crash, ScanEnds, CountLines, CutFileRaises, UnreadableFileRaises, WaitTimesOut, Killed,
      StopRaises, Cleanup, ProgramKilled, Dies

\* The last step of a run is Cleanup, unless the run was abandoned or stop() raised
\* when the child had ended.
LEMMA CleanStep == ASSUME Inv, Inv', NothingLeftBehind, [Next]_vars PROVE NothingLeftBehind'
<1> USE DEF Inv, NothingLeftBehind, Alive, traces, ended
<1> DEFINE Cleaned(r) == ~ Alive(r) /\ (file[r] = NoFile \/ cut[r] \/ r \in unreadable)
<1> SUFFICES ASSUME NEW q \in Runs, q <= now', q = now' => phase' = "over", q \notin abandoned'
             PROVE  Cleaned(q)'
  OBVIOUS
<1>0. now \in Nat /\ q \in Nat /\ q # 0 BY TraceCollectorAssumption DEF TypeOK, Runs
<1>1. CASE CreateTraceFile
  <2>1. q <= now /\ q # now + 1 BY <1>0, <1>1 DEF CreateTraceFile
  <2> QED BY <1>1, <2>1 DEF CreateTraceFile, TypeOK
<1>2. CASE Popen BY <1>2 DEF Popen, TypeOK
<1>3. CASE PopenFails BY <1>3 DEF PopenFails
<1>4. ASSUME NEW r \in Runs, NEW x \in Spans, Send(x, r) PROVE Cleaned(q)'
  BY <1>4 DEF Send
<1>5. ASSUME NEW r \in Runs, Flush(r) PROVE Cleaned(q)'
  BY <1>5 DEF Flush, Written, TypeOK
<1>6. ASSUME NEW r \in Runs, Log(r) PROVE Cleaned(q)'
  BY <1>6 DEF Log, Dies, TypeOK
<1>7. ASSUME NEW r \in Runs, Terminate(r) PROVE Cleaned(q)'
  BY <1>7 DEF Terminate, Written, TypeOK
<1>8. ASSUME NEW r \in Runs, Crash(r) PROVE Cleaned(q)'
  BY <1>8 DEF Crash, Dies, TypeOK
<1>9. CASE ReadTraces BY <1>9 DEF ReadTraces
<1>10. CASE ScanEnds BY <1>10 DEF ScanEnds, TypeOK
<1>11. CASE CountLines BY <1>11 DEF CountLines, ChildEnded
<1>12. CASE WaitTimesOut BY <1>12 DEF WaitTimesOut
<1>13. CASE Killed BY <1>13 DEF Killed, Dies, TypeOK
<1>14. CASE StopRaises BY <1>14 DEF StopRaises
<1>15. CASE Cleanup BY <1>15 DEF Cleanup, Life, TypeOK
<1>16. CASE ProgramKilled BY <1>16 DEF ProgramKilled
<1>17. CASE CutFileRaises BY <1>17 DEF CutFileRaises, ChildEnded
<1>18. CASE UnreadableFileRaises BY <1>18 DEF UnreadableFileRaises, ChildEnded, Runs
<1>19. CASE UNCHANGED vars BY <1>19 DEF vars
<1> QED
  BY <1>1, <1>2, <1>3, <1>4, <1>5, <1>6, <1>7, <1>8, <1>9, <1>10, <1>11, <1>12,
     <1>13, <1>14, <1>15, <1>16, <1>17, <1>18, <1>19 DEF Next, Program

\* A run that is over has left no child behind, for any number of runs, spans and
\* failures, as long as it was not killed itself and SIGKILL reached the child in time;
\* nor its file, unless counting its lines raised.
THEOREM CleanedUp == Spec => []NothingLeftBehind
<1>1. Init => NothingLeftBehind
  BY DEF Init, NothingLeftBehind, Runs
<1>2. Inv /\ Inv' /\ NothingLeftBehind /\ [Next]_vars => NothingLeftBehind'
  BY CleanStep
<1> QED BY <1>1, <1>2, Invariant, PTL DEF Spec

\* No run reads a span that was sent in another.
THEOREM OwnEvidence == Spec => []EvidenceIsOwn
<1>1. Init => Own /\ EvidenceIsOwn
  BY DEF Init, Own, EvidenceIsOwn, Runs
<1>2. Inv /\ Own /\ EvidenceIsOwn /\ [Next]_vars => Own' /\ EvidenceIsOwn'
  BY OwnStep, EvidenceStep
<1> QED BY <1>1, <1>2, Invariant, PTL DEF Spec

\* Every variable keeps its type; in particular the traces are never read from
\* a file that is not there.
THEOREM TypeCorrect == Spec => []TypeOK
  BY Invariant, PTL DEF Inv
=============================================================================
