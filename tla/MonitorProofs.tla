--------------------------- MODULE MonitorProofs ---------------------------
(***************************************************************************)
(* Proofs about Monitor, for any clients, batches, limits and baseline.    *)
(***************************************************************************)
EXTENDS Monitor, FiniteSetTheorems, SequenceTheorems, WellFoundedInduction, TLAPS

(***************************************************************************)
(* The inductive invariant, in parts.                                      *)
(***************************************************************************)

\* While the loop runs, seen is what was reported since the last eviction.
DedupInv ==
  /\ loop = "waiting" => ~ failed
  /\ Deduplicate =>
       \A f \in Interactions :
         /\ lines[f] - epoch[f] \in {0, 1}
         /\ loop = "waiting" => (f \in seen <=> lines[f] - epoch[f] = 1)

\* Once the loop has ended, only handlers recorded in late can add spans.
LateInv ==
  loop # "waiting" =>
    /\ Reading \subseteq late
    /\ ~ failed /\ late = {} => spans = <<>>

\* Every span of a window came in a batch that is in it as a whole.
HoldsBatches(w) ==
  \A i \in DOMAIN w : \E batch \in Batches :
    w[i] \in SpansOf(batch) /\ SpansOf(batch) \subseteq SpansOf(w)

IInv ==
  /\ TypeOK
  /\ SpansConserved
  /\ RequestsAccounted
  /\ QueueBounded
  /\ DedupInv
  /\ NothingSuppressed
  /\ AlertsAreReal
  /\ LateInv
  /\ HoldsBatches(spans)

-----------------------------------------------------------------------------
\* A set of positions that is not empty holds its greatest.
LEMMA GreatestPosition ==
  ASSUME NEW n \in Nat, NEW T \in SUBSET (1 .. n), T # {}
  PROVE  \E l \in T : \A j \in T : j <= l
<1>. DEFINE R == {mm \in Nat \X Nat : mm[1] < mm[2]}
            Distance == {d \in Nat : \E l \in T : d = n - l}
<1>1. Distance \subseteq Nat /\ Distance # {}
  <2>1. PICK i \in T : TRUE
    OBVIOUS
  <2>2. n - i \in Nat
    BY <2>1
  <2>. QED
    BY <2>2
<1>2. IsWellFoundedOn(R, Nat)
  BY NatLessThanWellFounded DEF OpToRel
<1>3. PICK d \in Distance : \A e \in Distance : <<e, d>> \notin R
  <2>. HIDE DEF R, Distance
  <2>. QED
    BY <1>1, <1>2, WFMin
<1>4. PICK l \in T : d = n - l
  OBVIOUS
<1>5. ASSUME NEW j \in T, j > l PROVE FALSE
  <2>1. j \in 1 .. n /\ l \in 1 .. n
    OBVIOUS
  <2>2. n - j \in Nat /\ n - l \in Nat /\ n - j < n - l
    BY <1>5, <2>1
  <2>3. <<n - j, d>> \in R /\ n - j \in Distance
    BY <1>4, <2>2
  <2>. HIDE DEF R, Distance
  <2>. QED
    BY <1>3, <2>3
<1>6. \A j \in T : j <= l
  <2>1. \A j \in T : j \in 1 .. n /\ l \in 1 .. n
    OBVIOUS
  <2>. QED
    BY <1>5, <2>1
<1>. QED
  BY <1>6

\* Apart, so that the solver meets the order without the sequence.
LEMMA NotBelow ==
  ASSUME NEW n \in Nat, NEW j \in 1 .. n, NEW l \in 1 .. n, j > l
  PROVE  ~ (j <= l)
OBVIOUS

\* One span of an id stands for it.
LEMMA LastIndexed ==
  ASSUME NEW S, NEW w \in Seq(S), NEW i \in DOMAIN w, w[i].id # ""
  PROVE  \E l \in DOMAIN w : w[l].id = w[i].id /\ Indexed(w, l)
<1>. DEFINE T == {l \in DOMAIN w : w[l].id = w[i].id}
<1>1. PICK n \in Nat : DOMAIN w = 1 .. n
  BY LenProperties
<1>2. T \in SUBSET (1 .. n) /\ T # {}
  BY <1>1
<1>3. PICK l \in T : \A j \in T : j <= l
  <2>. HIDE DEF T
  <2>. QED
    BY <1>2, GreatestPosition
<1>4. ASSUME NEW j \in DOMAIN w, j > l PROVE w[j].id # w[l].id
  <2>1. j \in 1 .. n /\ l \in 1 .. n
    BY <1>1, <1>2
  <2>2. ~ (j <= l)
    <3>. HIDE DEF T
    <3>. QED
      BY <1>4, <2>1, NotBelow, Zenon
  <2>3. j \notin T
    <3>. HIDE DEF T
    <3>. QED
      BY <1>3, <2>2, Zenon
  <2>. QED
    BY <2>3
<1>. QED
  BY <1>4 DEF Indexed

\* Two windows together hold the spans of both.
LEMMA SpansOfConcat ==
  ASSUME NEW S, NEW v \in Seq(S), NEW w \in Seq(S)
  PROVE  SpansOf(v \o w) = SpansOf(v) \cup SpansOf(w)
<1>. PICK m \in Nat, n \in Nat : m = Len(v) /\ n = Len(w)
  BY LenProperties
<1>0. DOMAIN v = 1 .. m /\ DOMAIN w = 1 .. n /\ DOMAIN (v \o w) = 1 .. (m + n)
  BY LenProperties, ConcatProperties
<1>1. \A i \in 1 .. m + n : (v \o w)[i] = IF i <= m THEN v[i] ELSE w[i - m]
  BY ConcatProperties
<1>2. ASSUME NEW i \in 1 .. m + n PROVE (v \o w)[i] \in SpansOf(v) \cup SpansOf(w)
  <2>1. CASE i <= m
    <3>1. i \in DOMAIN v
      BY <1>0, <2>1
    <3>. QED
      BY <1>1, <2>1, <3>1 DEF SpansOf
  <2>2. CASE ~ (i <= m)
    <3>1. i - m \in DOMAIN w
      BY <1>0, <2>2
    <3>. QED
      BY <1>1, <2>2, <3>1 DEF SpansOf
  <2>. QED
    BY <2>1, <2>2
<1>3. ASSUME NEW i \in 1 .. m PROVE v[i] \in SpansOf(v \o w)
  <2>1. i \in 1 .. m + n /\ i <= m
    OBVIOUS
  <2>2. (v \o w)[i] = v[i] /\ i \in DOMAIN (v \o w)
    BY <1>0, <1>1, <2>1
  <2>. QED
    BY <2>2 DEF SpansOf
<1>4. ASSUME NEW i \in 1 .. n PROVE w[i] \in SpansOf(v \o w)
  <2>1. m + i \in 1 .. m + n /\ ~ (m + i <= m) /\ m + i - m = i
    OBVIOUS
  <2>2. (v \o w)[m + i] = w[i] /\ m + i \in DOMAIN (v \o w)
    BY <1>0, <1>1, <2>1
  <2>. QED
    BY <2>2 DEF SpansOf
<1>. QED
  BY <1>0, <1>2, <1>3, <1>4 DEF SpansOf

\* A window that takes in a batch, and an empty one, hold their batches.
LEMMA TakesBatches ==
  /\ HoldsBatches(<<>>)
  /\ \A w \in Seq(BodySpans), batch \in Batches \cap Seq(BodySpans) :
       HoldsBatches(w) => HoldsBatches(w \o batch)
<1>1. HoldsBatches(<<>>)
  BY DEF HoldsBatches
<1>2. ASSUME NEW w \in Seq(BodySpans), HoldsBatches(w),
             NEW batch \in Batches \cap Seq(BodySpans)
      PROVE  HoldsBatches(w \o batch)
  <2>1. SpansOf(w \o batch) = SpansOf(w) \cup SpansOf(batch)
    BY <1>2, SpansOfConcat, Zenon
  <2>2. ASSUME NEW s \in SpansOf(w)
        PROVE  \E b \in Batches : s \in SpansOf(b) /\ SpansOf(b) \subseteq SpansOf(w)
    BY <1>2, <2>2 DEF HoldsBatches, SpansOf
  <2>3. ASSUME NEW s \in SpansOf(w \o batch)
        PROVE  \E b \in Batches : s \in SpansOf(b) /\ SpansOf(b) \subseteq SpansOf(w \o batch)
    BY <2>1, <2>2, <2>3, Zenon
  <2>. QED
    BY <2>3 DEF HoldsBatches, SpansOf
<1>. QED
  BY <1>1, <1>2

\* What is taken for a leaf call came apart from its caller: a caller in the same batch
\* is in the window, where another span has displaced it in the index.
LEMMA LeafSentApart ==
  ASSUME NEW w \in Seq(BodySpans), HoldsBatches(w), NEW j \in DOMAIN w, LeafCall(w, j)
  PROVE  SentApart(w[j])
<1>1. PICK batch \in Batches : w[j] \in SpansOf(batch) /\ SpansOf(batch) \subseteq SpansOf(w)
  BY DEF HoldsBatches
<1>2. ASSUME NEW p \in SpansOf(batch), CallsAcross(p, w[j])
      PROVE  \E q \in BodySpans : q # p /\ q.id = p.id
  <2>1. PICK i \in DOMAIN w : p = w[i]
    BY <1>1 DEF SpansOf
  <2>2. PICK l \in DOMAIN w : w[l].id = w[i].id /\ Indexed(w, l)
    BY <1>2, <2>1, LastIndexed, Zenon DEF CallsAcross
  <2>3. ASSUME w[l] = p PROVE FALSE
    <3>1. CrossService(w, l, j)
      BY <1>2, <2>2, <2>3 DEF CallsAcross, CrossService
    <3>2. w[j].id \in CrossChildIds(w)
      BY <3>1 DEF CrossChildIds
    <3>. QED
      BY <3>2 DEF LeafCall
  <2>4. w[l] \in BodySpans
    OBVIOUS
  <2>. QED
    BY <2>1, <2>2, <2>3, <2>4
<1>. QED
  BY <1>1, <1>2 DEF SentApart

\* What extraction returns for a window of whole batches are real interactions.
LEMMA ExtractReal ==
  ASSUME NEW w \in Seq(BodySpans), HoldsBatches(w), NEW f \in extract_fingerprints(w)
  PROVE  f \in Interactions /\ Real(f)
<1>1. \A i \in DOMAIN w : w[i] \in BodySpans
  OBVIOUS
<1>2. CASE \E i, j \in DOMAIN w :
             CrossService(w, i, j) /\ f = Interaction(w[i].svc, w[j].svc, w[j].op)
  <2>1. PICK i \in DOMAIN w, j \in DOMAIN w :
          CrossService(w, i, j) /\ f = Interaction(w[i].svc, w[j].svc, w[j].op)
    BY <1>2
  <2>2. CallsAcross(w[i], w[j])
    BY <2>1 DEF CrossService, Indexed, CallsAcross
  <2>. QED
    BY <1>1, <2>1, <2>2 DEF Real, Interactions
<1>3. CASE \E j \in DOMAIN w :
             LeafCall(w, j) /\ f = Interaction(w[j].svc, w[j].callee, w[j].op)
  <2>1. PICK j \in DOMAIN w :
          LeafCall(w, j) /\ f = Interaction(w[j].svc, w[j].callee, w[j].op)
    BY <1>3
  <2>2. w[j].calls /\ SentApart(w[j])
    BY <2>1, LeafSentApart DEF LeafCall
  <2>. QED
    BY <1>1, <2>1, <2>2 DEF Real, Interactions
<1>. QED
  BY <1>2, <1>3 DEF extract_fingerprints

\* The findings a flush reports are novel, real and not among the seen ones.
LEMMA FreshReal ==
  ASSUME TypeOK, HoldsBatches(spans)
  PROVE  /\ extract_fingerprints(spans) \subseteq Interactions
         /\ Fresh \subseteq Interactions
         /\ \A f \in Fresh : f \notin Baseline /\ Real(f)
         /\ Deduplicate => Fresh \cap SeenAtFlush = {}
         /\ extract_fingerprints(spans) \ Baseline
              \subseteq Fresh \cup (IF Deduplicate THEN SeenAtFlush ELSE {})
<1>1. spans \in Seq(BodySpans)
  BY DEF TypeOK
<1>2. \A f \in extract_fingerprints(spans) : f \in Interactions /\ Real(f)
  BY <1>1, ExtractReal
<1>. QED
  BY <1>2 DEF Fresh, Novel

\* Closing a window keeps everything that concerns spans and alerts.
LEMMA FlushKeeps ==
  ASSUME IInv, loop = "waiting", FlushAndEmit, UNCHANGED <<spans_received, ingested>>,
         loop' \in {"waiting", "cleanup"}, failed' => loop' # "waiting"
  PROVE  /\ failed' \in BOOLEAN /\ spans' = <<>> /\ flushed' \in Nat
         /\ seen' \in SUBSET Interactions /\ compared' \in SUBSET Interactions
         /\ lines' \in [Interactions -> Nat] /\ epoch' \in [Interactions -> Nat]
         /\ SpansConserved' /\ QueueBounded' /\ DedupInv'
         /\ NothingSuppressed' /\ AlertsAreReal' /\ HoldsBatches(spans)'
<1>. USE MonitorAssumption
<1>1. PICK written \in SUBSET Fresh :
        /\ failed' = (written # Fresh)
        /\ lines' = [f \in Interactions |-> lines[f] + (IF f \in written THEN 1 ELSE 0)]
  BY DEF FlushAndEmit
<1>2. /\ spans' = <<>>
      /\ seen' = IF Deduplicate THEN SeenAtFlush \cup Fresh ELSE seen
      /\ epoch' = IF Evicts THEN lines ELSE epoch
      /\ flushed' = flushed + Len(spans)
      /\ compared' = compared \cup extract_fingerprints(spans)
  BY DEF FlushAndEmit
<1>3. TypeOK /\ HoldsBatches(spans)
  BY DEF IInv
<1>4. /\ Fresh \subseteq Interactions
      /\ \A f \in Fresh : f \notin Baseline /\ Real(f)
      /\ Deduplicate => Fresh \cap SeenAtFlush = {}
      /\ extract_fingerprints(spans) \subseteq Interactions
      /\ extract_fingerprints(spans) \ Baseline
           \subseteq Fresh \cup (IF Deduplicate THEN SeenAtFlush ELSE {})
  BY <1>3, FreshReal
<1>5. /\ lines \in [Interactions -> Nat] /\ epoch \in [Interactions -> Nat]
      /\ seen \in SUBSET Interactions /\ compared \in SUBSET Interactions
      /\ spans \in Seq(BodySpans) /\ flushed \in Nat
  BY <1>3 DEF TypeOK
<1>6. lines' \in [Interactions -> Nat] /\ epoch' \in [Interactions -> Nat]
  BY <1>1, <1>2, <1>5
<1>7. seen' \in SUBSET Interactions /\ compared' \in SUBSET Interactions
  BY <1>2, <1>4, <1>5 DEF SeenAtFlush
<1>8. SpansConserved'
  BY <1>2, <1>5 DEF IInv, SpansConserved
<1>9. QueueBounded'
  BY <1>2 DEF QueueBounded
<1>10. DedupInv'
  <2>1. CASE ~ Deduplicate
    BY <1>1, <2>1 DEF DedupInv
  <2>2. CASE Deduplicate
    <3>. SUFFICES ASSUME NEW f \in Interactions
         PROVE  /\ lines'[f] - epoch'[f] \in {0, 1}
                /\ loop' = "waiting" => (f \in seen' <=> lines'[f] - epoch'[f] = 1)
      BY <2>2 DEF DedupInv
    <3>1. /\ lines[f] \in Nat /\ epoch[f] \in Nat
          /\ lines[f] - epoch[f] \in {0, 1}
          /\ f \in seen <=> lines[f] - epoch[f] = 1
      BY <1>5, <2>2 DEF IInv, DedupInv
    <3>2. lines'[f] = lines[f] + (IF f \in written THEN 1 ELSE 0)
      BY <1>1
    <3>3. f \in SeenAtFlush <=> lines[f] - epoch'[f] = 1
      BY <1>2, <3>1 DEF SeenAtFlush
    <3>4. lines[f] - epoch'[f] \in {0, 1} /\ epoch'[f] \in Nat
      BY <1>2, <3>1
    <3>5. f \in Fresh => f \notin SeenAtFlush
      BY <1>4, <2>2
    <3>6. loop' = "waiting" => written = Fresh
      BY <1>1
    <3>7. f \in seen' <=> f \in SeenAtFlush \/ f \in Fresh
      BY <1>2, <2>2
    <3>8. CASE f \in written
      BY <3>1, <3>2, <3>3, <3>4, <3>5, <3>7, <3>8
    <3>9. CASE f \notin written
      BY <3>1, <3>2, <3>3, <3>4, <3>6, <3>7, <3>9
    <3>. QED
      BY <3>8, <3>9
  <2>. QED
    BY <2>1, <2>2
<1>11. NothingSuppressed'
  <2>. SUFFICES ASSUME ~ failed', NEW f \in compared' \ Baseline
       PROVE  lines'[f] >= 1
    BY DEF NothingSuppressed
  <2>1. ~ failed /\ written = Fresh /\ f \in Interactions
    BY <1>1, <1>7 DEF IInv, DedupInv
  <2>2. lines[f] \in Nat /\ epoch[f] \in Nat
    BY <1>5, <2>1
  <2>3. lines'[f] = lines[f] + (IF f \in Fresh THEN 1 ELSE 0)
    BY <1>1, <2>1
  <2>4. CASE f \in compared
    BY <2>1, <2>2, <2>3, <2>4 DEF IInv, NothingSuppressed
  <2>5. CASE f \in Fresh
    BY <2>2, <2>3, <2>5
  <2>6. CASE Deduplicate /\ f \in SeenAtFlush
    <3>1. f \in seen
      BY <2>6 DEF SeenAtFlush
    <3>2. lines[f] - epoch[f] = 1
      BY <2>1, <2>6, <3>1 DEF IInv, DedupInv
    <3>. QED
      BY <2>2, <2>3, <3>2
  <2>. QED
    BY <1>2, <1>4, <2>4, <2>5, <2>6
<1>12. AlertsAreReal'
  <2>. SUFFICES ASSUME NEW f \in Interactions, lines'[f] > 0
       PROVE  f \notin Baseline /\ Real(f)
    BY DEF AlertsAreReal
  <2>1. CASE f \in written
    BY <1>4, <2>1
  <2>2. CASE f \notin written
    BY <1>1, <1>5, <2>2 DEF IInv, AlertsAreReal
  <2>. QED
    BY <2>1, <2>2
<1>13. HoldsBatches(spans)'
  BY <1>2, TakesBatches DEF HoldsBatches, SpansOf
<1>. QED
  BY <1>1, <1>2, <1>5, <1>6, <1>7, <1>8, <1>9, <1>10, <1>11, <1>12, <1>13

-----------------------------------------------------------------------------
\* Reading is finite, and what happens to its size when one client joins or
\* leaves it.
LEMMA ReadingSize ==
  /\ IsFiniteSet(Reading) /\ Cardinality(Reading) \in Nat
  /\ \A r \in Clients :
       /\ Reading' = Reading \cup {r} /\ r \notin Reading
            => Cardinality(Reading') = Cardinality(Reading) + 1
       /\ Reading' = Reading \ {r} /\ r \in Reading
            => Cardinality(Reading') = Cardinality(Reading) - 1
<1>1. IsFiniteSet(Reading)
  BY MonitorAssumption, FS_Subset DEF Reading
<1>. QED
  BY <1>1, FS_CardinalityType, FS_AddElement, FS_RemoveElement

\* The handler of client r has ended with a status.
Ended(r, status) ==
  /\ conn' \in [Clients -> {"idle", "reading", "lost"} \cup Statuses]
  /\ responses' = [responses EXCEPT ![status] = @ + 1]
  /\ Reading' = Reading \ {r}
  /\ Cardinality(Reading') = Cardinality(Reading) - 1

\* An answer, or the loss of the body, ends one handler.
LEMMA AnswerEnds ==
  ASSUME TypeOK, NEW r \in Clients, conn[r] = "reading", NEW status \in Statuses,
         NEW got \in {"lost"} \cup Statuses,
         conn' = [conn EXCEPT ![r] = got],
         responses' = [responses EXCEPT ![status] = @ + 1]
  PROVE  Ended(r, status)
<1>1. got # "reading"
  BY DEF Statuses
<1>2. conn' \in [Clients -> {"idle", "reading", "lost"} \cup Statuses]
  BY DEF TypeOK
<1>3. Reading' = Reading \ {r} /\ r \in Reading
  BY <1>1 DEF Reading, TypeOK
<1>4. Cardinality(Reading') = Cardinality(Reading) - 1
  BY <1>3, ReadingSize
<1>. QED
  BY <1>2, <1>3, <1>4 DEF Ended

\* Answered is a number and counts what is added to any of the statuses.
LEMMA AnsweredGrows ==
  ASSUME TypeOK
  PROVE  /\ Answered \in Nat
         /\ \A status \in Statuses, n \in Nat :
              responses' = [responses EXCEPT ![status] = @ + n] =>
                /\ Answered' = Answered + n
                /\ responses'["429"] =
                     responses["429"] + (IF status = "429" THEN n ELSE 0)
<1>1. /\ responses["200"] \in Nat /\ responses["400"] \in Nat
      /\ responses["413"] \in Nat /\ responses["429"] \in Nat /\ responses["500"] \in Nat
      /\ responses["cancelled"] \in Nat /\ responses \in [Statuses -> Nat]
  BY DEF TypeOK, Statuses
<1>2. Answered \in Nat
  BY <1>1 DEF Answered
<1>3. ASSUME NEW status \in Statuses, NEW n \in Nat,
             responses' = [responses EXCEPT ![status] = @ + n]
      PROVE  /\ Answered' = Answered + n
             /\ responses'["429"] =
                  responses["429"] + (IF status = "429" THEN n ELSE 0)
  <2>1. CASE status = "200"
    BY <1>1, <1>3, <2>1 DEF Answered, Statuses
  <2>2. CASE status = "400"
    BY <1>1, <1>3, <2>2 DEF Answered, Statuses
  <2>3. CASE status = "429"
    BY <1>1, <1>3, <2>3 DEF Answered, Statuses
  <2>6. CASE status = "413"
    BY <1>1, <1>3, <2>6 DEF Answered, Statuses
  <2>4. CASE status = "500"
    BY <1>1, <1>3, <2>4 DEF Answered, Statuses
  <2>5. CASE status = "cancelled"
    BY <1>1, <1>3, <2>5 DEF Answered, Statuses
  <2>. QED
    BY <2>1, <2>2, <2>3, <2>4, <2>5, <2>6 DEF Statuses
<1>. QED
  BY <1>2, <1>3

\* The parts of the invariant that only the flush disturbs.
LEMMA AlertingUnchanged ==
  ASSUME DedupInv, NothingSuppressed, AlertsAreReal,
         UNCHANGED <<loop, failed, alerting>>
  PROVE  DedupInv' /\ NothingSuppressed' /\ AlertsAreReal'
BY DEF DedupInv, NothingSuppressed, AlertsAreReal, alerting

\* A window that stays holds its batches.
LEMMA WindowUnchanged ==
  ASSUME HoldsBatches(spans), spans' = spans
  PROVE  HoldsBatches(spans)'
BY DEF HoldsBatches, SpansOf

-----------------------------------------------------------------------------
\* A post opens one more request and touches nothing else.
LEMMA PostStep == ASSUME IInv, NEW r \in Clients, Post(r) PROVE IInv'
<1>1. /\ conn' = [conn EXCEPT ![r] = "reading"]
      /\ requests_total' = requests_total + 1
      /\ UNCHANGED <<spans_received, backpressure_count, server, responses, window, alerting>>
      /\ loop = "waiting"
  BY DEF Post
<1>2. Reading' = Reading \cup {r} /\ r \notin Reading
  BY DEF Post, Reading, IInv, TypeOK
<1>3. Cardinality(Reading') = Cardinality(Reading) + 1 /\ Cardinality(Reading) \in Nat
  BY <1>2, ReadingSize
<1>4. TypeOK'
  <2>1. conn' \in [Clients -> {"idle", "reading", "lost"} \cup Statuses]
    BY <1>1 DEF IInv, TypeOK
  <2>. QED
    BY <1>1, <2>1 DEF IInv, TypeOK, server, window, alerting
<1>5. SpansConserved' /\ QueueBounded'
  BY <1>1 DEF IInv, TypeOK, SpansConserved, QueueBounded, window, alerting
<1>6. RequestsAccounted'
  <2>1. TypeOK /\ RequestsAccounted
    BY DEF IInv
  <2>2. Answered \in Nat /\ Answered' = Answered
    BY <1>1, <2>1, AnsweredGrows DEF Answered
  <2>. QED
    BY <1>1, <1>3, <2>1, <2>2 DEF RequestsAccounted
<1>7. LateInv'
  BY <1>1 DEF LateInv, server
<1>8. HoldsBatches(spans)'
  BY <1>1, WindowUnchanged DEF IInv, window
<1>. QED
  BY <1>1, <1>4, <1>5, <1>6, <1>7, <1>8, AlertingUnchanged DEF IInv, server

\* A batch was taken, or refused.
Accepted(r) == \E body \in Bodies[r] : Accept(r, body)
Refused(r) == \E body \in Bodies[r] : Refuse(r, body)

\* The end of a handler, whatever its answer and whether spans came with it.
LEMMA HandlerStep ==
  ASSUME IInv, NEW r \in Clients, HandleBody(r) \/ BodyLost(r) PROVE IInv'
<1>1. TypeOK /\ conn[r] = "reading" /\ r \in Reading
  BY DEF IInv, HandleBody, BodyLost, Reading
<1>2. UNCHANGED <<server, alerting>>
  BY DEF HandleBody, BodyLost
<1>3. \/ \E status \in Statuses \ {"cancelled", "429"} :
           Ended(r, status) /\ UNCHANGED <<receiver, window>>
      \/ Ended(r, "429") /\ Refused(r)
      \/ Ended(r, "200") /\ Accepted(r)
  <2>1. ASSUME NEW st \in Statuses, Answer(r, st) PROVE Ended(r, st)
    <3>1. PICK got \in {st, "lost"} : conn' = [conn EXCEPT ![r] = got]
      BY <2>1 DEF Answer
    <3>. QED
      BY <1>1, <2>1, <3>1, AnswerEnds DEF Answer
  <2>2. CASE BodyLost(r)
    <3>1. "400" \in Statuses \ {"cancelled", "429"}
      BY DEF Statuses
    <3>2. Ended(r, "400") /\ UNCHANGED <<receiver, window>>
      BY <1>1, <2>2, <3>1, AnswerEnds DEF BodyLost
    <3>. QED
      BY <3>1, <3>2
  <2>3. ASSUME NEW st \in {"200", "400", "413", "500"}, Answer(r, st), UNCHANGED <<receiver, window>>
        PROVE  \E status \in Statuses \ {"cancelled", "429"} :
                 Ended(r, status) /\ UNCHANGED <<receiver, window>>
    BY <2>1, <2>3 DEF Statuses
  <2>4. CASE Accepted(r)
    BY <2>1, <2>4 DEF Accepted, Accept, Statuses
  <2>5. CASE Refused(r)
    BY <2>1, <2>5 DEF Refused, Refuse, Statuses
  <2>. QED
    BY <2>2, <2>3, <2>4, <2>5 DEF HandleBody, Accepted, Refused
<1>4. /\ \A body \in Bodies[r] : body.spans \in Seq(BodySpans) /\ Len(body.spans) \in Nat
      /\ requests_total \in Nat /\ spans_received \in Nat
      /\ backpressure_count \in Nat
      /\ responses["200"] \in Nat /\ responses["400"] \in Nat
      /\ responses["429"] \in Nat /\ responses["500"] \in Nat
      /\ responses["cancelled"] \in Nat
      /\ flushed \in Nat /\ Len(spans) \in Nat /\ ingested \in Nat /\ rejected \in Nat
  BY <1>1, MonitorAssumption DEF TypeOK, Statuses
<1>5. TypeOK'
  <2>1. responses' \in [Statuses -> Nat]
        /\ conn' \in [Clients -> {"idle", "reading", "lost"} \cup Statuses]
    BY <1>1, <1>3 DEF TypeOK, Ended, Statuses
  <2>2. requests_total' \in Nat /\ spans_received' \in Nat /\ backpressure_count' \in Nat
    BY <1>3, <1>4 DEF Accepted, Accept, Refused, Refuse, receiver
  <2>3. spans' \in Seq(BodySpans) /\ ingested' \in Nat /\ rejected' \in Nat
    <3>1. CASE Accepted(r)
      BY <1>1, <1>4, <3>1 DEF TypeOK, Accepted, Accept
    <3>2. CASE UNCHANGED window \/ Refused(r)
      BY <1>1, <1>4, <3>2 DEF TypeOK, Refused, Refuse, window
    <3>. QED
      BY <1>3, <3>1, <3>2
  <2>. QED
    BY <1>1, <1>2, <2>1, <2>2, <2>3 DEF TypeOK, server, alerting
<1>6. SpansConserved'
  <2>1. CASE UNCHANGED <<receiver, window>> \/ Refused(r)
    <3>1. spans_received' = spans_received /\ spans' = spans
          /\ ingested' = ingested
      BY <1>1, <2>1 DEF TypeOK, Refused, Refuse, receiver, window
    <3>. QED
      BY <1>2, <3>1 DEF IInv, SpansConserved, alerting
  <2>2. CASE Accepted(r)
    <3>. PICK body \in Bodies[r] : Accept(r, body)
      BY <2>2 DEF Accepted
    <3>1. /\ spans_received' = spans_received + Len(body.spans)
          /\ ingested' = ingested + Len(body.spans)
          /\ Len(spans') = Len(spans) + Len(body.spans)
      BY <1>1, <1>4 DEF TypeOK, Accept
    <3>2. SpansConserved /\ flushed' = flushed
      BY <1>2 DEF IInv, alerting
    <3>3. PICK n \in Nat, k \in Nat : n = Len(body.spans) /\ k = Len(spans)
      BY <1>4
    <3>4. spans_received' = spans_received + n /\ ingested' = ingested + n
      BY <3>1, <3>3
    <3>5. Len(spans') = k + n /\ ingested = flushed + k
      BY <3>1, <3>2, <3>3 DEF SpansConserved
    <3>6. flushed \in Nat
      BY <1>4
    <3>7. ingested' = flushed' + Len(spans')
      BY <3>2, <3>4, <3>5, <3>6
    <3>. QED
      BY <3>2, <3>4, <3>7 DEF SpansConserved
  <2>. QED
    BY <1>3, <2>1, <2>2
<1>7. RequestsAccounted'
  <2>1. RequestsAccounted /\ Cardinality(Reading) \in Nat
    BY ReadingSize, MonitorAssumption DEF IInv
  <2>2. requests_total' = requests_total
    BY <1>3 DEF Accepted, Accept, Refused, Refuse, receiver
  <2>3. ASSUME NEW status \in Statuses, Ended(r, status),
               backpressure_count' =
                 backpressure_count + (IF status = "429" THEN 1 ELSE 0)
        PROVE  RequestsAccounted'
    <3>1. /\ Answered \in Nat /\ Answered' = Answered + 1
          /\ responses'["429"] =
               responses["429"] + (IF status = "429" THEN 1 ELSE 0)
      BY <1>1, <2>3, AnsweredGrows DEF Ended
    <3>2. Cardinality(Reading') = Cardinality(Reading) - 1
      BY <2>3 DEF Ended
    <3>3. requests_total' = Cardinality(Reading') + Answered'
      BY <2>1, <2>2, <3>1, <3>2 DEF RequestsAccounted
    <3>. QED
      BY <2>1, <2>3, <3>1, <3>3 DEF RequestsAccounted
  <2>4. Refused(r) => backpressure_count' = backpressure_count + 1
    BY DEF Refused, Refuse
  <2>5. Accepted(r) => backpressure_count' = backpressure_count
    BY DEF Accepted, Accept
  <2>. QED
    BY <1>3, <1>4, <2>3, <2>4, <2>5 DEF Statuses, receiver
<1>8. QueueBounded'
  <2>1. CASE UNCHANGED spans
    BY <2>1 DEF IInv, QueueBounded
  <2>2. CASE Accepted(r)
    <3>. PICK body \in Bodies[r] : Accept(r, body)
      BY <2>2 DEF Accepted
    <3>1. Len(spans') = Len(spans) + Len(body.spans) /\ Len(spans) < MaxQueueSpans
      BY <1>1, <1>4 DEF TypeOK, Accept
    <3>. QED
      BY <1>1, <1>4, <3>1, MonitorAssumption DEF QueueBounded, TypeOK
  <2>. QED
    BY <1>3, <2>1, <2>2 DEF Refused, Refuse, window
<1>9. LateInv'
  <2>1. Reading' \subseteq Reading
    BY <1>3 DEF Ended
  <2>2. spans' = spans \/ r \in Reading
    BY <1>1
  <2>. QED
    BY <1>1, <1>2, <1>3, <2>1 DEF IInv, LateInv, server, alerting
<1>10. HoldsBatches(spans)'
  <2>1. CASE UNCHANGED spans
    BY <2>1, WindowUnchanged DEF IInv
  <2>2. CASE Accepted(r)
    <3>. PICK body \in Bodies[r] : Accept(r, body)
      BY <2>2 DEF Accepted
    <3>1. body.spans \in Batches /\ body.spans \in Seq(BodySpans)
      BY <1>4 DEF Batches
    <3>2. HoldsBatches(spans \o body.spans)
      BY <1>1, <3>1, TakesBatches DEF IInv, TypeOK
    <3>3. spans' = spans \o body.spans
      BY DEF Accept
    <3>. QED
      BY <3>2, <3>3 DEF HoldsBatches, SpansOf
  <2>. QED
    BY <1>3, <2>1, <2>2 DEF Refused, Refuse, window
<1>. QED
  BY <1>2, <1>5, <1>6, <1>7, <1>8, <1>9, <1>10, AlertingUnchanged DEF IInv, server

\* The two ways the window loop goes on.
LEMMA LoopStep == ASSUME IInv, WindowElapses \/ LoopEnds PROVE IInv'
<1>. USE MonitorAssumption
<1>1. /\ loop = "waiting" /\ loop' \in {"waiting", "cleanup"}
      /\ UNCHANGED <<shutdown, clients, receiver, ingested, rejected>>
      /\ late' = IF loop' = "cleanup" THEN Reading ELSE late
  BY DEF WindowElapses, LoopEnds
<1>2. Reading' = Reading /\ Reading \subseteq Clients
  BY <1>1 DEF Reading, clients
<1>3. RequestsAccounted'
  BY <1>1, <1>2 DEF IInv, RequestsAccounted, Answered, clients, receiver
<1>4. CASE FlushAndEmit /\ (failed' => loop' # "waiting")
  <2>1. /\ failed' \in BOOLEAN /\ spans' = <<>> /\ flushed' \in Nat
        /\ seen' \in SUBSET Interactions /\ compared' \in SUBSET Interactions
        /\ lines' \in [Interactions -> Nat] /\ epoch' \in [Interactions -> Nat]
        /\ SpansConserved' /\ QueueBounded' /\ DedupInv'
        /\ NothingSuppressed' /\ AlertsAreReal' /\ HoldsBatches(spans)'
    BY <1>1, <1>4, FlushKeeps DEF receiver
  <2>2. TypeOK'
    BY <1>1, <1>2, <2>1 DEF IInv, TypeOK, clients, receiver
  <2>3. LateInv'
    BY <1>1, <1>2, <2>1 DEF LateInv
  <2>. QED
    BY <1>3, <2>1, <2>2, <2>3 DEF IInv
<1>5. CASE /\ loop' = "cleanup" /\ spans = <<>>
           /\ UNCHANGED <<failed, spans, seen, lines, flushed, compared, epoch>>
  <2>1. TypeOK'
    BY <1>1, <1>2, <1>5 DEF IInv, TypeOK, clients, receiver
  <2>2. SpansConserved' /\ QueueBounded'
    BY <1>1, <1>5 DEF IInv, SpansConserved, QueueBounded, receiver
  <2>3. DedupInv' /\ NothingSuppressed' /\ AlertsAreReal'
    BY <1>1, <1>5 DEF IInv, DedupInv, NothingSuppressed, AlertsAreReal
  <2>4. LateInv'
    BY <1>1, <1>2, <1>5 DEF LateInv
  <2>5. HoldsBatches(spans)'
    BY <1>5, WindowUnchanged DEF IInv
  <2>. QED
    BY <1>3, <2>1, <2>2, <2>3, <2>4, <2>5 DEF IInv
<1>. QED
  BY <1>1, <1>4, <1>5 DEF WindowElapses, LoopEnds

\* The end of cleanup cancels the handlers that still read.
LEMMA CleanupStep == ASSUME IInv, CleanupEnds PROVE IInv'
<1>1. /\ loop = "cleanup" /\ loop' = "stopped"
      /\ conn' = [r \in Clients |-> IF conn[r] = "reading" THEN "lost" ELSE conn[r]]
      /\ responses' = [responses EXCEPT !["cancelled"] = @ + Cardinality(Reading)]
      /\ UNCHANGED <<shutdown, failed, receiver, window, alerting>>
  BY DEF CleanupEnds
<1>2. Reading' = {}
  BY <1>1 DEF Reading
<1>3. Cardinality(Reading) \in Nat /\ Cardinality(Reading') = 0
  BY <1>2, ReadingSize, FS_EmptySet
<1>4. TypeOK'
  <2>1. conn' \in [Clients -> {"idle", "reading", "lost"} \cup Statuses]
    BY <1>1 DEF IInv, TypeOK
  <2>2. responses' \in [Statuses -> Nat]
    BY <1>1, <1>3 DEF IInv, TypeOK, Statuses
  <2>. QED
    BY <1>1, <2>1, <2>2 DEF IInv, TypeOK, receiver, window, alerting
<1>5. SpansConserved' /\ QueueBounded'
  BY <1>1 DEF IInv, SpansConserved, QueueBounded, receiver, window, alerting
<1>6. RequestsAccounted'
  <2>1. RequestsAccounted /\ TypeOK /\ "cancelled" \in Statuses
    BY DEF IInv, Statuses
  <2>2. /\ Answered \in Nat /\ Answered' = Answered + Cardinality(Reading)
        /\ responses'["429"] = responses["429"]
    BY <1>1, <1>3, <2>1, AnsweredGrows DEF IInv, TypeOK, Statuses
  <2>. QED
    BY <1>1, <1>3, <2>1, <2>2 DEF RequestsAccounted, receiver
<1>7. DedupInv' /\ NothingSuppressed' /\ AlertsAreReal'
  BY <1>1 DEF IInv, DedupInv, NothingSuppressed, AlertsAreReal, alerting
<1>8. LateInv'
  BY <1>1, <1>2 DEF IInv, LateInv, window, alerting
<1>9. HoldsBatches(spans)'
  BY <1>1, WindowUnchanged DEF IInv, window
<1>. QED
  BY <1>4, <1>5, <1>6, <1>7, <1>8, <1>9 DEF IInv

\* A step that leaves everything but the shutdown event alone.
LEMMA QuietStep ==
  ASSUME IInv, UNCHANGED <<loop, failed, clients, receiver, window, alerting>>,
         shutdown' \in BOOLEAN
  PROVE  IInv'
<1>1. Reading' = Reading
  BY DEF Reading, clients
<1>2. TypeOK' /\ SpansConserved' /\ QueueBounded'
  BY DEF IInv, TypeOK, SpansConserved, QueueBounded, clients, receiver, window, alerting
<1>3. RequestsAccounted' /\ LateInv'
  BY <1>1 DEF IInv, RequestsAccounted, Answered, LateInv, clients, receiver, window, alerting
<1>4. HoldsBatches(spans)'
  BY WindowUnchanged DEF IInv, window
<1>. QED
  BY <1>2, <1>3, <1>4, AlertingUnchanged DEF IInv

\* IInv is an invariant of every behaviour of the monitor.
LEMMA Invariance == Spec => []IInv
<1>1. Init => IInv
  <2>. SUFFICES ASSUME Init PROVE IInv
    OBVIOUS
  <2>1. Reading = {} /\ Cardinality(Reading) = 0
    BY FS_EmptySet DEF Init, Reading
  <2>2. TypeOK
    <3>1. lines \in [Interactions -> Nat] /\ epoch \in [Interactions -> Nat]
      BY DEF Init, NoLines
    <3>2. spans \in Seq(BodySpans)
      BY DEF Init
    <3>. QED
      BY <3>1, <3>2 DEF Init, TypeOK
  <2>3. SpansConserved /\ QueueBounded
    BY DEF Init, SpansConserved, QueueBounded
  <2>4. RequestsAccounted
    BY <2>1 DEF Init, RequestsAccounted, Answered, Statuses
  <2>5. DedupInv /\ NothingSuppressed /\ AlertsAreReal /\ LateInv
    BY DEF Init, DedupInv, NothingSuppressed, AlertsAreReal, LateInv, NoLines
  <2>6. HoldsBatches(spans)
    BY TakesBatches DEF Init
  <2>. QED
    BY <2>2, <2>3, <2>4, <2>5, <2>6 DEF IInv
<1>2. IInv /\ [Next]_vars => IInv'
  <2>. SUFFICES ASSUME IInv, [Next]_vars PROVE IInv'
    OBVIOUS
  <2>1. ASSUME NEW r \in Clients, Post(r) \/ BodyLost(r) \/ HandleBody(r) PROVE IInv'
    BY <2>1, PostStep, HandlerStep
  <2>2. CASE WindowElapses \/ LoopEnds
    BY <2>2, LoopStep
  <2>3. CASE RequestShutdown
    BY <2>3, QuietStep DEF RequestShutdown
  <2>4. CASE CleanupEnds
    BY <2>4, CleanupStep
  <2>5. CASE UNCHANGED vars
    BY <2>5, QuietStep DEF vars, server, IInv, TypeOK
  <2>. QED
    BY <2>1, <2>2, <2>3, <2>4, <2>5 DEF Next
<1>. QED
  BY <1>1, <1>2, PTL DEF Spec

-----------------------------------------------------------------------------
\* Every variable of the monitor keeps its type.
THEOREM TypeCorrect == Spec => []TypeOK
<1>1. IInv => TypeOK
  BY DEF IInv
<1>. QED
  BY <1>1, Invariance, PTL

\* No span that was taken in is lost or handed to two flushes.
THEOREM Conservation == Spec => []SpansConserved
<1>1. IInv => SpansConserved
  BY DEF IInv
<1>. QED
  BY <1>1, Invariance, PTL

\* Every request that was counted is in progress or ended in one of the ways a
\* handler can end, and backpressure_count is the number of 429 answers.
THEOREM EveryRequestCounted == Spec => []RequestsAccounted
<1>1. IInv => RequestsAccounted
  BY DEF IInv
<1>. QED
  BY <1>1, Invariance, PTL

\* The window exceeds its limit by less than one batch.
THEOREM BoundedWindow == Spec => []QueueBounded
<1>1. IInv => QueueBounded
  BY DEF IInv
<1>. QED
  BY <1>1, Invariance, PTL

\* Deduplication hides nothing: unless writing an alert raised, every interaction
\* compared so far and missing in the baseline has an alert line.
THEOREM DedupHidesNothing == Spec => []NothingSuppressed
<1>1. IInv => NothingSuppressed
  BY DEF IInv
<1>. QED
  BY <1>1, Invariance, PTL

\* Deduplication reports an interaction at most once between two evictions.
THEOREM AlertOnce == Spec => []AtMostOncePerEpoch
<1>1. IInv => AtMostOncePerEpoch
  <2>. SUFFICES ASSUME IInv, Deduplicate, NEW f \in Interactions
       PROVE  lines[f] - epoch[f] <= 1
    BY DEF IInv, AtMostOncePerEpoch
  <2>1. lines[f] - epoch[f] \in {0, 1}
    BY DEF IInv, DedupInv
  <2>. QED
    BY <2>1
<1>. QED
  BY <1>1, Invariance, PTL

\* Every alert names an interaction some spans show and the baseline lacks.
THEOREM AlertsReal == Spec => []AlertsAreReal
<1>1. IInv => AlertsAreReal
  BY DEF IInv
<1>. QED
  BY <1>1, Invariance, PTL

\* A monitor stopped without an error and without a late handler has compared
\* every span it acknowledged.
THEOREM CleanStop == Spec => []StopsClean
<1>1. IInv => StopsClean
  BY DEF IInv, LateInv, StopsClean
<1>. QED
  BY <1>1, Invariance, PTL

-----------------------------------------------------------------------------
(***************************************************************************)
(* Monitor implements AlertStream.                                         *)
(***************************************************************************)

\* What was never told of is not among the seen hashes, so a flush reports it.
LEMMA NeverToldIsFresh == ASSUME IInv, loop = "waiting" PROVE Stream!NeverTold \subseteq Fresh
<1>. SUFFICES ASSUME NEW f \in Stream!NeverTold, f \notin Fresh PROVE FALSE
  OBVIOUS
<1>1. f \in extract_fingerprints(spans) \ Baseline /\ lines[f] = 0
  BY DEF Stream!NeverTold, Stream!Novel
<1>2. Deduplicate /\ f \in SeenAtFlush /\ f \in Interactions
  BY <1>1, FreshReal DEF IInv
<1>3. f \in seen
  BY <1>2 DEF SeenAtFlush
<1>4. lines[f] - epoch[f] = 1 /\ epoch[f] \in Nat
  BY <1>2, <1>3 DEF IInv, DedupInv, TypeOK
<1>. QED
  BY <1>1, <1>4

\* A flush is one comparison, whatever its writes come to.
LEMMA FlushCompares ==
  ASSUME IInv, loop = "waiting", FlushAndEmit, loop' \in {"waiting", "cleanup"},
         failed' => loop' = "cleanup"
  PROVE  Stream!Next
<1>1. PICK written \in SUBSET Fresh :
        /\ failed' = (written # Fresh)
        /\ lines' = [f \in Interactions |-> lines[f] + (IF f \in written THEN 1 ELSE 0)]
  BY DEF FlushAndEmit
<1>2. written \in SUBSET Stream!Novel
  BY DEF Fresh, Novel, Stream!Novel
<1>3. ~ failed' => Stream!NeverTold \subseteq written
  BY <1>1, NeverToldIsFresh
<1>4. failed' \in BOOLEAN /\ spans' = <<>>
  BY <1>1 DEF FlushAndEmit
<1>5. Stream!Compare(written)
  BY <1>1, <1>3, <1>4 DEF Stream!Compare
<1>. QED
  BY <1>2, <1>5 DEF Stream!Next

\* A handler takes in one of the batches, or nothing.
LEMMA HandlerTakes ==
  ASSUME NEW r \in Clients, HandleBody(r)
  PROVE  Stream!Next \/ UNCHANGED Stream!vars
<1>1. UNCHANGED <<loop, failed, lines>> /\ loop # "stopped"
  BY DEF HandleBody, server, alerting
<1>2. ASSUME NEW body \in Bodies[r], Accept(r, body) PROVE Stream!Next
  <2>1. body.spans \in Batches
    BY DEF Batches
  <2>2. Stream!Take(body.spans)
    BY <1>1, <1>2 DEF Accept, Stream!Take
  <2>. QED
    BY <2>1, <2>2 DEF Stream!Next
<1>3. ASSUME NEW body \in Bodies[r], Refuse(r, body) PROVE UNCHANGED spans
  BY <1>3 DEF Refuse
<1>4. \/ \E body \in Bodies[r] : Accept(r, body) \/ Refuse(r, body)
      \/ UNCHANGED spans
  BY DEF HandleBody, window
<1>. QED
  BY <1>1, <1>2, <1>3, <1>4 DEF Stream!vars

\* Every step of the monitor is a step of the stream of alerts or none of it.
LEMMA StepStreams ==
  ASSUME IInv, [Next]_vars
  PROVE  Stream!Next \/ UNCHANGED Stream!vars
<1>1. ASSUME NEW r \in Clients, Post(r) \/ BodyLost(r) PROVE UNCHANGED Stream!vars
  BY <1>1 DEF Post, BodyLost, server, window, alerting, Stream!vars
<1>2. ASSUME NEW r \in Clients, HandleBody(r) PROVE Stream!Next \/ UNCHANGED Stream!vars
  BY <1>2, HandlerTakes
<1>3. CASE WindowElapses
  <2>1. loop = "waiting" /\ FlushAndEmit
    BY <1>3 DEF WindowElapses
  <2>2. loop' \in {"waiting", "cleanup"} /\ (failed' => loop' = "cleanup")
    BY <1>3 DEF WindowElapses
  <2>. QED
    BY <2>1, <2>2, FlushCompares
<1>4. CASE LoopEnds
  <2>1. loop = "waiting" /\ loop' = "cleanup"
    BY <1>4 DEF LoopEnds
  <2>2. CASE FlushAndEmit
    BY <2>1, <2>2, FlushCompares
  <2>3. CASE spans = <<>> /\ UNCHANGED <<failed, spans, lines>>
    BY <2>1, <2>3 DEF Stream!Close, Stream!Next
  <2>. QED
    BY <1>4, <2>2, <2>3 DEF LoopEnds
<1>5. CASE RequestShutdown
  BY <1>5 DEF RequestShutdown, window, alerting, Stream!vars
<1>6. CASE CleanupEnds
  BY <1>6 DEF CleanupEnds, window, alerting, Stream!Stop, Stream!Next
<1>7. CASE UNCHANGED vars
  BY <1>7 DEF vars, server, window, alerting, Stream!vars
<1>. QED
  BY <1>1, <1>2, <1>3, <1>4, <1>5, <1>6, <1>7 DEF Next

\* The monitor implements the stream of alerts: every batch is taken in whole or
\* not at all, every comparison covers all that has come, and what is not in the
\* baseline and was never told of is told, unless writing an alert fails.
THEOREM ImplementsAlertStream == Spec => StreamSpec
<1>1. Init => Stream!Init
  BY DEF Init, NoLines, Stream!Init
<1>2. IInv /\ [Next]_vars => [Stream!Next]_(Stream!vars)
  BY StepStreams
<1>. QED
  BY <1>1, <1>2, Invariance, PTL DEF Spec, StreamSpec, Stream!Spec
-----------------------------------------------------------------------------
(***************************************************************************)
(* What extraction makes of the order in which spans come, and of their    *)
(* being spread over windows.                                              *)
(***************************************************************************)
\* The code's index takes the last span of an id for all of them.  Exporters number
\* their spans, and send one again as it was.
OneSpanPerId(S) == \A p, c \in S : p.id = c.id /\ p.id # "" => p = c

\* The calls between services whose two spans are in P and C.
CallsBetween(P, C) ==
  {Interaction(e[1].svc, e[2].svc, e[2].op) :
     e \in {g \in P \X C : CallsAcross(g[1], g[2])}}

\* A span of C with the id of c was called, across services, by one of P.
CalledAcross(P, C, c) == \E p \in P, k \in C : CallsAcross(p, k) /\ k.id = c.id

\* The leaf calls of S: of no span that, by its id, P called across services.
LeafCallsIn(S, P, C) ==
  {Interaction(c.svc, c.callee, c.op) :
     c \in {k \in S : k.calls /\ k.callee # "" /\ k.svc # "" /\ ~ CalledAcross(P, C, k)}}

\* The interactions that a set of spans shows.
Interacts(S) == CallsBetween(S, S) \cup LeafCallsIn(S, S, S)

\* With one span per id, the index finds every parent there is, and no other span.
LEMMA ParentsFound ==
  ASSUME NEW S, NEW w \in Seq(S), OneSpanPerId(SpansOf(w)), NEW j \in DOMAIN w, NEW p
  PROVE  (p \in SpansOf(w) /\ CallsAcross(p, w[j]))
           <=> (\E i \in DOMAIN w : p = w[i] /\ CrossService(w, i, j))
<1>1. ASSUME NEW i \in DOMAIN w, p = w[i], CrossService(w, i, j)
      PROVE  p \in SpansOf(w) /\ CallsAcross(p, w[j])
  BY <1>1 DEF SpansOf, CallsAcross, CrossService, Indexed
<1>2. ASSUME p \in SpansOf(w), CallsAcross(p, w[j])
      PROVE  \E i \in DOMAIN w : p = w[i] /\ CrossService(w, i, j)
  <2>1. PICK i \in DOMAIN w : p = w[i]
    BY <1>2 DEF SpansOf
  <2>2. w[i].id # ""
    BY <1>2, <2>1 DEF CallsAcross
  <2>3. PICK l \in DOMAIN w : w[l].id = w[i].id /\ Indexed(w, l)
    BY <2>2, LastIndexed, Zenon
  <2>4. w[l] \in SpansOf(w) /\ w[i] \in SpansOf(w)
    BY DEF SpansOf
  <2>5. w[l] = p
    BY <2>1, <2>2, <2>3, <2>4, Zenon DEF OneSpanPerId
  <2>6. CrossService(w, l, j)
    BY <1>2, <2>3, <2>5, Zenon DEF CallsAcross, CrossService
  <2>. QED
    BY <2>5, <2>6
<1>. QED
  BY <1>1, <1>2

\* The ids that extraction leaves out of the leaf calls.
LEMMA CalledIds ==
  ASSUME NEW S, NEW w \in Seq(S), OneSpanPerId(SpansOf(w)), NEW c
  PROVE  c.id \in CrossChildIds(w) <=> CalledAcross(SpansOf(w), SpansOf(w), c)
<1>1. ASSUME c.id \in CrossChildIds(w) PROVE CalledAcross(SpansOf(w), SpansOf(w), c)
  <2>1. PICK j \in DOMAIN w, i \in DOMAIN w : CrossService(w, i, j) /\ c.id = w[j].id
    BY <1>1 DEF CrossChildIds
  <2>2. w[i] \in SpansOf(w) /\ CallsAcross(w[i], w[j]) /\ w[j] \in SpansOf(w)
    <3>1. \E x \in DOMAIN w : w[i] = w[x] /\ CrossService(w, x, j)
      BY <2>1
    <3>. QED
      BY <3>1, ParentsFound, Zenon DEF SpansOf
  <2>. QED
    BY <2>1, <2>2, Zenon DEF CalledAcross
<1>2. ASSUME CalledAcross(SpansOf(w), SpansOf(w), c) PROVE c.id \in CrossChildIds(w)
  <2>1. PICK p \in SpansOf(w), k \in SpansOf(w) : CallsAcross(p, k) /\ k.id = c.id
    BY <1>2, Zenon DEF CalledAcross
  <2>2. PICK j \in DOMAIN w : k = w[j]
    BY DEF SpansOf
  <2>3. PICK i \in DOMAIN w : p = w[i] /\ CrossService(w, i, j)
    BY <2>1, <2>2, ParentsFound, Zenon
  <2>. QED
    BY <2>1, <2>2, <2>3 DEF CrossChildIds
<1>. QED
  BY <1>1, <1>2

\* Membership in CallsBetween, by its two spans.
LEMMA BetweenIntro ==
  ASSUME NEW P, NEW C, NEW p \in P, NEW c \in C, CallsAcross(p, c)
  PROVE  Interaction(p.svc, c.svc, c.op) \in CallsBetween(P, C)
<1>1. <<p, c>> \in {g \in P \X C : CallsAcross(g[1], g[2])}
  OBVIOUS
<1>. QED
  BY <1>1 DEF CallsBetween

LEMMA BetweenElim ==
  ASSUME NEW P, NEW C, NEW f \in CallsBetween(P, C)
  PROVE  \E p \in P, c \in C : CallsAcross(p, c) /\ f = Interaction(p.svc, c.svc, c.op)
BY DEF CallsBetween

\* Extraction is a function of the set of spans.
LEMMA ExtractionOfSet ==
  ASSUME NEW S, NEW w \in Seq(S), OneSpanPerId(SpansOf(w))
  PROVE  extract_fingerprints(w) = Interacts(SpansOf(w))
<1>1. ASSUME NEW f \in extract_fingerprints(w) PROVE f \in Interacts(SpansOf(w))
  <2>1. CASE \E i, j \in DOMAIN w :
               CrossService(w, i, j) /\ f = Interaction(w[i].svc, w[j].svc, w[j].op)
    <3>1. PICK i \in DOMAIN w, j \in DOMAIN w :
            CrossService(w, i, j) /\ f = Interaction(w[i].svc, w[j].svc, w[j].op)
      BY <2>1
    <3>2. \E x \in DOMAIN w : w[i] = w[x] /\ CrossService(w, x, j)
      BY <3>1
    <3>3. w[i] \in SpansOf(w) /\ w[j] \in SpansOf(w) /\ CallsAcross(w[i], w[j])
      BY <3>2, ParentsFound, Zenon DEF SpansOf
    <3>. QED
      BY <3>1, <3>3, BetweenIntro, Zenon DEF Interacts
  <2>2. CASE \E j \in DOMAIN w :
               LeafCall(w, j) /\ f = Interaction(w[j].svc, w[j].callee, w[j].op)
    <3>1. PICK j \in DOMAIN w :
            LeafCall(w, j) /\ f = Interaction(w[j].svc, w[j].callee, w[j].op)
      BY <2>2
    <3>2. ~ CalledAcross(SpansOf(w), SpansOf(w), w[j])
      BY <3>1, CalledIds, Zenon DEF LeafCall
    <3>. QED
      BY <3>1, <3>2 DEF Interacts, LeafCallsIn, LeafCall, SpansOf
  <2>. QED
    BY <1>1, <2>1, <2>2 DEF extract_fingerprints
<1>2. ASSUME NEW f \in Interacts(SpansOf(w)) PROVE f \in extract_fingerprints(w)
  <2>1. CASE f \in CallsBetween(SpansOf(w), SpansOf(w))
    <3>1. PICK p \in SpansOf(w), c \in SpansOf(w) :
            CallsAcross(p, c) /\ f = Interaction(p.svc, c.svc, c.op)
      BY <2>1 DEF CallsBetween
    <3>2. PICK j \in DOMAIN w : c = w[j]
      BY DEF SpansOf
    <3>3. PICK i \in DOMAIN w : p = w[i] /\ CrossService(w, i, j)
      BY <3>1, <3>2, ParentsFound, Zenon
    <3>4. <<i, j>> \in {g \in (DOMAIN w) \X (DOMAIN w) : CrossService(w, g[1], g[2])}
      BY <3>3
    <3>5. f = Interaction(w[i].svc, w[j].svc, w[j].op)
      BY <3>1, <3>2, <3>3, Zenon
    <3>. QED
      BY <3>4, <3>5 DEF extract_fingerprints
  <2>2. CASE f \in LeafCallsIn(SpansOf(w), SpansOf(w), SpansOf(w))
    <3>1. PICK c \in SpansOf(w) :
            /\ c.calls /\ c.callee # "" /\ c.svc # ""
            /\ ~ CalledAcross(SpansOf(w), SpansOf(w), c)
            /\ f = Interaction(c.svc, c.callee, c.op)
      BY <2>2 DEF LeafCallsIn
    <3>2. PICK j \in DOMAIN w : c = w[j]
      BY DEF SpansOf
    <3>3. LeafCall(w, j)
      BY <3>1, <3>2, CalledIds, Zenon DEF LeafCall
    <3>. QED
      BY <3>1, <3>2, <3>3 DEF extract_fingerprints
  <2>. QED
    BY <2>1, <2>2 DEF Interacts
<1>. QED
  BY <1>1, <1>2

\* Spans delivered in another order, or more than once, show the same interactions:
\* extract_fingerprints, which indexes the spans as they come, is a function of their
\* set when an id names one span.
THEOREM ExtractionIgnoresOrder ==
  ASSUME NEW S, NEW v \in Seq(S), NEW w \in Seq(S),
         OneSpanPerId(SpansOf(w)), SpansOf(v) = SpansOf(w)
  PROVE  extract_fingerprints(v) = extract_fingerprints(w)
BY ExtractionOfSet, Zenon

\* The leaf calls of spans in C whose parent, in another service, is in P.
LeafCallsCut(C, P) ==
  {Interaction(c.svc, c.callee, c.op) :
     c \in {k \in C : k.calls /\ k.callee # "" /\ k.svc # ""
                        /\ \E p \in P : CallsAcross(p, k)}}

\* A trace cut by a flush, which extracts from each window alone.  What is lost are the
\* calls whose two spans the cut separates; what is gained are leaf calls, each of a
\* span whose parent, in another service, is on the other side of the cut.
THEOREM WindowCut ==
  ASSUME NEW S, NEW v \in Seq(S), NEW w \in Seq(S),
         OneSpanPerId(SpansOf(v \o w)), \A c \in SpansOf(v \o w) : c.id # "",
         NEW V, NEW W, V = SpansOf(v), W = SpansOf(w),
         NEW Whole, Whole = extract_fingerprints(v \o w),
         NEW Halves, Halves = extract_fingerprints(v) \cup extract_fingerprints(w)
  PROVE  /\ Whole \ Halves \subseteq CallsBetween(V, W) \cup CallsBetween(W, V)
         /\ Halves \ Whole \subseteq LeafCallsCut(V, W) \cup LeafCallsCut(W, V)
<1>1. v \o w \in Seq(S) /\ SpansOf(v \o w) = V \cup W
  BY SpansOfConcat, ConcatProperties
<1>2. OneSpanPerId(V) /\ OneSpanPerId(W) /\ OneSpanPerId(V \cup W)
  BY <1>1 DEF OneSpanPerId
<1>3. Whole = Interacts(V \cup W) /\ Halves = Interacts(V) \cup Interacts(W)
  <2>1. extract_fingerprints(v) = Interacts(V) /\ extract_fingerprints(w) = Interacts(W)
    BY <1>2, ExtractionOfSet, Zenon
  <2>2. Whole = Interacts(V \cup W)
    BY <1>1, <1>2, ExtractionOfSet, Zenon
  <2>. QED
    BY <2>1, <2>2
<1>4. ASSUME NEW f \in Whole, f \notin Halves
      PROVE  f \in CallsBetween(V, W) \cup CallsBetween(W, V)
  <2>1. CASE f \in CallsBetween(V \cup W, V \cup W)
    <3>1. PICK p \in V \cup W, c \in V \cup W :
            CallsAcross(p, c) /\ f = Interaction(p.svc, c.svc, c.op)
      BY <2>1 DEF CallsBetween
    <3>2. ~ (p \in V /\ c \in V) /\ ~ (p \in W /\ c \in W)
      BY <1>3, <1>4, <3>1, BetweenIntro DEF Interacts
    <3>. QED
      BY <3>1, <3>2, BetweenIntro
  <2>2. CASE f \in LeafCallsIn(V \cup W, V \cup W, V \cup W)
    <3>1. PICK c \in V \cup W :
            /\ c.calls /\ c.callee # "" /\ c.svc # ""
            /\ ~ CalledAcross(V \cup W, V \cup W, c)
            /\ f = Interaction(c.svc, c.callee, c.op)
      BY <2>2 DEF LeafCallsIn
    <3>2. ~ CalledAcross(V, V, c) /\ ~ CalledAcross(W, W, c)
      BY <3>1 DEF CalledAcross
    <3>3. f \in LeafCallsIn(V, V, V) \cup LeafCallsIn(W, W, W)
      BY <3>1, <3>2 DEF LeafCallsIn
    <3>. QED
      BY <1>3, <1>4, <3>3 DEF Interacts
  <2>. QED
    BY <1>3, <1>4, <2>1, <2>2 DEF Interacts
<1>5. ASSUME NEW f \in Halves, f \notin Whole
      PROVE  f \in LeafCallsCut(V, W) \cup LeafCallsCut(W, V)
  <2>1. ASSUME NEW P, P = V \/ P = W PROVE f \notin CallsBetween(P, P)
    <3>1. ASSUME f \in CallsBetween(P, P) PROVE FALSE
      <4>1. PICK p \in P, c \in P :
              CallsAcross(p, c) /\ f = Interaction(p.svc, c.svc, c.op)
        BY <3>1, BetweenElim, Zenon
      <4>2. p \in V \cup W /\ c \in V \cup W
        BY <2>1
      <4>. QED
        BY <1>3, <1>5, <4>1, <4>2, BetweenIntro DEF Interacts
    <3>. QED
      BY <3>1
  <2>2. ASSUME NEW P, P = V \/ P = W, f \in LeafCallsIn(P, P, P)
        PROVE  \E c \in P, p \in (V \cup W) \ P :
                 /\ c.calls /\ c.callee # "" /\ c.svc # "" /\ CallsAcross(p, c)
                 /\ f = Interaction(c.svc, c.callee, c.op)
    <3>1. PICK c \in P :
            /\ c.calls /\ c.callee # "" /\ c.svc # "" /\ ~ CalledAcross(P, P, c)
            /\ f = Interaction(c.svc, c.callee, c.op)
      BY <2>2 DEF LeafCallsIn
    <3>2. c \in V \cup W
      BY <2>2
    <3>3. CalledAcross(V \cup W, V \cup W, c)
      BY <1>3, <1>5, <3>1, <3>2 DEF Interacts, LeafCallsIn
    <3>4. PICK p \in V \cup W, k \in V \cup W : CallsAcross(p, k) /\ k.id = c.id
      BY <3>3 DEF CalledAcross
    <3>5. k = c
      BY <1>1, <1>2, <3>2, <3>4, Zenon DEF OneSpanPerId
    <3>6. p \notin P
      BY <3>1, <3>4, <3>5, Zenon DEF CalledAcross
    <3>. QED
      BY <3>1, <3>4, <3>5, <3>6
  <2>3. f \in LeafCallsIn(V, V, V) \/ f \in LeafCallsIn(W, W, W)
    BY <1>3, <1>5, <2>1 DEF Interacts
  <2>4. CASE f \in LeafCallsIn(V, V, V)
    <3>1. PICK c \in V, p \in (V \cup W) \ V :
            /\ c.calls /\ c.callee # "" /\ c.svc # "" /\ CallsAcross(p, c)
            /\ f = Interaction(c.svc, c.callee, c.op)
      BY <2>2, <2>4, Zenon
    <3>. QED
      BY <3>1 DEF LeafCallsCut
  <2>5. CASE f \in LeafCallsIn(W, W, W)
    <3>1. PICK c \in W, p \in (V \cup W) \ W :
            /\ c.calls /\ c.callee # "" /\ c.svc # "" /\ CallsAcross(p, c)
            /\ f = Interaction(c.svc, c.callee, c.op)
      BY <2>2, <2>5, Zenon
    <3>. QED
      BY <3>1 DEF LeafCallsCut
  <2>. QED
    BY <2>3, <2>4, <2>5
<1>. QED
  BY <1>4, <1>5
=============================================================================
