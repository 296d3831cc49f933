------------------------- MODULE EventPipelineProofs -------------------------
(***************************************************************************)
(* Proofs about the event pipeline, for any number of orders, publishers   *)
(* and failures, and any batch sizes.                                      *)
(***************************************************************************)
EXTENDS EventPipeline, SequenceTheorems, FiniteSetTheorems, TLAPS

----------------------------------------------------------------------------
(* Facts about the operators *)

\* A sequence over a set is one over any larger set.
LEMMA SeqWidens ==
  ASSUME NEW S, NEW T, S \subseteq T, NEW s \in Seq(S)
  PROVE  s \in Seq(T)
<1>1. Len(s) \in Nat /\ s \in [1..Len(s) -> S]
  BY LenProperties
<1>2. s \in [1..Len(s) -> T]
  BY <1>1
<1> QED  BY <1>1, <1>2

\* The elements of a sequence are members of the set it is over, and those
\* of an extended sequence are the old ones and the new one.
LEMMA ElemsAppend ==
  ASSUME NEW S, NEW s \in Seq(S), NEW e \in S
  PROVE  /\ Elems(s) \subseteq S
         /\ Elems(Append(s, e)) = Elems(s) \cup {e}
<1>1. /\ Len(s) \in Nat /\ DOMAIN s = 1..Len(s)
      /\ DOMAIN Append(s, e) = 1..(Len(s) + 1)
      /\ \A i \in 1..Len(s) : s[i] \in S
      /\ \A i \in 1..Len(s) : Append(s, e)[i] = s[i]
      /\ Append(s, e)[Len(s) + 1] = e
  BY LenProperties, AppendProperties, ElementOfSeq
<1>2. \A i \in 1..(Len(s) + 1) : i \in 1..Len(s) \/ i = Len(s) + 1
  BY <1>1
<1>3. \A i \in 1..Len(s) : i \in 1..(Len(s) + 1)
  BY <1>1
<1>4. Len(s) + 1 \in 1..(Len(s) + 1)
  BY <1>1
<1> QED  BY <1>1, <1>2, <1>3, <1>4 DEF Elems

\* The elements of a concatenation are those of its two parts.
LEMMA ElemsConcat ==
  ASSUME NEW S, NEW s \in Seq(S), NEW t \in Seq(S)
  PROVE  Elems(s \o t) = Elems(s) \cup Elems(t)
<1>1. /\ Len(s) \in Nat /\ DOMAIN s = 1..Len(s)
      /\ Len(t) \in Nat /\ DOMAIN t = 1..Len(t)
      /\ DOMAIN (s \o t) = 1..(Len(s) + Len(t))
      /\ \A i \in 1..(Len(s) + Len(t)) :
           (s \o t)[i] = IF i <= Len(s) THEN s[i] ELSE t[i - Len(s)]
  BY LenProperties, ConcatProperties
<1>2. ASSUME NEW i \in 1..(Len(s) + Len(t))
      PROVE  (s \o t)[i] \in Elems(s) \cup Elems(t)
  <2>1. CASE i <= Len(s)
    BY <1>1, <2>1 DEF Elems
  <2>2. CASE ~(i <= Len(s))
    <3>1. i - Len(s) \in 1..Len(t)
      BY <1>1, <2>2
    <3> QED  BY <1>1, <2>2, <3>1 DEF Elems
  <2> QED  BY <2>1, <2>2
<1>3. ASSUME NEW i \in 1..Len(s)  PROVE  s[i] \in Elems(s \o t)
  <2>1. i \in 1..(Len(s) + Len(t)) /\ i <= Len(s)
    BY <1>1
  <2>2. (s \o t)[i] = s[i]
    BY <1>1, <2>1
  <2> QED  BY <1>1, <2>1, <2>2 DEF Elems
<1>4. ASSUME NEW i \in 1..Len(t)  PROVE  t[i] \in Elems(s \o t)
  <2>1. Len(s) + i \in 1..(Len(s) + Len(t)) /\ ~(Len(s) + i <= Len(s))
        /\ (Len(s) + i) - Len(s) = i
    BY <1>1
  <2>2. (s \o t)[Len(s) + i] = t[i]
    BY <1>1, <2>1
  <2> QED  BY <1>1, <2>1, <2>2 DEF Elems
<1>5. Elems(s \o t) \subseteq Elems(s) \cup Elems(t)
  BY <1>1, <1>2 DEF Elems
<1>6. Elems(s) \subseteq Elems(s \o t) /\ Elems(t) \subseteq Elems(s \o t)
  BY <1>1, <1>3, <1>4 DEF Elems
<1> QED  BY <1>5, <1>6

\* Two sequences without repetitions or common elements, concatenated, have
\* no repetitions.
LEMMA ConcatInjective ==
  ASSUME NEW S, NEW s \in Seq(S), NEW t \in Seq(S),
         \A i, j \in DOMAIN s : s[i] = s[j] => i = j,
         \A i, j \in DOMAIN t : t[i] = t[j] => i = j,
         Elems(s) \cap Elems(t) = {}
  PROVE  \A i, j \in DOMAIN (s \o t) : (s \o t)[i] = (s \o t)[j] => i = j
<1>1. /\ Len(s) \in Nat /\ DOMAIN s = 1..Len(s)
      /\ Len(t) \in Nat /\ DOMAIN t = 1..Len(t)
      /\ DOMAIN (s \o t) = 1..(Len(s) + Len(t))
      /\ \A i \in 1..(Len(s) + Len(t)) :
           (s \o t)[i] = IF i <= Len(s) THEN s[i] ELSE t[i - Len(s)]
  BY LenProperties, ConcatProperties
<1>2. SUFFICES ASSUME NEW i \in 1..(Len(s) + Len(t)),
                      NEW j \in 1..(Len(s) + Len(t)),
                      (s \o t)[i] = (s \o t)[j]
               PROVE  i = j
  BY <1>1
<1>3. \A k \in 1..(Len(s) + Len(t)) : ~(k <= Len(s)) => k - Len(s) \in 1..Len(t)
  BY <1>1
<1>4. ASSUME NEW k \in 1..Len(s), NEW l \in 1..Len(t)  PROVE  s[k] # t[l]
  <2>1. s[k] \in Elems(s) /\ t[l] \in Elems(t)
    BY <1>1 DEF Elems
  <2> QED  BY <2>1
<1>5. \A k \in 1..(Len(s) + Len(t)) : k <= Len(s) => k \in 1..Len(s)
  BY <1>1
<1>6. CASE i <= Len(s) /\ j <= Len(s)
  BY <1>1, <1>2, <1>5, <1>6
<1>7. CASE i <= Len(s) /\ ~(j <= Len(s))
  BY <1>1, <1>2, <1>3, <1>4, <1>5, <1>7
<1>8. CASE ~(i <= Len(s)) /\ j <= Len(s)
  BY <1>1, <1>2, <1>3, <1>4, <1>5, <1>8
<1>9. CASE ~(i <= Len(s)) /\ ~(j <= Len(s))
  <2>1. i - Len(s) \in 1..Len(t) /\ j - Len(s) \in 1..Len(t)
    BY <1>3, <1>9
  <2>2. i - Len(s) = j - Len(s)
    BY <1>1, <1>2, <1>9, <2>1
  <2> QED  BY <1>1, <2>2
<1> QED  BY <1>6, <1>7, <1>8, <1>9

\* The n smallest of a set of entries: a subset, and with an entry every
\* smaller one of the set.
LEMMA FirstOfFacts ==
  ASSUME NEW m \in Nat, NEW S \in SUBSET (1..m), NEW n \in Nat
  PROVE  /\ FirstOf(S, n) \subseteq S
         /\ \A i \in FirstOf(S, n), j \in S : j < i => j \in FirstOf(S, n)
<1>1. ASSUME NEW i \in FirstOf(S, n), NEW j \in S, j < i
      PROVE  j \in FirstOf(S, n)
  <2> DEFINE A == {x \in S : x < i}
             B == {x \in S : x < j}
  <2>1. i \in 1..m /\ j \in 1..m /\ Cardinality(A) < n
    BY DEF FirstOf
  <2>2. IsFiniteSet(1..m)
    BY FS_Interval
  <2>3. IsFiniteSet(A)
    <3>1. A \in SUBSET (1..m)
      OBVIOUS
    <3> HIDE DEF A
    <3> QED  BY <2>2, <3>1, FS_Subset
  <2>4. B \in SUBSET A
    <3>1. \A x \in S : x \in Int /\ (x < j => x < i)
      BY <1>1, <2>1
    <3> QED  BY <3>1
  <2> HIDE DEF A, B
  <2>5. Cardinality(B) <= Cardinality(A) /\ IsFiniteSet(B)
    BY <2>3, <2>4, FS_Subset
  <2>6. Cardinality(A) \in Nat /\ Cardinality(B) \in Nat
    BY <2>3, <2>5, FS_CardinalityType
  <2>7. Cardinality(B) < n
    BY <2>1, <2>5, <2>6
  <2> QED  BY <2>7 DEF FirstOf, B
<1> QED  BY <1>1 DEF FirstOf

----------------------------------------------------------------------------
(* What the steps of each process leave alone *)

\* Requests touch the outbox only; rows keep their event, and a committed
\* row stays committed.
OutboxGrows ==
  /\ DOMAIN outbox \subseteq DOMAIN outbox'
  /\ \A k \in DOMAIN outbox :
       /\ outbox'[k].ev = outbox[k].ev
       /\ outbox[k].st \in {"unpublished", "published"} =>
            outbox'[k].st \in {"unpublished", "published"}

\* The stream is a log: entries are added at its end.
StreamGrows ==
  /\ Len(stream) <= Len(stream')
  /\ DOMAIN stream \subseteq DOMAIN stream'
  /\ \A i \in DOMAIN stream : stream'[i] = stream[i]

\* No step of a request or a publisher touches the matcher.
MatcherUntouched ==
  UNCHANGED <<processed, dbLog, group, cursor, pel, mpc, origin, batch, todo,
              txLog, bookDirty>>

\* A step of a request changes the outbox and the fault budget only.
LEMMA ApiFrame ==
  ASSUME API
  PROVE  MatcherUntouched /\ UNCHANGED <<stream, ppc, queue>>
BY DEF API, Place, Cancel, InsertRow, CommitRow, AbortRow, Fault, MatcherUntouched,
       dbVars, redisVars, pubVars, loopVars

\* A step of a publisher changes neither the matcher nor, but for PCommit,
\* the outbox.
LEMMA PublisherFrame ==
  ASSUME NEW p \in Publishers, PublisherStep(p) \/ PFail(p)
  PROVE  /\ MatcherUntouched
         /\ PCommit(p) \/ UNCHANGED outbox
         /\ PAdd(p) \/ UNCHANGED stream
BY DEF PublisherStep, PFail, PFetch, PAdd, PSkip, PCommit, Advance, Fault,
       MatcherUntouched, apiVars, dbVars, redisVars, loopVars

\* The matcher touches neither the outbox nor the publishers, and only reads
\* the stream.
LEMMA MatcherFrame ==
  ASSUME MatcherStep \/ MatcherFault
  PROVE  UNCHANGED <<outbox, stream, ppc, queue>>
<1> USE DEF apiVars, redisVars, pubVars
<1>1. CASE MBoot \/ MJoin \/ MResync \/ MCrash
  BY <1>1 DEF MBoot, MJoin, MResync, MCrash
<1>2. CASE MReadPending \/ MReadNew \/ MReadFail
  BY <1>2 DEF MReadPending, MReadNew, MReadFail
<1>3. CASE MApplyEntry \/ MCommit \/ MApplyFail
  BY <1>3 DEF MApplyEntry, MCommit, MApplyFail
<1>4. CASE MAck \/ MAckFail
  BY <1>4 DEF MAck, MAckFail
<1> QED  BY <1>1, <1>2, <1>3, <1>4 DEF MatcherStep, MatcherFault

\* A row whose state changes is still a row of the table, under the same id.
LEMMA OutboxUpdate ==
  ASSUME outbox \in Seq(Row), NEW k \in DOMAIN outbox,
         NEW s \in {"open", "aborted", "unpublished", "published"},
         outbox' = [outbox EXCEPT ![k].st = s]
  PROVE  /\ outbox' \in Seq(Row) /\ Len(outbox') = Len(outbox)
         /\ DOMAIN outbox' = DOMAIN outbox
         /\ \A j \in DOMAIN outbox :
              /\ outbox'[j].ev = outbox[j].ev
              /\ outbox'[j].st = IF j = k THEN s ELSE outbox[j].st
<1>1. /\ Len(outbox) \in Nat /\ DOMAIN outbox = 1..Len(outbox)
      /\ \A j \in 1..Len(outbox) : outbox[j] \in Row
  BY LenProperties, ElementOfSeq
<1> DEFINE r == [ev |-> outbox[k].ev, st |-> s]
           new == [outbox EXCEPT ![k] = r]
<1>2. r \in Row
  BY <1>1 DEF Row
<1>3. outbox' = new
  <2>1. [outbox[k] EXCEPT !.st = s] = r
    BY <1>1 DEF Row
  <2> QED  BY <2>1
<1>4. /\ new \in Seq(Row) /\ Len(new) = Len(outbox)
      /\ \A j \in 1..Len(outbox) : new[j] = IF j = k THEN r ELSE outbox[j]
  <2> HIDE DEF r
  <2> QED  BY <1>1, <1>2, ExceptSeq
<1>5. DOMAIN new = DOMAIN outbox
  BY <1>1
<1>6. r.ev = outbox[k].ev /\ r.st = s
  OBVIOUS
<1> HIDE DEF new, r
<1>7. outbox' \in Seq(Row) /\ Len(outbox') = Len(outbox) /\ DOMAIN outbox' = DOMAIN outbox
  BY <1>3, <1>4, <1>5
<1>8. \A j \in DOMAIN outbox : outbox'[j] = IF j = k THEN r ELSE outbox[j]
  BY <1>1, <1>3, <1>4
<1> QED  BY <1>6, <1>7, <1>8

\* What a request's step does to the outbox: a row is added at the end, or
\* the state of an open row changes.
LEMMA ApiOutbox ==
  ASSUME TypeOK, API
  PROVE  /\ outbox' \in Seq(Row) /\ Len(outbox') <= MaxOutbox
         /\ OutboxGrows
         /\ \A k \in DOMAIN outbox :
              outbox'[k].st = outbox[k].st \/ outbox[k].st = "open"
         /\ \A k \in DOMAIN outbox' : outbox'[k].st = "published" =>
              k \in DOMAIN outbox /\ outbox[k].st = "published"
<1>1. /\ outbox \in Seq(Row) /\ Len(outbox) \in Nat /\ DOMAIN outbox = 1..Len(outbox)
      /\ \A j \in 1..Len(outbox) : outbox[j] \in Row
      /\ Len(outbox) <= MaxOutbox
  BY LenProperties, ElementOfSeq DEF TypeOK
<1>2. CASE \E o \in Orders : Place(o) \/ Cancel(o)
  <2>1. PICK o \in Orders, kind \in {"NEW", "CANCEL"} : InsertRow(kind, o)
    BY <1>2 DEF Place, Cancel
  <2> DEFINE r == [ev |-> [kind |-> kind, order |-> o], st |-> "open"]
  <2>2. r \in Row
    BY DEF Row, Event
  <2>3. outbox' = Append(outbox, r) /\ Len(outbox) < MaxOutbox
    BY <2>1 DEF InsertRow
  <2>4. r.st = "open"
    OBVIOUS
  <2> HIDE DEF r
  <2>5. /\ outbox' \in Seq(Row) /\ Len(outbox') = Len(outbox) + 1
        /\ \A j \in 1..Len(outbox) : outbox'[j] = outbox[j]
        /\ outbox'[Len(outbox) + 1] = r
    BY <1>1, <2>2, <2>3, AppendProperties
  <2>6. DOMAIN outbox' = 1..(Len(outbox) + 1)
    BY <2>5, LenProperties
  <2>7. Len(outbox') <= MaxOutbox
    BY <1>1, <2>3, <2>5, BoundsAssumption
  <2>8. \A k \in DOMAIN outbox' : k \in DOMAIN outbox \/ outbox'[k].st = "open"
    BY <1>1, <2>4, <2>5, <2>6
  <2> QED  BY <1>1, <2>5, <2>6, <2>7, <2>8 DEF OutboxGrows
<1>3. CASE \E k \in DOMAIN outbox : CommitRow(k) \/ AbortRow(k)
  <2>1. PICK k \in DOMAIN outbox, s \in {"unpublished", "aborted"} :
          outbox[k].st = "open" /\ outbox' = [outbox EXCEPT ![k].st = s]
    BY <1>3 DEF CommitRow, AbortRow
  <2>2. /\ outbox' \in Seq(Row) /\ Len(outbox') = Len(outbox)
        /\ DOMAIN outbox' = DOMAIN outbox
        /\ \A j \in DOMAIN outbox :
             /\ outbox'[j].ev = outbox[j].ev
             /\ outbox'[j].st = IF j = k THEN s ELSE outbox[j].st
    <3>1. /\ outbox \in Seq(Row) /\ k \in DOMAIN outbox
          /\ s \in {"open", "aborted", "unpublished", "published"}
          /\ outbox' = [outbox EXCEPT ![k].st = s]
      BY <1>1, <2>1
    <3> QED  BY <3>1, OutboxUpdate
  <2> QED  BY <1>1, <2>1, <2>2 DEF OutboxGrows
<1> QED  BY <1>2, <1>3 DEF API

\* What a publisher's step does to the outbox: PCommit marks the row it is at.
LEMMA PublisherOutbox ==
  ASSUME TypeOK, NEW p \in Publishers, PublisherStep(p) \/ PFail(p)
  PROVE  /\ outbox' \in Seq(Row) /\ Len(outbox') <= MaxOutbox
         /\ DOMAIN outbox' = DOMAIN outbox
         /\ \A k \in DOMAIN outbox :
              /\ outbox'[k].ev = outbox[k].ev
              /\ \/ outbox'[k].st = outbox[k].st
                 \/ /\ PCommit(p) /\ k \in queue[p] /\ IsMin(k, queue[p])
                    /\ outbox'[k].st = "published"
<1>1. CASE PCommit(p)
  <2>1. PICK k \in queue[p] : /\ IsMin(k, queue[p])
                              /\ outbox' = [outbox EXCEPT ![k].st = "published"]
    BY <1>1 DEF PCommit
  <2>2. k \in DOMAIN outbox /\ outbox \in Seq(Row)
    BY DEF TypeOK
  <2>3. /\ outbox' \in Seq(Row) /\ Len(outbox') = Len(outbox)
        /\ DOMAIN outbox' = DOMAIN outbox
        /\ \A j \in DOMAIN outbox :
             /\ outbox'[j].ev = outbox[j].ev
             /\ outbox'[j].st = IF j = k THEN "published" ELSE outbox[j].st
    BY <2>1, <2>2, OutboxUpdate
  <2> QED  BY <1>1, <2>1, <2>2, <2>3 DEF TypeOK
<1>2. CASE UNCHANGED outbox
  BY <1>2 DEF TypeOK
<1> QED  BY <1>1, <1>2, PublisherFrame

\* What a publisher's step does to the stream: PAdd appends the event of the
\* row it is at, which is unpublished and not locked.
LEMMA PublisherStream ==
  ASSUME TypeOK, NEW p \in Publishers, PublisherStep(p) \/ PFail(p)
  PROVE  /\ stream' \in Seq(Entry)
         /\ StreamGrows
         /\ ~PAdd(p) => UNCHANGED stream
         /\ PAdd(p) =>
              /\ Len(stream') = Len(stream) + 1
              /\ \E k \in queue[p] :
                   /\ IsMin(k, queue[p]) /\ k \in Unpublished \ Locked
                   /\ stream'[Len(stream) + 1] = [row |-> k, ev |-> outbox[k].ev]
<1>1. /\ stream \in Seq(Entry) /\ Len(stream) \in Nat
      /\ DOMAIN stream = 1..Len(stream)
      /\ outbox \in Seq(Row) /\ Len(outbox) \in Nat /\ DOMAIN outbox = 1..Len(outbox)
      /\ \A j \in DOMAIN outbox : outbox[j] \in Row
  BY LenProperties, ElementOfSeq DEF TypeOK
<1>2. CASE PAdd(p)
  <2>1. PICK k \in queue[p] :
          /\ IsMin(k, queue[p]) /\ k \in Unpublished \ Locked
          /\ stream' = Append(stream, [row |-> k, ev |-> outbox[k].ev])
    BY <1>2 DEF PAdd
  <2> DEFINE e == [row |-> k, ev |-> outbox[k].ev]
  <2>2. e \in Entry
    BY <1>1, <2>1 DEF Entry, Row, Unpublished
  <2>3. stream' = Append(stream, e)
    BY <2>1
  <2> HIDE DEF e
  <2>4. /\ stream' \in Seq(Entry) /\ Len(stream') = Len(stream) + 1
        /\ \A j \in 1..Len(stream) : stream'[j] = stream[j]
        /\ stream'[Len(stream) + 1] = e
    BY <1>1, <2>2, <2>3, AppendProperties
  <2>5. DOMAIN stream' = 1..(Len(stream) + 1)
    BY <2>4, LenProperties
  <2>6. StreamGrows
    BY <1>1, <2>4, <2>5 DEF StreamGrows
  <2>7. stream'[Len(stream) + 1] = [row |-> k, ev |-> outbox[k].ev]
    BY <2>4 DEF e
  <2> QED  BY <1>2, <2>1, <2>4, <2>6, <2>7
<1>3. CASE ~PAdd(p)
  BY <1>1, <1>3, PublisherFrame DEF StreamGrows
<1> QED  BY <1>2, <1>3

\* Every step lets the outbox and the stream grow.
LEMMA LogsGrow ==
  ASSUME TypeOK, [Next]_vars
  PROVE  OutboxGrows /\ StreamGrows
<1>1. CASE API
  BY <1>1, ApiOutbox, ApiFrame, LenProperties DEF StreamGrows, TypeOK
<1>2. CASE \E p \in Publishers : PublisherStep(p) \/ PFail(p)
  <2>1. PICK p \in Publishers : PublisherStep(p) \/ PFail(p)
    BY <1>2
  <2> QED  BY <2>1, PublisherOutbox, PublisherStream DEF OutboxGrows
<1>3. CASE UNCHANGED <<outbox, stream>>
  BY <1>3, LenProperties DEF OutboxGrows, StreamGrows, TypeOK
<1> QED  BY <1>1, <1>2, <1>3, MatcherFrame DEF Next, vars

----------------------------------------------------------------------------
(* Types *)

\* The types of the matcher's variables, which depend on the stream through
\* its length only.
LEMMA MatcherTypesWiden ==
  ASSUME TypeOK, MatcherUntouched, stream' \in Seq(Entry), StreamGrows
  PROVE  /\ processed' \subseteq 1..Len(stream')
         /\ dbLog' \in Seq(1..Len(stream'))
         /\ group' \in BOOLEAN
         /\ cursor' \in 0..Len(stream')
         /\ pel' \subseteq 1..cursor'
         /\ mpc' \in {"down", "join", "reclaim", "poll", "apply", "ack", "resync"}
         /\ origin' \in {"boot", "poll", "retry"}
         /\ batch' \subseteq 1..cursor' /\ todo' \subseteq batch'
         /\ txLog' \in Seq(1..cursor')
         /\ bookDirty' \in BOOLEAN
<1>1. Len(stream) \in Nat /\ Len(stream') \in Nat /\ Len(stream) <= Len(stream')
  BY LenProperties DEF TypeOK, StreamGrows
<1>2. 1..Len(stream) \subseteq 1..Len(stream') /\ 0..Len(stream) \subseteq 0..Len(stream')
  BY <1>1
<1>3. dbLog' \in Seq(1..Len(stream'))
  BY <1>2, SeqWidens DEF TypeOK, MatcherUntouched
<1> QED  BY <1>2, <1>3 DEF TypeOK, MatcherUntouched

\* A failure uses up the budget.
LEMMA FaultType ==
  ASSUME faults \in 0..MaxFaults, NEW kind, Fault(kind)
  PROVE  faults' \in 0..MaxFaults
BY BoundsAssumption DEF Fault

\* Where the matcher goes after an error.
LEMMA AfterErrorType ==
  ASSUME origin \in {"boot", "poll", "retry"}, NEW dirty, AfterError(dirty)
  PROVE  /\ mpc' \in {"down", "reclaim", "poll", "resync"}
         /\ origin' \in {"boot", "poll", "retry"}
BY DEF AfterError

\* A delivery moves the cursor forward, to the end of the stream at most, and
\* makes pending exactly the entries it passes.
LEMMA DeliverFacts ==
  ASSUME TypeOK, Deliver, cursor < Len(stream)
  PROVE  /\ cursor' \in 0..Len(stream) /\ cursor < cursor'
         /\ pel' = pel \cup (cursor + 1)..cursor'
         /\ pel' \subseteq 1..cursor'
         /\ 1..cursor \subseteq 1..cursor'
         /\ \A i \in 1..cursor' : i \in 1..cursor \/ i \in (cursor + 1)..cursor'
<1>1. Len(stream) \in Nat /\ cursor \in 0..Len(stream) /\ BatchSize \in Nat \ {0}
      /\ pel \subseteq 1..cursor
  BY LenProperties, BoundsAssumption DEF TypeOK
<1>2. /\ cursor' = IF Len(stream) < cursor + BatchSize THEN Len(stream)
                                                       ELSE cursor + BatchSize
      /\ pel' = pel \cup (cursor + 1)..cursor'
  BY DEF Deliver
<1>3. cursor' \in 0..Len(stream) /\ cursor < cursor'
  BY <1>1, <1>2
<1>4. 1..cursor \subseteq 1..cursor' /\ (cursor + 1)..cursor' \subseteq 1..cursor'
  BY <1>1, <1>3
<1>5. \A i \in 1..cursor' : i \in 1..cursor \/ i \in (cursor + 1)..cursor'
  BY <1>1, <1>3
<1> QED  BY <1>1, <1>2, <1>3, <1>4, <1>5

\* TypeOK is an invariant: the matcher's own steps.
LEMMA MatcherTypes ==
  ASSUME TypeOK, TxInv, MatcherStep \/ MatcherFault
  PROVE  TypeOK'
<1> USE DEF apiVars, dbVars, redisVars, pubVars, loopVars
<1>1. UNCHANGED <<outbox, stream, ppc, queue>>
  BY MatcherFrame
<1>2. /\ Len(stream) \in Nat /\ BatchSize \in Nat \ {0} /\ MaxFaults \in Nat
      /\ cursor \in Nat /\ 1..cursor \subseteq 1..Len(stream)
  BY LenProperties, BoundsAssumption DEF TypeOK
<1>3. /\ <<>> \in Seq(1..cursor) /\ <<>> \in Seq(1..cursor')
  BY EmptySeq
<1>5. CASE MBoot
  BY <1>1, <1>5 DEF MBoot, TypeOK
<1>6. CASE MJoin
  BY <1>1, <1>2, <1>6, SeqWidens DEF MJoin, TypeOK
<1>7. CASE MResync
  BY <1>1, <1>7 DEF MResync, TypeOK
<1>8. CASE MCrash
  BY <1>1, <1>3, <1>8, FaultType DEF MCrash, EndTx, TypeOK
<1>9. CASE MReadPending
  <2>1. FirstOf(pel, BatchSize) \subseteq pel
    BY DEF FirstOf
  <2> QED  BY <1>1, <1>3, <1>9, <2>1 DEF MReadPending, StartBatch, TypeOK
<1>10. CASE MReadNew
  <2>1. /\ cursor' \in 0..Len(stream) /\ pel' \subseteq 1..cursor'
        /\ (cursor + 1)..cursor' \subseteq 1..cursor'
    BY <1>2, <1>10, DeliverFacts DEF MReadNew
  <2>2. /\ batch' = (cursor + 1)..cursor' /\ todo' = batch' /\ txLog' = <<>>
        /\ mpc' = "apply"
        /\ UNCHANGED <<processed, dbLog, group, origin, bookDirty, faults>>
    BY <1>10 DEF MReadNew, StartBatch
  <2> QED  BY <1>1, <1>3, <2>1, <2>2 DEF TypeOK
<1>11. CASE MReadFail
  <2>1. /\ cursor' \in 0..Len(stream) /\ pel' \subseteq 1..cursor'
        /\ 1..cursor \subseteq 1..cursor'
    BY <1>11, DeliverFacts DEF MReadFail, TypeOK
  <2>2. txLog' \in Seq(1..cursor')
    BY <1>11, <2>1, SeqWidens DEF MReadFail, TypeOK
  <2>3. faults' \in 0..MaxFaults
    BY <1>11, FaultType DEF MReadFail, TypeOK
  <2>4. /\ mpc' \in {"down", "reclaim", "poll", "resync"}
        /\ origin' \in {"boot", "poll", "retry"}
    BY <1>11, AfterErrorType DEF MReadFail, TypeOK
  <2>5. UNCHANGED <<processed, dbLog, group, batch, todo, bookDirty>>
    BY <1>11 DEF MReadFail
  <2> QED  BY <1>1, <2>1, <2>2, <2>3, <2>4, <2>5 DEF TypeOK
<1>12. CASE MApplyEntry
  <2>1. PICK i \in todo :
          /\ todo' = todo \ {i}
          /\ UNCHANGED txLog \/ txLog' = Append(txLog, i)
    BY <1>12 DEF MApplyEntry
  <2>2. i \in 1..cursor /\ i \in 1..Len(stream)
    BY <1>2 DEF TypeOK
  <2>4. txLog' \in Seq(1..cursor)
    <3>1. CASE txLog' = Append(txLog, i)
      BY <2>2, <3>1, AppendProperties DEF TypeOK
    <3> QED  BY <2>1, <3>1 DEF TypeOK
  <2>5. UNCHANGED <<processed, dbLog, group, cursor, pel, mpc, origin, batch,
                    bookDirty, faults>>
    BY <1>12 DEF MApplyEntry
  <2> QED  BY <1>1, <2>1, <2>4, <2>5 DEF TypeOK
<1>13. ASSUME CommitTx
       PROVE  /\ processed' \subseteq 1..Len(stream')
              /\ dbLog' \in Seq(1..Len(stream'))
  <2>1. txLog \in Seq(1..Len(stream))
    BY <1>2, SeqWidens DEF TypeOK
  <2>2. dbLog \o txLog \in Seq(1..Len(stream))
    BY <2>1, ConcatProperties DEF TypeOK
  <2>3. Elems(txLog) \subseteq 1..Len(stream)
    BY <2>1, LenProperties, ElementOfSeq DEF Elems
  <2> QED  BY <1>1, <1>13, <2>2, <2>3 DEF CommitTx, TypeOK
<1>14. CASE MCommit
  BY <1>1, <1>3, <1>13, <1>14 DEF MCommit, TypeOK
<1>15. CASE MApplyFail
  <2>1. /\ processed' \subseteq 1..Len(stream')
        /\ dbLog' \in Seq(1..Len(stream'))
    <3>1. UNCHANGED dbVars \/ CommitTx
      BY <1>15 DEF MApplyFail
    <3>2. CASE UNCHANGED dbVars
      BY <1>1, <3>2 DEF TypeOK
    <3> QED  BY <1>13, <3>1, <3>2
  <2>2. faults' \in 0..MaxFaults
    BY <1>15, FaultType DEF MApplyFail, TypeOK
  <2>3. /\ mpc' \in {"down", "reclaim", "poll", "resync"}
        /\ origin' \in {"boot", "poll", "retry"}
    BY <1>15, AfterErrorType DEF MApplyFail, TypeOK
  <2>4. /\ batch' = {} /\ todo' = {} /\ txLog' = <<>>
        /\ bookDirty' = TRUE /\ UNCHANGED <<group, cursor, pel>>
    BY <1>15 DEF MApplyFail, EndTx
  <2> QED  BY <1>1, <1>3, <2>1, <2>2, <2>3, <2>4 DEF TypeOK
<1>16. CASE MAck
  BY <1>1, <1>16 DEF MAck, TypeOK, TxInv
<1>17. CASE MAckFail
  <2>1. faults' \in 0..MaxFaults
    BY <1>17, FaultType DEF MAckFail, TypeOK
  <2>2. /\ mpc' \in {"down", "reclaim", "poll", "resync"}
        /\ origin' \in {"boot", "poll", "retry"}
    BY <1>17, AfterErrorType DEF MAckFail, TypeOK
  <2>3. /\ batch' = {} /\ pel' \subseteq pel
        /\ UNCHANGED <<processed, dbLog, group, cursor, todo, txLog, bookDirty>>
        /\ todo = {}
    BY <1>17 DEF MAckFail, TxInv
  <2> QED  BY <1>1, <1>17, <2>1, <2>2, <2>3 DEF TypeOK
<1> QED  BY <1>5, <1>6, <1>7, <1>8, <1>9, <1>10, <1>11, <1>12, <1>14, <1>15,
            <1>16, <1>17 DEF MatcherStep, MatcherFault

\* TypeOK is an invariant: every step.
LEMMA TypesPreserved ==
  ASSUME TypeOK, TxInv, [Next]_vars
  PROVE  TypeOK'
<1>1. CASE API
  <2>1. outbox' \in Seq(Row) /\ Len(outbox') <= MaxOutbox
        /\ DOMAIN outbox \subseteq DOMAIN outbox'
    BY <1>1, ApiOutbox DEF OutboxGrows
  <2>2. MatcherUntouched /\ UNCHANGED <<stream, ppc, queue>>
    BY <1>1, ApiFrame
  <2>3. faults' \in 0..MaxFaults
    BY <1>1, FaultType DEF API, Place, Cancel, InsertRow, CommitRow, AbortRow, TypeOK
  <2>4. queue' \in [Publishers -> SUBSET DOMAIN outbox']
    BY <2>1, <2>2 DEF TypeOK
  <2> QED  BY <2>1, <2>2, <2>3, <2>4 DEF TypeOK, MatcherUntouched
<1>2. CASE \E p \in Publishers : PublisherStep(p) \/ PFail(p)
  <2>1. PICK p \in Publishers : PublisherStep(p) \/ PFail(p)
    BY <1>2
  <2>2. /\ outbox' \in Seq(Row) /\ Len(outbox') <= MaxOutbox
        /\ DOMAIN outbox' = DOMAIN outbox
    BY <2>1, PublisherOutbox
  <2>3. stream' \in Seq(Entry) /\ StreamGrows /\ MatcherUntouched
    BY <2>1, PublisherStream, PublisherFrame
  <2>4. faults' \in 0..MaxFaults
    <3>1. CASE PFail(p)
      BY <3>1, FaultType DEF PFail, TypeOK
    <3> QED  BY <2>1, <3>1 DEF PublisherStep, PFetch, PAdd, PSkip, PCommit, TypeOK
  <2>5. /\ ppc' \in [Publishers -> {"idle", "next", "added"}]
        /\ queue' \in [Publishers -> SUBSET DOMAIN outbox]
    <3>1. \A free \in Free(p) : FirstOf(free, PubBatch) \subseteq DOMAIN outbox
      BY DEF Free, FirstOf, Unpublished
    <3>2. CASE PFetch(p)
      <4>1. PICK b : b \subseteq DOMAIN outbox /\ queue' = [queue EXCEPT ![p] = b]
        BY <3>1, <3>2 DEF PFetch
      <4> QED  BY <3>2, <4>1 DEF PFetch, TypeOK
    <3>3. CASE PAdd(p)
      BY <3>3 DEF PAdd, TypeOK
    <3>4. CASE PSkip(p) \/ PCommit(p)
      BY <3>4, ZenonT(40) DEF PSkip, PCommit, Advance, TypeOK
    <3>5. CASE PFail(p)
      BY <3>5 DEF PFail, TypeOK
    <3> QED  BY <2>1, <3>2, <3>3, <3>4, <3>5 DEF PublisherStep
  <2> QED  BY <2>2, <2>3, <2>4, <2>5, MatcherTypesWiden DEF TypeOK
<1>3. CASE UNCHANGED vars
  BY <1>3 DEF vars, TypeOK
<1> QED  BY <1>1, <1>2, <1>3, MatcherTypes DEF Next

----------------------------------------------------------------------------
(* The outbox and the stream *)

\* A publisher between XADD and commit stays where it is until its own next
\* step.
LEMMA OthersWait ==
  ASSUME TypeOK, [Next]_vars, NEW q \in Publishers,
         ~(PublisherStep(q) \/ PFail(q))
  PROVE  ppc'[q] = ppc[q] /\ queue'[q] = queue[q]
<1>1. CASE \E p \in Publishers : PublisherStep(p) \/ PFail(p)
  <2>1. PICK p \in Publishers : PublisherStep(p) \/ PFail(p)
    BY <1>1
  <2>2. p # q
    BY <2>1
  <2>3. CASE PFetch(p) \/ PAdd(p) \/ PFail(p)
    BY <2>2, <2>3 DEF PFetch, PAdd, PFail, TypeOK
  <2>4. CASE PSkip(p) \/ PCommit(p)
    BY <2>2, <2>4 DEF PSkip, PCommit, Advance, TypeOK
  <2> QED  BY <2>1, <2>3, <2>4 DEF PublisherStep
<1>2. CASE UNCHANGED <<ppc, queue>>
  BY <1>2
<1> QED  BY <1>1, <1>2, ApiFrame, MatcherFrame DEF Next, vars

\* The step that puts a publisher between XADD and commit is PAdd, which
\* leaves its batch as it is.
LEMMA AddedByPAdd ==
  ASSUME TypeOK, NEW p \in Publishers, PublisherStep(p) \/ PFail(p),
         ppc'[p] = "added"
  PROVE  PAdd(p) /\ queue' = queue /\ ppc' = [ppc EXCEPT ![p] = "added"]
BY DEF PublisherStep, PFail, PFetch, PAdd, PSkip, PCommit, Advance, TypeOK

\* A publisher between XADD and commit has its row's entry in the stream.
LEMMA AddedPreserved ==
  ASSUME TypeOK, AddedInv, [Next]_vars
  PROVE  AddedInv'
<1>1. OutboxGrows /\ StreamGrows
  BY LogsGrow
<1>2. SUFFICES ASSUME NEW p \in Publishers, ppc'[p] = "added"
               PROVE  \E k \in queue'[p] :
                        /\ \A j \in queue'[p] : k <= j
                        /\ \E i \in DOMAIN stream' : stream'[i].row = k
  BY DEF AddedInv, IsMin
<1>3. CASE PublisherStep(p) \/ PFail(p)
  <2>1. PAdd(p) /\ queue' = queue
    BY <1>2, <1>3, AddedByPAdd
  <2>2. stream' \in Seq(Entry) /\ Len(stream) \in Nat
    BY <1>3, PublisherStream, LenProperties DEF TypeOK
  <2>4. PICK k \in queue[p] :
           /\ IsMin(k, queue[p]) /\ Len(stream') = Len(stream) + 1
           /\ stream'[Len(stream) + 1] = [row |-> k, ev |-> outbox[k].ev]
    BY <1>3, <2>1, PublisherStream
  <2>5. Len(stream) + 1 \in DOMAIN stream'
    BY <2>2, <2>4, LenProperties
  <2> QED  BY <2>1, <2>4, <2>5 DEF IsMin
<1>4. CASE ~(PublisherStep(p) \/ PFail(p))
  <2>1. ppc[p] = "added" /\ queue'[p] = queue[p]
    BY <1>2, <1>4, OthersWait
  <2> QED  BY <1>1, <2>1 DEF AddedInv, StreamGrows, IsMin
<1> QED  BY <1>3, <1>4

\* The stream holds events of committed rows only, and every row marked
\* published is in it.
LEMMA StreamPreserved ==
  ASSUME TypeOK, AddedInv, StreamMatchesOutbox, [Next]_vars
  PROVE  StreamMatchesOutbox'
<1>1. OutboxGrows /\ StreamGrows
  BY LogsGrow
<1>2. DOMAIN stream = 1..Len(stream) /\ Len(stream) \in Nat
  BY LenProperties DEF TypeOK
<1>3. ASSUME NEW k \in DOMAIN outbox, outbox[k].st = "published"
      PROVE  \E i \in DOMAIN stream' : stream'[i].row = k
  BY <1>1, <1>3 DEF StreamMatchesOutbox, StreamGrows
<1>4. ASSUME NEW i \in DOMAIN stream
      PROVE  /\ stream'[i].row \in Committed'
             /\ stream'[i].ev = outbox'[stream'[i].row].ev
  BY <1>1 DEF StreamMatchesOutbox, StreamGrows, OutboxGrows, Committed
<1>5. CASE API
  BY <1>1, <1>3, <1>4, <1>5, ApiOutbox, ApiFrame DEF StreamMatchesOutbox
<1>6. CASE \E p \in Publishers : PublisherStep(p) \/ PFail(p)
  <2>1. PICK p \in Publishers : PublisherStep(p) \/ PFail(p)
    BY <1>6
  <2>2. ASSUME NEW k \in DOMAIN outbox', outbox'[k].st = "published"
        PROVE  \E i \in DOMAIN stream' : stream'[i].row = k
    <3>1. k \in DOMAIN outbox
      BY <2>1, PublisherOutbox
    <3>2. CASE outbox[k].st = "published"
      BY <1>3, <3>1, <3>2
    <3>3. CASE PCommit(p) /\ k \in queue[p] /\ IsMin(k, queue[p])
      <4>1. PICK j \in queue[p] : /\ IsMin(j, queue[p])
                                  /\ \E i \in DOMAIN stream : stream[i].row = j
        BY <3>3 DEF PCommit, AddedInv
      <4>2. j = k
        <5>1. j \in Nat /\ k \in Nat /\ j <= k /\ k <= j
          BY <3>1, <3>3, <4>1, LenProperties DEF IsMin, TypeOK
        <5> QED  BY <5>1
      <4> QED  BY <1>1, <4>1, <4>2 DEF StreamGrows
    <3> QED  BY <2>1, <2>2, <3>1, <3>2, <3>3, PublisherOutbox
  <2>3. ASSUME NEW i \in DOMAIN stream'
        PROVE  /\ stream'[i].row \in Committed'
               /\ stream'[i].ev = outbox'[stream'[i].row].ev
    <3>1. CASE UNCHANGED stream
      BY <1>4, <3>1
    <3>2. ASSUME PAdd(p), Len(stream') = Len(stream) + 1,
                 NEW k \in queue[p], k \in Unpublished \ Locked,
                 stream'[Len(stream) + 1] = [row |-> k, ev |-> outbox[k].ev]
          PROVE  /\ stream'[i].row \in Committed'
                 /\ stream'[i].ev = outbox'[stream'[i].row].ev
      <4>1. i \in DOMAIN stream \/ i = Len(stream) + 1
        <5>1. DOMAIN stream' = 1..(Len(stream) + 1)
          BY <2>1, <3>2, PublisherStream, LenProperties
        <5> QED  BY <1>2, <5>1
      <4>2. CASE i = Len(stream) + 1
        <5>1. UNCHANGED outbox
          BY <3>2 DEF PAdd, apiVars
        <5>2. k \in Committed'
          BY <3>2, <5>1 DEF Unpublished, Committed
        <5> QED  BY <3>2, <4>2, <5>1, <5>2
      <4> QED  BY <1>4, <4>1, <4>2
    <3> QED  BY <2>1, <3>1, <3>2, PublisherStream
  <2> QED  BY <2>2, <2>3 DEF StreamMatchesOutbox
<1>7. CASE UNCHANGED <<outbox, stream>>
  BY <1>7 DEF StreamMatchesOutbox, Committed
<1> QED  BY <1>5, <1>6, <1>7, MatcherFrame DEF Next, vars

----------------------------------------------------------------------------
(* The matcher's transaction *)

\* Marks and effects stay in step: a commit adds the transaction's entries to
\* both, and none of them was there.
LEMMA EffectsPreserved ==
  ASSUME TypeOK, TxInv, EffectsOncePerEntry, [Next]_vars
  PROVE  EffectsOncePerEntry'
<1>1. CASE UNCHANGED <<processed, dbLog>>
  BY <1>1 DEF EffectsOncePerEntry, Elems
<1>2. CASE CommitTx
  <2>1. dbLog \in Seq(Nat) /\ txLog \in Seq(Nat)
    <3>1. /\ 1..Len(stream) \subseteq Nat /\ 1..cursor \subseteq Nat
      OBVIOUS
    <3> QED  BY <3>1, SeqWidens DEF TypeOK
  <2>2. /\ processed' = processed \cup Elems(txLog)
        /\ dbLog' = dbLog \o txLog
    BY <1>2 DEF CommitTx
  <2>3. Elems(dbLog') = processed'
    BY <2>1, <2>2, ElemsConcat DEF EffectsOncePerEntry
  <2>4. \A i, j \in DOMAIN dbLog' : dbLog'[i] = dbLog'[j] => i = j
    <3>1. Elems(dbLog) \cap Elems(txLog) = {}
      BY DEF EffectsOncePerEntry, TxInv
    <3>2. \A i, j \in DOMAIN dbLog : dbLog[i] = dbLog[j] => i = j
      BY DEF EffectsOncePerEntry
    <3>3. \A i, j \in DOMAIN txLog : txLog[i] = txLog[j] => i = j
      BY DEF TxInv
    <3>4. \A i, j \in DOMAIN (dbLog \o txLog) :
            (dbLog \o txLog)[i] = (dbLog \o txLog)[j] => i = j
      BY <2>1, <3>1, <3>2, <3>3, ConcatInjective
    <3> QED  BY <2>2, <3>4
  <2> QED  BY <2>3, <2>4 DEF EffectsOncePerEntry, Elems
<1> USE DEF dbVars
<1>3. CASE API \/ \E p \in Publishers : PublisherStep(p) \/ PFail(p)
  BY <1>1, <1>3, ApiFrame, PublisherFrame DEF MatcherUntouched
<1>4. CASE MBoot \/ MJoin \/ MResync \/ MCrash \/ MReadPending \/ MReadNew
           \/ MReadFail \/ MApplyEntry \/ MAck \/ MAckFail
  BY <1>1, <1>4 DEF MBoot, MJoin, MResync, MCrash, MReadPending, MReadNew,
                    MReadFail, MApplyEntry, MAck, MAckFail
<1>5. CASE MCommit \/ MApplyFail
  BY <1>1, <1>2, <1>5 DEF MCommit, MApplyFail
<1>6. CASE UNCHANGED vars
  BY <1>1, <1>6 DEF vars
<1> QED  BY <1>3, <1>4, <1>5, <1>6 DEF Next, MatcherStep, MatcherFault

\* TxInv for a state in which no transaction is open.
LEMMA NoTx ==
  ASSUME txLog' = <<>>, todo' = {}, mpc' # "apply", mpc' # "ack"
  PROVE  TxInv'
BY DEF TxInv, Elems

\* TxInv for the state in which a batch has just been read.
LEMMA FreshTx ==
  ASSUME txLog' = <<>>, todo' = batch', mpc' = "apply"
  PROVE  TxInv'
BY DEF TxInv, Elems

\* A batch in progress stays accounted for.
LEMMA TxPreserved ==
  ASSUME TypeOK, TxInv, [Next]_vars
  PROVE  TxInv'
<1> USE DEF dbVars, redisVars, loopVars
<1>1. CASE API \/ \E p \in Publishers : PublisherStep(p) \/ PFail(p)
  <2>1. UNCHANGED <<mpc, txLog, todo, batch, processed>>
    BY <1>1, ApiFrame, PublisherFrame DEF MatcherUntouched
  <2> QED  BY <2>1 DEF TxInv, Elems
<1>2. CASE MBoot \/ MJoin \/ MResync
  <2>1. txLog' = <<>> /\ todo' = {} /\ mpc' # "apply" /\ mpc' # "ack"
    BY <1>2 DEF MBoot, MJoin, MResync, TxInv
  <2> QED  BY <2>1, NoTx
<1>3. CASE MCrash
  BY <1>3, NoTx DEF MCrash, EndTx
<1>4. CASE MReadPending
  <2>1. CASE pel # {}
    BY <1>4, <2>1, FreshTx DEF MReadPending, StartBatch
  <2>2. CASE pel = {}
    <3>1. txLog' = <<>> /\ todo' = {} /\ mpc' = "poll"
      BY <1>4, <2>2 DEF MReadPending, TxInv
    <3> QED  BY <3>1, NoTx
  <2> QED  BY <2>1, <2>2
<1>5. CASE MReadNew
  BY <1>5, FreshTx DEF MReadNew, StartBatch
<1>6. CASE MReadFail
  <2>1. mpc' \in {"down", "reclaim", "poll", "resync"}
    BY <1>6, AfterErrorType DEF MReadFail, TypeOK
  <2>2. txLog' = <<>> /\ todo' = {}
    BY <1>6 DEF MReadFail, TxInv
  <2> QED  BY <2>1, <2>2, NoTx
<1>7. CASE MApplyEntry
  <2>1. PICK i \in todo :
          /\ todo' = todo \ {i}
          /\ \/ i \in processed /\ UNCHANGED txLog
             \/ i \notin processed /\ txLog' = Append(txLog, i)
    BY <1>7 DEF MApplyEntry
  <2>2. mpc = "apply" /\ mpc' = "apply" /\ UNCHANGED <<batch, processed>>
    BY <1>7 DEF MApplyEntry
  <2>3. CASE i \in processed /\ UNCHANGED txLog
    <3>1. UNCHANGED Elems(txLog)
      BY <2>3 DEF Elems
    <3> QED  BY <2>1, <2>2, <2>3, <3>1 DEF TxInv
  <2>4. CASE i \notin processed /\ txLog' = Append(txLog, i)
    <3>1. txLog \in Seq(1..cursor) /\ i \in 1..cursor /\ i \in batch
      BY DEF TypeOK
    <3>2. Elems(txLog') = Elems(txLog) \cup {i}
      <4> DEFINE S == 1..cursor
      <4>0. txLog \in Seq(S) /\ i \in S
        BY <3>1
      <4> HIDE DEF S
      <4>1. Elems(Append(txLog, i)) = Elems(txLog) \cup {i}
        BY <4>0, ElemsAppend
      <4> QED  BY <2>4, <4>1
    <3>3. \A j \in DOMAIN txLog : txLog[j] # i
      BY DEF TxInv, Elems
    <3>4. \A j, k \in DOMAIN txLog' : txLog'[j] = txLog'[k] => j = k
      <4>1. /\ Len(txLog) \in Nat /\ DOMAIN txLog = 1..Len(txLog)
            /\ DOMAIN txLog' = 1..(Len(txLog) + 1)
            /\ \A j \in 1..Len(txLog) : txLog'[j] = txLog[j]
            /\ txLog'[Len(txLog) + 1] = i
        BY <2>4, <3>1, LenProperties, AppendProperties
      <4>2. \A j \in DOMAIN txLog' : j \in DOMAIN txLog \/ j = Len(txLog) + 1
        BY <4>1
      <4> QED  BY <3>3, <4>1, <4>2 DEF TxInv
    <3>5. \A j \in Elems(txLog') : j \in batch' /\ j \notin processed' /\ j \notin todo'
      BY <2>1, <2>2, <2>4, <3>1, <3>2 DEF TxInv
    <3>6. \A j \in batch' : j \in todo' \cup Elems(txLog') \cup processed'
      BY <2>1, <2>2, <3>2 DEF TxInv
    <3> QED  BY <2>2, <3>4, <3>5, <3>6 DEF TxInv
  <2> QED  BY <2>1, <2>3, <2>4
<1>8. CASE MCommit
  <2>1. /\ mpc' = "ack" /\ txLog' = <<>> /\ todo' = {} /\ batch' = batch
        /\ processed' = processed \cup Elems(txLog)
        /\ todo = {} /\ mpc = "apply"
    BY <1>8 DEF MCommit, CommitTx
  <2>2. batch' \subseteq processed'
    BY <2>1 DEF TxInv
  <2> QED  BY <2>1, <2>2 DEF TxInv, Elems
<1>9. CASE MApplyFail
  <2>1. mpc' \in {"down", "reclaim", "poll", "resync"}
    BY <1>9, AfterErrorType DEF MApplyFail, TypeOK
  <2> QED  BY <1>9, <2>1, NoTx DEF MApplyFail, EndTx
<1>10. CASE MAck
  <2>1. txLog' = <<>> /\ todo' = {} /\ mpc' \in {"poll", "reclaim"}
    BY <1>10 DEF MAck, TxInv
  <2> QED  BY <2>1, NoTx
<1>11. CASE MAckFail
  <2>1. mpc' \in {"down", "reclaim", "poll", "resync"}
    BY <1>11, AfterErrorType DEF MAckFail, TypeOK
  <2>2. txLog' = <<>> /\ todo' = {}
    BY <1>11 DEF MAckFail, TxInv
  <2> QED  BY <2>1, <2>2, NoTx
<1>12. CASE UNCHANGED vars
  BY <1>12 DEF vars, TxInv, Elems
<1> QED  BY <1>1, <1>2, <1>3, <1>4, <1>5, <1>6, <1>7, <1>8, <1>9, <1>10, <1>11,
            <1>12 DEF Next, MatcherStep, MatcherFault

\* Nothing that was delivered is lost: an entry leaves the PEL only after the
\* commit of its batch.
LEMMA NoLossPreserved ==
  ASSUME TypeOK, TxInv, group, NoEntryIsLost, [Next]_vars
  PROVE  group' /\ NoEntryIsLost'
<1> USE DEF dbVars, redisVars
<1>1. ASSUME UNCHANGED <<group, cursor, pel>>, processed \subseteq processed'
      PROVE  group' /\ NoEntryIsLost'
  BY <1>1 DEF NoEntryIsLost
<1>2. CASE API \/ \E p \in Publishers : PublisherStep(p) \/ PFail(p)
  BY <1>1, <1>2, ApiFrame, PublisherFrame DEF MatcherUntouched
<1>3. CASE MBoot \/ MJoin \/ MResync \/ MCrash \/ MReadPending \/ MApplyEntry
  BY <1>1, <1>3 DEF MBoot, MJoin, MResync, MCrash, MReadPending, MApplyEntry
<1>4. CASE MCommit \/ MApplyFail
  BY <1>1, <1>4 DEF MCommit, MApplyFail, CommitTx
<1>5. ASSUME cursor < Len(stream), Deliver, UNCHANGED <<group, processed>>
      PROVE  group' /\ NoEntryIsLost'
  BY <1>5, DeliverFacts DEF NoEntryIsLost
<1>6. CASE MReadNew
  BY <1>5, <1>6 DEF MReadNew
<1>7. CASE MReadFail
  BY <1>1, <1>5, <1>7 DEF MReadFail
<1>8. CASE MAck \/ MAckFail
  <2>1. /\ batch \subseteq processed /\ pel \ batch \subseteq pel'
        /\ UNCHANGED <<group, cursor, processed>>
    BY <1>8 DEF MAck, MAckFail, TxInv
  <2> QED  BY <2>1 DEF NoEntryIsLost
<1>9. CASE UNCHANGED vars
  BY <1>1, <1>9 DEF vars
<1> QED  BY <1>2, <1>3, <1>4, <1>6, <1>7, <1>8, <1>9
            DEF Next, MatcherStep, MatcherFault

----------------------------------------------------------------------------
(* One stream entry per outbox row *)

\* The publishers between XADD and commit, each with the row it holds.
Holds(p, k) == ppc[p] = "added" /\ k \in queue[p] /\ IsMin(k, queue[p])

\* The rows held are the locked ones, and no two publishers hold one row.
LEMMA LockedHeld ==
  ASSUME TypeOK
  PROVE  /\ \A k : k \in Locked <=> \E p \in Publishers : Holds(p, k)
         /\ \A p \in Publishers : \A j, k : Holds(p, j) /\ Holds(p, k) => j = k
<1>1. \A p \in Publishers : queue[p] \subseteq DOMAIN outbox
  BY DEF TypeOK
<1>2. \A k \in DOMAIN outbox : k \in Nat
  BY LenProperties DEF TypeOK
<1>3. ASSUME NEW p \in Publishers, NEW j, NEW k, Holds(p, j), Holds(p, k)
      PROVE  j = k
  <2>1. j \in Nat /\ k \in Nat /\ j <= k /\ k <= j
    BY <1>1, <1>2, <1>3 DEF Holds, IsMin
  <2> QED  BY <2>1
<1>4. \A k : k \in Locked <=> \E p \in Publishers : Holds(p, k)
  BY <1>1 DEF Locked, Holds, IsMin
<1> QED  BY <1>3, <1>4

\* OnceInv in terms of Holds.
LEMMA OnceInvHeld ==
  ASSUME TypeOK
  PROVE  OnceInv <=>
         /\ PublishedOnce
         /\ \A i \in DOMAIN stream :
              \/ outbox[stream[i].row].st = "published"
              \/ \E p \in Publishers : Holds(p, stream[i].row)
         /\ \A p \in Publishers : \A k : Holds(p, k) =>
              k \in DOMAIN outbox /\ outbox[k].st = "unpublished"
         /\ \A p, q \in Publishers : \A k : Holds(p, k) /\ Holds(q, k) => p = q
<1>1. \A k : k \in Locked <=> \E p \in Publishers : Holds(p, k)
  BY LockedHeld
<1>2. Locked \subseteq Unpublished <=>
        \A p \in Publishers : \A k : Holds(p, k) =>
              k \in DOMAIN outbox /\ outbox[k].st = "unpublished"
  BY <1>1 DEF Unpublished
<1>3. (\A p, q \in Publishers :
         ppc[p] = "added" /\ ppc[q] = "added" /\ p # q =>
           \A k \in queue[p] \cap queue[q] : ~(IsMin(k, queue[p]) /\ IsMin(k, queue[q])))
      <=> \A p, q \in Publishers : \A k : Holds(p, k) /\ Holds(q, k) => p = q
  BY DEF Holds
<1> QED  BY <1>1, <1>2, <1>3 DEF OnceInv

\* Without a failure between XADD and commit, a row enters the stream once,
\* however many publishers run.
LEMMA OncePreserved ==
  ASSUME TypeOK, TypeOK', StreamMatchesOutbox, OnceInv, "mark" \notin Faults,
         [Next]_vars
  PROVE  OnceInv'
<1>1. /\ PublishedOnce
      /\ \A i \in DOMAIN stream :
           \/ outbox[stream[i].row].st = "published"
           \/ \E p \in Publishers : Holds(p, stream[i].row)
      /\ \A p \in Publishers : \A k : Holds(p, k) =>
           k \in DOMAIN outbox /\ outbox[k].st = "unpublished"
      /\ \A p, q \in Publishers : \A k : Holds(p, k) /\ Holds(q, k) => p = q
  BY OnceInvHeld
<1>2. ASSUME PublishedOnce',
             \A i \in DOMAIN stream' :
               \/ outbox'[stream'[i].row].st = "published"
               \/ \E p \in Publishers : Holds(p, stream[i].row)',
             \A p \in Publishers : \A k : Holds(p, k)' =>
               k \in DOMAIN outbox' /\ outbox'[k].st = "unpublished",
             \A p, q \in Publishers : \A k : Holds(p, k)' /\ Holds(q, k)' => p = q
      PROVE  OnceInv'
  <2>1. \A k : k \in Locked' <=> \E p \in Publishers : Holds(p, k)'
    BY DEF TypeOK, Locked, Holds, IsMin
  <2>2. Locked' \subseteq Unpublished'
    BY <1>2, <2>1 DEF Unpublished
  <2>3. \A i \in DOMAIN stream' :
          outbox'[stream'[i].row].st = "published" \/ stream'[i].row \in Locked'
    BY <1>2, <2>1 DEF Holds, IsMin
  <2>4. \A p, q \in Publishers :
          ppc'[p] = "added" /\ ppc'[q] = "added" /\ p # q =>
            \A k \in queue'[p] \cap queue'[q] :
              ~((\A j \in queue'[p] : k <= j) /\ (\A j \in queue'[q] : k <= j))
    BY <1>2 DEF Holds, IsMin
  <2> QED  BY <1>2, <2>2, <2>3, <2>4 DEF OnceInv, IsMin
<1>3. \A i \in DOMAIN stream : stream[i].row \in DOMAIN outbox
  BY DEF StreamMatchesOutbox, Committed
<1>4. DOMAIN stream = 1..Len(stream) /\ Len(stream) \in Nat
  BY LenProperties DEF TypeOK
<1>5. CASE API
  <2>1. UNCHANGED <<stream, ppc, queue>>
    BY <1>5, ApiFrame
  <2>2. /\ DOMAIN outbox \subseteq DOMAIN outbox'
        /\ \A k \in DOMAIN outbox : outbox'[k].st = outbox[k].st \/ outbox[k].st = "open"
    BY <1>5, ApiOutbox DEF OutboxGrows
  <2>3. \A p \in Publishers : \A k : Holds(p, k)' <=> Holds(p, k)
    BY <2>1 DEF Holds, IsMin
  <2>4. PublishedOnce'
    BY <1>1, <2>1 DEF PublishedOnce
  <2>5. \A i \in DOMAIN stream' :
          \/ outbox'[stream'[i].row].st = "published"
          \/ \E p \in Publishers : Holds(p, stream[i].row)'
    BY <1>1, <1>3, <2>1, <2>2, <2>3
  <2>6. \A p \in Publishers : \A k : Holds(p, k)' =>
          k \in DOMAIN outbox' /\ outbox'[k].st = "unpublished"
    BY <1>1, <2>2, <2>3
  <2> QED  BY <1>1, <1>2, <2>3, <2>4, <2>5, <2>6
<1>6. ASSUME UNCHANGED <<outbox, stream>>,
             \A p \in Publishers : \A k : Holds(p, k)' <=> Holds(p, k)
      PROVE  OnceInv'
  BY <1>1, <1>2, <1>6 DEF PublishedOnce
<1>7. CASE \E p \in Publishers : PublisherStep(p) \/ PFail(p)
  <2>1. PICK p \in Publishers : PublisherStep(p) \/ PFail(p)
    BY <1>7
  <2>2. CASE PFetch(p) \/ PSkip(p) \/ PFail(p)
    <3>1. /\ ppc[p] # "added" /\ ppc'[p] # "added"
          /\ \A q \in Publishers : q # p => ppc'[q] = ppc[q] /\ queue'[q] = queue[q]
      BY <2>2 DEF PFetch, PSkip, PFail, Advance, Fault, TypeOK
    <3>2. UNCHANGED <<outbox, stream>>
      BY <2>2 DEF PFetch, PSkip, PFail, apiVars, redisVars
    <3>3. ASSUME NEW q \in Publishers, NEW k
          PROVE  Holds(q, k)' <=> Holds(q, k)
      <4>1. CASE q = p
        BY <3>1, <4>1 DEF Holds
      <4>2. CASE q # p
        BY <3>1, <4>2 DEF Holds, IsMin
      <4> QED  BY <4>1, <4>2
    <3> QED  BY <1>6, <3>2, <3>3
  <2>3. CASE PAdd(p)
    <3>1. PICK k \in queue[p] :
            /\ IsMin(k, queue[p]) /\ k \in Unpublished \ Locked
            /\ Len(stream') = Len(stream) + 1
            /\ stream'[Len(stream) + 1] = [row |-> k, ev |-> outbox[k].ev]
            /\ stream' \in Seq(Entry) /\ StreamGrows
      BY <2>1, <2>3, PublisherStream
    <3>2. /\ UNCHANGED <<outbox, queue>> /\ ppc' = [ppc EXCEPT ![p] = "added"]
          /\ ppc[p] = "next"
      BY <2>3 DEF PAdd, apiVars
    <3>3. /\ \A q \in Publishers : \A j : Holds(q, j)' <=> Holds(q, j) \/ (q = p /\ j = k)
      <4>1. ASSUME NEW q \in Publishers, NEW j, q # p
            PROVE  Holds(q, j)' <=> Holds(q, j)
        BY <3>2, <4>1 DEF Holds, IsMin, TypeOK
      <4>2. \A j : ~Holds(p, j)
        BY <3>2 DEF Holds
      <4>3. Holds(p, k)'
        BY <3>1, <3>2 DEF Holds, IsMin, TypeOK
      <4>4. ASSUME NEW j, Holds(p, j)'  PROVE  j = k
        <5>1. /\ j \in queue'[p] /\ \A x \in queue'[p] : j <= x
              /\ k \in queue'[p] /\ \A x \in queue'[p] : k <= x
          BY <4>3, <4>4 DEF Holds, IsMin
        <5>2. j \in DOMAIN outbox /\ k \in DOMAIN outbox
          BY <3>2, <5>1 DEF TypeOK
        <5>3. DOMAIN outbox \subseteq Nat
          BY LenProperties DEF TypeOK
        <5> QED  BY <5>1, <5>2, <5>3
      <4> QED  BY <4>1, <4>2, <4>3, <4>4
    <3>4. /\ k \in DOMAIN outbox /\ outbox[k].st = "unpublished"
          /\ \A q \in Publishers : ~Holds(q, k)
      BY <3>1, LockedHeld DEF Unpublished
    <3>5. \A i \in DOMAIN stream : stream[i].row # k
      BY <1>1, <3>4
    <3>6. /\ DOMAIN stream' = 1..(Len(stream) + 1)
          /\ \A i \in DOMAIN stream' : i \in DOMAIN stream \/ i = Len(stream) + 1
          /\ \A i \in DOMAIN stream : stream'[i] = stream[i]
          /\ stream'[Len(stream) + 1].row = k
      BY <1>4, <3>1, LenProperties DEF StreamGrows
    <3>7. PublishedOnce'
      BY <1>1, <3>5, <3>6 DEF PublishedOnce
    <3>8. \A i \in DOMAIN stream' :
            \/ outbox'[stream'[i].row].st = "published"
            \/ \E q \in Publishers : Holds(q, stream[i].row)'
      BY <1>1, <3>2, <3>3, <3>6
    <3>9. \A q \in Publishers : \A j : Holds(q, j)' =>
            j \in DOMAIN outbox' /\ outbox'[j].st = "unpublished"
      BY <1>1, <3>2, <3>3, <3>4
    <3>10. \A q, r \in Publishers : \A j : Holds(q, j)' /\ Holds(r, j)' => q = r
      BY <1>1, <3>3, <3>4
    <3> QED  BY <1>2, <3>7, <3>8, <3>9, <3>10
  <2>4. CASE PCommit(p)
    <3>1. PICK k \in queue[p] :
            /\ ppc[p] = "added" /\ IsMin(k, queue[p])
            /\ outbox' = [outbox EXCEPT ![k].st = "published"]
            /\ Advance(p, k)
      BY <2>4 DEF PCommit
    <3>2. UNCHANGED stream
      BY <2>4 DEF PCommit, redisVars
    <3>3. Holds(p, k)
      BY <3>1 DEF Holds
    <3>4. /\ ppc'[p] # "added"
          /\ \A q \in Publishers : q # p => ppc'[q] = ppc[q] /\ queue'[q] = queue[q]
      BY <3>1 DEF Advance, TypeOK
    <3>5. \A q \in Publishers : \A j : Holds(q, j)' <=> Holds(q, j) /\ q # p
      <4>1. ASSUME NEW q \in Publishers, NEW j, q # p
            PROVE  Holds(q, j)' <=> Holds(q, j)
        BY <3>4, <4>1 DEF Holds, IsMin
      <4>2. \A j : ~Holds(p, j)'
        BY <3>4 DEF Holds
      <4> QED  BY <4>1, <4>2
    <3>6. /\ DOMAIN outbox' = DOMAIN outbox
          /\ \A j \in DOMAIN outbox : j # k => outbox'[j].st = outbox[j].st
          /\ outbox'[k].st = "published" /\ k \in DOMAIN outbox
      <4>1. k \in DOMAIN outbox /\ outbox \in Seq(Row)
        BY DEF TypeOK
      <4> QED  BY <3>1, <4>1, OutboxUpdate
    <3>7. PublishedOnce'
      BY <1>1, <3>2 DEF PublishedOnce
    <3>8. \A i \in DOMAIN stream' :
            \/ outbox'[stream'[i].row].st = "published"
            \/ \E q \in Publishers : Holds(q, stream[i].row)'
      <4>1. ASSUME NEW i \in DOMAIN stream
            PROVE  \/ outbox'[stream[i].row].st = "published"
                   \/ \E q \in Publishers : Holds(q, stream[i].row) /\ q # p
        <5>1. CASE stream[i].row = k
          BY <3>6, <5>1
        <5>2. CASE stream[i].row # k
          BY <1>1, <1>3, <3>3, <3>6, <5>2, LockedHeld
        <5> QED  BY <5>1, <5>2
      <4> QED  BY <3>2, <3>5, <4>1
    <3>9. \A q \in Publishers : \A j : Holds(q, j)' =>
            j \in DOMAIN outbox' /\ outbox'[j].st = "unpublished"
      BY <1>1, <3>3, <3>5, <3>6
    <3>10. \A q, r \in Publishers : \A j : Holds(q, j)' /\ Holds(r, j)' => q = r
      BY <1>1, <3>5
    <3> QED  BY <1>2, <3>7, <3>8, <3>9, <3>10
  <2> QED  BY <2>1, <2>2, <2>3, <2>4 DEF PublisherStep
<1>8. CASE UNCHANGED <<outbox, stream, ppc, queue>>
  <2>1. \A p \in Publishers : \A k : Holds(p, k)' <=> Holds(p, k)
    BY <1>8 DEF Holds, IsMin
  <2> QED  BY <1>6, <1>8, <2>1
<1> QED  BY <1>5, <1>7, <1>8, MatcherFrame DEF Next, vars

----------------------------------------------------------------------------
(* Stream order *)

\* A commit of a whole batch extends the processed entries by the batch.
LEMMA CommitAddsBatch ==
  ASSUME TypeOK, TxInv, OrderInv, mpc = "apply", todo = {}, CommitTx
  PROVE  /\ processed' = processed \cup batch
         /\ \A i \in processed' : 1..i \subseteq processed'
<1>1. processed' = processed \cup Elems(txLog)
  BY DEF CommitTx
<1>2. processed' = processed \cup batch
  BY <1>1 DEF TxInv
<1> QED  BY <1>2 DEF OrderInv, AppliedInStreamOrder

\* Entries take effect in stream order unless reclaiming pending entries
\* fails after an earlier failure.
LEMMA OrderPreserved ==
  ASSUME TypeOK, TxInv, group, NoEntryIsLost, OrderInv, "retry" \notin Faults,
         [Next]_vars
  PROVE  OrderInv'
<1> USE DEF dbVars, redisVars, loopVars
<1>1. CASE API \/ \E p \in Publishers : PublisherStep(p) \/ PFail(p)
  <2>1. UNCHANGED <<mpc, origin, cursor, batch, processed>>
    BY <1>1, ApiFrame, PublisherFrame DEF MatcherUntouched
  <2> QED  BY <2>1 DEF OrderInv, AppliedInStreamOrder
<1>2. ASSUME mpc' \in {"down", "join", "reclaim", "resync"}, UNCHANGED processed,
             mpc' \in {"reclaim", "resync"} => origin' # "poll"
      PROVE  OrderInv'
  BY <1>2 DEF OrderInv, AppliedInStreamOrder
<1>3. CASE MBoot \/ MJoin \/ MResync \/ MCrash
  BY <1>2, <1>3 DEF MBoot, MJoin, MResync, MCrash, OrderInv
<1>4. ASSUME NEW dirty, AfterError(dirty), origin # "retry",
             origin \in {"boot", "poll", "retry"}
      PROVE  /\ mpc' \in {"down", "reclaim", "resync"}
             /\ mpc' \in {"reclaim", "resync"} => origin' # "poll"
  BY <1>4 DEF AfterError
<1>5. CASE MReadPending
  <2>1. CASE pel # {}
    <3>1. /\ batch' = FirstOf(pel, BatchSize) /\ mpc' = "apply" /\ mpc = "reclaim"
          /\ UNCHANGED <<origin, processed, cursor>>
      BY <1>5, <2>1 DEF MReadPending, StartBatch
    <3>2. cursor \in Nat /\ pel \subseteq 1..cursor /\ BatchSize \in Nat
      BY LenProperties, BoundsAssumption DEF TypeOK
    <3>3. /\ FirstOf(pel, BatchSize) \subseteq pel
          /\ \A i \in FirstOf(pel, BatchSize), j \in pel :
               j < i => j \in FirstOf(pel, BatchSize)
      BY <3>2, FirstOfFacts
    <3>4. ASSUME NEW i \in batch', NEW j \in 1..i
          PROVE  j \in processed' \cup batch'
      <4>1. i \in 1..cursor /\ j \in 1..cursor /\ (j < i \/ j = i)
        <5>1. i \in 1..cursor
          BY <3>1, <3>2, <3>3
        <5> QED  BY <3>2, <5>1
      <4> QED  BY <3>1, <3>3, <4>1 DEF NoEntryIsLost
    <3> QED  BY <3>1, <3>4 DEF OrderInv, AppliedInStreamOrder
  <2>2. CASE pel = {}
    <3>1. mpc' = "poll" /\ origin' = "poll" /\ UNCHANGED <<processed, cursor>>
      BY <1>5, <2>2 DEF MReadPending
    <3> QED  BY <2>2, <3>1 DEF OrderInv, AppliedInStreamOrder, NoEntryIsLost
  <2> QED  BY <2>1, <2>2
<1>6. CASE MReadNew
  <2>1. /\ mpc = "poll" /\ mpc' = "apply" /\ batch' = (cursor + 1)..cursor'
        /\ UNCHANGED <<origin, processed>> /\ cursor < Len(stream) /\ Deliver
    BY <1>6 DEF MReadNew, StartBatch
  <2>2. /\ \A i \in 1..cursor' : i \in 1..cursor \/ i \in (cursor + 1)..cursor'
        /\ cursor' \in Nat
    BY <2>1, DeliverFacts, LenProperties DEF TypeOK
  <2>3. 1..cursor' \subseteq processed' \cup batch'
    BY <2>1, <2>2 DEF OrderInv
  <2>4. \A i \in batch' : 1..i \subseteq 1..cursor'
    <3>1. cursor \in Nat
      BY DEF TypeOK
    <3> QED  BY <2>1, <2>2, <3>1
  <2> QED  BY <2>1, <2>3, <2>4 DEF OrderInv, AppliedInStreamOrder
<1>7. CASE MReadFail
  BY <1>2, <1>4, <1>7 DEF MReadFail, Fault, TypeOK
<1>8. CASE MApplyEntry
  BY <1>8 DEF MApplyEntry, OrderInv, AppliedInStreamOrder
<1>9. CASE MCommit
  <2>1. /\ mpc = "apply" /\ todo = {} /\ CommitTx /\ mpc' = "ack"
        /\ UNCHANGED <<cursor, batch, origin>>
    BY <1>9 DEF MCommit
  <2> QED  BY <2>1, CommitAddsBatch DEF OrderInv, AppliedInStreamOrder
<1>10. CASE MApplyFail
  <2>1. origin # "retry" /\ AfterError(TRUE)
    BY <1>10 DEF MApplyFail, Fault
  <2>2. /\ mpc' \in {"down", "reclaim", "resync"}
        /\ mpc' \in {"reclaim", "resync"} => origin' # "poll"
    BY <1>4, <2>1 DEF TypeOK
  <2>3. \A i \in processed' : 1..i \subseteq processed'
    <3>1. CASE UNCHANGED processed
      BY <3>1 DEF OrderInv, AppliedInStreamOrder
    <3>2. CASE mpc = "apply" /\ todo = {} /\ CommitTx
      BY <3>2, CommitAddsBatch
    <3> QED  BY <1>10, <3>1, <3>2 DEF MApplyFail
  <2> QED  BY <2>2, <2>3 DEF OrderInv, AppliedInStreamOrder
<1>11. CASE MAck
  <2>1. /\ mpc = "ack" /\ mpc' = (IF origin = "poll" THEN "poll" ELSE "reclaim")
        /\ UNCHANGED <<origin, cursor, processed>> /\ batch \subseteq processed
    BY <1>11 DEF MAck, TxInv
  <2> QED  BY <2>1 DEF OrderInv, AppliedInStreamOrder
<1>12. CASE MAckFail
  BY <1>2, <1>4, <1>12 DEF MAckFail, Fault, TypeOK
<1>13. CASE UNCHANGED vars
  BY <1>13 DEF vars, OrderInv, AppliedInStreamOrder
<1> QED  BY <1>1, <1>3, <1>5, <1>6, <1>7, <1>8, <1>9, <1>10, <1>11, <1>12, <1>13
            DEF Next, MatcherStep, MatcherFault

----------------------------------------------------------------------------
(* The Book after a failure *)

\* Unless reclaiming fails as well, an error leads a matcher whose Book is
\* dirty out of the process or to the resync.
LEMMA CleanPreserved ==
  ASSUME TypeOK, CleanInv, "retry" \notin Faults, [Next]_vars
  PROVE  CleanInv'
<1>1. CASE API \/ \E p \in Publishers : PublisherStep(p) \/ PFail(p)
  BY <1>1, ApiFrame, PublisherFrame DEF MatcherUntouched, CleanInv
<1>2. CASE MBoot \/ MResync \/ MCrash
  BY <1>2 DEF MBoot, MResync, MCrash, CleanInv
<1>3. CASE MJoin \/ MReadPending \/ MReadNew \/ MApplyEntry \/ MCommit \/ MAck
  BY <1>3 DEF MJoin, MReadPending, MReadNew, StartBatch, MApplyEntry, MCommit,
              MAck, CleanInv
<1>4. ASSUME NEW dirty \in BOOLEAN, AfterError(dirty), origin # "retry"
      PROVE  /\ mpc' \in {"down", "reclaim", "resync"}
             /\ dirty => mpc' # "reclaim"
  BY <1>4 DEF AfterError, TypeOK
<1>5. CASE MReadFail \/ MAckFail
  <2>1. /\ origin # "retry" /\ AfterError(bookDirty) /\ UNCHANGED bookDirty
        /\ mpc \in {"poll", "reclaim", "ack"}
    BY <1>5 DEF MReadFail, MAckFail, Fault
  <2> QED  BY <2>1 DEF CleanInv
<1>6. CASE MApplyFail
  <2>1. origin # "retry" /\ AfterError(TRUE)
    BY <1>6 DEF MApplyFail, Fault
  <2>2. mpc' \in {"down", "resync"}
    BY <1>4, <2>1
  <2> QED  BY <2>2 DEF CleanInv
<1>7. CASE UNCHANGED vars
  BY <1>7 DEF vars, CleanInv
<1> QED  BY <1>1, <1>2, <1>3, <1>5, <1>6, <1>7 DEF Next, MatcherStep, MatcherFault

----------------------------------------------------------------------------
(* Cancellations *)

\* Requests: an order is placed once, and cancelled after that.
LEMMA RequestPreserved ==
  ASSUME TypeOK, RequestInv, [Next]_vars
  PROVE  RequestInv'
<1>1. /\ outbox \in Seq(Row) /\ Len(outbox) \in Nat /\ DOMAIN outbox = 1..Len(outbox)
      /\ \A j \in 1..Len(outbox) : outbox[j] \in Row
  BY LenProperties, ElementOfSeq DEF TypeOK
<1>2. OutboxGrows
  BY LogsGrow
<1>3. Committed \subseteq Committed'
  BY <1>2 DEF OutboxGrows, Committed
<1>4. CASE DOMAIN outbox' = DOMAIN outbox
  <2>1. \A k \in DOMAIN outbox : outbox'[k].ev = outbox[k].ev
    BY <1>2 DEF OutboxGrows
  <2>2. Committed \subseteq DOMAIN outbox
    BY DEF Committed
  <2> QED  BY <1>3, <1>4, <2>1, <2>2, Zenon DEF RequestInv
<1>5. CASE \E o \in Orders : Place(o) \/ Cancel(o)
  <2>1. PICK o \in Orders, kind \in {"NEW", "CANCEL"} :
          /\ InsertRow(kind, o)
          /\ kind = "NEW" => \A k \in DOMAIN outbox : outbox[k].ev.order # o
          /\ kind = "CANCEL" => o \in Placed
    BY <1>5 DEF Place, Cancel
  <2> DEFINE e == [kind |-> kind, order |-> o]
             r == [ev |-> e, st |-> "open"]
             n == Len(outbox) + 1
  <2>2. outbox' = Append(outbox, r)
    BY <2>1 DEF InsertRow
  <2>3. r \in Row /\ r.ev = e /\ e.kind = kind /\ e.order = o
    BY DEF Row, Event
  <2> HIDE DEF r
  <2>4. /\ outbox' \in Seq(Row) /\ Len(outbox') = n
        /\ \A j \in 1..Len(outbox) : outbox'[j] = outbox[j]
        /\ outbox'[n] = r
    BY <1>1, <2>2, <2>3, AppendProperties
  <2>5. DOMAIN outbox' = 1..n
    BY <2>4, LenProperties
  <2>6. /\ \A k \in DOMAIN outbox' : k \in DOMAIN outbox \/ k = n
        /\ \A k \in DOMAIN outbox : k < n /\ k \in DOMAIN outbox'
        /\ n \notin DOMAIN outbox
    BY <1>1, <2>5
  <2>7. /\ \A k \in DOMAIN outbox : outbox'[k].ev = outbox[k].ev
        /\ outbox'[n].ev = e
    BY <1>1, <2>3, <2>4
  <2>8. kind = "CANCEL" => \E j \in Committed :
          outbox[j].ev.kind = "NEW" /\ outbox[j].ev.order = o
    BY <2>1 DEF Placed
  <2>9. \A j \in DOMAIN outbox : outbox[j].ev = [kind |-> outbox[j].ev.kind,
                                                 order |-> outbox[j].ev.order]
    BY <1>1 DEF Row, Event
  <2>10. Committed \subseteq DOMAIN outbox
    BY DEF Committed
  <2> HIDE DEF e, n
  <2>11. ASSUME NEW j \in DOMAIN outbox', NEW k \in DOMAIN outbox',
                outbox'[j].ev.kind = "NEW", outbox'[j].ev = outbox'[k].ev
         PROVE  j = k
    <3>1. CASE j \in DOMAIN outbox /\ k \in DOMAIN outbox
      BY <2>7, <2>11, <3>1 DEF RequestInv
    <3>2. CASE j = n /\ k = n
      BY <3>2
    <3>3. CASE (j = n /\ k \in DOMAIN outbox) \/ (j \in DOMAIN outbox /\ k = n)
      BY <2>1, <2>3, <2>7, <2>11, <3>3
    <3> QED  BY <2>6, <3>1, <3>2, <3>3
  <2>12. ASSUME NEW k \in DOMAIN outbox', outbox'[k].ev.kind = "CANCEL"
         PROVE  \E j \in Committed' :
                  /\ j < k
                  /\ outbox'[j].ev = [kind |-> "NEW", order |-> outbox'[k].ev.order]
    <3>1. CASE k \in DOMAIN outbox
      BY <1>3, <2>7, <2>10, <2>12, <3>1 DEF RequestInv
    <3>2. CASE k = n
      <4>1. PICK j \in Committed : outbox[j].ev.kind = "NEW" /\ outbox[j].ev.order = o
        BY <2>3, <2>7, <2>8, <2>12, <3>2
      <4>2. j < k /\ outbox'[j].ev = [kind |-> "NEW", order |-> outbox'[k].ev.order]
        BY <2>3, <2>6, <2>7, <2>9, <2>10, <3>2, <4>1
      <4> QED  BY <1>3, <4>2
    <3> QED  BY <2>6, <3>1, <3>2
  <2> QED  BY <2>11, <2>12, Zenon DEF RequestInv
<1>6. ASSUME NEW k \in DOMAIN outbox, CommitRow(k) \/ AbortRow(k)
      PROVE  DOMAIN outbox' = DOMAIN outbox
  BY <1>6 DEF CommitRow, AbortRow
<1>7. CASE API
  BY <1>4, <1>5, <1>6, <1>7 DEF API
<1>8. CASE \E p \in Publishers : PublisherStep(p) \/ PFail(p)
  BY <1>4, <1>8, PublisherOutbox
<1>9. CASE MatcherStep \/ MatcherFault \/ UNCHANGED vars
  <2>1. UNCHANGED outbox
    BY <1>9, MatcherFrame DEF vars
  <2> QED  BY <1>4, <2>1
<1> QED  BY <1>7, <1>8, <1>9 DEF Next

\* The batch of the one publisher: with a CANCEL it holds the order's NEW row,
\* unless that is published.
NewInQueue ==
  \A p \in Publishers : \A k \in queue[p], j \in Unpublished :
    /\ outbox[k].ev.kind = "CANCEL"
    /\ outbox[j].ev = [kind |-> "NEW", order |-> outbox[k].ev.order]
    /\ j < k
    => j \in queue[p]

\* Requests cannot break it: what commits later is no NEW row of an order
\* that is being cancelled.
LEMMA ApiKeepsQueue ==
  ASSUME TypeOK, RequestInv, NewInQueue, API
  PROVE  NewInQueue'
<1>1. UNCHANGED queue /\ queue \in [Publishers -> SUBSET DOMAIN outbox]
  BY ApiFrame DEF TypeOK
<1>2. /\ OutboxGrows
      /\ \A k \in DOMAIN outbox : outbox'[k].st = outbox[k].st \/ outbox[k].st = "open"
  BY ApiOutbox
<1>3. SUFFICES ASSUME NEW p \in Publishers, NEW k \in queue[p], NEW j \in Unpublished',
                      outbox'[k].ev.kind = "CANCEL", j < k,
                      outbox'[j].ev = [kind |-> "NEW", order |-> outbox'[k].ev.order]
               PROVE  j \in queue[p]
  BY <1>1 DEF NewInQueue
<1>4. k \in DOMAIN outbox /\ outbox'[k].ev = outbox[k].ev
  BY <1>1, <1>2 DEF OutboxGrows
<1>5. j \in DOMAIN outbox /\ outbox'[j].ev = outbox[j].ev
  <2>1. /\ DOMAIN outbox = 1..Len(outbox) /\ Len(outbox) \in Nat
        /\ DOMAIN outbox' = 1..Len(outbox') /\ Len(outbox') \in Nat
    BY LenProperties, ApiOutbox DEF TypeOK
  <2>2. j \in DOMAIN outbox'
    BY <1>3 DEF Unpublished
  <2>3. j \in DOMAIN outbox
    BY <1>3, <1>4, <2>1, <2>2
  <2> QED  BY <1>2, <2>3 DEF OutboxGrows
<1>6. PICK i \in Committed : outbox[i].ev = [kind |-> "NEW", order |-> outbox[k].ev.order]
  BY <1>3, <1>4 DEF RequestInv
<1>7. i \in DOMAIN outbox /\ outbox[i].st # "open"
  BY <1>6 DEF Committed
<1>8. i = j
  BY <1>3, <1>4, <1>5, <1>6, <1>7 DEF RequestInv
<1>9. j \in Unpublished
  BY <1>2, <1>3, <1>5, <1>7, <1>8 DEF Unpublished
<1> QED  BY <1>3, <1>4, <1>5, <1>9 DEF NewInQueue

\* Nor can the publisher, which takes the oldest rows first.
LEMMA PublisherKeepsQueue ==
  ASSUME TypeOK, OnePublisher, NewInQueue,
         NEW p \in Publishers, PublisherStep(p) \/ PFail(p)
  PROVE  NewInQueue'
<1>1. /\ queue \in [Publishers -> SUBSET DOMAIN outbox]
      /\ DOMAIN outbox = 1..Len(outbox) /\ Len(outbox) \in Nat
  BY LenProperties DEF TypeOK
<1>2. /\ DOMAIN outbox' = DOMAIN outbox
      /\ \A k \in DOMAIN outbox : outbox'[k].ev = outbox[k].ev
      /\ Unpublished' \subseteq Unpublished
  <2>1. /\ DOMAIN outbox' = DOMAIN outbox
        /\ \A k \in DOMAIN outbox :
             /\ outbox'[k].ev = outbox[k].ev
             /\ outbox'[k].st \in {outbox[k].st, "published"}
    BY PublisherOutbox
  <2> QED  BY <2>1 DEF Unpublished
<1>3. Unpublished \subseteq DOMAIN outbox
  BY DEF Unpublished
<1>4. SUFFICES ASSUME NEW k \in queue'[p], NEW j \in Unpublished',
                      outbox[k].ev.kind = "CANCEL", j < k,
                      outbox[j].ev = [kind |-> "NEW", order |-> outbox[k].ev.order],
                      k \in DOMAIN outbox
               PROVE  j \in queue'[p]
  <2>1. \A q \in Publishers : q = p
    BY DEF OnePublisher
  <2>2. queue'[p] \subseteq DOMAIN outbox
    <3>1. CASE PFetch(p)
      <4>1. PICK free \in Free(p) : queue'[p] = FirstOf(free, PubBatch)
        BY <1>1, <3>1 DEF PFetch
      <4> QED  BY <1>3, <4>1 DEF Free, FirstOf
    <3>2. CASE ~PFetch(p)
      BY <1>1, <3>2 DEF PublisherStep, PAdd, PSkip, PCommit, PFail, Advance
    <3> QED  BY <3>1, <3>2
  <2> QED  BY <1>2, <1>3, <1>4, <2>1, <2>2 DEF NewInQueue
<1>5. ppc[p] # "added" => Locked = {}
  BY DEF Locked, OnePublisher
<1>6. \A free \in Free(p) : free = Unpublished \ Locked
  <2>1. ~ \E q \in Publishers : q # p /\ ppc[q] = "idle"
    BY DEF OnePublisher
  <2> QED  BY <2>1 DEF Free
<1>7. CASE PFetch(p)
  <2>1. /\ queue'[p] = FirstOf(Unpublished \ Locked, PubBatch) /\ ppc[p] = "idle"
        /\ UNCHANGED outbox
    <3>1. PICK free \in Free(p) : queue' = [queue EXCEPT ![p] = FirstOf(free, PubBatch)]
      BY <1>7 DEF PFetch
    <3> QED  BY <1>1, <1>7, <1>6, <3>1 DEF PFetch, apiVars
  <2>2. Unpublished \ Locked = Unpublished
    BY <1>5, <2>1
  <2>3. j \in Unpublished /\ Unpublished \in SUBSET (1..Len(outbox)) /\ PubBatch \in Nat
    BY <1>1, <1>2, <1>3, BoundsAssumption
  <2>4. \A a \in FirstOf(Unpublished, PubBatch), b \in Unpublished :
          b < a => b \in FirstOf(Unpublished, PubBatch)
    BY <1>1, <2>3, FirstOfFacts
  <2> QED  BY <1>4, <2>1, <2>2, <2>3, <2>4
<1>8. CASE UNCHANGED queue
  BY <1>2, <1>4, <1>8 DEF NewInQueue
<1>9. CASE PSkip(p) \/ PCommit(p)
  <2>1. PICK i \in queue[p] :
          /\ queue'[p] = queue[p] \ {i}
          /\ \/ ppc[p] = "next" /\ i \notin Unpublished \ Locked
             \/ outbox' = [outbox EXCEPT ![i].st = "published"]
    <3>1. CASE PSkip(p)
      BY <1>1, <1>6, <3>1 DEF PSkip, Advance
    <3>2. CASE PCommit(p)
      BY <1>1, <3>2 DEF PCommit, Advance
    <3> QED  BY <1>9, <3>1, <3>2
  <2>2. i \notin Unpublished'
    <3>1. CASE ppc[p] = "next" /\ i \notin Unpublished \ Locked
      BY <1>2, <1>5, <3>1
    <3>2. CASE outbox' = [outbox EXCEPT ![i].st = "published"]
      <4>1. i \in DOMAIN outbox /\ outbox \in Seq(Row)
        BY <1>1, <2>1 DEF TypeOK
      <4>2. outbox'[i].st = "published"
        BY <3>2, <4>1, OutboxUpdate
      <4> QED  BY <4>2 DEF Unpublished
    <3> QED  BY <2>1, <3>1, <3>2
  <2> QED  BY <1>2, <1>4, <2>1, <2>2 DEF NewInQueue
<1>10. CASE PFail(p)
  BY <1>1, <1>4, <1>10 DEF PFail
<1> QED  BY <1>7, <1>8, <1>9, <1>10 DEF PublisherStep, PAdd

\* The entry of a CANCEL follows that of the order's NEW.
LEMMA NewFirstPreserved ==
  ASSUME TypeOK, StreamMatchesOutbox, RequestInv, OnePublisher, NewFirstInv,
         [Next]_vars
  PROVE  NewFirstInv'
<1>1. /\ DOMAIN stream = 1..Len(stream) /\ Len(stream) \in Nat
      /\ StreamGrows /\ OutboxGrows
  BY LenProperties, LogsGrow DEF TypeOK
<1>2. NewInQueue /\ CancelFollowsNew
  BY DEF NewFirstInv, NewInQueue
<1>3. NewInQueue'
  <2>1. CASE MatcherStep \/ MatcherFault \/ UNCHANGED vars
    <3>1. UNCHANGED <<outbox, queue>>
      BY <2>1, MatcherFrame DEF vars
    <3> QED  BY <1>2, <3>1 DEF NewInQueue, Unpublished
  <2> QED  BY <1>2, <2>1, ApiKeepsQueue, PublisherKeepsQueue DEF Next
<1>4. UNCHANGED stream => CancelFollowsNew'
  BY <1>2 DEF CancelFollowsNew
<1>5. ASSUME NEW p \in Publishers, PublisherStep(p) \/ PFail(p), PAdd(p)
      PROVE  CancelFollowsNew'
  <2>1. /\ Len(stream') = Len(stream) + 1 /\ stream' \in Seq(Entry)
        /\ \E k \in queue[p] :
             /\ IsMin(k, queue[p]) /\ k \in Unpublished
             /\ stream'[Len(stream) + 1] = [row |-> k, ev |-> outbox[k].ev]
    BY <1>5, PublisherStream
  <2>2. PICK k \in queue[p] :
          /\ IsMin(k, queue[p]) /\ k \in Unpublished
          /\ stream'[Len(stream) + 1] = [row |-> k, ev |-> outbox[k].ev]
    BY <2>1
  <2>3. DOMAIN stream' = 1..(Len(stream) + 1)
    BY <2>1, LenProperties
  <2>4. ASSUME outbox[k].ev.kind = "CANCEL"
        PROVE  \E i \in 1..Len(stream) :
                 stream[i].ev = [kind |-> "NEW", order |-> outbox[k].ev.order]
    <3>1. k \in DOMAIN outbox
      BY <2>2 DEF Unpublished
    <3>2. PICK j \in Committed : /\ j < k
                                 /\ outbox[j].ev = [kind |-> "NEW", order |-> outbox[k].ev.order]
      BY <2>4, <3>1 DEF RequestInv
    <3>3. j \notin queue[p]
      <4>1. /\ queue[p] \subseteq DOMAIN outbox /\ j \in DOMAIN outbox
            /\ DOMAIN outbox = 1..Len(outbox) /\ Len(outbox) \in Nat
        BY <3>2, LenProperties DEF TypeOK, Committed
      <4> QED  BY <2>2, <3>1, <3>2, <4>1 DEF IsMin
    <3>4. outbox[j].st = "published"
      BY <1>2, <2>2, <2>4, <3>2, <3>3 DEF NewInQueue, Unpublished, Committed
    <3>5. PICK i \in DOMAIN stream : stream[i].row = j
      BY <3>2, <3>4 DEF StreamMatchesOutbox, Committed
    <3> QED  BY <1>1, <3>2, <3>5 DEF StreamMatchesOutbox
  <2>5. ASSUME NEW i \in DOMAIN stream', stream'[i].ev.kind = "CANCEL"
        PROVE  \E j \in 1..(i - 1) :
                 stream'[j].ev = [kind |-> "NEW", order |-> stream'[i].ev.order]
    <3>1. CASE i \in DOMAIN stream
      <4>1. PICK j \in 1..(i - 1) :
              stream[j].ev = [kind |-> "NEW", order |-> stream[i].ev.order]
        BY <1>1, <1>2, <2>5, <3>1 DEF CancelFollowsNew, StreamGrows
      <4>2. j \in DOMAIN stream
        BY <1>1, <3>1, <4>1
      <4> QED  BY <1>1, <3>1, <4>1, <4>2 DEF StreamGrows
    <3>2. CASE i = Len(stream) + 1
      <4>1. stream'[i].ev = outbox[k].ev
        BY <2>2, <3>2
      <4>2. PICK j \in 1..Len(stream) :
              stream[j].ev = [kind |-> "NEW", order |-> outbox[k].ev.order]
        BY <2>4, <2>5, <4>1
      <4>3. j \in 1..(i - 1) /\ stream'[j] = stream[j]
        BY <1>1, <3>2, <4>2 DEF StreamGrows
      <4> QED  BY <4>1, <4>2, <4>3
    <3> QED  BY <1>1, <2>3, <3>1, <3>2
  <2> QED  BY <2>5, Zenon DEF CancelFollowsNew
<1>6. CASE API \/ MatcherStep \/ MatcherFault \/ UNCHANGED vars
  <2>1. UNCHANGED stream
    BY <1>6, ApiFrame, MatcherFrame DEF vars
  <2> QED  BY <1>3, <1>4, <2>1 DEF NewFirstInv, NewInQueue
<1>7. CASE \E p \in Publishers : PublisherStep(p) \/ PFail(p)
  <2>1. CancelFollowsNew'
    BY <1>4, <1>5, <1>7, PublisherFrame
  <2> QED  BY <1>3, <2>1 DEF NewFirstInv, NewInQueue
<1> QED  BY <1>6, <1>7 DEF Next

----------------------------------------------------------------------------
(* Theorems *)

\* An empty system satisfies the invariant.
LEMMA InitEstablishes ==
  ASSUME Init
  PROVE  PipelineInv
<1> USE DEF Init
<1>1. TypeOK
  <2>1. group \in BOOLEAN
    BY Zenon
  <2>2. /\ <<>> \in Seq(Row) /\ Len(<<>>) = 0 /\ <<>> \in Seq(Entry)
        /\ <<>> \in Seq(1..0) /\ 0 \in 0..0
    BY EmptySeq
  <2>3. 0 <= MaxOutbox /\ MaxFaults \in 0..MaxFaults
    BY BoundsAssumption
  <2> QED  BY <2>1, <2>2, <2>3 DEF TypeOK
<1>2. EffectsOncePerEntry /\ StreamMatchesOutbox /\ TxInv /\ AddedInv
  BY DEF EffectsOncePerEntry, StreamMatchesOutbox, TxInv, AddedInv, Elems
<1>3. CleanInv
  BY DEF CleanInv
<1>4. NoEntryIsLost /\ ("late_group" \notin Faults => group)
  <2>1. "late_group" \notin Faults => group
    BY Zenon
  <2>2. NoEntryIsLost
    BY DEF NoEntryIsLost
  <2> QED  BY <2>1, <2>2
<1>5. OnceInv
  BY DEF OnceInv, PublishedOnce, Locked
<1>6. OrderInv
  BY DEF OrderInv, AppliedInStreamOrder
<1>7. RequestInv /\ NewFirstInv
  BY DEF RequestInv, NewFirstInv, CancelFollowsNew
<1> QED  BY <1>1, <1>2, <1>3, <1>4, <1>5, <1>6, <1>7 DEF PipelineInv

\* Every step preserves the invariant.
LEMMA StepPreserves ==
  ASSUME PipelineInv, [Next]_vars
  PROVE  PipelineInv'
<1> USE DEF PipelineInv
<1>1. TypeOK'
  BY TypesPreserved
<1>2. EffectsOncePerEntry' /\ TxInv'
  BY EffectsPreserved, TxPreserved
<1>3. AddedInv' /\ StreamMatchesOutbox'
  BY AddedPreserved, StreamPreserved
<1>4. "retry" \notin Faults => CleanInv'
  BY CleanPreserved
<1>5. "late_group" \notin Faults => group' /\ NoEntryIsLost'
  BY NoLossPreserved
<1>6. "mark" \notin Faults => OnceInv'
  BY <1>1, OncePreserved
<1>7. "late_group" \notin Faults /\ "retry" \notin Faults => OrderInv'
  BY OrderPreserved
<1>8. RequestInv'
  BY RequestPreserved
<1>9. OnePublisher => NewFirstInv'
  BY NewFirstPreserved
<1> QED  BY <1>1, <1>2, <1>3, <1>4, <1>5, <1>6, <1>7, <1>8, <1>9

\* The inductive invariant of the pipeline holds in every behaviour.
THEOREM PipelineInvariance == Spec => []PipelineInv
<1>1. Init => PipelineInv
  BY InitEstablishes
<1>2. PipelineInv /\ [Next]_vars => PipelineInv'
  BY StepPreserves
<1> QED  BY <1>1, <1>2, PTL DEF Spec

\* Every variable of the pipeline keeps its type; in particular the group's
\* cursor never passes the end of the stream.
THEOREM PipelineTypes == Spec => []TypeOK
<1>1. PipelineInv => TypeOK
  BY DEF PipelineInv
<1> QED  BY <1>1, PipelineInvariance, PTL

\* Idempotency: under any crashes, lost replies and redeliveries, the
\* effects of a stream entry are committed at most once, and exactly for the
\* entries in processed_stream_events.
THEOREM ExactlyOnceEffects == Spec => []EffectsOncePerEntry
<1>1. PipelineInv => EffectsOncePerEntry
  BY DEF PipelineInv
<1> QED  BY <1>1, PipelineInvariance, PTL

\* The transactional outbox: the stream holds events of committed requests
\* only, and a row is marked published only once its event is in the stream.
THEOREM OutboxIsFaithful == Spec => []StreamMatchesOutbox
<1>1. PipelineInv => StreamMatchesOutbox
  BY DEF PipelineInv
<1> QED  BY <1>1, PipelineInvariance, PTL

\* At-least-once: once the consumer group exists, an entry it has passed is
\* pending until its effects are committed.
THEOREM AtLeastOnce == "late_group" \notin Faults => (Spec => []NoEntryIsLost)
<1>1. SUFFICES ASSUME "late_group" \notin Faults
               PROVE  Spec => []NoEntryIsLost
  OBVIOUS
<1>2. PipelineInv => NoEntryIsLost
  BY <1>1 DEF PipelineInv
<1> QED  BY <1>2, PipelineInvariance, PTL

\* With any number of publisher replicas, a row is in the stream at most once
\* unless a publisher fails between XADD and commit.
THEOREM PublishedAtMostOnce == "mark" \notin Faults => (Spec => []PublishedOnce)
<1>1. SUFFICES ASSUME "mark" \notin Faults
               PROVE  Spec => []PublishedOnce
  OBVIOUS
<1>2. PipelineInv => PublishedOnce
  BY <1>1 DEF PipelineInv, OnceInv
<1> QED  BY <1>2, PipelineInvariance, PTL

\* Entries take effect in stream order, without gaps, unless reclaiming the
\* pending ones fails after an earlier failure.
THEOREM StreamOrderRespected ==
  "late_group" \notin Faults /\ "retry" \notin Faults
    => (Spec => []AppliedInStreamOrder)
<1>1. SUFFICES ASSUME "late_group" \notin Faults, "retry" \notin Faults
               PROVE  Spec => []AppliedInStreamOrder
  OBVIOUS
<1>2. PipelineInv => AppliedInStreamOrder
  BY <1>1 DEF PipelineInv, OrderInv
<1> QED  BY <1>2, PipelineInvariance, PTL

\* With one publisher, the cancellation of an order never overtakes its
\* placement, whatever fails and however often the publisher adds a row again.
THEOREM CancelNeverOvertakes == OnePublisher => (Spec => []CancelFollowsNew)
<1>1. SUFFICES ASSUME OnePublisher
               PROVE  Spec => []CancelFollowsNew
  OBVIOUS
<1>2. PipelineInv => CancelFollowsNew
  BY <1>1 DEF PipelineInv, NewFirstInv
<1> QED  BY <1>2, PipelineInvariance, PTL

\* Unless reclaiming the pending entries fails after an earlier failure, no
\* batch is applied to a Book that a failed batch has changed.
THEOREM DirtyBookIsResynced ==
  "retry" \notin Faults => (Spec => []NeverAppliesToDirtyBook)
<1>1. SUFFICES ASSUME "retry" \notin Faults
               PROVE  Spec => []NeverAppliesToDirtyBook
  OBVIOUS
<1>2. PipelineInv => NeverAppliesToDirtyBook
  BY <1>1 DEF PipelineInv, CleanInv, NeverAppliesToDirtyBook
<1> QED  BY <1>2, PipelineInvariance, PTL
=============================================================================
