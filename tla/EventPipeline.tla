---------------------------- MODULE EventPipeline ----------------------------
(***************************************************************************)
(* The path of an order event through the three processes: the API commits *)
(* it to the outbox table together with the order row, the publisher       *)
(* copies it to the Redis stream, the matcher reads it through a consumer  *)
(* group, applies it in batches of one Postgres transaction, and ACKs it.  *)
(* Any of these steps can fail, and the processes can crash between them.  *)
(*                                                                         *)
(* The events are opaque. What applying one does to the Book, to order     *)
(* rows and to wallets is in Exchange; here an applied entry is one whose  *)
(* mark is in processed_stream_events, in the order dbLog records. An      *)
(* order that is terminal may be cancelled here, and no step waits for the *)
(* lock of an order row that the matcher holds: both only add behaviours.  *)
(*                                                                         *)
(* Redis. A stream entry is its position; stream is the log, cursor the    *)
(* group's last-delivered id, pel the Pending Entries List of the one      *)
(* consumer name the matcher uses.                                         *)
(***************************************************************************)
EXTENDS Integers, Sequences, FiniteSets

CONSTANTS Orders,      \* orders clients place
          Publishers,  \* outbox-publisher replicas (one in build/)
          PubBatch,    \* publisher's batchSize
          BatchSize,   \* matcher's batchSize
          MaxOutbox,   \* bound: outbox rows written in a behaviour
          MaxFaults,   \* bound: failures in a behaviour
          Faults       \* kinds of failure that may happen

FaultKinds == {"api",       \* a request's transaction rolls back
               "publish",   \* an error before or at XADD
               "mark",      \* XADD done, its transaction does not commit
               "read",      \* XREADGROUP fails
               "apply",     \* applyBatch fails, and rolls back
               "commit",    \* the commit happens but reports an error
               "ack",       \* XACK fails
               "retry",     \* as read, apply and ack, while pending entries are
                            \* reclaimed after an earlier failure
               "crash",     \* the matcher process dies
               "late_group"}\* events are published before the group exists

ASSUME BoundsAssumption ==
  /\ PubBatch \in Nat \ {0} /\ BatchSize \in Nat \ {0}
  /\ MaxOutbox \in Nat /\ MaxFaults \in Nat
ASSUME FaultsAssumption == Faults \subseteq FaultKinds

VARIABLES
  outbox,     \* outbox_events: id -> event and state of the row
  processed,  \* processed_stream_events
  dbLog,      \* history: entries whose effects are committed, in order
  stream, group, cursor, pel,            \* Redis
  ppc, queue,                            \* each publisher: step, ids to do
  mpc, origin, batch, todo,              \* the matcher's Run loop
  txLog,      \* its open transaction: the entries applied, in order
  bookDirty,
  faults      \* failures still to come

apiVars   == <<outbox>>
dbVars    == <<processed, dbLog>>
redisVars == <<stream, group, cursor, pel>>
pubVars   == <<ppc, queue>>
loopVars  == <<mpc, origin, batch, todo>>
vars == <<outbox, processed, dbLog, stream, group, cursor, pel, ppc, queue,
          mpc, origin, batch, todo, txLog, bookDirty, faults>>

Event == [kind: {"NEW", "CANCEL"}, order: Orders]
Row   == [ev: Event, st: {"open", "aborted", "unpublished", "published"}]
Entry == [row: Nat \ {0}, ev: Event]

\* The elements of a sequence.
Elems(s) == {s[i] : i \in DOMAIN s}

\* Ids that a transaction has committed to the outbox.
Committed == {k \in DOMAIN outbox : outbox[k].st \in {"unpublished", "published"}}

\* Rows read before their transaction commits.
Unpublished_ReadsOpen ==
  {k \in DOMAIN outbox : outbox[k].st \in {"open", "unpublished"}}

Unpublished == {k \in DOMAIN outbox : outbox[k].st = "unpublished"}

\* Orders whose row exists, PlaceOrder having committed.
Placed == {outbox[k].ev.order : k \in {j \in Committed : outbox[j].ev.kind = "NEW"}}

Fault(kind) ==
  /\ kind \in Faults
  /\ faults > 0
  /\ faults' = faults - 1

----------------------------------------------------------------------------
(* API *)

InsertRow(kind, o) ==
  /\ Len(outbox) < MaxOutbox
  /\ outbox' = Append(outbox, [ev |-> [kind |-> kind, order |-> o], st |-> "open"])
  /\ UNCHANGED <<dbVars, redisVars, pubVars, loopVars, txLog, bookDirty, faults>>

\* Place: the outbox row takes the next id of the sequence; the order row and
\* the wallet reservation are in the same transaction.
Place(o) ==
  /\ \A k \in DOMAIN outbox : outbox[k].ev.order # o
  /\ InsertRow("NEW", o)

\* Cancel: reads the order row FOR UPDATE, so it waits for another Cancel of
\* the same order.
Cancel(o) ==
  /\ o \in Placed
  /\ \A k \in DOMAIN outbox :
       outbox[k].st = "open" => outbox[k].ev # [kind |-> "CANCEL", order |-> o]
  /\ InsertRow("CANCEL", o)

\* The request's transaction commits; requests commit in any order.
CommitRow(k) ==
  /\ outbox[k].st = "open"
  /\ outbox' = [outbox EXCEPT ![k].st = "unpublished"]
  /\ UNCHANGED <<dbVars, redisVars, pubVars, loopVars, txLog, bookDirty, faults>>

AbortRow(k) ==
  /\ outbox[k].st = "open"
  /\ Fault("api")
  /\ outbox' = [outbox EXCEPT ![k].st = "aborted"]
  /\ UNCHANGED <<dbVars, redisVars, pubVars, loopVars, txLog, bookDirty>>

----------------------------------------------------------------------------
(* Publisher *)

\* An unordered LIMIT.
FirstOf_AnyOrder(S, n) == {k \in S : Cardinality({j \in S : j > k}) < n}

\* The n smallest elements of a set of ids, as ORDER BY id LIMIT n and as
\* XREADGROUP COUNT n return them.
FirstOf(S, n) == {k \in S : Cardinality({j \in S : j < k}) < n}

IsMin(k, S) == k \in S /\ \A j \in S : k <= j

\* Rows whose transaction is between LockIfUnpublished and its commit.
Locked == {k \in DOMAIN outbox : \E p \in Publishers :
             ppc[p] = "added" /\ IsMin(k, queue[p])}

\* The unpublished rows that FOR UPDATE SKIP LOCKED finds free: those of Locked
\* are not, nor those that another replica's fetchBatch holds at the moment.
Free(p) ==
  {(Unpublished \ Locked) \ held : held \in
     IF \E q \in Publishers : q # p /\ ppc[q] = "idle"
     THEN SUBSET Unpublished ELSE {{}}}

\* fetchBatch.
PFetch(p) ==
  /\ ppc[p] = "idle"
  /\ \E free \in Free(p) :
       queue' = [queue EXCEPT ![p] = FirstOf(free, PubBatch)]
  /\ queue'[p] # {}
  /\ ppc' = [ppc EXCEPT ![p] = "next"]
  /\ UNCHANGED <<apiVars, dbVars, redisVars, loopVars, txLog, bookDirty, faults>>

Advance(p, k) ==
  /\ queue' = [queue EXCEPT ![p] = @ \ {k}]
  /\ ppc' = [ppc EXCEPT ![p] = IF queue[p] = {k} THEN "idle" ELSE "next"]

\* PAdd that trusts the fetched batch and does not check the row again.
PAdd_NoRecheck(p) ==
  /\ ppc[p] = "next"
  /\ \E k \in queue[p] :
       /\ IsMin(k, queue[p])
       /\ stream' = Append(stream, [row |-> k, ev |-> outbox[k].ev])
  /\ ppc' = [ppc EXCEPT ![p] = "added"]
  /\ UNCHANGED <<apiVars, dbVars, group, cursor, pel, queue, loopVars, txLog,
                 bookDirty, faults>>

\* publishAndMarkOne, up to XADD: re-locks the row, checks it again, adds the
\* entry to the stream.
PAdd(p) ==
  /\ ppc[p] = "next"
  /\ \E k \in queue[p] :
       /\ IsMin(k, queue[p])
       /\ k \in Unpublished \ Locked
       /\ stream' = Append(stream, [row |-> k, ev |-> outbox[k].ev])
  /\ ppc' = [ppc EXCEPT ![p] = "added"]
  /\ UNCHANGED <<apiVars, dbVars, group, cursor, pel, queue, loopVars, txLog,
                 bookDirty, faults>>

\* The row is published already or locked by another replica: a no-op.
PSkip(p) ==
  /\ ppc[p] = "next"
  /\ \E k \in queue[p] :
       /\ IsMin(k, queue[p])
       /\ \E free \in Free(p) : k \notin free
       /\ Advance(p, k)
  /\ UNCHANGED <<apiVars, dbVars, redisVars, loopVars, txLog, bookDirty, faults>>

\* PCommit without MarkPublished.
PCommit_NotMarked(p) ==
  /\ ppc[p] = "added"
  /\ \E k \in queue[p] : IsMin(k, queue[p]) /\ Advance(p, k)
  /\ UNCHANGED <<apiVars, dbVars, redisVars, loopVars, txLog, bookDirty, faults>>

\* MarkPublished and Commit.
PCommit(p) ==
  /\ ppc[p] = "added"
  /\ \E k \in queue[p] :
       /\ IsMin(k, queue[p])
       /\ outbox' = [outbox EXCEPT ![k].st = "published"]
       /\ Advance(p, k)
  /\ UNCHANGED <<dbVars, redisVars, loopVars, txLog, bookDirty, faults>>

\* An error ends the cycle: before XADD nothing has happened; after it the
\* entry is in the stream and the row is still unpublished. A publisher that
\* dies leaves the same state.
PFail(p) ==
  /\ \/ ppc[p] = "next" /\ Fault("publish")
     \/ ppc[p] = "added" /\ Fault("mark")
  /\ ppc' = [ppc EXCEPT ![p] = "idle"]
  /\ queue' = [queue EXCEPT ![p] = {}]
  /\ UNCHANGED <<apiVars, dbVars, redisVars, loopVars, txLog, bookDirty>>

----------------------------------------------------------------------------
(* Matcher: start, and what its errors lead to *)

\* The container starts: a new Book from the order rows (RecoverBook), then
\* the consumer group.
MBoot ==
  /\ mpc = "down"
  /\ bookDirty' = FALSE
  /\ mpc' = "join"
  /\ UNCHANGED <<apiVars, dbVars, redisVars, pubVars, origin, batch, todo,
                 txLog, faults>>

\* A group set to "$" at every start, not only at the first.
MJoin_AtEnd ==
  /\ mpc = "join"
  /\ group' = TRUE
  /\ cursor' = Len(stream)
  /\ mpc' = "reclaim"
  /\ origin' = "boot"
  /\ UNCHANGED <<apiVars, dbVars, stream, pel, pubVars, batch, todo, txLog,
                 bookDirty, faults>>

\* NewConsumer creates the group at "$" unless it exists; Run then reclaims
\* what is pending.
MJoin ==
  /\ mpc = "join"
  /\ group' = TRUE
  /\ cursor' = IF group THEN cursor ELSE Len(stream)
  /\ mpc' = "reclaim"
  /\ origin' = "boot"
  /\ UNCHANGED <<apiVars, dbVars, stream, pel, pubVars, batch, todo, txLog,
                 bookDirty, faults>>

\* The main loop goes on polling after an error, without ReclaimPending.
AfterError_NoReclaim(dirty) ==
  \/ origin = "boot" /\ mpc' = "down" /\ UNCHANGED origin
  \/ origin # "boot" /\ mpc' = "poll" /\ origin' = "poll"

\* recoverAfterFailure goes straight to ReclaimPending.
AfterError_NoResync(dirty) ==
  \/ origin = "boot" /\ mpc' = "down" /\ UNCHANGED origin
  \/ origin = "poll" /\ mpc' = "reclaim" /\ origin' = "retry"
  \/ origin = "retry" /\ mpc' = "poll" /\ origin' = "poll"

\* Where an error leads: out of Run when pending entries were being reclaimed
\* at boot (the container restarts), to recoverAfterFailure from the main
\* loop, and back to the main loop from within recoverAfterFailure, which
\* only logs it.
AfterError(dirty) ==
  \/ origin = "boot" /\ mpc' = "down" /\ UNCHANGED origin
  \/ /\ origin = "poll"
     /\ mpc' = IF dirty THEN "resync" ELSE "reclaim"
     /\ origin' = "retry"
  \/ origin = "retry" /\ mpc' = "poll" /\ origin' = "poll"

\* The transaction is gone, and with it the batch.
EndTx ==
  /\ batch' = {} /\ todo' = {}
  /\ txLog' = <<>>

\* recoverAfterFailure rebuilds the Book before it reclaims. A resync that
\* fails is tried again.
MResync ==
  /\ mpc = "resync"
  /\ bookDirty' = FALSE
  /\ mpc' = "reclaim"
  /\ UNCHANGED <<apiVars, dbVars, redisVars, pubVars, origin, batch, todo,
                 txLog, faults>>

\* The process dies: its transaction rolls back, its memory is lost.
MCrash ==
  /\ mpc # "down"
  /\ Fault("crash")
  /\ mpc' = "down"
  /\ origin' = "boot"
  /\ bookDirty' = FALSE
  /\ EndTx
  /\ UNCHANGED <<apiVars, dbVars, redisVars, pubVars>>

----------------------------------------------------------------------------
(* Matcher: reading *)

StartBatch(entries) ==
  /\ batch' = entries /\ todo' = entries
  /\ txLog' = <<>>
  /\ mpc' = "apply"

\* ReadPending "0": the oldest entries of the PEL; an empty PEL ends the
\* reclaiming.
MReadPending ==
  /\ mpc = "reclaim"
  /\ \/ /\ pel # {}
        /\ StartBatch(FirstOf(pel, BatchSize))
        /\ UNCHANGED origin
     \/ /\ pel = {}
        /\ mpc' = "poll" /\ origin' = "poll"
        /\ UNCHANGED <<batch, todo, txLog>>
  /\ UNCHANGED <<apiVars, dbVars, redisVars, pubVars, bookDirty, faults>>

\* XREADGROUP COUNT n moves the group's cursor and adds to the PEL.
Deliver ==
  LET last == IF Len(stream) < cursor + BatchSize THEN Len(stream)
                                                  ELSE cursor + BatchSize
  IN  /\ cursor' = last
      /\ pel' = pel \cup (cursor + 1)..last

\* ReadBatch ">": entries never delivered to the group; they become pending.
MReadNew ==
  /\ mpc = "poll"
  /\ cursor < Len(stream)
  /\ Deliver
  /\ StartBatch((cursor + 1)..cursor')
  /\ UNCHANGED <<apiVars, dbVars, stream, group, pubVars, origin, bookDirty, faults>>

\* XREADGROUP fails; the server may have delivered before the reply was lost.
MReadFail ==
  /\ mpc \in {"poll", "reclaim"}
  /\ Fault(IF origin = "retry" THEN "retry" ELSE "read")
  /\ \/ UNCHANGED <<cursor, pel>>
     \/ mpc = "poll" /\ cursor < Len(stream) /\ Deliver
  /\ AfterError(bookDirty)
  /\ UNCHANGED <<apiVars, dbVars, stream, group, pubVars, batch, todo, txLog,
                 bookDirty>>

----------------------------------------------------------------------------
(* Matcher: applyBatch *)

\* As MApplyEntry, without the look at processed_stream_events.
MApplyEntry_NoGuard ==
  /\ mpc = "apply"
  /\ \E i \in todo :
       /\ IsMin(i, todo)
       /\ todo' = todo \ {i}
       /\ txLog' = Append(txLog, i)
  /\ UNCHANGED <<apiVars, dbVars, redisVars, pubVars, mpc, origin, batch,
                 bookDirty, faults>>

\* One entry of the batch, the oldest left: TryMark tells whether it was
\* processed before.
MApplyEntry ==
  /\ mpc = "apply"
  /\ \E i \in todo :
       /\ IsMin(i, todo)
       /\ todo' = todo \ {i}
       /\ \/ i \in processed /\ UNCHANGED txLog
          \/ i \notin processed /\ txLog' = Append(txLog, i)
  /\ UNCHANGED <<apiVars, dbVars, redisVars, pubVars, mpc, origin, batch,
                 bookDirty, faults>>

\* Marks and effects become durable together.
CommitTx ==
  /\ processed' = processed \cup Elems(txLog)
  /\ dbLog' = dbLog \o txLog

MCommit ==
  /\ mpc = "apply"
  /\ todo = {}
  /\ CommitTx
  /\ mpc' = "ack"
  /\ txLog' = <<>>
  /\ UNCHANGED <<apiVars, redisVars, pubVars, origin, batch, todo, bookDirty, faults>>

\* MApplyFail that ACKs the batch all the same.
MApplyFail_Acks ==
  /\ mpc = "apply"
  /\ Fault(IF origin = "retry" THEN "retry" ELSE "apply")
  /\ pel' = pel \ batch
  /\ bookDirty' = TRUE
  /\ AfterError(TRUE)
  /\ EndTx
  /\ UNCHANGED <<apiVars, dbVars, stream, group, cursor, pubVars>>

\* Any error in applyBatch rolls back; what Match and Cancel did to the Book
\* stays, so it is marked dirty. A commit whose reply is lost has
\* happened all the same.
MApplyFail ==
  /\ mpc = "apply"
  /\ \/ /\ Fault(IF origin = "retry" THEN "retry" ELSE "apply")
        /\ UNCHANGED dbVars
     \/ /\ todo = {}
        /\ Fault(IF origin = "retry" THEN "retry" ELSE "commit")
        /\ CommitTx
  /\ bookDirty' = TRUE
  /\ AfterError(TRUE)
  /\ EndTx
  /\ UNCHANGED <<apiVars, redisVars, pubVars>>

MAck ==
  /\ mpc = "ack"
  /\ pel' = pel \ batch
  /\ mpc' = IF origin = "poll" THEN "poll" ELSE "reclaim"
  /\ batch' = {}
  /\ UNCHANGED <<apiVars, dbVars, stream, group, cursor, pubVars, origin, todo,
                 txLog, bookDirty, faults>>

\* XACK fails, with or without effect. The Book is not dirty: the batch is
\* committed.
MAckFail ==
  /\ mpc = "ack"
  /\ Fault(IF origin = "retry" THEN "retry" ELSE "ack")
  /\ pel' \in {pel, pel \ batch}
  /\ AfterError(bookDirty)
  /\ batch' = {}
  /\ UNCHANGED <<apiVars, dbVars, stream, group, cursor, pubVars, todo, txLog,
                 bookDirty>>

----------------------------------------------------------------------------
(* The system *)

Init ==
  /\ outbox = <<>> /\ processed = {} /\ dbLog = <<>>
  /\ stream = <<>> /\ cursor = 0 /\ pel = {}
  /\ group = ("late_group" \notin Faults)
  /\ ppc = [p \in Publishers |-> "idle"]
  /\ queue = [p \in Publishers |-> {}]
  /\ mpc = "down" /\ origin = "boot" /\ batch = {} /\ todo = {}
  /\ txLog = <<>> /\ bookDirty = FALSE
  /\ faults = MaxFaults

API ==
  \/ \E o \in Orders : Place(o)
  \/ \E o \in Orders : Cancel(o)
  \/ \E k \in DOMAIN outbox : CommitRow(k)
  \/ \E k \in DOMAIN outbox : AbortRow(k)

PublisherStep(p) == PFetch(p) \/ PAdd(p) \/ PSkip(p) \/ PCommit(p)

\* What the matcher does on its own, without a failure.
MatcherStep ==
  \/ MBoot \/ MJoin \/ MResync \/ MReadPending \/ MReadNew
  \/ MApplyEntry \/ MCommit \/ MAck

MatcherFault == MCrash \/ MReadFail \/ MApplyFail \/ MAckFail

Next ==
  \/ API
  \/ \E p \in Publishers : PublisherStep(p) \/ PFail(p)
  \/ MatcherStep
  \/ MatcherFault

\* A request in progress ends; the publisher polls on a ticker; the matcher
\* loops forever and its container is restarted. Nobody has to place orders,
\* and failures never have to happen.
Fairness ==
  /\ \A k \in 1..MaxOutbox : WF_vars(k \in DOMAIN outbox /\ CommitRow(k))
  /\ \A p \in Publishers : WF_vars(PublisherStep(p))
  /\ WF_vars(MatcherStep)

Spec == Init /\ [][Next]_vars /\ Fairness

----------------------------------------------------------------------------
(* Properties *)

\* Every variable has its type.
TypeOK ==
  /\ outbox \in Seq(Row) /\ Len(outbox) <= MaxOutbox
  /\ processed \subseteq 1..Len(stream)
  /\ dbLog \in Seq(1..Len(stream))
  /\ stream \in Seq(Entry)
  /\ group \in BOOLEAN
  /\ cursor \in 0..Len(stream)
  /\ pel \subseteq 1..cursor
  /\ ppc \in [Publishers -> {"idle", "next", "added"}]
  /\ queue \in [Publishers -> SUBSET DOMAIN outbox]
  /\ mpc \in {"down", "join", "reclaim", "poll", "apply", "ack", "resync"}
  /\ origin \in {"boot", "poll", "retry"}
  /\ batch \subseteq 1..cursor /\ todo \subseteq batch
  /\ txLog \in Seq(1..cursor)
  /\ bookDirty \in BOOLEAN
  /\ faults \in 0..MaxFaults

\* An entry the group has delivered is pending until its effects are
\* committed, whatever fails in between: XACK never precedes the commit, and
\* a lost reply leaves the entry in the PEL.
NoEntryIsLost ==
  \A i \in 1..cursor : i \in pel \/ i \in processed

\* The idempotency table and the effects agree: an entry takes effect once,
\* however often it is delivered.
EffectsOncePerEntry ==
  /\ Elems(dbLog) = processed
  /\ \A i, j \in DOMAIN dbLog : dbLog[i] = dbLog[j] => i = j

\* Events take effect in stream order, without gaps: pending entries are
\* applied before new ones.
AppliedInStreamOrder ==
  \A i \in processed : 1..i \subseteq processed

\* A row marked published is in the stream, and the stream holds nothing but
\* the events of committed requests.
StreamMatchesOutbox ==
  /\ \A k \in DOMAIN outbox : outbox[k].st = "published" =>
       \E i \in DOMAIN stream : stream[i].row = k
  /\ \A i \in DOMAIN stream :
       /\ stream[i].row \in Committed
       /\ stream[i].ev = outbox[stream[i].row].ev

\* The stream holds a committed row at most once.
PublishedOnce ==
  \A i, j \in DOMAIN stream : stream[i].row = stream[j].row => i = j

\* The cancellation of an order never overtakes its placement on the way to
\* the matcher, where it would be a no-op and be lost.
CancelFollowsNew ==
  \A i \in DOMAIN stream : stream[i].ev.kind = "CANCEL" =>
    \E j \in 1..(i - 1) :
      stream[j].ev = [kind |-> "NEW", order |-> stream[i].ev.order]

\* "ReclaimPending re-runs matching and commits to Postgres, and must never
\* do so against a known-diverged Book": after a batch that failed, wherever
\* it failed, no batch starts before the Book is rebuilt. Only a failure
\* while pending entries are reclaimed breaks it.
NeverAppliesToDirtyBook ==
  mpc = "apply" /\ todo = batch => ~bookDirty

\* Every event of a committed request is processed by the matcher in the end,
\* whatever fails except the reclaiming itself: see PendingIsReprocessed.
EveryEventProcessed ==
  \A k \in 1..MaxOutbox :
    (k \in DOMAIN outbox /\ outbox[k].st = "unpublished")
      ~> \E i \in processed : stream[i].row = k

\* "a stuck entry gets reprocessed ... instead of sitting in the PEL forever":
\* what is pending is processed in the end, as soon as failures cease.
PendingIsReprocessed ==
  \A i \in 1..MaxOutbox : (i \in pel) ~> (i \in processed)

----------------------------------------------------------------------------
(* The inductive invariant behind the safety properties *)

\* A batch in progress: each of its entries is still to do, in the
\* transaction, or was processed before; the transaction holds none twice
\* and none that was processed. A batch waiting for its ACK is processed.
TxInv ==
  /\ mpc # "apply" => txLog = <<>> /\ todo = {}
  /\ \A i, j \in DOMAIN txLog : txLog[i] = txLog[j] => i = j
  /\ \A i \in Elems(txLog) : i \in batch /\ i \notin processed /\ i \notin todo
  /\ mpc = "apply" => \A i \in batch : i \in todo \cup Elems(txLog) \cup processed
  /\ mpc = "ack" => batch \subseteq processed

\* A publisher between XADD and commit is at the least id of its batch, and
\* that row's entry is in the stream.
AddedInv ==
  \A p \in Publishers : ppc[p] = "added" =>
    \E k \in queue[p] : /\ IsMin(k, queue[p])
                        /\ \E i \in DOMAIN stream : stream[i].row = k

\* A row in the stream is marked, or held by the one publisher that added it.
OnceInv ==
  /\ PublishedOnce
  /\ \A i \in DOMAIN stream :
       \/ outbox[stream[i].row].st = "published"
       \/ stream[i].row \in Locked
  /\ Locked \subseteq Unpublished
  /\ \A p, q \in Publishers :
       ppc[p] = "added" /\ ppc[q] = "added" /\ p # q =>
         \A k \in queue[p] \cap queue[q] : ~(IsMin(k, queue[p]) /\ IsMin(k, queue[q]))

\* The main loop polls only when nothing delivered is unprocessed, and a
\* batch never leaves an earlier entry behind.
OrderInv ==
  /\ AppliedInStreamOrder
  /\ mpc \in {"reclaim", "resync"} => origin # "poll"
  /\ mpc = "poll" => origin = "poll" /\ 1..cursor \subseteq processed
  /\ mpc \in {"apply", "ack"} /\ origin = "poll" =>
       1..cursor \subseteq processed \cup batch
  /\ mpc = "apply" => \A i \in batch : 1..i \subseteq processed \cup batch

\* The matcher resyncs a dirty Book before it does anything else.
CleanInv ==
  mpc \in {"join", "reclaim", "poll", "apply", "ack"} => ~bookDirty

\* An order is placed by one row, and a CANCEL row comes after that row has
\* been committed.
RequestInv ==
  /\ \A j, k \in DOMAIN outbox :
       /\ outbox[j].ev.kind = "NEW"
       /\ outbox[j].ev = outbox[k].ev
       => j = k
  /\ \A k \in DOMAIN outbox : outbox[k].ev.kind = "CANCEL" =>
       \E j \in Committed :
         /\ j < k
         /\ outbox[j].ev = [kind |-> "NEW", order |-> outbox[k].ev.order]

\* There is one publisher, as build/ runs it.
OnePublisher == \A p, q \in Publishers : p = q

\* A publisher that is to add a CANCEL has the NEW row of the order before it
\* in its batch, unless that row is published.
NewFirstInv ==
  /\ CancelFollowsNew
  /\ \A p \in Publishers : \A k \in queue[p], j \in Unpublished :
       /\ outbox[k].ev.kind = "CANCEL"
       /\ outbox[j].ev = [kind |-> "NEW", order |-> outbox[k].ev.order]
       /\ j < k
       => j \in queue[p]

\* Each part under the failures it survives.
PipelineInv ==
  /\ TypeOK /\ EffectsOncePerEntry /\ StreamMatchesOutbox
  /\ TxInv /\ AddedInv /\ RequestInv
  /\ "late_group" \notin Faults => group /\ NoEntryIsLost
  /\ "mark" \notin Faults => OnceInv
  /\ "late_group" \notin Faults /\ "retry" \notin Faults => OrderInv
  /\ "retry" \notin Faults => CleanInv
  /\ OnePublisher => NewFirstInv
=============================================================================
