------------------------------ MODULE Exchange ------------------------------
(***************************************************************************)
(* The exchange behind its messaging: the API reserves assets and writes   *)
(* order rows, the matcher applies the events of the stream in batches,    *)
(* each in one Postgres transaction, matching them with the engine and     *)
(* settling the trades in the wallets. It composes MatchingEngine, Wallet  *)
(* and the matcher's loop with real orders; the ways an event can reach    *)
(* the stream are in EventPipeline, and here a request that commits is in  *)
(* the stream at once.                                                     *)
(*                                                                         *)
(* Transactions. The matcher's open transaction is what it has read and    *)
(* written: cache holds the wallets it has locked (walletCache), txRows    *)
(* the order rows it has updated. A request waits for a row that is        *)
(* locked; its own transaction is one step, since it locks one row and     *)
(* never waits for a second.                                               *)
(*                                                                         *)
(* Objects. An order has at most two *order.Order values in the matcher:   *)
(* one that applyNewOrder built from the event, one that RecoverBook read  *)
(* from its row.                                                           *)
(***************************************************************************)
EXTENDS MatchingEngine, Wallet, SequencesExt, Totals

CONSTANTS MaxQty,     \* bound on the quantity of an order
          Deposit,    \* what each wallet is created with: [brl, vibranium]
          BatchSize,  \* matcher's batchSize
          MaxEvents,  \* bound: requests in a behaviour
          MaxFaults,  \* bound: failures in a behaviour
          Faults      \* kinds of failure that may happen

FaultKinds == {"apply",   \* a statement of applyBatch fails, and rolls back
               "commit",  \* the commit happens but reports an error
               "crash"}   \* the matcher process dies

ASSUME ObjectsAssumption == Refs = Ids \X {"event", "row"}
ASSUME BoundsAssumption ==
  /\ MaxQty \in Nat \ {0} /\ BatchSize \in Nat \ {0}
  /\ MaxEvents \in Nat /\ MaxFaults \in Nat
ASSUME DepositAssumption == Deposit \in [brl: Nat, vibranium: Nat]
ASSUME FaultsAssumption == Faults \subseteq FaultKinds
ASSUME FiniteAssumption == IsFiniteSet(Users) /\ IsFiniteSet(Ids)

VARIABLES
  wallets, rows, processed,       \* Postgres: wallets, orders (those placed),
                                  \* processed_stream_events
  stream, cursor, pel,            \* Redis, as in EventPipeline
  mpc, origin, batch, todo,       \* the matcher's Run loop
  cache, txRows, unsettled,       \* its transaction; trades left to settle
  bookDirty,
  faults,                         \* failures still to come
  diverged   \* history: a Book known to differ from Postgres has been used

dbVars    == <<wallets, rows, processed>>
redisVars == <<stream, cursor, pel>>
loopVars  == <<mpc, origin, batch, todo>>
txVars    == <<cache, txRows, unsettled>>
vars == <<obj, book, locations, incoming, funds, result, wallets, rows,
          processed, stream, cursor, pel, mpc, origin, batch, todo, cache,
          txRows, unsettled, bookDirty, faults, diverged>>

Event == [kind: {"NEW", "CANCEL"}, id: Ids]

Nothing == [x \in {} |-> {}]

\* f with the values of g where g has one.
Merge(f, g) == [x \in DOMAIN f \cup DOMAIN g |->
                  IF x \in DOMAIN g THEN g[x] ELSE f[x]]

Put(f, k, v) == Merge(f, [x \in {k} |-> v])

\* The wallet as the matcher's transaction sees it.
View(u) == IF u \in DOMAIN cache THEN cache[u] ELSE wallets[u]

\* Order rows with the NEW_ORDER event processed.
Matched(id) == \E i \in processed : stream[i] = [kind |-> "NEW", id |-> id]

\* ListOpenForRecovery, without the MARKET rows RecoverBook filters out.
Live == {id \in DOMAIN rows : ~IsDone(rows[id]) /\ rows[id].type = "LIMIT"}

Fault(kind) ==
  /\ kind \in Faults
  /\ faults > 0
  /\ faults' = faults - 1

----------------------------------------------------------------------------
(* API *)

\* The event of the request reaches the stream.
Publish(kind, id) ==
  /\ Len(stream) < MaxEvents
  /\ stream' = Append(stream, [kind |-> kind, id |-> id])
  /\ UNCHANGED <<processed, cursor, pel, loopVars, txVars, engineVars,
                 bookDirty, faults, diverged>>

\* uuid.New: an id no row has. Ids mean nothing else, so which one is chosen
\* does not matter.
NewId == CHOOSE id \in Ids : id \notin DOMAIN rows

CanReserve(w, o) ==
  CASE o.side = "SELL"  -> CanReserveVibranium(w, o.quantity)
    [] IsBuyMarket(o)   -> TRUE
    [] OTHER            -> CanReserveBRL(w, o.price * o.quantity)

Reserve(w, o) ==
  CASE o.side = "SELL"  -> ReserveVibranium(w, o.quantity)
    [] IsBuyMarket(o)   -> w
    [] OTHER            -> ReserveBRL(w, o.price * o.quantity)

\* Place that reads the wallet without FOR UPDATE.
Place_NoLock(o) ==
  /\ CanReserve(wallets[o.user], o)
  /\ wallets' = [wallets EXCEPT ![o.user] = Reserve(@, o)]
  /\ rows' = Put(rows, o.id, o)
  /\ Publish("NEW", o.id)

\* Place: waits for the wallet's lock, reserves what the order may cost, and
\* inserts row and event; a request the wallet cannot cover is rejected.
Place(o) ==
  /\ o.user \notin DOMAIN cache
  /\ CanReserve(wallets[o.user], o)
  /\ wallets' = [wallets EXCEPT ![o.user] = Reserve(@, o)]
  /\ rows' = Put(rows, o.id, o)
  /\ Publish("NEW", o.id)

\* Cancel, by the owner: waits for the row's lock; an order already terminal
\* gets no event. Nothing keeps a second request from queueing another.
Cancel(id) ==
  /\ id \in DOMAIN rows \ DOMAIN txRows
  /\ ~IsDone(rows[id])
  /\ UNCHANGED <<wallets, rows>>
  /\ Publish("CANCEL", id)

----------------------------------------------------------------------------
(* Matcher: start, recovery, errors *)

\* The queues AddResting can build at a price: ListOpenForRecovery sorts by
\* created_at, which each API replica takes from its own clock, so any order.
Queues(side, p) ==
  SetToSeqs({<<id, "row">> : id \in {x \in Live : rows[x].side = side
                                                /\ rows[x].price = p}})

Levels(side) ==
  {f \in [Prices -> UNION {Queues(side, p) : p \in Prices}] :
     \A p \in Prices : f[p] \in Queues(side, p)}

\* RecoverBook: a new Book with every live LIMIT row resting.
RecoverBook ==
  /\ obj' = [r \in {<<id, "row">> : id \in Live} |-> rows[r[1]]]
  /\ locations' = [id \in Live |-> <<id, "row">>]
  /\ \E bids \in Levels("BUY"), asks \in Levels("SELL") :
       book' = [s \in Sides |-> IF s = "BUY" THEN bids ELSE asks]
  /\ diverged' = (diverged \/ \E id \in Live : ~Matched(id))
  /\ bookDirty' = FALSE
  /\ UNCHANGED <<incoming, funds, result>>

\* The container starts and reclaims what is pending.
MBoot ==
  /\ mpc = "down"
  /\ RecoverBook
  /\ mpc' = "reclaim" /\ origin' = "boot"
  /\ UNCHANGED <<dbVars, redisVars, batch, todo, txVars, faults>>

\* recoverAfterFailure rebuilds the Book before it reclaims.
MResync ==
  /\ mpc = "resync"
  /\ RecoverBook
  /\ mpc' = "reclaim"
  /\ UNCHANGED <<dbVars, redisVars, origin, batch, todo, txVars, faults>>

\* The transaction rolls back, or is over.
EndTx ==
  /\ batch' = {} /\ todo' = {}
  /\ cache' = Nothing /\ txRows' = Nothing /\ unsettled' = <<>>

\* The process exits: its memory is lost.
Die ==
  /\ mpc' = "down" /\ origin' = "boot"
  /\ obj' = Nothing /\ book' = EmptyBook /\ locations' = Nothing
  /\ incoming' = NoRef /\ funds' = 0 /\ result' = NoResult
  /\ bookDirty' = FALSE
  /\ EndTx

\* An error of applyBatch: out of Run at boot, to recoverAfterFailure from the
\* main loop, back to the main loop from within recoverAfterFailure. What was
\* done to the Book stays.
FailBatch(bookStep) ==
  \/ origin = "boot" /\ Die
  \/ /\ origin # "boot"
     /\ mpc' = IF origin = "poll" THEN "resync" ELSE "poll"
     /\ origin' = IF origin = "poll" THEN "retry" ELSE "poll"
     /\ bookDirty' = TRUE
     /\ funds' = 0 /\ result' = NoResult
     /\ EndTx
     /\ bookStep

MCrash ==
  /\ mpc # "down"
  /\ Fault("crash")
  /\ Die
  /\ UNCHANGED <<dbVars, redisVars, diverged>>

----------------------------------------------------------------------------
(* Matcher: batches *)

FirstOf(S, n) == {k \in S : Cardinality({j \in S : j < k}) < n}

StartBatch(entries) ==
  /\ batch' = entries /\ todo' = entries
  /\ mpc' = "apply"
  /\ diverged' = (diverged \/ bookDirty)

MReadPending ==
  /\ mpc = "reclaim"
  /\ \/ /\ pel # {}
        /\ StartBatch(FirstOf(pel, BatchSize))
        /\ UNCHANGED origin
     \/ /\ pel = {}
        /\ mpc' = "poll" /\ origin' = "poll"
        /\ UNCHANGED <<batch, todo, diverged>>
  /\ UNCHANGED <<dbVars, redisVars, txVars, engineVars, bookDirty, faults>>

MReadNew ==
  /\ mpc = "poll"
  /\ LET new == FirstOf((cursor + 1)..Len(stream), BatchSize) IN
     /\ new # {}
     /\ cursor' = cursor + Cardinality(new)
     /\ pel' = pel \cup new
     /\ StartBatch(new)
  /\ UNCHANGED <<dbVars, stream, origin, txVars, engineVars, bookDirty, faults>>

\* A batch applied from its end.
IsNext_NewestFirst(i) == i \in todo /\ \A j \in todo : j <= i

\* The entry at the head of what is left of the batch.
IsNext(i) == i \in todo /\ \A j \in todo : i <= j

\* TryMark finds the entry in processed_stream_events.
ApplyDuplicate ==
  /\ mpc = "apply"
  /\ \E i \in processed : IsNext(i) /\ todo' = todo \ {i}
  /\ UNCHANGED <<dbVars, redisVars, mpc, origin, batch, txVars, engineVars,
                 bookDirty, faults, diverged>>

\* The order of a NEW_ORDER event.
EventOrder(id) == [rows[id] EXCEPT !.filled = 0, !.status = "OPEN"]

\* As ApplyNew, for an entry that was processed before too.
ApplyNew_NoGuard ==
  /\ mpc = "apply"
  /\ \E i \in todo :
       /\ IsNext(i) /\ stream[i].kind = "NEW"
       /\ todo' = todo \ {i}
       /\ LET o == EventOrder(stream[i].id)
              f == IF IsBuyMarket(o) THEN AvailableBRL(View(o.user)) ELSE 0
          IN  /\ StartMatch(<<o.id, "event">>, o, f)
              /\ cache' = IF IsBuyMarket(o) THEN Put(cache, o.user, View(o.user))
                                            ELSE cache
  /\ mpc' = "match"
  /\ UNCHANGED <<dbVars, redisVars, origin, batch, txRows, unsettled, bookDirty,
                 faults, diverged>>

\* applyNewOrder up to the call of Match: the wallet of a BUY MARKET order is
\* locked, and what is available is what it may spend.
ApplyNew ==
  /\ mpc = "apply"
  /\ \E i \in todo \ processed :
       /\ IsNext(i) /\ stream[i].kind = "NEW"
       /\ todo' = todo \ {i}
       /\ LET o == EventOrder(stream[i].id)
              f == IF IsBuyMarket(o) THEN AvailableBRL(View(o.user)) ELSE 0
          IN  /\ StartMatch(<<o.id, "event">>, o, f)
              /\ cache' = IF IsBuyMarket(o) THEN Put(cache, o.user, View(o.user))
                                            ELSE cache
  /\ mpc' = "match"
  /\ UNCHANGED <<dbVars, redisVars, origin, batch, txRows, unsettled, bookDirty,
                 faults, diverged>>

MatchStep ==
  /\ mpc = "match"
  /\ MatchOne
  /\ UNCHANGED <<dbVars, redisVars, loopVars, txVars, bookDirty, faults, diverged>>

MatchDone ==
  /\ mpc = "match"
  /\ EndMatch
  /\ unsettled' = result.trades
  /\ mpc' = "settle"
  /\ UNCHANGED <<dbVars, redisVars, origin, batch, todo, cache, txRows,
                 bookDirty, faults, diverged>>

----------------------------------------------------------------------------
(* Matcher: settlement *)

Taker == obj[result.incoming]

\* What a BUY LIMIT taker reserved beyond the price of the trade.
Improvement(tr) ==
  IF Taker.side = "BUY" THEN (Taker.price - tr.price) * tr.qty ELSE 0

CanSettleBuyer(w, tr) ==
  IF IsBuyMarket(Taker)
    THEN CanSettleBuyMarketFill(w, tr.price, tr.qty)
    ELSE /\ CanSettleBuyLimitFill(w, tr.price, tr.qty)
         /\ Improvement(tr) > 0 =>
              CanReleaseBRL(SettleBuyLimitFill(w, tr.price, tr.qty), Improvement(tr))

\* As SettleBuyer, without the release of the price improvement.
SettleBuyer_KeepImprovement(w, tr) ==
  IF IsBuyMarket(Taker) THEN SettleBuyMarketFill(w, tr.price, tr.qty)
                        ELSE SettleBuyLimitFill(w, tr.price, tr.qty)

SettleBuyer(w, tr) ==
  IF IsBuyMarket(Taker)
    THEN SettleBuyMarketFill(w, tr.price, tr.qty)
    ELSE ReleaseBRL(SettleBuyLimitFill(w, tr.price, tr.qty),
                    IF Improvement(tr) > 0 THEN Improvement(tr) ELSE 0)

\* As BuyerSettled, with a copy of its own for each side of the trade.
BuyerSettled_TwoCopies(tr) ==
  LET b == obj[tr.buy].user
      s == obj[tr.sell].user
  IN  [u \in {b, s} |-> IF u = s THEN View(u) ELSE SettleBuyer(View(u), tr)]

\* The two wallets after the buyer's part of a trade: one wallet, changed
\* twice, when a user trades with himself.
BuyerSettled(tr) ==
  LET b == obj[tr.buy].user
      s == obj[tr.sell].user
  IN  [u \in {b, s} |-> IF u = b THEN SettleBuyer(View(u), tr) ELSE View(u)]

CanSettle(tr) ==
  LET s == obj[tr.sell].user
  IN  /\ CanSettleBuyer(View(obj[tr.buy].user), tr)
      /\ CanSettleSellFill(BuyerSettled(tr)[s], tr.price, tr.qty)

SettleTrade ==
  /\ mpc = "settle"
  /\ unsettled # <<>>
  /\ LET tr == Head(unsettled)
         s  == obj[tr.sell].user
     IN  /\ CanSettle(tr)
         /\ cache' = Merge(cache, [BuyerSettled(tr) EXCEPT ![s] =
                                     SettleSellFill(@, tr.price, tr.qty)])
  /\ unsettled' = Tail(unsettled)
  /\ UNCHANGED <<dbVars, redisVars, loopVars, txRows, engineVars, bookDirty,
                 faults, diverged>>

\* What a SELL MARKET remainder gives back.
Remainder == IF Taker.side = "SELL" THEN result.cancelled ELSE 0

\* As WriteRows, for the last of the objects only: the order itself.
WriteRows_TakerOnly(list) ==
  LET o == obj[list[Len(list)]] IN txRows' = Put(txRows, o.id, o)

\* orderRepo.Update of the objects, one after the other: of two objects with
\* the same id the later one wins.
WriteRows(list) ==
  LET last(id) == CHOOSE i \in DOMAIN list :
                    /\ obj[list[i]].id = id
                    /\ \A j \in DOMAIN list : obj[list[j]].id = id => j <= i
  IN  txRows' = Merge(txRows, [id \in {obj[list[i]].id : i \in DOMAIN list} |->
                                 obj[list[last(id)]]])

\* The end of applyNewOrder: the rows of the makers and of the order itself,
\* and a SELL remainder's release.
FinishOrder ==
  /\ mpc = "settle"
  /\ unsettled = <<>>
  /\ \/ Remainder = 0 /\ UNCHANGED cache
     \/ /\ CanReleaseVibranium(View(Taker.user), Remainder)
        /\ cache' = Put(cache, Taker.user,
                        ReleaseVibranium(View(Taker.user), Remainder))
  /\ WriteRows(Append(result.touched, result.incoming))
  /\ mpc' = "apply"
  /\ funds' = 0 /\ result' = NoResult
  /\ UNCHANGED <<dbVars, redisVars, origin, batch, todo, unsettled, obj, book,
                 locations, incoming, bookDirty, faults, diverged>>

\* Every statement of the settlement can be carried out.
SettlementOK ==
  IF unsettled # <<>> THEN CanSettle(Head(unsettled))
                      ELSE Remainder > 0 =>
                             CanReleaseVibranium(View(Taker.user), Remainder)

\* A wallet rejects its part of a settlement.
SettleReject ==
  /\ mpc = "settle"
  /\ ~SettlementOK
  /\ FailBatch(UNCHANGED <<obj, book, locations, incoming>>)
  /\ UNCHANGED <<dbVars, redisVars, faults, diverged>>

----------------------------------------------------------------------------
(* Matcher: cancellation *)

CanRelease(w, o) ==
  IF o.side = "BUY" THEN CanReleaseBRL(w, o.price * Remaining(o))
                    ELSE CanReleaseVibranium(w, Remaining(o))

Release(w, o) ==
  IF o.side = "BUY" THEN ReleaseBRL(w, o.price * Remaining(o))
                    ELSE ReleaseVibranium(w, Remaining(o))

\* applyCancel: a located order is taken from the Book, its reservation
\* released and its row updated; without one nothing happens; a release that
\* the wallet rejects fails the batch with the order gone from the Book.
ApplyCancel ==
  /\ mpc = "apply"
  /\ \E i \in todo \ processed :
       /\ IsNext(i) /\ stream[i].kind = "CANCEL"
       /\ LET id == stream[i].id
              o  == obj[locations[id]]
          IN
          \/ /\ id \notin DOMAIN locations
             /\ todo' = todo \ {i}
             /\ UNCHANGED <<mpc, origin, batch, txVars, engineVars, bookDirty>>
          \/ /\ id \in DOMAIN locations
             /\ CanRelease(View(o.user), o)
             /\ CancelResting(id)
             /\ cache' = Put(cache, o.user, Release(View(o.user), o))
             /\ txRows' = Put(txRows, id, CancelOrder(o))
             /\ todo' = todo \ {i}
             /\ UNCHANGED <<mpc, origin, batch, unsettled, bookDirty>>
          \/ /\ id \in DOMAIN locations
             /\ ~CanRelease(View(o.user), o)
             /\ FailBatch(CancelResting(id))
  /\ UNCHANGED <<dbVars, redisVars, faults, diverged>>

----------------------------------------------------------------------------
(* Matcher: the end of a batch *)

\* The wallets of the cache, the rows and the marks become durable together.
Flush ==
  /\ wallets' = [u \in Users |-> View(u)]
  /\ rows' = Merge(rows, txRows)
  /\ processed' = processed \cup batch

\* Commit, then XACK of the batch.
MCommit ==
  /\ mpc = "apply"
  /\ todo = {}
  /\ Flush
  /\ pel' = pel \ batch
  /\ mpc' = IF origin = "poll" THEN "poll" ELSE "reclaim"
  /\ EndTx
  /\ UNCHANGED <<stream, cursor, origin, engineVars, bookDirty, faults, diverged>>

\* An error of the database, before the commit or in its reply.
MFault ==
  /\ \/ /\ mpc \in {"apply", "settle"}
        /\ Fault("apply")
        /\ UNCHANGED dbVars
     \/ /\ mpc = "apply" /\ todo = {}
        /\ Fault("commit")
        /\ Flush
  /\ FailBatch(UNCHANGED <<obj, book, locations, incoming>>)
  /\ UNCHANGED <<redisVars, diverged>>

----------------------------------------------------------------------------
(* The system *)

NewWallet == [brl |-> Deposit.brl, reservedBRL |-> 0,
              vibranium |-> Deposit.vibranium, reservedVibranium |-> 0]

Init ==
  /\ EngineInit
  /\ wallets = [u \in Users |-> NewWallet]
  /\ rows = Nothing /\ processed = {}
  /\ stream = <<>> /\ cursor = 0 /\ pel = {}
  /\ mpc = "poll" /\ origin = "poll" /\ batch = {} /\ todo = {}
  /\ cache = Nothing /\ txRows = Nothing /\ unsettled = <<>>
  /\ bookDirty = FALSE /\ faults = MaxFaults /\ diverged = FALSE

Next ==
  \/ /\ DOMAIN rows # Ids
     /\ \E o \in PlacedOrders(NewId, Users, Prices, 1..MaxQty) : Place(o)
  \/ \E id \in Ids : Cancel(id)
  \/ MBoot \/ MResync \/ MReadPending \/ MReadNew
  \/ ApplyDuplicate \/ ApplyNew \/ MatchStep \/ MatchDone
  \/ SettleTrade \/ SettleReject \/ FinishOrder \/ ApplyCancel
  \/ MCommit \/ MFault \/ MCrash

Spec == Init /\ [][Next]_vars

----------------------------------------------------------------------------
(* Properties *)

PartialFn(f, S, T) == DOMAIN f \subseteq S /\ \A x \in DOMAIN f : f[x] \in T

\* Every variable has its type. No balance and no reservation is ever
\* negative, committed or cached: the CHECK constraints of the wallets table
\* never fire.
TypeOK ==
  /\ PartialFn(obj, Refs, Order)
  /\ book \in [Sides -> [Prices -> Seq(Refs)]]
  /\ PartialFn(locations, Ids, Refs)
  /\ incoming \in Refs \cup {NoRef}
  /\ funds \in Int
  /\ result \in MatchResult
  /\ wallets \in [Users -> Wallet]
  /\ PartialFn(rows, Ids, Order)
  /\ processed \subseteq 1..cursor
  /\ stream \in Seq(Event)
  /\ cursor \in 0..Len(stream)
  /\ pel \subseteq 1..cursor
  /\ mpc \in {"down", "resync", "reclaim", "poll", "apply", "match", "settle"}
  /\ origin \in {"boot", "poll", "retry"}
  /\ batch \subseteq 1..cursor /\ todo \subseteq batch
  /\ PartialFn(cache, Users, Wallet)
  /\ PartialFn(txRows, Ids, Order)
  /\ unsettled \in Seq(Trade)
  /\ bookDirty \in BOOLEAN
  /\ faults \in 0..MaxFaults
  /\ diverged \in BOOLEAN

\* Nothing is created or destroyed: at every point of a batch, and so in
\* Postgres after its commit, all the wallets together hold what was
\* deposited.
MoneyConserved ==
  \A asset \in {"brl", "vibranium"} :
    Total([u \in Users |-> Holding(View(u))[asset]], Users)
      = Cardinality(Users) * Deposit[asset]

\* What an order still ties up in its owner's wallet.
Tied(o, asset) ==
  IF IsDone(o) \/ IsBuyMarket(o) THEN 0
    ELSE CASE asset = "brl" /\ o.side = "BUY"        -> o.price * Remaining(o)
           [] asset = "vibranium" /\ o.side = "SELL" -> Remaining(o)
           [] OTHER                                  -> 0

\* Every reservation belongs to a live order, to the unit: at any committed
\* state a wallet's reserved amounts are what its live orders may still cost.
\* It takes Place, settlement, price improvement, remainders and cancellation
\* together to keep it, across rollbacks and double cancellations; the Book
\* must be one that agrees with Postgres.
ReservationsBacked ==
  ~diverged => \A u \in Users :
    LET mine == {id \in DOMAIN rows : rows[id].user = u}
        tied(asset) == Total([id \in mine |-> Tied(rows[id], asset)], mine)
    IN  /\ wallets[u].reservedBRL = tied("brl")
        /\ wallets[u].reservedVibranium = tied("vibranium")

\* Between batches a clean Book is the set of live LIMIT orders whose event
\* has been processed, each in one queue, once, with the quantity left that
\* its row says; after commits, rollbacks, resyncs and restarts alike.
BookMatchesRows ==
  ~diverged /\ ~bookDirty /\ mpc \in {"poll", "reclaim"} =>
    LET places == {x \in Sides \X Prices \X (1..Cardinality(Refs)) :
                     x[3] \in DOMAIN book[x[1]][x[2]]}
        at(x) == book[x[1]][x[2]][x[3]]
    IN  /\ \A x \in places :
             LET id == obj[at(x)].id IN
             /\ id \in Live /\ obj[at(x)] = rows[id]
             /\ rows[id].side = x[1] /\ rows[id].price = x[2]
             /\ id \in DOMAIN locations /\ locations[id] = at(x)
        /\ Cardinality(places) = Cardinality({id \in Live : Matched(id)})
        /\ DOMAIN locations = {id \in Live : Matched(id)}

\* A wallet never rejects its part of a trade of at least one unit, or a
\* release: whatever was reserved when the order was placed is still there,
\* and what a BUY MARKET order could spend still is, when the trade is
\* settled. A rejection would fail the batch on every retry.
SettlementSucceeds ==
  ~diverged =>
    /\ mpc = "settle" /\ (unsettled # <<>> => Head(unsettled).qty > 0)
         => SettlementOK
    /\ mpc = "apply" => \A i \in todo \ processed :
         IsNext(i) /\ stream[i].kind = "CANCEL"
                   /\ stream[i].id \in DOMAIN locations =>
           LET o == obj[locations[stream[i].id]] IN CanRelease(View(o.user), o)

\* In Postgres an order only advances: a terminal row never changes again,
\* and no fill is ever taken back, whatever is redelivered.
RowsOnlyAdvance ==
  [][~diverged => \A id \in DOMAIN rows :
       /\ IsDone(rows[id]) => rows'[id] = rows[id]
       /\ rows'[id].filled >= rows[id].filled]_vars

\* A cancellation that has been processed found its order, or came too late:
\* the order is terminal, FILLED or CANCELLED, whatever was matched between
\* the request and its event. A request is answered before its event is
\* applied, and a no-op is not reported to anyone.
CancelIsHonoured ==
  ~diverged => \A i \in processed :
    stream[i].kind = "CANCEL" => IsDone(rows[stream[i].id])

\* "The Book is always a consistent derived view of Postgres before
\* processing resumes": no order is in a queue twice. An order that is offers
\* its quantity twice, and its location leads to one of the elements only.
NeverRestsTwice ==
  \A s \in Sides, p \in Prices : \A i, j \in DOMAIN book[s][p] :
    obj[book[s][p][i]].id = obj[book[s][p][j]].id => i = j

\* What matching may have spent, the wallet has: the trades of a BUY MARKET
\* order can be settled from the buyer's balance.
EngineGuaranteesFunds ==
  mpc = "settle" /\ unsettled # <<>> /\ IsBuyMarket(Taker) =>
    LET tr == Head(unsettled)
    IN  CanSettleBuyMarketFill(View(Taker.user), tr.price, tr.qty)

\* The exchange is a custodian: see Custody.
Custodian == INSTANCE Custody WITH
  Quantities <- 1..MaxQty,
  position   <- [u \in Users |-> Holding(wallets[u])],
  pending    <- [u \in Users |-> Holding(View(u))]

\* The exchange implements Custody: reservations, matching, batching, crashes
\* and rollbacks included, all that ever happens to what users hold is trades
\* that both sides can pay for, made durable a batch at a time.
ImplementsCustody == Custodian!Spec
=============================================================================
