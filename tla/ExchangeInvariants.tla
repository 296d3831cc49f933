-------------------------- MODULE ExchangeInvariants --------------------------
(***************************************************************************)
(* The inductive invariant of Exchange, in named parts. The first parts    *)
(* hold in every state; the others, gathered in Sound, as long as every    *)
(* Book used was one that agreed with Postgres (~diverged).                *)
(***************************************************************************)
EXTENDS Exchange

Assets == {"brl", "vibranium"}

----------------------------------------------------------------------------
(* In every state *)

\* What the matcher holds at each point of its loop: a transaction only
\* inside of a batch, a MatchResult only while an order is applied.
PhaseInv ==
  /\ mpc \notin {"apply", "match", "settle"} =>
       batch = {} /\ cache = Nothing /\ txRows = Nothing
  /\ mpc \notin {"match", "settle"} => result = NoResult
  /\ mpc # "settle" => unsettled = <<>>
  /\ incoming # NoRef <=> mpc = "match"
  /\ mpc = "match" => result.incoming = incoming /\ result.cancelled = 0
  /\ mpc \in {"match", "settle"} => result.incoming \in DOMAIN obj

\* Two versions of one order.
Same(a, b) ==
  /\ a.id = b.id /\ a.user = b.user /\ a.side = b.side /\ a.type = b.type
  /\ a.price = b.price /\ a.quantity = b.quantity

\* Filled within the quantity, and FILLED to the unit.
Sane(o) ==
  /\ o.filled <= o.quantity
  /\ o.status = "FILLED" <=> o.filled = o.quantity

\* Every object and every row of the transaction is a version of the row with
\* its id; events are about rows; a NEW_ORDER event is published once.
RowInv ==
  /\ \A id \in DOMAIN rows :
       /\ rows[id].id = id /\ rows[id].quantity <= MaxQty /\ Sane(rows[id])
       /\ rows[id].type = "LIMIT" => rows[id].price \in Prices
       /\ rows[id].type = "MARKET" => rows[id].price = NoPrice
  /\ \A id \in DOMAIN txRows :
       id \in DOMAIN rows /\ Same(txRows[id], rows[id]) /\ Sane(txRows[id])
  /\ \A r \in DOMAIN obj :
       r[1] \in DOMAIN rows /\ Same(obj[r], rows[r[1]]) /\ Sane(obj[r])
  /\ incoming # NoRef => obj[incoming].status # "CANCELLED"
  /\ \A i \in DOMAIN stream : stream[i].id \in DOMAIN rows
  /\ \A i, j \in DOMAIN stream :
       stream[i].kind = "NEW" /\ stream[i] = stream[j] => i = j

\* Positions of the trades of the match that have been settled.
Settled == IF mpc = "settle" THEN 1..(Len(result.trades) - Len(unsettled)) ELSE {}

\* References lead to objects, and what is left to settle is the end of the
\* list of trades.
HeapInv ==
  /\ \A s \in Sides, p \in Prices : \A i \in DOMAIN book[s][p] :
       book[s][p][i] \in DOMAIN obj
  /\ \A id \in DOMAIN locations :
       locations[id] \in DOMAIN obj /\ locations[id][1] = id
  /\ \A i \in DOMAIN result.touched : result.touched[i] \in DOMAIN obj
  /\ \A i \in DOMAIN result.trades :
       LET tr == result.trades[i] IN
       /\ tr.buy \in DOMAIN obj /\ tr.sell \in DOMAIN obj /\ tr.qty <= MaxQty
  /\ Len(unsettled) <= Len(result.trades)
  /\ \A k \in DOMAIN unsettled :
       unsettled[k] = result.trades[Len(result.trades) - Len(unsettled) + k]

BaseInv == TypeOK /\ PhaseInv /\ RowInv /\ HeapInv

----------------------------------------------------------------------------
(* While the Book agrees with Postgres *)

\* The row as the transaction sees it.
RowView(id) == IF id \in DOMAIN txRows THEN txRows[id] ELSE rows[id]

\* Order rows with the NEW_ORDER event processed, by the transaction too.
Known(id) ==
  \E i \in processed \cup (batch \ todo) : stream[i] = [kind |-> "NEW", id |-> id]

\* b is a, or a later version of a.
Advanced(a, b) == (IsDone(a) => b = a) /\ a.filled <= b.filled

\* An order is as it was placed until its event is processed, and never goes
\* back from there.
JournalInv ==
  /\ \A id \in DOMAIN rows :
       ~Matched(id) => rows[id].filled = 0 /\ rows[id].status = "OPEN"
  /\ \A id \in DOMAIN txRows : Known(id) /\ Advanced(rows[id], txRows[id])

\* Objects that the Match whose result is being settled may have changed.
Changed == {result.incoming} \cup {result.touched[i] : i \in DOMAIN result.touched}

\* One object for an order, with the contents of its row but for the changes
\* of the Match that is being applied.
ObjectInv ==
  /\ \A r, x \in DOMAIN obj : r[1] = x[1] => r = x
  /\ \A r \in DOMAIN obj :
       /\ Known(r[1])
       /\ Advanced(RowView(r[1]), obj[r])
       /\ r \notin Changed => obj[r] = RowView(r[1])
  /\ \A id \in DOMAIN rows :
       Known(id) /\ rows[id].type = "LIMIT" /\ ~IsDone(RowView(id)) =>
         \E r \in DOMAIN obj : r[1] = id

\* The Book holds the live LIMIT orders, each once, where its side and price
\* put it and its location says.
BookInv ==
  /\ \A s \in Sides, p \in Prices : \A i \in DOMAIN book[s][p] :
       LET r == book[s][p][i] IN
       /\ obj[r].side = s /\ obj[r].price = p
       /\ r # incoming
       /\ r[1] \in DOMAIN locations /\ locations[r[1]] = r
       /\ \A j \in DOMAIN book[s][p] : book[s][p][j] = r => i = j
  /\ \A id \in DOMAIN locations :
       LET r == locations[id] IN
       /\ obj[r].type = "LIMIT"
       /\ \E i \in DOMAIN book[obj[r].side][obj[r].price] :
            book[obj[r].side][obj[r].price][i] = r
  /\ \A r \in DOMAIN obj \ {incoming} :
       r[1] \in DOMAIN locations <=> obj[r].type = "LIMIT" /\ ~IsDone(obj[r])

\* What settling the trade takes from the reservation of the order.
Need(tr, id, asset) ==
  IF tr.qty <= 0 THEN 0
    ELSE CASE asset = "brl" /\ tr.buy[1] = id        -> rows[id].price * tr.qty
           [] asset = "vibranium" /\ tr.sell[1] = id -> tr.qty
           [] OTHER                                  -> 0

Needs(id, asset) ==
  [i \in DOMAIN result.trades |-> Need(result.trades[i], id, asset)]

\* What the order has in its owner's wallet: what its row says, but for the
\* trades settled since.
Claim(id, asset) ==
  Tied(RowView(id), asset) - Total(Needs(id, asset), Settled)

Mine(u) == {id \in DOMAIN rows : rows[id].user = u}

Reserved(w) == [brl |-> w.reservedBRL, vibranium |-> w.reservedVibranium]

\* The reservations of a wallet are the claims of its owner's orders.
ClaimInv ==
  \A u \in Users, asset \in Assets :
    Reserved(View(u))[asset]
      = Total([id \in Mine(u) |-> Claim(id, asset)], Mine(u))

\* What the order being applied has reserved and will not trade any more.
Rest(r, asset) ==
  IF r = result.incoming /\ asset = "vibranium" THEN Remainder ELSE 0

\* What an object lost in the Match is what its trades need.
MatchInv ==
  mpc \in {"match", "settle"} =>
    \A r \in DOMAIN obj, asset \in Assets :
      Tied(RowView(r[1]), asset) =
        Tied(obj[r], asset) + Rest(r, asset)
          + Total(Needs(r[1], asset), DOMAIN result.trades)

Costs == [i \in DOMAIN result.trades |->
            result.trades[i].price * result.trades[i].qty]

\* A trade is between a BUY and a SELL order, the one being applied and one
\* that rested, at its price and within the limit of the other; the wallet of
\* a BUY MARKET order is locked, and its trades add up to what was available,
\* or it had nothing.
TradeInv ==
  mpc \in {"match", "settle"} =>
    /\ \A i \in DOMAIN result.trades :
         LET tr == result.trades[i]
             maker == IF Taker.side = "BUY" THEN tr.sell ELSE tr.buy
         IN  /\ result.incoming = IF Taker.side = "BUY" THEN tr.buy ELSE tr.sell
             /\ obj[maker].side = Opposite(Taker.side) /\ obj[maker].type = "LIMIT"
             /\ tr.price = obj[maker].price
             /\ Taker.side = "BUY" /\ Taker.type = "LIMIT" => tr.price <= Taker.price
             /\ IsBuyMarket(Taker) \/ tr.qty > 0
    /\ IsBuyMarket(Taker) =>
         /\ Taker.user \in DOMAIN cache
         /\ \/ /\ \A i \in DOMAIN result.trades : result.trades[i].qty > 0
               /\ funds >= 0
               /\ Total(Costs, DOMAIN result.trades \ Settled)
                    + (IF mpc = "match" THEN funds ELSE 0) <= View(Taker.user).brl
            \/ /\ \A i \in DOMAIN result.trades : result.trades[i].qty < 0
               /\ funds <= 0

\* The Book is in use, and is one that agrees with Postgres.
Clean == ~bookDirty /\ mpc \notin {"down", "resync"}

Sound ==
  /\ JournalInv /\ ReservationsBacked /\ ClaimInv
  /\ mpc \in {"apply", "match", "settle"} => ~bookDirty
  /\ Clean => ObjectInv /\ BookInv /\ MatchInv /\ TradeInv

ExchangeInv == BaseInv /\ (~diverged => Sound)

----------------------------------------------------------------------------
(* What a processed cancellation has done *)

\* Every order has its NEW_ORDER event in the stream, before any CANCEL_ORDER.
EventInv ==
  /\ \A id \in DOMAIN rows :
       \E j \in DOMAIN stream : stream[j] = [kind |-> "NEW", id |-> id]
  /\ \A i \in DOMAIN stream : stream[i].kind = "CANCEL" =>
       \E j \in 1..(i - 1) : stream[j] = [kind |-> "NEW", id |-> stream[i].id]

\* Entries are applied in stream order: the main loop polls, on a clean Book,
\* only when all that was delivered is processed, and a batch leaves no
\* earlier entry behind.
OrderInv ==
  /\ \A i \in processed : 1..i \subseteq processed
  /\ 1..cursor \subseteq pel \cup processed
  /\ mpc \in {"reclaim", "resync"} => origin # "poll"
  /\ mpc = "poll" => origin = "poll" /\ (bookDirty \/ 1..cursor \subseteq processed)
  /\ \A i \in batch : 1..i \subseteq processed \cup batch
  /\ \A i \in batch \ todo, j \in todo : i < j
  /\ mpc \in {"apply", "match", "settle"} /\ origin = "poll" =>
       1..cursor \subseteq processed \cup batch

\* An entry that leaves its order terminal: a cancellation, or the placement
\* of a MARKET order.
Final(i) == stream[i].kind = "CANCEL" \/ rows[stream[i].id].type = "MARKET"

\* The placement that is being applied.
Applying(i) ==
  /\ mpc \in {"match", "settle"}
  /\ stream[i].kind = "NEW" /\ stream[i].id = result.incoming[1]

\* Such an entry, once applied, has left it so, in the transaction too.
FinalInv ==
  /\ \A i \in processed : Final(i) => IsDone(rows[stream[i].id])
  /\ \A i \in batch \ todo :
       Final(i) /\ ~Applying(i) => IsDone(RowView(stream[i].id))
  /\ mpc = "settle" /\ Taker.type = "MARKET" => IsDone(Taker)

CancelInv == EventInv /\ (~diverged => OrderInv /\ FinalInv)
=============================================================================
