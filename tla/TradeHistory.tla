---------------------------- MODULE TradeHistory ----------------------------
(***************************************************************************)
(* GET /trades: a client pages through the trades table, newest first,     *)
(* with a cursor made of the last row it got, while the matcher inserts    *)
(* trades in transactions of its own that commit or roll back.             *)
(*                                                                         *)
(* A trade is what the listing looks at: executed_at, which several trades *)
(* can share and which a restarted matcher takes from another clock; the   *)
(* id, a random uuid, so of any order; and the keys a filter can name, its *)
(* two users and two orders. A filter is a set of keys.                    *)
(***************************************************************************)
EXTENDS Integers, FiniteSets, Sequences

CONSTANTS TradeIds,     \* trade ids, compared as uuids are
          Times,        \* values of executed_at
          Keys,         \* users and orders a filter can ask for
          RawLimits,    \* values of the limit parameter; 0: not given
          MaxLimit,     \* 200 in the code
          DefaultLimit  \* 50 in the code

ASSUME OrdersAssumption == TradeIds \subseteq Nat /\ Times \subseteq Nat
ASSUME LimitsAssumption ==
  /\ RawLimits \subseteq Nat
  /\ MaxLimit \in Nat \ {0} /\ DefaultLimit \in 1..MaxLimit

VARIABLES trades,    \* the table, as committed
          open,      \* trades inserted by the matcher's open transaction
          phase,     \* the client: idle, paging, or done
          filter,    \* what it asks for
          cursor,    \* its next_cursor
          seen,      \* trades it was given, page after page
          visible    \* history: matching trades when it asked for the first page

vars == <<trades, open, phase, filter, cursor, seen, visible>>

Trade == [id: TradeIds, at: Times, keys: SUBSET Keys]

NoCursor == [at |-> -1, id |-> -1]

\* ORDER BY executed_at DESC, id DESC: a comes before b.
Newer(a, b) == a.at > b.at \/ (a.at = b.at /\ a.id > b.id)

----------------------------------------------------------------------------
(* Matcher *)

\* trade.New and TradeRepository.Insert.
Insert(t) ==
  /\ \A x \in trades \cup open : x.id # t.id
  /\ open' = open \cup {t}
  /\ UNCHANGED <<trades, phase, filter, cursor, seen, visible>>

Commit ==
  /\ open # {}
  /\ trades' = trades \cup open
  /\ open' = {}
  /\ UNCHANGED <<phase, filter, cursor, seen, visible>>

Rollback ==
  /\ open # {}
  /\ open' = {}
  /\ UNCHANGED <<trades, phase, filter, cursor, seen, visible>>

----------------------------------------------------------------------------
(* ListPaginated *)

PageLimit(n) == IF n <= 0 \/ n > MaxLimit THEN DefaultLimit ELSE n

\* The cursor's time alone decides.
Below_TimeOnly(t, c) == c = NoCursor \/ t.at < c.at

\* A comparison column by column.
Below_EitherColumn(t, c) == c = NoCursor \/ t.at < c.at \/ t.id < c.id

\* (executed_at, id) < the pair in the cursor.
Below(t, c) == c = NoCursor \/ Newer(c, t)

\* The WHERE clause of the filter.
Matching(f) == {t \in trades : f \subseteq t.keys}

\* LIMIT n.
First(S, n) == {t \in S : Cardinality({x \in S : Newer(x, t)}) < n}

\* The rows in the order of the query.
Ordered(S) ==
  CHOOSE q \in [1..Cardinality(S) -> S] :
    \A i, j \in 1..Cardinality(S) : i < j => Newer(q[i], q[j])

\* The cursor is the pair of the last row of the page; its time is formatted
\* with all the digits the column keeps, so reading it back loses nothing.
CursorOf(page) ==
  LET last == page[Len(page)] IN [at |-> last.at, id |-> last.id]

\* A next_cursor on every page, also on the last one.
ListPaginated_AlwaysMore(f, n) ==
  LET page == Ordered(First({t \in Matching(f) : Below(t, cursor)}, PageLimit(n)))
  IN  /\ seen' = seen \o page
      /\ cursor' = IF page = <<>> THEN cursor ELSE CursorOf(page)
      /\ phase' = "paging"

\* One request: limit + 1 rows are fetched, to know whether there are more.
ListPaginated(f, n) ==
  LET limit == PageLimit(n)
      rows  == First({t \in Matching(f) : Below(t, cursor)}, limit + 1)
      page  == Ordered(First(rows, limit))
      more  == Cardinality(rows) > limit
  IN  /\ seen' = seen \o page
      /\ cursor' = IF more THEN CursorOf(page) ELSE NoCursor
      /\ phase' = IF more THEN "paging" ELSE "done"

----------------------------------------------------------------------------
(* Client *)

FirstPage ==
  /\ phase = "idle"
  /\ \E f \in SUBSET Keys, n \in RawLimits :
       /\ filter' = f
       /\ visible' = Matching(f)
       /\ ListPaginated(f, n)
  /\ UNCHANGED <<trades, open>>

\* The same filter with next_cursor, until there is none. A limit of its own
\* may go with each request; one that fails is made again.
NextPage ==
  /\ phase = "paging"
  /\ \E n \in RawLimits : ListPaginated(filter, n)
  /\ UNCHANGED <<trades, open, filter, visible>>

----------------------------------------------------------------------------

Init ==
  /\ trades = {} /\ open = {}
  /\ phase = "idle" /\ filter = {} /\ cursor = NoCursor
  /\ seen = <<>> /\ visible = {}

Next ==
  \/ \E t \in Trade : Insert(t)
  \/ Commit \/ Rollback \/ FirstPage \/ NextPage

\* A client that has started follows next_cursor to the end.
Spec == Init /\ [][Next]_vars /\ WF_vars(NextPage)

----------------------------------------------------------------------------
(* Properties *)

\* Across all the pages the trades come newest first and none twice, whatever
\* is committed between two requests.
PagesDescend ==
  \A i, j \in DOMAIN seen : i < j => Newer(seen[i], seen[j])

\* No trade is skipped: when the last page has been read, every matching trade
\* that was committed when the client asked for the first one has been
\* returned, ties of executed_at at a page boundary included.
ListingComplete ==
  phase = "done" => visible \subseteq {seen[i] : i \in DOMAIN seen}

\* The listing ends while trades keep being committed.
ListingEnds == phase = "paging" ~> phase = "done"
=============================================================================
