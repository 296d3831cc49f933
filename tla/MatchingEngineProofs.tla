------------------------ MODULE MatchingEngineProofs ------------------------
(***************************************************************************)
(* Facts about the operators of the matching engine, wherever it is used.  *)
(***************************************************************************)
EXTENDS MatchingEngine, SequenceTheorems, TLAPS

----------------------------------------------------------------------------
(* Facts about the operators *)

\* A list without its element at i: every other element, in the same order.
LEMMA CutFacts ==
  ASSUME NEW S, NEW list \in Seq(S), NEW i \in DOMAIN list
  PROVE  LET t == SubSeq(list, 1, i - 1) \o SubSeq(list, i + 1, Len(list)) IN
         /\ t \in Seq(S)
         /\ DOMAIN t = 1..(Len(list) - 1)
         /\ \A j \in DOMAIN t : /\ t[j] = list[IF j < i THEN j ELSE j + 1]
                               /\ (IF j < i THEN j ELSE j + 1) \in DOMAIN list
<1> DEFINE a == SubSeq(list, 1, i - 1)
           b == SubSeq(list, i + 1, Len(list))
<1>1. /\ Len(list) \in Nat /\ i \in 1..Len(list) /\ DOMAIN list = 1..Len(list)
      /\ \A j \in 1..Len(list) : list[j] \in S
  BY LenProperties, ElementOfSeq
<1>2. /\ a \in Seq(S) /\ Len(a) = i - 1
      /\ \A j \in 1..(i - 1) : a[j] = list[j]
  <2>1. \A j \in 1..(i - 1) : list[j] \in S
    BY <1>1
  <2> QED  BY <1>1, <2>1, SubSeqProperties
<1>3. /\ b \in Seq(S) /\ Len(b) = Len(list) - i
      /\ \A j \in 1..(Len(list) - i) : b[j] = list[i + j]
  <2>1. \A j \in (i + 1)..Len(list) : list[j] \in S
    BY <1>1
  <2> QED  BY <1>1, <2>1, SubSeqProperties
<1> HIDE DEF a, b
<1>4. /\ a \o b \in Seq(S) /\ Len(a \o b) = Len(list) - 1
      /\ \A j \in 1..(Len(list) - 1) :
           (a \o b)[j] = IF j <= i - 1 THEN a[j] ELSE b[j - (i - 1)]
  <2>1. /\ a \o b \in Seq(S) /\ Len(a \o b) = Len(a) + Len(b)
        /\ \A j \in 1..(Len(a) + Len(b)) :
             (a \o b)[j] = IF j <= Len(a) THEN a[j] ELSE b[j - Len(a)]
    BY <1>2, <1>3, ConcatProperties, Zenon
  <2> QED  BY <1>1, <1>2, <1>3, <2>1, SMTT(30)
<1>5. DOMAIN (a \o b) = 1..(Len(list) - 1)
  BY <1>4, LenProperties
<1>6. \A j \in 1..(Len(list) - 1) :
        (a \o b)[j] = list[IF j < i THEN j ELSE j + 1]
  <2> TAKE j \in 1..(Len(list) - 1)
  <2>1. CASE j < i
    <3>1. j \in 1..(i - 1) /\ j <= i - 1
      BY <1>1, <2>1
    <3> QED  BY <1>2, <1>4, <2>1, <3>1
  <2>2. CASE ~(j < i)
    <3>1. /\ j - (i - 1) \in 1..(Len(list) - i) /\ ~(j <= i - 1)
          /\ i + (j - (i - 1)) = j + 1
      BY <1>1, <2>2
    <3>2. b[j - (i - 1)] = list[j + 1]
      BY <1>3, <3>1
    <3> QED  BY <1>4, <2>2, <3>1, <3>2
  <2> QED  BY <2>1, <2>2
<1>7. \A j \in 1..(Len(list) - 1) : (IF j < i THEN j ELSE j + 1) \in DOMAIN list
  BY <1>1
<1> QED  BY <1>4, <1>5, <1>6, <1>7 DEF a, b

\* What container/list Remove leaves of a list without repetitions.
LEMMA RemoveElemFacts ==
  ASSUME NEW S, NEW list \in Seq(S), NEW i \in DOMAIN list,
         \A j \in DOMAIN list : list[j] = list[i] => j = i
  PROVE  LET t == RemoveElem(list, list[i]) IN
         /\ t \in Seq(S)
         /\ DOMAIN t = 1..(Len(list) - 1)
         /\ \A j \in DOMAIN t : t[j] = list[IF j < i THEN j ELSE j + 1]
<1>1. RemoveElem(list, list[i])
        = SubSeq(list, 1, i - 1) \o SubSeq(list, i + 1, Len(list))
  <2>1. (CHOOSE j \in DOMAIN list : list[j] = list[i]) = i
    OBVIOUS
  <2> QED  BY <2>1 DEF RemoveElem
<1> DEFINE t == SubSeq(list, 1, i - 1) \o SubSeq(list, i + 1, Len(list))
<1>2. /\ t \in Seq(S) /\ DOMAIN t = 1..(Len(list) - 1)
      /\ \A j \in DOMAIN t : t[j] = list[IF j < i THEN j ELSE j + 1]
  BY CutFacts
<1> HIDE DEF t
<1> QED  BY <1>1, <1>2 DEF t

\* What it leaves of any list.
LEMMA RemoveElemType ==
  ASSUME NEW S, NEW list \in Seq(S), NEW r
  PROVE  LET t == RemoveElem(list, r) IN
         t \in Seq(S) /\ \A j \in DOMAIN t : \E k \in DOMAIN list : t[j] = list[k]
<1>1. CASE ~\E i \in DOMAIN list : list[i] = r
  <2>1. RemoveElem(list, r) = list
    BY <1>1 DEF RemoveElem
  <2> QED  BY <2>1
<1>2. CASE \E i \in DOMAIN list : list[i] = r
  <2>1. PICK i \in DOMAIN list : i = CHOOSE j \in DOMAIN list : list[j] = r
    BY <1>2
  <2> DEFINE t == SubSeq(list, 1, i - 1) \o SubSeq(list, i + 1, Len(list))
  <2>2. RemoveElem(list, r) = t
    BY <1>2, <2>1 DEF RemoveElem
  <2>3. /\ t \in Seq(S)
        /\ \A j \in DOMAIN t : /\ t[j] = list[IF j < i THEN j ELSE j + 1]
                              /\ (IF j < i THEN j ELSE j + 1) \in DOMAIN list
    BY CutFacts
  <2> HIDE DEF t
  <2>4. \A j \in DOMAIN t : \E k \in DOMAIN list : t[j] = list[k]
    BY <2>3
  <2> QED  BY <2>2, <2>3, <2>4
<1> QED  BY <1>1, <1>2

\* A fill within the remaining quantity moves filled and status, nothing else.
LEMMA FillFacts ==
  ASSUME NEW o \in Order, NEW q \in Int, CanFill(o, q)
  PROVE  LET n == Fill(o, q) IN
         /\ n \in Order
         /\ n.id = o.id /\ n.user = o.user /\ n.side = o.side
         /\ n.type = o.type /\ n.price = o.price /\ n.quantity = o.quantity
         /\ n.filled = o.filled + q
         /\ n.status = IF n.filled = n.quantity THEN "FILLED"
                                                ELSE "PARTIALLY_FILLED"
<1>1. /\ o = [id |-> o.id, user |-> o.user, side |-> o.side, type |-> o.type,
              price |-> o.price, quantity |-> o.quantity, filled |-> o.filled,
              status |-> o.status]
      /\ o.quantity \in Nat /\ o.filled \in Nat
  BY DEF Order, OrderType
<1>2. Fill(o, q) = [o EXCEPT !.filled = o.filled + q,
                            !.status = IF o.quantity - o.filled = q
                                         THEN "FILLED" ELSE "PARTIALLY_FILLED"]
  BY DEF CanFill, Fill, Remaining
<1>3. o.quantity - o.filled = q <=> o.filled + q = o.quantity
  BY <1>1
<1>4. o.filled + q \in Nat
  BY <1>1 DEF CanFill
<1> QED  BY <1>1, <1>2, <1>3, <1>4 DEF Order, OrderType, Statuses

\* Order.Cancel keeps everything but the status, and leaves a terminal order
\* as it is.
LEMMA CancelOrderFacts ==
  ASSUME NEW o \in Order
  PROVE  LET n == CancelOrder(o) IN
         /\ n \in Order
         /\ n.id = o.id /\ n.user = o.user /\ n.side = o.side
         /\ n.type = o.type /\ n.price = o.price /\ n.quantity = o.quantity
         /\ n.filled = o.filled
         /\ n.status = IF IsDone(o) THEN o.status ELSE "CANCELLED"
BY DEF Order, OrderType, Statuses, CancelOrder, IsDone

\* Truncated division of a non-negative amount.
LEMMA GoDivFacts ==
  ASSUME NEW a \in Nat, NEW b \in Nat \ {0}
  PROVE  /\ GoDiv(a, b) \in Nat
         /\ GoDiv(a, b) * b <= a
         /\ GoDiv(a, b) = 0 => a < b
<1>1. a \div b \in Nat
  OBVIOUS
<1>2. (a \div b) * b <= a
  OBVIOUS
<1>3. a \div b = 0 => a < b
  OBVIOUS
<1> QED  BY <1>1, <1>2, <1>3 DEF GoDiv
=============================================================================
