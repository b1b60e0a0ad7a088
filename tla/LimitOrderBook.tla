---- MODULE LimitOrderBook ----
(* The market's limit order book as its users see it: what LimitOrderBookConcept
   asks of the three implementations, for a feed that adds an order once and
   cancels no more of it than there is.  Time priority inside a level is not
   observable through the concept, so a book is a function from the market's
   order ids to the orders that rest. *)
EXTENDS Integers, FiniteSets, FiniteSetsExt

EmptyBook == [id \in {} |-> 0]

\* add_order
AddOrder(book, m) ==
  [id \in DOMAIN book \cup {m.order_id} |->
     IF id = m.order_id THEN [side |-> m.side, price |-> m.price, size |-> m.size]
     ELSE book[id]]

\* modify_order: an order that is not there is added; the side does not change.
ModifyOrder(book, m) ==
  IF m.order_id \notin DOMAIN book THEN AddOrder(book, m)
  ELSE [book EXCEPT ![m.order_id].price = m.price, ![m.order_id].size = m.size]

CancelKeepsEmpty(book, m) ==
  [book EXCEPT ![m.order_id].size = IF @ < m.size THEN 0 ELSE @ - m.size]

\* cancel_order: `size` is what is taken away, and an order without size is gone.
CancelBookOrder(book, m) ==
  LET left == book[m.order_id].size - m.size
  IN  IF left = 0 THEN [id \in DOMAIN book \ {m.order_id} |-> book[id]]
      ELSE [book EXCEPT ![m.order_id].size = left]

\* update_book
UpdateBook(book, m) ==
  CASE m.action = "Add"    -> AddOrder(book, m)
    [] m.action = "Modify" -> ModifyOrder(book, m)
    [] m.action = "Cancel" -> CancelBookOrder(book, m)
    [] m.action = "Clear"  -> EmptyBook

Resting(book, side) == {id \in DOMAIN book : book[id].side = side}

\* get_bbo: the best price of a side, or 0 where the code says kUndefPrice.
Best(book, side) ==
  LET prices == {book[id].price : id \in Resting(book, side)}
  IN  IF prices = {} THEN 0 ELSE IF side = "Bid" THEN Max(prices) ELSE Min(prices)

\* get_level_qty
LevelQty(book, side, price) ==
  MapThenSumSet(LAMBDA id : book[id].size,
                {id \in Resting(book, side) : book[id].price = price})
====
