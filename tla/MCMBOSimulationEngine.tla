---- MODULE MCMBOSimulationEngine ----
EXTENDS MBOSimulationEngine

Quote1(id, side, price, size) == [order_id |-> id, side |-> side, price |-> price, size |-> size]

SmallMarket == {Quote1(1, "Bid", 10, 1), Quote1(1, "Bid", 12, 2), Quote1(2, "Ask", 14, 2)}
====
