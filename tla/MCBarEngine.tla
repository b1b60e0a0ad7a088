---- MODULE MCBarEngine ----
EXTENDS BarEngine

\* A rise, a fall within the bar, and a level price: averages cross, touch and part again.
ThreeShapes == {[open |-> 10, close |-> 20], [open |-> 20, close |-> 10], [open |-> 10, close |-> 10]}
====
