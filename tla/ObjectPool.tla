---- MODULE ObjectPool ----
(* A pool of a fixed number of objects (Common/Containers/ObjectPool.h), by its
   stack of free indices: the objects themselves belong to whoever allocated
   them. *)
EXTENDS Integers, Sequences, SequencesExt

CONSTANT PoolCapacity

Indices == 0..(PoolCapacity - 1)

\* The stack hands out 0, 1, 2, ... at first.
AllFree == [k \in 1..PoolCapacity |-> PoolCapacity - k]

Exhausted(free) == free = <<>>

\* allocate(): the index handed out, and the stack after it.
Allocated(free) == Last(free)
AfterAllocate(free) == Front(free)

\* deallocate(index), which checks nothing.
AfterDeallocate(free, index) == Append(free, index)
====
