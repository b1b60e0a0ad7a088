---- MODULE FlatHashMap ----
(* The open-addressing hash map from ids to indices
   (Common/Containers/FlatHashMap.h).  A map is a function from the buckets to
   Unoccupied or an entry [key, value].  Linear probing stops at the first bucket
   that is unoccupied or holds the key, so an erase has to move the entries
   behind the freed bucket closer to their homes (rehash_cluster).

   Keys are below 2^33, where the bit mixer of hash() is the identity. *)
EXTENDS Integers, FiniteSetsExt

CONSTANT MapCapacity \* a power of two in the code, so that & is a modulo

Buckets == 0..(MapCapacity - 1)
Unoccupied == [key |-> 0, value |-> -1]
NotFound == -1

EmptyMap == [b \in Buckets |-> Unoccupied]

Occupied(map, b) == map[b] # Unoccupied

\* The bucket looked at in step i of the search for a key.
ProbeAt(key, i) == (key + i) % MapCapacity

\* The steps at which the search ends: at the key or at an unoccupied bucket.
Ends(map, key) ==
  {i \in Buckets : ~Occupied(map, ProbeAt(key, i)) \/ map[ProbeAt(key, i)].key = key}

\* The bucket the search ends at; there is none for a new key in a full map.
BucketOf(map, key) == ProbeAt(key, Min(Ends(map, key)))

\* insert(key, value): does nothing in a full map, where the code returns false.
Insert(map, key, value) ==
  LET ends == Ends(map, key)
  IN  IF ends = {} THEN map
      ELSE [map EXCEPT ![ProbeAt(key, Min(ends))] = [key |-> key, value |-> value]]

\* find(key)
Find(map, key) ==
  LET ends == Ends(map, key)
  IN  IF ends = {} THEN NotFound ELSE map[ProbeAt(key, Min(ends))].value

\* An erase that leaves the entries behind it where they are.
EraseInPlace(map, key) ==
  IF Find(map, key) = NotFound THEN map
  ELSE [map EXCEPT ![BucketOf(map, key)] = Unoccupied]

\* rehash_cluster: every entry from the bucket after `start` up to the first
\* unoccupied one is taken out and inserted again.
RehashCluster(map, start) ==
  LET upto[i \in 0..(MapCapacity - 1)] ==
        LET w == upto[i - 1]
            b == (start + i) % MapCapacity
        IN  IF i = 0 THEN [map |-> map, done |-> FALSE]
            ELSE IF w.done \/ ~Occupied(w.map, b) THEN [w EXCEPT !.done = TRUE]
            ELSE [w EXCEPT !.map = Insert([w.map EXCEPT ![b] = Unoccupied],
                                          w.map[b].key, w.map[b].value)]
  IN  upto[MapCapacity - 1].map

\* erase(key)
Erase(map, key) ==
  IF Find(map, key) = NotFound THEN map
  ELSE RehashCluster([map EXCEPT ![BucketOf(map, key)] = Unoccupied], BucketOf(map, key))
====
