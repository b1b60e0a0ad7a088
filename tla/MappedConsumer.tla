---- MODULE MappedConsumer ----
(* DataBentoMappedConsumer: the recording is a list of files, mapped into memory one
   after the other; records that are not market-by-order messages are skipped.

   A file is [kind, records]: "regular" with its records, each "Mbo" or another type;
   "missing" when it cannot be opened; "unmappable" when mmap fails for it, and
   "empty", which is unmappable and has no size.  The state is a record
     next  = current_file_index_, counted from 1,
     base  = mmap_base_: the number of a file, Unmapped (nullptr) or Failed (MAP_FAILED),
     sized = whether mapped_size_ is positive,
     at    = the records before current_ptr_ in the file it last pointed into, or
             NoPointer when it has never been set. *)
EXTENDS Integers, Sequences, SequencesExt

Unmapped == 0
Failed == -1
NoPointer == -1

\* unmap_current, which leaves a failed mapping as it is.
UnmappedCurrent(m) == IF m.base = Failed THEN m ELSE [m EXCEPT !.base = Unmapped]

OpenNextButLast(files, m) ==
  IF m.next >= Len(files) /\ m.next > 1 THEN UnmappedCurrent(m)
  ELSE [next |-> m.next + 1, base |-> m.next, sized |-> TRUE, at |-> 0]

\* open_next_file
OpenNextFile(files, m) ==
  LET u == UnmappedCurrent(m)
  IN  IF m.next > Len(files) THEN u
      ELSE LET kind == files[m.next].kind
           IN  CASE kind = "regular" -> [next |-> m.next + 1, base |-> m.next, sized |-> TRUE, at |-> 0]
                 [] kind = "missing" -> [u EXCEPT !.next = @ + 1]
                 [] OTHER -> [m EXCEPT !.next = @ + 1, !.base = Failed, !.sized = kind # "empty"]

\* The constructor.
Opened(files) ==
  OpenNextFile(files, [next |-> 1, base |-> Unmapped, sized |-> FALSE, at |-> NoPointer])

---------------------------------------------------------------------------
\* What the loop of try_poll finds.  Past a failed mapping: MAP_FAILED is the highest
\* address, to which a size is added, so that every pointer seems to be behind it.
AtEof(m) == m.base = Unmapped
AtFileEnd(files, m) == \/ m.base \in DOMAIN files /\ m.at = Len(files[m.base].records)
                       \/ m.base = Failed /\ m.sized /\ m.at # NoPointer
AtRecord(files, m) == m.base \in DOMAIN files /\ m.at < Len(files[m.base].records)

\* The pointer is null or has been left in a file that is not mapped any more.
AtNoMemory(m) == m.base = Failed /\ ~(m.sized /\ m.at # NoPointer)

IsMbo(record) == record = "Mbo"

MboCount(records) == Cardinality({k \in DOMAIN records : IsMbo(records[k])})

\* What a list of files holds for the engine.
MboIn(file) == IF file.kind = "regular" THEN MboCount(file.records) ELSE 0
Recorded(files) == FoldLeft(LAMBDA n, file : n + MboIn(file), 0, files)

\* The place in the recording of the record that is read next.
NumberAt(files, m) ==
  Recorded(SubSeq(files, 1, m.base - 1)) + MboCount(SubSeq(files[m.base].records, 1, m.at + 1))
====
