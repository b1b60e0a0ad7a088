---- MODULE DataConsumers ----
(* The two consumers the simulation engine can be built with: over shared memory
   (IpcFeed) or over mapped files.  With the files there is no other process; the
   engine polls until the empty message. *)
EXTENDS IpcFeed, MappedConsumer

CONSTANTS FileLists  \* the lists of files the engine may be started on

FileType == [kind : {"regular", "missing", "unmappable", "empty"}, records : Seq(STRING)]

\* The engine is not started without a file.
ASSUME FileAssumption == FileLists \subseteq Seq(FileType) \ {<<>>}

VARIABLES files,   \* filepaths_ and what they lead to; none for shared memory
          mapping  \* the state of the mapped consumer

allVars == <<vars, files, mapping>>

NoMapping == [next |-> 1, base |-> Unmapped, sized |-> FALSE, at |-> NoPointer]

InitShared == Init /\ files = <<>> /\ mapping = NoMapping

InitMapped == /\ named = FALSE /\ sized = FALSE /\ magic = FALSE /\ ring = <<>>
              /\ producer = "exit" /\ sent = 0
              /\ consumer = "read" /\ received = <<>>
              /\ files \in FileLists
              /\ mapping = Opened(files)

---------------------------------------------------------------------------
Reads == consumer = "read" /\ UNCHANGED <<segment, producer, sent, files>>

\* The loop of try_poll, a turn at a time, and the engine's answer to what it returns.
ReadRecord ==
  /\ Reads /\ AtRecord(files, mapping)
  /\ mapping' = [mapping EXCEPT !.at = @ + 1]
  /\ received' = IF IsMbo(files[mapping.base].records[mapping.at + 1])
                 THEN Append(received, NumberAt(files, mapping)) ELSE received
  /\ UNCHANGED consumer

ReadNextFile == /\ Reads /\ AtFileEnd(files, mapping)
                /\ mapping' = OpenNextFile(files, mapping)
                /\ UNCHANGED <<consumer, received>>

ReadEof == /\ Reads /\ AtEof(mapping)
           /\ consumer' = "exit"
           /\ UNCHANGED <<mapping, received>>

\* The program is stopped by a read where nothing is mapped.
ReadNoMemory == /\ Reads /\ AtNoMemory(mapping)
                /\ consumer' = "crash"
                /\ UNCHANGED <<mapping, received>>

Mapped == ReadRecord \/ ReadNextFile \/ ReadEof \/ ReadNoMemory

EitherInit == InitShared \/ InitMapped
EitherNext == Mapped \/ (Next /\ UNCHANGED <<files, mapping>>)

EitherSpec == /\ EitherInit /\ [][EitherNext]_allVars
              /\ WF_vars(Producer) /\ WF_vars(Consumer) /\ WF_allVars(Mapped)

---------------------------------------------------------------------------
RecordingLength == IF files = <<>> THEN NumMsgs ELSE Recorded(files)

IsKind(k, kind) == files[k].kind = kind

(* The engine ends its run only after the whole recording, from either consumer.
   With files there is one way to end early, and only this one: a file that cannot
   be opened, right after one that was mapped, is taken for the end of them all
   (DataBentoMappedConsumer.cpp:39). *)
EndIsAfterData ==
  consumer \in {"unlink", "exit"} =>
    \/ Len(received) = RecordingLength
    \/ \E k \in DOMAIN files : IsKind(k, "missing") /\ (k > 1 => IsKind(k - 1, "regular"))

(* Every message of the recording reaches the engine, however small the ring; from
   files, unless one of them cannot be mapped, and the run ends then. *)
AllDelivered ==
  <>(\/ Len(received) = RecordingLength /\ (files # <<>> => consumer = "exit")
     \/ \E k \in DOMAIN files : ~IsKind(k, "regular"))
====
