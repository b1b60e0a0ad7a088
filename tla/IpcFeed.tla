---- MODULE IpcFeed ----
(* The feed between two processes: DataBentoProducer writes the recorded messages
   into a ring in shared memory, the back test engine reads them until the end
   marker (an all-zero message).  The ring is used at the level SharedRingBuffer
   is proved to implement, BoundedFifo: push and pop are single steps.

   The messages of the recording are the numbers 1..NumMsgs. *)
EXTENDS Naturals, Sequences

CONSTANTS NumMsgs,   \* messages in the recording
          Bound,     \* messages the ring holds: RING_BUFFER_SIZE - 1
          Leftovers  \* what an earlier run may have left in a ring never unlinked

ASSUME FeedAssumption == NumMsgs \in Nat /\ Bound \in Nat \ {0}

EndOfData == 0
Stale == NumMsgs + 1  \* a message of an earlier run

VARIABLES named,    \* the name "test_shm" exists
          sized,    \* the segment has been given its size
          magic,    \* the ring's magic number is set
          ring,     \* the messages in the ring
          producer, \* what the producer does next
          sent,     \* messages the producer has pushed
          consumer, \* what the consumer does next
          received  \* what the consumer has been given

segment == <<named, sized, magic, ring>>
vars == <<named, sized, magic, ring, producer, sent, consumer, received>>

\* The name is unknown, or an earlier run has left its segment behind.
Init == /\ \/ named = FALSE /\ sized = FALSE /\ magic = FALSE /\ ring = <<>>
           \/ named = TRUE /\ sized = TRUE /\ magic = TRUE /\ ring \in Leftovers
        /\ producer = "open" /\ sent = 0
        /\ consumer = "open" /\ received = <<>>

---------------------------------------------------------------------------
\* shm_open with O_CREAT, without O_EXCL: an existing segment is taken as it is.
ProducerOpen == /\ producer = "open"
                /\ producer' = "truncate"
                /\ named' = TRUE
                /\ sized' = (named /\ sized)
                /\ magic' = (named /\ magic)
                /\ ring' = IF named THEN ring ELSE <<>>
                /\ UNCHANGED <<sent, consumer, received>>

ProducerTruncate == /\ producer = "truncate"
                    /\ producer' = "reset"
                    /\ sized' = TRUE
                    /\ UNCHANGED <<named, magic, ring, sent, consumer, received>>

\* The placement new: the members are initialised, then the magic number is stored.
ProducerReset == /\ producer = "reset"
                 /\ producer' = "construct"
                 /\ ring' = <<>>
                 /\ magic' = FALSE
                 /\ UNCHANGED <<named, sized, sent, consumer, received>>

ProducerConstruct == /\ producer = "construct"
                     /\ producer' = "push"
                     /\ magic' = TRUE
                     /\ UNCHANGED <<named, sized, ring, sent, consumer, received>>

ProducerPushOnce == /\ producer = "push" /\ sent < NumMsgs
                    /\ sent' = sent + 1
                    /\ ring' = IF Len(ring) < Bound THEN Append(ring, sent + 1) ELSE ring
                    /\ UNCHANGED <<named, sized, magic, producer, consumer, received>>

\* A push of the loop over the records: it is tried until it succeeds.
ProducerPush == /\ producer = "push" /\ sent < NumMsgs
                /\ Len(ring) < Bound
                /\ ring' = Append(ring, sent + 1)
                /\ sent' = sent + 1
                /\ UNCHANGED <<named, sized, magic, producer, consumer, received>>

ProducerDataDone == /\ producer = "push" /\ sent = NumMsgs
                    /\ producer' = "end"
                    /\ UNCHANGED <<segment, sent, consumer, received>>

\* writer_.push(MboMsg{}): one attempt, whose result is ignored.
ProducerSignalEnd == /\ producer = "end"
                     /\ producer' = "exit"
                     /\ ring' = IF Len(ring) < Bound THEN Append(ring, EndOfData) ELSE ring
                     /\ UNCHANGED <<named, sized, magic, sent, consumer, received>>

---------------------------------------------------------------------------
\* The consumer opens the name and retries until the segment has its size.
ConsumerOpen == /\ consumer = "open"
                /\ named /\ sized
                /\ consumer' = "wait"
                /\ UNCHANGED <<segment, producer, sent, received>>

ConsumerWaitSkipped == /\ consumer = "wait"
                       /\ consumer' = "poll"
                       /\ UNCHANGED <<segment, producer, sent, received>>

\* while (!reader.is_initialized())
ConsumerWait == /\ consumer = "wait"
                /\ magic
                /\ consumer' = "poll"
                /\ UNCHANGED <<segment, producer, sent, received>>

ConsumerPollOn == /\ consumer = "poll" /\ ring # <<>>
                  /\ ring' = Tail(ring)
                  /\ received' = IF Head(ring) = EndOfData THEN received
                                 ELSE Append(received, Head(ring))
                  /\ UNCHANGED <<named, sized, magic, producer, sent, consumer>>

\* try_poll, and what the engine's loop does with an empty message.
ConsumerPoll == /\ consumer = "poll" /\ ring # <<>>
                /\ ring' = Tail(ring)
                /\ IF Head(ring) = EndOfData
                   THEN consumer' = "unlink" /\ UNCHANGED received
                   ELSE received' = Append(received, Head(ring)) /\ UNCHANGED consumer
                /\ UNCHANGED <<named, sized, magic, producer, sent>>

ConsumerUnlink == /\ consumer = "unlink"
                  /\ consumer' = "exit"
                  /\ named' = FALSE
                  /\ UNCHANGED <<sized, magic, ring, producer, sent, received>>

---------------------------------------------------------------------------
Producer == \/ ProducerOpen \/ ProducerTruncate \/ ProducerReset \/ ProducerConstruct
            \/ ProducerPush \/ ProducerDataDone \/ ProducerSignalEnd

Consumer == ConsumerOpen \/ ConsumerWait \/ ConsumerPoll \/ ConsumerUnlink

\* Both processes are in endless polling loops when they cannot proceed: a state in
\* which neither can take a step is one in which they spin.
Next == Producer \/ Consumer

Spec == Init /\ [][Next]_vars

\* The operating system keeps scheduling both processes.
FairSpec == Spec /\ WF_vars(Producer) /\ WF_vars(Consumer)

---------------------------------------------------------------------------
(* What the engine has been given is the beginning of the recording: nothing is
   skipped, repeated or reordered when the ring fills up and the producer has to
   retry (DataBentoProducer.cpp:17). *)
ReceivesRecording == \A k \in 1..Len(received) : received[k] = k

(* The engine reads from the ring only once this producer has constructed it
   ("spin while producer creates shm"). *)
PollsConstructedRing == consumer = "poll" => producer \in {"push", "end", "exit"}

(* When the end marker has found room, the run ends and the segment is removed;
   what happens when it has not is EngineEnds. *)
MarkerEndsRun == (producer = "exit" /\ ring # <<>> /\ ring[Len(ring)] = EndOfData)
                   ~> (consumer = "exit" /\ ~named)

(* "signal end of data": the engine's loop ends after the last message.  The one
   push of the marker is not retried, so a full ring loses it and the engine
   polls for ever. *)
EngineEnds == <>(consumer = "exit")
====
