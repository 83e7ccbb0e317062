---------------------------- MODULE HeaderQueue ----------------------------
(***************************************************************************)
(* One header queue, the thread that pushes into it and the thread that    *)
(* consumes it, in the steps in which the code touches shared memory.      *)
(*                                                                         *)
(* Producers are m2m_post_remote_msg (send_recv.c) and the routing thread  *)
(* when it forwards (route_processor.c); consumers are m2m_get_local_msg   *)
(* and the routing thread.  All four follow the same protocol:             *)
(*                                                                         *)
(*   push     spin while (producer+1)%4 = consumer, copy the header,       *)
(*            spin while (producer+2)%4 = consumer, copy the payload,      *)
(*            producer += 2;                                               *)
(*   consume  wait for producer # consumer, copy both entries,             *)
(*            consumer += 2, and THEN read the header once more, through   *)
(*            the pointer taken before (arrival time, SenderID).           *)
(*                                                                         *)
(* A queue from an application is synchronous: its sender pushes the next  *)
(* message only after it has been signalled, and the signal follows the    *)
(* second read.  A queue from a routing thread is not.  A behaviour is     *)
(* about one of the two kinds.                                             *)
(***************************************************************************)
EXTENDS HeaderQueueOps, Sequences

CONSTANTS Message,       \* the messages that may be pushed
          MaxMessages    \* bound: how many pushes a behaviour has

ASSUME MessagesAssumption == MaxMessages \in Nat

VARIABLES q,             \* the queue in the shared segment
          synchronous,   \* is the producer an application?
          ppc,           \* where the producer is
          msg,           \* the message it is pushing
          pushes,        \* how many it has begun
          waiting,       \* is it waiting for its control flag?
          cpc,           \* where the consumer is
          hptr,          \* its header pointer (localHQe_ptr, FROM_packet)
          got,           \* the header and the payload it copied
          taken          \* everything it copied so far, in order

pushing == <<ppc, msg, pushes>>
consuming == <<cpc, hptr, got, taken>>
vars == <<q, synchronous, waiting, pushing, consuming>>

Header(m) == [kind |-> "header", msg |-> m]
Payload(m) == [kind |-> "payload", msg |-> m]

Entry == {Blank} \cup {Header(m) : m \in Message} \cup {Payload(m) : m \in Message}

Init == /\ synchronous \in BOOLEAN
        /\ q = ResetQueue([i \in Index |-> Blank])
        /\ ppc = "idle"
        /\ msg \in Message
        /\ pushes = 0
        /\ waiting = FALSE
        /\ cpc = "idle"
        /\ hptr = 0
        /\ got = <<Blank, Blank>>
        /\ taken = << >>
-----------------------------------------------------------------------------
(* The producer. *)

\* A message is ready to be pushed.
Begin == /\ ppc = "idle"
         /\ ~waiting
         /\ pushes < MaxMessages
         /\ msg' \in Message
         /\ pushes' = pushes + 1
         /\ ppc' = "header"
         /\ UNCHANGED <<q, synchronous, waiting, consuming>>

CopyHeader == /\ ppc = "header"
              /\ ~NoHeaderEntry(q)
              /\ q' = PutHeader(q, Header(msg))
              /\ ppc' = "payload"
              /\ UNCHANGED <<synchronous, waiting, msg, pushes, consuming>>

\* Broken variant: the second spin loop is missing.
CopyPayloadNoWait == /\ ppc = "payload"
                     /\ q' = PutPayload(q, Payload(msg))
                     /\ ppc' = "publish"
                     /\ UNCHANGED <<synchronous, waiting, msg, pushes, consuming>>

CopyPayload == /\ ppc = "payload"
               /\ ~NoPayloadEntry(q)
               /\ q' = PutPayload(q, Payload(msg))
               /\ ppc' = "publish"
               /\ UNCHANGED <<synchronous, waiting, msg, pushes, consuming>>

\* Broken variant: an application does not wait to be signalled.
PublishNoWait == /\ ppc = "publish"
                 /\ q' = Published(q)
                 /\ ppc' = "idle"
                 /\ UNCHANGED <<synchronous, waiting, msg, pushes, consuming>>

\* An application has set its dataflag to 77 before this step and spins on it
\* after; a routing thread goes on.
Publish == /\ ppc = "publish"
           /\ q' = Published(q)
           /\ waiting' = synchronous
           /\ ppc' = "idle"
           /\ UNCHANGED <<synchronous, msg, pushes, consuming>>
-----------------------------------------------------------------------------
(* The consumer. *)

\* producer # consumer: the header pointer is taken.
Poll == /\ cpc = "idle"
        /\ ~Empty(q)
        /\ hptr' = q.consumer
        /\ cpc' = "copy"
        /\ UNCHANGED <<q, synchronous, waiting, pushing, got, taken>>

Copy == /\ cpc = "copy"
        /\ got' = <<q.entry[hptr], HeadPayload(q)>>
        /\ cpc' = "release"
        /\ UNCHANGED <<q, synchronous, waiting, pushing, hptr, taken>>

Release == /\ cpc = "release"
           /\ q' = Released(q)
           /\ taken' = Append(taken, <<got[1].msg, got[2].msg>>)
           /\ cpc' = "late"
           /\ UNCHANGED <<synchronous, waiting, pushing, hptr, got>>

\* The header is read again, after consumer += 2; the sender it names is
\* signalled.
LateRead == /\ cpc = "late"
            /\ waiting' = FALSE
            /\ cpc' = "idle"
            /\ UNCHANGED <<q, synchronous, pushing, hptr, got, taken>>

Producer == Begin \/ CopyHeader \/ CopyPayload \/ Publish
Consumer == Poll \/ Copy \/ Release \/ LateRead
Next == Producer \/ Consumer

Spec == Init /\ [][Next]_vars

\* Both spin loops are threads the host schedules.
FairSpec == Spec /\ WF_vars(CopyHeader \/ CopyPayload \/ Publish) /\ WF_vars(Consumer)
-----------------------------------------------------------------------------
(* What the queue promises. *)

\* Every variable has its type.
TypeOK == /\ q \in Queue(Entry)
          /\ synchronous \in BOOLEAN
          /\ ppc \in {"idle", "header", "payload", "publish"}
          /\ msg \in Message
          /\ pushes \in 0 .. MaxMessages
          /\ waiting \in BOOLEAN
          /\ cpc \in {"idle", "copy", "release", "late"}
          /\ hptr \in Index
          /\ got \in Entry \X Entry
          /\ taken \in Seq(Message \X Message)

\* Between the poll and consumer += 2 the producer never writes one of the two
\* entries the consumer reads, although it copies the header of its next
\* message before it knows that there is room for it (send_recv.c:307-318,
\* route_processor.c:580-585).  This is what lets each memcpy be one step.
ExclusiveEntries ==
    cpc \in {"copy", "release"} =>
        LET mine == {q.consumer, PayloadOf(q.consumer)}
        IN  /\ hptr = q.consumer
            /\ ppc = "header" => q.producer \notin mine
            /\ ppc = "payload" /\ ~NoPayloadEntry(q) => PayloadOf(q.producer) \notin mine
            /\ q.entry[hptr].kind = "header"

\* The header and the payload that are consumed together were pushed together
\* (send_recv.c:449-471, route_processor.c:466-479).
WholeMessages == \A i \in 1 .. Len(taken) : taken[i][1] = taken[i][2]

\* The second read of the header, after consumer += 2 (send_recv.c:471 and
\* 516, route_processor.c:478 and 494, 591 and 603), still finds the header of
\* the message that was consumed, unless the producer has published one more
\* message since and copied the header of another; a producer that waits for
\* its signal never does.
LateReadOwnHeader ==
    cpc = "late" =>
        \/ q.entry[hptr] = got[1]
        \/ /\ ~synchronous
           /\ ~Empty(q)
           /\ ppc = "payload"

\* The queue is a FIFO channel of one message: of its four entries two are
\* never used at a time.
Channel == INSTANCE Mailbox WITH
    Message  <- {<<m, m>> : m \in Message},
    Capacity <- 1,
    box      <- IF Empty(q) THEN << >> ELSE <<<<HeadHeader(q).msg, HeadPayload(q).msg>>>>

\* The code's ring of entries implements the channel.
ImplementsChannel == Channel!Spec

\* A push that has begun ends: neither spin loop waits for ever
\* (send_recv.c:307, 316).
PushEnds == (ppc = "header") ~> (ppc = "idle")
=============================================================================
