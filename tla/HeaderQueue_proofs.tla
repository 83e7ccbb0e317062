------------------------- MODULE HeaderQueue_proofs -------------------------
(***************************************************************************)
(* Proofs about one header queue, for every set of messages and every      *)
(* number of pushes.                                                       *)
(*                                                                         *)
(* The argument: both indices are always 0 or 2, so a push can pass its    *)
(* second spin loop only when the queue is empty, and the one message in   *)
(* the queue is never where the producer writes.                           *)
(***************************************************************************)
EXTENDS HeaderQueue, TLAPS

\* The entries where headers are.
Slot == {0, 2}

\* What is in the queue, and what the producer has put beyond it.
QueueInv ==
    /\ q.producer \in Slot
    /\ q.consumer \in Slot
    /\ ~Empty(q) => \E m \in Message : HeadHeader(q) = Header(m) /\ HeadPayload(q) = Payload(m)
    /\ ppc \in {"payload", "publish"} => q.entry[q.producer] = Header(msg)
    /\ ppc = "publish" => Empty(q) /\ q.entry[PayloadOf(q.producer)] = Payload(msg)

\* Where the consumer is with respect to the queue.
ConsumerInv ==
    /\ hptr \in Slot
    /\ cpc \in {"copy", "release"} => hptr = q.consumer /\ ~Empty(q)
    /\ cpc = "release" => got = <<HeadHeader(q), HeadPayload(q)>>
    /\ cpc = "late" => hptr # q.consumer

\* An application waits exactly while its message is being consumed.
SyncInv ==
    synchronous =>
        /\ waiting <=> ~Empty(q) \/ cpc # "idle"
        /\ waiting => ppc = "idle"
        /\ cpc = "late" => Empty(q)

\* The inductive invariant.
IInv == /\ TypeOK
        /\ QueueInv
        /\ ConsumerInv
        /\ SyncInv
        /\ WholeMessages
        /\ LateReadOwnHeader
-----------------------------------------------------------------------------
(* The index arithmetic. *)

\* Header positions are 0 and 2, their payloads follow them, and an advance
\* leads from one to the other (send_recv.c:324, route_processor.c:478-479).
LEMMA SlotFacts ==
    ASSUME NEW i \in Slot
    PROVE  /\ i \in Index
           /\ PayloadOf(i) \in Index \ Slot
           /\ Advance(i) \in Slot
           /\ Advance(i) # i
           /\ \A j \in Slot : j # i => j = Advance(i) /\ PayloadOf(j) # PayloadOf(i)
  BY DEF Slot, Index, PayloadOf, Advance, HEADER_QUEUE_ENTRY_NUM

\* The second spin loop of a push (send_recv.c:316, route_processor.c:583)
\* waits exactly while there is a message in the queue: the ring of four
\* entries holds one message, never two.
LEMMA FullIffNotEmpty ==
    ASSUME NEW r, r.producer \in Slot, r.consumer \in Slot
    PROVE  NoPayloadEntry(r) <=> ~Empty(r)
  BY DEF Slot, NoPayloadEntry, Empty, HEADER_QUEUE_ENTRY_NUM

\* The first spin loop of a push (send_recv.c:307) never waits.
LEMMA HeaderEntryFree ==
    ASSUME NEW r, r.producer \in Slot, r.consumer \in Slot
    PROVE  ~NoHeaderEntry(r)
  BY DEF Slot, NoHeaderEntry, HEADER_QUEUE_ENTRY_NUM
-----------------------------------------------------------------------------
(* What the operations do to a queue. *)

\* Headers, payloads and entries never written are told apart, and carry the
\* message they were made from (route_processor.h:13-24).
LEMMA EntryFacts ==
    ASSUME NEW m \in Message
    PROVE  /\ Header(m) \in Entry
           /\ Payload(m) \in Entry
           /\ Header(m).msg = m
           /\ Payload(m).msg = m
           /\ Header(m).kind = "header"
  BY DEF Header, Payload, Entry

\* What a value of type Queue consists of (route_processor.h:26-32).
LEMMA QueueParts ==
    ASSUME NEW r \in Queue(Entry)
    PROVE  /\ r.producer \in Index
           /\ r.consumer \in Index
           /\ r.entry \in [Index -> Entry]
  BY DEF Queue

\* Copying a header changes the entry at producer and nothing else
\* (send_recv.c:309).
LEMMA PutHeaderFacts ==
    ASSUME NEW r \in Queue(Entry), NEW h \in Entry
    PROVE  /\ PutHeader(r, h) \in Queue(Entry)
           /\ PutHeader(r, h).producer = r.producer
           /\ PutHeader(r, h).consumer = r.consumer
           /\ \A i \in Index : PutHeader(r, h).entry[i] =
                  IF i = r.producer THEN h ELSE r.entry[i]
  BY DEF PutHeader, Queue

\* Copying a payload changes the entry behind producer and nothing else
\* (send_recv.c:318-322).
LEMMA PutPayloadFacts ==
    ASSUME NEW r \in Queue(Entry), NEW p \in Entry
    PROVE  /\ PutPayload(r, p) \in Queue(Entry)
           /\ PutPayload(r, p).producer = r.producer
           /\ PutPayload(r, p).consumer = r.consumer
           /\ \A i \in Index : PutPayload(r, p).entry[i] =
                  IF i = PayloadOf(r.producer) THEN p ELSE r.entry[i]
  BY DEF PutPayload, Queue

\* producer += 2 changes no entry (send_recv.c:324).
LEMMA PublishedFacts ==
    ASSUME NEW r \in Queue(Entry)
    PROVE  /\ Published(r) \in Queue(Entry)
           /\ Published(r).producer = Advance(r.producer)
           /\ Published(r).consumer = r.consumer
           /\ Published(r).entry = r.entry
  BY DEF Published, Queue, Advance, Index, HEADER_QUEUE_ENTRY_NUM

\* consumer += 2 changes no entry (send_recv.c:471).
LEMMA ReleasedFacts ==
    ASSUME NEW r \in Queue(Entry)
    PROVE  /\ Released(r) \in Queue(Entry)
           /\ Released(r).producer = r.producer
           /\ Released(r).consumer = Advance(r.consumer)
           /\ Released(r).entry = r.entry
  BY DEF Released, Queue, Advance, Index, HEADER_QUEUE_ENTRY_NUM
-----------------------------------------------------------------------------
(* The inductive invariant. *)

\* The inductive invariant holds once m2m_send_recv_init has reset the queue.
LEMMA InitIInv == Init => IInv
<1> SUFFICES ASSUME Init PROVE IInv
  OBVIOUS
<1>1. /\ q \in Queue(Entry)
      /\ q.producer = 0
      /\ q.consumer = 0
  BY DEF Init, ResetQueue, Queue, Entry, Index, HEADER_QUEUE_ENTRY_NUM
<1>2. got \in Entry \X Entry
  BY DEF Init, Entry
<1>3. TypeOK
  <2>1. 0 \in 0 .. MaxMessages /\ 0 \in Index
    BY MessagesAssumption DEF Index, HEADER_QUEUE_ENTRY_NUM
  <2>2. taken \in Seq(Message \X Message)
    BY DEF Init
  <2> QED
    BY <1>1, <1>2, <2>1, <2>2 DEF Init, TypeOK
<1>4. QueueInv /\ ConsumerInv /\ SyncInv
  BY <1>1 DEF Init, QueueInv, ConsumerInv, SyncInv, Slot, Empty
<1>5. WholeMessages /\ LateReadOwnHeader
  BY DEF Init, WholeMessages, LateReadOwnHeader
<1> QED
  BY <1>3, <1>4, <1>5 DEF IInv

\* Every step of the producer and of the consumer preserves it.
LEMMA NextIInv == IInv /\ [Next]_vars => IInv'
<1> SUFFICES ASSUME IInv, [Next]_vars PROVE IInv'
  OBVIOUS
<1> USE DEF IInv
<1>q. /\ q \in Queue(Entry)
      /\ q.producer \in Slot
      /\ q.consumer \in Slot
      /\ q.entry \in [Index -> Entry]
      /\ msg \in Message
  BY QueueParts DEF TypeOK, QueueInv
<1>1. CASE Begin
  <2>1. TypeOK'
    BY <1>1, MessagesAssumption DEF Begin, TypeOK, consuming
  <2>2. QueueInv' /\ ConsumerInv' /\ SyncInv' /\ WholeMessages'
    BY <1>1 DEF Begin, consuming, QueueInv, ConsumerInv, SyncInv, WholeMessages, Empty,
                HeadHeader, HeadPayload
  <2>3. LateReadOwnHeader'
    BY <1>1 DEF Begin, consuming, LateReadOwnHeader
  <2> QED
    BY <2>1, <2>2, <2>3
<1>2. CASE CopyHeader
  <2>1. /\ q' \in Queue(Entry)
        /\ q'.producer = q.producer
        /\ q'.consumer = q.consumer
        /\ \A i \in Index : q'.entry[i] = IF i = q.producer THEN Header(msg) ELSE q.entry[i]
    BY <1>q, <1>2, PutHeaderFacts, EntryFacts DEF CopyHeader
  <2>2. TypeOK'
    BY <1>2, <2>1 DEF CopyHeader, TypeOK, consuming
  <2>3. ~Empty(q) => HeadHeader(q') = HeadHeader(q)
    BY <1>q, <2>1, SlotFacts DEF Empty, HeadHeader
  <2>4. HeadPayload(q') = HeadPayload(q)
    BY <1>q, <2>1, SlotFacts DEF HeadPayload
  <2>5. QueueInv'
    BY <1>q, <1>2, <2>1, <2>3, <2>4, SlotFacts DEF CopyHeader, QueueInv, Empty
  <2>6. ConsumerInv'
    BY <1>2, <2>1, <2>3, <2>4 DEF CopyHeader, consuming, ConsumerInv, Empty
  <2>7. SyncInv' /\ WholeMessages'
    BY <1>2, <2>1 DEF CopyHeader, consuming, SyncInv, WholeMessages, Empty
  <2>8. LateReadOwnHeader'
    BY <1>q, <1>2, <2>1, SlotFacts
       DEF CopyHeader, consuming, LateReadOwnHeader, ConsumerInv, SyncInv, Empty
  <2> QED
    BY <2>2, <2>5, <2>6, <2>7, <2>8
<1>3. CASE CopyPayload
  <2>1. /\ q' \in Queue(Entry)
        /\ q'.producer = q.producer
        /\ q'.consumer = q.consumer
        /\ \A i \in Index : q'.entry[i] =
               IF i = PayloadOf(q.producer) THEN Payload(msg) ELSE q.entry[i]
    BY <1>q, <1>3, PutPayloadFacts, EntryFacts DEF CopyPayload
  <2>2. Empty(q) /\ Empty(q')
    BY <1>q, <1>3, <2>1, FullIffNotEmpty DEF CopyPayload, Empty
  <2>3. \A i \in Slot : q'.entry[i] = q.entry[i]
    BY <1>q, <2>1, SlotFacts
  <2>4. TypeOK'
    BY <1>3, <2>1 DEF CopyPayload, TypeOK, consuming
  <2>5. QueueInv'
    BY <1>q, <1>3, <2>1, <2>2, <2>3, SlotFacts DEF CopyPayload, QueueInv
  <2>6. ConsumerInv' /\ SyncInv' /\ WholeMessages'
    BY <1>3, <2>1, <2>2 DEF CopyPayload, consuming, ConsumerInv, SyncInv, WholeMessages
  <2>7. LateReadOwnHeader'
    BY <1>3, <2>2, <2>3 DEF CopyPayload, consuming, LateReadOwnHeader, ConsumerInv
  <2> QED
    BY <2>4, <2>5, <2>6, <2>7
<1>4. CASE Publish
  <2>1. /\ q' \in Queue(Entry)
        /\ q'.producer = Advance(q.producer)
        /\ q'.consumer = q.consumer
        /\ q'.entry = q.entry
    BY <1>q, <1>4, PublishedFacts DEF Publish
  <2>2. Empty(q) /\ ~Empty(q') /\ q'.producer \in Slot
    BY <1>q, <1>4, <2>1, SlotFacts DEF Publish, QueueInv, Empty
  <2>3. HeadHeader(q') = Header(msg) /\ HeadPayload(q') = Payload(msg)
    BY <1>4, <2>1, <2>2 DEF Publish, QueueInv, Empty, HeadHeader, HeadPayload
  <2>4. TypeOK'
    BY <1>4, <2>1 DEF Publish, TypeOK, consuming
  <2>5. QueueInv'
    BY <1>q, <1>4, <2>1, <2>2, <2>3 DEF Publish, QueueInv
  <2>6. ConsumerInv' /\ WholeMessages'
    BY <1>4, <2>1, <2>2 DEF Publish, consuming, ConsumerInv, WholeMessages
  <2>7. SyncInv'
    BY <1>4, <2>2 DEF Publish, consuming, SyncInv, TypeOK
  <2>8. LateReadOwnHeader'
    BY <1>4, <2>1, <2>2 DEF Publish, consuming, LateReadOwnHeader
  <2> QED
    BY <2>4, <2>5, <2>6, <2>7, <2>8
<1>5. CASE Poll
  <2>1. TypeOK'
    BY <1>5, QueueParts DEF Poll, TypeOK, pushing
  <2>2. QueueInv' /\ WholeMessages' /\ LateReadOwnHeader'
    BY <1>5 DEF Poll, pushing, QueueInv, WholeMessages, LateReadOwnHeader, Empty, HeadHeader,
                HeadPayload
  <2>3. ConsumerInv' /\ SyncInv'
    BY <1>q, <1>5 DEF Poll, pushing, ConsumerInv, SyncInv, Empty
  <2> QED
    BY <2>1, <2>2, <2>3
<1>6. CASE Copy
  <2>1. got' = <<HeadHeader(q), HeadPayload(q)>>
    BY <1>6 DEF Copy, ConsumerInv, HeadHeader
  <2>2. got' \in Entry \X Entry
    BY <1>q, <2>1, SlotFacts DEF HeadHeader, HeadPayload
  <2>3. TypeOK'
    BY <1>6, <2>2 DEF Copy, TypeOK, pushing
  <2>4. QueueInv' /\ WholeMessages' /\ LateReadOwnHeader'
    BY <1>6 DEF Copy, pushing, QueueInv, WholeMessages, LateReadOwnHeader, Empty, HeadHeader,
                HeadPayload
  <2>5. ConsumerInv' /\ SyncInv'
    BY <1>6, <2>1 DEF Copy, pushing, ConsumerInv, SyncInv, Empty, HeadHeader, HeadPayload
  <2> QED
    BY <2>3, <2>4, <2>5
<1>7. CASE Release
  <2>1. /\ q' \in Queue(Entry)
        /\ q'.producer = q.producer
        /\ q'.consumer = Advance(q.consumer)
        /\ q'.entry = q.entry
    BY <1>q, <1>7, ReleasedFacts DEF Release
  <2>2. ~Empty(q) /\ Empty(q') /\ q'.consumer \in Slot /\ hptr # q'.consumer
    BY <1>q, <1>7, <2>1, SlotFacts DEF Release, ConsumerInv, Empty
  <2>3. PICK m \in Message : got[1] = Header(m) /\ got[2] = Payload(m)
    BY <1>7, <2>2 DEF Release, ConsumerInv, QueueInv
  <2>4. taken' = Append(taken, <<m, m>>)
    BY <1>7, <2>3, EntryFacts DEF Release
  <2>5. TypeOK'
    BY <1>7, <2>1, <2>4 DEF Release, TypeOK, pushing
  <2>6. QueueInv'
    BY <1>q, <1>7, <2>1, <2>2 DEF Release, pushing, QueueInv
  <2>7. ConsumerInv' /\ SyncInv'
    BY <1>7, <2>2 DEF Release, pushing, ConsumerInv, SyncInv
  <2>8. WholeMessages'
    BY <2>4 DEF WholeMessages, TypeOK
  <2>9. LateReadOwnHeader'
    BY <1>7, <2>1 DEF Release, pushing, LateReadOwnHeader, ConsumerInv, HeadHeader
  <2> QED
    BY <2>5, <2>6, <2>7, <2>8, <2>9
<1>8. CASE LateRead
  <2>1. TypeOK'
    BY <1>8 DEF LateRead, TypeOK, pushing
  <2>2. QueueInv' /\ ConsumerInv' /\ WholeMessages' /\ LateReadOwnHeader'
    BY <1>8 DEF LateRead, pushing, QueueInv, ConsumerInv, WholeMessages, LateReadOwnHeader,
                Empty, HeadHeader, HeadPayload
  <2>3. SyncInv'
    BY <1>8 DEF LateRead, pushing, SyncInv, Empty
  <2> QED
    BY <2>1, <2>2, <2>3
<1>9. CASE UNCHANGED vars
  BY <1>9 DEF vars, pushing, consuming, TypeOK, QueueInv, ConsumerInv, SyncInv, WholeMessages,
              LateReadOwnHeader, Empty, HeadHeader, HeadPayload
<1> QED
  BY <1>1, <1>2, <1>3, <1>4, <1>5, <1>6, <1>7, <1>8, <1>9 DEF Next, Producer, Consumer

\* So it holds in every reachable state of a queue.
LEMMA Invariant == Spec => []IInv
  BY InitIInv, NextIInv, PTL DEF Spec
-----------------------------------------------------------------------------
(* What follows from it. *)

\* The types of the queue and of the two threads: in particular neither index
\* leaves the ring, and what is consumed are messages that were pushed.
THEOREM TypeCorrect == Spec => []TypeOK
  BY Invariant, PTL DEF IInv

\* A header and a payload that m2m_get_local_msg or a routing thread consumes
\* together were pushed together, however the two threads interleave.
THEOREM MessagesAreWhole == Spec => []WholeMessages
  BY Invariant, PTL DEF IInv

\* The second read of the header, after consumer += 2, finds the header that
\* was consumed, always so in a queue that an application fills.
THEOREM LateReadIsOwn == Spec => []LateReadOwnHeader
  BY Invariant, PTL DEF IInv

\* No push writes the entries that are being consumed, although the header is
\* copied before the producer knows that there is room.
THEOREM EntriesAreExclusive == Spec => []ExclusiveEntries
<1>1. ASSUME IInv PROVE ExclusiveEntries
  <2> SUFFICES ASSUME cpc \in {"copy", "release"}
               PROVE  /\ hptr = q.consumer
                      /\ q.producer \notin {q.consumer, PayloadOf(q.consumer)}
                      /\ NoPayloadEntry(q)
                      /\ q.entry[hptr].kind = "header"
    BY DEF ExclusiveEntries
  <2>1. /\ q.producer \in Slot
        /\ q.consumer \in Slot
        /\ ~Empty(q)
        /\ hptr = q.consumer
    BY <1>1 DEF IInv, QueueInv, ConsumerInv
  <2>2. q.producer \notin {q.consumer, PayloadOf(q.consumer)}
    BY <2>1, SlotFacts DEF Empty
  <2>3. NoPayloadEntry(q)
    BY <2>1, FullIffNotEmpty
  <2>4. q.entry[hptr].kind = "header"
    BY <1>1, <2>1, EntryFacts DEF IInv, QueueInv, HeadHeader
  <2> QED
    BY <2>1, <2>2, <2>3, <2>4
<1> QED
  BY <1>1, Invariant, PTL

\* The ring with its two threads implements a FIFO channel of one message:
\* nothing is lost, repeated or reordered.
THEOREM QueueIsChannel == Spec => ImplementsChannel
<1> DEFINE box == IF Empty(q) THEN << >> ELSE <<<<HeadHeader(q).msg, HeadPayload(q).msg>>>>
<1>1. ASSUME Init PROVE Channel!Init
  BY <1>1 DEF Init, Channel!Init, ResetQueue, Empty
<1>2. ASSUME IInv, IInv', [Next]_vars PROVE [Channel!Next]_<<box, taken>>
  <2>q. /\ q \in Queue(Entry)
        /\ q.producer \in Slot
        /\ q.consumer \in Slot
        /\ msg \in Message
    BY <1>2 DEF IInv, TypeOK, QueueInv
  <2>1. CASE Begin \/ Poll \/ Copy \/ LateRead \/ UNCHANGED vars
    BY <2>1 DEF Begin, Poll, Copy, LateRead, vars, consuming, Empty, HeadHeader, HeadPayload
  <2>2. CASE CopyHeader
    <3>1. /\ q'.producer = q.producer
          /\ q'.consumer = q.consumer
          /\ \A i \in Index : q'.entry[i] = IF i = q.producer THEN Header(msg) ELSE q.entry[i]
      BY <2>q, <2>2, PutHeaderFacts, EntryFacts DEF CopyHeader
    <3>2. ~Empty(q) => HeadHeader(q') = HeadHeader(q) /\ HeadPayload(q') = HeadPayload(q)
      BY <2>q, <3>1, SlotFacts DEF Empty, HeadHeader, HeadPayload
    <3> QED
      BY <2>2, <3>1, <3>2 DEF CopyHeader, consuming, Empty
  <2>3. CASE CopyPayload
    <3>1. Empty(q) /\ Empty(q')
      BY <2>q, <2>3, FullIffNotEmpty, PutPayloadFacts, EntryFacts DEF CopyPayload, Empty
    <3> QED
      BY <2>3, <3>1 DEF CopyPayload, consuming
  <2>4. CASE Publish
    <3>1. /\ Empty(q)
          /\ ~Empty(q')
          /\ HeadHeader(q') = Header(msg)
          /\ HeadPayload(q') = Payload(msg)
      <4>1. /\ q'.producer = Advance(q.producer)
            /\ q'.consumer = q.consumer
            /\ q'.entry = q.entry
        BY <2>q, <2>4, PublishedFacts DEF Publish
      <4> QED
        BY <1>2, <2>q, <2>4, <4>1, SlotFacts
           DEF IInv, QueueInv, Publish, Empty, HeadHeader, HeadPayload
    <3>2. box = << >> /\ box' = <<<<msg, msg>>>>
      BY <2>q, <3>1, EntryFacts
    <3>3. Channel!Put
      <4>1. <<msg, msg>> \in {<<m, m>> : m \in Message}
        BY <2>q
      <4>2. Len(box) < 1 /\ box' = Append(box, <<msg, msg>>)
        <5>1. Len(<< >>) = 0 /\ Append(<< >>, <<msg, msg>>) = <<<<msg, msg>>>>
          OBVIOUS
        <5> HIDE DEF box
        <5> QED
          BY <3>2, <5>1
      <4>3. taken' = taken
        BY <2>4 DEF Publish, consuming
      <4> QED
        BY <4>1, <4>2, <4>3 DEF Channel!Put
    <3> QED
      BY <3>3 DEF Channel!Next
  <2>5. CASE Release
    <3>1. /\ ~Empty(q)
          /\ Empty(q')
          /\ got = <<HeadHeader(q), HeadPayload(q)>>
      BY <1>2, <2>q, <2>5, ReleasedFacts, SlotFacts DEF IInv, ConsumerInv, Release, Empty
    <3>2. /\ box = <<<<got[1].msg, got[2].msg>>>>
          /\ box' = << >>
      BY <3>1
    <3>3. Channel!Take
      BY <2>5, <3>2 DEF Channel!Take, Release
    <3> QED
      BY <3>3 DEF Channel!Next
  <2> QED
    BY <1>2, <2>1, <2>2, <2>3, <2>4, <2>5 DEF Next, Producer, Consumer
<1> QED
  BY <1>1, <1>2, Invariant, PTL DEF Spec, ImplementsChannel, Channel!Spec
=============================================================================
