--------------------------- MODULE HeaderQueueOps ---------------------------
(***************************************************************************)
(* The header queue of the M2M shared segment as a value: the ring of      *)
(* src/hw/m2m_mm.h and src/hw/m2m_route_processor.h and the index          *)
(* arithmetic that every user of a queue repeats in line.                  *)
(*                                                                         *)
(* A message takes two consecutive entries, its header (m2m_HQe_t) at an   *)
(* even index and its payload at the next one, so both indices advance by  *)
(* two.  An entry is either a header or a payload; which of the two is a   *)
(* matter of its position, so entries are kept as one array of values.     *)
(***************************************************************************)
EXTENDS Integers

\* #define HEADER_QUEUE_ENTRY_NUM 4
HEADER_QUEUE_ENTRY_NUM == 4

Index == 0 .. HEADER_QUEUE_ENTRY_NUM - 1

\* An entry that memcpy has not written since the segment was created.
Blank == [kind |-> "blank"]

\* m2m_HQ_meta_t and the entries it governs.
Queue(Entry) == [producer : Index, consumer : Index, entry : [Index -> Entry]]

\* m2m_send_recv_init resets the two indices; the entries keep what they hold.
ResetQueue(entry) == [producer |-> 0, consumer |-> 0, entry |-> entry]

\* Where the payload of the message with its header at entry i is.
PayloadOf(i) == (i + 1) % HEADER_QUEUE_ENTRY_NUM

\* Broken variant: the index does not wrap around.
AdvanceNoWrap(i) == i + 2

\* producer = (producer + 2) % HEADER_QUEUE_ENTRY_NUM, and so for consumer.
Advance(i) == (i + 2) % HEADER_QUEUE_ENTRY_NUM

Empty(q) == q.producer = q.consumer

\* The first spin loop of a push: no entry for the header.
NoHeaderEntry(q) == (q.producer + 1) % HEADER_QUEUE_ENTRY_NUM = q.consumer

\* Broken variant: an empty ring is taken for a full one.
NoPayloadEntryEmpty(q) == q.producer = q.consumer

\* The second spin loop of a push: no entry for the payload.
NoPayloadEntry(q) == (q.producer + 2) % HEADER_QUEUE_ENTRY_NUM = q.consumer

\* memcpy of the header into the entry at producer.
PutHeader(q, h) == [q EXCEPT !.entry[q.producer] = h]

\* memcpy of the payload into the entry after it.
PutPayload(q, p) == [q EXCEPT !.entry[PayloadOf(q.producer)] = p]

Published(q) == [q EXCEPT !.producer = Advance(q.producer)]

Released(q) == [q EXCEPT !.consumer = Advance(q.consumer)]

HeadHeader(q) == q.entry[q.consumer]

HeadPayload(q) == q.entry[PayloadOf(q.consumer)]
=============================================================================
