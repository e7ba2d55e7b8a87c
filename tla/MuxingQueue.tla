----------------------------- MODULE MuxingQueue -----------------------------
(***************************************************************************)
(* EbMuxingQueue: the pair of circular buffers with which the system       *)
(* resource manager marries waiting objects to waiting processes.  A value *)
(* is a record of the two buffers, each a sequence whose first element is  *)
(* the one at head_index; the array, its two indices and current_count,    *)
(* which they wrap around, are abstracted to it.                           *)
(***************************************************************************)
EXTENDS Integers, Sequences

Elements(s) == {s[i] : i \in DOMAIN s}

NoDuplicate(s) == \A i, j \in DOMAIN s : s[i] = s[j] => i = j

EmptyMuxingQueue == [objects |-> <<>>, procs |-> <<>>]

\* svt_circular_buffer_push_front on a buffer of `capacity` slots: the slot
\* before the head is overwritten, which in a full buffer is the last element.
PushFront(s, x, capacity) ==
    <<x>> \o (IF Len(s) < capacity THEN s ELSE SubSeq(s, 1, capacity - 1))

QueueProcess(q, p, capacity) == [q EXCEPT !.procs = PushFront(@, p, capacity)]

QueueObjectFront(q, o, capacity) == [q EXCEPT !.objects = PushFront(@, o, capacity)]

QueueObjectBack(q, o) == [q EXCEPT !.objects = Append(@, o)]

-----------------------------------------------------------------------------
\* svt_muxing_queue_assignation: while both buffers hold something, the first
\* object goes to the FIFO of the first process, whose semaphore is posted.

\* How often the loop body runs.
Matches(q) ==
    IF Len(q.objects) < Len(q.procs) THEN Len(q.objects) ELSE Len(q.procs)

\* What is left in the two buffers.
Unmatched(q) ==
    [objects |-> SubSeq(q.objects, Matches(q) + 1, Len(q.objects)),
     procs   |-> SubSeq(q.procs,   Matches(q) + 1, Len(q.procs))]

\* The processes the loop serves, and the object process p is handed.
Served(q) == {q.procs[i] : i \in 1..Matches(q)}

HandedTo(q, p) == q.objects[CHOOSE i \in 1..Matches(q) : q.procs[i] = p]

FifosAfter(q, fifo) ==
    [p \in DOMAIN fifo |->
        IF p \in Served(q) THEN Append(fifo[p], HandedTo(q, p)) ELSE fifo[p]]

SemaphoresAfter(q, semaphore) ==
    [p \in DOMAIN semaphore |->
        IF p \in Served(q) THEN semaphore[p] + 1 ELSE semaphore[p]]
=============================================================================
