------------------------------- MODULE Queues -------------------------------
(***************************************************************************)
(* The queue of an asyncio.Lock: those who hold it (the head) or await it, *)
(* in the order in which they asked.  Nobody is in it twice.               *)
(***************************************************************************)
EXTENDS Naturals, Sequences

\* t is in the queue q; s is in it before t.
Queued(q, t) == \E i \in DOMAIN q : q[i] = t
Before(q, s, t) == \E i, j \in DOMAIN q : i < j /\ q[i] = s /\ q[j] = t

\* The queue q after t has left it, having released the lock or been cancelled.
Without(q, t) ==
    IF Queued(q, t)
    THEN LET k == CHOOSE i \in DOMAIN q : q[i] = t
         IN  [i \in 1..(Len(q) - 1) |-> q[IF i < k THEN i ELSE i + 1]]
    ELSE q

=============================================================================
