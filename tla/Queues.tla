------------------------------- MODULE Queues -------------------------------
(* Counting the entries of a FIFO queue (the event list, a k_msgq), and    *)
(* their order.                                                            *)
EXTENDS Naturals, Sequences, FiniteSets

CountIn(q, S) == Cardinality({i \in DOMAIN q : q[i] \in S})

(* Numbered entries: num gives those of one kind, its domain, the numbers  *)
(* they were taken in the order of.  The numbers in a queue.               *)
NumsOf(q, num) == {num[q[i]] : i \in {j \in DOMAIN q : q[j] \in DOMAIN num}}

(* Those of a queue grow from its head to its end. *)
InOrder(q, num) ==
  \A i, j \in DOMAIN q :
    i < j /\ q[i] \in DOMAIN num /\ q[j] \in DOMAIN num => num[q[i]] < num[q[j]]

Before(A, B) == \A x \in A, y \in B : x < y

=============================================================================
