----------------------------- MODULE MCCloudPath -----------------------------
(* CloudPath for TLC: queues that fill with one message. *)
EXTENDS CloudPath

MCQueueLen == [q \in Modules |-> 1]

=============================================================================
