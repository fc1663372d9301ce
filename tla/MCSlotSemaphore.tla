-------------------------- MODULE MCSlotSemaphore --------------------------
(* Instances of SlotSemaphore for TLC: callers placed in processes.         *)
EXTENDS SlotSemaphore, TLC

CONSTANTS c1, c2, c3, p1, p2, p3

\* One caller per process, as the __worker processes use the semaphore.
OneEach2 == (c1 :> p1) @@ (c2 :> p2)

\* Two callers share a process and its queue, one is alien.
Shared3 == (c1 :> p1) @@ (c2 :> p1) @@ (c3 :> p2)

=============================================================================
