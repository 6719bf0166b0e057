---------------------------- MODULE MCPushQueueSlice ----------------------------
(* An instance of PushQueueSlice for TLC. *)
EXTENDS PushQueueSlice

\* No definition orders requests or goroutines.
Symmetry == Permutations(Requests) \cup Permutations(Adders)

\* An array that neither the header nor a goroutine's copy names is never read
\* again, nor is the request of a pass that is over.
Reachable(a) == a = header.ptr \/ \E t \in Threads : local[t].ptr = a

View ==
    <<header, [a \in DOMAIN arrays |-> IF Reachable(a) THEN arrays[a] ELSE <<>>],
      pc, local, arg, wpc, i,
      IF wpc \in {"answer", "chain", "remove"} THEN request ELSE Nil,
      made, owed, overlapped>>
================================================================================
