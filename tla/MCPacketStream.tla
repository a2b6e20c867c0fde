--------------------------- MODULE MCPacketStream ---------------------------
(* An instance of PacketStream for TLC: see the configuration. *)
EXTENDS PacketStream, TLC

CONSTANTS Small, Middle, Big  \* packets of three sizes, the last bigger than a chunk
Sizes == [p \in Packets |-> CASE p \in Small -> 2 [] p \in Middle -> 4 [] p \in Big -> 5]

Symmetry ==
  Permutations(Threads) \cup Permutations(Chunks) \cup Permutations(Middle) \cup Permutations(Small)
=============================================================================
