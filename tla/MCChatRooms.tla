----------------------------- MODULE MCChatRooms -----------------------------
(* ChatRooms with interchangeable worker threads, sessions and names (no name
   is an administrator's in the configurations that use this symmetry). *)
EXTENDS ChatRooms, TLC

Symmetry ==
  Permutations(Workers) \union Permutations(Sessions) \union Permutations(Names)
=============================================================================
