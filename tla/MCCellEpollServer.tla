------------------------- MODULE MCCellEpollServer -------------------------
(* CellEpollServer with symmetric connections and descriptors. *)
EXTENDS CellEpollServer, TLC

Symmetry == Permutations(Clients) \cup Permutations(Fds)
=============================================================================
