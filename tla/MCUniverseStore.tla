--------------------------- MODULE MCUniverseStore ---------------------------
(* Small instances of UniverseStore.  Universes, ports, clients and UIDs are *)
(* model values that no definition tells apart but by their kind.            *)
EXTENDS UniverseStore, TLC

\* Universes are alike, and output ports and clients are.
Symmetry ==
  Permutations(Universe) \cup Permutations(OutputPort) \cup Permutations(Client)
=============================================================================
