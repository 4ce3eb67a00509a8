----------------------------- MODULE MCTCPServer -----------------------------
(* Instances of TCPServer for TLC.                                         *)
EXTENDS TCPServer, TLC

Symmetry == Permutations(Clients) \cup Permutations(Workers)
=============================================================================
