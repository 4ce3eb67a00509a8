---------------------------- MODULE MCFileManager ----------------------------
(* Instances of FileManager for TLC: one file that is encoded; its encoded *)
(* form is one that is not.                                                *)
EXTENDS FileManager, TLC

MCExtension == [f \in Files |-> ".html"]
Symmetry == Permutations(Workers)
=============================================================================
