--------------------------- MODULE MCResearchProtocol ---------------------------
(***************************************************************************)
(* An instance of ResearchProtocol for TLC: ids, clients and contents are  *)
(* interchangeable.                                                        *)
(***************************************************************************)
EXTENDS ResearchProtocol, TLC

Symmetry == Permutations(Client) \cup Permutations(VersionId) \cup Permutations(Content)
=============================================================================
