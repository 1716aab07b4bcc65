--------------------------- MODULE MCServerLease ---------------------------
(* Small instances of ServerLease for TLC. *)
EXTENDS ServerLease, TLC

CONSTANTS s1, s2, x1, f1

\* The two ids the provider assigns are interchangeable.
IdSymmetry == Permutations({s1, s2})

\* docs/contract.md and server-lease.yml: "eight Render API calls".
EightCalls == CallsWithin(8)
=============================================================================
