--------------------------- MODULE MCLocalConnector ---------------------------
(* Instances of LocalConnector for TLC. *)
EXTENDS LocalConnector, TLC

\* Consents, states, codes and browser requests are interchangeable.
JSymmetry == Permutations(Consents) \cup Permutations(States)
               \cup Permutations(Codes) \cup Permutations(Requests)
===============================================================================
