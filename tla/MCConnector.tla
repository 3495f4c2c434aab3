----------------------------- MODULE MCConnector -----------------------------
(* Instances of Connector for TLC. *)
EXTENDS Connector, TLC

\* Slots, consents, states and codes are interchangeable in every definition
\* of Connector (no CHOOSE, no order), so permuting them is sound for safety.
Symmetry == Permutations(Calls) \cup Permutations(Consents)
              \cup Permutations(States) \cup Permutations(Codes)
=============================================================================
