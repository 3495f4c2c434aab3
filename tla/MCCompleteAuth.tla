--------------------------- MODULE MCCompleteAuth ---------------------------
(* Instances of CompleteAuth for TLC. *)
EXTENDS CompleteAuth

\* The states OpenURL draws are named by the calls.
MCMarks == Listeners \cup {OtherMark}
=============================================================================
