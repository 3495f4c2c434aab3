----------------------------- MODULE MCTokenStore -----------------------------
(* Instances of TokenStore for TLC.  A unit of time stands for 30 s. *)
EXTENDS TokenStore, TLC

\* Missing, negative, one shorter than a reply may take, ordinary, and two too
\* long for a time.Duration: 9 wraps to -7, 18 to 2.
MCAnnounced == {-1, 0, 1, 3, 9, 18}

TSymmetry == Permutations(Workers)
===============================================================================
