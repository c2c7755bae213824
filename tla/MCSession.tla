----------------------------- MODULE MCSession -----------------------------
(* Instances of Session for TLC: jobs are interchangeable.                 *)
EXTENDS Session, TLC

JobSymmetry == Permutations(Jobs)
=============================================================================
