----------------------------- MODULE MCRelease -----------------------------
(* Instances of Release for TLC. *)
EXTENDS ReleaseProperties, TLC

CONSTANTS p1, p2, t1, t2, a1, a2

\* One allocation has one target or the other, the other wants one of them.
EitherThenOne == a1 :> <<{t1}, {t2}>> @@ a2 :> <<{t1}>>
=============================================================================
