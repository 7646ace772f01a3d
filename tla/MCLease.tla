------------------------------ MODULE MCLease ------------------------------
(* Instances of LeaseClients for TLC. *)
EXTENDS LeaseProperties, TLC

CONSTANTS c1, c2

\* One waits its turn and loses answers, one is urgent and may be static or
\* have an end time a minute ahead.
MayBeStatic == c1 :> {NoEnd} @@ c2 :> {NoEnd, Static, 1}
=============================================================================
