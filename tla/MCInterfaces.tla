---------------------------- MODULE MCInterfaces ----------------------------
(* Instances of Interfaces for TLC. *)
EXTENDS InterfacesProperties
=============================================================================
