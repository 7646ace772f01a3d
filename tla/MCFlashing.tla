----------------------------- MODULE MCFlashing -----------------------------
(* An instance of Flashing for TLC: one flasher, and a console that anybody   *)
(* reads.                                                                     *)
EXTENDS FlashingProperties
=============================================================================
