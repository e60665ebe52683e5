------------------------------ MODULE MCStream ------------------------------
(* Streams on small instances. *)
EXTENDS StreamProperties

=============================================================================
