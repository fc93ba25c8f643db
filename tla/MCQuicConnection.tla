-------------------------- MODULE MCQuicConnection --------------------------
(* QuicConnection for TLC: a door of every kind, calls one after another. *)
EXTENDS QuicConnection

=============================================================================
