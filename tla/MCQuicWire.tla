----------------------------- MODULE MCQuicWire -----------------------------
(* QuicWire for TLC: two calls, of which one may be replayed. *)
EXTENDS QuicWire

CONSTANTS r, w   (* a describe that may be replayed, a write *)
=============================================================================
