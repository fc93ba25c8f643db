----------------------------- MODULE MCAioClient -----------------------------
(* AioClient for TLC: three calls, of which one fills the write buffer. *)
EXTENDS AioClient

CONSTANTS a, b, l
=============================================================================
