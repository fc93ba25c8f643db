---------------------------- MODULE MCUnixServer ----------------------------
(* UnixServer for TLC: packages older and newer than the clients', and one  *)
(* that speaks no version they do.                                          *)
EXTENDS UnixServer

CONSTANTS s1, s2, c, d, t1, t2

Versions(a, b) == [min |-> a, newest |-> b]

ThisPackage == Versions(7, 9)
Packages    == {Versions(7, 8), Versions(8, 10), Versions(4, 6)}
OnePackage  == {ThisPackage}
=============================================================================
