----------------------------- MODULE MCProtocol -----------------------------
(* One connection, up to two queries of every kind, the second possibly sent *)
(* before the first is answered.                                             *)
EXTENDS Protocol, TLC
=============================================================================
