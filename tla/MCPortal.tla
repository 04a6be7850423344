------------------------------ MODULE MCPortal ------------------------------
(* Two sessions that end in every way, before and after the signal.  One client uses
   everything; the other only starts, ends and vanishes, to meet it in every state. *)
EXTENDS Portal, TLC

CONSTANTS s1, s2

MCSays == (s1 :> {"packet", "query", "data", "terminate"}) @@ (s2 :> {"packet", "terminate"})
=============================================================================
