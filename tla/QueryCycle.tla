----------------------------- MODULE QueryCycle -----------------------------
(***************************************************************************)
(* What a session promises its client, as the simple query protocol of the *)
(* message codes in src/src/include/common/message.h has it: one           *)
(* ReadyForQuery after a successful startup, and for each query accepted   *)
(* one answer (CommandComplete or ErrorResponse) and then one              *)
(* ReadyForQuery, with nothing but the data of that query in between.      *)
(***************************************************************************)
EXTENDS Naturals

VARIABLES
  phase,     \* "startup", "ready", "busy", "answered" or "over"
  accepted,  \* queries accepted
  answered   \* queries answered

vars == <<phase, accepted, answered>>

Init == phase = "startup" /\ accepted = 0 /\ answered = 0

Ready ==
  /\ phase \in {"startup", "answered"}
  /\ phase' = "ready"
  /\ UNCHANGED <<accepted, answered>>

Accept ==
  /\ phase = "ready"
  /\ phase' = "busy"
  /\ accepted' = accepted + 1
  /\ UNCHANGED answered

Answer ==
  /\ phase = "busy"
  /\ phase' = "answered"
  /\ answered' = answered + 1
  /\ UNCHANGED accepted

\* The session ends, on X, on an error of the socket or with the process.
Over ==
  /\ phase # "over"
  /\ phase' = "over"
  /\ UNCHANGED <<accepted, answered>>

Next == Ready \/ Accept \/ Answer \/ Over

Spec == Init /\ [][Next]_vars
=============================================================================
