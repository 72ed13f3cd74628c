-------------------------- MODULE MCChatAdmission --------------------------
(* Instance of ChatAdmission: a run of each of two users, and one address. *)
EXTENDS ChatAdmission

CONSTANTS u, v, a, c1, c2

MCUsers == {u, v}
MCBurst == [k \in Keys |-> IF k = u THEN 2 ELSE 1]
MCPeriod == [k \in Keys |-> IF k = a THEN 2 ELSE 1]
MCUserOf == [r \in Callers |-> IF r = c1 THEN u ELSE v]
=============================================================================
