------------------------------ MODULE MCAccess ------------------------------
(* Worlds for the runs of Access. *)
EXTENDS Access

CONSTANTS a, b,      \* accounts on the server
          c1, c2, u1 \* processes

One(names, key) == [key |-> key, names |-> names]

(* While a second account is granted: two connections at once, or one with       *)
(* sessions that run out.  A connection and a command while access is revoked.    *)
(* A connection after the CA of the server is rolled over.                      *)
MCHistory ==
  LET grant == <<One({a}, 1), One({a, b}, 1)>> IN
  [granted |-> grant, expired |-> grant,
   revoked |-> <<One({a}, 1), One({}, 1)>>,
   rollover |-> <<One({a}, 1), One({a}, 2)>>]

MCActing ==
  [granted |-> {c1, c2}, expired |-> {c1}, revoked |-> {c1, u1}, rollover |-> {c1}]

MCEnv ==
  [granted |-> {"outage"}, expired |-> {"outage", "sessions"}, revoked |-> {},
   rollover |-> {}]
=============================================================================
