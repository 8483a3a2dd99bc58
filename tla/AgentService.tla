---------------------------- MODULE AgentService ----------------------------
(* What the agents of nk look like from outside: one agent takes connections, or  *)
(* none does.  It stops taking them before another one starts, keeps those it has  *)
(* while it leaves, and none is left when it is gone.                             *)
CONSTANTS Agents, Sessions, None

VARIABLES
  current, \* the agent that takes connections, if there is one
  leaving, \* agents that stopped taking them
  conn     \* conn[s]: the agent session s is connected to, None if it is not

Drop(S) == conn' = [s \in Sessions |-> IF s \in S THEN None ELSE conn[s]]

Init == current = {} /\ leaving = {} /\ conn = [s \in Sessions |-> None]

Come == current = {} /\ \E a \in Agents \ leaving : current' = {a} /\ UNCHANGED <<leaving, conn>>

Join(s) ==
  /\ conn[s] = None
  /\ \E a \in current : conn' = [conn EXCEPT ![s] = a]
  /\ UNCHANGED <<current, leaving>>

Part(S) == Drop(S) /\ UNCHANGED <<current, leaving>>

Stop == current # {} /\ current' = {} /\ leaving' = leaving \cup current /\ UNCHANGED conn

Go(a) ==
  /\ a \in current \cup leaving
  /\ current' = current \ {a} /\ leaving' = leaving \ {a}
  /\ Drop({s \in Sessions : conn[s] = a})

Next ==
  \/ Come \/ Stop
  \/ \E s \in Sessions : Join(s)
  \/ \E S \in SUBSET Sessions : Part(S)
  \/ \E a \in Agents : Go(a)

Spec == Init /\ [][Next]_<<current, leaving, conn>>
=============================================================================
