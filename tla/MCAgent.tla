-------------------------------- MODULE MCAgent --------------------------------
(* Agent on two machines that share nothing.  A behaviour is about one of them.   *)
(* On the first nobody logs out and a run may become quiet: from some point on    *)
(* no agent is killed, times out or fails to start.  On the second one nk logout   *)
(* removes the agent's files whenever it likes (AgentLogout).                   *)
EXTENDS Agent

CONSTANTS LogoutAgents, LogoutInodes, LogoutSessions   \* the instance on the second machine

VARIABLES
  logout,  \* the behaviour is about the second machine
  quiet,   \* first machine: no agent ends from here on
  sock2, lockfile2, opened2, holder2, listening2, apc2, spc2, srv2, ended2, lpc, asked

Logout == INSTANCE AgentLogout
            WITH Agents <- LogoutAgents, Inodes <- LogoutInodes, Sessions <- LogoutSessions,
                 sock <- sock2, lockfile <- lockfile2, opened <- opened2, holder <- holder2,
                 listening <- listening2, apc <- apc2, spc <- spc2, srv <- srv2, ended <- ended2

lvars2 == <<sock2, lockfile2, opened2, holder2, listening2, apc2, spc2, srv2, ended2, lpc, asked>>

mcvars == <<vars, logout, quiet, lvars2>>

QInit == Init /\ quiet = FALSE /\ Logout!LInit /\ logout \in BOOLEAN

GoesQuiet == quiet' = TRUE /\ UNCHANGED vars

Runs ==
  /\ \/ \E a \in Agents : AgentStep(a) \/ (~quiet /\ AgentEnds(a))
     \/ \E s \in Sessions : SessionStep(s) \/ (~quiet /\ StartFails(s))
  /\ UNCHANGED quiet

QNext ==
  \/ ~logout /\ (Runs \/ GoesQuiet) /\ UNCHANGED <<logout, lvars2>>
  \/ logout /\ Logout!LNext /\ UNCHANGED <<vars, logout, quiet>>

(* Every process that runs keeps running, and new ssh connections keep        *)
(* coming.  Nothing makes an agent end, nothing makes the run quiet.            *)
QFairness ==
  /\ \A a \in Agents : WF_mcvars(~logout /\ AgentStep(a) /\ UNCHANGED <<logout, quiet, lvars2>>)
  /\ \A s \in Sessions : WF_mcvars(~logout /\ SessionStep(s) /\ UNCHANGED <<logout, quiet, lvars2>>)

QSpec == QInit /\ [][QNext]_mcvars /\ QFairness

(* Whatever a killed agent left behind (a stale socket, an orphaned lock      *)
(* file) and whatever start races are under way, once agents stop ending one  *)
(* of them owns the path and keeps answering.                                 *)
Recovery == quiet ~> []Dialable

(* On the second machine: two agents may hold two lock files after a logout, but   *)
(* never one, and an agent accepts connections only with the lock of the file it   *)
(* opened.                                                                   *)
ListenerHoldsItsLock == Logout!ListenerHoldsItsLock
=============================================================================
