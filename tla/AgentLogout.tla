----------------------------- MODULE AgentLogout -----------------------------
(* Agent composed with nk logout (internal/cmd/login.go), which asks the       *)
(* running agent to exit and then removes the config directory, the agent's    *)
(* socket and lock file with it.                                              *)
EXTENDS Agent

VARIABLES lpc,    \* where nk logout is
          asked   \* the agent whose answer it waits for, None once it is gone

lvars == <<vars, lpc, asked>>

LTypeOK == TypeOK /\ lpc \in {"idle", "asking", "remove"} /\ asked \in Agents \cup {None}

LInit == Init /\ lpc = "idle" /\ asked = None

(* StopAgent dials.  No answer, nothing to stop. *)
AskAgent ==
  /\ lpc = "idle"
  /\ IF Dialable THEN lpc' = "asking" /\ asked' = sock
                 ELSE lpc' = "remove" /\ UNCHANGED asked
  /\ UNCHANGED vars

(* The agent closed the connection without serving it: keyring() failed, the  *)
(* extension was never read, and StopAgent drops the error.                   *)
AgentRefuses ==
  /\ lpc = "asking"
  /\ asked # None /\ asked \in listening
  /\ lpc' = "remove"
  /\ asked' = None
  /\ UNCHANGED vars

(* The agent answered after shutdown(), or its exit reset the connection. *)
AgentStopped ==
  /\ lpc = "asking"
  /\ asked = None
  /\ lpc' = "remove"
  /\ UNCHANGED <<vars, asked>>

(* os.RemoveAll(ConfigDir): agent.sock and agent.sock.lock go.  What a process *)
(* has open stays open, an flock it holds stays held.  The next nk command     *)
(* makes the directory again (paths.EnsureDirs).                              *)
RemoveConfigDir ==
  /\ lpc = "remove"
  /\ sock' = None
  /\ lockfile' = None
  /\ lpc' = "idle"
  /\ UNCHANGED <<opened, holder, listening, apc, spc, srv, ended, asked>>

LogoutStep == AskAgent \/ AgentRefuses \/ AgentStopped \/ RemoveConfigDir

LNext ==
  \/ /\ Next
     /\ asked' = IF asked # None /\ apc'[asked] = "off" THEN None ELSE asked
     /\ UNCHANGED lpc
  \/ LogoutStep

LSpec == LInit /\ [][LNext]_lvars

-----------------------------------------------------------------------------
(* Two agents may hold two lock files after a logout, but never one, and an    *)
(* agent accepts connections only with the lock of the file it opened.        *)
ListenerHoldsItsLock ==
  \A a \in listening : opened[a] # None /\ holder[opened[a]] = a
=============================================================================
