-------------------------------- MODULE Agent --------------------------------
(***************************************************************************)
(* The background SSH agent of nk (internal/ssh/agent.go, agent_unix.go):   *)
(* agent processes racing for one socket path through an flock'ed lock      *)
(* file, and the ssh sessions (nk proxy, then ssh itself) that look for an   *)
(* agent, start one when none answers, and connect to it.                   *)
(*                                                                         *)
(* A member of Agents is a process slot: it is reused once the process in   *)
(* it is gone.  Inodes are the files that agent.sock.lock may name; flock    *)
(* locks the file a process opened, not the path.                           *)
(***************************************************************************)

CONSTANTS Agents,      \* slots for nk agent processes
          Sessions,    \* ssh connections, each one EnsureAgent then a sign
          Inodes,      \* files the path agent.sock.lock can name over time
          None         \* no agent, no file

ASSUME NoneAssumption == None \notin Agents \cup Inodes

VARIABLES
  sock,       \* the agent whose socket file is at the path, None if no file
  lockfile,   \* the inode agent.sock.lock names, None if the path is free
  opened,     \* opened[a]: the inode agent a has open, None if none
  holder,     \* holder[i]: the agent that holds the flock of inode i
  listening,  \* the agents whose listening descriptor is open
  apc,        \* apc[a]: where agent a is
  spc,        \* spc[s]: where session s is
  srv,        \* srv[s]: the agent session s is connected to
  ended       \* ended[s]: since s began some agent ended, or its own did not start (history)

avars == <<sock, lockfile, opened, holder, listening, apc>>
vars  == <<sock, lockfile, opened, holder, listening, apc, spc, srv, ended>>

Starting  == {"alive", "open", "flock", "remove", "bind"}
Closing   == {"close", "unlock", "ended"}
AgentPC   == {"off", "serving"} \cup Starting \cup Closing
SessionPC == {"idle", "spawn", "poll", "use", "queued", "served",
              "done", "refused", "failed"}

TypeOK ==
  /\ sock \in Agents \cup {None}
  /\ lockfile \in Inodes \cup {None}
  /\ opened \in [Agents -> Inodes \cup {None}]
  /\ holder \in [Inodes -> Agents \cup {None}]
  /\ listening \subseteq Agents
  /\ apc \in [Agents -> AgentPC]
  /\ spc \in [Sessions -> SessionPC]
  /\ srv \in [Sessions -> Agents \cup {None}]
  /\ ended \in [Sessions -> BOOLEAN]
  /\ \A a \in Agents : apc[a] = "flock" => opened[a] # None

Init ==
  /\ sock = None
  /\ lockfile = None
  /\ opened = [a \in Agents |-> None]
  /\ holder = [i \in Inodes |-> None]
  /\ listening = {}
  /\ apc = [a \in Agents |-> "off"]
  /\ spc = [s \in Sessions |-> "idle"]
  /\ srv = [s \in Sessions |-> None]
  /\ ended = [s \in Sessions |-> FALSE]

-----------------------------------------------------------------------------
(* Dialing.  A dial reaches the agent that bound the file at the path, and   *)
(* only while that agent's descriptor is open: a file left by a killed agent *)
(* refuses the connection.                                                  *)
Dialable == sock # None /\ sock \in listening

(* Every running session sees that an agent ended. *)
NoteEnd == ended' = [s \in Sessions |-> TRUE]

(* The connections of agent a in the given states are reset. *)
Reset(a, from) ==
  spc' = [s \in Sessions |->
            IF srv[s] = a /\ spc[s] \in from THEN "failed" ELSE spc[s]]

(* The kernel drops a's flock when the descriptor or the process goes. *)
Unlocked(a) == [i \in Inodes |-> IF holder[i] = a THEN None ELSE holder[i]]

-----------------------------------------------------------------------------
(* Mutant: the agent looks for the socket file instead of dialing it. *)
FindSocketFile(a) ==
  /\ apc[a] = "alive"
  /\ apc' = [apc EXCEPT ![a] = IF sock # None THEN "off" ELSE "open"]
  /\ UNCHANGED <<sock, lockfile, opened, holder, listening, spc, srv, ended>>

(* RunAgent returns at once when another agent answers. *)
FindAlive(a) ==
  /\ apc[a] = "alive"
  /\ apc' = [apc EXCEPT ![a] = IF Dialable THEN "off" ELSE "open"]
  /\ UNCHANGED <<sock, lockfile, opened, holder, listening, spc, srv, ended>>

(* Mutant: the error of OpenFile is ignored. *)
IgnoreOpenError(a) ==
  /\ apc[a] = "open"
  /\ apc' = [apc EXCEPT ![a] = "flock"]
  /\ UNCHANGED <<sock, lockfile, opened, holder, listening, spc, srv, ended>>

(* os.OpenFile(path.lock, O_CREATE): a free path gets a new inode, one that  *)
(* no process has open.                                                     *)
OpenLock(a) ==
  /\ apc[a] = "open"
  /\ \E i \in Inodes :
       /\ IF lockfile # None THEN i = lockfile
                             ELSE \A b \in Agents : opened[b] # i
       /\ lockfile' = i
       /\ opened' = [opened EXCEPT ![a] = i]
  /\ apc' = [apc EXCEPT ![a] = "flock"]
  /\ UNCHANGED <<sock, holder, listening, spc, srv, ended>>

(* Mutant: the lock is a shared one (LOCK_SH). *)
TakeSharedLock(a) ==
  /\ apc[a] = "flock"
  /\ holder' = [holder EXCEPT ![opened[a]] = a]
  /\ apc' = [apc EXCEPT ![a] = "remove"]
  /\ UNCHANGED <<sock, lockfile, opened, listening, spc, srv, ended>>

(* syscall.Flock(LOCK_EX|LOCK_NB) succeeds. *)
TakeLock(a) ==
  /\ apc[a] = "flock"
  /\ holder[opened[a]] = None
  /\ holder' = [holder EXCEPT ![opened[a]] = a]
  /\ apc' = [apc EXCEPT ![a] = "remove"]
  /\ UNCHANGED <<sock, lockfile, opened, listening, spc, srv, ended>>

(* Mutant: the error of Flock is ignored. *)
IgnoreLostLock(a) ==
  /\ apc[a] = "flock"
  /\ holder[opened[a]] # None
  /\ apc' = [apc EXCEPT ![a] = "remove"]
  /\ UNCHANGED <<sock, lockfile, opened, holder, listening, spc, srv, ended>>

(* Flock fails: another agent owns the socket.  RunAgent dials once more to  *)
(* choose its exit status and exits either way.                             *)
LoseLock(a) ==
  /\ apc[a] = "flock"
  /\ holder[opened[a]] # None
  /\ opened' = [opened EXCEPT ![a] = None]
  /\ apc' = [apc EXCEPT ![a] = "off"]
  /\ UNCHANGED <<sock, lockfile, holder, listening, spc, srv, ended>>

(* Mutant: a stale socket file is left where it is. *)
KeepStale(a) ==
  /\ apc[a] = "remove"
  /\ apc' = [apc EXCEPT ![a] = "bind"]
  /\ UNCHANGED <<sock, lockfile, opened, holder, listening, spc, srv, ended>>

(* os.Remove(path): under the lock an existing socket file is stale. *)
RemoveStale(a) ==
  /\ apc[a] = "remove"
  /\ sock' = None
  /\ apc' = [apc EXCEPT ![a] = "bind"]
  /\ UNCHANGED <<lockfile, opened, holder, listening, spc, srv, ended>>

(* Listen binds the path, which must be free. *)
Bind(a) ==
  /\ apc[a] = "bind"
  /\ sock = None
  /\ sock' = a
  /\ listening' = listening \cup {a}
  /\ apc' = [apc EXCEPT ![a] = "serving"]
  /\ UNCHANGED <<lockfile, opened, holder, spc, srv, ended>>

(* OpenFile, Remove, Listen or Chmod fails: the lock is released and the agent *)
(* exits.                                                                   *)
ListenFails(a) ==
  /\ apc[a] \in {"open", "remove", "bind"}
  /\ holder' = Unlocked(a)
  /\ opened' = [opened EXCEPT ![a] = None]
  /\ apc' = [apc EXCEPT ![a] = "off"]
  /\ NoteEnd
  /\ UNCHANGED <<sock, lockfile, listening, spc, srv>>

(* The accept loop takes a queued connection.  keyring() gives a signer and  *)
(* the connection is served, or it errs and the connection is closed.       *)
Accept(a, s) ==
  /\ apc[a] \in {"serving", "close"} /\ a \in listening
  /\ spc[s] = "queued" /\ srv[s] = a
  /\ \/ spc' = [spc EXCEPT ![s] = "served"]
     \/ spc' = [spc EXCEPT ![s] = "refused"]
  /\ UNCHANGED <<avars, srv, ended>>

(* shutdown(): the idle timer fires, the context ends or the shutdown        *)
(* extension arrives.  The timer restarts on an accept only, so it also       *)
(* fires with connections open or queued.  Closing the listener first        *)
(* unlinks whatever file is at the path ...                                  *)
Shutdown(a) ==
  /\ apc[a] = "serving"
  /\ sock' = None
  /\ apc' = [apc EXCEPT ![a] = "close"]
  /\ NoteEnd
  /\ UNCHANGED <<lockfile, opened, holder, listening, spc, srv>>

(* ... then closes the descriptor, which resets the queued connections ...   *)
CloseListener(a) ==
  /\ apc[a] = "close"
  /\ listening' = listening \ {a}
  /\ Reset(a, {"queued"})
  /\ apc' = [apc EXCEPT ![a] = "unlock"]
  /\ UNCHANGED <<sock, lockfile, opened, holder, srv, ended>>

(* ... then the lock goes ... *)
Unlock(a) ==
  /\ apc[a] = "unlock"
  /\ holder' = Unlocked(a)
  /\ opened' = [opened EXCEPT ![a] = None]
  /\ apc' = [apc EXCEPT ![a] = "ended"]
  /\ UNCHANGED <<sock, lockfile, listening, spc, srv, ended>>

(* Accept fails as soon as the descriptor is closed, before the lock goes or       *)
(* after it: RunAgent returns and the process ends with every connection it       *)
(* still serves.                                                             *)
Exit(a) ==
  /\ apc[a] \in {"unlock", "ended"}
  /\ holder' = Unlocked(a)
  /\ opened' = [opened EXCEPT ![a] = None]
  /\ Reset(a, {"served"})
  /\ apc' = [apc EXCEPT ![a] = "off"]
  /\ NoteEnd
  /\ UNCHANGED <<sock, lockfile, listening, srv>>

(* The process is killed: the kernel closes its descriptors, which frees the *)
(* flock and resets its connections, and the socket file stays.             *)
Crash(a) ==
  /\ apc[a] # "off"
  /\ holder' = Unlocked(a)
  /\ opened' = [opened EXCEPT ![a] = None]
  /\ listening' = listening \ {a}
  /\ Reset(a, {"queued", "served"})
  /\ apc' = [apc EXCEPT ![a] = "off"]
  /\ NoteEnd
  /\ UNCHANGED <<sock, lockfile, srv>>

-----------------------------------------------------------------------------
(* A new ssh connection: EnsureAgent first looks whether an agent answers.   *)
Begin(s) ==
  /\ spc[s] \in {"idle", "done", "refused", "failed"}
  /\ spc' = [spc EXCEPT ![s] = IF Dialable THEN "use" ELSE "spawn"]
  /\ srv' = [srv EXCEPT ![s] = None]
  /\ ended' = [ended EXCEPT ![s] = FALSE]
  /\ UNCHANGED avars

(* exec "nk agent", detached.  One start per EnsureAgent. *)
Start(s, a) ==
  /\ spc[s] = "spawn"
  /\ apc[a] = "off"
  /\ apc' = [apc EXCEPT ![a] = "alive"]
  /\ spc' = [spc EXCEPT ![s] = "poll"]
  /\ UNCHANGED <<sock, lockfile, opened, holder, listening, srv, ended>>

(* cmd.Start fails: there is no agent to poll for. *)
StartFails(s) ==
  /\ spc[s] = "spawn"
  /\ spc' = [spc EXCEPT ![s] = "failed"]
  /\ ended' = [ended EXCEPT ![s] = TRUE]
  /\ UNCHANGED <<avars, srv>>

(* One of the 50 polls gets through. *)
PollHit(s) ==
  /\ spc[s] = "poll"
  /\ Dialable
  /\ spc' = [spc EXCEPT ![s] = "use"]
  /\ UNCHANGED <<avars, srv, ended>>

(* All 50 polls failed.  They take 5 s, a start or a shutdown a few system   *)
(* calls: none is under way any more.                                       *)
Settled == \A a \in Agents : apc[a] \in {"off", "serving"}

GiveUp(s) ==
  /\ spc[s] = "poll"
  /\ ~Dialable
  /\ Settled
  /\ spc' = [spc EXCEPT ![s] = "failed"]
  /\ UNCHANGED <<avars, srv, ended>>

(* ssh dials the socket to sign with the identity.  The kernel queues the    *)
(* connection until the agent accepts it.                                   *)
Connect(s) ==
  /\ spc[s] = "use"
  /\ IF Dialable
       THEN /\ spc' = [spc EXCEPT ![s] = "queued"]
            /\ srv' = [srv EXCEPT ![s] = sock]
       ELSE /\ spc' = [spc EXCEPT ![s] = "failed"]
            /\ UNCHANGED srv
  /\ UNCHANGED <<avars, ended>>

(* ssh got its signature and closes the connection. *)
Signed(s) ==
  /\ spc[s] = "served"
  /\ spc' = [spc EXCEPT ![s] = "done"]
  /\ UNCHANGED <<avars, srv, ended>>

-----------------------------------------------------------------------------
AgentStep(a) ==
  \/ FindAlive(a) \/ OpenLock(a) \/ TakeLock(a) \/ LoseLock(a)
  \/ RemoveStale(a) \/ Bind(a) \/ CloseListener(a) \/ Unlock(a) \/ Exit(a)
  \/ \E s \in Sessions : Accept(a, s)

AgentEnds(a) == Shutdown(a) \/ ListenFails(a) \/ Crash(a)

SessionStep(s) ==
  \/ Begin(s) \/ PollHit(s) \/ GiveUp(s) \/ Connect(s) \/ Signed(s)
  \/ \E a \in Agents : Start(s, a)

Next ==
  \/ \E a \in Agents : AgentStep(a) \/ AgentEnds(a)
  \/ \E s \in Sessions : SessionStep(s) \/ StartFails(s)

Spec == Init /\ [][Next]_vars

-----------------------------------------------------------------------------
(* At most one agent accepts connections, and it is the one that holds the   *)
(* lock of the file now at the lock path.                                   *)
OneListener ==
  \A a \in listening : lockfile # None /\ holder[lockfile] = a

(* An agent in its accept loop is the one the path leads to: no other agent, *)
(* starting or exiting, unlinks or replaces its socket.                     *)
ServingReachable ==
  \A a \in Agents : apc[a] = "serving" => sock = a /\ a \in listening

(* "Without the lock ... the loser unlinks the winner's on exit": an agent   *)
(* that shuts down never removes the socket of another one.                 *)
UnlinksOwnSocket ==
  [][\A a \in Agents : Shutdown(a) => sock \in {a, None}]_vars

(* However many sessions start agents at once, a session is left without a   *)
(* signer only if after it began some agent ended (idle, killed, could not    *)
(* listen) or could not be started: losing a race is never the reason.       *)
NoSpuriousFailure ==
  \A s \in Sessions : spc[s] = "failed" => ended[s]

(* "One agent owns the socket" (agent_unix.go:33): seen from outside, agents *)
(* take connections one after the other.  A new one comes only when none     *)
(* takes any, an agent that stopped never starts again, and who is connected *)
(* to an agent loses it, at the latest, with the end of its process.          *)
Leaving   == {a \in Agents : apc[a] \in Closing}
Connected == [s \in Sessions |-> IF spc[s] \in {"queued", "served"} THEN srv[s] ELSE None]

Service == INSTANCE AgentService
             WITH current <- {a \in Agents : apc[a] = "serving"}, leaving <- Leaving, conn <- Connected

OneService == Service!Spec
=============================================================================
