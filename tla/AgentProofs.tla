----------------------------- MODULE AgentProofs -----------------------------
(* What Agent promises for any number of agents, sessions and inodes.  The     *)
(* argument is one inductive invariant, LockInv: every process that opened     *)
(* the lock file opened the same inode (nothing removes the file), so the      *)
(* flock serialises everything between RemoveStale and Exit.  Once nk logout     *)
(* may remove that file only the part of it is left that follows each agent's     *)
(* own descriptor, OwnLocks.                                               *)
EXTENDS AgentLogout, TLAPS

Opened  == {"flock", "remove", "bind", "serving", "close", "unlock"}
Holding == Opened \ {"flock"}

LockInv ==
  /\ TypeOK
  /\ \A a \in Agents : opened[a] # None <=> apc[a] \in Opened
  /\ \A a \in Agents : opened[a] # None => opened[a] = lockfile
  /\ \A a \in Agents : apc[a] \in Holding => holder[opened[a]] = a
  /\ \A i \in Inodes : holder[i] # None =>
       opened[holder[i]] = i /\ apc[holder[i]] \in Holding
  /\ \A a \in Agents : a \in listening <=> apc[a] \in {"serving", "close"}
  /\ \A a \in Agents : apc[a] = "serving" => sock = a
  /\ \A a \in Agents : apc[a] = "close" => sock # a

LEMMA TypeInit == Init => TypeOK
  BY NoneAssumption DEF Init, TypeOK, AgentPC, SessionPC

LEMMA TypeStep == TypeOK /\ [Next]_vars => TypeOK'
<1> USE NoneAssumption
<1> SUFFICES ASSUME TypeOK, [Next]_vars
             PROVE  TypeOK'
  OBVIOUS
<1> USE DEF TypeOK, AgentPC, SessionPC, Starting, Closing, avars
<1>1. ASSUME NEW a \in Agents, AgentStep(a) \/ AgentEnds(a)
      PROVE  TypeOK'
  <2>1. CASE FindAlive(a)
    BY <2>1 DEF FindAlive
  <2>2. CASE OpenLock(a)
    BY <2>2 DEF OpenLock
  <2>3. CASE TakeLock(a)
    BY <2>3 DEF TakeLock
  <2>4. CASE LoseLock(a)
    BY <2>4 DEF LoseLock
  <2>5. CASE RemoveStale(a)
    BY <2>5 DEF RemoveStale
  <2>6. CASE Bind(a)
    BY <2>6 DEF Bind
  <2>7. CASE CloseListener(a)
    BY <2>7 DEF CloseListener, Reset
  <2>8. CASE Exit(a)
    BY <2>8 DEF Exit, Reset, Unlocked, NoteEnd
  <2>9. CASE (\E s \in Sessions : Accept(a, s)) \/ Unlock(a)
    BY <2>9 DEF Accept, Unlock, Unlocked
  <2>10. CASE Shutdown(a)
    BY <2>10 DEF Shutdown, NoteEnd
  <2>11. CASE ListenFails(a)
    BY <2>11 DEF ListenFails, Unlocked, NoteEnd
  <2>12. CASE Crash(a)
    BY <2>12 DEF Crash, Reset, Unlocked, NoteEnd
  <2> QED
    BY <1>1, <2>1, <2>2, <2>3, <2>4, <2>5, <2>6, <2>7, <2>8, <2>9, <2>10,
       <2>11, <2>12 DEF AgentStep, AgentEnds
<1>2. ASSUME NEW s \in Sessions, SessionStep(s) \/ StartFails(s)
      PROVE  TypeOK'
  <2>1. CASE Begin(s)
    BY <2>1 DEF Begin
  <2>2. CASE PollHit(s) \/ StartFails(s)
    BY <2>2 DEF PollHit, StartFails
  <2>3. CASE GiveUp(s)
    BY <2>3 DEF GiveUp
  <2>4. CASE Connect(s)
    BY <2>4 DEF Connect, Dialable
  <2>5. CASE Signed(s)
    BY <2>5 DEF Signed
  <2>6. ASSUME NEW a \in Agents, Start(s, a)
        PROVE  TypeOK'
    BY <2>6 DEF Start
  <2> QED
    BY <1>2, <2>1, <2>2, <2>3, <2>4, <2>5, <2>6 DEF SessionStep
<1>3. CASE UNCHANGED vars
  BY <1>3 DEF vars
<1> QED
  BY <1>1, <1>2, <1>3 DEF Next

(* Every state component keeps its type: a session or an agent is always in    *)
(* one of its program points, the lock file's holder is an agent slot, and an    *)
(* agent that comes to the flock has a file open.                             *)
THEOREM Typing == Spec => []TypeOK
  BY TypeInit, TypeStep, PTL DEF Spec

-----------------------------------------------------------------------------
LEMMA LockInvInit == Init => LockInv
  BY NoneAssumption, TypeInit DEF Init, LockInv, Opened, Holding

(* The first open makes the lock file; before it no agent has an inode open. *)
LEMMA OpenLockStep ==
  ASSUME LockInv, TypeOK', NEW a \in Agents, OpenLock(a)
  PROVE  LockInv'
<1> USE NoneAssumption DEF TypeOK, AgentPC
<1>1. PICK i \in Inodes :
        /\ IF lockfile # None THEN i = lockfile
                              ELSE \A b \in Agents : opened[b] # i
        /\ lockfile' = i
        /\ opened' = [opened EXCEPT ![a] = i]
  BY DEF OpenLock
<1>2. apc[a] = "open" /\ apc' = [apc EXCEPT ![a] = "flock"]
      /\ UNCHANGED <<sock, holder, listening>>
  BY DEF OpenLock
<1>3. opened[a] = None
  BY <1>2 DEF LockInv, Opened
<1>4. \A b \in Agents : opened[b] # None => opened[b] = i
  BY <1>1, <1>2 DEF LockInv
<1>5. (\A b \in Agents : opened'[b] # None <=> apc'[b] \in Opened)
      /\ (\A b \in Agents : opened'[b] # None => opened'[b] = lockfile')
  BY <1>1, <1>2, <1>4 DEF LockInv, Opened
<1>6. \A b \in Agents : apc'[b] \in Holding => holder'[opened'[b]] = b
  BY <1>1, <1>2 DEF LockInv, Opened, Holding
<1>7. \A j \in Inodes : holder'[j] # None =>
        opened'[holder'[j]] = j /\ apc'[holder'[j]] \in Holding
  <2> SUFFICES ASSUME NEW j \in Inodes, holder[j] # None
               PROVE  opened'[holder[j]] = j /\ apc'[holder[j]] \in Holding
    BY <1>2
  <2>1. holder[j] \in Agents /\ opened[holder[j]] = j /\ apc[holder[j]] \in Holding
    BY DEF LockInv
  <2>2. holder[j] # a
    BY <2>1, <1>2 DEF Holding, Opened
  <2> QED
    BY <2>1, <2>2, <1>1, <1>2
<1>8. (\A b \in Agents : b \in listening' <=> apc'[b] \in {"serving", "close"})
      /\ (\A b \in Agents : apc'[b] = "serving" => sock' = b)
      /\ (\A b \in Agents : apc'[b] = "close" => sock' # b)
  BY <1>2 DEF LockInv
<1> QED
  BY <1>5, <1>6, <1>7, <1>8 DEF LockInv

(* Two agents between TakeLock and Exit are the same agent: both opened the    *)
(* one inode at the path, and it has one holder.                             *)
LEMMA OneHolder ==
  ASSUME LockInv, NEW a \in Agents, NEW b \in Agents,
         apc[a] \in Holding, apc[b] \in Holding
  PROVE  a = b
  BY DEF LockInv, Opened, Holding

(* Giving the lock up: the agent closes its descriptors, before it is gone or then. *)
LEMMA ReleaseStep ==
  ASSUME LockInv, TypeOK', NEW a \in Agents, NEW p \in {"off", "ended"},
         holder' = Unlocked(a),
         opened' = [opened EXCEPT ![a] = None],
         apc' = [apc EXCEPT ![a] = p],
         listening' = listening \ {a},
         UNCHANGED <<sock, lockfile>>
  PROVE  LockInv'
<1> USE NoneAssumption DEF TypeOK, AgentPC
<1>1. (\A b \in Agents : opened'[b] # None <=> apc'[b] \in Opened)
      /\ (\A b \in Agents : opened'[b] # None => opened'[b] = lockfile')
  BY DEF LockInv, Opened
<1>2. \A b \in Agents : apc'[b] \in Holding => holder'[opened'[b]] = b
  BY DEF LockInv, Opened, Holding, Unlocked
<1>3. \A j \in Inodes : holder'[j] # None =>
        opened'[holder'[j]] = j /\ apc'[holder'[j]] \in Holding
  BY DEF LockInv, Unlocked
<1>4. (\A b \in Agents : b \in listening' <=> apc'[b] \in {"serving", "close"})
      /\ (\A b \in Agents : apc'[b] = "serving" => sock' = b)
      /\ (\A b \in Agents : apc'[b] = "close" => sock' # b)
  BY DEF LockInv
<1> QED
  BY <1>1, <1>2, <1>3, <1>4 DEF LockInv

(* A holder moves on without touching the lock: what it does to the socket     *)
(* path disturbs nobody, because nobody else is between TakeLock and Exit.    *)
LEMMA HolderStep ==
  ASSUME LockInv, TypeOK', NEW a \in Agents, apc[a] \in Holding,
         RemoveStale(a) \/ Bind(a) \/ Shutdown(a) \/ CloseListener(a)
  PROVE  LockInv'
<1> USE NoneAssumption DEF TypeOK, AgentPC
<1>1. \A b \in Agents : apc[b] \in Holding => b = a
  BY OneHolder
<1>2. UNCHANGED <<lockfile, opened, holder>>
      /\ \E p \in Holding : apc' = [apc EXCEPT ![a] = p]
  BY DEF RemoveStale, Bind, Shutdown, CloseListener, Holding, Opened
<1>3. (\A b \in Agents : opened'[b] # None <=> apc'[b] \in Opened)
      /\ (\A b \in Agents : opened'[b] # None => opened'[b] = lockfile')
      /\ (\A b \in Agents : apc'[b] \in Holding => holder'[opened'[b]] = b)
  BY <1>2 DEF LockInv, Holding, Opened
<1>4. \A j \in Inodes : holder'[j] # None =>
        opened'[holder'[j]] = j /\ apc'[holder'[j]] \in Holding
  BY <1>2 DEF LockInv
<1>5. \A b \in Agents : b # a => apc'[b] \notin {"serving", "close"}
                              /\ b \notin listening
  BY <1>1, <1>2 DEF LockInv, Holding, Opened
<1>6. (\A b \in Agents : b \in listening' <=> apc'[b] \in {"serving", "close"})
      /\ (\A b \in Agents : apc'[b] = "serving" => sock' = b)
      /\ (\A b \in Agents : apc'[b] = "close" => sock' # b)
  BY <1>5 DEF LockInv, RemoveStale, Bind, Shutdown, CloseListener
<1> QED
  BY <1>3, <1>4, <1>6 DEF LockInv

LEMMA LockInvStep == LockInv /\ [Next]_vars => LockInv'
<1> SUFFICES ASSUME LockInv, [Next]_vars
             PROVE  LockInv'
  OBVIOUS
<1> USE NoneAssumption
<1>0. TypeOK /\ TypeOK'
  BY TypeStep DEF LockInv
<1>1. ASSUME NEW a \in Agents, AgentStep(a) \/ AgentEnds(a)
      PROVE  LockInv'
  <2>1. CASE FindAlive(a)
    BY <2>1, <1>0 DEF FindAlive, LockInv, TypeOK, Opened, Holding
  <2>2. CASE OpenLock(a)
    BY <2>2, <1>0, OpenLockStep
  <2>3. CASE TakeLock(a)
    BY <2>3, <1>0 DEF TakeLock, LockInv, TypeOK, Opened, Holding
  <2>4. CASE LoseLock(a)
    <3>1. holder = Unlocked(a) /\ listening = listening \ {a}
      BY <2>4, <1>0 DEF LoseLock, LockInv, TypeOK, Unlocked, Opened, Holding
    <3> QED
      BY <3>1, <2>4, <1>0, ReleaseStep DEF LoseLock
  <2>5. CASE RemoveStale(a) \/ Bind(a) \/ CloseListener(a) \/ Shutdown(a)
    <3>1. apc[a] \in Holding
      BY <2>5 DEF RemoveStale, Bind, CloseListener, Shutdown, Holding, Opened
    <3> QED
      BY <3>1, <2>5, <1>0, HolderStep
  <2>6. CASE Exit(a) \/ ListenFails(a) \/ Unlock(a)
    <3>1. listening = listening \ {a}
      BY <2>6, <1>0 DEF Exit, ListenFails, Unlock, LockInv, TypeOK
    <3> QED
      BY <3>1, <2>6, <1>0, ReleaseStep DEF Exit, ListenFails, Unlock
  <2>7. CASE Crash(a)
    BY <2>7, <1>0, ReleaseStep DEF Crash
  <2>8. CASE \E s \in Sessions : Accept(a, s)
    BY <2>8, <1>0 DEF Accept, avars, LockInv
  <2> QED
    BY <1>1, <2>1, <2>2, <2>3, <2>4, <2>5, <2>6, <2>7, <2>8
       DEF AgentStep, AgentEnds
<1>2. ASSUME NEW s \in Sessions, SessionStep(s) \/ StartFails(s)
      PROVE  LockInv'
  <2>1. CASE \E a \in Agents : Start(s, a)
    BY <2>1, <1>0 DEF Start, LockInv, TypeOK, Opened, Holding
  <2>2. CASE Begin(s) \/ PollHit(s) \/ StartFails(s) \/ GiveUp(s) \/ Connect(s) \/ Signed(s)
    BY <2>2, <1>0 DEF Begin, PollHit, StartFails, GiveUp, Connect, Signed, avars, LockInv
  <2> QED
    BY <1>2, <2>1, <2>2 DEF SessionStep
<1>3. CASE UNCHANGED vars
  BY <1>3, <1>0 DEF vars, LockInv
<1> QED
  BY <1>1, <1>2, <1>3 DEF Next

(* The inductive invariant holds of every behaviour. *)
THEOREM LockInvariant == Spec => []LockInv
  BY LockInvInit, LockInvStep, PTL DEF Spec

(* Mutual exclusion: whatever agents start, race, time out or are killed, at   *)
(* most one accepts connections, and it holds the lock at the lock path.      *)
THEOREM MutualExclusion == Spec => []OneListener
<1>1. LockInv => OneListener
  <2> SUFFICES ASSUME LockInv, NEW a \in listening
               PROVE  lockfile # None /\ holder[lockfile] = a
    BY DEF OneListener
  <2>1. a \in Agents /\ apc[a] \in Holding
    BY DEF LockInv, TypeOK, Opened, Holding
  <2>2. opened[a] # None
    BY <2>1 DEF LockInv, Holding
  <2> QED
    BY <2>1, <2>2 DEF LockInv
<1> QED
  BY <1>1, LockInvariant, PTL

(* The agent in its accept loop is always the one ssh reaches. *)
THEOREM Reachability == Spec => []ServingReachable
<1>1. LockInv => ServingReachable
  BY DEF LockInv, ServingReachable
<1> QED
  BY <1>1, LockInvariant, PTL

(* No agent unlinks the socket of another one when it exits. *)
THEOREM OwnSocket == Spec => UnlinksOwnSocket
<1>1. LockInv /\ [Next]_vars =>
        [\A a \in Agents : Shutdown(a) => sock \in {a, None}]_vars
  BY DEF LockInv, Shutdown
<1> QED
  BY <1>1, LockInvariant, PTL DEF Spec, UnlinksOwnSocket

-----------------------------------------------------------------------------
(* What a session may count on while no agent has ended since it began. *)
SessionInv ==
  \A s \in Sessions : ~ended[s] =>
    /\ spc[s] = "use" => Dialable
    /\ spc[s] = "poll" => Dialable \/ ~Settled
    /\ spc[s] \in {"queued", "served"} =>
         srv[s] \in Agents /\ apc[srv[s]] = "serving"
    /\ spc[s] # "failed"

(* The path leads to an agent exactly when one is in its accept loop. *)
LEMMA DialableServing ==
  ASSUME LockInv
  PROVE  Dialable <=> \E a \in Agents : apc[a] = "serving"
  BY NoneAssumption DEF LockInv, TypeOK, Dialable

LEMMA SessionInvInit == Init => SessionInv
  BY DEF Init, SessionInv

(* Agents that keep running only ever move towards an answer: one that gives   *)
(* up lost to another that serves or is still busy.                          *)
LEMMA AgentKeepsSessionInv ==
  ASSUME LockInv, SessionInv, LockInv', NEW a \in Agents, AgentStep(a)
  PROVE  SessionInv'
<1> USE NoneAssumption
<1>0. TypeOK /\ TypeOK'
  BY DEF LockInv
<1>1. Dialable => Dialable' \/ Exit(a)
  <2>1. ASSUME NEW b \in Agents, apc[b] = "serving", ~Exit(a)
        PROVE  apc'[b] = "serving"
    BY <2>1, <1>0 DEF AgentStep, FindAlive, OpenLock, TakeLock, LoseLock,
       RemoveStale, Bind, CloseListener, Unlock, Accept, avars, TypeOK
  <2>2. (\E b \in Agents : apc'[b] = "serving") => Dialable'
    BY <1>0 DEF LockInv, TypeOK, Dialable
  <2> QED
    BY <2>1, <2>2, DialableServing
<1>2. CASE Exit(a)
  BY <1>2, <1>0 DEF Exit, NoteEnd, SessionInv, TypeOK
<1>3. CASE \E s \in Sessions : Accept(a, s)
  BY <1>3, <1>0 DEF Accept, avars, SessionInv, TypeOK, Dialable, Settled
<1>4. CASE CloseListener(a)
  <2>1. \A s \in Sessions : ~ended[s] /\ spc[s] \in {"queued", "served"} => srv[s] # a
    BY <1>4 DEF CloseListener, SessionInv
  <2>2. \A s \in Sessions : ~ended[s] => spc'[s] = spc[s]
    BY <2>1, <1>4, <1>0 DEF CloseListener, Reset, TypeOK
  <2>3. ~Settled' /\ Dialable' = Dialable
    BY <1>4, <1>0 DEF CloseListener, Settled, TypeOK, LockInv, Dialable
  <2> QED
    BY <2>1, <2>2, <2>3, <1>4, <1>0 DEF CloseListener, SessionInv, TypeOK
<1>5. CASE FindAlive(a) \/ OpenLock(a) \/ TakeLock(a) \/ LoseLock(a)
           \/ RemoveStale(a) \/ Bind(a)
  <2>1. UNCHANGED <<spc, srv, ended>>
    BY <1>5 DEF FindAlive, OpenLock, TakeLock, LoseLock, RemoveStale, Bind
  <2>2. \A b \in Agents : apc[b] = "serving" => apc'[b] = "serving"
    BY <1>5, <1>0 DEF FindAlive, OpenLock, TakeLock, LoseLock, RemoveStale,
       Bind, TypeOK
  <2>3. Dialable' \/ ~Settled'
    <3>1. CASE FindAlive(a)
      BY <3>1, <1>0 DEF FindAlive, TypeOK, Dialable, Settled
    <3>2. CASE OpenLock(a) \/ TakeLock(a) \/ RemoveStale(a)
      BY <3>2, <1>0 DEF OpenLock, TakeLock, RemoveStale, TypeOK, Settled
    <3>3. CASE LoseLock(a)
      <4>1. holder[opened[a]] \in Agents
            /\ apc[holder[opened[a]]] \in Holding
        BY <3>3, <1>0 DEF LoseLock, LockInv, TypeOK, Opened
      <4>2. apc'[holder[opened[a]]] \in Holding
        BY <4>1, <3>3, <1>0 DEF LoseLock, TypeOK, Holding
      <4> QED
        BY <4>1, <4>2, DialableServing DEF Settled, Holding, Opened, LockInv,
           Dialable, TypeOK
    <3>4. CASE Bind(a)
      BY <3>4, <1>0 DEF Bind, TypeOK, Dialable
    <3> QED
      BY <1>5, <3>1, <3>2, <3>3, <3>4
  <2> QED
    BY <2>1, <2>2, <2>3, <1>1, <1>5, <1>0 DEF SessionInv, FindAlive, OpenLock,
       TakeLock, LoseLock, RemoveStale, Bind, Exit
<1>6. CASE Unlock(a)
  <2>1. UNCHANGED <<spc, srv, ended, sock, listening>> /\ ~Settled'
        /\ \A b \in Agents : apc[b] = "serving" => apc'[b] = "serving"
    BY <1>6, <1>0 DEF Unlock, Settled, TypeOK
  <2> QED
    BY <2>1 DEF SessionInv, Dialable
<1> QED
  BY <1>2, <1>3, <1>4, <1>5, <1>6 DEF AgentStep

LEMMA SessionInvStep == LockInv /\ SessionInv /\ [Next]_vars => SessionInv'
<1> SUFFICES ASSUME LockInv, SessionInv, [Next]_vars
             PROVE  SessionInv'
  OBVIOUS
<1> USE NoneAssumption
<1>0. LockInv' /\ TypeOK /\ TypeOK'
  BY LockInvStep DEF LockInv
<1>1. ASSUME NEW a \in Agents, AgentStep(a)
      PROVE  SessionInv'
  BY <1>0, <1>1, AgentKeepsSessionInv
<1>2. ASSUME NEW a \in Agents, AgentEnds(a)
      PROVE  SessionInv'
  BY <1>2 DEF AgentEnds, Shutdown, ListenFails, Crash, NoteEnd, SessionInv
<1>3. ASSUME NEW s \in Sessions, SessionStep(s) \/ StartFails(s)
      PROVE  SessionInv'
  <2>1. CASE \E a \in Agents : Start(s, a)
    BY <2>1, <1>0 DEF Start, SessionInv, TypeOK, Dialable, Settled
  <2>2. CASE Begin(s)
    BY <2>2, <1>0 DEF Begin, avars, SessionInv, TypeOK, Dialable, Settled
  <2>3. CASE Connect(s)
    <3>1. Dialable => sock \in Agents /\ apc[sock] = "serving"
      BY DEF Dialable, LockInv, TypeOK
    <3> QED
      BY <3>1, <2>3, <1>0 DEF Connect, avars, SessionInv, TypeOK, Dialable, Settled
  <2>4. CASE PollHit(s) \/ StartFails(s) \/ GiveUp(s) \/ Signed(s)
    BY <2>4, <1>0 DEF PollHit, StartFails, GiveUp, Signed, avars, SessionInv, TypeOK,
       Dialable, Settled
  <2> QED
    BY <1>3, <2>1, <2>2, <2>3, <2>4 DEF SessionStep
<1>4. CASE UNCHANGED vars
  BY <1>4 DEF vars, SessionInv, Dialable, Settled
<1> QED
  BY <1>1, <1>2, <1>3, <1>4 DEF Next

(* Losing a start race never costs a session its signer: a session fails only  *)
(* after some agent ended while it ran.                                      *)
THEOREM FailureHasACause == Spec => []NoSpuriousFailure
<1>1. LockInv /\ SessionInv => NoSpuriousFailure
  BY DEF SessionInv, NoSpuriousFailure, LockInv, TypeOK
<1>2. Spec => []SessionInv
  BY LockInvariant, SessionInvInit, SessionInvStep, PTL DEF Spec
<1> QED
  BY <1>1, <1>2, LockInvariant, PTL

-----------------------------------------------------------------------------
(* The refinement.  A connection leads to an agent that is there; once that one    *)
(* has closed its listener, only the connections it accepted are left.            *)
ConnInv ==
  \A s \in Sessions : spc[s] \in {"queued", "served"} =>
    /\ srv[s] \in Agents
    /\ \/ apc[srv[s]] \in {"serving", "close"}
       \/ spc[s] = "served" /\ apc[srv[s]] \in {"unlock", "ended"}

LEMMA ConnInvStep == LockInv /\ LockInv' /\ ConnInv /\ [Next]_vars => ConnInv'
<1> SUFFICES ASSUME LockInv, LockInv', ConnInv, [Next]_vars PROVE ConnInv'
  OBVIOUS
<1>0. TypeOK /\ TypeOK'
  BY DEF LockInv
<1>1. ASSUME NEW a \in Agents, FindAlive(a) \/ OpenLock(a) \/ TakeLock(a) \/ LoseLock(a)
                                 \/ RemoveStale(a) \/ Bind(a) \/ Shutdown(a) \/ ListenFails(a) \/ Unlock(a)
      PROVE  ConnInv'
  <2>1. UNCHANGED <<spc, srv>>
    BY <1>1 DEF FindAlive, OpenLock, TakeLock, LoseLock, RemoveStale, Bind, Shutdown, ListenFails, Unlock
  <2>2. \A b \in Agents :
          /\ apc[b] \in {"serving", "close"} => apc'[b] \in {"serving", "close"}
          /\ apc[b] \in {"unlock", "ended"} => apc'[b] \in {"unlock", "ended"}
    BY <1>1, <1>0 DEF FindAlive, OpenLock, TakeLock, LoseLock, RemoveStale, Bind, Shutdown, ListenFails,
                      Unlock, TypeOK
  <2> QED
    BY <2>1, <2>2 DEF ConnInv
<1>2. ASSUME NEW a \in Agents, CloseListener(a) PROVE ConnInv'
  <2>1. srv' = srv /\ apc' = [apc EXCEPT ![a] = "unlock"]
        /\ \A s \in Sessions : spc'[s] = IF srv[s] = a /\ spc[s] = "queued" THEN "failed" ELSE spc[s]
    BY <1>2 DEF CloseListener, Reset
  <2> QED
    BY <2>1, <1>0 DEF ConnInv, TypeOK
<1>3. ASSUME NEW a \in Agents, Exit(a) \/ Crash(a) PROVE ConnInv'
  <2>1. srv' = srv /\ \A b \in Agents \ {a} : apc'[b] = apc[b]
    BY <1>3, <1>0 DEF Exit, Crash, TypeOK
  <2>2. \A s \in Sessions : spc'[s] \in {"queued", "served"} => srv[s] # a /\ spc'[s] = spc[s]
    <3>1. CASE Crash(a)
      BY <3>1 DEF Crash, Reset
    <3>2. CASE Exit(a)
      <4>1. apc[a] \in {"unlock", "ended"}
            /\ \A s \in Sessions : spc'[s] = IF srv[s] = a /\ spc[s] = "served" THEN "failed" ELSE spc[s]
        BY <3>2 DEF Exit, Reset
      <4> QED
        BY <4>1 DEF ConnInv
    <3> QED
      BY <1>3, <3>1, <3>2
  <2> QED
    BY <2>1, <2>2 DEF ConnInv
<1>4. ASSUME NEW a \in Agents, NEW s \in Sessions, Accept(a, s) PROVE ConnInv'
  <2>1. UNCHANGED <<apc, srv>> /\ srv[s] = a /\ apc[a] \in {"serving", "close"}
        /\ \A r \in Sessions : r # s => spc'[r] = spc[r]
    BY <1>4, <1>0 DEF Accept, avars, TypeOK
  <2> QED
    BY <2>1 DEF ConnInv
<1>5. ASSUME NEW s \in Sessions, SessionStep(s) \/ StartFails(s) PROVE ConnInv'
  <2>1. CASE Connect(s)
    <3>1. Dialable => sock \in Agents /\ apc[sock] = "serving"
      BY DEF Dialable, LockInv, TypeOK
    <3> QED
      BY <2>1, <3>1, <1>0 DEF Connect, avars, ConnInv, TypeOK
  <2>2. ASSUME NEW a \in Agents, Start(s, a) PROVE ConnInv'
    BY <2>2, <1>0 DEF Start, ConnInv, TypeOK
  <2>3. CASE Begin(s) \/ PollHit(s) \/ StartFails(s) \/ GiveUp(s) \/ Signed(s)
    BY <2>3, <1>0 DEF Begin, PollHit, StartFails, GiveUp, Signed, avars, ConnInv, TypeOK
  <2> QED
    BY <1>5, <2>1, <2>2, <2>3 DEF SessionStep
<1>6. CASE UNCHANGED vars
  BY <1>6 DEF vars, ConnInv
<1> QED
  BY <1>1, <1>2, <1>3, <1>4, <1>5, <1>6 DEF Next, AgentStep, AgentEnds

Serving == {a \in Agents : apc[a] = "serving"}

(* A step that leaves agents and connections where they are is no step outside. *)
LEMMA UnseenStep ==
  ASSUME Serving' = Serving, Leaving' = Leaving, Connected' = Connected
  PROVE  [Service!Next]_<<Serving, Leaving, Connected>>
BY DEF Serving

LEMMA ServingIs ==
  ASSUME LockInv, NEW a \in Agents, apc[a] \in Holding
  PROVE  Serving = IF apc[a] = "serving" THEN {a} ELSE {}
BY OneHolder DEF Serving, Holding, Opened

LEMMA AgentStepSeen ==
  ASSUME LockInv, LockInv', ConnInv, NEW a \in Agents, AgentStep(a) \/ AgentEnds(a)
  PROVE  [Service!Next]_<<Serving, Leaving, Connected>>
<1>0. TypeOK /\ TypeOK'
  BY DEF LockInv
<1>1. CASE FindAlive(a) \/ OpenLock(a) \/ TakeLock(a) \/ LoseLock(a) \/ RemoveStale(a) \/ ListenFails(a)
             \/ Unlock(a)
  <2>1. Serving' = Serving /\ Leaving' = Leaving
    BY <1>1, <1>0 DEF FindAlive, OpenLock, TakeLock, LoseLock, RemoveStale, ListenFails, Unlock,
                      Serving, Leaving, Closing, TypeOK
  <2>2. UNCHANGED <<spc, srv>>
    BY <1>1 DEF FindAlive, OpenLock, TakeLock, LoseLock, RemoveStale, ListenFails, Unlock
  <2> QED
    BY <2>1, <2>2, UnseenStep DEF Connected
<1>2. CASE Bind(a)
  <2>1. apc[a] = "bind" /\ apc' = [apc EXCEPT ![a] = "serving"] /\ UNCHANGED <<spc, srv>>
    BY <1>2 DEF Bind
  <2>2. Serving = {}
    BY <2>1, ServingIs DEF Holding, Opened
  <2>3. Serving' = {a} /\ Leaving' = Leaving /\ a \notin Leaving
    BY <2>1, <2>2, <1>0 DEF Serving, Leaving, Closing, TypeOK
  <2>4. Connected' = Connected
    BY <2>1 DEF Connected
  <2>5. Service!Come
    BY <2>2, <2>3, <2>4 DEF Service!Come, Serving
  <2> QED
    BY <2>5 DEF Service!Next
<1>3. ASSUME NEW s \in Sessions, Accept(a, s) PROVE [Service!Next]_<<Serving, Leaving, Connected>>
  <2>1. Serving' = Serving /\ Leaving' = Leaving /\ srv' = srv
    BY <1>3 DEF Accept, avars, Serving, Leaving
  <2>2. CASE spc' = [spc EXCEPT ![s] = "served"]
    <3>1. spc[s] = "queued"
      BY <1>3 DEF Accept
    <3>2. Connected' = Connected
      BY <2>1, <2>2, <3>1, <1>0 DEF Connected, TypeOK
    <3> QED
      BY <2>1, <3>2, UnseenStep
  <2>3. CASE spc' = [spc EXCEPT ![s] = "refused"]
    <3>1. Connected' = [r \in Sessions |-> IF r \in {s} THEN None ELSE Connected[r]]
      BY <2>1, <2>3, <1>0 DEF Connected, TypeOK
    <3>2. Service!Part({s})
      BY <2>1, <3>1 DEF Service!Part, Service!Drop, Serving
    <3> QED
      BY <3>2 DEF Service!Next
  <2> QED
    BY <1>3, <2>2, <2>3 DEF Accept
<1>4. CASE Shutdown(a)
  <2>1. apc[a] = "serving" /\ apc' = [apc EXCEPT ![a] = "close"] /\ UNCHANGED <<spc, srv>>
    BY <1>4 DEF Shutdown
  <2>2. Serving = {a}
    BY <2>1, ServingIs DEF Holding, Opened
  <2>3. Serving' = {} /\ Leaving' = Leaving \cup {a}
    BY <2>1, <2>2, <1>0 DEF Serving, Leaving, Closing, TypeOK
  <2>4. Connected' = Connected
    BY <2>1 DEF Connected
  <2>5. Service!Stop
    BY <2>2, <2>3, <2>4 DEF Service!Stop, Serving
  <2> QED
    BY <2>5 DEF Service!Next
<1>5. CASE CloseListener(a)
  <2> DEFINE S == {s \in Sessions : srv[s] = a /\ spc[s] = "queued"}
  <2>1. apc[a] = "close" /\ apc' = [apc EXCEPT ![a] = "unlock"] /\ srv' = srv
        /\ spc' = [s \in Sessions |-> IF srv[s] = a /\ spc[s] \in {"queued"} THEN "failed" ELSE spc[s]]
    BY <1>5 DEF CloseListener, Reset
  <2>2. Serving' = Serving /\ Leaving' = Leaving
    BY <2>1, <1>0 DEF Serving, Leaving, Closing, TypeOK
  <2>3. Connected' = [s \in Sessions |-> IF s \in S THEN None ELSE Connected[s]]
    BY <2>1 DEF Connected
  <2>4. Service!Part(S)
    BY <2>2, <2>3 DEF Service!Part, Service!Drop, Serving
  <2>5. S \in SUBSET Sessions
    OBVIOUS
  <2> QED
    BY <2>4, <2>5 DEF Service!Next
<1>6. CASE Exit(a) \/ Crash(a)
  <2>1. apc' = [apc EXCEPT ![a] = "off"] /\ srv' = srv
    BY <1>6 DEF Exit, Crash
  <2>2. Serving' = Serving \ {a} /\ Leaving' = Leaving \ {a}
    BY <2>1, <1>0 DEF Serving, Leaving, Closing, TypeOK
  <2>3. Connected' = [s \in Sessions |-> IF Connected[s] = a THEN None ELSE Connected[s]]
    <3>1. ASSUME NEW s \in Sessions PROVE Connected'[s] = IF Connected[s] = a THEN None ELSE Connected[s]
      <4>1. CASE Crash(a)
        <5>1. spc'[s] = IF srv[s] = a /\ spc[s] \in {"queued", "served"} THEN "failed" ELSE spc[s]
          BY <4>1 DEF Crash, Reset
        <5> QED
          BY <5>1, <2>1, NoneAssumption DEF Connected
      <4>2. CASE Exit(a)
        <5>1. spc'[s] = IF srv[s] = a /\ spc[s] = "served" THEN "failed" ELSE spc[s]
          BY <4>2 DEF Exit, Reset
        <5>2. ~(srv[s] = a /\ spc[s] = "queued")
          BY <4>2 DEF Exit, ConnInv
        <5> QED
          BY <5>1, <5>2, <2>1, NoneAssumption DEF Connected
      <4> QED
        BY <1>6, <4>1, <4>2
    <3> QED
      BY <3>1 DEF Connected
  <2>4. CASE a \in Serving \cup Leaving
    <3>1. Connected' = [s \in Sessions |->
             IF s \in {r \in Sessions : Connected[r] = a} THEN None ELSE Connected[s]]
      BY <2>3
    <3>2. Service!Go(a)
      BY <2>2, <2>4, <3>1 DEF Service!Go, Service!Drop, Serving
    <3> QED
      BY <3>2 DEF Service!Next
  <2>5. CASE a \notin Serving \cup Leaving
    <3>1. Serving' = Serving /\ Leaving' = Leaving
      BY <2>2, <2>5
    <3>2. apc[a] \notin {"serving", "close", "unlock", "ended"}
      BY <2>5 DEF Serving, Leaving, Closing
    <3>3. \A s \in Sessions : Connected[s] # a
      BY <3>2, NoneAssumption DEF Connected, ConnInv
    <3>4. Connected' = Connected
      BY <2>3, <3>3 DEF Connected
    <3> QED
      BY <3>1, <3>4, UnseenStep
  <2> QED
    BY <2>4, <2>5
<1> QED
  BY <1>1, <1>2, <1>3, <1>4, <1>5, <1>6 DEF AgentStep, AgentEnds

LEMMA SessionStepSeen ==
  ASSUME LockInv, ConnInv, NEW s \in Sessions, SessionStep(s) \/ StartFails(s)
  PROVE  [Service!Next]_<<Serving, Leaving, Connected>>
<1>0. TypeOK
  BY DEF LockInv
<1>1. Serving' = Serving /\ Leaving' = Leaving
  <2>1. CASE \E a \in Agents : Start(s, a)
    BY <2>1, <1>0 DEF Start, Serving, Leaving, Closing, TypeOK
  <2>2. CASE Begin(s) \/ PollHit(s) \/ StartFails(s) \/ GiveUp(s) \/ Connect(s) \/ Signed(s)
    BY <2>2 DEF Begin, PollHit, StartFails, GiveUp, Connect, Signed, avars, Serving, Leaving
  <2> QED
    BY <2>1, <2>2 DEF SessionStep
<1>2. CASE Begin(s) \/ PollHit(s) \/ StartFails(s) \/ GiveUp(s) \/ (\E a \in Agents : Start(s, a)) \/ (Connect(s) /\ ~Dialable)
  <2>1. Connected' = Connected
    BY <1>2, <1>0 DEF Begin, PollHit, StartFails, GiveUp, Start, Connect, Connected, TypeOK
  <2> QED
    BY <1>1, <2>1, UnseenStep
<1>3. CASE Connect(s) /\ Dialable
  <2>1. sock \in Serving
    BY <1>3 DEF Dialable, LockInv, TypeOK, Serving
  <2>2. spc[s] = "use" /\ spc' = [spc EXCEPT ![s] = "queued"] /\ srv' = [srv EXCEPT ![s] = sock]
    BY <1>3 DEF Connect
  <2>3. Connected[s] = None /\ Connected' = [Connected EXCEPT ![s] = sock]
    BY <2>2, <1>0 DEF Connected, TypeOK
  <2>4. Service!Join(s)
    BY <1>1, <2>1, <2>3 DEF Service!Join, Serving
  <2> QED
    BY <2>4 DEF Service!Next
<1>4. CASE Signed(s)
  <2>1. spc' = [spc EXCEPT ![s] = "done"] /\ srv' = srv
    BY <1>4 DEF Signed
  <2>2. Connected' = [r \in Sessions |-> IF r \in {s} THEN None ELSE Connected[r]]
    BY <2>1, <1>0 DEF Connected, TypeOK
  <2>3. Service!Part({s})
    BY <1>1, <2>2 DEF Service!Part, Service!Drop, Serving
  <2> QED
    BY <2>3 DEF Service!Next
<1> QED
  BY <1>2, <1>3, <1>4 DEF SessionStep

(* From outside there is one agent after the other: one that comes finds nobody     *)
(* else taking connections, a connection goes to that one and stays with it, and     *)
(* an agent that is gone has none, whatever else starts, exits or is killed.        *)
THEOREM ServiceKept == Spec => OneService
<1>1. Init => ConnInv
  BY DEF Init, ConnInv
<1>2. Init => Service!Init
  BY DEF Init, Service!Init, Leaving, Closing, Connected
<1>3. LockInv /\ LockInv' /\ ConnInv /\ [Next]_vars => [Service!Next]_<<Serving, Leaving, Connected>>
  <2> SUFFICES ASSUME LockInv, LockInv', ConnInv, [Next]_vars
               PROVE  [Service!Next]_<<Serving, Leaving, Connected>>
    OBVIOUS
  <2>1. CASE UNCHANGED vars
    BY <2>1, UnseenStep DEF vars, Serving, Leaving, Connected
  <2> QED
    BY <2>1, AgentStepSeen, SessionStepSeen DEF Next
<1> QED
  BY <1>1, <1>2, <1>3, LockInvariant, ConnInvStep, PTL DEF Spec, OneService, Service!Spec, Serving

-----------------------------------------------------------------------------
(* AgentLogout.  What survives when the lock file may be removed and made again:  *)
(* an inode has one holder, which has it open.                               *)
OwnLocks ==
  /\ LTypeOK
  /\ \A a \in Agents : opened[a] # None <=> apc[a] \in Opened
  /\ \A a \in Agents : apc[a] \in Holding => holder[opened[a]] = a
  /\ \A i \in Inodes : holder[i] # None =>
       opened[holder[i]] = i /\ apc[holder[i]] \in Holding
  /\ \A a \in Agents : a \in listening <=> apc[a] \in {"serving", "close"}

LEMMA LTypeStep == LTypeOK /\ [LNext]_lvars => LTypeOK'
<1> SUFFICES ASSUME LTypeOK, [LNext]_lvars
             PROVE  LTypeOK'
  OBVIOUS
<1> USE NoneAssumption DEF LTypeOK
<1>1. CASE Next /\ asked' = (IF asked # None /\ apc'[asked] = "off" THEN None ELSE asked)
           /\ UNCHANGED lpc
  BY <1>1, TypeStep
<1>2. CASE LogoutStep
  <2>1. CASE RemoveConfigDir
    BY <2>1 DEF RemoveConfigDir, TypeOK
  <2>2. CASE AskAgent
    <3>1. TypeOK'
      BY <2>2, TypeStep DEF AskAgent
    <3>2. asked' \in Agents \cup {None} /\ lpc' \in {"idle", "asking", "remove"}
      BY <2>2 DEF AskAgent, TypeOK
    <3> QED
      BY <3>1, <3>2
  <2>3. CASE AgentRefuses \/ AgentStopped
    <3>1. TypeOK'
      BY <2>3, TypeStep DEF AgentRefuses, AgentStopped
    <3> QED
      BY <3>1, <2>3 DEF AgentRefuses, AgentStopped
  <2> QED
    BY <1>2, <2>1, <2>2, <2>3 DEF LogoutStep
<1>3. CASE UNCHANGED lvars
  BY <1>3, TypeStep DEF lvars
<1> QED
  BY <1>1, <1>2, <1>3 DEF LNext

(* An agent that gives the lock up, or is killed. *)
LEMMA OwnRelease ==
  ASSUME OwnLocks, LTypeOK', NEW a \in Agents, NEW p \in {"off", "ended"},
         holder' = Unlocked(a),
         opened' = [opened EXCEPT ![a] = None],
         apc' = [apc EXCEPT ![a] = p],
         listening' = listening \ {a}
  PROVE  OwnLocks'
<1> USE NoneAssumption DEF OwnLocks, LTypeOK, TypeOK, AgentPC
<1>1. \A b \in Agents : opened'[b] # None <=> apc'[b] \in Opened
  BY DEF Opened
<1>2. \A b \in Agents : apc'[b] \in Holding => holder'[opened'[b]] = b
  BY DEF Opened, Holding, Unlocked
<1>3. \A j \in Inodes : holder'[j] # None =>
        opened'[holder'[j]] = j /\ apc'[holder'[j]] \in Holding
  BY DEF Unlocked
<1>4. \A b \in Agents : b \in listening' <=> apc'[b] \in {"serving", "close"}
  OBVIOUS
<1> QED
  BY <1>1, <1>2, <1>3, <1>4

LEMMA OwnLocksStep == OwnLocks /\ [LNext]_lvars => OwnLocks'
<1> SUFFICES ASSUME OwnLocks, [LNext]_lvars
             PROVE  OwnLocks'
  OBVIOUS
<1> USE NoneAssumption
<1>0. LTypeOK /\ LTypeOK' /\ TypeOK /\ TypeOK'
  BY LTypeStep DEF OwnLocks, LTypeOK
<1>1. ASSUME NEW a \in Agents, AgentStep(a) \/ AgentEnds(a)
      PROVE  OwnLocks'
  <2>1. CASE FindAlive(a) \/ RemoveStale(a) \/ Bind(a) \/ Shutdown(a) \/ CloseListener(a)
    <3>1. UNCHANGED <<opened, holder>>
      BY <2>1 DEF FindAlive, RemoveStale, Bind, Shutdown, CloseListener
    <3>2. apc[a] \in Holding <=> apc'[a] \in Holding
      BY <2>1, <1>0 DEF FindAlive, RemoveStale, Bind, Shutdown, CloseListener,
         TypeOK, Opened, Holding
    <3>3. apc[a] \in Opened <=> apc'[a] \in Opened
      BY <2>1, <1>0 DEF FindAlive, RemoveStale, Bind, Shutdown, CloseListener,
         TypeOK, Opened
    <3>4. \A b \in Agents : b # a => apc'[b] = apc[b]
      BY <2>1, <1>0 DEF FindAlive, RemoveStale, Bind, Shutdown, CloseListener, TypeOK
    <3>5. \A b \in Agents : b \in listening' <=> apc'[b] \in {"serving", "close"}
      BY <2>1, <1>0 DEF FindAlive, RemoveStale, Bind, Shutdown, CloseListener,
         TypeOK, OwnLocks
    <3>6. \A b \in Agents : (apc'[b] \in Opened <=> apc[b] \in Opened)
                           /\ (apc'[b] \in Holding <=> apc[b] \in Holding)
      BY <3>2, <3>3, <3>4
    <3> QED
      BY <3>1, <3>5, <3>6, <1>0 DEF OwnLocks, TypeOK
  <2>2. CASE OpenLock(a)
    <3>1. PICK i \in Inodes : opened' = [opened EXCEPT ![a] = i]
      BY <2>2 DEF OpenLock
    <3>2. apc[a] = "open" /\ apc' = [apc EXCEPT ![a] = "flock"]
          /\ UNCHANGED <<holder, listening>>
      BY <2>2 DEF OpenLock
    <3>3. \A j \in Inodes : holder'[j] # None =>
            opened'[holder'[j]] = j /\ apc'[holder'[j]] \in Holding
      BY <3>1, <3>2, <1>0 DEF OwnLocks, TypeOK, Opened, Holding
    <3>4. \A b \in Agents : opened'[b] # None <=> apc'[b] \in Opened
      BY <3>1, <3>2, <1>0 DEF OwnLocks, TypeOK, Opened
    <3>5. \A b \in Agents : apc'[b] \in Holding => holder'[opened'[b]] = b
      BY <3>1, <3>2, <1>0 DEF OwnLocks, TypeOK, Opened, Holding
    <3>6. \A b \in Agents : b \in listening' <=> apc'[b] \in {"serving", "close"}
      BY <3>2, <1>0 DEF OwnLocks, TypeOK
    <3> QED
      BY <3>3, <3>4, <3>5, <3>6, <1>0 DEF OwnLocks
  <2>3. CASE TakeLock(a)
    BY <2>3, <1>0 DEF TakeLock, OwnLocks, TypeOK, Opened, Holding
  <2>4. CASE LoseLock(a)
    <3>1. holder = Unlocked(a) /\ listening = listening \ {a}
      BY <2>4, <1>0 DEF LoseLock, OwnLocks, TypeOK, Unlocked, Opened, Holding
    <3> QED
      BY <3>1, <2>4, <1>0, OwnRelease DEF LoseLock
  <2>5. CASE Exit(a) \/ ListenFails(a) \/ Unlock(a)
    <3>1. listening = listening \ {a}
      BY <2>5, <1>0 DEF Exit, ListenFails, Unlock, OwnLocks, TypeOK
    <3> QED
      BY <3>1, <2>5, <1>0, OwnRelease DEF Exit, ListenFails, Unlock
  <2>6. CASE Crash(a)
    BY <2>6, <1>0, OwnRelease DEF Crash
  <2>7. CASE \E s \in Sessions : Accept(a, s)
    BY <2>7, <1>0 DEF Accept, avars, OwnLocks
  <2> QED
    BY <1>1, <2>1, <2>2, <2>3, <2>4, <2>5, <2>6, <2>7 DEF AgentStep, AgentEnds
<1>2. ASSUME NEW s \in Sessions, SessionStep(s) \/ StartFails(s)
      PROVE  OwnLocks'
  <2>1. CASE \E a \in Agents : Start(s, a)
    BY <2>1, <1>0 DEF Start, OwnLocks, TypeOK, Opened, Holding
  <2>2. CASE Begin(s) \/ PollHit(s) \/ StartFails(s) \/ GiveUp(s) \/ Connect(s) \/ Signed(s)
    BY <2>2, <1>0 DEF Begin, PollHit, StartFails, GiveUp, Connect, Signed, avars, OwnLocks
  <2> QED
    BY <1>2, <2>1, <2>2 DEF SessionStep
<1>3. CASE LogoutStep \/ UNCHANGED lvars
  BY <1>3, <1>0 DEF LogoutStep, AskAgent, AgentRefuses, AgentStopped, RemoveConfigDir,
     lvars, vars, OwnLocks
<1> QED
  BY <1>1, <1>2, <1>3 DEF LNext, Next

(* However often nk logout removes the lock file under running agents: an agent     *)
(* accepts connections only while it holds the lock of the file it opened, so two    *)
(* that accept at once opened two files.                                     *)
THEOREM LogoutKeepsLocks == LSpec => []ListenerHoldsItsLock
<1>1. LInit => OwnLocks
  BY NoneAssumption, TypeInit DEF LInit, Init, OwnLocks, LTypeOK, Opened, Holding
<1>2. OwnLocks => ListenerHoldsItsLock
  BY DEF OwnLocks, ListenerHoldsItsLock, LTypeOK, TypeOK, Opened, Holding
<1> QED
  BY <1>1, <1>2, OwnLocksStep, PTL DEF LSpec
=============================================================================
