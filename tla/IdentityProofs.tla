---------------------------- MODULE IdentityProofs ----------------------------
(***************************************************************************)
(* What Identity promises for any servers, processes and number of keys.  The     *)
(* argument is Keyed: keys are only ever counted up, whatever is recreated, lost,    *)
(* killed or removed, so the key of the machine is the newest one and every copy of   *)
(* a public key, in a file or in memory, names one at most as new.                *)
(***************************************************************************)
EXTENDS Identity, TLAPS

Process ==
  [pc : {"off", "signer", "read", "write", "list", "drop", "ensure", "sign", "wipe"},
   job : Maybe(Targets), key : Maybe(Keys), old : BOOLEAN, todo : SUBSET Files]

Certificate == [key : Keys, left : 0..Life]

(* A process that fetches a certificate has a server and a key for it. *)
Sound(r) ==
  /\ r \in Process
  /\ r.pc \in {"ensure", "sign"} => r.job # None
  /\ r.pc = "sign" => r.key # None

Below(k) == k # None => k <= made

(* The signer in memory is at least as new as the public key it is filed under. *)
Filed ==
  /\ agent.pc = "load" => agent.read # None
  /\ Below(agent.read) /\ Below(agent.ring)
  /\ agent.ring # None => agent.pub # None /\ agent.pub <= agent.ring

Keyed ==
  /\ TypeOK
  /\ \A p \in Procs : Sound(nk[p]) /\ Below(nk[p].key)
  /\ key # None => key = made
  /\ Below(pub)
  /\ Filed

-----------------------------------------------------------------------------
LEMMA ProcessType == TypeOK => nk \in [Procs -> Process]
BY DEF TypeOK, Process

LEMMA KeyedInit == Init => Keyed
<1> SUFFICES ASSUME Init
             PROVE  Keyed
  OBVIOUS
<1> USE KeysAssumption DEF Init, Maybe
<1>1. Sound(Off)
  BY DEF Sound, Off, Process
<1>2. TypeOK
  <2>1. nk \in [Procs -> Process]
    BY <1>1 DEF Sound
  <2>2. made \in 0..MaxKeys
    BY SMT
  <2>3. cert \in [Targets -> Maybe(Certificate)]
    OBVIOUS
  <2>4. agent \in [pc : {"accept", "load"}, read : Maybe(Keys), pub : Maybe(Keys),
                   ring : Maybe(Keys)]
    BY DEF NoId
  <2>5. quiet \in BOOLEAN
    OBVIOUS
  <2> QED
    BY <2>1, <2>2, <2>3, <2>4, <2>5 DEF TypeOK, Process, Certificate
<1>3. \A p \in Procs : nk[p] = Off
  OBVIOUS
<1>4. Off.key = None
  BY DEF Off
<1> QED
  BY <1>1, <1>2, <1>3, <1>4 DEF Keyed, Below, Filed, NoId

(* A process that goes on as r, while keys are at most made. *)
LEMMA BecomeKeyed ==
  ASSUME Keyed, NEW p \in Procs, NEW r, Become(p, r), Sound(r),
         made' \in Nat, made <= made', r.key # None => r.key <= made'
  PROVE  /\ nk' \in [Procs -> Process]
         /\ \A q \in Procs : Sound(nk'[q]) /\ (nk'[q].key # None => nk'[q].key <= made')
<1>1. nk \in [Procs -> Process]
  BY ProcessType DEF Keyed
<1>2. Sound(Off) /\ Off.key = None
  BY DEF Sound, Off, Process, Maybe
<1>3. PICK s : s \in {Off, r} /\ nk' = [nk EXCEPT ![p] = s]
  BY DEF Become
<1>4. Sound(s) /\ s \in Process /\ (s.key # None => s.key <= made')
  BY <1>2, <1>3 DEF Sound
<1>5. \A q \in Procs : nk[q].key # None => nk[q].key <= made'
  <2> SUFFICES ASSUME NEW q \in Procs, nk[q].key # None
               PROVE  nk[q].key <= made'
    OBVIOUS
  <2>1. nk[q].key <= made /\ nk[q].key \in 1..MaxKeys /\ made \in Nat
    BY <1>1, KeysAssumption DEF Keyed, Below, Process, Maybe, Keys, TypeOK
  <2> QED
    BY <2>1, KeysAssumption
<1>6. \A q \in Procs : nk'[q] = IF q = p THEN s ELSE nk[q]
  BY <1>1, <1>3
<1> QED
  BY <1>1, <1>3, <1>4, <1>5, <1>6 DEF Keyed

(* newSSHSigner gives the newest key there is. *)
LEMMA OpenNewest ==
  ASSUME Keyed, NEW k \in Keys, Open(k)
  PROVE  key' = k /\ made' = k /\ made <= k /\ made' \in 0..MaxKeys /\ made \in Nat
BY KeysAssumption DEF Keyed, TypeOK, Open, Keys, Maybe

(* The steps of a process that leave keys, files and agent alone. *)
LEMMA PrivateStep ==
  ASSUME Keyed, NEW p \in Procs, NEW r, Become(p, r), Sound(r),
         r.key \in {None, nk[p].key, pub},
         UNCHANGED <<key, made, pub, agent>>,
         cert' \in [Targets -> Maybe(Certificate)], quiet' \in BOOLEAN
  PROVE  Keyed'
<1>1. made \in Nat
  BY KeysAssumption DEF Keyed, TypeOK
<1>2. r.key # None => r.key <= made
  BY DEF Keyed, Below
<1>3. /\ nk' \in [Procs -> Process]
      /\ \A q \in Procs : Sound(nk'[q]) /\ (nk'[q].key # None => nk'[q].key <= made')
  BY <1>1, <1>2, BecomeKeyed
<1>4. TypeOK'
  BY <1>3 DEF Keyed, TypeOK, Process, Certificate
<1> QED
  BY <1>3, <1>4 DEF Keyed, Below, Filed
-----------------------------------------------------------------------------
(* Each private step of a process goes on as a sound one. *)
LEMMA GoSound ==
  ASSUME Keyed, NEW p \in Procs, NEW l,
         l \in {"off", "signer", "read", "write", "list", "drop", "wipe"} \cup
              (IF nk[p].job = None THEN {} ELSE {"ensure"})
  PROVE  LET r == [nk[p] EXCEPT !.pc = l] IN Sound(r) /\ r.key = nk[p].key
<1>1. nk[p] \in Process
  BY ProcessType DEF Keyed
<1> QED
  BY <1>1 DEF Sound, Process

LEMMA ReadyLabel ==
  ASSUME NEW p \in Procs
  PROVE  Ready(p) \in {"off"} \cup (IF nk[p].job = None THEN {} ELSE {"ensure"})
BY DEF Ready

LEMMA SetupStep ==
  ASSUME Keyed, NEW p \in Procs, SetupKey(p)
  PROVE  Keyed'
<1>1. nk[p] \in Process
  BY ProcessType DEF Keyed
<1>2. /\ cert \in [Targets -> Maybe(Certificate)] /\ quiet \in BOOLEAN
  BY DEF Keyed, TypeOK, Certificate
<1>3. CASE OpenSigner(p)
  <2>1. PICK k \in Keys : Open(k) /\ Become(p, [nk[p] EXCEPT !.pc = "read", !.key = k])
    BY <1>3 DEF OpenSigner
  <2>2. /\ key' = k /\ made' = k /\ made <= k /\ made' \in 0..MaxKeys /\ made \in Nat
    BY <2>1, OpenNewest
  <2> DEFINE r == [nk[p] EXCEPT !.pc = "read", !.key = k]
  <2>3. Sound(r) /\ r.key = k
    BY <1>1 DEF Sound, Process, Maybe
  <2>4. made' \in Nat
    BY <2>2, KeysAssumption
  <2>5. k # None => k <= made'
    BY <2>2, <2>4
  <2> HIDE DEF r
  <2>6. /\ nk' \in [Procs -> Process]
        /\ \A q \in Procs : Sound(nk'[q]) /\ (nk'[q].key # None => nk'[q].key <= made')
    BY <2>1, <2>2, <2>3, <2>4, <2>5, BecomeKeyed DEF r
  <2>7. UNCHANGED <<pub, cert, agent, quiet>>
    BY <1>3 DEF OpenSigner
  <2>8. TypeOK'
    BY <2>2, <2>6, <2>7 DEF Keyed, TypeOK, Process, Maybe
  <2>9. Below(pub)' /\ Filed'
    BY <2>2, <2>7, KeysAssumption DEF Keyed, Below, Filed, TypeOK, Maybe, Keys
  <2> QED
    BY <2>2, <2>6, <2>8, <2>9 DEF Keyed, Below
<1>4. CASE ReadPub(p)
  <2> DEFINE r == [nk[p] EXCEPT !.pc = IF pub = nk[p].key THEN Ready(p) ELSE "write",
                                !.old = pub # None]
  <2>1. Sound(r) /\ r.key = nk[p].key
    BY <1>1 DEF Sound, Process, Ready
  <2> QED
    BY <2>1, <1>2, <1>4, PrivateStep DEF ReadPub
<1>5. CASE WritePub(p)
  <2> DEFINE l == IF nk[p].old THEN "list" ELSE Ready(p)
             r == [nk[p] EXCEPT !.pc = l]
  <2>1. Sound(r) /\ r.key = nk[p].key
    BY ReadyLabel, GoSound
  <2>2. Become(p, r)
    BY <1>5 DEF WritePub, Go
  <2>3. made \in Nat /\ made' = made
    BY <1>5, KeysAssumption DEF WritePub, Keyed, TypeOK
  <2>4. r.key # None => r.key <= made'
    BY <2>1, <2>3 DEF Keyed, Below
  <2> HIDE DEF r
  <2>5. /\ nk' \in [Procs -> Process]
        /\ \A q \in Procs : Sound(nk'[q]) /\ (nk'[q].key # None => nk'[q].key <= made')
    BY <2>1, <2>2, <2>3, <2>4, BecomeKeyed
  <2>6. pub' = nk[p].key /\ UNCHANGED <<key, made, cert, agent, quiet>>
    BY <1>5 DEF WritePub
  <2>7. pub' \in Maybe(Keys) /\ Below(pub)'
    BY <1>1, <2>6 DEF Process, Keyed, Below
  <2>8. TypeOK'
    BY <2>5, <2>6, <2>7 DEF Keyed, TypeOK, Process
  <2> QED
    BY <2>5, <2>6, <2>7, <2>8 DEF Keyed, Below, Filed
<1>6. CASE ListCerts(p)
  <2> DEFINE all == {t \in Targets : cert[t] # None}
             r == [nk[p] EXCEPT !.pc = IF all = {} THEN Ready(p) ELSE "drop", !.todo = all]
  <2>1. Sound(r) /\ r.key = nk[p].key
    BY <1>1 DEF Sound, Process, Ready, Files
  <2> QED
    BY <2>1, <1>2, <1>6, PrivateStep DEF ListCerts
<1>7. CASE DropCert(p)
  <2>1. PICK t \in nk[p].todo :
          /\ cert' = [cert EXCEPT ![t] = None]
          /\ Become(p, [nk[p] EXCEPT !.todo = nk[p].todo \ {t},
                           !.pc = IF cert[t] = None THEN "off"
                                  ELSE IF nk[p].todo \ {t} = {} THEN Ready(p) ELSE "drop"])
    BY <1>7 DEF DropCert
  <2> DEFINE r == [nk[p] EXCEPT !.todo = nk[p].todo \ {t},
                           !.pc = IF cert[t] = None THEN "off"
                                  ELSE IF nk[p].todo \ {t} = {} THEN Ready(p) ELSE "drop"]
  <2>2. Sound(r) /\ r.key = nk[p].key
    BY <1>1 DEF Sound, Process, Ready
  <2>3. cert' \in [Targets -> Maybe(Certificate)]
    BY <2>1, <1>2 DEF Maybe
  <2> QED
    BY <2>1, <2>2, <2>3, <1>2, <1>7, PrivateStep DEF DropCert
<1> QED
  BY <1>3, <1>4, <1>5, <1>6, <1>7 DEF SetupKey

LEMMA ProcStep ==
  ASSUME Keyed, NEW p \in Procs,
         Begin(p) \/ EnsureCert(p) \/ Install(p) \/ Logout(p) \/ Crash(p)
  PROVE  Keyed'
<1>1. nk[p] \in Process
  BY ProcessType DEF Keyed
<1>2. /\ cert \in [Targets -> Maybe(Certificate)] /\ quiet \in BOOLEAN
  BY DEF Keyed, TypeOK, Certificate
<1>3. CASE Begin(p)
  <2>1. PICK j \in Maybe(Targets) : Become(p, [Off EXCEPT !.pc = "signer", !.job = j])
    BY <1>3 DEF Begin, Maybe
  <2> DEFINE r == [Off EXCEPT !.pc = "signer", !.job = j]
  <2>2. Sound(r) /\ r.key = None
    BY DEF Sound, Process, Off, Maybe
  <2> QED
    BY <2>1, <2>2, <1>2, <1>3, PrivateStep DEF Begin
<1>4. CASE EnsureCert(p)
  <2>1. CASE Go(p, "off")
    <3> DEFINE r == [nk[p] EXCEPT !.pc = "off"]
    <3>1. Sound(r) /\ r.key = nk[p].key
      BY GoSound
    <3> QED
      BY <3>1, <2>1, <1>2, <1>4, PrivateStep DEF EnsureCert, Go
  <2>2. CASE pub # None /\ Become(p, [nk[p] EXCEPT !.pc = "sign", !.key = pub])
    <3> DEFINE r == [nk[p] EXCEPT !.pc = "sign", !.key = pub]
    <3>1. nk[p].job # None /\ pub \in Maybe(Keys)
      BY <1>4 DEF EnsureCert, At, Keyed, Sound, TypeOK
    <3>2. Sound(r) /\ r.key = pub
      BY <1>1, <2>2, <3>1 DEF Sound, Process
    <3> QED
      BY <3>2, <2>2, <1>2, <1>4, PrivateStep DEF EnsureCert
  <2> QED
    BY <1>4, <2>1, <2>2 DEF EnsureCert
<1>5. CASE Install(p)
  <2> DEFINE r == [nk[p] EXCEPT !.pc = "off"]
  <2>1. Sound(r) /\ r.key = nk[p].key
    BY GoSound
  <2>2. nk[p].key \in Keys
    BY <1>1, <1>5 DEF Install, At, Keyed, Sound, Process, Maybe
  <2>3. [key |-> nk[p].key, left |-> Life] \in Certificate
    BY <2>2, KeysAssumption DEF Certificate
  <2>4. cert' \in [Targets -> Maybe(Certificate)]
    BY <2>3, <1>2, <1>5 DEF Install, Maybe
  <2> QED
    BY <2>1, <2>4, <1>2, <1>5, PrivateStep DEF Install, Go
<1>6. CASE Logout(p)
  <2> DEFINE r == [Off EXCEPT !.pc = "wipe", !.todo = Files]
  <2>1. Sound(r) /\ r.key = None
    BY DEF Sound, Process, Off, Maybe
  <2> QED
    BY <2>1, <1>2, <1>6, PrivateStep DEF Logout
<1>7. CASE Crash(p)
  <2> DEFINE r == [nk[p] EXCEPT !.pc = "off"]
  <2>1. Sound(r) /\ r.key = nk[p].key
    BY GoSound
  <2> QED
    BY <2>1, <1>2, <1>7, PrivateStep DEF Crash, Go
<1> QED
  BY <1>3, <1>4, <1>5, <1>6, <1>7

(* nk logout removes files: what is left still agrees. *)
LEMMA WipeStep ==
  ASSUME Keyed, NEW p \in Procs, RemoveConfigDir(p)
  PROVE  Keyed'
<1>1. nk[p] \in Process
  BY ProcessType DEF Keyed
<1>2. PICK f \in nk[p].todo :
        /\ key'  = IF f = "signer" THEN None ELSE key
        /\ pub'  = IF f = "pub" THEN None ELSE pub
        /\ cert' = IF f \in Targets THEN [cert EXCEPT ![f] = None] ELSE cert
        /\ Become(p, [nk[p] EXCEPT !.todo = nk[p].todo \ {f},
                         !.pc = IF nk[p].todo \ {f} = {} THEN "off" ELSE "wipe"])
  BY DEF RemoveConfigDir
<1> DEFINE r == [nk[p] EXCEPT !.todo = nk[p].todo \ {f},
                         !.pc = IF nk[p].todo \ {f} = {} THEN "off" ELSE "wipe"]
<1>3. Sound(r) /\ r.key = nk[p].key
  BY <1>1 DEF Sound, Process
<1>4. UNCHANGED <<made, agent, quiet>>
  BY DEF RemoveConfigDir
<1>5. made \in Nat /\ made' = made /\ Become(p, r)
  BY <1>2, <1>4, KeysAssumption DEF Keyed, TypeOK
<1>6. r.key # None => r.key <= made'
  BY <1>3, <1>4 DEF Keyed, Below
<1> HIDE DEF r
<1>7. /\ nk' \in [Procs -> Process]
      /\ \A q \in Procs : Sound(nk'[q]) /\ (nk'[q].key # None => nk'[q].key <= made')
  BY <1>3, <1>5, <1>6, BecomeKeyed
<1>8. cert' \in [Targets -> Maybe(Certificate)]
  BY <1>2 DEF Keyed, TypeOK, Certificate, Maybe
<1>9. key' \in {None, key} /\ pub' \in {None, pub}
  BY <1>2
<1>10. TypeOK'
  BY <1>4, <1>7, <1>8, <1>9 DEF Keyed, TypeOK, Process, Certificate, Maybe
<1> QED
  BY <1>4, <1>7, <1>9, <1>10 DEF Keyed, Below, Filed

(* The agent. *)
LEMMA AgentStep ==
  ASSUME Keyed, Accept \/ Load \/ AgentEnds
  PROVE  Keyed'
<1>1. CASE Accept
  <2>1. UNCHANGED <<key, made, pub, cert, nk, quiet>>
    BY <1>1 DEF Accept
  <2>2. pub \in Keys
    BY <1>1 DEF Accept, Keyed, TypeOK, Maybe
  <2>3. TypeOK'
    BY <1>1, <2>1, <2>2 DEF Accept, Keyed, TypeOK, Maybe
  <2>4. Filed'
    BY <1>1, <2>1, <2>2 DEF Accept, Keyed, TypeOK, Filed, Below
  <2> QED
    BY <2>1, <2>3, <2>4 DEF Keyed, Below
<1>2. CASE Load
  <2>1. PICK k \in Keys :
          Open(k) /\ agent' = [pc |-> "accept", read |-> None, pub |-> agent.read, ring |-> k]
    BY <1>2 DEF Load
  <2>2. /\ key' = k /\ made' = k /\ made <= k /\ made' \in 0..MaxKeys /\ made \in Nat
    BY <2>1, OpenNewest
  <2>3. UNCHANGED <<pub, cert, nk, quiet>>
    BY <1>2 DEF Load
  <2>4. agent.read \in Keys /\ agent.read <= made
    BY <1>2 DEF Load, Keyed, Filed, Below, TypeOK, Maybe
  <2>5. agent.read <= k
    BY <2>2, <2>4, KeysAssumption DEF Keys
  <2>6. TypeOK'
    BY <2>1, <2>2, <2>3, <2>4 DEF Keyed, TypeOK, Maybe
  <2>7. Filed'
    <3>1. agent'.pc = "accept" /\ agent'.read = None /\ agent'.pub = agent.read
          /\ agent'.ring = k
      BY <2>1
    <3>2. agent.read # None /\ k <= made'
      BY <1>2, <2>2, KeysAssumption DEF Load, Keyed, Filed, Keys
    <3> QED
      BY <3>1, <3>2, <2>5 DEF Filed, Below
  <2>8. Below(pub)' /\ \A q \in Procs : Below(nk[q].key)'
    <3>1. \A i \in Maybe(Keys) : i # None /\ i <= made => i <= k
      BY <2>2, KeysAssumption DEF Maybe, Keys
    <3>2. pub \in Maybe(Keys) /\ \A q \in Procs : nk[q].key \in Maybe(Keys)
      BY ProcessType DEF Keyed, TypeOK, Process
    <3> QED
      BY <3>1, <3>2, <2>2, <2>3 DEF Keyed, Below
  <2> QED
    BY <2>2, <2>3, <2>6, <2>7, <2>8 DEF Keyed
<1>3. CASE AgentEnds
  <2>1. UNCHANGED <<key, made, pub, cert, nk, quiet>> /\ agent' = NoId
    BY <1>3 DEF AgentEnds
  <2>2. NoId \in [pc : {"accept", "load"}, read : Maybe(Keys), pub : Maybe(Keys),
                  ring : Maybe(Keys)]
    BY DEF NoId, Maybe
  <2>3. TypeOK'
    BY <2>1, <2>2 DEF Keyed, TypeOK
  <2>4. Filed'
    BY <2>1 DEF NoId, Filed, Below
  <2> QED
    BY <2>1, <2>3, <2>4 DEF Keyed, Below
<1> QED
  BY <1>1, <1>2, <1>3

LEMMA WorldStep ==
  ASSUME Keyed, KeyLost \/ Tick \/ Quieten \/ UNCHANGED vars
  PROVE  Keyed'
<1>1. CASE KeyLost
  BY <1>1 DEF KeyLost, Keyed, TypeOK, Maybe, Below, Filed
<1>2. CASE Tick
  <2>1. cert \in [Targets -> Maybe(Certificate)]
    BY DEF Keyed, TypeOK, Certificate
  <2>2. \A t \in Targets : cert[t] # None /\ cert[t].left # 0 =>
          [cert[t] EXCEPT !.left = @ - 1] \in Certificate
    BY <2>1, KeysAssumption DEF Certificate, Maybe
  <2>3. cert' \in [Targets -> Maybe(Certificate)]
    BY <1>2, <2>1, <2>2 DEF Tick, Maybe
  <2> QED
    BY <1>2, <2>3 DEF Tick, Keyed, TypeOK, Certificate, Below, Filed
<1>3. CASE Quieten
  BY <1>3 DEF Quieten, Keyed, TypeOK, Below, Filed
<1>4. CASE UNCHANGED vars
  BY <1>4 DEF vars, Keyed, TypeOK, Below, Filed
<1> QED
  BY <1>1, <1>2, <1>3, <1>4

LEMMA KeyedStep == Keyed /\ [Next]_vars => Keyed'
BY SetupStep, ProcStep, WipeStep, AgentStep, WorldStep DEF Next, Step

LEMMA KeyedAlways == Spec => []Keyed
BY KeyedInit, KeyedStep, PTL DEF Spec

(* TypeOK: the files of an identity, every process and the agent keep their type; in   *)
(* particular a certificate is only ever fetched for a server and a key.            *)
THEOREM Typing == Spec => []TypeOK
<1>1. Keyed => TypeOK
  BY DEF Keyed
<1> QED
  BY <1>1, KeyedAlways, PTL

(* ServesCurrent: while nokku.pub names the key of this machine, an agent that sees no   *)
(* reason to load the signer again signs with that key, whichever key was recreated,     *)
(* lost or removed while it loaded the signer it has.                              *)
THEOREM CurrentSigner == Spec => []ServesCurrent
<1>1. Keyed => ServesCurrent
  BY KeysAssumption DEF Keyed, TypeOK, Maybe, Keys, Filed, Below, ServesCurrent
<1> QED
  BY <1>1, KeyedAlways, PTL
=============================================================================
