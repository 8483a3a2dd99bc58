------------------------------ MODULE Identity ------------------------------
(***************************************************************************)
(* The ssh identity of a machine: the key behind ssh-signer.json, its public    *)
(* half in nokku.pub, the certificates issued for it and the signer the agent    *)
(* keeps in memory (internal/ssh/keys.go, agent.go).  Four things that have to    *)
(* agree before ssh gets in, written one after the other by processes that         *)
(* share no lock and may be killed at any step.                                  *)
(*                                                                          *)
(* A key is a number, counted up.  The signer comes from a TPM, from an enclave   *)
(* or from a wrapped file: when it can no longer be used it is recreated, as the   *)
(* same key (a TPM derives it again) or as a new one.                            *)
(***************************************************************************)
EXTENDS Naturals, FiniteSets

CONSTANTS
  Targets,   \* servers
  Procs,     \* nk processes
  MaxKeys,   \* bound on the keys of a behaviour
  Life,      \* lifetime of a certificate, in ticks
  None

ASSUME KeysAssumption == MaxKeys \in Nat \ {0} /\ Life \in Nat \ {0}
ASSUME NoneAssumption == None \notin Targets \cup (0..MaxKeys)

VARIABLES
  key,     \* the key ssh-signer.json stands for, None when it has to be recreated
  made,    \* keys made so far
  pub,     \* nokku.pub names this key, None when missing
  cert,    \* cert[t]: the certificate for server t, [key, left], or None
  nk,      \* nk[p]: where process p is and what it has in memory
  agent,   \* the agent: [pc, read, pub, ring], its identity and what it just read
  quiet    \* no key is lost, nobody logs out and no process is killed from here on

vars  == <<key, made, pub, cert, nk, agent, quiet>>

Keys  == 1..MaxKeys
Maybe(S) == S \cup {None}
Files == {"signer", "pub"} \cup Targets
Off   == [pc |-> "off", job |-> None, key |-> None, old |-> FALSE, todo |-> {}]
NoId  == [pc |-> "accept", read |-> None, pub |-> None, ring |-> None]

TypeOK ==
  /\ key \in Maybe(Keys) /\ made \in 0..MaxKeys /\ pub \in Maybe(Keys)
  /\ cert \in [Targets -> Maybe([key : Keys, left : 0..Life])]
  /\ nk \in [Procs -> [pc : {"off", "signer", "read", "write", "list", "drop",
                             "ensure", "sign", "wipe"},
                       job : Maybe(Targets), key : Maybe(Keys), old : BOOLEAN,
                       todo : SUBSET Files]]
  /\ agent \in [pc : {"accept", "load"}, read : Maybe(Keys), pub : Maybe(Keys),
                ring : Maybe(Keys)]
  /\ quiet \in BOOLEAN

Init ==
  /\ key = None /\ made = 0 /\ pub = None
  /\ cert = [t \in Targets |-> None]
  /\ nk = [p \in Procs |-> Off]
  /\ agent = NoId
  /\ quiet = FALSE

-----------------------------------------------------------------------------
At(p, l)     == nk[p].pc = l
Become(p, r) == nk' = [nk EXCEPT ![p] = IF r.pc = "off" THEN Off ELSE r]
Go(p, l)     == Become(p, [nk[p] EXCEPT !.pc = l])

(* newSSHSigner: the key as it is, or a recreated one. *)
Open(k) ==
  /\ IF key # None THEN k = key ELSE k \in {made, made + 1} \cap Keys
  /\ key' = k
  /\ made' = IF k > made THEN k ELSE made

(* CertFresh looks at the lifetime, not at whose key was certified. *)
CertFresh(t) == cert[t] # None /\ 2 * cert[t].left > Life

(* nk prepare and nk proxy for a server whose certificate is not fresh; a sync,    *)
(* which has none to fetch.  Both open a client, and that sets up the key.         *)
Begin(p) ==
  /\ At(p, "off")
  /\ \E j \in Maybe({t \in Targets : ~CertFresh(t)}) :
       Become(p, [Off EXCEPT !.pc = "signer", !.job = j])
  /\ UNCHANGED <<key, made, pub, cert, agent, quiet>>

(* Once SetupKey returned. *)
Ready(p) == IF nk[p].job = None THEN "off" ELSE "ensure"

OpenSigner(p) ==
  /\ At(p, "signer")
  /\ \E k \in Keys :
       Open(k) /\ Become(p, [nk[p] EXCEPT !.pc = "read", !.key = k])
  /\ UNCHANGED <<pub, cert, agent, quiet>>

(* Mutant: any public key on disk will do. *)
ReadAnyPub(p) ==
  /\ At(p, "read")
  /\ Become(p, [nk[p] EXCEPT !.pc = IF pub # None THEN Ready(p) ELSE "write"])
  /\ UNCHANGED <<key, made, pub, cert, agent, quiet>>

ReadPub(p) ==
  /\ At(p, "read")
  /\ Become(p, [nk[p] EXCEPT !.pc = IF pub = nk[p].key THEN Ready(p) ELSE "write",
                             !.old = pub # None])
  /\ UNCHANGED <<key, made, pub, cert, agent, quiet>>

WritePub(p) ==
  /\ At(p, "write")
  /\ pub' = nk[p].key
  /\ Go(p, IF nk[p].old THEN "list" ELSE Ready(p))
  /\ UNCHANGED <<key, made, cert, agent, quiet>>

(* CleanupCerts(nil): what is there now ... *)
ListCerts(p) ==
  /\ At(p, "list")
  /\ LET all == {t \in Targets : cert[t] # None} IN
     Become(p, [nk[p] EXCEPT !.pc = IF all = {} THEN Ready(p) ELSE "drop", !.todo = all])
  /\ UNCHANGED <<key, made, pub, cert, agent, quiet>>

(* ... goes one by one.  One that is gone already is an error, and nk ends. *)
DropCert(p) ==
  /\ At(p, "drop")
  /\ \E t \in nk[p].todo :
       LET left == nk[p].todo \ {t} IN
       /\ cert' = [cert EXCEPT ![t] = None]
       /\ Become(p, [nk[p] EXCEPT !.todo = left,
                       !.pc = IF cert[t] = None THEN "off"
                              ELSE IF left = {} THEN Ready(p) ELSE "drop"])
  /\ UNCHANGED <<key, made, pub, agent, quiet>>

(* Mutant: a public key that cannot be read is sent all the same. *)
EnsureCertBlind(p) ==
  /\ At(p, "ensure")
  /\ IF CertFresh(nk[p].job)
       THEN Go(p, "off")
       ELSE Become(p, [nk[p] EXCEPT !.pc = "sign", !.key = pub])
  /\ UNCHANGED <<key, made, pub, cert, agent, quiet>>

(* EnsureCert sends the public key on disk, whichever process wrote it. *)
EnsureCert(p) ==
  /\ At(p, "ensure")
  /\ IF CertFresh(nk[p].job) \/ pub = None
       THEN Go(p, "off")
       ELSE Become(p, [nk[p] EXCEPT !.pc = "sign", !.key = pub])
  /\ UNCHANGED <<key, made, pub, cert, agent, quiet>>

(* The backend certified that key, or did not answer. *)
Install(p) ==
  /\ At(p, "sign")
  /\ \/ cert' = [cert EXCEPT ![nk[p].job] = [key |-> nk[p].key, left |-> Life]]
     \/ ~quiet /\ UNCHANGED cert
  /\ Go(p, "off")
  /\ UNCHANGED <<key, made, pub, agent, quiet>>

(* nk logout removes the directory, its files in no particular order.  It has     *)
(* asked the agent to stop, which an old one may not do.                         *)
Logout(p) ==
  /\ At(p, "off") /\ ~quiet
  /\ Become(p, [Off EXCEPT !.pc = "wipe", !.todo = Files])
  /\ UNCHANGED <<key, made, pub, cert, agent, quiet>>

RemoveConfigDir(p) ==
  /\ At(p, "wipe")
  /\ \E f \in nk[p].todo :
       LET left == nk[p].todo \ {f} IN
       /\ key'  = IF f = "signer" THEN None ELSE key
       /\ pub'  = IF f = "pub" THEN None ELSE pub
       /\ cert' = IF f \in Targets THEN [cert EXCEPT ![f] = None] ELSE cert
       /\ Become(p, [nk[p] EXCEPT !.todo = left, !.pc = IF left = {} THEN "off" ELSE "wipe"])
  /\ UNCHANGED <<made, agent, quiet>>

Crash(p) ==
  /\ ~At(p, "off") /\ ~quiet
  /\ Go(p, "off")
  /\ UNCHANGED <<key, made, pub, cert, agent, quiet>>

-----------------------------------------------------------------------------
(* The agent.  keyring reads nokku.pub on every connection and keeps the signer    *)
(* it has as long as the file says what it said when that was loaded.             *)
Accept ==
  /\ agent.pc = "accept"
  /\ pub # None /\ ~(agent.ring # None /\ agent.pub = pub)
  /\ agent' = [agent EXCEPT !.pc = "load", !.read = pub]
  /\ UNCHANGED <<key, made, pub, cert, nk, quiet>>

(* Mutant: the signer is filed under what nokku.pub says by then. *)
LoadThenRead ==
  /\ agent.pc = "load"
  /\ \E k \in Keys : Open(k) /\ agent' = [pc |-> "accept", read |-> None, pub |-> pub, ring |-> k]
  /\ UNCHANGED <<pub, cert, nk, quiet>>

Load ==
  /\ agent.pc = "load"
  /\ \E k \in Keys :
       Open(k) /\ agent' = [pc |-> "accept", read |-> None, pub |-> agent.read, ring |-> k]
  /\ UNCHANGED <<pub, cert, nk, quiet>>

(* It idles out or is stopped; the next one starts without an identity. *)
AgentEnds ==
  /\ agent # NoId
  /\ agent' = NoId
  /\ UNCHANGED <<key, made, pub, cert, nk, quiet>>

-----------------------------------------------------------------------------
(* The TPM is cleared, the machine gets another id, the file is damaged. *)
KeyLost ==
  /\ key # None /\ ~quiet
  /\ key' = None
  /\ UNCHANGED <<made, pub, cert, nk, agent, quiet>>

Tick ==
  /\ \E t \in Targets : cert[t] # None /\ cert[t].left > 0
  /\ cert' = [t \in Targets |->
                IF cert[t] = None \/ cert[t].left = 0 THEN cert[t]
                ELSE [cert[t] EXCEPT !.left = @ - 1]]
  /\ UNCHANGED <<key, made, pub, nk, agent, quiet>>

Quieten ==
  /\ ~quiet /\ quiet' = TRUE
  /\ UNCHANGED <<key, made, pub, cert, nk, agent>>

SetupKey(p) == OpenSigner(p) \/ ReadPub(p) \/ WritePub(p) \/ ListCerts(p) \/ DropCert(p)

Step(p) == Begin(p) \/ SetupKey(p) \/ EnsureCert(p) \/ Install(p) \/ RemoveConfigDir(p)

Next ==
  \/ \E p \in Procs : Step(p) \/ Logout(p) \/ Crash(p)
  \/ Accept \/ Load \/ AgentEnds
  \/ KeyLost \/ Tick \/ Quieten

(* Processes run, ssh keeps connecting and time passes. *)
Fairness ==
  /\ \A p \in Procs : WF_vars(Step(p))
  /\ WF_vars(Accept) /\ WF_vars(Load) /\ WF_vars(Tick)

Spec == Init /\ [][Next]_vars /\ Fairness

-----------------------------------------------------------------------------
(* "so a recreated identity never needs an agent restart": while nokku.pub names    *)
(* the key of this machine, an agent that sees no reason to load the signer again    *)
(* signs with that key, whatever changed while it loaded the one it has.            *)
ServesCurrent ==
  agent.ring # None /\ agent.pub = pub /\ pub = key => agent.ring = key

(* "A changed identity invalidates the cached certificates": SetupKey may be killed   *)
(* after it wrote the new public key, fail half-way through the certificates, or      *)
(* lose to a process that has one signed for the old key.  Nothing ever removes such   *)
(* a certificate then, and CertFresh takes it for good; still, once keys stop          *)
(* changing, public key, agent and every certificate in force agree for good.          *)
IdentityHeals ==
  quiet ~> [](/\ key # None /\ pub = key
              /\ agent.ring \in {None, key}
              /\ \A t \in Targets : cert[t] # None /\ cert[t].left > 0 => cert[t].key = key)
=============================================================================
