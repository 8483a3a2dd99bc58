------------------------------- MODULE Access -------------------------------
(***************************************************************************)
(* How nk keeps one server reachable: the ssh hooks nk prepare and nk proxy *)
(* (cmd/proxy.go), nk ls and nk login, the access sync and the renewal of   *)
(* the certificate (client/client.go), all running as separate processes    *)
(* that share config.json, cache.json, ssh_config and the certificate file. *)
(*                                                                         *)
(* The backend's view of the server moves through a fixed history; a        *)
(* snapshot or a certificate is named by the epoch it was taken in.  Time    *)
(* is relative: every timestamp is an age in ticks, capped where the code    *)
(* stops telling ages apart, so behaviours are unbounded.                   *)
(***************************************************************************)
EXTENDS Naturals, Sequences

CONSTANTS
  Conns,       \* ssh connections: nk prepare, then nk proxy
  Cmds,        \* nk ls, nk login and nk doctor --fix runs
  Worlds,      \* what a behaviour is about:
  History,     \* History[w]: the backend's access per epoch, [key, names]
  Acting,      \* Acting[w]: the processes that run
  Env,         \* Env[w]: what may go wrong, a subset of {"outage", "sessions"}
  FreshFor,    \* proxyFreshFor, in ticks
  RetryAfter,  \* syncRetryAfter, in ticks
  Life,        \* lifetime of a certificate, in ticks
  None

ASSUME WorldAssumption ==
  \A w \in Worlds :
    /\ Len(History[w]) \in Nat \ {0} /\ DOMAIN History[w] = 1..Len(History[w])
    /\ Acting[w] \subseteq Conns \cup Cmds /\ Env[w] \subseteq {"outage", "sessions"}
ASSUME TimeAssumption ==
  FreshFor \in Nat /\ RetryAfter \in Nat \ {0} /\ Life \in Nat \ {0}
ASSUME ProcAssumption == Conns \cap Cmds = {}

VARIABLES
  world,    \* one of Worlds
  (* the backend *)
  up,       \* it answers within the timeouts
  epoch,    \* what it would hand out now
  (* the files under ~/.config/nk *)
  config,   \* config.json holds a session the backend accepts
  cache,    \* cache.json: [epoch, synced, failed], None when missing
  hosts,    \* ssh_config lists the server
  cert,     \* the certificate file: [epoch, left], None when missing
  (* one nk process per member of Conns \cup Cmds *)
  nk,       \* nk[p]: where it is and what it has in memory
  armed     \* it began with a snapshot and a certificate good for it,
            \* and neither lapsed since (history variable)

files   == <<config, cache, hosts, cert>>
backend == <<world, up, epoch>>
vars    == <<world, up, epoch, config, cache, hosts, cert, nk, armed>>

Procs    == Conns \cup Cmds
Epochs   == DOMAIN History[world]
Snapshot == [epoch : Epochs, synced : 0..(FreshFor + 1), failed : 0..RetryAfter]
Cert     == [epoch : Epochs, left : 0..Life]
PC == {"idle", "prepare", "ensure", "sign", "install", "mark", "proxy", "decide",
       "session", "login", "loginConfig", "loginCache", "access", "cleanup",
       "remove", "saveConfig", "saveCache", "writeHosts", "fallback",
       "markSync", "pick", "repair", "prune", "failed"}
Why == {"prepare", "must", "may", "ls", "login", "doctor", "ls again", "login again"}

ASSUME NoneAssumption ==
  /\ None \notin Why
  /\ \A w \in Worlds :
       /\ None \notin DOMAIN History[w]
       /\ None \notin [epoch : DOMAIN History[w], synced : 0..(FreshFor + 1),
                     failed : 0..RetryAfter]
       /\ None \notin [epoch : DOMAIN History[w], left : 0..Life]

(* A process: its place in the code, whether its session is one the backend       *)
(* accepts, its snapshot, the epoch of the answer (of GetMyAccess or              *)
(* SignSSHCertificate) it works on, and for whom EnsureCert runs or what the       *)
(* command is.                                                                 *)
Process == [pc : PC, ses : BOOLEAN, mem : Snapshot \cup {None},
            answer : Epochs \cup {None}, why : Why \cup {None}]
Off     == [pc |-> "idle", ses |-> FALSE, mem |-> None, answer |-> None, why |-> None]

TypeOK ==
  /\ world \in Worlds /\ up \in BOOLEAN /\ epoch \in Epochs
  /\ config \in BOOLEAN /\ hosts \in BOOLEAN
  /\ cache \in Snapshot \cup {None}
  /\ cert \in Cert \cup {None}
  /\ nk \in [Procs -> Process]
  /\ armed \in [Procs -> BOOLEAN]

-----------------------------------------------------------------------------
Key(e)   == History[world][e].key
Names(e) == History[world][e].names

(* TargetByID: the snapshot lists the server.  One without targets counts as  *)
(* no cached data.                                                           *)
Lists(s) == s # None /\ Names(s.epoch) # {}

(* CertValid with no margin, CertCovers and CertFresh of the file on disk.    *)
CertValid(s)  == cert # None /\ Key(cert.epoch) = Key(s.epoch) /\ cert.left > 0
CertCovers(s) == cert # None /\ Names(s.epoch) \subseteq Names(cert.epoch)
CertFresh(s)  == CertValid(s) /\ CertCovers(s) /\ 2 * cert.left > Life

SyncFailedWithin(s) == s # None /\ s.failed < RetryAfter

Fresh(e) == [epoch |-> e, synced |-> 0, failed |-> RetryAfter]

Mem(p) == nk[p].mem
At(p, l) == nk[p].pc = l

(* A process goes on as r.  One that ends, or makes room for nk proxy, leaves      *)
(* nothing in memory.                                                          *)
Ended(r) == r.pc \in {"idle", "failed", "proxy"}
Become(p, r) ==
  /\ nk' = [nk EXCEPT ![p] = IF Ended(r) THEN [Off EXCEPT !.pc = r.pc] ELSE r]
  /\ armed' = [armed EXCEPT ![p] = @ /\ r.pc # "idle"]
Go(p, l) == Become(p, [nk[p] EXCEPT !.pc = l])

Interactive(p) == nk[p].why \in {"ls", "login"}
Again(c) == CASE c = "ls" -> "ls again" [] c = "login" -> "login again"

Init ==
  /\ world \in Worlds
  /\ up = TRUE /\ epoch = 1
  /\ \/ config = TRUE /\ cache = Fresh(1) /\ hosts = Lists(cache)  \* after nk login
     \/ config = FALSE /\ cache = None /\ hosts = FALSE      \* a new machine
  /\ cert = None
  /\ nk = [p \in Procs |-> Off]
  /\ armed = [p \in Procs |-> FALSE]

-----------------------------------------------------------------------------
(* state.Load: the session and the snapshot on disk. *)
Loaded(p) == [nk[p] EXCEPT !.ses = config, !.mem = cache]

(* ssh reads its config and finds the server: Match exec runs nk prepare. *)
BeginConn(p) ==
  /\ p \in Conns \cap Acting[world] /\ nk[p].pc \in {"idle", "failed"}
  /\ hosts
  /\ nk' = [nk EXCEPT ![p] = [Loaded(p) EXCEPT !.pc = "prepare", !.why = "prepare"]]
  /\ armed' = [armed EXCEPT ![p] = Lists(cache) /\ CertValid(cache)]
  /\ UNCHANGED <<backend, files>>

(* Mutant: the noted failure is not looked at. *)
PrepareSkipsFresh(p) == ~Lists(Mem(p)) \/ CertFresh(Mem(p))

(* renewCert leaves an unknown server, a fresh certificate, and during an      *)
(* outage a working one alone.                                               *)
PrepareSkips(p) ==
  \/ ~Lists(Mem(p))
  \/ CertFresh(Mem(p))
  \/ CertValid(Mem(p)) /\ SyncFailedWithin(Mem(p))

Prepare(p) ==
  /\ At(p, "prepare")
  /\ Go(p, IF PrepareSkips(p) THEN "proxy" ELSE "ensure")
  /\ UNCHANGED <<backend, files>>

(* Mutants: nk prepare notes a failure after a renewal that succeeded; an       *)
(* account the certificate lacks is reason enough to fail the connection.      *)
EnsureDoneMarks(p) == IF nk[p].why = "prepare" THEN "mark" ELSE "idle"
EnsureMust(p)      == IF nk[p].why = "prepare" THEN "mark" ELSE "failed"

(* Where a process goes once EnsureCert returned. *)
EnsureDone(p) == IF nk[p].why = "prepare" THEN "proxy" ELSE "idle"

EnsureFailed(p) ==
  CASE nk[p].why = "prepare" -> "mark"
    [] nk[p].why = "must"    -> "failed"
    [] nk[p].why = "may"     -> "idle"

(* EnsureCert: a fresh certificate needs nothing, no session ends it. *)
EnsureCert(p) ==
  /\ At(p, "ensure")
  /\ Go(p, IF CertFresh(Mem(p)) THEN EnsureDone(p)
           ELSE IF nk[p].ses THEN "sign" ELSE EnsureFailed(p))
  /\ UNCHANGED <<backend, files>>

(* SignSSHCertificate: signed with the current key for the accounts granted    *)
(* now, or an error.                                                         *)
Sign(p) ==
  /\ At(p, "sign")
  /\ IF up /\ nk[p].ses /\ Names(epoch) # {}
       THEN Become(p, [nk[p] EXCEPT !.pc = "install", !.answer = epoch])
       ELSE Go(p, EnsureFailed(p))
  /\ UNCHANGED <<backend, files>>

(* CheckCert of the answer against the key in the process's own snapshot, then *)
(* the file is written.                                                      *)
Install(p) ==
  /\ At(p, "install")
  /\ LET ok == Key(nk[p].answer) = Key(Mem(p).epoch) IN
     /\ cert' = IF ok THEN [epoch |-> nk[p].answer, left |-> Life] ELSE cert
     /\ Become(p, [nk[p] EXCEPT !.answer = None,
                     !.pc = IF ok THEN EnsureDone(p) ELSE EnsureFailed(p)])
  /\ UNCHANGED <<backend, config, cache, hosts>>

(* Mutant: MarkSyncFailed writes an age no snapshot has. *)
MarkSyncNever(p) == [Mem(p) EXCEPT !.failed = RetryAfter + 1]

(* MarkSyncFailed writes the whole snapshot the process has in memory. *)
MarkSyncFailed(p) == [Mem(p) EXCEPT !.failed = 0]

PrepareMark(p) ==
  /\ At(p, "mark")
  /\ cache' = MarkSyncFailed(p)
  /\ Go(p, "proxy")
  /\ UNCHANGED <<backend, config, hosts, cert>>

-----------------------------------------------------------------------------
(* nk proxy is a process of its own. *)
ProxyLoad(p) ==
  /\ At(p, "proxy")
  /\ Become(p, [Loaded(p) EXCEPT !.pc = "decide"])
  /\ UNCHANGED <<backend, files>>

Stale(s) == s # None /\ s.synced > FreshFor /\ ~SyncFailedWithin(s)

Decide(p) ==
  /\ At(p, "decide")
  /\ Go(p, IF Stale(Mem(p)) \/ ~Lists(Mem(p)) THEN "session" ELSE "pick")
  /\ UNCHANGED <<backend, files>>

(* The server and its CA in the snapshot decide what the certificate needs. *)
Pick(p) ==
  /\ At(p, "pick")
  /\ LET ensure(w) == Become(p, [nk[p] EXCEPT !.pc = "ensure", !.why = w]) IN
     IF ~Lists(Mem(p)) THEN Go(p, "failed")
     ELSE IF ~CertValid(Mem(p)) THEN ensure("must")
     ELSE IF ~CertCovers(Mem(p)) THEN ensure("may")
     ELSE Go(p, "idle")
  /\ UNCHANGED <<backend, files>>

-----------------------------------------------------------------------------
(* nk ls and nk login: interactive, the first one with the cache to fall back  *)
(* on.  nk doctor --fix works from the snapshot it loaded.                     *)
BeginCmd(p) ==
  /\ p \in Cmds \cap Acting[world] /\ nk[p].pc \in {"idle", "failed"}
  /\ \E c \in {"ls", "login", "doctor"} :
       Become(p, [Loaded(p) EXCEPT !.why = c,
                                   !.pc = IF c = "doctor" THEN "repair" ELSE "session"])
  /\ UNCHANGED <<backend, files>>

(* Sync fails: SyncOrCache falls back, nk login reports. *)
SyncFailed(p) == IF nk[p].why \in {"login", "login again"} THEN "failed" ELSE "fallback"

(* ensureSession: without a session only an interactive command signs in. *)
EnsureSession(p) ==
  /\ At(p, "session")
  /\ Go(p, IF nk[p].ses THEN "access"
           ELSE IF Interactive(p) THEN "login" ELSE SyncFailed(p))
  /\ UNCHANGED <<backend, files>>

(* deviceLogin: approved in the browser, or denied, expired, unreachable. *)
DeviceLogin(p) ==
  /\ At(p, "login")
  /\ \/ up /\ Become(p, [nk[p] EXCEPT !.pc = "loginConfig", !.ses = TRUE])
     \/ Go(p, SyncFailed(p))
  /\ UNCHANGED <<backend, files>>

(* Save writes config.json ... *)
SaveConfig(p) ==
  /\ \/ At(p, "loginConfig") /\ Go(p, "loginCache")
     \/ At(p, "saveConfig")  /\ Go(p, "saveCache")
  /\ config' = nk[p].ses
  /\ UNCHANGED <<backend, cache, hosts, cert>>

(* ... and then cache.json, from what the process has in memory. *)
SaveCache(p) ==
  /\ \/ At(p, "loginCache") /\ Go(p, "access")
     \/ At(p, "saveCache")  /\ Go(p, "writeHosts")
  /\ cache' = Mem(p)
  /\ UNCHANGED <<backend, config, hosts, cert>>

(* GetMyAccess.  A rejected session signs an interactive command in once more. *)
GetMyAccess(p) ==
  /\ At(p, "access")
  /\ IF up /\ nk[p].ses
       THEN Become(p, [nk[p] EXCEPT !.pc = "cleanup", !.answer = epoch])
     ELSE IF up /\ Interactive(p)
       THEN Become(p, [nk[p] EXCEPT !.pc = "login", !.why = Again(@)])
     ELSE Go(p, SyncFailed(p))
  /\ UNCHANGED <<backend, files>>

(* The answer becomes the snapshot in memory.  It clears FailedAt. *)
TakeAccess(p) ==
  Become(p, [nk[p] EXCEPT !.pc = "saveConfig", !.mem = Fresh(nk[p].answer),
                          !.answer = None])

(* Mutant: with no server left there is nothing to clean up. *)
CleanupCertsUnlessEmpty(p) ==
  At(p, "cleanup") /\ TakeAccess(p) /\ UNCHANGED <<backend, files>>

(* CleanupCerts lists the certificates that belong to no server any more ... *)
CleanupCerts(p) ==
  /\ At(p, "cleanup")
  /\ IF Names(nk[p].answer) = {} /\ cert # None THEN Go(p, "remove") ELSE TakeAccess(p)
  /\ UNCHANGED <<backend, files>>

(* ... and removes each.  One that another nk removed first is an error. *)
RemoveCert(p) ==
  /\ At(p, "remove")
  /\ IF cert # None
       THEN TakeAccess(p)
       ELSE Become(p, [nk[p] EXCEPT !.pc = SyncFailed(p), !.answer = None])
  /\ cert' = None
  /\ UNCHANGED <<backend, config, cache, hosts>>

(* WriteConfigs renders ssh_config from the snapshot in memory. *)
WriteConfigs(p) ==
  /\ At(p, "writeHosts")
  /\ hosts' = Lists(Mem(p))
  /\ Go(p, IF p \in Conns THEN "pick" ELSE "idle")
  /\ UNCHANGED <<backend, config, cache, cert>>

(* SyncOrCache reads the snapshot on disk again and goes on with it. *)
Fallback(p) ==
  /\ At(p, "fallback")
  /\ Become(p, [nk[p] EXCEPT !.mem = cache,
                             !.pc = IF Lists(cache) THEN "markSync" ELSE "failed"])
  /\ UNCHANGED <<backend, files>>

FallbackMark(p) ==
  /\ At(p, "markSync")
  /\ cache' = MarkSyncFailed(p)
  /\ Become(p, [nk[p] EXCEPT !.mem = MarkSyncFailed(p),
                             !.pc = IF p \in Conns THEN "pick" ELSE "idle"])
  /\ UNCHANGED <<backend, config, hosts, cert>>

-----------------------------------------------------------------------------
(* repair: WriteConfigs from the snapshot in memory, which may be older than the *)
(* one on disk by now.                                                       *)
Repair(p) ==
  /\ At(p, "repair")
  /\ hosts' = Lists(Mem(p))
  /\ Go(p, "prune")
  /\ UNCHANGED <<backend, config, cache, cert>>

(* CleanupCerts, but not without cached data.  A snapshot that does not list     *)
(* this server may list others.                                               *)
Prune(p) ==
  /\ At(p, "prune")
  /\ cert' \in IF Mem(p) # None /\ ~Lists(Mem(p)) THEN {cert, None} ELSE {cert}
  /\ Go(p, "idle")
  /\ UNCHANGED <<backend, config, cache, hosts>>

-----------------------------------------------------------------------------
(* The world. *)
Older(s) == IF s = None THEN None
            ELSE [s EXCEPT !.synced = IF @ > FreshFor THEN @ ELSE @ + 1,
                           !.failed = IF @ < RetryAfter THEN @ + 1 ELSE @]

(* A tick is longer than the checks between an answer and its file, so none    *)
(* falls there.  It may fall anywhere else: a login waits for a person.       *)
Tick ==
  /\ \A p \in Procs : ~At(p, "install")
  /\ cache' = Older(cache)
  /\ nk' = [p \in Procs |-> [nk[p] EXCEPT !.mem = Older(@)]]
  /\ cert' = IF cert = None \/ cert.left = 0 THEN cert
             ELSE [cert EXCEPT !.left = @ - 1]
  /\ armed' = [p \in Procs |-> armed[p] /\ cert # None /\ cert.left > 1]
  /\ UNCHANGED <<backend, config, hosts>>

(* The backend rolls its CA over, grants or revokes an account. *)
Change ==
  /\ epoch + 1 \in Epochs
  /\ epoch' = epoch + 1
  /\ UNCHANGED <<world, up, files, nk, armed>>

Outage ==
  /\ "outage" \in Env[world]
  /\ up' = ~up
  /\ UNCHANGED <<world, epoch, files, nk, armed>>

(* Every session issued so far runs out or is revoked. *)
SessionEnds ==
  /\ "sessions" \in Env[world]
  /\ config' = FALSE
  /\ nk' = [p \in Procs |-> [nk[p] EXCEPT !.ses = FALSE]]
  /\ UNCHANGED <<backend, cache, hosts, cert, armed>>

Renewal(p) == EnsureCert(p) \/ Sign(p) \/ Install(p)

Sync(p) ==
  \/ EnsureSession(p) \/ DeviceLogin(p) \/ GetMyAccess(p) \/ CleanupCerts(p)
  \/ RemoveCert(p) \/ SaveConfig(p) \/ SaveCache(p) \/ WriteConfigs(p)
  \/ Fallback(p) \/ FallbackMark(p)

Step(p) ==
  \/ BeginConn(p) \/ Prepare(p) \/ PrepareMark(p)
  \/ ProxyLoad(p) \/ Decide(p) \/ Pick(p)
  \/ BeginCmd(p) \/ Renewal(p) \/ Sync(p) \/ Repair(p) \/ Prune(p)

Next == (\E p \in Procs : Step(p)) \/ Tick \/ Change \/ Outage \/ SessionEnds

(* A process that runs keeps running, time passes, people keep connecting and,   *)
(* in a world with commands, running them.  The backend owes nothing.         *)
Fairness == WF_vars(Tick) /\ \A p \in Procs : WF_vars(Step(p))

Spec == Init /\ [][Next]_vars /\ Fairness

-----------------------------------------------------------------------------
(* Accounts are granted; no CA is rolled over, nothing is revoked. *)
OnlyGrants ==
  \A e \in Epochs : e > 1 => Key(e) = Key(e - 1) /\ Names(e - 1) \subseteq Names(e)

(* "so ssh keeps working while the backend is down or the session has run      *)
(* out": a connection that begins with a snapshot and a certificate good for    *)
(* it never fails while the certificate lasts, however the backend goes down and *)
(* up and other nk processes interleave.  For a history that only grants: a       *)
(* rollover or a revoke ends what the certificate is good for.                  *)
OfflineKeepsWorking ==
  OnlyGrants => \A p \in Conns : At(p, "failed") => ~armed[p]

(* "An SSH connection refreshes it too": with the backend up and the session   *)
(* good, people connecting is enough for the snapshot on disk to become, and    *)
(* stay, what the backend hands out.                                          *)
Converges ==
  <>[](up /\ config /\ hosts) => <>[](cache # None /\ cache.epoch = epoch)

(* Where the world comes to rest, the backend up and the session good, so does    *)
(* this machine, for good.  After grants, people who connect bring the snapshot up  *)
(* to date (Converges).  After a revoke, nk ls run again and again removes host     *)
(* entry and certificate, even one that another process was still fetching, and     *)
(* although CleanupCerts may lose a race.  Not while people run nk doctor --fix for  *)
(* ever: it puts the server back from a snapshot that a failed renewal wrote over   *)
(* the one of nk ls.                                                           *)
AtRest ==
  /\ up /\ config
  /\ OnlyGrants => hosts
  /\ ~OnlyGrants => Names(epoch) = {} /\ \A p \in Cmds : nk[p].why # "doctor"

Settled ==
  IF OnlyGrants THEN cache # None /\ cache.epoch = epoch ELSE cert = None /\ ~hosts

AccessSettles == <>[]AtRest => <>[]Settled

(* "so that costs one attempt and not one per connection": nk under ssh makes     *)
(* no call to the backend while the snapshot it loaded notes a recent failure     *)
(* and the certificate on disk works for every account.  (For an account it       *)
(* does not cover yet nk proxy does try, on every connection.)                    *)
OutageCostsOneAttempt ==
  [][\A p \in Conns :
       nk'[p].pc \in {"sign", "access"} /\ nk[p].pc # nk'[p].pc =>
         ~(SyncFailedWithin(Mem(p)) /\ CertValid(Mem(p)) /\ CertCovers(Mem(p)))]_vars
=============================================================================
