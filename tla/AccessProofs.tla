----------------------------- MODULE AccessProofs -----------------------------
(***************************************************************************)
(* What Access promises for any connections, commands, history of the backend     *)
(* and timeouts.  Three invariants, each resting on the one before: Sound, what a    *)
(* process has in memory at each place in the code; Attempts, that a certificate     *)
(* another process installed meanwhile is too new to be renewed; Offline, that where  *)
(* accounts are only granted a connection which began well finds what it needs at     *)
(* every step.                                                               *)
(***************************************************************************)
EXTENDS Access, TLAPS

(* A failure is only ever noted in a snapshot that lists the server. *)
Noted(s) == SyncFailedWithin(s) => Lists(s)

Renewing == {"ensure", "sign", "install"}
SigningIn == {"login", "loginConfig", "loginCache"}

(* Process p may be in state r. *)
Sound(p, r) ==
  /\ r \in Process
  /\ Noted(r.mem)
  /\ r.pc = "prepare" => r.why = "prepare"
  /\ r.pc \in Renewing => r.why \in {"prepare", "must", "may"}
  /\ r.pc \in Renewing \cup {"mark", "markSync"} => Lists(r.mem)
  /\ r.pc \in {"install", "cleanup", "remove"} => r.answer # None
  /\ p \in Conns =>
       /\ r.why \in {None, "prepare", "must", "may"} /\ r.pc \notin SigningIn
       /\ r.pc = "session" => ~SyncFailedWithin(r.mem)

Typed ==
  /\ TypeOK
  /\ Noted(cache)
  /\ \A p \in Procs : Sound(p, nk[p])

(* A connection that is about to renew a certificate good for it: another process     *)
(* installed it since, no longer ago than the failure that its snapshot notes.        *)
Attempts ==
  \A p \in Conns :
    /\ nk[p].pc = "ensure" /\ SyncFailedWithin(Mem(p))
    /\ CertValid(Mem(p)) /\ CertCovers(Mem(p))
    => cert.left + Mem(p).failed >= Life

-----------------------------------------------------------------------------
(* Where accounts are only granted, from the start: every epoch anybody knows of      *)
(* lists the server under the key of today.                                     *)
FromTheStart == \A w \in Worlds : History[w][1].names # {}

Good(e) == Names(e) # {} /\ Key(e) = Key(epoch)

AllGood ==
  /\ Good(epoch)
  /\ cache # None => Good(cache.epoch)
  /\ cert # None => Good(cert.epoch)
  /\ \A p \in Procs :
       /\ Mem(p) # None => Good(Mem(p).epoch)
       /\ nk[p].answer # None => Good(nk[p].answer)
       /\ ~At(p, "remove")

(* Nobody is left without a snapshot.  Until a machine has its first one only the      *)
(* command that fetches it runs.                                                *)
SignedIn == cache # None /\ \A p \in Procs : ~Ended(nk[p]) => Mem(p) # None

OneCommand == \A p, q \in Cmds : p = q

NewMachine ==
  /\ cache = None /\ ~hosts
  /\ \A p \in Conns : At(p, "idle") /\ ~armed[p]
  /\ \A p \in Procs : Mem(p) # None => nk[p].pc \in {"saveConfig", "saveCache"}

(* An armed connection has the certificate it began with, or a newer one. *)
Armed ==
  \A p \in Conns : armed[p] =>
    /\ cert # None /\ cert.left > 0
    /\ ~At(p, "failed")
    /\ nk[p].pc \in Renewing => nk[p].why # "must"

Offline == OnlyGrants => AllGood /\ ((SignedIn /\ Armed) \/ NewMachine)

-----------------------------------------------------------------------------
(* Types and memory. *)
Plain == {"idle", "proxy", "decide", "access", "saveConfig", "saveCache",
          "writeHosts", "fallback", "pick", "repair", "prune", "failed"}

LEMMA EpochFacts ==
  ASSUME world \in Worlds
  PROVE  /\ 1 \in Epochs /\ Epochs \subseteq Nat /\ None \notin Epochs
         /\ None \notin Snapshot /\ None \notin Cert
BY WorldAssumption, NoneAssumption DEF Epochs, Snapshot, Cert

LEMMA FreshNoted ==
  ASSUME NEW e \in Epochs
  PROVE  Fresh(e) \in Snapshot /\ Fresh(e).epoch = e /\ Noted(Fresh(e))
BY TimeAssumption DEF Fresh, Snapshot, Noted, SyncFailedWithin

LEMMA OffSound ==
  ASSUME NEW p \in Procs, NEW l \in {"idle", "failed", "proxy"}
  PROVE  Sound(p, [Off EXCEPT !.pc = l])
BY DEF Sound, Off, Process, PC, Noted, SyncFailedWithin, Renewing, SigningIn

(* Nothing of Typed but nk, armed and the files changes in a step of a process. *)
LEMMA TypedAfter ==
  ASSUME Typed, world' = world, up' \in BOOLEAN, epoch' \in Epochs, config' \in BOOLEAN, hosts' \in BOOLEAN,
         cache' \in Snapshot \cup {None}, Noted(cache'), cert' \in Cert \cup {None},
         nk' \in [Procs -> Process], \A p \in Procs : Sound(p, nk'[p]),
         armed' \in [Procs -> BOOLEAN]
  PROVE  Typed'
<1>2. Epochs' = Epochs
  BY DEF Epochs
<1>3. Snapshot' = Snapshot /\ Cert' = Cert
  BY <1>2 DEF Snapshot, Cert
<1>4. Process' = Process
  BY <1>2, <1>3 DEF Process
<1>5. TypeOK'
  BY <1>2, <1>3, <1>4 DEF Typed, TypeOK
<1>6. Noted(cache)'
  BY DEF Noted, SyncFailedWithin, Lists, Names
<1>7. \A p \in Procs : Sound(p, nk[p])'
  BY <1>4 DEF Sound, Noted, SyncFailedWithin, Lists, Names
<1> QED
  BY <1>5, <1>6, <1>7 DEF Typed

LEMMA BecomeTyped ==
  ASSUME Typed, NEW p \in Procs, NEW r, Become(p, r), Sound(p, r),
         UNCHANGED backend, config' \in BOOLEAN, hosts' \in BOOLEAN,
         cache' \in Snapshot \cup {None}, Noted(cache'), cert' \in Cert \cup {None}
  PROVE  Typed'
<1>1. nk \in [Procs -> Process] /\ armed \in [Procs -> BOOLEAN]
  BY DEF Typed, TypeOK
<1>2. PICK s : Sound(p, s) /\ nk' = [nk EXCEPT ![p] = s]
  <2>1. CASE Ended(r)
    BY <2>1, OffSound DEF Become, Ended
  <2>2. CASE ~Ended(r)
    BY <2>2 DEF Become
  <2> QED
    BY <2>1, <2>2
<1>3. s \in Process
  BY <1>2 DEF Sound
<1>4. nk' \in [Procs -> Process]
  BY <1>1, <1>2, <1>3
<1>5. \A q \in Procs : nk'[q] = IF q = p THEN s ELSE nk[q]
  BY <1>1, <1>2
<1>6. \A q \in Procs : Sound(q, nk'[q])
  BY <1>2, <1>5 DEF Typed
<1>7. armed' \in [Procs -> BOOLEAN]
  BY <1>1 DEF Become
<1>8. world' = world /\ up' \in BOOLEAN /\ epoch' \in Epochs
  BY DEF backend, Typed, TypeOK
<1> QED
  BY <1>4, <1>6, <1>7, <1>8, TypedAfter

LEMMA GoSound ==
  ASSUME Typed, NEW p \in Procs, NEW l \in Plain
  PROVE  Sound(p, [nk[p] EXCEPT !.pc = l])
BY DEF Typed, Sound, Process, Plain, PC, Renewing, SigningIn

(* What Typed says of the files and of a process, for the steps below. *)
LEMMA TypedFacts ==
  ASSUME Typed, NEW p \in Procs
  PROVE  /\ world \in Worlds /\ epoch \in Epochs
         /\ config \in BOOLEAN /\ hosts \in BOOLEAN
         /\ cache \in Snapshot \cup {None} /\ Noted(cache) /\ cert \in Cert \cup {None}
         /\ nk[p] \in Process /\ Sound(p, nk[p])
BY DEF Typed, TypeOK

LEMMA MarkNoted ==
  ASSUME Typed, NEW p \in Procs, Lists(Mem(p))
  PROVE  MarkSyncFailed(p) \in Snapshot /\ Lists(MarkSyncFailed(p))
         /\ Noted(MarkSyncFailed(p))
<1>1. Mem(p) \in Snapshot
  BY TypedFacts DEF Process, Mem, Lists
<1>2. MarkSyncFailed(p) \in Snapshot /\ MarkSyncFailed(p).epoch = Mem(p).epoch
  BY <1>1, TimeAssumption DEF MarkSyncFailed, Snapshot
<1>3. MarkSyncFailed(p) # None
  BY <1>2, TypedFacts, EpochFacts
<1> QED
  BY <1>2, <1>3 DEF Lists, Noted

(* EnsureFailed and EnsureDone end renewCert. *)
LEMMA EnsureEnds ==
  ASSUME Typed, NEW p \in Procs, nk[p].pc \in Renewing,
         NEW l \in {EnsureDone(p), EnsureFailed(p)}
  PROVE  l \in {"proxy", "idle", "mark", "failed"}
BY TypedFacts DEF Sound, EnsureDone, EnsureFailed

LEMMA SyncFailedEnds ==
  ASSUME NEW p \in Procs
  PROVE  SyncFailed(p) \in {"failed", "fallback"}
BY DEF SyncFailed

LEMMA ConnTyped ==
  ASSUME Typed, NEW p \in Procs, BeginConn(p)
  PROVE  Typed'
<1> DEFINE r == [Loaded(p) EXCEPT !.pc = "prepare", !.why = "prepare"]
<1>1. p \in Conns /\ nk' = [nk EXCEPT ![p] = r] /\ UNCHANGED <<backend, files>>
  BY DEF BeginConn
<1>2. Sound(p, r) /\ r \in Process
  <2>1. /\ nk[p] \in Process /\ config \in BOOLEAN
        /\ cache \in Snapshot \cup {None} /\ Noted(cache)
    BY TypedFacts
  <2>2. "prepare" \in PC /\ "prepare" \in Why
    BY DEF PC, Why
  <2>3. r \in Process /\ r.pc = "prepare" /\ r.why = "prepare" /\ r.mem = cache
    BY <2>1, <2>2 DEF Loaded, Process
  <2> QED
    BY <2>1, <2>3 DEF Sound, Renewing, SigningIn
<1>3. nk \in [Procs -> Process] /\ armed \in [Procs -> BOOLEAN]
  BY DEF Typed, TypeOK
<1> HIDE DEF r
<1>4. nk' \in [Procs -> Process]
  BY <1>1, <1>2, <1>3
<1>5. \A q \in Procs : Sound(q, nk'[q])
  BY <1>1, <1>2, <1>3 DEF Typed
<1>6. armed' \in [Procs -> BOOLEAN]
  <2>1. (Lists(cache) /\ CertValid(cache)) \in BOOLEAN
    OBVIOUS
  <2> QED
    BY <2>1, <1>3 DEF BeginConn, Lists, CertValid
<1>7. world' = world /\ up' \in BOOLEAN /\ epoch' \in Epochs
  BY <1>1 DEF backend, Typed, TypeOK
<1> QED
  BY <1>1, <1>4, <1>5, <1>6, <1>7, TypedFacts, TypedAfter DEF files

(* nk prepare and nk proxy outside of a sync. *)
LEMMA HookTyped ==
  ASSUME Typed, NEW p \in Procs,
         Prepare(p) \/ PrepareMark(p) \/ ProxyLoad(p) \/ Decide(p) \/ Pick(p)
  PROVE  Typed'
<1> USE TypedFacts
<1>1. CASE Prepare(p)
  <2>1. CASE PrepareSkips(p)
    BY <2>1, <1>1, GoSound, BecomeTyped DEF Prepare, Go, Plain, files
  <2>2. CASE ~PrepareSkips(p)
    <3> DEFINE r == [nk[p] EXCEPT !.pc = "ensure"]
    <3>1. At(p, "prepare") /\ Lists(Mem(p)) /\ Become(p, r) /\ UNCHANGED <<backend, files>>
      BY <2>2, <1>1 DEF Prepare, PrepareSkips, Go
    <3>2. Sound(p, r)
      BY <3>1 DEF At, Sound, Process, PC, Renewing, SigningIn, Mem
    <3> QED
      BY <3>1, <3>2, BecomeTyped DEF files
  <2> QED
    BY <2>1, <2>2
<1>2. CASE PrepareMark(p)
  <2>1. Lists(Mem(p))
    BY <1>2 DEF PrepareMark, At, Sound, Mem
  <2>2. cache' \in Snapshot \cup {None} /\ Noted(cache')
    BY <2>1, <1>2, MarkNoted DEF PrepareMark
  <2>3. Sound(p, [nk[p] EXCEPT !.pc = "proxy"])
    BY GoSound DEF Plain
  <2> QED
    BY <2>2, <2>3, <1>2, BecomeTyped DEF PrepareMark, Go
<1>3. CASE ProxyLoad(p)
  <2> DEFINE r == [Loaded(p) EXCEPT !.pc = "decide"]
  <2>1. Sound(p, r)
    BY DEF Sound, Loaded, Process, PC, Renewing, SigningIn
  <2> QED
    BY <2>1, <1>3, BecomeTyped DEF ProxyLoad, files
<1>4. CASE Decide(p)
  <2>1. CASE Stale(Mem(p)) \/ ~Lists(Mem(p))
    <3> DEFINE r == [nk[p] EXCEPT !.pc = "session"]
    <3>1. ~SyncFailedWithin(Mem(p))
      BY <2>1 DEF Stale, Sound, Noted, Mem
    <3>2. Sound(p, r)
      BY <3>1 DEF Sound, Process, PC, Renewing, SigningIn, Mem
    <3> QED
      BY <3>2, <2>1, <1>4, BecomeTyped DEF Decide, Go, files
  <2>2. CASE ~(Stale(Mem(p)) \/ ~Lists(Mem(p)))
    BY <2>2, <1>4, GoSound, BecomeTyped DEF Decide, Go, Plain, files
  <2> QED
    BY <2>1, <2>2
<1>5. CASE Pick(p)
  <2>1. CASE Go(p, "failed") \/ Go(p, "idle")
    BY <2>1, <1>5, GoSound, BecomeTyped DEF Pick, Go, Plain, files
  <2>2. ASSUME NEW w \in {"must", "may"}, Lists(Mem(p)),
               Become(p, [nk[p] EXCEPT !.pc = "ensure", !.why = w])
        PROVE  Typed'
    <3> DEFINE r == [nk[p] EXCEPT !.pc = "ensure", !.why = w]
    <3>1. Sound(p, r)
      BY <2>2 DEF Sound, Process, PC, Why, Renewing, SigningIn, Mem
    <3> QED
      BY <3>1, <2>2, <1>5, BecomeTyped DEF Pick, files
  <2> QED
    BY <2>1, <2>2, <1>5 DEF Pick
<1> QED
  BY <1>1, <1>2, <1>3, <1>4, <1>5

LEMMA RenewalTyped ==
  ASSUME Typed, NEW p \in Procs, Renewal(p)
  PROVE  Typed'
<1> USE TypedFacts
<1>1. ASSUME NEW l \in {"proxy", "idle", "mark", "failed"}, nk[p].pc \in Renewing
      PROVE  Sound(p, [nk[p] EXCEPT !.pc = l]) /\ Sound(p, [nk[p] EXCEPT !.pc = l, !.answer = None])
  <2> DEFINE r == nk[p]
  <2>1. /\ r \in Process /\ Noted(r.mem) /\ Lists(r.mem)
        /\ p \in Conns => r.why \in {None, "prepare", "must", "may"}
    BY <1>1 DEF Sound
  <2>2. l \in PC /\ l \notin Renewing \cup SigningIn \cup {"prepare", "session"}
        /\ l \notin {"install", "cleanup", "remove"}
    BY DEF PC, Renewing, SigningIn
  <2>3. Sound(p, [r EXCEPT !.pc = l])
    BY <2>1, <2>2 DEF Sound, Process
  <2>4. Sound(p, [r EXCEPT !.pc = l, !.answer = None])
    BY <2>1, <2>2 DEF Sound, Process
  <2> QED
    BY <2>3, <2>4
<1>2. CASE EnsureCert(p)
  <2>0. nk[p].pc \in Renewing /\ UNCHANGED <<backend, files>>
    BY <1>2 DEF EnsureCert, At, Renewing
  <2>1. CASE Go(p, "sign")
    <3> DEFINE r == [nk[p] EXCEPT !.pc = "sign"]
    <3>1. Sound(p, r)
      BY <2>0 DEF Sound, Process, PC, Renewing, SigningIn
    <3> QED
      BY <3>1, <2>0, <2>1, BecomeTyped DEF Go, files
  <2>2. CASE Go(p, EnsureDone(p)) \/ Go(p, EnsureFailed(p))
    BY <2>0, <2>2, <1>1, EnsureEnds, BecomeTyped DEF Go, files
  <2> QED
    BY <2>1, <2>2, <1>2 DEF EnsureCert
<1>3. CASE Sign(p)
  <2>0. nk[p].pc \in Renewing /\ UNCHANGED <<backend, files>>
    BY <1>3 DEF Sign, At, Renewing
  <2>1. CASE Become(p, [nk[p] EXCEPT !.pc = "install", !.answer = epoch])
    <3> DEFINE r == [nk[p] EXCEPT !.pc = "install", !.answer = epoch]
    <3>0. epoch # None
      BY EpochFacts
    <3>1. Sound(p, r)
      BY <2>0, <3>0 DEF Sound, Process, PC, Renewing, SigningIn
    <3> QED
      BY <3>1, <2>0, <2>1, BecomeTyped DEF files
  <2>2. CASE Go(p, EnsureFailed(p))
    BY <2>0, <2>2, <1>1, EnsureEnds, BecomeTyped DEF Go, files
  <2> QED
    BY <2>1, <2>2, <1>3 DEF Sign
<1>4. CASE Install(p)
  <2>0. nk[p].pc \in Renewing /\ UNCHANGED <<backend, config, cache, hosts>>
    BY <1>4 DEF Install, At, Renewing
  <2>1. PICK l \in {EnsureDone(p), EnsureFailed(p)} :
          Become(p, [nk[p] EXCEPT !.answer = None, !.pc = l])
    BY <1>4 DEF Install
  <2>2. l \in {"proxy", "idle", "mark", "failed"}
    BY <2>0, <2>1, EnsureEnds
  <2>3. Sound(p, [nk[p] EXCEPT !.answer = None, !.pc = l])
    BY <2>0, <2>2, <1>1
  <2>4. nk[p].answer \in Epochs
    BY <1>4 DEF Install, At, Sound, Process
  <2>5. cert' \in Cert \cup {None}
    BY <2>4, <1>4, TimeAssumption DEF Install, Cert
  <2> QED
    BY <2>0, <2>1, <2>3, <2>5, BecomeTyped
<1> QED
  BY <1>2, <1>3, <1>4 DEF Renewal

LEMMA SyncTyped ==
  ASSUME Typed, NEW p \in Procs, Sync(p)
  PROVE  Typed'
<1> USE TypedFacts
<1>1. ASSUME NEW l \in Plain, Go(p, l), UNCHANGED <<backend, files>>
      PROVE  Typed'
  BY <1>1, GoSound, BecomeTyped DEF Go, files
<1>2. ASSUME Go(p, SyncFailed(p)), UNCHANGED <<backend, files>>
      PROVE  Typed'
  BY <1>1, <1>2, SyncFailedEnds DEF Plain
<1>3. CASE EnsureSession(p)
  <2>1. CASE Go(p, "login") /\ Interactive(p)
    <3> DEFINE r == [nk[p] EXCEPT !.pc = "login"]
    <3>1. Sound(p, r)
      BY <2>1, NoneAssumption DEF Sound, Process, PC, Renewing, SigningIn, Interactive, Why
    <3> QED
      BY <3>1, <2>1, <1>3, BecomeTyped DEF EnsureSession, Go, files
  <2> QED
    BY <2>1, <1>1, <1>2, <1>3 DEF EnsureSession, Plain
<1>4. CASE DeviceLogin(p)
  <2>1. CASE Become(p, [nk[p] EXCEPT !.pc = "loginConfig", !.ses = TRUE])
    <3> DEFINE r == [nk[p] EXCEPT !.pc = "loginConfig", !.ses = TRUE]
    <3>1. Sound(p, r)
      BY <1>4 DEF DeviceLogin, At, Sound, Process, PC, Renewing, SigningIn
    <3> QED
      BY <3>1, <2>1, <1>4, BecomeTyped DEF DeviceLogin, files
  <2> QED
    BY <2>1, <1>2, <1>4 DEF DeviceLogin
<1>5. CASE SaveConfig(p)
  <2>1. PICK l \in {"loginCache", "saveCache"} :
          Go(p, l) /\ (l = "loginCache" => At(p, "loginConfig"))
    BY <1>5 DEF SaveConfig
  <2> DEFINE r == [nk[p] EXCEPT !.pc = l]
  <2>2. Sound(p, r)
    BY <2>1 DEF At, Sound, Process, PC, Renewing, SigningIn
  <2>3. config' \in BOOLEAN
    BY <1>5 DEF SaveConfig, Process
  <2> QED
    BY <2>1, <2>2, <2>3, <1>5, BecomeTyped DEF SaveConfig, Go
<1>6. CASE SaveCache(p)
  <2>1. PICK l \in {"access", "writeHosts"} : Go(p, l)
    BY <1>6 DEF SaveCache
  <2>2. Sound(p, [nk[p] EXCEPT !.pc = l])
    BY GoSound DEF Plain
  <2>3. cache' \in Snapshot \cup {None} /\ Noted(cache')
    BY <1>6 DEF SaveCache, Process, Sound, Mem
  <2> QED
    BY <2>1, <2>2, <2>3, <1>6, BecomeTyped DEF SaveCache, Go
<1>7. CASE GetMyAccess(p)
  <2>1. CASE Become(p, [nk[p] EXCEPT !.pc = "cleanup", !.answer = epoch])
    <3> DEFINE r == [nk[p] EXCEPT !.pc = "cleanup", !.answer = epoch]
    <3>0. epoch # None
      BY EpochFacts
    <3>1. Sound(p, r)
      BY <3>0 DEF Sound, Process, PC, Renewing, SigningIn
    <3> QED
      BY <3>1, <2>1, <1>7, BecomeTyped DEF GetMyAccess, files
  <2>2. CASE Interactive(p) /\ Become(p, [nk[p] EXCEPT !.pc = "login", !.why = Again(@)])
    <3>1. p \notin Conns
      BY <2>2, NoneAssumption DEF Sound, Interactive, Why
    <3>2. PICK w \in {"ls again", "login again"} : w = Again(nk[p].why)
      BY <2>2 DEF Again, Interactive
    <3> DEFINE r == [nk[p] EXCEPT !.pc = "login", !.why = w]
    <3>3. Sound(p, r)
      BY <3>1 DEF Sound, Process, PC, Why, Renewing
    <3>4. Become(p, r)
      BY <2>2, <3>2
    <3> QED
      BY <3>3, <3>4, <1>7, BecomeTyped DEF GetMyAccess, files
  <2> QED
    BY <2>1, <2>2, <1>2, <1>7 DEF GetMyAccess
<1>8. ASSUME nk[p].answer # None, TakeAccess(p), UNCHANGED <<backend, config, cache, hosts>>,
             cert' \in Cert \cup {None}
      PROVE  Typed'
  <2> DEFINE e == nk[p].answer
             r == [nk[p] EXCEPT !.pc = "saveConfig", !.mem = Fresh(e), !.answer = None]
  <2>1. e \in Epochs
    BY <1>8 DEF Process
  <2>2. Fresh(e) \in Snapshot /\ Noted(Fresh(e))
    BY <2>1, FreshNoted
  <2>3. Sound(p, r)
    BY <2>2 DEF Sound, Process, PC, Renewing, SigningIn
  <2>4. Become(p, r)
    BY <1>8 DEF TakeAccess
  <2> QED
    BY <2>3, <2>4, <1>8, BecomeTyped
<1>9. CASE CleanupCerts(p)
  <2>1. nk[p].answer # None /\ UNCHANGED <<backend, files>>
    BY <1>9 DEF CleanupCerts, At, Sound
  <2>2. CASE Go(p, "remove")
    <3> DEFINE r == [nk[p] EXCEPT !.pc = "remove"]
    <3>1. Sound(p, r)
      BY <2>1 DEF Sound, Process, PC, Renewing, SigningIn
    <3> QED
      BY <3>1, <2>1, <2>2, BecomeTyped DEF Go, files
  <2>3. CASE TakeAccess(p)
    BY <2>1, <2>3, <1>8 DEF files
  <2> QED
    BY <2>2, <2>3, <1>9 DEF CleanupCerts
<1>10. CASE RemoveCert(p)
  <2>1. nk[p].answer # None /\ UNCHANGED <<backend, config, cache, hosts>> /\ cert' = None
    BY <1>10 DEF RemoveCert, At, Sound
  <2>2. CASE Become(p, [nk[p] EXCEPT !.pc = SyncFailed(p), !.answer = None])
    <3>1. PICK l \in {"failed", "fallback"} : l = SyncFailed(p)
      BY SyncFailedEnds
    <3> DEFINE r == [nk[p] EXCEPT !.pc = l, !.answer = None]
    <3>2. Sound(p, r)
      BY DEF Sound, Process, PC, Renewing, SigningIn
    <3> QED
      BY <3>1, <3>2, <2>1, <2>2, BecomeTyped
  <2> QED
    BY <2>1, <2>2, <1>8, <1>10 DEF RemoveCert
<1>11. CASE WriteConfigs(p)
  <2>1. PICK l \in {"pick", "idle"} : Go(p, l)
    BY <1>11 DEF WriteConfigs
  <2>2. Sound(p, [nk[p] EXCEPT !.pc = l])
    BY GoSound DEF Plain
  <2>3. hosts' \in BOOLEAN
    BY <1>11 DEF WriteConfigs, Lists
  <2> QED
    BY <2>1, <2>2, <2>3, <1>11, BecomeTyped DEF WriteConfigs, Go
<1>12. CASE Fallback(p)
  <2>1. PICK l \in {"markSync", "failed"} :
          l = (IF Lists(cache) THEN "markSync" ELSE "failed")
    OBVIOUS
  <2> DEFINE r == [nk[p] EXCEPT !.mem = cache, !.pc = l]
  <2>2. Sound(p, r)
    BY <2>1 DEF Sound, Process, PC, Renewing, SigningIn
  <2>3. Become(p, r) /\ UNCHANGED <<backend, files>>
    BY <2>1, <1>12 DEF Fallback
  <2> QED
    BY <2>2, <2>3, BecomeTyped DEF files
<1>13. CASE FallbackMark(p)
  <2>1. Lists(Mem(p))
    BY <1>13 DEF FallbackMark, At, Sound, Mem
  <2>2. MarkSyncFailed(p) \in Snapshot /\ Noted(MarkSyncFailed(p))
    BY <2>1, MarkNoted
  <2>3. PICK l \in {"pick", "idle"} :
          Become(p, [nk[p] EXCEPT !.mem = MarkSyncFailed(p), !.pc = l])
    BY <1>13 DEF FallbackMark
  <2> DEFINE r == [nk[p] EXCEPT !.mem = MarkSyncFailed(p), !.pc = l]
  <2>4. Sound(p, r)
    BY <2>2 DEF Sound, Process, PC, Renewing, SigningIn
  <2> QED
    BY <2>2, <2>3, <2>4, <1>13, BecomeTyped DEF FallbackMark
<1> QED
  BY <1>3, <1>4, <1>5, <1>6, <1>7, <1>9, <1>10, <1>11, <1>12, <1>13 DEF Sync

(* The start of a command, and nk doctor --fix. *)
LEMMA CmdTyped ==
  ASSUME Typed, NEW p \in Procs, BeginCmd(p) \/ Repair(p) \/ Prune(p)
  PROVE  Typed'
<1> USE TypedFacts
<1>1. CASE BeginCmd(p)
  <2>1. PICK c \in {"ls", "login", "doctor"}, l \in {"repair", "session"} :
          Become(p, [Loaded(p) EXCEPT !.why = c, !.pc = l])
    BY <1>1 DEF BeginCmd
  <2> DEFINE r == [Loaded(p) EXCEPT !.why = c, !.pc = l]
  <2>2. p \notin Conns
    BY <1>1, ProcAssumption DEF BeginCmd
  <2>3. Sound(p, r)
    BY <2>2 DEF Sound, Loaded, Process, PC, Why, Renewing
  <2> QED
    BY <2>1, <2>3, <1>1, BecomeTyped DEF BeginCmd, files
<1>2. CASE Repair(p)
  <2>1. Sound(p, [nk[p] EXCEPT !.pc = "prune"])
    BY GoSound DEF Plain
  <2>2. hosts' \in BOOLEAN
    BY <1>2 DEF Repair, Lists
  <2> QED
    BY <2>1, <2>2, <1>2, BecomeTyped DEF Repair, Go
<1>3. CASE Prune(p)
  <2>1. Sound(p, [nk[p] EXCEPT !.pc = "idle"])
    BY GoSound DEF Plain
  <2>2. cert' \in Cert \cup {None}
    BY <1>3 DEF Prune
  <2> QED
    BY <2>1, <2>2, <1>3, BecomeTyped DEF Prune, Go
<1> QED
  BY <1>1, <1>2, <1>3

LEMMA OlderFacts ==
  ASSUME world \in Worlds, NEW s \in Snapshot \cup {None}
  PROVE  /\ Older(s) \in Snapshot \cup {None}
         /\ Older(s) = None <=> s = None
         /\ s # None => Older(s).epoch = s.epoch
         /\ s # None /\ s.failed < RetryAfter => Older(s).failed = s.failed + 1
         /\ SyncFailedWithin(Older(s)) => SyncFailedWithin(s)
         /\ Lists(Older(s)) <=> Lists(s)
<1>1. CASE s = None
  BY <1>1 DEF Older, SyncFailedWithin, Lists
<1>2. CASE s # None
  <2> DEFINE o == [s EXCEPT !.synced = IF @ > FreshFor THEN @ ELSE @ + 1,
                            !.failed = IF @ < RetryAfter THEN @ + 1 ELSE @]
  <2>1. s \in Snapshot /\ Older(s) = o
    BY <1>2 DEF Older
  <2>2. s.synced \in 0..(FreshFor + 1) /\ s.failed \in 0..RetryAfter
    BY <2>1 DEF Snapshot
  <2>3. /\ o.epoch = s.epoch
        /\ o.failed = IF s.failed < RetryAfter THEN s.failed + 1 ELSE s.failed
    BY <2>1 DEF Snapshot
  <2>4. o \in Snapshot
    <3>1. /\ (IF s.synced > FreshFor THEN s.synced ELSE s.synced + 1) \in 0..(FreshFor + 1)
          /\ (IF s.failed < RetryAfter THEN s.failed + 1 ELSE s.failed) \in 0..RetryAfter
      BY <2>2, TimeAssumption
    <3> QED
      BY <2>1, <3>1 DEF Snapshot
  <2>5. o # None
    BY <2>4, EpochFacts
  <2> HIDE DEF o
  <2>6. o.failed < RetryAfter => s.failed < RetryAfter
    BY <2>2, <2>3, TimeAssumption
  <2> QED
    BY <1>2, <2>1, <2>3, <2>4, <2>5, <2>6 DEF SyncFailedWithin, Lists
<1> QED
  BY <1>1, <1>2

LEMMA WorldTyped ==
  ASSUME Typed, Tick \/ Change \/ Outage \/ SessionEnds \/ UNCHANGED vars
  PROVE  Typed'
<1>1. /\ world \in Worlds /\ up \in BOOLEAN /\ epoch \in Epochs
      /\ config \in BOOLEAN /\ hosts \in BOOLEAN
      /\ cache \in Snapshot \cup {None} /\ Noted(cache) /\ cert \in Cert \cup {None}
      /\ nk \in [Procs -> Process] /\ armed \in [Procs -> BOOLEAN]
      /\ \A p \in Procs : Sound(p, nk[p])
  BY DEF Typed, TypeOK
<1>2. CASE Tick
  <2>1. world' = world /\ up' = up /\ epoch' = epoch /\ UNCHANGED <<config, hosts>>
    BY <1>2 DEF Tick, backend
  <2>2. cache' \in Snapshot \cup {None} /\ Noted(cache')
    BY <1>1, <1>2, OlderFacts DEF Tick, Noted
  <2>3. cert' \in Cert \cup {None}
    <3>1. CASE cert = None \/ cert.left = 0
      BY <1>1, <1>2, <3>1 DEF Tick
    <3>2. CASE ~(cert = None \/ cert.left = 0)
      <4>1. cert \in Cert /\ cert.left - 1 \in 0..Life
        BY <1>1, <3>2, TimeAssumption DEF Cert
      <4>2. cert' = [cert EXCEPT !.left = cert.left - 1]
        BY <1>2, <3>2 DEF Tick
      <4> QED
        BY <4>1, <4>2 DEF Cert
    <3> QED
      BY <3>1, <3>2
  <2>4. armed' \in [Procs -> BOOLEAN]
    BY <1>1, <1>2 DEF Tick
  <2>5. ASSUME NEW p \in Procs
        PROVE  Sound(p, [nk[p] EXCEPT !.mem = Older(nk[p].mem)])
    <3> DEFINE o == Older(nk[p].mem)
    <3>1. nk[p].mem \in Snapshot \cup {None}
      BY <1>1 DEF Process
    <3>2. /\ o \in Snapshot \cup {None}
          /\ SyncFailedWithin(o) => SyncFailedWithin(nk[p].mem)
          /\ Lists(o) <=> Lists(nk[p].mem)
      BY <1>1, <3>1, OlderFacts
    <3> HIDE DEF o
    <3>3. Sound(p, [nk[p] EXCEPT !.mem = o])
      BY <1>1, <3>2 DEF Sound, Process, Noted
    <3> QED
      BY <3>3 DEF o
  <2>6. \A p \in Procs : Sound(p, nk'[p])
    BY <1>2, <2>5 DEF Tick
  <2>7. nk' \in [Procs -> Process]
    BY <1>2, <2>5 DEF Tick, Sound
  <2> QED
    BY <1>1, <2>1, <2>2, <2>3, <2>4, <2>6, <2>7, TypedAfter
<1>3. CASE Change
  BY <1>1, <1>3, TypedAfter DEF Change, files
<1>4. CASE Outage
  BY <1>1, <1>4, TypedAfter DEF Outage, files
<1>5. CASE SessionEnds
  <2>1. \A p \in Procs : Sound(p, [nk[p] EXCEPT !.ses = FALSE])
    BY <1>1 DEF Sound, Process
  <2>2. \A p \in Procs : Sound(p, nk'[p])
    BY <1>5, <2>1 DEF SessionEnds
  <2>3. nk' \in [Procs -> Process]
    BY <1>5, <2>1 DEF SessionEnds, Sound
  <2> QED
    BY <1>1, <1>5, <2>2, <2>3, TypedAfter DEF SessionEnds, backend
<1>6. CASE UNCHANGED vars
  BY <1>1, <1>6, TypedAfter DEF vars
<1> QED
  BY <1>2, <1>3, <1>4, <1>5, <1>6

LEMMA TypedInit == Init => Typed
<1> SUFFICES ASSUME Init
             PROVE  Typed
  OBVIOUS
<1>1. world \in Worlds /\ up \in BOOLEAN /\ epoch = 1 /\ cert = None
  BY DEF Init
<1>2. 1 \in Epochs
  BY <1>1, EpochFacts
<1>3. cache \in Snapshot \cup {None} /\ Noted(cache)
  <2>1. cache = Fresh(1) \/ cache = None
    BY DEF Init
  <2> QED
    BY <1>2, <2>1, FreshNoted DEF Noted, SyncFailedWithin
<1>4. config \in BOOLEAN /\ hosts \in BOOLEAN
  BY DEF Init, Lists
<1>5. \A p \in Procs : Sound(p, Off)
  BY DEF Sound, Off, Process, PC, Noted, SyncFailedWithin, Renewing, SigningIn
<1>6. nk \in [Procs -> Process] /\ \A p \in Procs : Sound(p, nk[p])
  BY <1>5 DEF Init, Sound
<1>7. armed \in [Procs -> BOOLEAN]
  BY DEF Init
<1> QED
  BY <1>1, <1>2, <1>3, <1>4, <1>6, <1>7 DEF Typed, TypeOK

LEMMA TypedStep == Typed /\ [Next]_vars => Typed'
BY ConnTyped, HookTyped, RenewalTyped, SyncTyped, CmdTyped, WorldTyped DEF Next, Step

LEMMA TypedAlways == Spec => []Typed
BY TypedInit, TypedStep, PTL DEF Spec

(* TypeOK: every file, and everything a process has in memory, keeps its type; no       *)
(* process writes a snapshot it does not have, or installs an answer it did not get.     *)
THEOREM Typing == Spec => []TypeOK
<1>1. Typed => TypeOK
  BY DEF Typed
<1> QED
  BY <1>1, TypedAlways, PTL

-----------------------------------------------------------------------------
(* One attempt per outage. *)
LEMMA BecomeAt ==
  ASSUME Typed, NEW p \in Procs, NEW r, Become(p, r)
  PROVE  /\ nk'[p].pc = r.pc
         /\ r.pc \notin {"idle", "failed", "proxy"} => nk'[p] = r
         /\ \A q \in Procs \ {p} : nk'[q] = nk[q]
<1>1. nk \in [Procs -> Process]
  BY DEF Typed, TypeOK
<1> QED
  BY <1>1 DEF Become, Ended, Off

LEMMA GoAt ==
  ASSUME Typed, NEW p \in Procs, NEW l, Go(p, l)
  PROVE  /\ nk'[p].pc = l
         /\ l \notin {"idle", "failed", "proxy"} =>
              nk'[p] = [nk[p] EXCEPT !.pc = l] /\ nk'[p].mem = nk[p].mem
         /\ \A q \in Procs \ {p} : nk'[q] = nk[q]
<1>1. nk[p] \in Process
  BY TypedFacts
<1>2. [nk[p] EXCEPT !.pc = l].pc = l /\ [nk[p] EXCEPT !.pc = l].mem = nk[p].mem
  BY <1>1 DEF Process
<1> QED
  BY <1>2, BecomeAt DEF Go

(* Which steps lead to a renewal, to its call of the backend and to a sync. *)
Landing(p) ==
  /\ nk'[p].pc = "ensure" =>
       /\ nk'[p].mem = nk[p].mem /\ cert' = cert
       /\ ~(SyncFailedWithin(Mem(p)) /\ CertValid(Mem(p)) /\ CertCovers(Mem(p)))
  /\ nk'[p].pc = "sign" => At(p, "ensure") /\ ~CertFresh(Mem(p))
  /\ nk'[p].pc = "access" => nk[p].pc \in {"session", "loginCache"}

(* The certificate a step of a process leaves. *)
Replaced == cert' = cert \/ cert' = None \/ cert'.left = Life

Lands(p) == Landing(p) /\ Replaced /\ \A q \in Procs \ {p} : nk'[q] = nk[q]

LEMMA HookLands ==
  ASSUME Typed, NEW p \in Procs,
         BeginConn(p) \/ Prepare(p) \/ PrepareMark(p) \/ ProxyLoad(p) \/ Decide(p) \/ Pick(p)
  PROVE  Lands(p)
<1>0. nk \in [Procs -> Process] /\ nk[p] \in Process
  BY DEF Typed, TypeOK
<1>1. CASE BeginConn(p)
  <2>1. nk'[p].pc = "prepare" /\ \A q \in Procs \ {p} : nk'[q] = nk[q]
    BY <1>0, <1>1 DEF BeginConn, Loaded, Process
  <2> QED
    BY <1>1, <2>1 DEF BeginConn, files, Lands, Landing, Replaced
<1>2. CASE Prepare(p)
  <2>1. PICK l \in {"proxy", "ensure"} : Go(p, l) /\ (l = "ensure" => ~PrepareSkips(p))
    BY <1>2 DEF Prepare
  <2>2. l = "ensure" => nk'[p].mem = nk[p].mem
    BY <2>1, GoAt
  <2> QED
    BY <1>2, <2>1, <2>2, GoAt DEF Prepare, files, Lands, Landing, Replaced, PrepareSkips
<1>3. CASE PrepareMark(p)
  <2>1. Go(p, "proxy") /\ cert' = cert
    BY <1>3 DEF PrepareMark
  <2>2. nk'[p].pc = "proxy" /\ \A q \in Procs \ {p} : nk'[q] = nk[q]
    BY <2>1, GoAt
  <2> QED
    BY <2>1, <2>2 DEF Lands, Landing, Replaced
<1>4. CASE ProxyLoad(p)
  <2>1. [Loaded(p) EXCEPT !.pc = "decide"].pc = "decide"
    BY <1>0 DEF Loaded, Process
  <2> QED
    BY <1>4, <2>1, BecomeAt DEF ProxyLoad, files, Lands, Landing, Replaced
<1>5. CASE Decide(p)
  <2>1. PICK l \in {"session", "pick"} : Go(p, l)
    BY <1>5 DEF Decide
  <2> QED
    BY <1>5, <2>1, GoAt DEF Decide, files, Lands, Landing, Replaced
<1>6. CASE Pick(p)
  <2>1. CASE Go(p, "failed") \/ Go(p, "idle")
    <3>1. cert' = cert
      BY <1>6 DEF Pick, files
    <3>2. nk'[p].pc \in {"failed", "idle"} /\ \A q \in Procs \ {p} : nk'[q] = nk[q]
      BY <2>1, GoAt
    <3> QED
      BY <3>1, <3>2 DEF Lands, Landing, Replaced
  <2>2. ASSUME NEW w \in {"must", "may"}, ~(CertValid(Mem(p)) /\ CertCovers(Mem(p))),
               Become(p, [nk[p] EXCEPT !.pc = "ensure", !.why = w])
        PROVE  Lands(p)
    <3> DEFINE r == [nk[p] EXCEPT !.pc = "ensure", !.why = w]
    <3>1. r.pc = "ensure" /\ r.mem = nk[p].mem
      BY <1>0 DEF Process
    <3>2. nk'[p] = r /\ \A q \in Procs \ {p} : nk'[q] = nk[q]
      BY <2>2, <3>1, BecomeAt
    <3> QED
      BY <1>6, <2>2, <3>1, <3>2 DEF Pick, files, Lands, Landing, Replaced
  <2> QED
    BY <1>6, <2>1, <2>2 DEF Pick
<1> QED
  BY <1>1, <1>2, <1>3, <1>4, <1>5, <1>6

LEMMA OtherLands ==
  ASSUME Typed, NEW p \in Procs,
         BeginCmd(p) \/ Renewal(p) \/ Sync(p) \/ Repair(p) \/ Prune(p)
  PROVE  Lands(p)
<1>0. nk[p] \in Process /\ Sound(p, nk[p])
  BY TypedFacts
<1>1. ASSUME NEW l \in PC \ {"ensure", "sign", "access"}, NEW r, r.pc = l, Become(p, r), Replaced
      PROVE  Lands(p)
  BY <1>1, BecomeAt DEF Lands, Landing
<1>2. ASSUME NEW l \in PC \ {"ensure", "sign", "access"}, Go(p, l), Replaced
      PROVE  Lands(p)
  BY <1>2, GoAt DEF Lands, Landing
<1>3. CASE BeginCmd(p)
  <2>1. PICK c \in {"ls", "login", "doctor"}, l \in {"repair", "session"} :
          Become(p, [Loaded(p) EXCEPT !.why = c, !.pc = l])
    BY <1>3 DEF BeginCmd
  <2>2. [Loaded(p) EXCEPT !.why = c, !.pc = l].pc = l
    BY <1>0 DEF Loaded, Process
  <2>3. Replaced
    BY <1>3 DEF BeginCmd, files, Replaced
  <2> QED
    BY <1>1, <2>1, <2>2, <2>3 DEF PC
<1>4. CASE Renewal(p)
  <2>1. nk[p].pc \in Renewing
    BY <1>4 DEF Renewal, EnsureCert, Sign, Install, At, Renewing
  <2>2. \A l \in {EnsureDone(p), EnsureFailed(p)} : l \in PC \ {"ensure", "sign", "access"}
    BY <2>1, EnsureEnds DEF PC
  <2>3. CASE EnsureCert(p)
    <3>1. Replaced
      BY <2>3 DEF EnsureCert, files, Replaced
    <3>2. CASE Go(p, "sign") /\ ~CertFresh(Mem(p))
      <4>1. nk'[p].pc = "sign" /\ \A q \in Procs \ {p} : nk'[q] = nk[q]
        BY <3>2, GoAt
      <4> QED
        BY <2>3, <3>1, <3>2, <4>1 DEF EnsureCert, Lands, Landing
    <3> QED
      BY <1>2, <2>2, <2>3, <3>1, <3>2 DEF EnsureCert
  <2>4. CASE Sign(p)
    <3>1. Replaced
      BY <2>4 DEF Sign, files, Replaced
    <3>2. [nk[p] EXCEPT !.pc = "install", !.answer = epoch].pc = "install"
      BY <1>0 DEF Process
    <3> QED
      BY <1>1, <1>2, <2>2, <2>4, <3>1, <3>2 DEF Sign, PC
  <2>5. CASE Install(p)
    <3>1. PICK l \in {EnsureDone(p), EnsureFailed(p)} :
            Become(p, [nk[p] EXCEPT !.answer = None, !.pc = l])
      BY <2>5 DEF Install
    <3>2. [nk[p] EXCEPT !.answer = None, !.pc = l].pc = l
      BY <1>0 DEF Process
    <3>3. Replaced
      BY <2>5 DEF Install, Replaced
    <3> QED
      BY <1>1, <2>2, <3>1, <3>2, <3>3
  <2> QED
    BY <1>4, <2>3, <2>4, <2>5 DEF Renewal
<1>5. CASE Sync(p)
  <2>0. Replaced
    BY <1>5 DEF Sync, EnsureSession, DeviceLogin, GetMyAccess, CleanupCerts, RemoveCert,
       SaveConfig, SaveCache, WriteConfigs, Fallback, FallbackMark, files, Replaced
  <2>1. SyncFailed(p) \in PC \ {"ensure", "sign", "access"}
    BY SyncFailedEnds DEF PC
  <2>2. CASE EnsureSession(p)
    <3>1. CASE Go(p, "access")
      <4>1. nk'[p].pc = "access" /\ \A q \in Procs \ {p} : nk'[q] = nk[q]
        BY <3>1, GoAt
      <4> QED
        BY <2>0, <2>2, <4>1 DEF EnsureSession, At, Lands, Landing
    <3> QED
      BY <1>2, <2>0, <2>1, <2>2, <3>1 DEF EnsureSession, PC
  <2>3. CASE DeviceLogin(p)
    <3>1. [nk[p] EXCEPT !.pc = "loginConfig", !.ses = TRUE].pc = "loginConfig"
      BY <1>0 DEF Process
    <3> QED
      BY <1>1, <1>2, <2>0, <2>1, <2>3, <3>1 DEF DeviceLogin, PC
  <2>4. CASE SaveConfig(p)
    BY <1>2, <2>0, <2>4 DEF SaveConfig, PC
  <2>5. CASE SaveCache(p)
    <3>1. CASE At(p, "loginCache") /\ Go(p, "access")
      <4>1. nk'[p].pc = "access" /\ \A q \in Procs \ {p} : nk'[q] = nk[q]
        BY <3>1, GoAt
      <4> QED
        BY <2>0, <3>1, <4>1 DEF At, Lands, Landing
    <3> QED
      BY <1>2, <2>0, <2>5, <3>1 DEF SaveCache, PC
  <2>6. CASE GetMyAccess(p)
    <3>1. [nk[p] EXCEPT !.pc = "cleanup", !.answer = epoch].pc = "cleanup"
      BY <1>0 DEF Process
    <3>2. [nk[p] EXCEPT !.pc = "login", !.why = Again(@)].pc = "login"
      BY <1>0 DEF Process
    <3> QED
      BY <1>1, <1>2, <2>0, <2>1, <2>6, <3>1, <3>2 DEF GetMyAccess, PC
  <2>7. CASE TakeAccess(p)
    <3>1. [nk[p] EXCEPT !.pc = "saveConfig", !.mem = Fresh(nk[p].answer),
                        !.answer = None].pc = "saveConfig"
      BY <1>0 DEF Process
    <3> QED
      BY <1>1, <2>0, <2>7, <3>1 DEF TakeAccess, PC
  <2>8. CASE CleanupCerts(p)
    BY <1>2, <2>0, <2>7, <2>8 DEF CleanupCerts, PC
  <2>9. CASE RemoveCert(p)
    <3>1. [nk[p] EXCEPT !.pc = SyncFailed(p), !.answer = None].pc = SyncFailed(p)
      BY <1>0 DEF Process
    <3> QED
      BY <1>1, <2>0, <2>1, <2>7, <2>9, <3>1 DEF RemoveCert
  <2>10. CASE WriteConfigs(p)
    BY <1>2, <2>0, <2>10 DEF WriteConfigs, PC
  <2>11. CASE Fallback(p)
    <3>1. PICK l \in {"markSync", "failed"} : Become(p, [nk[p] EXCEPT !.mem = cache, !.pc = l])
      BY <2>11 DEF Fallback
    <3>2. [nk[p] EXCEPT !.mem = cache, !.pc = l].pc = l
      BY <1>0 DEF Process
    <3> QED
      BY <1>1, <2>0, <3>1, <3>2 DEF PC
  <2>12. CASE FallbackMark(p)
    <3>1. PICK l \in {"pick", "idle"} :
            Become(p, [nk[p] EXCEPT !.mem = MarkSyncFailed(p), !.pc = l])
      BY <2>12 DEF FallbackMark
    <3>2. [nk[p] EXCEPT !.mem = MarkSyncFailed(p), !.pc = l].pc = l
      BY <1>0 DEF Process
    <3> QED
      BY <1>1, <2>0, <3>1, <3>2 DEF PC
  <2> QED
    BY <1>5, <2>2, <2>3, <2>4, <2>5, <2>6, <2>8, <2>9, <2>10, <2>11, <2>12 DEF Sync
<1>6. CASE Repair(p) \/ Prune(p)
  BY <1>2, <1>6 DEF Repair, Prune, Replaced, PC
<1> QED
  BY <1>3, <1>4, <1>5, <1>6

LEMMA StepLands ==
  ASSUME Typed, NEW p \in Procs, Step(p)
  PROVE  Lands(p) /\ world' = world
<1>1. Lands(p)
  BY HookLands, OtherLands DEF Step
<1>2. world' = world
  BY DEF Step, BeginConn, Prepare, PrepareMark, ProxyLoad, Decide, Pick, BeginCmd, Renewal,
     EnsureCert, Sign, Install, Sync, EnsureSession, DeviceLogin, GetMyAccess, CleanupCerts,
     RemoveCert, SaveConfig, SaveCache, WriteConfigs, Fallback, FallbackMark, Repair, Prune,
     backend
<1> QED
  BY <1>1, <1>2

LEMMA AttemptsInit == Init => Attempts
BY DEF Init, Attempts, Off, Procs

(* For one connection p, whoever takes the step. *)
LEMMA AttemptsStep ==
  ASSUME Typed, Attempts, [Next]_vars
  PROVE  Attempts'
<1> SUFFICES ASSUME NEW p \in Conns,
                    nk'[p].pc = "ensure", SyncFailedWithin(Mem(p))',
                    CertValid(Mem(p))', CertCovers(Mem(p))'
             PROVE  cert'.left + nk'[p].mem.failed >= Life
  BY DEF Attempts, Mem
<1>0. p \in Procs /\ nk[p] \in Process /\ nk \in [Procs -> Process]
      /\ world \in Worlds /\ cert \in Cert \cup {None}
  BY DEF Procs, Typed, TypeOK
<1>1. ASSUME NEW q \in Procs, Step(q)
      PROVE  cert'.left + nk'[p].mem.failed >= Life
  <2>1. Lands(q) /\ world' = world
    BY <1>1, StepLands
  <2>2. nk'[p].pc = "ensure" /\ nk'[p].mem = nk[p].mem /\ cert' # None
    <3>1. CASE q = p
      BY <2>1, <3>1 DEF Lands, Landing, CertValid
    <3>2. CASE q # p
      BY <1>0, <2>1, <3>2 DEF Lands, CertValid
    <3> QED
      BY <3>1, <3>2
  <2>3. cert' = cert =>
          /\ SyncFailedWithin(Mem(p)) /\ CertValid(Mem(p)) /\ CertCovers(Mem(p))
    BY <2>1, <2>2 DEF SyncFailedWithin, CertValid, CertCovers, Mem, Key, Names
  <2>4. CASE q = p
    BY <2>1, <2>3, <2>4 DEF Lands, Landing
  <2>5. CASE q # p /\ cert' = cert
    BY <1>0, <2>1, <2>3, <2>5 DEF Lands, Attempts, Mem
  <2>6. CASE q # p /\ cert'.left = Life
    <3>1. nk[p].mem \in Snapshot
      BY <1>0, <2>2 DEF Process, SyncFailedWithin, Mem
    <3>2. nk'[p].mem.failed \in 0..RetryAfter
      BY <2>2, <3>1 DEF Snapshot
    <3> QED
      BY <2>6, <3>2, TimeAssumption
  <2> QED
    BY <2>1, <2>2, <2>4, <2>5, <2>6 DEF Lands, Replaced
<1>2. CASE Tick
  <2> DEFINE s == nk[p].mem
  <2>1. nk'[p] = [nk[p] EXCEPT !.mem = Older(s)] /\ world' = world
    BY <1>0, <1>2 DEF Tick, backend
  <2>2. nk'[p].mem = Older(s) /\ nk'[p].pc = nk[p].pc /\ s \in Snapshot \cup {None}
    BY <1>0, <2>1 DEF Process
  <2>3. s # None /\ s.failed < RetryAfter /\ Older(s).failed = s.failed + 1
        /\ Older(s).epoch = s.epoch
    BY <1>0, <2>2, OlderFacts DEF SyncFailedWithin, Mem
  <2>4. cert # None /\ cert.left # 0 /\ cert' = [cert EXCEPT !.left = @ - 1]
    BY <1>2 DEF Tick, CertValid
  <2>5. cert'.left = cert.left - 1 /\ cert'.epoch = cert.epoch /\ cert.left \in 0..Life
    BY <1>0, <2>4 DEF Cert
  <2>6. SyncFailedWithin(Mem(p)) /\ CertValid(Mem(p)) /\ CertCovers(Mem(p))
    <3>1. SyncFailedWithin(Mem(p))
      BY <2>3 DEF SyncFailedWithin, Mem
    <3>2. cert.left > 0
      BY <2>4, <2>5, TimeAssumption
    <3>3. cert'.epoch = cert.epoch /\ nk'[p].mem.epoch = s.epoch
      BY <2>2, <2>3, <2>5
    <3>4. Key(cert.epoch) = Key(s.epoch) /\ Names(s.epoch) \subseteq Names(cert.epoch)
      BY <2>1, <3>3 DEF CertValid, CertCovers, Mem, Key, Names
    <3> QED
      BY <3>1, <3>2, <3>4, <2>4 DEF CertValid, CertCovers, Mem
  <2>7. cert.left + s.failed >= Life
    BY <2>2, <2>6 DEF Attempts, Mem
  <2>8. s.failed \in 0..RetryAfter
    BY <2>2, <2>3 DEF Snapshot
  <2> QED
    BY <2>2, <2>3, <2>5, <2>7, <2>8, TimeAssumption
<1>3. CASE Change \/ Outage \/ SessionEnds \/ UNCHANGED vars
  <2>1. nk'[p].pc = nk[p].pc /\ nk'[p].mem = nk[p].mem /\ cert' = cert /\ world' = world
    BY <1>0, <1>3 DEF Change, Outage, SessionEnds, vars, files, backend, Process
  <2>2. SyncFailedWithin(Mem(p)) /\ CertValid(Mem(p)) /\ CertCovers(Mem(p))
    BY <2>1 DEF SyncFailedWithin, CertValid, CertCovers, Mem, Key, Names
  <2> QED
    BY <2>1, <2>2 DEF Attempts, Mem
<1> QED
  BY <1>1, <1>2, <1>3 DEF Next

LEMMA AttemptsAlways == Spec => [](Typed /\ Attempts)
BY TypedInit, TypedStep, AttemptsInit, AttemptsStep, PTL DEF Spec

(* OutageCostsOneAttempt: while its snapshot notes a recent failure and the certificate   *)
(* works, nk under ssh does not call the backend, whatever other processes install          *)
(* between its checks.  For certificates that live at least twice as long as a failure       *)
(* counts, 30 s: a shorter one is up for renewal again before the failure is forgotten.     *)
THEOREM OneAttempt ==
  ASSUME 2 * RetryAfter <= Life
  PROVE  Spec => OutageCostsOneAttempt
<1> DEFINE Quiet ==
      \A p \in Conns :
        nk'[p].pc \in {"sign", "access"} /\ nk[p].pc # nk'[p].pc =>
          ~(SyncFailedWithin(Mem(p)) /\ CertValid(Mem(p)) /\ CertCovers(Mem(p)))
<1>1. Typed /\ Attempts /\ [Next]_vars => [Quiet]_vars
  <2> SUFFICES ASSUME Typed, Attempts, Next, NEW p \in Conns,
                      nk'[p].pc \in {"sign", "access"}, nk[p].pc # nk'[p].pc,
                      SyncFailedWithin(Mem(p)), CertValid(Mem(p)), CertCovers(Mem(p))
               PROVE  FALSE
    OBVIOUS
  <2>0. p \in Procs /\ nk[p] \in Process /\ Sound(p, nk[p]) /\ cert \in Cert \cup {None}
        /\ nk \in [Procs -> Process]
    BY DEF Procs, Typed, TypeOK
  <2>1. PICK q \in Procs : Step(q)
    BY <2>0 DEF Next, Tick, Change, Outage, SessionEnds, files, Process
  <2>2. Lands(q)
    BY <2>1, StepLands
  <2>3. q = p
    BY <2>0, <2>2 DEF Lands
  <2>4. CASE nk'[p].pc = "sign"
    <3>1. At(p, "ensure") /\ ~CertFresh(Mem(p))
      BY <2>2, <2>3, <2>4 DEF Lands, Landing
    <3>2. cert.left + Mem(p).failed >= Life
      BY <3>1 DEF Attempts, At
    <3>3. Mem(p).failed \in 0..RetryAfter /\ Mem(p).failed < RetryAfter /\ cert.left \in 0..Life
      BY <2>0 DEF Process, Mem, SyncFailedWithin, Snapshot, CertValid, Cert
    <3>4. 2 * cert.left > Life
      BY <3>2, <3>3, TimeAssumption
    <3> QED
      BY <3>1, <3>4 DEF CertFresh
  <2>5. CASE nk'[p].pc = "access"
    BY <2>0, <2>2, <2>3, <2>5 DEF Lands, Landing, Sound, SigningIn, Mem
  <2> QED
    BY <2>4, <2>5
<1> QED
  BY <1>1, AttemptsAlways, PTL DEF Spec, OutageCostsOneAttempt

-----------------------------------------------------------------------------
(* Offline.  What a process that goes on as r keeps, step by step. *)
Keeps(p, r) ==
  /\ r.mem # None => Good(r.mem.epoch)
  /\ r.answer # None => Good(r.answer)
  /\ r.pc # "remove"
  /\ cache' # None => Good(cache'.epoch)
  /\ cert' = cert \/ (cert' # None /\ cert'.left = Life /\ Good(cert'.epoch))
  /\ SignedIn => cache' # None /\ (~Ended(r) => r.mem # None)
  /\ SignedIn /\ p \in Conns /\ armed[p] =>
       r.pc # "failed" /\ (r.pc \in Renewing => r.why # "must")
  /\ NewMachine =>
       /\ p \in Cmds
       /\ \/ /\ cache' = None /\ ~hosts'
             /\ ~Ended(r) /\ r.mem # None => r.pc \in {"saveConfig", "saveCache"}
          \/ cache' # None /\ (~Ended(r) => r.mem # None)

Safe == AllGood /\ SignedIn /\ Armed

LEMMA GoodFacts ==
  ASSUME Typed, AllGood, NEW p \in Procs
  PROVE  /\ Good(epoch)
         /\ cache # None => Good(cache.epoch) /\ Lists(cache)
         /\ Mem(p) # None => Good(Mem(p).epoch) /\ Lists(Mem(p))
         /\ nk[p].answer # None => Good(nk[p].answer)
         /\ cert # None /\ Mem(p) # None /\ cert.left > 0 => CertValid(Mem(p))
BY DEF AllGood, Good, Lists, CertValid

(* Nothing of it depends on who takes the step. *)
LEMMA KeptGood ==
  ASSUME Typed, AllGood, UNCHANGED backend, NEW p \in Procs, NEW r, Become(p, r), Keeps(p, r)
  PROVE  AllGood'
<1>1. \A e : Good(e)' <=> Good(e)
  BY DEF backend, Good, Names, Key
<1>2. world' = world /\ epoch' = epoch
  BY DEF backend
<1>3. Good(epoch)' /\ (cache' # None => Good(cache.epoch)') /\ (cert' # None => Good(cert.epoch)')
  BY <1>2 DEF Keeps, AllGood, Good, Names, Key
<1>4. ASSUME NEW q \in Procs
      PROVE  /\ nk'[q].mem # None => Good(nk'[q].mem.epoch)
             /\ nk'[q].answer # None => Good(nk'[q].answer)
             /\ nk'[q].pc # "remove"
  <2>1. CASE q # p
    BY <2>1, BecomeAt DEF AllGood, Mem, At
  <2>2. CASE q = p /\ ~Ended(r)
    BY <2>2, BecomeAt DEF Ended, Keeps
  <2>3. CASE q = p /\ Ended(r)
    <3>1. nk'[p] = [Off EXCEPT !.pc = r.pc]
      BY <2>3 DEF Become, Typed, TypeOK
    <3> QED
      BY <2>3, <3>1 DEF Off, Ended
  <2> QED
    BY <2>1, <2>2, <2>3
<1> QED
  BY <1>2, <1>3, <1>4 DEF AllGood, Good, Names, Key, Mem, At

LEMMA KeptSafe ==
  ASSUME Typed, Safe, UNCHANGED backend, NEW p \in Procs, NEW r, Become(p, r), Keeps(p, r)
  PROVE  Safe'
<1>1. AllGood'
  BY KeptGood DEF Safe
<1>2. SignedIn'
  <2>1. cache' # None /\ (~Ended(r) => r.mem # None)
    BY DEF Safe, Keeps
  <2>2. \A q \in Procs : ~Ended(nk'[q]) => nk'[q].mem # None
    BY <2>1, BecomeAt DEF Safe, SignedIn, Mem, Ended
  <2> QED
    BY <2>1, <2>2 DEF SignedIn, Mem, Ended
<1>3. Armed'
  <2>1. \A q \in Procs : armed'[q] => armed[q]
    BY DEF Become, Typed, TypeOK
  <2>2. ASSUME NEW q \in Conns, armed'[q]
        PROVE  /\ cert' # None /\ cert'.left > 0
               /\ nk'[q].pc # "failed"
               /\ nk'[q].pc \in Renewing => nk'[q].why # "must"
    <3>1. armed[q] /\ q \in Procs
      BY <2>1, <2>2 DEF Procs
    <3>2. cert' # None /\ cert'.left > 0
      BY <3>1, TimeAssumption DEF Safe, Armed, Keeps
    <3>3. CASE q # p
      BY <3>1, <3>2, <3>3, BecomeAt DEF Safe, Armed, At
    <3>4. CASE q = p
      BY <3>1, <3>2, <3>4, BecomeAt DEF Safe, Keeps, Renewing
    <3> QED
      BY <3>3, <3>4
  <2> QED
    BY <2>2 DEF Armed, At
<1> QED
  BY <1>1, <1>2, <1>3 DEF Safe

LEMMA KeptNew ==
  ASSUME OneCommand, Typed, AllGood, NewMachine, UNCHANGED backend,
         NEW p \in Procs, NEW r, Become(p, r), Keeps(p, r)
  PROVE  AllGood' /\ ((SignedIn /\ Armed)' \/ NewMachine')
<1>1. AllGood'
  BY KeptGood
<1>2. p \in Cmds /\ \A q \in Procs \ {p} : q \in Conns /\ nk'[q].pc = "idle"
  BY BecomeAt DEF OneCommand, Keeps, NewMachine, Procs, At
<1>3. \A q \in Conns : q # p /\ ~armed'[q] /\ nk'[q].pc = "idle"
  <2>1. \A q \in Conns : q # p
    BY <1>2, ProcAssumption
  <2>2. \A q \in Conns : ~armed'[q]
    BY <2>1 DEF Become, Typed, TypeOK, NewMachine, Procs
  <2> QED
    BY <1>2, <2>1, <2>2 DEF Procs
<1>4. CASE cache' # None /\ (~Ended(r) => r.mem # None)
  <2>1. \A q \in Procs : ~Ended(nk'[q]) => nk'[q].mem # None
    BY <1>2, <1>4, BecomeAt DEF Ended
  <2>2. SignedIn'
    BY <1>4, <2>1 DEF SignedIn, Mem, Ended
  <2>3. Armed'
    BY <1>3 DEF Armed
  <2> QED
    BY <1>1, <2>2, <2>3
<1>5. CASE /\ cache' = None /\ ~hosts'
           /\ ~Ended(r) /\ r.mem # None => r.pc \in {"saveConfig", "saveCache"}
  <2>1. nk'[p].mem # None => nk'[p].pc \in {"saveConfig", "saveCache"}
    <3>1. CASE Ended(r)
      <4>1. nk'[p] = [Off EXCEPT !.pc = r.pc]
        BY <3>1 DEF Become, Typed, TypeOK
      <4> QED
        BY <4>1 DEF Off
    <3>2. CASE ~Ended(r)
      BY <1>5, <3>2, BecomeAt DEF Ended
    <3> QED
      BY <3>1, <3>2
  <2>2. \A q \in Procs : nk'[q].mem # None => nk'[q].pc \in {"saveConfig", "saveCache"}
    BY <2>1, BecomeAt DEF NewMachine, Mem
  <2>3. NewMachine'
    BY <1>3, <1>5, <2>2 DEF NewMachine, At, Mem
  <2> QED
    BY <1>1, <2>3
<1> QED
  BY <1>4, <1>5 DEF Keeps

LEMMA KeepsGo ==
  ASSUME Typed, AllGood, NEW p \in Procs, ~Ended(nk[p]), UNCHANGED files,
         NEW l \in PC \ {"remove"},
         SignedIn /\ p \in Conns /\ armed[p] =>
           l # "failed" /\ (l \in Renewing => nk[p].why # "must"),
         NewMachine /\ Mem(p) # None => l \in {"saveConfig", "saveCache", "idle", "failed"}
  PROVE  Keeps(p, [nk[p] EXCEPT !.pc = l])
<1> DEFINE r == [nk[p] EXCEPT !.pc = l]
<1>1. r.pc = l /\ r.mem = nk[p].mem /\ r.answer = nk[p].answer /\ r.why = nk[p].why
  BY TypedFacts DEF Process
<1> HIDE DEF r
<1>2. NewMachine => p \in Cmds
  BY DEF NewMachine, At, Ended, Procs
<1>3. cache' = cache /\ cert' = cert /\ hosts' = hosts
  BY DEF files
<1>4. /\ r.mem # None => Good(r.mem.epoch)
      /\ r.answer # None => Good(r.answer)
      /\ cache' # None => Good(cache'.epoch)
  BY <1>1, <1>3, GoodFacts DEF Mem
<1>5. SignedIn => cache' # None /\ r.mem # None
  BY <1>1, <1>3 DEF SignedIn, Mem
<1>6. NewMachine => cache' = None /\ ~hosts'
  BY <1>3 DEF NewMachine
<1>7. NewMachine /\ ~Ended(r) /\ r.mem # None => r.pc \in {"saveConfig", "saveCache"}
  BY <1>1 DEF Ended, Mem
<1> QED
  BY <1>1, <1>2, <1>3, <1>4, <1>5, <1>6, <1>7 DEF Keeps, r

(* Where a process with a snapshot may be on a machine that has none. *)
LEMMA NewFacts ==
  ASSUME Typed, NewMachine, NEW p \in Procs
  PROVE  /\ cache = None /\ ~hosts
         /\ ~At(p, "idle") => p \in Cmds
         /\ nk[p].pc \in {"mark", "markSync", "prepare"} \cup Renewing => Mem(p) = None
         /\ Lists(Mem(p)) => nk[p].pc \in {"saveConfig", "saveCache"}
<1>1. cache = None /\ ~hosts /\ (p \in Conns => At(p, "idle"))
      /\ (Mem(p) # None => nk[p].pc \in {"saveConfig", "saveCache"})
  BY DEF NewMachine
<1> QED
  BY <1>1 DEF Procs, Renewing, Lists

LEMMA HookKeeps ==
  ASSUME Typed, AllGood, SignedIn => Armed, NEW p \in Procs,
         Prepare(p) \/ PrepareMark(p) \/ ProxyLoad(p) \/ Decide(p) \/ Pick(p)
  PROVE  \E r : Become(p, r) /\ Keeps(p, r)
<1>0. nk[p] \in Process /\ Sound(p, nk[p])
  BY TypedFacts
<1>1. CASE Prepare(p)
  <2>1. PICK l \in {"proxy", "ensure"} : Go(p, l) /\ (l = "ensure" => ~PrepareSkips(p))
    BY <1>1 DEF Prepare
  <2>2. nk[p].why = "prepare" /\ ~Ended(nk[p]) /\ UNCHANGED files
    BY <1>0, <1>1 DEF Prepare, At, Sound, Ended
  <2>3. NewMachine => Mem(p) = None
    BY <1>1, NewFacts DEF Prepare, At
  <2>4. Keeps(p, [nk[p] EXCEPT !.pc = l])
    BY <2>1, <2>2, <2>3, KeepsGo DEF PC
  <2> QED
    BY <2>1, <2>4 DEF Go
<1>2. CASE PrepareMark(p)
  <2> DEFINE r == [nk[p] EXCEPT !.pc = "proxy"]
  <2>1. Lists(Mem(p)) /\ ~Ended(nk[p]) /\ UNCHANGED <<hosts, cert>> /\ Become(p, r)
        /\ cache' = MarkSyncFailed(p)
    BY <1>0, <1>2 DEF PrepareMark, At, Sound, Mem, Ended, Go
  <2>2. MarkSyncFailed(p).epoch = Mem(p).epoch /\ MarkSyncFailed(p) # None
    <3>1. Mem(p) \in Snapshot
      BY <1>0, <2>1 DEF Process, Mem, Lists
    <3> QED
      BY <2>1, <3>1, MarkNoted DEF MarkSyncFailed, Snapshot, Lists
  <2>3. ~NewMachine
    BY <1>2, <2>1, NewFacts DEF PrepareMark, At, Lists
  <2>4. r.pc = "proxy" /\ r.mem = Mem(p) /\ r.answer = nk[p].answer
    BY <1>0 DEF Process, Mem
  <2>5. Keeps(p, r)
    BY <2>1, <2>2, <2>3, <2>4, GoodFacts DEF Keeps, Lists, Ended, Renewing
  <2> QED
    BY <2>1, <2>5
<1>3. CASE ProxyLoad(p)
  <2> DEFINE r == [Loaded(p) EXCEPT !.pc = "decide"]
  <2>1. r.pc = "decide" /\ r.mem = cache /\ r.answer = nk[p].answer
    BY <1>0 DEF Loaded, Process
  <2>2. Become(p, r) /\ cache' = cache /\ cert' = cert /\ hosts' = hosts
    BY <1>3 DEF ProxyLoad, files
  <2>3. NewMachine => p \in Cmds /\ cache = None /\ ~hosts
    BY <1>3, NewFacts DEF ProxyLoad, At
  <2> HIDE DEF r
  <2>4. Keeps(p, r)
    BY <2>1, <2>2, <2>3, GoodFacts DEF Keeps, SignedIn, Renewing
  <2> QED
    BY <2>2, <2>4
<1>4. CASE Decide(p)
  <2>1. PICK l \in {"session", "pick"} : Go(p, l)
    BY <1>4 DEF Decide
  <2>2. ~Ended(nk[p]) /\ UNCHANGED files /\ At(p, "decide")
    BY <1>4 DEF Decide, At, Ended
  <2>3. NewMachine => Mem(p) = None
    BY <2>2 DEF NewMachine, Procs, At
  <2>4. Keeps(p, [nk[p] EXCEPT !.pc = l])
    BY <2>1, <2>2, <2>3, KeepsGo DEF PC, Renewing
  <2> QED
    BY <2>1, <2>4 DEF Go
<1>5. CASE Pick(p)
  <2>1. ~Ended(nk[p]) /\ UNCHANGED files /\ At(p, "pick")
    BY <1>5 DEF Pick, At, Ended
  <2>2. NewMachine => Mem(p) = None
    BY <2>1 DEF NewMachine, Procs, At
  <2>3. SignedIn => Lists(Mem(p))
    BY <2>1, GoodFacts DEF SignedIn
  <2>4. SignedIn /\ p \in Conns /\ armed[p] => CertValid(Mem(p))
    BY <2>3, GoodFacts DEF Armed, Lists
  <2>5. CASE Go(p, "idle")
    BY <2>1, <2>2, <2>5, KeepsGo DEF PC, Renewing, Go
  <2>6. CASE Go(p, "failed") /\ ~Lists(Mem(p))
    BY <2>1, <2>2, <2>3, <2>6, KeepsGo DEF PC, Renewing, Go
  <2>7. ASSUME NEW w \in {"must", "may"}, Become(p, [nk[p] EXCEPT !.pc = "ensure", !.why = w]),
               w = "must" => ~CertValid(Mem(p)), Lists(Mem(p))
        PROVE  \E r : Become(p, r) /\ Keeps(p, r)
    <3> DEFINE r == [nk[p] EXCEPT !.pc = "ensure", !.why = w]
    <3>1. r.pc = "ensure" /\ r.mem = Mem(p) /\ r.answer = nk[p].answer /\ r.why = w
      BY <1>0 DEF Process, Mem
    <3>2. Become(p, r) /\ ~NewMachine /\ cache' = cache /\ cert' = cert
      BY <2>1, <2>2, <2>7 DEF files, Lists
    <3> HIDE DEF r
    <3>3. Keeps(p, r)
      BY <2>1, <2>4, <2>7, <3>1, <3>2, GoodFacts DEF Keeps, SignedIn
    <3> QED
      BY <3>2, <3>3
  <2> QED
    BY <1>5, <2>5, <2>6, <2>7 DEF Pick
<1> QED
  BY <1>1, <1>2, <1>3, <1>4, <1>5

LEMMA RenewalKeeps ==
  ASSUME Typed, AllGood, SignedIn => Armed, NEW p \in Procs, Renewal(p)
  PROVE  \E r : Become(p, r) /\ Keeps(p, r)
<1>0. nk[p] \in Process /\ Sound(p, nk[p])
  BY TypedFacts
<1>1. nk[p].pc \in Renewing /\ ~Ended(nk[p])
  BY DEF Renewal, EnsureCert, Sign, Install, At, Renewing, Ended
<1>2. ~NewMachine
  BY <1>0, <1>1, NewFacts DEF Sound, Lists, Mem
<1>3. SignedIn /\ p \in Conns /\ armed[p] => nk[p].why # "must"
  BY <1>1 DEF Armed
<1>4. \A l \in {EnsureDone(p), EnsureFailed(p)} :
        /\ l \in PC \ {"remove"} /\ l \notin Renewing
        /\ l = "failed" => nk[p].why = "must"
  BY <1>0, <1>1 DEF Sound, EnsureDone, EnsureFailed, PC, Renewing
<1>5. ASSUME NEW l \in {EnsureDone(p), EnsureFailed(p)}, Go(p, l), UNCHANGED files
      PROVE  \E r : Become(p, r) /\ Keeps(p, r)
  BY <1>1, <1>2, <1>3, <1>4, <1>5, KeepsGo DEF Go
<1>6. CASE EnsureCert(p)
  <2>1. CASE Go(p, "sign")
    <3>1. UNCHANGED files
      BY <1>6 DEF EnsureCert
    <3> QED
      BY <1>1, <1>2, <1>3, <2>1, <3>1, KeepsGo DEF Go, PC
  <2> QED
    BY <1>5, <1>6, <2>1 DEF EnsureCert
<1>7. CASE Sign(p)
  <2>1. CASE Become(p, [nk[p] EXCEPT !.pc = "install", !.answer = epoch])
    <3> DEFINE r == [nk[p] EXCEPT !.pc = "install", !.answer = epoch]
    <3>1. r.pc = "install" /\ r.mem = Mem(p) /\ r.answer = epoch /\ r.why = nk[p].why
      BY <1>0 DEF Process, Mem
    <3>2. Become(p, r) /\ cache' = cache /\ cert' = cert
      BY <1>7, <2>1 DEF Sign, files
    <3> HIDE DEF r
    <3>3. Keeps(p, r)
      BY <1>1, <1>2, <1>3, <3>1, <3>2, GoodFacts DEF Keeps, SignedIn
    <3> QED
      BY <3>2, <3>3
  <2> QED
    BY <1>5, <1>7, <2>1 DEF Sign
<1>8. CASE Install(p)
  <2>1. PICK l \in {EnsureDone(p), EnsureFailed(p)} :
          Become(p, [nk[p] EXCEPT !.answer = None, !.pc = l])
    BY <1>8 DEF Install
  <2> DEFINE r == [nk[p] EXCEPT !.answer = None, !.pc = l]
  <2>2. r.pc = l /\ r.mem = Mem(p) /\ r.answer = None
    BY <1>0 DEF Process, Mem
  <2>3. Become(p, r) /\ cache' = cache
    BY <1>8, <2>1 DEF Install
  <2>4. nk[p].answer \in Epochs /\ Good(nk[p].answer)
    BY <1>0, <1>8, GoodFacts DEF Install, At, Sound, Process
  <2>5. [epoch |-> nk[p].answer, left |-> Life] \in Cert
    BY <2>4, TimeAssumption DEF Cert
  <2>6. cert' = cert \/ (cert' # None /\ cert'.left = Life /\ Good(cert'.epoch))
    BY <1>8, <2>4, <2>5, EpochFacts, TypedFacts DEF Install
  <2> HIDE DEF r
  <2>7. Keeps(p, r)
    BY <1>1, <1>2, <1>3, <1>4, <2>2, <2>3, <2>6, GoodFacts DEF Keeps, SignedIn
  <2> QED
    BY <2>3, <2>7
<1> QED
  BY <1>6, <1>7, <1>8 DEF Renewal

LEMMA BeginCmdKeeps ==
  ASSUME Typed, AllGood, NEW p \in Procs, BeginCmd(p)
  PROVE  \E r : Become(p, r) /\ Keeps(p, r)
<1>0. nk[p] \in Process
  BY TypedFacts
<1>1. PICK c \in {"ls", "login", "doctor"}, l \in {"repair", "session"} :
        Become(p, [Loaded(p) EXCEPT !.why = c, !.pc = l])
  BY DEF BeginCmd
<1> DEFINE r == [Loaded(p) EXCEPT !.why = c, !.pc = l]
<1>2. r.pc = l /\ r.mem = cache /\ r.answer = nk[p].answer
  BY <1>0 DEF Loaded, Process
<1>3. p \in Cmds /\ p \notin Conns /\ cache' = cache /\ cert' = cert /\ hosts' = hosts
  BY ProcAssumption DEF BeginCmd, files
<1>4. NewMachine => cache = None /\ ~hosts
  BY NewFacts
<1>5. Become(p, r)
  BY <1>1
<1> HIDE DEF r
<1>6. Keeps(p, r)
  BY <1>2, <1>3, <1>4, GoodFacts DEF Keeps, SignedIn
<1> QED
  BY <1>5, <1>6

(* Prune finds nothing to remove: the snapshot that doctor loaded lists the server. *)
LEMMA RepairKeeps ==
  ASSUME Typed, AllGood, SignedIn => Armed, NEW p \in Procs, Repair(p) \/ Prune(p)
  PROVE  \E r : Become(p, r) /\ Keeps(p, r)
<1>0. nk[p] \in Process
  BY TypedFacts
<1>1. PICK l \in {"prune", "idle"} : Go(p, l)
  BY DEF Repair, Prune
<1> DEFINE r == [nk[p] EXCEPT !.pc = l]
<1>2. r.pc = l /\ r.mem = Mem(p) /\ r.answer = nk[p].answer
  BY <1>0 DEF Process, Mem
<1>3. cache' = cache /\ cert' = cert /\ Become(p, r)
  BY <1>1, GoodFacts DEF Repair, Prune, Go
<1>4. nk[p].pc \in {"repair", "prune"} /\ ~Ended(nk[p])
  BY DEF Repair, Prune, At, Ended
<1>5. NewMachine => p \in Cmds /\ cache = None /\ Mem(p) = None /\ ~hosts'
  <2>1. NewMachine => p \in Cmds /\ cache = None /\ Mem(p) = None /\ ~hosts
    BY <1>4, NewFacts DEF NewMachine, At
  <2> QED
    BY <2>1 DEF Repair, Prune, Lists
<1> HIDE DEF r
<1>6. Keeps(p, r)
  BY <1>2, <1>3, <1>4, <1>5, GoodFacts DEF Keeps, SignedIn, Renewing
<1> QED
  BY <1>3, <1>6

LEMMA SyncKeeps ==
  ASSUME Typed, AllGood, SignedIn => Armed, NEW p \in Procs, Sync(p)
  PROVE  \E r : Become(p, r) /\ Keeps(p, r)
<1>0. nk[p] \in Process /\ Sound(p, nk[p])
  BY TypedFacts
<1>1. SyncFailed(p) \in {"failed", "fallback"} /\ (SyncFailed(p) = "failed" => p \notin Conns)
  BY <1>0, NoneAssumption DEF Sound, SyncFailed, Why
<1>2. ~Ended(nk[p])
  BY DEF Sync, EnsureSession, DeviceLogin, GetMyAccess, CleanupCerts, RemoveCert,
     SaveConfig, SaveCache, WriteConfigs, Fallback, FallbackMark, At, Ended
<1>3. NewMachine => p \in Cmds /\ cache = None /\ ~hosts
  BY <1>2, NewFacts DEF At, Ended
<1>4. SignedIn => Mem(p) # None /\ cache # None
  BY <1>2 DEF SignedIn
<1>5. ASSUME NEW l \in {"access", "login", "fallback", "failed"}, Go(p, l), UNCHANGED files,
             l = "failed" => p \notin Conns,
             nk[p].pc \notin {"saveConfig", "saveCache"}
      PROVE  \E r : Become(p, r) /\ Keeps(p, r)
  <2>1. NewMachine => Mem(p) = None
    BY <1>5 DEF NewMachine
  <2> QED
    BY <1>2, <1>5, <2>1, KeepsGo DEF Go, PC, Renewing
<1>6. CASE EnsureSession(p)
  BY <1>1, <1>5, <1>6 DEF EnsureSession, At
<1>7. CASE DeviceLogin(p)
  <2>1. CASE Become(p, [nk[p] EXCEPT !.pc = "loginConfig", !.ses = TRUE])
    <3> DEFINE r == [nk[p] EXCEPT !.pc = "loginConfig", !.ses = TRUE]
    <3>1. r.pc = "loginConfig" /\ r.mem = Mem(p) /\ r.answer = nk[p].answer
      BY <1>0 DEF Process, Mem
    <3>2. cache' = cache /\ cert' = cert /\ hosts' = hosts
      BY <1>7 DEF DeviceLogin, files
    <3>3. NewMachine => Mem(p) = None
      BY <1>7 DEF NewMachine, DeviceLogin, At
    <3>4. Become(p, r)
      BY <2>1
    <3> HIDE DEF r
    <3>5. Keeps(p, r)
      BY <1>3, <1>4, <3>1, <3>2, <3>3, GoodFacts DEF Keeps, Renewing
    <3> QED
      BY <3>4, <3>5
  <2> QED
    BY <1>1, <1>5, <1>7, <2>1 DEF DeviceLogin, At
<1>8. CASE GetMyAccess(p)
  <2>1. NewMachine => Mem(p) = None
    BY <1>8 DEF NewMachine, GetMyAccess, At
  <2>2. UNCHANGED files /\ cache' = cache /\ cert' = cert /\ hosts' = hosts
    BY <1>8 DEF GetMyAccess, files
  <2>3. ASSUME NEW l \in {"cleanup", "login"}, NEW e \in {epoch, nk[p].answer}, NEW w,
               Become(p, [nk[p] EXCEPT !.pc = l, !.answer = e, !.why = w])
        PROVE  \E r : Become(p, r) /\ Keeps(p, r)
    <3> DEFINE r == [nk[p] EXCEPT !.pc = l, !.answer = e, !.why = w]
    <3>1. r.pc = l /\ r.mem = Mem(p) /\ r.answer = e
      BY <1>0 DEF Process, Mem
    <3>2. Become(p, r) /\ (e # None => Good(e))
      BY <2>3, GoodFacts
    <3> HIDE DEF r
    <3>3. Keeps(p, r)
      BY <1>3, <1>4, <2>1, <2>2, <2>3, <3>1, <3>2, GoodFacts DEF Keeps, Renewing
    <3> QED
      BY <3>2, <3>3
  <2>4. CASE Become(p, [nk[p] EXCEPT !.pc = "cleanup", !.answer = epoch])
    <3>1. [nk[p] EXCEPT !.pc = "cleanup", !.answer = epoch]
            = [nk[p] EXCEPT !.pc = "cleanup", !.answer = epoch, !.why = nk[p].why]
      BY <1>0 DEF Process
    <3> QED
      BY <2>3, <2>4, <3>1
  <2>5. CASE Become(p, [nk[p] EXCEPT !.pc = "login", !.why = Again(@)])
    <3>1. [nk[p] EXCEPT !.pc = "login", !.why = Again(@)]
            = [nk[p] EXCEPT !.pc = "login", !.answer = nk[p].answer, !.why = Again(nk[p].why)]
      BY <1>0 DEF Process
    <3> QED
      BY <2>3, <2>5, <3>1
  <2> QED
    BY <1>1, <1>5, <1>8, <2>2, <2>4, <2>5 DEF GetMyAccess, At
<1>9. CASE CleanupCerts(p)
  <2>1. nk[p].answer \in Epochs /\ Good(nk[p].answer) /\ Names(nk[p].answer) # {}
    BY <1>0, <1>9, GoodFacts DEF CleanupCerts, At, Sound, Process, Good
  <2>2. TakeAccess(p) /\ cache' = cache /\ cert' = cert /\ hosts' = hosts
    BY <1>9, <2>1 DEF CleanupCerts, files
  <2>3. Fresh(nk[p].answer).epoch = nk[p].answer /\ Fresh(nk[p].answer) # None
    BY <2>1, FreshNoted, EpochFacts, TypedFacts
  <2> DEFINE f == Fresh(nk[p].answer)
  <2> DEFINE r == [nk[p] EXCEPT !.pc = "saveConfig", !.mem = f, !.answer = None]
  <2>4. r.pc = "saveConfig" /\ r.mem = f /\ r.answer = None
    BY <1>0 DEF Process
  <2>5. Become(p, r)
    BY <2>2 DEF TakeAccess
  <2>6. f # None /\ Good(f.epoch)
    BY <2>1, <2>3
  <2> HIDE DEF r, f
  <2>7. Keeps(p, r)
    BY <1>3, <1>4, <2>2, <2>4, <2>6, GoodFacts DEF Keeps, Renewing
  <2> QED
    BY <2>5, <2>7
<1>10. CASE RemoveCert(p)
  BY <1>10 DEF RemoveCert, AllGood
<1>11. CASE SaveConfig(p)
  <2>1. PICK l \in {"loginCache", "saveCache"} :
          Go(p, l) /\ (l = "loginCache" => At(p, "loginConfig"))
    BY <1>11 DEF SaveConfig
  <2> DEFINE r == [nk[p] EXCEPT !.pc = l]
  <2>2. r.pc = l /\ r.mem = Mem(p) /\ r.answer = nk[p].answer
    BY <1>0 DEF Process, Mem
  <2>3. cache' = cache /\ cert' = cert /\ hosts' = hosts
    BY <1>11 DEF SaveConfig
  <2>4. NewMachine /\ l = "loginCache" => Mem(p) = None
    BY <2>1 DEF NewMachine, At
  <2>5. Become(p, r)
    BY <2>1 DEF Go
  <2> HIDE DEF r
  <2>6. Keeps(p, r)
    BY <1>3, <1>4, <2>2, <2>3, <2>4, GoodFacts DEF Keeps, Renewing
  <2> QED
    BY <2>5, <2>6
<1>12. CASE SaveCache(p)
  <2>1. PICK l \in {"access", "writeHosts"} :
          Go(p, l) /\ (l = "access" => At(p, "loginCache"))
    BY <1>12 DEF SaveCache
  <2> DEFINE r == [nk[p] EXCEPT !.pc = l]
  <2>2. r.pc = l /\ r.mem = Mem(p) /\ r.answer = nk[p].answer
    BY <1>0 DEF Process, Mem
  <2>3. cache' = Mem(p) /\ cert' = cert /\ hosts' = hosts
    BY <1>12 DEF SaveCache
  <2>5. Become(p, r)
    BY <2>1 DEF Go
  <2> HIDE DEF r
  <2>6. Keeps(p, r)
    BY <1>3, <1>4, <2>2, <2>3, GoodFacts DEF Keeps, Renewing
  <2> QED
    BY <2>5, <2>6
<1>13. CASE WriteConfigs(p)
  <2>1. PICK l \in {"pick", "idle"} : Go(p, l)
    BY <1>13 DEF WriteConfigs
  <2> DEFINE r == [nk[p] EXCEPT !.pc = l]
  <2>2. r.pc = l /\ r.mem = Mem(p) /\ r.answer = nk[p].answer
    BY <1>0 DEF Process, Mem
  <2>3. cache' = cache /\ cert' = cert /\ hosts' = Lists(Mem(p))
    BY <1>13 DEF WriteConfigs
  <2>4. NewMachine => Mem(p) = None /\ ~hosts'
    BY <1>13, <2>3 DEF NewMachine, WriteConfigs, At, Lists
  <2>5. Become(p, r)
    BY <2>1 DEF Go
  <2> HIDE DEF r
  <2>6. Keeps(p, r)
    BY <1>3, <1>4, <2>1, <2>2, <2>3, <2>4, GoodFacts DEF Keeps, Renewing
  <2> QED
    BY <2>5, <2>6
<1>14. CASE Fallback(p)
  <2>1. PICK l \in {"markSync", "failed"} :
          l = (IF Lists(cache) THEN "markSync" ELSE "failed")
    OBVIOUS
  <2> DEFINE r == [nk[p] EXCEPT !.mem = cache, !.pc = l]
  <2>2. r.pc = l /\ r.mem = cache /\ r.answer = nk[p].answer
    BY <1>0 DEF Process
  <2>3. cache' = cache /\ cert' = cert /\ hosts' = hosts
    BY <1>14 DEF Fallback, files
  <2>4. cache # None => l = "markSync"
    BY <2>1, GoodFacts
  <2>5. Become(p, r)
    BY <2>1, <1>14 DEF Fallback
  <2> HIDE DEF r
  <2>6. Keeps(p, r)
    BY <1>3, <1>4, <2>1, <2>2, <2>3, <2>4, GoodFacts DEF Keeps, Renewing
  <2> QED
    BY <2>5, <2>6
<1>15. CASE FallbackMark(p)
  <2>1. Lists(Mem(p)) /\ Mem(p) # None /\ At(p, "markSync")
    BY <1>0, <1>15 DEF FallbackMark, At, Sound, Mem, Lists
  <2>2. PICK l \in {"pick", "idle"} :
          Become(p, [nk[p] EXCEPT !.mem = MarkSyncFailed(p), !.pc = l])
    BY <1>15 DEF FallbackMark
  <2>3. MarkSyncFailed(p).epoch = Mem(p).epoch /\ MarkSyncFailed(p) # None
    <3>1. Mem(p) \in Snapshot
      BY <1>0, <2>1 DEF Process, Mem
    <3> QED
      BY <2>1, <3>1, MarkNoted DEF MarkSyncFailed, Snapshot, Lists
  <2> DEFINE m == MarkSyncFailed(p)
  <2> DEFINE r == [nk[p] EXCEPT !.mem = m, !.pc = l]
  <2>4. r.pc = l /\ r.mem = m /\ r.answer = nk[p].answer
    BY <1>0 DEF Process
  <2>5. cache' = m /\ cert' = cert /\ hosts' = hosts
    BY <1>15 DEF FallbackMark
  <2>6. ~NewMachine
    BY <2>1 DEF NewMachine, At
  <2>7. Become(p, r)
    BY <2>2
  <2>8. m # None /\ Good(m.epoch)
    BY <2>1, <2>3, GoodFacts
  <2> HIDE DEF r, m
  <2>9. Keeps(p, r)
    BY <1>4, <2>2, <2>4, <2>5, <2>6, <2>8, GoodFacts DEF Keeps, Renewing
  <2> QED
    BY <2>7, <2>9
<1> QED
  BY <1>6, <1>7, <1>8, <1>9, <1>10, <1>11, <1>12, <1>13, <1>14, <1>15 DEF Sync

(* A connection begins only where ssh_config lists the server. *)
LEMMA BeginConnSafe ==
  ASSUME Typed, AllGood, NEW p \in Procs, BeginConn(p)
  PROVE  AllGood' /\ (SignedIn /\ Armed => (SignedIn /\ Armed)') /\ ~NewMachine
<1> DEFINE r == [Loaded(p) EXCEPT !.pc = "prepare", !.why = "prepare"]
<1>0. nk[p] \in Process /\ nk \in [Procs -> Process] /\ armed \in [Procs -> BOOLEAN]
      /\ cert \in Cert \cup {None} /\ world \in Worlds
  BY DEF Typed, TypeOK
<1>1. r.pc = "prepare" /\ r.mem = cache /\ r.answer = nk[p].answer
  BY <1>0 DEF Loaded, Process
<1>2. nk' = [nk EXCEPT ![p] = r] /\ UNCHANGED <<backend, files>>
  BY DEF BeginConn
<1> HIDE DEF r
<1>3. nk'[p] = r /\ \A q \in Procs \ {p} : nk'[q] = nk[q]
  BY <1>0, <1>2
<1>4. world' = world /\ epoch' = epoch /\ cache' = cache /\ cert' = cert
  BY <1>2 DEF backend, files
<1>5. AllGood'
  <2>1. \A q \in Procs : /\ nk'[q].mem # None => Good(nk'[q].mem.epoch)
                         /\ nk'[q].answer # None => Good(nk'[q].answer)
                         /\ nk'[q].pc # "remove"
    BY <1>1, <1>3 DEF AllGood, Mem, At
  <2> QED
    BY <1>4, <2>1 DEF AllGood, Good, Names, Key, Mem, At
<1>6. ASSUME SignedIn, Armed
      PROVE  SignedIn' /\ Armed'
  <2>1. SignedIn'
    BY <1>1, <1>3, <1>4, <1>6 DEF SignedIn, Mem, Ended
  <2>2. \A q \in Procs \ {p} : armed'[q] = armed[q]
    BY <1>0 DEF BeginConn
  <2>3. armed'[p] => CertValid(cache)
    BY <1>0 DEF BeginConn
  <2>4. armed'[p] => cert # None /\ cert.left > 0
    BY <2>3 DEF CertValid
  <2>5. ASSUME NEW q \in Conns, armed'[q]
        PROVE  /\ cert' # None /\ cert'.left > 0 /\ nk'[q].pc # "failed"
               /\ nk'[q].pc \in Renewing => nk'[q].why # "must"
    <3>1. CASE q = p
      BY <1>1, <1>3, <1>4, <2>4, <2>5, <3>1 DEF Renewing
    <3>2. CASE q # p
      BY <1>3, <1>4, <1>6, <2>2, <2>5, <3>2 DEF Armed, Procs, At
    <3> QED
      BY <3>1, <3>2
  <2> QED
    BY <2>1, <2>5 DEF Armed, At
<1>7. ~NewMachine
  BY DEF BeginConn, NewMachine
<1> QED
  BY <1>5, <1>6, <1>7

(* Time, the backend and the sessions: no file of a machine is lost, and a new epoch     *)
(* is as good as the one before it.                                              *)
LEMMA WorldSafe ==
  ASSUME Typed, OnlyGrants, AllGood,
         Tick \/ Change \/ Outage \/ SessionEnds \/ UNCHANGED vars
  PROVE  AllGood' /\ (SignedIn /\ Armed => (SignedIn /\ Armed)') /\ (NewMachine => NewMachine')
<1>0. /\ world \in Worlds /\ epoch \in Epochs /\ cache \in Snapshot \cup {None}
      /\ cert \in Cert \cup {None} /\ nk \in [Procs -> Process] /\ armed \in [Procs -> BOOLEAN]
  BY DEF Typed, TypeOK
<1>1. world' = world
  BY DEF Tick, Change, Outage, SessionEnds, vars, backend
<1>2. Good(epoch') /\ \A e : Good(e) => Good(e)'
  <2>1. CASE Change
    <3>1. epoch \in Nat /\ epoch + 1 \in Epochs /\ epoch' = epoch + 1
      BY <1>0, <2>1, EpochFacts DEF Change
    <3>2. epoch + 1 > 1 /\ (epoch + 1) - 1 = epoch
      BY <1>0, <3>1, WorldAssumption DEF Epochs
    <3>3. Key(epoch + 1) = Key(epoch) /\ Names(epoch) \subseteq Names(epoch + 1)
      BY <3>1, <3>2 DEF OnlyGrants
    <3> QED
      BY <1>1, <3>1, <3>3 DEF AllGood, Good, Names, Key
  <2>2. CASE epoch' = epoch
    BY <1>1, <2>2 DEF AllGood, Good, Names, Key
  <2> QED
    BY <2>1, <2>2 DEF Tick, Outage, SessionEnds, vars, backend
<1>3. Good(epoch)'
  BY <1>1, <1>2 DEF Good, Names, Key
<1>4. \A s \in Snapshot \cup {None} : /\ Older(s) = None <=> s = None
                                      /\ s # None => Older(s).epoch = s.epoch
  BY <1>0, OlderFacts
<1>5. /\ cache' = None <=> cache = None
      /\ cache # None => cache'.epoch = cache.epoch
  BY <1>0, <1>4 DEF Tick, Change, Outage, SessionEnds, vars, files
<1>6. \A p \in Procs :
        /\ nk'[p].pc = nk[p].pc /\ nk'[p].why = nk[p].why /\ nk'[p].answer = nk[p].answer
        /\ nk'[p].mem = None <=> nk[p].mem = None
        /\ nk[p].mem # None => nk'[p].mem.epoch = nk[p].mem.epoch
  <2>1. CASE Tick
    BY <1>0, <1>4, <2>1 DEF Tick, Process
  <2>2. CASE SessionEnds
    BY <1>0, <2>2 DEF SessionEnds, Process
  <2>3. CASE nk' = nk
    BY <2>3
  <2> QED
    BY <2>1, <2>2, <2>3 DEF Change, Outage, vars
<1>7. /\ cert' = None <=> cert = None
      /\ cert # None => cert'.epoch = cert.epoch
      /\ \A p \in Procs : armed'[p] => armed[p] /\ (cert # None /\ cert.left > 0 => cert'.left > 0)
  <2>1. CASE Tick
    <3>1. CASE cert = None
      BY <1>0, <2>1, <3>1 DEF Tick
    <3>2. CASE cert # None /\ cert.left = 0
      BY <1>0, <2>1, <3>2 DEF Tick
    <3>3. CASE cert # None /\ cert.left # 0
      <4>1. cert \in Cert /\ cert.left \in 1..Life
        BY <1>0, <3>3, TimeAssumption DEF Cert
      <4>2. cert' = [cert EXCEPT !.left = cert.left - 1]
        BY <2>1, <3>3 DEF Tick
      <4>3. cert'.left = cert.left - 1 /\ cert'.epoch = cert.epoch /\ cert' \in Cert
        BY <4>1, <4>2, TimeAssumption DEF Cert
      <4>4. \A p \in Procs : armed'[p] => armed[p] /\ cert.left > 1
        BY <1>0, <2>1 DEF Tick
      <4> QED
        BY <1>0, <4>1, <4>3, <4>4, EpochFacts, TimeAssumption
    <3> QED
      BY <3>1, <3>2, <3>3
  <2>2. CASE cert' = cert /\ armed' = armed
    BY <2>2
  <2> QED
    BY <2>1, <2>2 DEF Change, Outage, SessionEnds, vars, files
<1>8. NewMachine => ~hosts'
  BY DEF NewMachine, Tick, Change, Outage, SessionEnds, vars, files
<1>9. AllGood'
  <2>1. cache' # None => Good(cache.epoch)'
    BY <1>2, <1>5 DEF AllGood, Good, Names, Key
  <2>2. cert' # None => Good(cert.epoch)'
    BY <1>2, <1>7 DEF AllGood, Good, Names, Key
  <2>3. ASSUME NEW p \in Procs
        PROVE  /\ nk'[p].mem # None => Good(nk[p].mem.epoch)'
               /\ nk'[p].answer # None => Good(nk[p].answer)'
               /\ nk'[p].pc # "remove"
    BY <1>2, <1>6 DEF AllGood, Good, Names, Key, Mem, At
  <2> QED
    BY <1>3, <2>1, <2>2, <2>3 DEF AllGood, Mem, At
<1>10. SignedIn => SignedIn'
  BY <1>5, <1>6 DEF SignedIn, Mem, Ended
<1>11. Armed => Armed'
  BY <1>6, <1>7 DEF Armed, At, Procs
<1>12. NewMachine => NewMachine'
  BY <1>5, <1>6, <1>7, <1>8 DEF NewMachine, At, Mem, Procs
<1> QED
  BY <1>9, <1>10, <1>11, <1>12

(* Every step of a process but the start of a connection. *)
LEMMA StepKeeps ==
  ASSUME Typed, AllGood, SignedIn => Armed, NEW p \in Procs, Step(p), ~BeginConn(p)
  PROVE  UNCHANGED backend /\ \E r : Become(p, r) /\ Keeps(p, r)
<1>1. UNCHANGED backend
  BY DEF Step, Prepare, PrepareMark, ProxyLoad, Decide, Pick, BeginCmd, Renewal,
     EnsureCert, Sign, Install, Sync, EnsureSession, DeviceLogin, GetMyAccess, CleanupCerts,
     RemoveCert, SaveConfig, SaveCache, WriteConfigs, Fallback, FallbackMark, Repair, Prune
<1> QED
  BY <1>1, HookKeeps, RenewalKeeps, SyncKeeps, BeginCmdKeeps, RepairKeeps DEF Step

LEMMA SafeStep ==
  ASSUME Typed, OnlyGrants, Safe, [Next]_vars
  PROVE  Safe'
<1>1. ASSUME NEW p \in Procs, Step(p)
      PROVE  Safe'
  <2>1. CASE BeginConn(p)
    BY <2>1, BeginConnSafe DEF Safe
  <2>2. CASE ~BeginConn(p)
    BY <1>1, <2>2, StepKeeps, KeptSafe DEF Safe
  <2> QED
    BY <2>1, <2>2
<1> QED
  BY <1>1, WorldSafe DEF Next, Safe

LEMMA NewStep ==
  ASSUME OneCommand, Typed, OnlyGrants, AllGood, NewMachine, [Next]_vars
  PROVE  AllGood' /\ ((SignedIn /\ Armed)' \/ NewMachine')
<1>0. ~SignedIn
  BY DEF SignedIn, NewMachine
<1>1. ASSUME NEW p \in Procs, Step(p)
      PROVE  AllGood' /\ ((SignedIn /\ Armed)' \/ NewMachine')
  <2>1. ~BeginConn(p)
    BY BeginConnSafe
  <2> QED
    BY <1>0, <1>1, <2>1, StepKeeps, KeptNew
<1> QED
  BY <1>1, WorldSafe DEF Next

(* The history of a world does not change. *)
LEMMA SameHistory == Typed /\ [Next]_vars /\ OnlyGrants' => OnlyGrants
<1> SUFFICES ASSUME Typed, [Next]_vars
             PROVE  world' = world
  BY DEF OnlyGrants, Epochs, Key, Names
<1> QED
  BY StepLands DEF Next, Tick, Change, Outage, SessionEnds, vars, backend

LEMMA OfflineInit ==
  ASSUME FromTheStart, Init
  PROVE  AllGood /\ IF cache # None THEN SignedIn /\ Armed ELSE NewMachine
<1>0. world \in Worlds /\ 1 \in Epochs /\ epoch = 1 /\ cert = None
  BY EpochFacts DEF Init
<1>1. Good(1)
  BY <1>0 DEF FromTheStart, Good, Names
<1>2. cache = None \/ cache = Fresh(1)
  BY DEF Init
<1>3. \A p \in Procs : nk[p].pc = "idle" /\ nk[p].mem = None /\ nk[p].answer = None /\ ~armed[p]
  BY DEF Init, Off
<1>4. Fresh(1).epoch = 1
  BY <1>0, FreshNoted
<1>5. cache = None => ~hosts
  BY <1>0, FreshNoted, EpochFacts DEF Init
<1>6. AllGood
  BY <1>0, <1>1, <1>2, <1>3, <1>4 DEF AllGood, Mem, At
<1>7. cache # None => SignedIn
  BY <1>3 DEF SignedIn, Ended
<1>8. Armed
  BY <1>3 DEF Armed, Procs
<1>9. cache = None => NewMachine
  BY <1>3, <1>5 DEF NewMachine, Procs, At, Mem
<1> QED
  BY <1>6, <1>7, <1>8, <1>9

(* OfflineKeepsWorking, on a machine that has signed in: however many ssh connections       *)
(* and commands run, and whatever a failed sync writes over a newer one, a connection that    *)
(* began with a certificate good for it never fails while it lasts.  For a history that        *)
(* grants access from the start: one granted only later lets a command that still works         *)
(* from the empty answer remove the new certificate.                                     *)
THEOREM SignedInWorks ==
  ASSUME FromTheStart
  PROVE  Spec /\ cache # None => []OfflineKeepsWorking
<1> DEFINE Holds == OnlyGrants => Safe
<1>1. Init /\ cache # None => Holds
  BY OfflineInit DEF Safe
<1>2. Typed /\ Holds /\ [Next]_vars => Holds'
  BY SafeStep, SameHistory
<1>3. Holds => OfflineKeepsWorking
  BY DEF Safe, Armed, OfflineKeepsWorking
<1> QED
  BY <1>1, <1>2, <1>3, TypedAlways, PTL DEF Spec

(* OfflineKeepsWorking, from a new machine on, where at most one command runs at a time: of    *)
(* two that sign in, one can write the cache it does not have over the one the other          *)
(* fetched.                                                                          *)
THEOREM NewMachineWorks ==
  ASSUME FromTheStart, OneCommand
  PROVE  Spec => []OfflineKeepsWorking
<1>1. Init => Offline
  BY OfflineInit DEF Offline
<1>2. Typed /\ Offline /\ [Next]_vars => Offline'
  <2> SUFFICES ASSUME Typed, Offline, [Next]_vars, OnlyGrants'
               PROVE  AllGood' /\ ((SignedIn /\ Armed)' \/ NewMachine')
    BY DEF Offline
  <2>1. OnlyGrants
    BY SameHistory
  <2>2. AllGood /\ ((SignedIn /\ Armed) \/ NewMachine)
    BY <2>1 DEF Offline
  <2> QED
    BY <2>1, <2>2, SafeStep, NewStep DEF Safe
<1>3. Offline => OfflineKeepsWorking
  BY DEF Offline, Armed, NewMachine, OfflineKeepsWorking, At
<1> QED
  BY <1>1, <1>2, <1>3, TypedAlways, PTL DEF Spec
=============================================================================
