------------------------------- MODULE Session -------------------------------
(***************************************************************************)
(* config.json and cache.json (internal/state), read and written by a user's    *)
(* command and by any number of ssh hooks without a lock, across servers: a      *)
(* switch with --api, a private CA that is confirmed and installed               *)
(* (internal/client/trust.go), nk logout.  What a sync does besides is Access;   *)
(* how a sign-in polls is Login.                                              *)
(***************************************************************************)
EXTENDS Naturals, FiniteSets

CONSTANTS
  Servers,
  Private,     \* servers whose certificate comes from a CA of their own
  Default,     \* the server of an nk that was told of none
  User,        \* the process of the command the user types, one at a time
  Hooks,       \* processes ssh starts
  MaxTokens,   \* sign-ins in a behaviour
  None

Procs  == Hooks \cup {User}
Tokens == 1..MaxTokens
Maybe(S) == S \cup {None}

ASSUME ServerAssumption == Private \subseteq Servers /\ Default \in Servers /\ None \notin Servers
ASSUME ProcAssumption   == User \notin Hooks
ASSUME TokenAssumption  == MaxTokens \in Nat /\ None \notin Tokens

VARIABLES
  config,    \* config.json
  cache,     \* cache.json
  store,     \* servers whose CA nk put into the system trust store
  issued,    \* issued[t]: the server that issued token t
  live,      \* the tokens their servers accept
  pc,
  conf,      \* conf[p]: State.Config of p
  snap,      \* snap[p]: State.Cache of p
  next,      \* next[p]: where p goes on after Save
  out,       \* the server of the last logout, until the next sign-in (history)
  dropped,   \* tokens that a switch or an overwritten file took off config.json while
             \* they were accepted (history)
  unrevoked  \* tokens whose logout could not revoke them, while a hook had them in
             \* memory (history)

files   == <<config, cache>>
backend == <<issued, live>>
history == <<out, dropped, unrevoked>>
memory  == <<conf, snap, next>>
vars    == <<files, store, backend, pc, memory, history>>

Config == [api : Maybe(Servers), token : Maybe(Tokens), ca : Maybe(Servers), installed : BOOLEAN]
Cache  == [server : Maybe(Servers), targets : Maybe(Servers)]   \* targets: whose they are
NoConfig == [api |-> None, token |-> None, ca |-> None, installed |-> FALSE]
NoCache  == [server |-> None, targets |-> None]

PC == {"off", "load", "hook", "sync", "install", "config", "cache", "mark",
       "revoke", "remove", "offer"}

TypeOK ==
  /\ config \in Config /\ cache \in Cache /\ store \subseteq Private
  /\ issued \in [Tokens -> Maybe(Servers)] /\ live \subseteq {t \in Tokens : issued[t] # None}
  /\ pc \in [Procs -> PC]
  /\ \A p \in Hooks :
       pc[p] \notin {"install", "revoke", "remove", "offer"} /\ next[p] # "install"
  /\ conf \in [Procs -> Config] /\ snap \in [Procs -> Cache]
  /\ next \in [Procs -> {"off", "sync", "install"}]
  /\ out \in Maybe(Servers) /\ dropped \subseteq Tokens /\ unrevoked \subseteq Tokens

Init ==
  /\ config = NoConfig /\ cache = NoCache /\ store = {}
  /\ issued = [t \in Tokens |-> None] /\ live = {}
  /\ pc = [p \in Procs |-> "off"]
  /\ conf = [p \in Procs |-> NoConfig] /\ snap = [p \in Procs |-> NoCache]
  /\ next = [p \in Procs |-> "off"]
  /\ out = None /\ dropped = {} /\ unrevoked = {}

-----------------------------------------------------------------------------
Go(p, l) == pc' = [pc EXCEPT ![p] = l]

(* The process ends. *)
Leave(p) ==
  /\ Go(p, "off")
  /\ conf' = [conf EXCEPT ![p] = NoConfig]
  /\ snap' = [snap EXCEPT ![p] = NoCache]
  /\ next' = [next EXCEPT ![p] = "off"]

(* Save, and where to after it. *)
Save(p, l) == Go(p, "config") /\ next' = [next EXCEPT ![p] = l]

(* Load reads config.json, then cache.json. *)
Begin(p) ==
  /\ pc[p] = "off"
  /\ conf' = [conf EXCEPT ![p] = config]
  /\ Go(p, "load")
  /\ UNCHANGED <<files, store, backend, snap, next, history>>

(* Mutant: whatever snapshot is there is taken. *)
SnapshotAsIs(api) == cache

(* LoadCache: "A snapshot of another server is never used." *)
SnapshotOf(api) ==
  IF cache.server # None /\ cache.server # api THEN NoCache ELSE cache

(* Mutant: the session of the server before stays. *)
SwitchAddress(c, api) == [c EXCEPT !.api = api]

(* loadState: another server starts with an empty config. *)
Switch(c, api) == [NoConfig EXCEPT !.api = api]

(* The address is --api, or NK_API_URL, which a hook inherits from ssh. *)
LoadState(p) ==
  /\ pc[p] = "load"
  /\ \E arg \in Maybe(Servers) :
       LET api == IF arg # None THEN arg ELSE Default
           switches == conf[p].api # api /\ (conf[p].api = None \/ arg # None)
       IN  /\ conf' = [conf EXCEPT ![p] = IF switches THEN Switch(@, api) ELSE @]
           /\ snap' = [snap EXCEPT ![p] = IF switches THEN NoCache ELSE SnapshotOf(conf[p].api)]
  /\ IF p = User THEN Go(p, "sync") \/ Go(p, "revoke") ELSE Go(p, "hook")
  /\ UNCHANGED <<files, store, backend, next, history>>

HasCachedData(p) == snap[p].targets # None

(* nk prepare or nk proxy with a snapshot that is young enough, a sync that is    *)
(* due, or a renewal that failed (MarkSyncFailed without a sync before).        *)
HookDone(p) ==
  /\ pc[p] = "hook" /\ HasCachedData(p)
  /\ Leave(p)
  /\ UNCHANGED <<files, store, backend, history>>

HookSyncs(p) ==
  /\ pc[p] = "hook"
  /\ Go(p, "sync")
  /\ UNCHANGED <<files, store, backend, memory, history>>

HookFails(p) ==
  /\ pc[p] = "hook" /\ HasCachedData(p)
  /\ Go(p, "mark")
  /\ UNCHANGED <<files, store, backend, memory, history>>

-----------------------------------------------------------------------------
(* Mutant: a hook asks and signs in as well. *)
AlwaysInteractive(p) == TRUE

(* A hook neither asks nor opens a browser. *)
Interactive(p) == p = User

(* The certificate of the server verifies: by the system or by the kept CA. *)
SystemTrusts(s) == s \notin Private \/ s \in store
Verified(p)     == SystemTrusts(conf[p].api) \/ conf[p].ca = conf[p].api

Accepts(p) ==
  /\ Verified(p)
  /\ conf[p].token \in live /\ issued[conf[p].token] = conf[p].api

(* keepCA after --pin, or after confirmServer asked. *)
KeepCA(p) ==
  /\ pc[p] = "sync" /\ Interactive(p)
  /\ conf[p].api \in Private /\ conf[p].ca # conf[p].api
  /\ conf' = [conf EXCEPT ![p].ca = conf[p].api]
  /\ Save(p, "install")
  /\ UNCHANGED <<files, store, backend, snap, history>>

(* offerInstall, unless the system knows the CA: installed and saved, or not. *)
Install(p) ==
  /\ pc[p] = "install"
  /\ \/ /\ ~SystemTrusts(conf[p].api)
        /\ store' = store \cup {conf[p].api}
        /\ conf' = [conf EXCEPT ![p].installed = TRUE]
        /\ Save(p, "sync")
     \/ Go(p, "sync") /\ UNCHANGED <<store, conf, next>>
  /\ UNCHANGED <<files, backend, snap, history>>

(* deviceLogin, when there is no session or the server rejected it. *)
SignIn(p) ==
  /\ pc[p] = "sync" /\ Interactive(p)
  /\ Verified(p) /\ ~Accepts(p)
  /\ \E t \in Tokens :
       /\ issued[t] = None /\ \A u \in 1..(t - 1) : issued[u] # None
       /\ issued' = [issued EXCEPT ![t] = conf[p].api]
       /\ live' = live \cup {t}
       /\ conf' = [conf EXCEPT ![p].token = t]
  /\ out' = None
  /\ Save(p, "sync")
  /\ UNCHANGED <<files, store, snap, dropped, unrevoked>>

(* sync: GetMyAccess answers. *)
TakeAccess(p) ==
  /\ pc[p] = "sync" /\ Accepts(p)
  /\ snap' = [snap EXCEPT ![p] = [server |-> conf[p].api, targets |-> conf[p].api]]
  /\ Save(p, "off")
  /\ UNCHANGED <<files, store, backend, conf, history>>

(* It does not, or there is no session to ask with: SyncOrCache goes back to     *)
(* the disk.  nk login fails, and so does what finds no snapshot there.         *)
SyncFails(p) ==
  /\ pc[p] = "sync"
  /\ LET c == SnapshotOf(conf[p].api) IN
     /\ c.targets # None
     /\ snap' = [snap EXCEPT ![p] = c]
     /\ Go(p, "mark")
  /\ UNCHANGED <<files, store, backend, conf, next, history>>

MarkSyncFailed(p) ==
  /\ pc[p] = "mark"
  /\ cache' = snap[p]
  /\ Leave(p)
  /\ UNCHANGED <<config, store, backend, history>>

(* p takes a session off the disk that is not its own. *)
Drop(p) == dropped' = dropped \cup ({config.token} \cap (live \ {conf[p].token}))

SaveConfig(p) ==
  /\ pc[p] = "config"
  /\ config' = conf[p]
  /\ Drop(p)
  /\ Go(p, "cache")
  /\ UNCHANGED <<cache, store, backend, memory, out, unrevoked>>

SaveCache(p) ==
  /\ pc[p] = "cache"
  /\ cache' = snap[p]
  /\ IF next[p] = "off" THEN Leave(p) ELSE Go(p, next[p]) /\ UNCHANGED memory
  /\ UNCHANGED <<config, store, backend, history>>

-----------------------------------------------------------------------------
(* Mutant: the session is read after the directory is gone: there is none. *)
RevokeNothing(p) ==
  /\ pc[p] = "revoke"
  /\ Go(p, "remove")
  /\ UNCHANGED <<files, store, backend, memory, history>>

(* Client.Logout.  "Best effort, the local state goes either way": the server may   *)
(* be away, or present a certificate that nk does not trust.                     *)
Revoke(p) ==
  /\ pc[p] = "revoke"
  /\ \/ Verified(p) /\ live' = live \ {conf[p].token} /\ UNCHANGED unrevoked
     \/ UNCHANGED live /\ unrevoked' = unrevoked \cup ({conf[p].token} \cap live)
  /\ Go(p, "remove")
  /\ UNCHANGED <<files, store, issued, memory, out, dropped>>

(* A hook that is still running writes its files again: the next nk makes the    *)
(* directory.                                                                *)
RemoveConfigDir(p) ==
  /\ pc[p] = "remove"
  /\ config' = NoConfig /\ cache' = NoCache
  /\ out' = conf[p].api
  /\ Drop(p)
  /\ unrevoked' = {t \in unrevoked : \E h \in Hooks : conf[h].token = t}
  /\ Go(p, "offer")
  /\ UNCHANGED <<store, backend, memory>>

OfferRemoval(p) ==
  /\ pc[p] = "offer"
  /\ \/ conf[p].installed /\ store' = store \ {conf[p].ca}
     \/ UNCHANGED store
  /\ Leave(p)
  /\ UNCHANGED <<files, backend, history>>

-----------------------------------------------------------------------------
SessionEnds ==
  /\ \E t \in live : live' = live \ {t}
  /\ UNCHANGED <<files, store, issued, pc, memory, history>>

(* A process is killed, or ends with an error: between two files, for instance. *)
Killed(p) ==
  /\ pc[p] # "off"
  /\ Leave(p)
  /\ UNCHANGED <<files, store, backend, history>>

Step(p) ==
  \/ Begin(p) \/ LoadState(p) \/ HookDone(p) \/ HookSyncs(p) \/ HookFails(p)
  \/ KeepCA(p) \/ Install(p) \/ SignIn(p) \/ TakeAccess(p) \/ SyncFails(p)
  \/ MarkSyncFailed(p) \/ SaveConfig(p) \/ SaveCache(p)
  \/ Revoke(p) \/ RemoveConfigDir(p) \/ OfferRemoval(p) \/ Killed(p)

Next == SessionEnds \/ \E p \in Procs : Step(p)

Spec == Init /\ [][Next]_vars

-----------------------------------------------------------------------------
(* "A session belongs to the API that issued it, so both live together"          *)
(* (state.go:77), and "Another server never gets this session" (cmd.go:106):      *)
(* wherever a config is, its token and its CA are those of its server.          *)
AtHome(c) ==
  /\ c.token # None => issued[c.token] = c.api
  /\ c.ca # None => c.ca = c.api

SessionStaysHome == AtHome(config) /\ \A p \in Procs : AtHome(conf[p])

(* "A snapshot of another server is never used" (state.go:133), although          *)
(* config.json and cache.json are written one after the other by several         *)
(* processes: what a process shows or connects to is of the server it talks to.  *)
ForeignNeverUsed ==
  \A p \in Procs :
    pc[p] \in PC \ {"off", "load"} /\ HasCachedData(p) => snap[p].targets = conf[p].api

(* nk logout ends the session: a hook that was running may write config.json      *)
(* again, but the server of the logout accepts no session found there, with two   *)
(* exceptions: one that a switch of servers or an overwritten file had taken off   *)
(* the disk before, and one whose logout could not revoke it while a hook had it    *)
(* in memory.  Where the revoke fails and no hook has it, the session is gone.      *)
LogoutEndsSession ==
  out # None =>
    config.token \notin {t \in live \ (dropped \cup unrevoked) : issued[t] = out}
=============================================================================
