---------------------------- MODULE SessionProofs ----------------------------
(***************************************************************************)
(* What Session promises for any number of hooks, servers and sign-ins.  The    *)
(* argument is one inductive invariant, SessionInv: a config that left            *)
(* LoadState names a server, each token and snapshot names the server it came     *)
(* from, and a session that still counts (Current) is nowhere but in             *)
(* config.json, or on its way there in the process that has just signed in.      *)
(***************************************************************************)
EXTENDS Session, TLAPS

Running == PC \ {"off", "load"}

(* The sessions that are accepted, but for those nk has lost hold of: taken off the  *)
(* disk, or kept by a hook through a logout that could not revoke them.          *)
Current == live \ (dropped \cup unrevoked)

Known(c)   == c.token # None => issued[c.token] # None
Tagged(c)  == c.targets # None => c.server = c.targets

KnowsServer == \A p \in Procs : pc[p] \in Running => conf[p].api # None

TokensKnown == Known(config) /\ \A p \in Procs : Known(conf[p])

SnapshotsTagged == Tagged(cache) /\ \A p \in Procs : Tagged(snap[p])

(* A process that holds a current session read it from config.json, where it    *)
(* still is, or has just signed in and is about to write it there; nk logout has one  *)
(* for a last moment, when the revoke failed and no hook has it.                  *)
HeldIsOnDisk ==
  \A p \in Procs : conf[p].token \in Current =>
    \/ conf[p].token = config.token
    \/ p = User /\ pc[p] = "config" /\ out = None
    \/ p = User /\ pc[p] = "offer"

RevokeTried == pc[User] = "remove" => conf[User].token \notin Current

NothingLeft == out # None => config.token \notin Current

SessionInv ==
  /\ TypeOK /\ KnowsServer /\ TokensKnown /\ SessionStaysHome
  /\ SnapshotsTagged /\ ForeignNeverUsed
  /\ HeldIsOnDisk /\ RevokeTried /\ NothingLeft

-----------------------------------------------------------------------------
LEMMA TypeInit == Init => TypeOK
  BY ServerAssumption, TokenAssumption
  DEF Init, TypeOK, PC, Maybe, Config, Cache, NoConfig, NoCache, Procs

LEMMA TypeStep == TypeOK /\ KnowsServer /\ [Next]_vars => TypeOK'
<1> SUFFICES ASSUME TypeOK, KnowsServer, [Next]_vars
             PROVE  TypeOK'
  OBVIOUS
<1> USE ServerAssumption, ProcAssumption, TokenAssumption
    DEF TypeOK, PC, Maybe, Config, Cache, Procs, NoConfig, NoCache,
        files, backend, history, memory
<1>1. CASE SessionEnds
  BY <1>1 DEF SessionEnds
<1>2. ASSUME NEW p \in Procs, Step(p)
      PROVE  TypeOK'
  <2>1. CASE Begin(p)
    BY <2>1 DEF Begin, Go
  <2>2. CASE LoadState(p)
    <3>1. PICK arg \in Maybe(Servers) :
            LET api == IF arg # None THEN arg ELSE Default
                switches == conf[p].api # api /\ (conf[p].api = None \/ arg # None)
            IN  /\ conf' = [conf EXCEPT ![p] = IF switches THEN Switch(@, api) ELSE @]
                /\ snap' = [snap EXCEPT ![p] = IF switches THEN NoCache
                                               ELSE SnapshotOf(conf[p].api)]
      BY <2>2 DEF LoadState
    <3> DEFINE api == IF arg # None THEN arg ELSE Default
    <3>2. api \in Servers
      BY <3>1
    <3>3. Switch(conf[p], api) \in Config
      BY <3>2 DEF Switch
    <3>4. SnapshotOf(conf[p].api) \in Cache /\ NoCache \in Cache
      BY DEF SnapshotOf
    <3>5. conf' \in [Procs -> Config] /\ snap' \in [Procs -> Cache]
      BY <3>1, <3>3, <3>4
    <3>6. PICK l \in IF p = User THEN {"sync", "revoke"} ELSE {"hook"} : Go(p, l)
      BY <2>2 DEF LoadState
    <3>7. pc' \in [Procs -> PC]
          /\ \A q \in Hooks : pc'[q] \notin {"install", "revoke", "remove", "offer"}
      BY <3>6 DEF Go
    <3> QED
      BY <2>2, <3>5, <3>7 DEF LoadState
  <2>3. CASE HookDone(p)
    BY <2>3 DEF HookDone, Leave, Go
  <2>4. CASE HookSyncs(p)
    BY <2>4 DEF HookSyncs, Go
  <2>5. CASE HookFails(p)
    BY <2>5 DEF HookFails, Go
  <2>6. CASE KeepCA(p)
    <3>1. conf' \in [Procs -> Config]
      BY <2>6 DEF KeepCA
    <3>2. p \notin Hooks
      BY <2>6 DEF KeepCA, Interactive
    <3>3. /\ pc' = [pc EXCEPT ![p] = "config"] /\ next' = [next EXCEPT ![p] = "install"]
          /\ UNCHANGED <<files, store, backend, snap, history>>
      BY <2>6 DEF KeepCA, Save, Go
    <3> QED
      BY <3>1, <3>2, <3>3
  <2>7. CASE Install(p)
    <3>1. CASE UNCHANGED <<store, conf, next>>
      BY <2>7, <3>1 DEF Install, Save, Go
    <3>2. CASE ~ UNCHANGED <<store, conf, next>>
      <4>1. /\ store' = store \cup {conf[p].api}
            /\ ~SystemTrusts(conf[p].api)
            /\ conf' = [conf EXCEPT ![p].installed = TRUE]
            /\ Save(p, "sync")
            /\ UNCHANGED <<files, backend, snap, history>>
        BY <2>7, <3>2 DEF Install
      <4>2. conf' \in [Procs -> Config] /\ store' \subseteq Private
        BY <4>1 DEF SystemTrusts
      <4> QED
        BY <4>1, <4>2 DEF Save, Go
    <3> QED
      BY <3>1, <3>2
  <2>8. CASE SignIn(p)
    <3>1. PICK t \in Tokens :
            /\ issued' = [issued EXCEPT ![t] = conf[p].api]
            /\ live' = live \cup {t}
            /\ conf' = [conf EXCEPT ![p].token = t]
      BY <2>8 DEF SignIn
    <3>2. conf[p].api # None
      BY <2>8 DEF SignIn, KnowsServer, Running
    <3>3. conf' \in [Procs -> Config]
      BY <3>1
    <3>4. issued' \in [Tokens -> Maybe(Servers)]
          /\ live' \subseteq {u \in Tokens : issued'[u] # None}
      BY <3>1, <3>2
    <3> QED
      BY <2>8, <3>3, <3>4 DEF SignIn, Save, Go, Interactive
  <2>9. CASE TakeAccess(p)
    BY <2>9 DEF TakeAccess, Save, Go
  <2>10. CASE SyncFails(p)
    BY <2>10 DEF SyncFails, Go, SnapshotOf, NoCache
  <2>11. CASE MarkSyncFailed(p)
    BY <2>11 DEF MarkSyncFailed, Leave, Go
  <2>12. CASE SaveConfig(p)
    BY <2>12 DEF SaveConfig, Drop, Go
  <2>13. CASE SaveCache(p)
    <3>1. CASE next[p] = "off"
      <4>1. Leave(p) /\ cache' = snap[p] /\ UNCHANGED <<config, store, backend, history>>
        BY <2>13, <3>1 DEF SaveCache
      <4> QED
        BY <4>1 DEF Leave, Go
    <3>2. CASE next[p] # "off"
      BY <2>13, <3>2 DEF SaveCache, Go
    <3> QED
      BY <3>1, <3>2
  <2>14. CASE Revoke(p)
    BY <2>14 DEF Revoke, Go
  <2>15. CASE RemoveConfigDir(p)
    BY <2>15 DEF RemoveConfigDir, Drop, Go
  <2>16. CASE OfferRemoval(p)
    BY <2>16 DEF OfferRemoval, Leave, Go
  <2>17. CASE Killed(p)
    BY <2>17 DEF Killed, Leave, Go
  <2> QED
    BY <1>2, <2>1, <2>2, <2>3, <2>4, <2>5, <2>6, <2>7, <2>8, <2>9,
       <2>10, <2>11, <2>12, <2>13, <2>14, <2>15, <2>16, <2>17 DEF Step
<1>3. CASE UNCHANGED vars
  BY <1>3 DEF vars
<1> QED
  BY <1>1, <1>2, <1>3 DEF Next

(* A process has chosen a server when it leaves LoadState, and keeps to it. *)
LEMMA KnowsServerStep == TypeOK /\ KnowsServer /\ [Next]_vars => KnowsServer'
<1> SUFFICES ASSUME TypeOK, KnowsServer, [Next]_vars
             PROVE  KnowsServer'
  OBVIOUS
<1> USE ServerAssumption
    DEF TypeOK, KnowsServer, Running, PC, Maybe, Config, Cache,
        files, backend, history, memory
<1>1. CASE SessionEnds
  BY <1>1 DEF SessionEnds
<1>2. ASSUME NEW p \in Procs, Step(p)
      PROVE  KnowsServer'
  <2>1. CASE Begin(p)
    BY <2>1 DEF Begin, Go
  <2>2. CASE LoadState(p)
    BY <2>2 DEF LoadState, Go, Switch, SnapshotOf, NoCache, NoConfig
  <2>3. CASE HookDone(p)
    BY <2>3 DEF HookDone, Leave, Go
  <2>4. CASE HookSyncs(p)
    BY <2>4 DEF HookSyncs, Go
  <2>5. CASE HookFails(p)
    BY <2>5 DEF HookFails, Go
  <2>6. CASE KeepCA(p)
    BY <2>6 DEF KeepCA, Save, Go, Interactive
  <2>7. CASE Install(p)
    BY <2>7 DEF Install, Save, Go, SystemTrusts
  <2>8. CASE SignIn(p)
    BY <2>8 DEF SignIn, Save, Go, Interactive
  <2>9. CASE TakeAccess(p)
    BY <2>9 DEF TakeAccess, Save, Go
  <2>10. CASE SyncFails(p)
    BY <2>10 DEF SyncFails, Go, SnapshotOf, NoCache
  <2>11. CASE MarkSyncFailed(p)
    BY <2>11 DEF MarkSyncFailed, Leave, Go
  <2>12. CASE SaveConfig(p)
    BY <2>12 DEF SaveConfig, Drop, Go
  <2>13. CASE SaveCache(p)
    BY <2>13 DEF SaveCache, Leave, Go
  <2>14. CASE Revoke(p)
    BY <2>14 DEF Revoke, Go
  <2>15. CASE RemoveConfigDir(p)
    BY <2>15 DEF RemoveConfigDir, Drop, Go
  <2>16. CASE OfferRemoval(p)
    BY <2>16 DEF OfferRemoval, Leave, Go
  <2>17. CASE Killed(p)
    BY <2>17 DEF Killed, Leave, Go
  <2> QED
    BY <1>2, <2>1, <2>2, <2>3, <2>4, <2>5, <2>6, <2>7, <2>8, <2>9,
       <2>10, <2>11, <2>12, <2>13, <2>14, <2>15, <2>16, <2>17 DEF Step
<1>3. CASE UNCHANGED vars
  BY <1>3 DEF vars
<1> QED
  BY <1>1, <1>2, <1>3 DEF Next

(* Every state component keeps its type; a hook is never where only the user's   *)
(* command gets, at a question or at a sign-out.                             *)
THEOREM Typing == Spec => []TypeOK
<1>1. Init => TypeOK /\ KnowsServer
  BY TypeInit DEF Init, KnowsServer, Running
<1>2. TypeOK /\ KnowsServer /\ [Next]_vars => TypeOK' /\ KnowsServer'
  BY TypeStep, KnowsServerStep
<1> QED
  BY <1>1, <1>2, PTL DEF Spec

-----------------------------------------------------------------------------
(* A token is issued once, so what it says of its server stays true. *)
LEMMA HomeStep ==
  TypeOK /\ KnowsServer /\ TokensKnown /\ SessionStaysHome /\ [Next]_vars
    => TokensKnown' /\ SessionStaysHome'
<1> SUFFICES ASSUME TypeOK, KnowsServer, TokensKnown, SessionStaysHome, [Next]_vars
             PROVE  TokensKnown' /\ SessionStaysHome'
  OBVIOUS
<1> USE ServerAssumption, TokenAssumption
    DEF TypeOK, TokensKnown, Known, SessionStaysHome, AtHome, Maybe, Config, NoConfig,
        files, backend, history, memory
<1>1. CASE SessionEnds
  BY <1>1 DEF SessionEnds
<1>2. ASSUME NEW p \in Procs, Step(p)
      PROVE  TokensKnown' /\ SessionStaysHome'
  <2>1. CASE Begin(p)
    BY <2>1 DEF Begin, Go
  <2>2. CASE LoadState(p)
    BY <2>2 DEF LoadState, Go, Switch, SnapshotOf, NoCache, NoConfig
  <2>3. CASE HookDone(p)
    BY <2>3 DEF HookDone, Leave, Go
  <2>4. CASE HookSyncs(p)
    BY <2>4 DEF HookSyncs, Go
  <2>5. CASE HookFails(p)
    BY <2>5 DEF HookFails, Go
  <2>6. CASE KeepCA(p)
    BY <2>6 DEF KeepCA, Save, Go, Interactive
  <2>7. CASE Install(p)
    <3>1. CASE UNCHANGED <<store, conf, next>>
      BY <2>7, <3>1 DEF Install, Go
    <3>2. CASE conf' = [conf EXCEPT ![p].installed = TRUE]
      BY <2>7, <3>2 DEF Install, Save, Go
    <3> QED
      BY <2>7, <3>1, <3>2 DEF Install
  <2>8. CASE SignIn(p)
    <3>1. PICK t \in Tokens :
            /\ issued[t] = None
            /\ issued' = [issued EXCEPT ![t] = conf[p].api]
            /\ conf' = [conf EXCEPT ![p].token = t]
      BY <2>8 DEF SignIn
    <3>2. conf[p].api # None
      BY <2>8 DEF SignIn, KnowsServer, Running
    <3>3. \A c \in Config : Known(c) /\ AtHome(c) /\ c.token # None =>
            issued'[c.token] = issued[c.token] /\ issued[c.token] # None
      BY <3>1
    <3>4. Known(config)' /\ AtHome(config)'
      BY <2>8, <3>3 DEF SignIn
    <3>5. ASSUME NEW q \in Procs, q # p
          PROVE  Known(conf[q])' /\ AtHome(conf[q])'
      BY <3>1, <3>3, <3>5
    <3>6. conf'[p] = [conf[p] EXCEPT !.token = t] /\ conf[p] \in Config
      BY <3>1
    <3>7. Known(conf[p])' /\ AtHome(conf[p])'
      BY <3>1, <3>2, <3>6
    <3> QED
      BY <3>4, <3>5, <3>7
  <2>9. CASE TakeAccess(p)
    BY <2>9 DEF TakeAccess, Save, Go
  <2>10. CASE SyncFails(p)
    BY <2>10 DEF SyncFails, Go, SnapshotOf, NoCache
  <2>11. CASE MarkSyncFailed(p)
    BY <2>11 DEF MarkSyncFailed, Leave, Go
  <2>12. CASE SaveConfig(p)
    BY <2>12 DEF SaveConfig, Drop, Go
  <2>13. CASE SaveCache(p)
    <3>1. CASE next[p] = "off"
      <4>1. Leave(p) /\ cache' = snap[p] /\ UNCHANGED <<config, store, backend, history>>
        BY <2>13, <3>1 DEF SaveCache
      <4> QED
        BY <4>1 DEF Leave, Go
    <3>2. CASE next[p] # "off"
      BY <2>13, <3>2 DEF SaveCache, Go
    <3> QED
      BY <3>1, <3>2
  <2>14. CASE Revoke(p)
    BY <2>14 DEF Revoke, Go
  <2>15. CASE RemoveConfigDir(p)
    BY <2>15 DEF RemoveConfigDir, Drop, Go
  <2>16. CASE OfferRemoval(p)
    BY <2>16 DEF OfferRemoval, Leave, Go
  <2>17. CASE Killed(p)
    BY <2>17 DEF Killed, Leave, Go
  <2> QED
    BY <1>2, <2>1, <2>2, <2>3, <2>4, <2>5, <2>6, <2>7, <2>8, <2>9,
       <2>10, <2>11, <2>12, <2>13, <2>14, <2>15, <2>16, <2>17 DEF Step
<1>3. CASE UNCHANGED vars
  BY <1>3 DEF vars
<1> QED
  BY <1>1, <1>2, <1>3 DEF Next

(* A snapshot is of the server that its tag says, and LoadCache compares the tag. *)
LEMMA SnapshotStep ==
  TypeOK /\ KnowsServer /\ SnapshotsTagged /\ ForeignNeverUsed /\ [Next]_vars
    => SnapshotsTagged' /\ ForeignNeverUsed'
<1> SUFFICES ASSUME TypeOK, KnowsServer, SnapshotsTagged, ForeignNeverUsed, [Next]_vars
             PROVE  SnapshotsTagged' /\ ForeignNeverUsed'
  OBVIOUS
<1> USE ServerAssumption
    DEF TypeOK, KnowsServer, Running, SnapshotsTagged, Tagged, ForeignNeverUsed,
        HasCachedData, PC, Maybe, Config, Cache, NoCache,
        files, backend, history, memory
<1>1. CASE SessionEnds
  BY <1>1 DEF SessionEnds
<1>2. ASSUME NEW p \in Procs, Step(p)
      PROVE  SnapshotsTagged' /\ ForeignNeverUsed'
  <2>1. CASE Begin(p)
    BY <2>1 DEF Begin, Go
  <2>2. CASE LoadState(p)
    BY <2>2 DEF LoadState, Go, Switch, SnapshotOf, NoCache, NoConfig
  <2>3. CASE HookDone(p)
    BY <2>3 DEF HookDone, Leave, Go
  <2>4. CASE HookSyncs(p)
    BY <2>4 DEF HookSyncs, Go
  <2>5. CASE HookFails(p)
    BY <2>5 DEF HookFails, Go
  <2>6. CASE KeepCA(p)
    BY <2>6 DEF KeepCA, Save, Go, Interactive
  <2>7. CASE Install(p)
    <3>1. CASE UNCHANGED <<store, conf, next>>
      <4>1. Go(p, "config") \/ Go(p, "sync")
        BY <2>7 DEF Install, Save
      <4>2. pc[p] = "install" /\ UNCHANGED <<conf, cache, snap>>
        BY <2>7, <3>1 DEF Install
      <4> QED
        BY <4>1, <4>2 DEF Go
    <3>2. CASE conf' = [conf EXCEPT ![p].installed = TRUE]
      BY <2>7, <3>2 DEF Install, Save, Go
    <3> QED
      BY <2>7, <3>1, <3>2 DEF Install
  <2>8. CASE SignIn(p)
    BY <2>8 DEF SignIn, Save, Go, Interactive
  <2>9. CASE TakeAccess(p)
    BY <2>9 DEF TakeAccess, Save, Go
  <2>10. CASE SyncFails(p)
    BY <2>10 DEF SyncFails, Go, SnapshotOf, NoCache
  <2>11. CASE MarkSyncFailed(p)
    BY <2>11 DEF MarkSyncFailed, Leave, Go
  <2>12. CASE SaveConfig(p)
    BY <2>12 DEF SaveConfig, Drop, Go
  <2>13. CASE SaveCache(p)
    <3>1. CASE next[p] = "off"
      <4>1. Leave(p) /\ cache' = snap[p] /\ UNCHANGED <<config, store, backend, history>>
        BY <2>13, <3>1 DEF SaveCache
      <4> QED
        BY <4>1 DEF Leave, Go
    <3>2. CASE next[p] # "off"
      BY <2>13, <3>2 DEF SaveCache, Go
    <3> QED
      BY <3>1, <3>2
  <2>14. CASE Revoke(p)
    BY <2>14 DEF Revoke, Go
  <2>15. CASE RemoveConfigDir(p)
    BY <2>15 DEF RemoveConfigDir, Drop, Go
  <2>16. CASE OfferRemoval(p)
    BY <2>16 DEF OfferRemoval, Leave, Go
  <2>17. CASE Killed(p)
    BY <2>17 DEF Killed, Leave, Go
  <2> QED
    BY <1>2, <2>1, <2>2, <2>3, <2>4, <2>5, <2>6, <2>7, <2>8, <2>9,
       <2>10, <2>11, <2>12, <2>13, <2>14, <2>15, <2>16, <2>17 DEF Step
<1>3. CASE UNCHANGED vars
  BY <1>3 DEF vars
<1> QED
  BY <1>1, <1>2, <1>3 DEF Next

-----------------------------------------------------------------------------
(* Who writes config.json takes what is there off the disk, unless it is the       *)
(* session he holds himself; nk logout removes it after it tried to revoke its own.  *)
LEMMA LogoutStep ==
  TypeOK /\ KnowsServer /\ TokensKnown /\ HeldIsOnDisk /\ RevokeTried /\ NothingLeft
    /\ [Next]_vars => HeldIsOnDisk' /\ RevokeTried' /\ NothingLeft'
<1> SUFFICES ASSUME TypeOK, KnowsServer, TokensKnown,
                    HeldIsOnDisk, RevokeTried, NothingLeft, [Next]_vars
             PROVE  HeldIsOnDisk' /\ RevokeTried' /\ NothingLeft'
  OBVIOUS
<1> USE ServerAssumption, TokenAssumption, ProcAssumption
    DEF TypeOK, HeldIsOnDisk, RevokeTried, NothingLeft, Current,
        Procs, Maybe, Config, NoConfig, files, backend, history, memory
<1>1. CASE SessionEnds
  BY <1>1 DEF SessionEnds
<1>2. ASSUME NEW p \in Procs, Step(p)
      PROVE  HeldIsOnDisk' /\ RevokeTried' /\ NothingLeft'
  <2>1. CASE Begin(p)
    BY <2>1 DEF Begin, Go
  <2>2. CASE LoadState(p)
    BY <2>2 DEF LoadState, Go, Switch, SnapshotOf, NoCache, NoConfig
  <2>3. CASE HookDone(p)
    BY <2>3 DEF HookDone, Leave, Go
  <2>4. CASE HookSyncs(p)
    BY <2>4 DEF HookSyncs, Go
  <2>5. CASE HookFails(p)
    BY <2>5 DEF HookFails, Go
  <2>6. CASE KeepCA(p)
    BY <2>6 DEF KeepCA, Save, Go, Interactive
  <2>7. CASE Install(p)
    <3>1. \A q \in Procs : conf'[q].token = conf[q].token
      <4>1. CASE UNCHANGED <<store, conf, next>>
        BY <4>1
      <4>2. CASE conf' = [conf EXCEPT ![p].installed = TRUE]
        BY <4>2
      <4> QED
        BY <2>7, <4>1, <4>2 DEF Install
    <3>2. (Go(p, "config") \/ Go(p, "sync")) /\ pc[p] = "install"
          /\ UNCHANGED <<config, live, dropped, unrevoked, out>>
      BY <2>7 DEF Install, Save
    <3> QED
      BY <3>1, <3>2 DEF Go
  <2>8. CASE SignIn(p)
    <3>1. PICK t \in Tokens :
            /\ issued[t] = None
            /\ live' = live \cup {t}
            /\ conf' = [conf EXCEPT ![p].token = t]
      BY <2>8 DEF SignIn
    <3>2. p = User /\ out' = None /\ pc' = [pc EXCEPT ![p] = "config"]
          /\ UNCHANGED <<config, dropped, unrevoked>>
      BY <2>8 DEF SignIn, Save, Go, Interactive
    <3>3. \A q \in Procs \ {p} : conf'[q] = conf[q] /\ conf[q].token # t
      BY <3>1 DEF TokensKnown, Known
    <3>4. \A q \in Procs \ {p} :
            conf[q].token \in live' \ (dropped \cup unrevoked) => conf[q].token = config.token
      BY <3>1, <3>2, <3>3
    <3> QED
      BY <3>1, <3>2, <3>3, <3>4
  <2>9. CASE TakeAccess(p)
    BY <2>9 DEF TakeAccess, Save, Go
  <2>10. CASE SyncFails(p)
    BY <2>10 DEF SyncFails, Go, SnapshotOf, NoCache
  <2>11. CASE MarkSyncFailed(p)
    BY <2>11 DEF MarkSyncFailed, Leave, Go
  <2>12. CASE SaveConfig(p)
    BY <2>12 DEF SaveConfig, Drop, Go
  <2>13. CASE SaveCache(p)
    <3>1. CASE next[p] = "off"
      <4>1. Leave(p) /\ cache' = snap[p] /\ UNCHANGED <<config, store, backend, history>>
        BY <2>13, <3>1 DEF SaveCache
      <4> QED
        BY <4>1 DEF Leave, Go
    <3>2. CASE next[p] # "off"
      BY <2>13, <3>2 DEF SaveCache, Go
    <3> QED
      BY <3>1, <3>2
  <2>14. CASE Revoke(p)
    BY <2>14 DEF Revoke, Go
  <2>15. CASE RemoveConfigDir(p)
    BY <2>15 DEF RemoveConfigDir, Drop, Go
  <2>16. CASE OfferRemoval(p)
    BY <2>16 DEF OfferRemoval, Leave, Go
  <2>17. CASE Killed(p)
    BY <2>17 DEF Killed, Leave, Go
  <2> QED
    BY <1>2, <2>1, <2>2, <2>3, <2>4, <2>5, <2>6, <2>7, <2>8, <2>9,
       <2>10, <2>11, <2>12, <2>13, <2>14, <2>15, <2>16, <2>17 DEF Step
<1>3. CASE UNCHANGED vars
  BY <1>3 DEF vars
<1> QED
  BY <1>1, <1>2, <1>3 DEF Next

LEMMA SessionInvInit == Init => SessionInv
  BY TypeInit, ServerAssumption, TokenAssumption
  DEF Init, SessionInv, KnowsServer, Running, TokensKnown, Known, SessionStaysHome,
      AtHome, SnapshotsTagged, Tagged, ForeignNeverUsed, HasCachedData, HeldIsOnDisk,
      RevokeTried, NothingLeft, Current, NoConfig, NoCache

LEMMA SessionInvStep == SessionInv /\ [Next]_vars => SessionInv'
  BY TypeStep, KnowsServerStep, HomeStep, SnapshotStep, LogoutStep DEF SessionInv

LEMMA Inductive == Spec => []SessionInv
  BY SessionInvInit, SessionInvStep, PTL DEF Spec

(* A session never leaves the server that issued it: no config, on disk or in       *)
(* the memory of a process, has a token or a CA of another server.              *)
THEOREM StaysHome == Spec => []SessionStaysHome
<1>1. SessionInv => SessionStaysHome
  BY DEF SessionInv
<1> QED
  BY <1>1, Inductive, PTL

(* No process works with targets of another server than the one it talks to,      *)
(* whatever pair of config.json and cache.json it found.                        *)
THEOREM NoForeignTargets == Spec => []ForeignNeverUsed
<1>1. SessionInv => ForeignNeverUsed
  BY DEF SessionInv
<1> QED
  BY <1>1, Inductive, PTL

(* After nk logout no session on the disk is accepted by the server it left, except   *)
(* one that had been taken off the disk before, or one that a hook had in memory      *)
(* while the logout failed to revoke it: a revoke that fails is harmless where no      *)
(* hook runs, and a hook where the revoke succeeds.                              *)
THEOREM LogoutHolds == Spec => []LogoutEndsSession
<1>1. SessionInv => LogoutEndsSession
  BY DEF SessionInv, NothingLeft, LogoutEndsSession, Current
<1> QED
  BY <1>1, Inductive, PTL
=============================================================================
