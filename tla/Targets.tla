------------------------------- MODULE Targets -------------------------------
(***************************************************************************)
(* nk sync and nk rm of one server without the daemon (internal/cmd/          *)
(* target.go): the order in which an operator's nk reads its snapshot, probes   *)
(* the host, creates, reports or deletes the target on the backend and runs     *)
(* the root scripts, any of which may fail.  The scripts themselves are         *)
(* HostSync; here one takes effect, does not, or is cut off.                   *)
(***************************************************************************)
EXTENDS Naturals, FiniteSets

CONSTANTS
  Operators,
  Ids,       \* ids the backend gives to targets of this server
  LastKey,   \* host keys are 1..LastKey, a reinstall takes the next one
  Env,       \* what may go wrong: subset of {"answer", "sync", "cut"}
  None

Keys == 1..LastKey

ASSUME KeyAssumption  == LastKey \in Nat \ {0}
ASSUME NoneAssumption == None \notin Ids /\ None \notin Keys

VARIABLES
  trusts,   \* the host trusts the CA of Nokku
  key,      \* its host key
  pin,      \* pin[i]: the host key Nokku has of target i, None if there is none
  had,      \* had[i]: every key Nokku had of target i, none of an id that was not given out (history)
  cache,    \* cache[o]: the pins in the snapshot of operator o
  pc,
  id,       \* id[o]: the target o works on, None for a server new to Nokku
  seen,     \* seen[o]: the host key the probe saw
  accept,   \* accept[o]: --accept-host-key
  keep,     \* keep[o]: --keep-host
  behind,   \* behind[o]: its snapshot is the one before, the sync failed (history)
  alone     \* alone[o]: no other run overlapped this one (history)

host    == <<trusts, key>>
backend == <<pin, had>>
flags   == <<accept, keep, alone>>
vars    == <<trusts, key, pin, had, cache, pc, id, seen, accept, keep, behind, alone>>

Ended == {"idle", "stopped", "unwritten", "unreported", "undeleted", "done"}
PC == Ended \cup {"sync", "probe", "create", "principals", "write", "report",
                  "rm", "clean", "delete", "refresh"}

(* Where a run works on a target of Nokku: target.go has no nil check there. *)
Targeted == {"principals", "write", "report", "clean", "delete"}

TypeOK ==
  /\ trusts \in BOOLEAN /\ key \in Keys
  /\ pin \in [Ids -> Keys \cup {None}] /\ had \in [Ids -> SUBSET Keys]
  /\ cache \in [Operators -> [Ids -> Keys \cup {None}]]
  /\ pc \in [Operators -> PC]
  /\ id \in [Operators -> Ids \cup {None}]
  /\ seen \in [Operators -> Keys \cup {None}]
  /\ accept \in [Operators -> BOOLEAN] /\ keep \in [Operators -> BOOLEAN]
  /\ behind \in [Operators -> BOOLEAN] /\ alone \in [Operators -> BOOLEAN]
  /\ \A o \in Operators : pc[o] \in Targeted => id[o] # None

Init ==
  /\ trusts = FALSE /\ key = 1
  /\ pin = [i \in Ids |-> None] /\ had = [i \in Ids |-> {}]
  /\ cache = [o \in Operators |-> pin]
  /\ pc = [o \in Operators |-> "idle"]
  /\ id = [o \in Operators |-> None]
  /\ seen = [o \in Operators |-> None]
  /\ accept = [o \in Operators |-> FALSE]
  /\ keep = accept /\ behind = accept /\ alone = accept

-----------------------------------------------------------------------------
Go(o, l) == pc' = [pc EXCEPT ![o] = l]

(* A call to the backend fails on the way there or, with "answer", on the way   *)
(* back after it took effect.                                                *)
Lost == "answer" \in Env

(* SyncOrCache: with "sync" it may fall back on the old snapshot. *)
SyncOrCache(o) ==
  \/ cache' = [cache EXCEPT ![o] = pin] /\ behind' = [behind EXCEPT ![o] = FALSE]
  \/ "sync" \in Env /\ behind' = [behind EXCEPT ![o] = TRUE] /\ UNCHANGED cache

(* The others that are at work. *)
Busy(o) == {p \in Operators \ {o} : pc[p] \notin Ended}

(* The command line, and connect(). *)
Begin(o) ==
  /\ pc[o] \in Ended
  /\ \E b \in BOOLEAN :
       \/ /\ accept' = [accept EXCEPT ![o] = b]
          /\ keep' = [keep EXCEPT ![o] = FALSE]
          /\ Go(o, "sync")
       \/ /\ keep' = [keep EXCEPT ![o] = b]
          /\ accept' = [accept EXCEPT ![o] = FALSE]
          /\ Go(o, "rm")
  /\ SyncOrCache(o)
  /\ alone' = [p \in Operators |-> p = o /\ Busy(o) = {}]
  /\ id' = [id EXCEPT ![o] = None]
  /\ seen' = [seen EXCEPT ![o] = None]
  /\ UNCHANGED <<host, backend>>

(* findTarget by address.  Several targets at one address are refused. *)
Matches(o) == {i \in Ids : cache[o][i] # None}

(* Mutant: the address behind an alias never matches. *)
FindByAlias(o) ==
  /\ pc[o] = "sync"
  /\ Go(o, "probe")
  /\ UNCHANGED <<host, backend, cache, id, seen, flags, behind>>

FindForSync(o) ==
  /\ pc[o] = "sync"
  /\ \/ Matches(o) = {} /\ Go(o, "probe") /\ UNCHANGED id
     \/ \E i \in Ids : /\ Matches(o) = {i}
                       /\ id' = [id EXCEPT ![o] = i]
                       /\ Go(o, "probe")
     \/ Cardinality(Matches(o)) > 1 /\ Go(o, "stopped") /\ UNCHANGED id
  /\ UNCHANGED <<host, backend, cache, seen, flags, behind>>

(* newTarget and ResolveGrants ask the backend first; a target that runs the     *)
(* daemon is refused; the host or the backend may not answer.                 *)
Stop(o) ==
  /\ pc[o] \in {"sync", "rm", "probe", "principals"}
  /\ Go(o, "stopped")
  /\ UNCHANGED <<host, backend, cache, id, seen, flags, behind>>

(* Mutant: no comparison of the host key. *)
NeverChanged(o) == FALSE

(* probe and checkHostKey against the pin of the snapshot. *)
KeyChanged(o) == id[o] # None /\ cache[o][id[o]] # key

Probe(o) ==
  /\ pc[o] = "probe"
  /\ IF KeyChanged(o) /\ ~accept[o] THEN Go(o, "stopped")
     ELSE Go(o, IF id[o] = None THEN "create" ELSE "principals")
  /\ seen' = [seen EXCEPT ![o] = key]
  /\ UNCHANGED <<host, backend, cache, id, flags, behind>>

(* CreateTarget with the host key, and the grants that come with it. *)
CreateTarget(o) ==
  /\ pc[o] = "create"
  /\ \/ \E i \in Ids :
          /\ had[i] = {}
          /\ had' = [had EXCEPT ![i] = {seen[o]}]
          /\ pin' = [pin EXCEPT ![i] = seen[o]]
          /\ \/ id' = [id EXCEPT ![o] = i] /\ Go(o, "principals")
             \/ Lost /\ Go(o, "stopped") /\ UNCHANGED id
     \/ Go(o, "stopped") /\ UNCHANGED <<backend, id>>
  /\ UNCHANGED <<host, cache, seen, flags, behind>>

TargetPrincipals(o) ==
  /\ pc[o] = "principals"
  /\ Go(o, IF pin[id[o]] # None THEN "write" ELSE "stopped")
  /\ UNCHANGED <<host, backend, cache, id, seen, flags, behind>>

(* The write script.  ssh refuses a host whose key is not the one the probe      *)
(* saw.  A script that is cut off may have written any part.                   *)
RunScript(o) ==
  /\ pc[o] = "write"
  /\ \/ seen[o] = key /\ trusts' = TRUE /\ Go(o, "report")
     \/ Go(o, "unwritten") /\ UNCHANGED trusts
     \/ "cut" \in Env /\ seen[o] = key /\ trusts' \in BOOLEAN /\ Go(o, "unwritten")
  /\ UNCHANGED <<key, backend, cache, id, seen, flags, behind>>

(* SyncTargetUsers: the key the probe saw becomes the one users pin. *)
ReportTarget(o) ==
  /\ pc[o] = "report"
  /\ \/ /\ pin[id[o]] # None
        /\ pin' = [pin EXCEPT ![id[o]] = seen[o]]
        /\ had' = [had EXCEPT ![id[o]] = @ \cup {seen[o]}]
        /\ Go(o, "refresh") \/ (Lost /\ Go(o, "unreported"))
     \/ Go(o, "unreported") /\ UNCHANGED backend
  /\ UNCHANGED <<host, cache, id, seen, flags, behind>>

-----------------------------------------------------------------------------
(* Mutant: an address that matches no target is not refused. *)
FindNoneForRm(o) ==
  /\ pc[o] = "rm"
  /\ \E i \in Ids \cup {None} : Matches(o) = {i} \ {None} /\ id' = [id EXCEPT ![o] = i]
  /\ Go(o, IF keep[o] THEN "delete" ELSE "clean")
  /\ UNCHANGED <<host, backend, cache, seen, flags, behind>>

(* nk rm.  An unknown or ambiguous address ends it. *)
FindForRm(o) ==
  /\ pc[o] = "rm"
  /\ \/ \E i \in Ids : /\ Matches(o) = {i}
                       /\ id' = [id EXCEPT ![o] = i]
                       /\ Go(o, IF keep[o] THEN "delete" ELSE "clean")
     \/ Cardinality(Matches(o)) # 1 /\ Go(o, "stopped") /\ UNCHANGED id
  /\ UNCHANGED <<host, backend, cache, seen, flags, behind>>

(* Mutant: a remove script that failed only warns. *)
CleanAnyway(o) ==
  /\ pc[o] = "clean"
  /\ trusts' \in {trusts, FALSE}
  /\ Go(o, "delete")
  /\ UNCHANGED <<key, backend, cache, id, seen, flags, behind>>

(* The remove script. *)
CleanHost(o) ==
  /\ pc[o] = "clean"
  /\ \/ trusts' = FALSE /\ Go(o, "delete")
     \/ Go(o, "stopped") /\ UNCHANGED trusts
     \/ "cut" \in Env /\ trusts' \in {trusts, FALSE} /\ Go(o, "stopped")
  /\ UNCHANGED <<key, backend, cache, id, seen, flags, behind>>

DeleteTarget(o) ==
  /\ pc[o] = "delete"
  /\ \/ /\ pin[id[o]] # None
        /\ pin' = [pin EXCEPT ![id[o]] = None]
        /\ Go(o, "refresh") \/ (Lost /\ Go(o, "undeleted"))
     \/ Go(o, "undeleted") /\ UNCHANGED pin
  /\ UNCHANGED <<host, had, cache, id, seen, flags, behind>>

(* The refresh at the end only warns. *)
Refresh(o) ==
  /\ pc[o] = "refresh"
  /\ SyncOrCache(o)
  /\ Go(o, "done")
  /\ UNCHANGED <<host, backend, id, seen, flags>>

-----------------------------------------------------------------------------
(* The server is reinstalled: no file of nk, a new host key. *)
Reinstall ==
  /\ key < LastKey
  /\ key' = key + 1
  /\ trusts' = FALSE
  /\ UNCHANGED <<backend, cache, pc, id, seen, flags, behind>>

Step(o) ==
  \/ Begin(o) \/ FindForSync(o) \/ Stop(o) \/ Probe(o) \/ CreateTarget(o)
  \/ TargetPrincipals(o) \/ RunScript(o) \/ ReportTarget(o)
  \/ FindForRm(o) \/ CleanHost(o) \/ DeleteTarget(o) \/ Refresh(o)

Next == (\E o \in Operators : Step(o)) \/ Reinstall

Spec == Init /\ [][Next]_vars

-----------------------------------------------------------------------------
(* "so a target never disappears from Nokku while its server still trusts the   *)
(* CA", unless --keep-host says so, whatever other operators did before: no      *)
(* other run was under way while this one cleaned and deleted.                  *)
DeletedMeansClean ==
  [][\A o \in Operators :
       DeleteTarget(o) /\ pin' # pin /\ ~keep[o] /\ alone[o] => ~trusts]_vars

(* "every sync would add the server again": however the runs before ended, a sync  *)
(* that starts from the backend's answer and is alone never adds a server twice.    *)
NeverAddedTwice ==
  [][\A o \in Operators :
       pc[o] = "create" /\ had' # had /\ ~behind[o] /\ alone[o] => \A i \in Ids : pin[i] = None]_vars

(* "Every user pins the host key that the last sync saw. When it changed, the    *)
(* sync stops and writes nothing": Nokku's pin of a target moves on to another   *)
(* key only in a run that was told to accept it.  All that operators at work at     *)
(* once, or an old snapshot, can do is to bring back a key Nokku had of the target. *)
PinNeedsConsent ==
  [][\A i \in Ids :
       pin[i] # None /\ pin'[i] \notin {None, pin[i]} =>
         \E o \in Operators :
           /\ pc[o] = "report" /\ id[o] = i
           /\ accept[o] \/ ((behind[o] \/ ~alone[o]) /\ pin'[i] \in had[i])]_vars
=============================================================================
