---------------------------- MODULE TargetsProofs ----------------------------
(***************************************************************************)
(* What Targets promises for any operators, ids, host keys and failures.  The     *)
(* argument is Pins: what nk knows of a target's keys are keys Nokku had of it,     *)
(* and a run that nobody overlaps finds the backend and the host as it left them.   *)
(***************************************************************************)
EXTENDS Targets, TLAPS

Writing == {"principals", "write", "report"}

(* Every key there is of a target is one that Nokku had of it. *)
Known ==
  \A i \in Ids : /\ pin[i] \in had[i] \cup {None}
                /\ \A o \in Operators : cache[o][i] \in had[i] \cup {None}

(* A run knows the target it works on. *)
Chosen(o) ==
  /\ id[o] # None => had[id[o]] # {}
  /\ pc[o] \in Writing \cup {"clean", "delete"} => id[o] # None
  /\ pc[o] = "create" => id[o] = None
  /\ pc[o] \in Writing \cup {"create"} => seen[o] # None

(* Without --accept-host-key it reports no key that Nokku never had. *)
Agreed(o) == pc[o] \in Writing /\ ~accept[o] => seen[o] \in had[id[o]]

(* While one that is alone is at work, nobody else is. *)
Solo(o) == alone[o] /\ pc[o] \notin Ended => Busy(o) = {}

(* One that is alone and asked the backend knows its pins; if it found no target  *)
(* there it adds the server, else the key it saw is the one Nokku has.             *)
Answered(o) ==
  alone[o] /\ ~behind[o] =>
    /\ pc[o] \in {"sync", "probe", "create"} =>
         /\ cache[o] = pin
         /\ pc[o] # "sync" /\ id[o] = None => Matches(o) = {}
    /\ pc[o] \in Writing /\ ~accept[o] => pin[id[o]] \in {seen[o], None}

Cleaned(o) == alone[o] /\ pc[o] = "delete" /\ ~keep[o] => ~trusts

Run(o) == Chosen(o) /\ Agreed(o) /\ Solo(o) /\ Answered(o) /\ Cleaned(o)

Pins == TypeOK /\ Known /\ \A o \in Operators : Run(o)

LEMMA TypeInit == Init => TypeOK
<1> SUFFICES ASSUME Init
             PROVE  TypeOK
  OBVIOUS
<1>1. key \in Keys
  BY KeyAssumption DEF Init, Keys
<1>2. "idle" \in PC
  BY DEF PC, Ended
<1>3. accept = [o \in Operators |-> FALSE] /\ keep = accept /\ behind = accept
  BY DEF Init
<1> QED
  BY <1>1, <1>2, <1>3 DEF Init, TypeOK, Targeted

LEMMA SyncTyped ==
  ASSUME TypeOK, NEW o \in Operators, SyncOrCache(o)
  PROVE  /\ cache' \in [Operators -> [Ids -> Keys \cup {None}]]
         /\ behind' \in [Operators -> BOOLEAN]
<1>1. CASE /\ cache' = [cache EXCEPT ![o] = pin]
           /\ behind' = [behind EXCEPT ![o] = FALSE]
  BY <1>1 DEF TypeOK
<1>2. CASE UNCHANGED cache /\ behind' = [behind EXCEPT ![o] = TRUE]
  BY <1>2 DEF TypeOK
<1> QED
  BY <1>1, <1>2 DEF SyncOrCache

(* A step of o leads to a place with a target only with one. *)
LEMMA TargetStep ==
  ASSUME TypeOK, NEW o \in Operators, NEW l, Go(o, l),
         \A p \in Operators \ {o} : id'[p] = id[p],
         l \in Targeted => id'[o] # None
  PROVE  \A p \in Operators : pc'[p] \in Targeted => id'[p] # None
  BY DEF TypeOK, Go

LEMMA TypeStep ==
  ASSUME TypeOK, \A o \in Operators : Chosen(o), [Next]_vars
  PROVE  TypeOK'
<1> USE NoneAssumption DEF TypeOK, host, backend, flags, Targeted
<1>1. ASSUME NEW o \in Operators, Step(o)
      PROVE  TypeOK'
  <2>1. CASE Begin(o)
    <3>1. /\ cache' \in [Operators -> [Ids -> Keys \cup {None}]]
          /\ behind' \in [Operators -> BOOLEAN]
      BY <2>1, SyncTyped DEF Begin
    <3>2. pc' \in [Operators -> PC]
      BY <2>1 DEF Begin, Go, PC
    <3>3. accept' \in [Operators -> BOOLEAN] /\ keep' \in [Operators -> BOOLEAN]
      BY <2>1 DEF Begin
    <3>4. id' \in [Operators -> Ids \cup {None}] /\ seen' \in [Operators -> Keys \cup {None}]
      BY <2>1 DEF Begin
    <3>5. \A p \in Operators : pc'[p] \in Targeted => id'[p] # None
      <4>1. PICK l \in {"sync", "rm"} : Go(o, l)
        BY <2>1 DEF Begin
      <4> QED
        BY <2>1, <4>1, TargetStep DEF Begin
    <3> QED
      BY <2>1, <3>1, <3>2, <3>3, <3>4, <3>5 DEF Begin
  <2>2. CASE FindForSync(o)
    <3>1. pc' \in [Operators -> PC]
      BY <2>2 DEF FindForSync, Go, PC, Ended
    <3>2. id' \in [Operators -> Ids \cup {None}]
      BY <2>2 DEF FindForSync
    <3>3. \A p \in Operators : pc'[p] \in Targeted => id'[p] # None
      <4>1. PICK l \in {"probe", "stopped"} : Go(o, l)
        BY <2>2 DEF FindForSync
      <4> QED
        BY <2>2, <4>1, TargetStep DEF FindForSync
    <3> QED
      BY <2>2, <3>1, <3>2, <3>3 DEF FindForSync
  <2>3. CASE Stop(o)
    BY <2>3 DEF Stop, Go, PC, Ended
  <2>4. CASE Probe(o)
    BY <2>4 DEF Probe, Go, PC, Ended
  <2>5. CASE CreateTarget(o)
    <3>1. PICK l \in {"principals", "stopped"} : Go(o, l)
      BY <2>5 DEF CreateTarget
    <3>2. pc' \in [Operators -> PC]
      BY <3>1 DEF Go, PC, Ended
    <3>3. pin' \in [Ids -> Keys \cup {None}] /\ had' \in [Ids -> SUBSET Keys]
      <4>1. Chosen(o) /\ pc[o] = "create"
        BY <2>5 DEF CreateTarget
      <4>2. seen[o] \in Keys
        BY <4>1 DEF Chosen
      <4>3. ASSUME NEW i \in Ids, had' = [had EXCEPT ![i] = {seen[o]}],
                   pin' = [pin EXCEPT ![i] = seen[o]]
            PROVE  pin' \in [Ids -> Keys \cup {None}] /\ had' \in [Ids -> SUBSET Keys]
        BY <4>2, <4>3
      <4>4. CASE UNCHANGED backend
        BY <4>4
      <4> QED
        BY <2>5, <4>3, <4>4 DEF CreateTarget
    <3>4. id' \in [Operators -> Ids \cup {None}]
      BY <2>5 DEF CreateTarget
    <3>5. \A p \in Operators : pc'[p] \in Targeted => id'[p] # None
      <4>1. CASE \E i \in Ids : id' = [id EXCEPT ![o] = i] /\ Go(o, "principals")
        BY <4>1, TargetStep
      <4>2. CASE Go(o, "stopped") /\ UNCHANGED id
        BY <4>2, TargetStep
      <4> QED
        BY <2>5, <4>1, <4>2 DEF CreateTarget
    <3> QED
      BY <2>5, <3>2, <3>3, <3>4, <3>5 DEF CreateTarget
  <2>6. CASE TargetPrincipals(o)
    BY <2>6 DEF TargetPrincipals, Go, PC, Ended
  <2>7. CASE RunScript(o)
    BY <2>7 DEF RunScript, Go, PC, Ended
  <2>8. CASE ReportTarget(o)
    <3>1. Chosen(o) /\ pc[o] = "report"
      BY <2>8 DEF ReportTarget
    <3>2. seen[o] \in Keys /\ id[o] \in Ids
      BY <3>1 DEF Chosen, Writing
    <3>3. pin' \in [Ids -> Keys \cup {None}] /\ had' \in [Ids -> SUBSET Keys]
      <4>1. CASE UNCHANGED backend
        BY <4>1
      <4>2. CASE /\ pin' = [pin EXCEPT ![id[o]] = seen[o]]
                 /\ had' = [had EXCEPT ![id[o]] = @ \cup {seen[o]}]
        <5>1. had[id[o]] \cup {seen[o]} \in SUBSET Keys
          BY <3>2
        <5> QED
          BY <4>2, <5>1, <3>2
      <4> QED
        BY <2>8, <4>1, <4>2 DEF ReportTarget
    <3>4. PICK l \in {"refresh", "unreported"} : Go(o, l)
      BY <2>8 DEF ReportTarget
    <3>5. pc' \in [Operators -> PC]
      BY <3>4 DEF Go, PC, Ended
    <3>6. \A p \in Operators : pc'[p] \in Targeted => id'[p] # None
      BY <2>8, <3>4, TargetStep DEF ReportTarget
    <3> QED
      BY <2>8, <3>3, <3>5, <3>6 DEF ReportTarget
  <2>9. CASE FindForRm(o)
    <3>1. pc' \in [Operators -> PC]
      BY <2>9 DEF FindForRm, Go, PC, Ended
    <3>2. id' \in [Operators -> Ids \cup {None}]
      BY <2>9 DEF FindForRm
    <3>3. \A p \in Operators : pc'[p] \in Targeted => id'[p] # None
      <4>1. CASE \E i \in Ids : /\ id' = [id EXCEPT ![o] = i]
                               /\ Go(o, IF keep[o] THEN "delete" ELSE "clean")
        BY <4>1, TargetStep
      <4>2. CASE Go(o, "stopped") /\ UNCHANGED id
        BY <4>2, TargetStep
      <4> QED
        BY <2>9, <4>1, <4>2 DEF FindForRm
    <3> QED
      BY <2>9, <3>1, <3>2, <3>3 DEF FindForRm
  <2>10. CASE CleanHost(o)
    BY <2>10 DEF CleanHost, Go, PC, Ended
  <2>11. CASE DeleteTarget(o)
    BY <2>11 DEF DeleteTarget, Go, PC, Ended
  <2>12. CASE Refresh(o)
    <3>1. /\ cache' \in [Operators -> [Ids -> Keys \cup {None}]]
          /\ behind' \in [Operators -> BOOLEAN]
      BY <2>12, SyncTyped DEF Refresh
    <3>2. pc' \in [Operators -> PC]
      BY <2>12 DEF Refresh, Go, PC, Ended
    <3>3. \A p \in Operators : pc'[p] \in Targeted => id'[p] # None
      BY <2>12, TargetStep DEF Refresh
    <3> QED
      BY <2>12, <3>1, <3>2, <3>3 DEF Refresh
  <2> QED
    BY <1>1, <2>1, <2>2, <2>3, <2>4, <2>5, <2>6, <2>7,
       <2>8, <2>9, <2>10, <2>11, <2>12 DEF Step
<1>2. CASE Reinstall
  <2>1. key' \in Keys
    BY <1>2, KeyAssumption DEF Reinstall, Keys
  <2> QED
    BY <1>2, <2>1 DEF Reinstall
<1>3. CASE UNCHANGED vars
  BY <1>3 DEF vars
<1> QED
  BY <1>1, <1>2, <1>3 DEF Next

(* What a run does to the others: nothing they have in memory changes, Nokku forgets  *)
(* no key, and one that is alone and at work sees no step of another but the start    *)
(* of a run, after which it is alone no more.                                   *)
LEMMA OthersStep ==
  ASSUME NEW p \in Operators, NEW o \in Operators \ {p}, TypeOK, Solo(o), Step(p)
  PROVE  /\ cache'[o] = cache[o] /\ pc'[o] = pc[o] /\ id'[o] = id[o] /\ seen'[o] = seen[o]
         /\ accept'[o] = accept[o] /\ keep'[o] = keep[o] /\ behind'[o] = behind[o]
         /\ \A i \in Ids : had[i] \subseteq had'[i]
         /\ ~alone'[o] \/ (alone'[o] = alone[o] /\ pc[o] \in Ended)
<1> USE DEF TypeOK, host, backend, flags
<1>1. CASE Begin(p)
  BY <1>1 DEF Begin, Go, SyncOrCache, Solo, Busy, Ended
<1>2. CASE FindForSync(p)
  BY <1>2 DEF FindForSync, Go, Solo, Busy, Ended
<1>3. CASE Stop(p)
  BY <1>3 DEF Stop, Go, Solo, Busy, Ended
<1>4. CASE Probe(p)
  BY <1>4 DEF Probe, Go, Solo, Busy, Ended
<1>5. CASE CreateTarget(p)
  BY <1>5 DEF CreateTarget, Go, Solo, Busy, Ended
<1>6. CASE TargetPrincipals(p)
  BY <1>6 DEF TargetPrincipals, Go, Solo, Busy, Ended
<1>7. CASE RunScript(p)
  BY <1>7 DEF RunScript, Go, Solo, Busy, Ended
<1>8. CASE ReportTarget(p)
  <2>1. \A i \in Ids : had[i] \subseteq had'[i]
    BY <1>8 DEF ReportTarget
  <2> QED
    BY <1>8, <2>1 DEF ReportTarget, Go, Solo, Busy, Ended
<1>9. CASE FindForRm(p)
  BY <1>9 DEF FindForRm, Go, Solo, Busy, Ended
<1>10. CASE CleanHost(p)
  BY <1>10 DEF CleanHost, Go, Solo, Busy, Ended
<1>11. CASE DeleteTarget(p)
  BY <1>11 DEF DeleteTarget, Go, Solo, Busy, Ended
<1>12. CASE Refresh(p)
  BY <1>12 DEF Refresh, Go, SyncOrCache, Solo, Busy, Ended
<1> QED
  BY <1>1, <1>2, <1>3, <1>4, <1>5, <1>6, <1>7, <1>8, <1>9, <1>10, <1>11, <1>12 DEF Step

LEMMA OtherRun ==
  ASSUME NEW p \in Operators, NEW o \in Operators \ {p}, Pins, TypeOK', Step(p)
  PROVE  Run(o)'
<1>1. Run(o) /\ TypeOK
  BY DEF Pins
<1>2. /\ cache'[o] = cache[o] /\ pc'[o] = pc[o] /\ id'[o] = id[o] /\ seen'[o] = seen[o]
      /\ accept'[o] = accept[o] /\ keep'[o] = keep[o] /\ behind'[o] = behind[o]
      /\ \A i \in Ids : had[i] \subseteq had'[i]
      /\ ~alone'[o] \/ (alone'[o] = alone[o] /\ pc[o] \in Ended)
  BY <1>1, OthersStep DEF Run
<1>3. Chosen(o)' /\ Agreed(o)'
  BY <1>1, <1>2 DEF Run, Chosen, Agreed, Writing, TypeOK
<1>4. Solo(o)' /\ Answered(o)' /\ Cleaned(o)'
  BY <1>1, <1>2 DEF Run, Solo, Answered, Cleaned, Writing, Ended
<1> QED
  BY <1>3, <1>4 DEF Run

LEMMA OwnChosen ==
  ASSUME NEW o \in Operators, TypeOK, TypeOK', Known, Run(o), Step(o)
  PROVE  Chosen(o)'
<1> USE NoneAssumption DEF Run, TypeOK, host, backend, flags
<1>1. CASE Begin(o)
  BY <1>1 DEF Begin, Go, SyncOrCache, Chosen, Agreed, Known, Writing, Matches, Ended, Keys
<1>2. CASE FindForSync(o)
  BY <1>2 DEF FindForSync, Go, Chosen, Agreed, Known, Writing, Matches, Ended, Keys
<1>3. CASE Stop(o)
  BY <1>3 DEF Stop, Go, Chosen, Agreed, Known, Writing, Matches, Ended, Keys
<1>4. CASE Probe(o)
  BY <1>4 DEF Probe, Go, Chosen, Agreed, Known, Writing, Matches, Ended, Keys
<1>5. CASE CreateTarget(o)
  <2>1. seen' = seen /\ id[o] = None /\ seen[o] # None
    BY <1>5 DEF CreateTarget, Chosen
  <2>2. CASE Go(o, "stopped") /\ UNCHANGED <<backend, id>>
    BY <2>1, <2>2 DEF Go, Chosen, Writing
  <2>3. ASSUME NEW i \in Ids, had' = [had EXCEPT ![i] = {seen[o]}],
               \/ id' = [id EXCEPT ![o] = i] /\ Go(o, "principals")
               \/ Go(o, "stopped") /\ UNCHANGED id
        PROVE  Chosen(o)'
    <3>1. had'[i] # {}
      BY <2>3
    <3>2. CASE id' = [id EXCEPT ![o] = i] /\ Go(o, "principals")
      BY <2>1, <3>1, <3>2 DEF Go, Chosen, Writing
    <3>3. CASE Go(o, "stopped") /\ UNCHANGED id
      BY <2>1, <3>3 DEF Go, Chosen, Writing
    <3> QED
      BY <2>3, <3>2, <3>3
  <2> QED
    BY <1>5, <2>2, <2>3 DEF CreateTarget
<1>6. CASE TargetPrincipals(o)
  BY <1>6 DEF TargetPrincipals, Go, Chosen, Agreed, Known, Writing, Matches, Ended, Keys
<1>7. CASE RunScript(o)
  BY <1>7 DEF RunScript, Go, Chosen, Agreed, Known, Writing, Matches, Ended, Keys
<1>8. CASE ReportTarget(o)
  BY <1>8 DEF ReportTarget, Go, Chosen, Agreed, Known, Writing, Matches, Ended, Keys
<1>9. CASE FindForRm(o)
  BY <1>9 DEF FindForRm, Go, Chosen, Agreed, Known, Writing, Matches, Ended, Keys
<1>10. CASE CleanHost(o)
  BY <1>10 DEF CleanHost, Go, Chosen, Agreed, Known, Writing, Matches, Ended, Keys
<1>11. CASE DeleteTarget(o)
  BY <1>11 DEF DeleteTarget, Go, Chosen, Agreed, Known, Writing, Matches, Ended, Keys
<1>12. CASE Refresh(o)
  BY <1>12 DEF Refresh, Go, SyncOrCache, Chosen, Agreed, Known, Writing, Matches, Ended, Keys
<1> QED
  BY <1>1, <1>2, <1>3, <1>4, <1>5, <1>6, <1>7, <1>8, <1>9, <1>10, <1>11, <1>12 DEF Step

LEMMA OwnAgreed ==
  ASSUME NEW o \in Operators, TypeOK, TypeOK', Known, Run(o), Step(o)
  PROVE  Agreed(o)'
<1> USE NoneAssumption DEF Run, TypeOK, host, backend, flags
<1>1. CASE Begin(o)
  BY <1>1 DEF Begin, Go, SyncOrCache, Agreed, Chosen, Known, KeyChanged, Writing, Ended
<1>2. CASE FindForSync(o)
  BY <1>2 DEF FindForSync, Go, Agreed, Chosen, Known, KeyChanged, Writing, Ended
<1>3. CASE Stop(o)
  BY <1>3 DEF Stop, Go, Agreed, Chosen, Known, KeyChanged, Writing, Ended
<1>4. CASE Probe(o)
  BY <1>4 DEF Probe, Go, Agreed, Chosen, Known, KeyChanged, Writing, Ended
<1>5. CASE CreateTarget(o)
  BY <1>5 DEF CreateTarget, Go, Agreed, Chosen, Known, KeyChanged, Writing, Ended
<1>6. CASE TargetPrincipals(o)
  BY <1>6 DEF TargetPrincipals, Go, Agreed, Chosen, Known, KeyChanged, Writing, Ended
<1>7. CASE RunScript(o)
  BY <1>7 DEF RunScript, Go, Agreed, Chosen, Known, KeyChanged, Writing, Ended
<1>8. CASE ReportTarget(o)
  BY <1>8 DEF ReportTarget, Go, Agreed, Chosen, Known, KeyChanged, Writing, Ended
<1>9. CASE FindForRm(o)
  BY <1>9 DEF FindForRm, Go, Agreed, Chosen, Known, KeyChanged, Writing, Ended
<1>10. CASE CleanHost(o)
  BY <1>10 DEF CleanHost, Go, Agreed, Chosen, Known, KeyChanged, Writing, Ended
<1>11. CASE DeleteTarget(o)
  BY <1>11 DEF DeleteTarget, Go, Agreed, Chosen, Known, KeyChanged, Writing, Ended
<1>12. CASE Refresh(o)
  BY <1>12 DEF Refresh, Go, SyncOrCache, Agreed, Chosen, Known, KeyChanged, Writing, Ended
<1> QED
  BY <1>1, <1>2, <1>3, <1>4, <1>5, <1>6, <1>7, <1>8, <1>9, <1>10, <1>11, <1>12 DEF Step

LEMMA OwnSolo ==
  ASSUME NEW o \in Operators, TypeOK, TypeOK', Known, Run(o), Step(o)
  PROVE  Solo(o)'
<1> USE NoneAssumption DEF Run, TypeOK, host, backend, flags
<1>1. CASE Begin(o)
  BY <1>1 DEF Begin, Go, SyncOrCache, Solo, Busy, Ended
<1>2. CASE FindForSync(o)
  BY <1>2 DEF FindForSync, Go, Solo, Busy, Ended
<1>3. CASE Stop(o)
  BY <1>3 DEF Stop, Go, Solo, Busy, Ended
<1>4. CASE Probe(o)
  BY <1>4 DEF Probe, Go, Solo, Busy, Ended
<1>5. CASE CreateTarget(o)
  BY <1>5 DEF CreateTarget, Go, Solo, Busy, Ended
<1>6. CASE TargetPrincipals(o)
  BY <1>6 DEF TargetPrincipals, Go, Solo, Busy, Ended
<1>7. CASE RunScript(o)
  BY <1>7 DEF RunScript, Go, Solo, Busy, Ended
<1>8. CASE ReportTarget(o)
  BY <1>8 DEF ReportTarget, Go, Solo, Busy, Ended
<1>9. CASE FindForRm(o)
  BY <1>9 DEF FindForRm, Go, Solo, Busy, Ended
<1>10. CASE CleanHost(o)
  BY <1>10 DEF CleanHost, Go, Solo, Busy, Ended
<1>11. CASE DeleteTarget(o)
  BY <1>11 DEF DeleteTarget, Go, Solo, Busy, Ended
<1>12. CASE Refresh(o)
  BY <1>12 DEF Refresh, Go, SyncOrCache, Solo, Busy, Ended
<1> QED
  BY <1>1, <1>2, <1>3, <1>4, <1>5, <1>6, <1>7, <1>8, <1>9, <1>10, <1>11, <1>12 DEF Step

LEMMA OwnAnswered ==
  ASSUME NEW o \in Operators, TypeOK, TypeOK', Known, Run(o), Step(o)
  PROVE  Answered(o)'
<1> USE NoneAssumption DEF Run, TypeOK, host, backend, flags
<1>1. CASE Begin(o)
  BY <1>1 DEF Begin, Go, SyncOrCache, Answered, Chosen, KeyChanged, Matches, Writing, Ended
<1>2. CASE FindForSync(o)
  BY <1>2 DEF FindForSync, Go, Answered, Chosen, KeyChanged, Matches, Writing, Ended
<1>3. CASE Stop(o)
  <2>1. pc'[o] \notin Writing \cup {"sync", "probe", "create"}
    BY <1>3 DEF Stop, Go, Writing
  <2> QED
    BY <2>1 DEF Answered
<1>4. CASE Probe(o)
  BY <1>4 DEF Probe, Go, Answered, Chosen, KeyChanged, Matches, Writing, Ended
<1>5. CASE CreateTarget(o)
  BY <1>5 DEF CreateTarget, Go, Answered, Chosen, KeyChanged, Matches, Writing, Ended
<1>6. CASE TargetPrincipals(o)
  BY <1>6 DEF TargetPrincipals, Go, Answered, Chosen, KeyChanged, Matches, Writing, Ended
<1>7. CASE RunScript(o)
  BY <1>7 DEF RunScript, Go, Answered, Chosen, KeyChanged, Matches, Writing, Ended
<1>8. CASE ReportTarget(o)
  BY <1>8 DEF ReportTarget, Go, Answered, Chosen, KeyChanged, Matches, Writing, Ended
<1>9. CASE FindForRm(o)
  <2>1. pc'[o] \notin Writing \cup {"sync", "probe", "create"}
    BY <1>9 DEF FindForRm, Go, Writing
  <2> QED
    BY <2>1 DEF Answered
<1>10. CASE CleanHost(o)
  <2>1. pc'[o] \notin Writing \cup {"sync", "probe", "create"}
    BY <1>10 DEF CleanHost, Go, Writing
  <2> QED
    BY <2>1 DEF Answered
<1>11. CASE DeleteTarget(o)
  <2>1. pc'[o] \notin Writing \cup {"sync", "probe", "create"}
    BY <1>11 DEF DeleteTarget, Go, Writing
  <2> QED
    BY <2>1 DEF Answered
<1>12. CASE Refresh(o)
  BY <1>12 DEF Refresh, Go, SyncOrCache, Answered, Chosen, KeyChanged, Matches, Writing, Ended
<1> QED
  BY <1>1, <1>2, <1>3, <1>4, <1>5, <1>6, <1>7, <1>8, <1>9, <1>10, <1>11, <1>12 DEF Step

LEMMA OwnCleaned ==
  ASSUME NEW o \in Operators, TypeOK, TypeOK', Known, Run(o), Step(o)
  PROVE  Cleaned(o)'
<1> USE NoneAssumption DEF Run, TypeOK, host, backend, flags
<1>1. CASE Begin(o)
  BY <1>1 DEF Begin, Go, SyncOrCache, Cleaned, Writing, Ended
<1>2. CASE FindForSync(o)
  BY <1>2 DEF FindForSync, Go, Cleaned, Writing, Ended
<1>3. CASE Stop(o)
  BY <1>3 DEF Stop, Go, Cleaned, Writing, Ended
<1>4. CASE Probe(o)
  BY <1>4 DEF Probe, Go, Cleaned, Writing, Ended
<1>5. CASE CreateTarget(o)
  BY <1>5 DEF CreateTarget, Go, Cleaned, Writing, Ended
<1>6. CASE TargetPrincipals(o)
  BY <1>6 DEF TargetPrincipals, Go, Cleaned, Writing, Ended
<1>7. CASE RunScript(o)
  BY <1>7 DEF RunScript, Go, Cleaned, Writing, Ended
<1>8. CASE ReportTarget(o)
  BY <1>8 DEF ReportTarget, Go, Cleaned, Writing, Ended
<1>9. CASE FindForRm(o)
  BY <1>9 DEF FindForRm, Go, Cleaned, Writing, Ended
<1>10. CASE CleanHost(o)
  BY <1>10 DEF CleanHost, Go, Cleaned, Writing, Ended
<1>11. CASE DeleteTarget(o)
  BY <1>11 DEF DeleteTarget, Go, Cleaned, Writing, Ended
<1>12. CASE Refresh(o)
  BY <1>12 DEF Refresh, Go, SyncOrCache, Cleaned, Writing, Ended
<1> QED
  BY <1>1, <1>2, <1>3, <1>4, <1>5, <1>6, <1>7, <1>8, <1>9, <1>10, <1>11, <1>12 DEF Step

LEMMA KnownStep ==
  ASSUME NEW o \in Operators, TypeOK, TypeOK', Known, Run(o), Step(o)
  PROVE  Known'
<1> USE NoneAssumption DEF Run, TypeOK, host, backend, flags
<1>1. CASE Begin(o)
  BY <1>1 DEF Begin, Go, SyncOrCache, Known, Chosen, Writing
<1>2. CASE FindForSync(o)
  BY <1>2 DEF FindForSync, Go, Known, Chosen, Writing
<1>3. CASE Stop(o)
  BY <1>3 DEF Stop, Go, Known, Chosen, Writing
<1>4. CASE Probe(o)
  BY <1>4 DEF Probe, Go, Known, Chosen, Writing
<1>5. CASE CreateTarget(o)
  <2>1. CASE UNCHANGED backend
    BY <1>5, <2>1 DEF CreateTarget, Known
  <2>2. ASSUME NEW i \in Ids, had[i] = {}, had' = [had EXCEPT ![i] = {seen[o]}],
               pin' = [pin EXCEPT ![i] = seen[o]]
        PROVE  Known'
    <3>1. cache' = cache
      BY <1>5 DEF CreateTarget
    <3>2. pin'[i] \in had'[i] /\ \A p \in Operators : cache'[p][i] \in had'[i] \cup {None}
      BY <2>2, <3>1 DEF Known
    <3>3. \A j \in Ids \ {i} : pin'[j] = pin[j] /\ had'[j] = had[j]
      BY <2>2
    <3> QED
      BY <3>1, <3>2, <3>3 DEF Known
  <2> QED
    BY <1>5, <2>1, <2>2 DEF CreateTarget
<1>6. CASE TargetPrincipals(o)
  BY <1>6 DEF TargetPrincipals, Go, Known, Chosen, Writing
<1>7. CASE RunScript(o)
  BY <1>7 DEF RunScript, Go, Known, Chosen, Writing
<1>8. CASE ReportTarget(o)
  <2>1. cache' = cache
    BY <1>8 DEF ReportTarget
  <2>2. CASE UNCHANGED backend
    BY <2>1, <2>2 DEF Known
  <2>3. CASE /\ pin' = [pin EXCEPT ![id[o]] = seen[o]]
             /\ had' = [had EXCEPT ![id[o]] = @ \cup {seen[o]}]
    <3>1. \A i \in Ids : had[i] \subseteq had'[i]
      BY <2>3
    <3>2. \A i \in Ids : pin'[i] = pin[i] \/ pin'[i] \in had'[i]
      BY <2>3
    <3> QED
      BY <2>1, <3>1, <3>2 DEF Known
  <2> QED
    BY <1>8, <2>2, <2>3 DEF ReportTarget
<1>9. CASE FindForRm(o)
  BY <1>9 DEF FindForRm, Go, Known, Chosen, Writing
<1>10. CASE CleanHost(o)
  BY <1>10 DEF CleanHost, Go, Known, Chosen, Writing
<1>11. CASE DeleteTarget(o)
  BY <1>11 DEF DeleteTarget, Go, Known, Chosen, Writing
<1>12. CASE Refresh(o)
  BY <1>12 DEF Refresh, Go, SyncOrCache, Known, Chosen, Writing
<1> QED
  BY <1>1, <1>2, <1>3, <1>4, <1>5, <1>6, <1>7, <1>8, <1>9, <1>10, <1>11, <1>12 DEF Step

LEMMA PinsInit == Init => Pins
BY TypeInit, NoneAssumption
   DEF Init, Pins, Known, Run, Chosen, Agreed, Solo, Answered, Cleaned, Writing, Ended, TypeOK

LEMMA PinsStep == Pins /\ [Next]_vars => Pins'
<1> SUFFICES ASSUME Pins, [Next]_vars
             PROVE  Pins'
  OBVIOUS
<1>1. TypeOK /\ Known /\ (\A o \in Operators : Run(o)) /\ TypeOK'
  BY TypeStep DEF Pins, Run
<1>2. ASSUME NEW p \in Operators, Step(p)
      PROVE  Pins'
  <2>1. Known'
    BY <1>1, <1>2, KnownStep
  <2>2. Run(p)'
    BY <1>1, <1>2, OwnChosen, OwnAgreed, OwnSolo, OwnAnswered, OwnCleaned DEF Run
  <2>3. \A o \in Operators \ {p} : Run(o)'
    BY <1>1, <1>2, OtherRun
  <2> QED
    BY <1>1, <2>1, <2>2, <2>3 DEF Pins
<1>3. CASE Reinstall
  BY <1>1, <1>3 DEF Reinstall, Pins, Known, Run, Chosen, Agreed, Solo, Busy, Answered, Matches,
                    Cleaned, backend, flags
<1>4. CASE UNCHANGED vars
  BY <1>1, <1>4 DEF vars, Pins, Known, Run, Chosen, Agreed, Solo, Busy, Answered, Matches, Cleaned
<1> QED
  BY <1>2, <1>3, <1>4 DEF Next

LEMMA PinsAlways == Spec => []Pins
BY PinsInit, PinsStep, PTL DEF Spec

(* TypeOK, for any number of operators: every variable keeps its type through      *)
(* every sequence of syncs, removals, failures and reinstalls, and a run works on a   *)
(* target only where its search or CreateTarget gave it one.                      *)
THEOREM Typing == Spec => []TypeOK
<1>1. Pins => TypeOK
  BY DEF Pins
<1> QED
  BY <1>1, PinsAlways, PTL

(* DeletedMeansClean: nk rm deletes a target only after the remove script has run to   *)
(* its end on the server, or with --keep-host, or another operator was at work.    *)
THEOREM DeletionCleans == Spec => DeletedMeansClean
<1>1. Pins /\ [Next]_vars =>
        [\A o \in Operators :
           DeleteTarget(o) /\ pin' # pin /\ ~keep[o] /\ alone[o] => ~trusts]_vars
  BY DEF Pins, Run, Cleaned, DeleteTarget
<1> QED
  BY <1>1, PinsAlways, PTL DEF Spec, DeletedMeansClean

(* NeverAddedTwice: a sync that starts from the answer of the backend, and is alone,  *)
(* adds a server only where the backend has no target of it.                     *)
THEOREM AddedOnce == Spec => NeverAddedTwice
<1>1. Pins /\ [Next]_vars =>
        [\A o \in Operators :
           pc[o] = "create" /\ had' # had /\ ~behind[o] /\ alone[o] =>
             \A i \in Ids : pin[i] = None]_vars
  BY DEF Pins, Run, Answered, Chosen, Matches
<1> QED
  BY <1>1, PinsAlways, PTL DEF Spec, NeverAddedTwice

(* PinNeedsConsent: the host key that Nokku has of a target, which every user pins,    *)
(* becomes one it never was only in a sync with --accept-host-key, whoever else is     *)
(* at work; a key it was before comes back only if runs overlap or a sync failed.      *)
THEOREM PinsHold == Spec => PinNeedsConsent
<1> DEFINE Consent ==
      \A i \in Ids :
        pin[i] # None /\ pin'[i] \notin {None, pin[i]} =>
          \E o \in Operators :
            /\ pc[o] = "report" /\ id[o] = i
            /\ accept[o] \/ ((behind[o] \/ ~alone[o]) /\ pin'[i] \in had[i])
<1>1. Pins /\ [Next]_vars => [Consent]_vars
  <2> SUFFICES ASSUME Pins, Next, NEW i \in Ids,
                      pin[i] # None, pin'[i] # None, pin'[i] # pin[i]
               PROVE  \E o \in Operators :
                        /\ pc[o] = "report" /\ id[o] = i
                        /\ accept[o] \/ ((behind[o] \/ ~alone[o]) /\ pin'[i] \in had[i])
    OBVIOUS
  <2>1. CASE Reinstall
    BY <2>1 DEF Reinstall, backend
  <2>2. ASSUME NEW o \in Operators, Step(o)
        PROVE  /\ pc[o] = "report" /\ id[o] = i
               /\ accept[o] \/ ((behind[o] \/ ~alone[o]) /\ pin'[i] \in had[i])
    <3> USE DEF Pins, TypeOK, backend
    <3>1. CASE CreateTarget(o)
      BY <3>1 DEF CreateTarget, Known
    <3>2. CASE DeleteTarget(o)
      BY <3>2 DEF DeleteTarget
    <3>3. CASE ReportTarget(o)
      BY <3>3 DEF ReportTarget, Run, Answered, Agreed, Writing
    <3>4. pin' = pin \/ CreateTarget(o) \/ DeleteTarget(o) \/ ReportTarget(o)
      BY <2>2 DEF Step, Begin, FindForSync, Stop, Probe, TargetPrincipals, RunScript,
                  FindForRm, CleanHost, Refresh
    <3> QED
      BY <3>1, <3>2, <3>3, <3>4
  <2> QED
    BY <2>1, <2>2 DEF Next
<1> QED
  BY <1>1, PinsAlways, PTL DEF Spec, PinNeedsConsent
=============================================================================
