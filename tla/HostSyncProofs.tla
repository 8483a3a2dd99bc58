--------------------------- MODULE HostSyncProofs ---------------------------
(***************************************************************************)
(* What HostSync promises for any plan, any number of files and any sshd, when   *)
(* one run at a time works on a host.  Two inductive invariants: Forward, which    *)
(* holds however often a run was cut off, and Exact, which says for every command  *)
(* of a script what each file is, on a host where no run is cut off.  The steps of    *)
(* Forward are those of one run, so they also say what a run that is alone makes of    *)
(* a host on which others overlapped before.                                    *)
(***************************************************************************)
EXTENDS MCHostSync, TLAPS

OneRun    == \E r : Runs = {r}
NeverBoth == \A t \in Troubles : ~({"abort", "reject"} \subseteq t)

Copying == {"compare", "backup", "copy", "stage", "write", "rename"}
Loops   == Copying \cup {"restore", "undo", "commit", "stale"}

(* What happens on the host while only run r is at work. *)
Act(r) == Sync(r) \/ Removal(r) \/ Abort(r) \/ EditHost

(* The files that the loop of a run has dealt with. *)
Behind(r) == {Order[j] : j \in 1..(i[r] - 1)}

(* A loop starts with the first file. *)
AtStart == \A r \in Runs : pc[r] \notin Loops => i[r] = 1

-----------------------------------------------------------------------------
Known(r) ==
  /\ pc[r] \in SyncPC =>
       /\ plan[r] \in Plans
       /\ \A f \in Principals : <<"live", f>> \in stale[r] => plan[r][f] = None
  /\ pc[r] \in Copying \ {"compare"} => Wanted(r) # None
  /\ pc[r] = "rename" => tmp[File(r)] = Wanted(r)

(* The files of accounts that stay. *)
Brought(r) ==
  LET Ready(f) == plan[r][f] # None => live[f] = plan[r][f]
  IN  /\ pc[r] \in Copying => \A f \in Behind(r) : Ready(f)
      /\ pc[r] \in {"test", "commit", "stale"} => \A f \in Files : Ready(f)

(* The files of accounts that are gone, and the backups of any run. *)
Swept(r) ==
  /\ pc[r] \in {"check", "test", "commit"} \cup Copying =>
       \A f \in Principals : plan[r][f] = None /\ live[f] # None => <<"live", f>> \in stale[r]
  /\ pc[r] \in {"check", "test"} \cup Copying =>
       \A f \in Files : bak[f] # None => plan[r][f] # None \/ <<"bak", f>> \in stale[r]
  /\ pc[r] = "commit" =>
       \A f \in Files : bak[f] # None =>
         (plan[r][f] # None /\ f \notin Behind(r)) \/ <<"bak", f>> \in stale[r]
  /\ pc[r] = "stale" =>
       /\ \A f \in Principals : plan[r][f] = None /\ live[f] # None =>
            <<"live", f>> \in stale[r] /\ f \notin Behind(r)
       /\ \A f \in Files : bak[f] # None => <<"bak", f>> \in stale[r] /\ f \notin Behind(r)

(* The staging files of earlier runs in the principals directory. *)
Staged(r) ==
  /\ pc[r] \in {"check", "compare", "backup", "copy", "stage", "test", "commit"} =>
       \A f \in Principals : tmp[f] # None => <<"tmp", f>> \in stale[r]
  /\ pc[r] \in {"write", "rename"} =>
       \A f \in Principals : tmp[f] # None => f = File(r) \/ <<"tmp", f>> \in stale[r]
  /\ pc[r] = "stale" =>
       \A f \in Principals : tmp[f] # None => <<"tmp", f>> \in stale[r] /\ f \notin Behind(r)

(* A removal leaves none of its files behind the command it is at. *)
Cleaning(r) ==
  /\ pc[r] \in {"retest", "put back", "drop", "ca", "dir"} => live[DropIn] = None
  /\ pc[r] = "dir" => live[CA] = None

ForwardAt(r) == TypeOK /\ AtStart /\ Known(r) /\ Brought(r) /\ Swept(r) /\ Staged(r)

Forward == TypeOK /\ AtStart /\ \A r \in Runs : ForwardAt(r) /\ Cleaning(r)

-----------------------------------------------------------------------------
(* A sshd that nobody edits accepts whatever nk writes, so nothing rolls back. *)
Easy ==
  "reject" \notin trouble =>
    rejected = {} /\ \A r \in Runs : pc[r] \notin {"restore", "undo", "put back"}

-----------------------------------------------------------------------------
Changed(r)   == {f \in Files : plan[r][f] \notin {None, before[r][f]}}
New(r)       == {f \in Changed(r) : before[r][f] = None}
Result(r, f) == IF plan[r][f] = None THEN before[r][f] ELSE plan[r][f]
Saved(r, f)  == IF f \in Changed(r) THEN before[r][f] ELSE None

(* The file that the loop is writing. *)
InHand(r) ==
  LET f == File(r) IN
    /\ f \in Changed(r) \ Behind(r)
    /\ pc[r] \in {"backup", "copy"} => before[r][f] # None
    /\ pc[r] = "backup" => bak[f] = None
    /\ pc[r] \in {"stage", "write", "rename"} => bak[f] = before[r][f]
    /\ pc[r] \in {"backup", "copy", "stage"} => tmp[f] = None
    /\ f \in new[r] <=> pc[r] \notin {"backup", "copy"} /\ before[r][f] = None

(* The files behind the loop are as the plan has them, the others as they were. *)
HalfWay(r) ==
  /\ \A f \in Files :
       /\ live[f] = IF f \in Behind(r) THEN Result(r, f) ELSE before[r][f]
       /\ pc[r] = "compare" \/ f # File(r) =>
            /\ bak[f] = IF f \in Behind(r) THEN Saved(r, f) ELSE None
            /\ tmp[f] = None
            /\ f \in new[r] <=> f \in New(r) \cap Behind(r)
  /\ pc[r] # "compare" => InHand(r)

RolledBack(r) ==
  /\ pc[r] = "restore" => new[r] = New(r) /\ \A f \in Files :
       /\ live[f] = IF f \in Behind(r) \ New(r) THEN before[r][f] ELSE Result(r, f)
       /\ bak[f] = IF f \in Behind(r) THEN None ELSE Saved(r, f)
  /\ pc[r] = "undo" => new[r] = New(r) /\ \A f \in Files :
       /\ live[f] = IF f \in New(r) \ Behind(r) THEN Result(r, f) ELSE before[r][f]
       /\ bak[f] = None
  /\ pc[r] = "rolled back" => \A f \in Files : live[f] = before[r][f]

Synchronised(r) ==
  /\ pc[r] \in Copying => HalfWay(r)
  /\ pc[r] = "test" => new[r] = New(r) /\ \A f \in Files :
       live[f] = Result(r, f) /\ bak[f] = Saved(r, f)
  /\ pc[r] = "commit" => \A f \in Files :
       live[f] = Result(r, f) /\ bak[f] = IF f \in Behind(r) THEN None ELSE Saved(r, f)
  /\ pc[r] = "stale" => \A f \in Files : bak[f] = None
  /\ pc[r] \in SyncPC => \A f \in Principals :
       <<"bak", f>> \notin stale[r] /\ <<"tmp", f>> \notin stale[r]

Cleared(r) ==
  /\ pc[r] = "move" => \A f \in Files :
       live[f] = before[r][f] /\ bak[f] = None
  /\ pc[r] \in {"move", "retest", "put back", "drop"} => before[r][DropIn] # None
  /\ pc[r] \in {"retest", "put back", "drop"} =>
       /\ \A f \in Files \ {DropIn} : live[f] = before[r][f] /\ bak[f] = None
       /\ live[DropIn] = None /\ bak[DropIn] = before[r][DropIn]
  /\ pc[r] \in {"ca", "dir"} => live[DropIn] = None /\ \A f \in Files : bak[f] = None
  /\ pc[r] = "dir" => live[CA] = None

ExactAt(r) ==
  /\ live \in [Files -> Some] /\ before[r] \in [Files -> Some]
  /\ pc[r] # "failed"
  /\ pc[r] \in Ended \cup {"check"} => \A f \in Files : bak[f] = None
  /\ pc[r] \notin Copying => \A f \in Files : tmp[f] = None
  /\ Synchronised(r) /\ RolledBack(r) /\ Cleared(r)

Exact == Whole => \A r \in Runs : ExactAt(r)

-----------------------------------------------------------------------------
LEMMA OrderLength == Len(Order) \in Nat /\ DOMAIN Order = 1..Len(Order) /\ Len(Order) >= 1
<1>1. Order \in Seq(Files) /\ CA \in Files
  BY OrderAssumption
<1>2. Len(Order) \in Nat /\ DOMAIN Order = 1..Len(Order)
  BY <1>1
<1> QED
  BY <1>1, <1>2 DEF Files

LEMMA FileInFiles == ASSUME TypeOK, NEW r \in Runs PROVE File(r) \in Files
  BY OrderLength DEF TypeOK, File, Files

LEMMA StaleFacts ==
  ASSUME NEW p
  PROVE  /\ Stale(p) \subseteq {"live", "bak", "tmp"} \X Principals
         /\ \A f \in Principals :
              /\ <<"live", f>> \in Stale(p) <=> live[f] # None /\ p[f] = None
              /\ <<"bak", f>> \in Stale(p) <=> bak[f] # None
              /\ <<"tmp", f>> \in Stale(p) <=> tmp[f] # None
  BY DEF Stale

LEMMA LoopType ==
  ASSUME TypeOK, NEW r \in Runs, NEW again, NEW then, Loop(r, again, then),
         again \in SyncPC, then \in SyncPC \cup Ended
  PROVE  /\ i' \in [Runs -> 1..Len(Order)]
         /\ pc' \in [Runs -> Ended \cup SyncPC \cup RemovePC]
<1> USE OrderLength DEF TypeOK
<1>1. CASE i[r] < Len(Order)
  <2>1. i' = [i EXCEPT ![r] = i[r] + 1] /\ pc' = [pc EXCEPT ![r] = again]
    BY <1>1 DEF Loop, Go
  <2>2. i[r] + 1 \in 1..Len(Order)
    BY <1>1
  <2> QED
    BY <2>1, <2>2
<1>2. CASE ~(i[r] < Len(Order))
  <2>1. i' = [i EXCEPT ![r] = 1] /\ pc' = [pc EXCEPT ![r] = then]
    BY <1>2 DEF Loop, Go
  <2> QED
    BY <2>1
<1> QED
  BY <1>1, <1>2

LEMMA FailType ==
  ASSUME TypeOK, NEW r \in Runs, Fail(r)
  PROVE  /\ i' \in [Runs -> 1..Len(Order)]
         /\ pc' \in [Runs -> Ended \cup SyncPC \cup RemovePC]
<1>1. 1 \in 1..Len(Order)
  BY OrderLength
<1> QED
  BY <1>1 DEF TypeOK, Fail, Go, Ended

LEMMA TypeInit == Init => TypeOK
  BY OrderLength DEF Init, TypeOK, Gone, Some, Ended

LEMMA TypeStep == TypeOK /\ [Next]_vars => TypeOK'
<1> SUFFICES ASSUME TypeOK, [Next]_vars
             PROVE  TypeOK'
  OBVIOUS
<1> USE OrderLength, OrderAssumption
    DEF TypeOK, host, sshd, Ended, SyncPC, RemovePC, Some
<1>1. ASSUME NEW r \in Runs, Sync(r) \/ Removal(r) \/ Abort(r)
      PROVE  TypeOK'
  <2> File(r) \in Files
    BY FileInFiles
  <2>1. CASE Probe(r)
    <3>1. plan' \in [Runs -> [Files -> Some]]
      BY <2>1 DEF Probe, Plans
    <3>2. stale' \in [Runs -> SUBSET ({"live", "bak", "tmp"} \X Principals)]
      <4>1. PICK p \in Plans : stale' = [stale EXCEPT ![r] = Stale(p)]
        BY <2>1 DEF Probe
      <4>2. Stale(p) \in SUBSET ({"live", "bak", "tmp"} \X Principals)
        BY StaleFacts
      <4> QED
        BY <4>1, <4>2
    <3> QED
      BY <2>1, <3>1, <3>2 DEF Probe, Go
  <2>2. CASE Check(r)
    BY <2>2 DEF Check, Go
  <2>3. CASE Compare(r)
    <3>1. CASE Wanted(r) \in {None, live[File(r)]}
      BY <2>3, <3>1, LoopType DEF Compare
    <3>2. CASE Wanted(r) \notin {None, live[File(r)]} /\ live[File(r)] # None
      <4>1. Go(r, "backup") /\ UNCHANGED <<host, plan, stale, before, i, new>>
        BY <2>3, <3>2 DEF Compare
      <4> QED
        BY <4>1 DEF Go
    <3>3. CASE Wanted(r) \notin {None, live[File(r)]} /\ live[File(r)] = None
      <4>1. /\ Go(r, "stage") /\ new' = [new EXCEPT ![r] = @ \cup {File(r)}]
            /\ UNCHANGED <<host, plan, stale, before, i>>
        BY <2>3, <3>3 DEF Compare
      <4> QED
        BY <4>1 DEF Go
    <3> QED
      BY <3>1, <3>2, <3>3
  <2>4. CASE Backup(r)
    BY <2>4, FailType DEF Backup, Go
  <2>5. CASE Copy(r)
    BY <2>5 DEF Copy, Go
  <2>6. CASE Stage(r)
    BY <2>6 DEF Stage, Go
  <2>7. CASE Write(r)
    <3>1. Wanted(r) \in Some
      <4>1. File(r) \in Files
        BY FileInFiles
      <4>2. plan[r] \in [Files -> Some]
        OBVIOUS
      <4> QED
        BY <4>1, <4>2 DEF Wanted
    <3>2. tmp' \in [Files -> Some \cup {Torn}]
      BY <2>7, <3>1 DEF Write
    <3> QED
      BY <2>7, <3>2 DEF Write, Go
  <2>8. CASE Rename(r)
    BY <2>8, LoopType, FailType DEF Rename
  <2>9. CASE Test(r)
    BY <2>9 DEF Test, Go
  <2>10. CASE Restore(r)
    BY <2>10, LoopType DEF Restore, Go
  <2>11. CASE Undo(r)
    BY <2>11, LoopType DEF Undo, Go
  <2>12. CASE Commit(r)
    BY <2>12, LoopType DEF Commit, Go
  <2>13. CASE RemoveStale(r)
    BY <2>13, LoopType DEF RemoveStale, Go
  <2>14. CASE BeginRemoval(r)
    BY <2>14 DEF BeginRemoval, Go
  <2>15. CASE MoveDropIn(r)
    BY <2>15 DEF MoveDropIn, Go
  <2>16. CASE Retest(r)
    BY <2>16 DEF Retest, Go
  <2>17. CASE PutBack(r)
    BY <2>17 DEF PutBack, Go
  <2>18. CASE DropBackup(r)
    BY <2>18 DEF DropBackup, Go
  <2>19. CASE RemoveCA(r)
    BY <2>19 DEF RemoveCA, Go
  <2>20. CASE RemoveDir(r)
    BY <2>20 DEF RemoveDir, Go
  <2>21. CASE Abort(r)
    BY <2>21, FailType DEF Abort
  <2> QED
    BY <1>1, <2>1, <2>2, <2>3, <2>4, <2>5, <2>6, <2>7, <2>8, <2>9,
       <2>10, <2>11, <2>12, <2>13, <2>14, <2>15, <2>16, <2>17,
       <2>18, <2>19, <2>20, <2>21 DEF Sync, Removal
<1>2. CASE EditHost
  BY <1>2 DEF EditHost
<1>3. CASE UNCHANGED vars
  BY <1>3 DEF vars
<1> QED
  BY <1>1, <1>2, <1>3 DEF Next

(* Every state component keeps its type, for any number of runs at once. *)
THEOREM Typing == Spec => []TypeOK
  BY TypeInit, TypeStep, PTL DEF Spec

-----------------------------------------------------------------------------
(* What a round of a loop does to the files behind it. *)
LEMMA LoopBehind ==
  ASSUME TypeOK, NEW r \in Runs, NEW again, NEW then, Loop(r, again, then)
  PROVE  \/ /\ pc' = [pc EXCEPT ![r] = again]
            /\ \E n \in 1..Len(Order) : i' = [i EXCEPT ![r] = n]
            /\ Behind(r)' = Behind(r) \cup {File(r)}
         \/ /\ pc' = [pc EXCEPT ![r] = then] /\ i' = [i EXCEPT ![r] = 1]
            /\ Behind(r)' = {} /\ Behind(r) \cup {File(r)} = Files
<1>1. i[r] \in 1..Len(Order) /\ Len(Order) \in Nat /\ DOMAIN Order = 1..Len(Order)
  BY OrderLength DEF TypeOK
<1>2. CASE i[r] < Len(Order)
  <2>1. i' = [i EXCEPT ![r] = i[r] + 1] /\ pc' = [pc EXCEPT ![r] = again]
    BY <1>2 DEF Loop, Go
  <2>2. i'[r] = i[r] + 1 /\ i[r] + 1 \in 1..Len(Order)
    BY <2>1, <1>1, <1>2 DEF TypeOK
  <2>3. 1..(i'[r] - 1) = 1..(i[r] - 1) \cup {i[r]}
    BY <2>2, <1>1
  <2>4. Behind(r)' = Behind(r) \cup {File(r)}
    BY <2>3 DEF Behind, File
  <2> QED
    BY <2>1, <2>2, <2>4
<1>3. CASE ~(i[r] < Len(Order))
  <2>1. i' = [i EXCEPT ![r] = 1] /\ pc' = [pc EXCEPT ![r] = then]
    BY <1>3 DEF Loop, Go
  <2>2. Behind(r)' = {}
    BY <2>1 DEF Behind, TypeOK
  <2>3. 1..Len(Order) = 1..(i[r] - 1) \cup {i[r]}
    BY <1>1, <1>3
  <2>4. Behind(r) \cup {File(r)} = Files
    BY <2>3, <1>1 DEF Behind, File, Files
  <2> QED
    BY <2>1, <2>2, <2>4
<1> QED
  BY <1>2, <1>3

LEMMA LoopAt ==
  ASSUME TypeOK, NEW r \in Runs, NEW again, NEW then, Loop(r, again, then)
  PROVE  \/ pc'[r] = again /\ Behind(r)' = Behind(r) \cup {File(r)}
         \/ pc'[r] = then /\ Behind(r)' = {} /\ Behind(r) \cup {File(r)} = Files
  BY LoopBehind DEF TypeOK

LEMMA BehindNone == ASSUME TypeOK, NEW r \in Runs, i[r] = 1 PROVE Behind(r) = {}
  BY DEF Behind

LEMMA BehindFiles == ASSUME TypeOK, NEW r \in Runs PROVE Behind(r) \subseteq Files
<1>1. i[r] \in 1..Len(Order) /\ Len(Order) \in Nat /\ DOMAIN Order = 1..Len(Order)
  BY OrderLength DEF TypeOK
<1>2. 1..(i[r] - 1) \subseteq DOMAIN Order
  BY <1>1
<1> QED
  BY <1>2 DEF Behind, Files

LEMMA SameFile ==
  ASSUME NEW r \in Runs, UNCHANGED i
  PROVE  Behind(r)' = Behind(r) /\ File(r)' = File(r)
  BY DEF Behind, File

LEMMA AtStartStep == TypeOK /\ AtStart /\ [Next]_vars => AtStart'
<1> SUFFICES ASSUME TypeOK, AtStart, [Next]_vars
             PROVE  AtStart'
  OBVIOUS
<1> USE DEF TypeOK, AtStart, Loops, Copying, Ended, host, sshd
<1>1. ASSUME NEW r \in Runs, Sync(r) \/ Removal(r) \/ Abort(r)
      PROVE  AtStart'
  <2>1. CASE Probe(r)
    BY <2>1 DEF Probe, Go
  <2>2. CASE Check(r)
    BY <2>2 DEF Check, Go
  <2>3. CASE Compare(r)
    BY <2>3, LoopBehind DEF Compare, Go
  <2>4. CASE Backup(r)
    BY <2>4 DEF Backup, Go, Fail
  <2>5. CASE Copy(r)
    BY <2>5 DEF Copy, Go
  <2>6. CASE Stage(r)
    BY <2>6 DEF Stage, Go
  <2>7. CASE Write(r)
    BY <2>7 DEF Write, Go
  <2>8. CASE Rename(r)
    <3>1. CASE Fail(r)
      BY <2>8, <3>1 DEF Fail, Go
    <3>2. CASE Loop(r, "compare", "test")
      BY <2>8, <3>2, LoopBehind
    <3> QED
      BY <2>8, <3>1, <3>2 DEF Rename
  <2>9. CASE Test(r)
    BY <2>9 DEF Test, Go
  <2>10. CASE Restore(r)
    BY <2>10, LoopBehind DEF Restore, Go
  <2>11. CASE Undo(r)
    BY <2>11, LoopBehind DEF Undo, Go
  <2>12. CASE Commit(r)
    BY <2>12, LoopBehind DEF Commit, Go
  <2>13. CASE RemoveStale(r)
    BY <2>13, LoopBehind DEF RemoveStale, Go
  <2>14. CASE BeginRemoval(r)
    BY <2>14 DEF BeginRemoval, Go
  <2>15. CASE MoveDropIn(r)
    BY <2>15 DEF MoveDropIn, Go
  <2>16. CASE Retest(r)
    BY <2>16 DEF Retest, Go
  <2>17. CASE PutBack(r)
    BY <2>17 DEF PutBack, Go
  <2>18. CASE DropBackup(r)
    BY <2>18 DEF DropBackup, Go
  <2>19. CASE RemoveCA(r)
    BY <2>19 DEF RemoveCA, Go
  <2>20. CASE RemoveDir(r)
    BY <2>20 DEF RemoveDir, Go
  <2>21. CASE Abort(r)
    BY <2>21 DEF Abort, Go, Fail
  <2> QED
    BY <1>1, <2>1, <2>2, <2>3, <2>4, <2>5, <2>6, <2>7, <2>8, <2>9,
       <2>10, <2>11, <2>12, <2>13, <2>14, <2>15, <2>16, <2>17,
       <2>18, <2>19, <2>20, <2>21 DEF Sync, Removal
<1>2. CASE EditHost
  BY <1>2 DEF EditHost
<1>3. CASE UNCHANGED vars
  BY <1>3 DEF vars
<1> QED
  BY <1>1, <1>2, <1>3 DEF Next

LEMMA KnownStep ==
  ASSUME NEW r \in Runs, TypeOK, AtStart, Known(r), [Act(r)]_vars
  PROVE  Known(r)'
<1> USE DEF TypeOK, Known, Wanted, File, Copying, SyncPC, Ended, host, sshd
<1> File(r) \in Files
  BY FileInFiles
<1>1. ASSUME Sync(r) \/ Removal(r) \/ Abort(r)
      PROVE  Known(r)'
  <2>1. CASE Probe(r)
    <3>1. PICK p \in Plans : plan' = [plan EXCEPT ![r] = p]
                            /\ stale' = [stale EXCEPT ![r] = Stale(p)]
      BY <2>1 DEF Probe
    <3>2. plan'[r] = p /\ stale'[r] = Stale(p)
      BY <3>1
    <3>3. \A f \in Principals : <<"live", f>> \in stale'[r] => plan'[r][f] = None
      <4> HIDE DEF TypeOK, Known, host
      <4>1. \A f \in Principals : <<"live", f>> \in Stale(p) => p[f] = None
        BY StaleFacts
      <4> QED
        BY <3>2, <4>1
    <3>4. pc'[r] = "check"
      BY <2>1 DEF Probe, Go
    <3> QED
      BY <3>2, <3>3, <3>4
  <2>2. CASE Check(r)
    BY <2>2 DEF Check, Go
  <2>3. CASE Compare(r)
    <3>1. pc[r] = "compare" /\ UNCHANGED <<plan, stale>>
      BY <2>3 DEF Compare
    <3>2. CASE Loop(r, "compare", "test")
      <4>1. pc'[r] \in {"compare", "test"}
        BY <3>2, LoopAt
      <4> QED
        BY <3>1, <4>1
    <3>3. CASE Wanted(r) # None /\ UNCHANGED i /\ (Go(r, "backup") \/ Go(r, "stage"))
      BY <3>1, <3>3 DEF Go
    <3> QED
      BY <2>3, <3>2, <3>3 DEF Compare
  <2>4. CASE Backup(r)
    BY <2>4 DEF Backup, Go, Fail
  <2>5. CASE Copy(r)
    BY <2>5 DEF Copy, Go
  <2>6. CASE Stage(r)
    BY <2>6 DEF Stage, Go
  <2>7. CASE Write(r)
    BY <2>7, FileInFiles DEF Write, Go
  <2>8. CASE Rename(r)
    <3>1. pc[r] \in SyncPC /\ UNCHANGED <<plan, stale>>
      BY <2>8 DEF Rename
    <3>2. pc'[r] \in {"compare", "test", "failed"}
      BY <2>8, LoopAt DEF Rename, Fail, Go
    <3> QED
      BY <3>1, <3>2
  <2>9. CASE Test(r)
    BY <2>9 DEF Test, Go
  <2>10. CASE Restore(r)
    <3>1. pc[r] \in SyncPC /\ pc'[r] \in {"restore", "undo"} /\ UNCHANGED <<plan, stale>>
      BY <2>10, LoopAt DEF Restore
    <3> QED
      BY <3>1
  <2>11. CASE Undo(r)
    BY <2>11 DEF Undo, Loop, Go
  <2>12. CASE Commit(r)
    <3>1. pc[r] \in SyncPC /\ pc'[r] \in {"commit", "stale"} /\ UNCHANGED <<plan, stale>>
      BY <2>12, LoopAt DEF Commit
    <3> QED
      BY <3>1
  <2>13. CASE RemoveStale(r)
    <3>1. pc[r] \in SyncPC /\ pc'[r] \in {"stale", "done"} /\ UNCHANGED <<plan, stale>>
      BY <2>13, LoopAt DEF RemoveStale
    <3> QED
      BY <3>1
  <2>14. CASE BeginRemoval(r)
    BY <2>14 DEF BeginRemoval, Go
  <2>15. CASE MoveDropIn(r)
    BY <2>15 DEF MoveDropIn, Go
  <2>16. CASE Retest(r)
    BY <2>16 DEF Retest, Go
  <2>17. CASE PutBack(r)
    BY <2>17 DEF PutBack, Go
  <2>18. CASE DropBackup(r)
    BY <2>18 DEF DropBackup, Go
  <2>19. CASE RemoveCA(r)
    BY <2>19 DEF RemoveCA, Go
  <2>20. CASE RemoveDir(r)
    BY <2>20 DEF RemoveDir, Go
  <2>21. CASE Abort(r)
    BY <2>21 DEF Abort, Go, Fail
  <2> QED
    BY <1>1, <2>1, <2>2, <2>3, <2>4, <2>5, <2>6, <2>7, <2>8, <2>9,
       <2>10, <2>11, <2>12, <2>13, <2>14, <2>15, <2>16, <2>17,
       <2>18, <2>19, <2>20, <2>21 DEF Sync, Removal
<1>2. CASE EditHost
  BY <1>2 DEF EditHost
<1>3. CASE UNCHANGED vars
  BY <1>3 DEF vars
<1> QED
  BY <1>1, <1>2, <1>3 DEF Act

LEMMA BroughtStep ==
  ASSUME NEW r \in Runs, TypeOK, AtStart, Known(r), Brought(r), [Act(r)]_vars
  PROVE  Brought(r)'
<1> USE BehindNone, SameFile, FileInFiles DEF TypeOK, Known, Brought, Copying, SyncPC, Ended, host, sshd
<1> File(r) \in Files
  BY FileInFiles
<1>1. ASSUME Sync(r) \/ Removal(r) \/ Abort(r)
      PROVE  Brought(r)'
  <2>1. CASE Probe(r)
    BY <2>1 DEF Probe, Go
  <2>2. CASE Check(r)
    <3>1. Behind(r)' = {}
      BY <2>2 DEF Check, AtStart, Loops
    <3> QED
      BY <2>2, <3>1 DEF Check, Go
  <2>3. CASE Compare(r)
    <3>1. CASE Wanted(r) \in {None, live[File(r)]}
      <4>1. Loop(r, "compare", "test") /\ UNCHANGED <<live, plan>> /\ pc[r] = "compare"
        BY <2>3, <3>1 DEF Compare
      <4>2. \A f \in Behind(r) \cup {File(r)} : plan[r][f] # None => live[f] = plan[r][f]
        BY <3>1, <4>1 DEF Wanted
      <4> QED
        BY <4>1, <4>2, LoopAt
    <3>2. CASE Wanted(r) \notin {None, live[File(r)]}
      BY <2>3, <3>2 DEF Compare, Go
    <3> QED
      BY <3>1, <3>2
  <2>4. CASE Backup(r)
    BY <2>4 DEF Backup, Go, Fail
  <2>5. CASE Copy(r)
    BY <2>5 DEF Copy, Go
  <2>6. CASE Stage(r)
    BY <2>6 DEF Stage, Go
  <2>7. CASE Write(r)
    BY <2>7 DEF Write, Go
  <2>8. CASE Rename(r)
    <3>1. Loop(r, "compare", "test") /\ UNCHANGED plan /\ pc[r] = "rename"
          /\ live' = [live EXCEPT ![File(r)] = plan[r][File(r)]]
      BY <2>8 DEF Rename, Wanted
    <3>2. \A f \in Behind(r) \cup {File(r)} : plan[r][f] # None => live'[f] = plan[r][f]
      <4>1. \A f \in Behind(r) : f \in Files /\ (plan[r][f] # None => live[f] = plan[r][f])
        BY <3>1, BehindFiles
      <4>2. \A f \in Files : live'[f] = IF f = File(r) THEN plan[r][f] ELSE live[f]
        BY <3>1
      <4> QED
        BY <4>1, <4>2
    <3> QED
      BY <3>1, <3>2, LoopAt
  <2>9. CASE Test(r)
    BY <2>9 DEF Test, Go
  <2>10. CASE Restore(r)
    <3>1. pc'[r] \in {"restore", "undo"}
      BY <2>10, LoopAt DEF Restore
    <3> QED
      BY <3>1
  <2>11. CASE Undo(r)
    BY <2>11 DEF Undo, Loop, Go
  <2>12. CASE Commit(r)
    BY <2>12, LoopAt DEF Commit, Go
  <2>13. CASE RemoveStale(r)
    <3>1. Loop(r, "stale", "done") /\ UNCHANGED plan /\ pc[r] = "stale"
          /\ live' = IF <<"live", File(r)>> \in stale[r]
                       THEN [live EXCEPT ![File(r)] = None] ELSE live
      BY <2>13 DEF RemoveStale
    <3>2. \A f \in Files : plan[r][f] # None => <<"live", f>> \notin stale[r]
      <4>1. plan[r] \in Plans /\ \A f \in Principals : <<"live", f>> \in stale[r] => plan[r][f] = None
        BY <3>1
      <4>2. stale[r] \subseteq {"live", "bak", "tmp"} \X Principals
        OBVIOUS
      <4> QED
        BY <4>1, <4>2
    <3>3. \A f \in Files : plan[r][f] # None => live'[f] = plan[r][f]
      <4>1. \A f \in Files : plan[r][f] # None => live[f] = plan[r][f]
        BY <3>1
      <4> QED
        BY <3>1, <3>2, <4>1
    <3> QED
      BY <3>1, <3>3, LoopAt
  <2>14. CASE BeginRemoval(r)
    BY <2>14 DEF BeginRemoval, Go
  <2>15. CASE MoveDropIn(r)
    BY <2>15 DEF MoveDropIn, Go
  <2>16. CASE Retest(r)
    BY <2>16 DEF Retest, Go
  <2>17. CASE PutBack(r)
    BY <2>17 DEF PutBack, Go
  <2>18. CASE DropBackup(r)
    BY <2>18 DEF DropBackup, Go
  <2>19. CASE RemoveCA(r)
    BY <2>19 DEF RemoveCA, Go
  <2>20. CASE RemoveDir(r)
    BY <2>20 DEF RemoveDir, Go
  <2>21. CASE Abort(r)
    BY <2>21 DEF Abort, Go, Fail
  <2> QED
    BY <1>1, <2>1, <2>2, <2>3, <2>4, <2>5, <2>6, <2>7, <2>8, <2>9,
       <2>10, <2>11, <2>12, <2>13, <2>14, <2>15, <2>16, <2>17,
       <2>18, <2>19, <2>20, <2>21 DEF Sync, Removal
<1>2. CASE EditHost
  BY <1>2 DEF EditHost
<1>3. CASE UNCHANGED vars
  BY <1>3 DEF vars
<1> QED
  BY <1>1, <1>2, <1>3 DEF Act

LEMMA SweptStep ==
  ASSUME NEW r \in Runs, TypeOK, AtStart, Known(r), Swept(r), [Act(r)]_vars
  PROVE  Swept(r)'
<1> USE BehindNone, SameFile, FileInFiles DEF TypeOK, Known, Swept, Copying, SyncPC, Ended, host, sshd
<1> File(r) \in Files /\ \A f \in Principals : f \in Files
  BY FileInFiles DEF Principals
<1>1. ASSUME Sync(r) \/ Removal(r) \/ Abort(r)
      PROVE  Swept(r)'
  <2>1. CASE Probe(r)
    <3>1. PICK p \in Plans : plan' = [plan EXCEPT ![r] = p]
                            /\ stale' = [stale EXCEPT ![r] = Stale(p)]
      BY <2>1 DEF Probe
    <3>2. pc'[r] = "check" /\ UNCHANGED <<live, bak>> /\ plan'[r] = p /\ stale'[r] = Stale(p)
      BY <2>1, <3>1 DEF Probe, Go
    <3>3. stale'[r] = Stale(p)
      BY <3>2
    <3>4. \A f \in Principals : live[f] # None /\ p[f] = None => <<"live", f>> \in stale'[r]
      BY <3>3 DEF Stale
    <3>5. \A f \in Files : bak[f] # None => p[f] # None \/ <<"bak", f>> \in stale'[r]
      BY <3>3 DEF Stale, Plans, Principals
    <3>6. pc'[r] = "check"
      BY <3>2
    <3> QED
      BY <3>2, <3>4, <3>5, <3>6
  <2>2. CASE Check(r)
    BY <2>2 DEF Check, Go
  <2>3. CASE Compare(r)
    <3>1. pc[r] = "compare" /\ UNCHANGED <<plan, stale, live, bak>>
      BY <2>3 DEF Compare
    <3>2. CASE Loop(r, "compare", "test")
      <4>1. pc'[r] \in {"compare", "test"}
        BY <3>2, LoopAt
      <4> QED
        BY <3>1, <4>1
    <3>3. CASE Go(r, "backup") \/ Go(r, "stage")
      BY <3>1, <3>3 DEF Go
    <3> QED
      BY <2>3, <3>2, <3>3 DEF Compare
  <2>4. CASE Backup(r)
    <3>1. CASE live[File(r)] = None
      BY <2>4, <3>1 DEF Backup, Fail, Go
    <3>2. CASE live[File(r)] # None
      <4>1. /\ pc[r] = "backup" /\ pc'[r] = "copy" /\ UNCHANGED <<i, live, plan, stale>>
            /\ bak' = [bak EXCEPT ![File(r)] = Torn]
        BY <2>4, <3>2 DEF Backup, Go
      <4>2. plan[r][File(r)] # None
        BY <4>1 DEF Wanted
      <4>3. \A f \in Files : bak'[f] # None => f = File(r) \/ bak[f] # None
        BY <4>1
      <4> QED
        BY <4>1, <4>2, <4>3
    <3> QED
      BY <3>1, <3>2
  <2>5. CASE Copy(r)
    <3>1. /\ pc[r] = "copy" /\ pc'[r] = "stage" /\ UNCHANGED <<i, live, plan, stale>>
          /\ bak' = [bak EXCEPT ![File(r)] = live[File(r)]]
      BY <2>5 DEF Copy, Go
    <3>2. plan[r][File(r)] # None
      BY <3>1 DEF Wanted
    <3>3. \A f \in Files : bak'[f] # None => f = File(r) \/ bak[f] # None
      BY <3>1
    <3> QED
      BY <3>1, <3>2, <3>3
  <2>6. CASE Stage(r)
    BY <2>6 DEF Stage, Go
  <2>7. CASE Write(r)
    BY <2>7 DEF Write, Go
  <2>8. CASE Rename(r)
    <3>1. /\ Loop(r, "compare", "test") /\ UNCHANGED <<plan, stale, bak>> /\ pc[r] = "rename"
          /\ live' = [live EXCEPT ![File(r)] = plan[r][File(r)]]
      BY <2>8 DEF Rename, Wanted
    <3>2. plan[r][File(r)] # None
      BY <3>1 DEF Wanted
    <3>3. pc'[r] \in {"compare", "test"}
      BY <3>1, LoopAt
    <3>4. \A f \in Principals : live'[f] # None => f = File(r) \/ live[f] # None
      BY <3>1
    <3> QED
      BY <3>1, <3>2, <3>3, <3>4
  <2>9. CASE Test(r)
    <3>1. Behind(r)' = {}
      BY <2>9 DEF Test, AtStart, Loops
    <3> QED
      BY <2>9, <3>1 DEF Test, Go
  <2>10. CASE Restore(r)
    <3>1. pc'[r] \in {"restore", "undo"}
      BY <2>10, LoopAt DEF Restore
    <3> QED
      BY <3>1
  <2>11. CASE Undo(r)
    BY <2>11 DEF Undo, Loop, Go
  <2>12. CASE Commit(r)
    <3>1. /\ Loop(r, "commit", "stale") /\ UNCHANGED <<plan, stale, live>> /\ pc[r] = "commit"
          /\ bak' = IF plan[r][File(r)] # None THEN [bak EXCEPT ![File(r)] = None] ELSE bak
      BY <2>12 DEF Commit, Wanted
    <3>2. \A f \in Files : bak'[f] # None =>
            \/ plan[r][f] # None /\ f \notin Behind(r) \cup {File(r)}
            \/ <<"bak", f>> \in stale[r]
      <4>1. \A f \in Files : bak[f] # None =>
              (plan[r][f] # None /\ f \notin Behind(r)) \/ <<"bak", f>> \in stale[r]
        BY <3>1
      <4> QED
        BY <3>1, <4>1
    <3>3. \A f \in Principals : f \in Files
      BY DEF Principals
    <3>4. CASE pc'[r] = "commit" /\ Behind(r)' = Behind(r) \cup {File(r)}
      BY <3>1, <3>2, <3>4
    <3>5. CASE pc'[r] = "stale" /\ Behind(r)' = {} /\ Behind(r) \cup {File(r)} = Files
      BY <3>1, <3>2, <3>3, <3>5
    <3> QED
      BY <3>1, <3>4, <3>5, LoopAt
  <2>13. CASE RemoveStale(r)
    <3>1. /\ Loop(r, "stale", "done") /\ pc[r] = "stale" /\ UNCHANGED <<plan, stale>>
          /\ live' = IF <<"live", File(r)>> \in stale[r]
                       THEN [live EXCEPT ![File(r)] = None] ELSE live
          /\ bak' = IF <<"bak", File(r)>> \in stale[r]
                      THEN [bak EXCEPT ![File(r)] = None] ELSE bak
      BY <2>13 DEF RemoveStale
    <3>2. \A f \in Principals :
            /\ f \in Files
            /\ plan[r][f] = None /\ live[f] # None => <<"live", f>> \in stale[r] /\ f \notin Behind(r)
      BY <3>1 DEF Principals
    <3>3. \A f \in Principals : plan[r][f] = None /\ live'[f] # None =>
            <<"live", f>> \in stale[r] /\ f \notin Behind(r) \cup {File(r)}
      BY <3>1, <3>2
    <3>5. \A f \in Files : bak'[f] # None =>
            <<"bak", f>> \in stale[r] /\ f \notin Behind(r) \cup {File(r)}
      BY <3>1
    <3>4. \/ pc'[r] = "stale" /\ Behind(r)' = Behind(r) \cup {File(r)}
          \/ pc'[r] = "done"
      BY <3>1, LoopAt
    <3> QED
      BY <3>1, <3>3, <3>4, <3>5
  <2>14. CASE BeginRemoval(r)
    BY <2>14 DEF BeginRemoval, Go
  <2>15. CASE MoveDropIn(r)
    BY <2>15 DEF MoveDropIn, Go
  <2>16. CASE Retest(r)
    BY <2>16 DEF Retest, Go
  <2>17. CASE PutBack(r)
    BY <2>17 DEF PutBack, Go
  <2>18. CASE DropBackup(r)
    BY <2>18 DEF DropBackup, Go
  <2>19. CASE RemoveCA(r)
    BY <2>19 DEF RemoveCA, Go
  <2>20. CASE RemoveDir(r)
    BY <2>20 DEF RemoveDir, Go
  <2>21. CASE Abort(r)
    BY <2>21 DEF Abort, Go, Fail
  <2> QED
    BY <1>1, <2>1, <2>2, <2>3, <2>4, <2>5, <2>6, <2>7, <2>8, <2>9,
       <2>10, <2>11, <2>12, <2>13, <2>14, <2>15, <2>16, <2>17,
       <2>18, <2>19, <2>20, <2>21 DEF Sync, Removal
<1>2. CASE EditHost
  BY <1>2 DEF EditHost
<1>3. CASE UNCHANGED vars
  BY <1>3 DEF vars
<1> QED
  BY <1>1, <1>2, <1>3 DEF Act

LEMMA StagedStep ==
  ASSUME NEW r \in Runs, TypeOK, AtStart, Staged(r), [Act(r)]_vars
  PROVE  Staged(r)'
<1> USE BehindNone DEF TypeOK, Staged, Ended, host, sshd
<1> File(r) \in Files /\ \A f \in Principals : f \in Files
  BY FileInFiles DEF Principals
<1>1. CASE Probe(r)
  <2>1. PICK p \in Plans : stale' = [stale EXCEPT ![r] = Stale(p)]
    BY <1>1 DEF Probe
  <2>2. pc'[r] = "check" /\ tmp' = tmp
    BY <1>1 DEF Probe, Go
  <2>3. stale'[r] = Stale(p)
    BY <2>1
  <2>4. \A f \in Principals : tmp[f] # None => <<"tmp", f>> \in stale'[r]
    BY <2>3 DEF Stale
  <2> QED
    BY <2>2, <2>4
<1>2. CASE Check(r)
  BY <1>2 DEF Check, Go
<1>3. CASE Compare(r)
  <2>1. pc[r] = "compare" /\ UNCHANGED <<stale, tmp>>
    BY <1>3 DEF Compare
  <2>2. CASE Loop(r, "compare", "test")
    <3>1. pc'[r] \in {"compare", "test"}
      BY <2>2, LoopAt
    <3> QED
      BY <2>1, <3>1
  <2>3. CASE Go(r, "backup") \/ Go(r, "stage")
    BY <2>1, <2>3 DEF Go
  <2> QED
    BY <1>3, <2>2, <2>3 DEF Compare
<1>4. CASE Backup(r) \/ Copy(r)
  BY <1>4 DEF Backup, Copy, Go, Fail
<1>5. CASE Stage(r)
  <2>1. pc[r] = "stage" /\ pc'[r] = "write" /\ UNCHANGED <<i, stale>>
        /\ tmp' = [tmp EXCEPT ![File(r)] = Torn]
    BY <1>5 DEF Stage, Go
  <2>2. File(r)' = File(r)
    BY <2>1 DEF File
  <2> QED
    BY <2>1, <2>2
<1>6. CASE Write(r)
  <2>1. pc[r] = "write" /\ pc'[r] = "rename" /\ UNCHANGED <<i, stale>>
        /\ tmp' = [tmp EXCEPT ![File(r)] = Wanted(r)]
    BY <1>6 DEF Write, Go
  <2>2. File(r)' = File(r)
    BY <2>1 DEF File
  <2> QED
    BY <2>1, <2>2
<1>7. CASE Rename(r)
  <2>1. CASE Fail(r)
    BY <2>1 DEF Fail, Go
  <2>2. CASE Loop(r, "compare", "test") /\ tmp' = [tmp EXCEPT ![File(r)] = None]
    <3>1. pc'[r] \in {"compare", "test"}
      BY <2>2, LoopAt
    <3>2. pc[r] = "rename" /\ stale' = stale
      BY <1>7 DEF Rename
    <3> QED
      BY <2>2, <3>1, <3>2
  <2> QED
    BY <1>7, <2>1, <2>2 DEF Rename
<1>8. CASE Test(r)
  BY <1>8 DEF Test, Go
<1>9. CASE Restore(r)
  <2>1. pc'[r] \in {"restore", "undo"}
    BY <1>9, LoopAt DEF Restore
  <2> QED
    BY <2>1
<1>10. CASE Undo(r)
  <2>1. pc'[r] \in {"undo", "rolled back"}
    BY <1>10, LoopAt DEF Undo
  <2> QED
    BY <2>1
<1>11. CASE Commit(r)
  <2>1. Loop(r, "commit", "stale") /\ pc[r] = "commit" /\ UNCHANGED <<tmp, stale>>
    BY <1>11 DEF Commit
  <2>2. pc'[r] = "commit" \/ (pc'[r] = "stale" /\ Behind(r)' = {})
    BY <2>1, LoopAt
  <2> QED
    BY <2>1, <2>2
<1>12. CASE RemoveStale(r)
  <2>1. /\ Loop(r, "stale", "done") /\ pc[r] = "stale" /\ stale' = stale
        /\ tmp' = IF <<"tmp", File(r)>> \in stale[r]
                    THEN [tmp EXCEPT ![File(r)] = None] ELSE tmp
    BY <1>12 DEF RemoveStale
  <2>2. \A f \in Principals : tmp'[f] # None =>
          <<"tmp", f>> \in stale[r] /\ f \notin Behind(r) \cup {File(r)}
    BY <2>1
  <2>3. \/ pc'[r] = "stale" /\ Behind(r)' = Behind(r) \cup {File(r)}
        \/ pc'[r] = "done"
    BY <2>1, LoopAt
  <2> QED
    BY <2>1, <2>2, <2>3
<1>13. CASE Removal(r) \/ Abort(r)
  <2>1. pc'[r] \in RemovePC \cup {"rolled back", "failed", "done"}
    BY <1>13 DEF Removal, BeginRemoval, MoveDropIn, Retest, PutBack, DropBackup, RemoveCA, RemoveDir,
                 Abort, Fail, Go, RemovePC
  <2> QED
    BY <2>1 DEF RemovePC
<1>14. CASE EditHost \/ UNCHANGED vars
  BY <1>14 DEF EditHost, vars, File, Behind
<1> QED
  BY <1>1, <1>2, <1>3, <1>4, <1>5, <1>6, <1>7, <1>8, <1>9, <1>10, <1>11, <1>12, <1>13, <1>14 DEF Act, Sync

LEMMA CleaningStep ==
  ASSUME NEW r \in Runs, TypeOK, Cleaning(r), [Act(r)]_vars
  PROVE  Cleaning(r)'
<1> USE OrderAssumption DEF TypeOK, Cleaning, Ended, host, sshd
<1> File(r) \in Files
  BY FileInFiles
<1>1. CASE Removal(r)
  <2>1. CASE BeginRemoval(r)
    BY <2>1 DEF BeginRemoval, Go
  <2>2. CASE MoveDropIn(r)
    BY <2>2 DEF MoveDropIn, Go
  <2>3. CASE Retest(r)
    BY <2>3 DEF Retest, Go
  <2>4. CASE PutBack(r)
    BY <2>4 DEF PutBack, Go
  <2>5. CASE DropBackup(r)
    BY <2>5 DEF DropBackup, Go
  <2>6. CASE RemoveCA(r)
    BY <2>6 DEF RemoveCA, Go
  <2>7. CASE RemoveDir(r)
    BY <2>7 DEF RemoveDir, Go
  <2> QED
    BY <1>1, <2>1, <2>2, <2>3, <2>4, <2>5, <2>6, <2>7 DEF Removal
<1>2. CASE Sync(r) \/ Abort(r)
  <2> SUFFICES pc'[r] \notin RemovePC
    BY DEF RemovePC
  <2>1. CASE Probe(r)
    BY <2>1 DEF Probe, Go, Fail, RemovePC
  <2>2. CASE Check(r)
    BY <2>2 DEF Check, Go, Fail, RemovePC
  <2>3. CASE Compare(r)
    <3>1. CASE Loop(r, "compare", "test")
      <4>1. pc'[r] \in {"compare", "test"}
        BY <3>1, LoopAt
      <4> QED
        BY <4>1 DEF RemovePC
    <3>2. CASE Go(r, "backup") \/ Go(r, "stage")
      BY <3>2 DEF Go, RemovePC
    <3> QED
      BY <2>3, <3>1, <3>2 DEF Compare
  <2>4. CASE Backup(r)
    BY <2>4 DEF Backup, Go, Fail, RemovePC
  <2>5. CASE Copy(r)
    BY <2>5 DEF Copy, Go, Fail, RemovePC
  <2>6. CASE Stage(r)
    BY <2>6 DEF Stage, Go, Fail, RemovePC
  <2>7. CASE Write(r)
    BY <2>7 DEF Write, Go, Fail, RemovePC
  <2>8. CASE Rename(r)
    <3>1. pc'[r] \in {"compare", "test", "failed"}
      BY <2>8, LoopAt DEF Rename, Fail, Go
    <3> QED
      BY <3>1 DEF RemovePC
  <2>9. CASE Test(r)
    BY <2>9 DEF Test, Go, Fail, RemovePC
  <2>10. CASE Restore(r)
    <3>1. pc'[r] \in {"restore", "undo"}
      BY <2>10, LoopAt DEF Restore
    <3> QED
      BY <3>1 DEF RemovePC
  <2>11. CASE Undo(r)
    <3>1. pc'[r] \in {"undo", "rolled back"}
      BY <2>11, LoopAt DEF Undo
    <3> QED
      BY <3>1 DEF RemovePC
  <2>12. CASE Commit(r)
    <3>1. pc'[r] \in {"commit", "stale"}
      BY <2>12, LoopAt DEF Commit
    <3> QED
      BY <3>1 DEF RemovePC
  <2>13. CASE RemoveStale(r)
    <3>1. pc'[r] \in {"stale", "done"}
      BY <2>13, LoopAt DEF RemoveStale
    <3> QED
      BY <3>1 DEF RemovePC
  <2>14. CASE Abort(r)
    BY <2>14 DEF Abort, Fail, Go, RemovePC
  <2> QED
    BY <1>2, <2>1, <2>2, <2>3, <2>4, <2>5, <2>6, <2>7, <2>8, <2>9, <2>10, <2>11, <2>12, <2>13, <2>14 DEF Sync
<1>3. CASE EditHost \/ UNCHANGED vars
  BY <1>3 DEF EditHost, vars
<1> QED
  BY <1>1, <1>2, <1>3 DEF Act

LEMMA ForwardInit == Init => Forward
  BY TypeInit DEF Init, Forward, ForwardAt, AtStart, Known, Brought, Swept, Staged, Cleaning, SyncPC, Copying, Loops

LEMMA ActIsNext == ASSUME NEW r \in Runs, [Act(r)]_vars PROVE [Next]_vars
  BY DEF Act, Next

LEMMA NextIsAct == ASSUME NEW r, Runs = {r}, [Next]_vars PROVE [Act(r)]_vars
  BY DEF Act, Next

LEMMA ForwardAtStep ==
  ASSUME NEW r \in Runs, ForwardAt(r), [Act(r)]_vars
  PROVE  ForwardAt(r)'
  BY ActIsNext, TypeStep, AtStartStep, KnownStep, BroughtStep, SweptStep, StagedStep DEF ForwardAt

LEMMA ForwardStep == OneRun /\ Forward /\ [Next]_vars => Forward'
  BY NextIsAct, ForwardAtStep, CleaningStep DEF OneRun, Forward, ForwardAt

LEMMA ForwardInductive ==
  ASSUME OneRun PROVE Spec => []Forward
<1>1. Forward /\ [Next]_vars => Forward'
  BY ForwardStep
<1> QED
  BY ForwardInit, <1>1, PTL DEF Spec

(* The last round of the last loop. *)
LEMMA LastRound ==
  ASSUME NEW r \in Runs, ForwardAt(r), Act(r), pc[r] = "stale", pc'[r] = "done"
  PROVE  live' = plan[r] /\ bak' = Gone /\ \A f \in Principals : tmp'[f] = None
<1> USE DEF TypeOK
<1>1. RemoveStale(r)
  BY DEF Act, Sync, Removal, Probe, Check, Compare, Backup, Copy, Stage, Write, Rename,
         Test, Restore, Undo, Commit, BeginRemoval, MoveDropIn, Retest, PutBack,
         DropBackup, RemoveCA, RemoveDir, Abort, EditHost, Fail, Go, Ended, ForwardAt
<1>2. File(r) \in Files
  BY FileInFiles DEF ForwardAt
<1>3. Behind(r) \cup {File(r)} = Files
  BY <1>1, LoopBehind DEF RemoveStale, ForwardAt
<1>4. /\ live' = IF <<"live", File(r)>> \in stale[r] THEN [live EXCEPT ![File(r)] = None] ELSE live
      /\ bak' = IF <<"bak", File(r)>> \in stale[r] THEN [bak EXCEPT ![File(r)] = None] ELSE bak
      /\ tmp' = IF <<"tmp", File(r)>> \in stale[r] THEN [tmp EXCEPT ![File(r)] = None] ELSE tmp
  BY <1>1 DEF RemoveStale
<1>5. \A f \in Files : f \in Principals \/ plan[r][f] # None
  BY DEF ForwardAt, Known, Plans, Principals, SyncPC
<1>6. \A f \in Files : <<"live", f>> \in stale[r] => plan[r][f] = None
  BY DEF ForwardAt, Known, SyncPC
<1>7. \A f \in Files : live'[f] = plan[r][f]
  <2> TAKE f \in Files
  <2>1. CASE plan[r][f] # None
    BY <1>2, <1>4, <1>6, <2>1 DEF ForwardAt, Brought
  <2>2. CASE plan[r][f] = None
    BY <1>2, <1>3, <1>4, <1>5, <2>2 DEF ForwardAt, Swept
  <2> QED
    BY <2>1, <2>2
<1>8. /\ live' \in [Files -> Some \cup {Torn}] /\ plan[r] \in [Files -> Some]
      /\ bak' \in [Files -> Some \cup {Torn}]
  BY ActIsNext, TypeStep DEF ForwardAt
<1>9. \A f \in Files : bak'[f] = None
  BY <1>2, <1>3, <1>4 DEF ForwardAt, Swept
<1>10. \A f \in Principals : tmp'[f] = None
  BY <1>2, <1>3, <1>4 DEF ForwardAt, Staged, Principals
<1>11. live' = plan[r]
  BY <1>7, <1>8
<1>12. bak' = Gone
  BY <1>8, <1>9 DEF Gone
<1> QED
  BY <1>10, <1>11, <1>12

(* The last command of a removal. *)
LEMMA LastRemoval ==
  ASSUME NEW r \in Runs, TypeOK, TypeOK', Cleaning(r), Act(r), pc[r] = "dir", pc'[r] = "done"
  PROVE  live' = Gone /\ \A f \in Principals : bak'[f] = None /\ tmp'[f] = None
<1>1. RemoveDir(r)
  BY DEF Act, Sync, Removal, Probe, Check, Compare, Backup, Copy, Stage, Write, Rename,
         Test, Restore, Undo, Commit, RemoveStale, BeginRemoval, MoveDropIn, Retest, PutBack,
         DropBackup, RemoveCA, Abort, EditHost, Fail, Go, Ended, TypeOK
<1>2. live[DropIn] = None /\ live[CA] = None
  BY DEF Cleaning
<1>3. \A f \in Files : live'[f] = None
  BY <1>1, <1>2 DEF RemoveDir, Principals
<1>4. \A f \in Principals : bak'[f] = None /\ tmp'[f] = None
  BY <1>1 DEF RemoveDir, Principals
<1> QED
  BY <1>3, <1>4 DEF TypeOK, Gone

LEMMA AnyTime == Spec => [](TypeOK /\ AtStart)
<1>1. Init => TypeOK /\ AtStart
  BY ForwardInit DEF Forward
<1>2. TypeOK /\ AtStart /\ [Next]_vars => (TypeOK /\ AtStart)'
  BY TypeStep, AtStartStep
<1> QED
  BY <1>1, <1>2, PTL DEF Spec

(* A host on which only run r is at work from now on, whatever is there.  What it    *)
(* asks of the state is true of every state of any number of runs (AnyTime).         *)
Alone(r) == TypeOK /\ AtStart /\ pc[r] \in Ended /\ [][Act(r)]_vars

(* From any files a host may have, torn ones, backups and staging files of runs that   *)
(* overlapped or were cut off: nk sync that nobody else's run overlaps and that         *)
(* reports success has left exactly its plan and no backup, nk rm none of its files,     *)
(* and either one no backup and no staging file in the principals directory.            *)
THEOREM AloneIsExact ==
  ASSUME NEW r \in Runs
  PROVE  Alone(r) => [][/\ pc[r] = "stale" /\ pc'[r] = "done" =>
                             live' = plan[r] /\ bak' = Gone /\ \A f \in Principals : tmp'[f] = None
                        /\ pc[r] = "dir" /\ pc'[r] = "done" =>
                             live' = Gone /\ \A f \in Principals : bak'[f] = None /\ tmp'[f] = None]_vars
<1> DEFINE Inv == ForwardAt(r) /\ Cleaning(r)
<1>1. TypeOK /\ AtStart /\ pc[r] \in Ended => Inv
  BY DEF ForwardAt, Known, Brought, Swept, Staged, Cleaning, Ended, SyncPC, Copying
<1>2. Inv /\ [Act(r)]_vars => Inv'
  BY ForwardAtStep, CleaningStep DEF ForwardAt
<1>3. Inv /\ [Act(r)]_vars =>
        [/\ pc[r] = "stale" /\ pc'[r] = "done" =>
              live' = plan[r] /\ bak' = Gone /\ \A f \in Principals : tmp'[f] = None
         /\ pc[r] = "dir" /\ pc'[r] = "done" =>
              live' = Gone /\ \A f \in Principals : bak'[f] = None /\ tmp'[f] = None]_vars
  BY LastRound, LastRemoval, ForwardAtStep DEF ForwardAt
<1> QED
  BY <1>1, <1>2, <1>3, PTL DEF Alone

(* DoneIsExact: nk sync that reports success has left exactly its plan and no backup,   *)
(* nk rm none of the files sshd reads, and either one nothing else in the principals    *)
(* directory, whatever the runs before it left on the host and wherever they were cut   *)
(* off.                                                                         *)
THEOREM SuccessIsExact ==
  ASSUME OneRun PROVE Spec => DoneIsExact
<1>1. Forward /\ [Next]_vars =>
        [\A r \in Runs :
           /\ pc[r] = "stale" /\ pc'[r] = "done" =>
                live' = plan[r] /\ bak' = Gone /\ \A f \in Principals : tmp'[f] = None
           /\ pc[r] = "dir" /\ pc'[r] = "done" =>
                live' = Gone /\ \A f \in Principals : bak'[f] = None /\ tmp'[f] = None]_vars
  BY LastRound, LastRemoval, NextIsAct, TypeStep DEF OneRun, Forward, Act, Next
<1> QED
  BY <1>1, ForwardInductive, PTL DEF Spec, DoneIsExact

-----------------------------------------------------------------------------
Untorn == "reject" \notin trouble => NeverTorn

LEMMA EasyStep ==
  ASSUME NEW r, Runs = {r}, Forward, Easy, Untorn, [Next]_vars
  PROVE  Easy' /\ Untorn'
<1> USE ContentAssumption DEF TypeOK, Forward, ForwardAt, Easy, Untorn, NeverTorn, host, sshd, Ended
<1>1. ASSUME Sync(r) \/ Removal(r) \/ Abort(r)
      PROVE  Easy' /\ Untorn'
  <2>1. CASE Probe(r)
    BY <2>1 DEF Probe, Go
  <2>2. CASE Check(r)
    BY <2>2 DEF Check, Go
  <2>3. CASE Compare(r)
    <3>1. CASE Loop(r, "compare", "test")
      <4>1. pc' = [pc EXCEPT ![r] = "compare"] \/ pc' = [pc EXCEPT ![r] = "test"]
        BY <3>1, LoopBehind
      <4> QED
        BY <2>3, <4>1 DEF Compare
    <3>2. CASE Go(r, "backup") \/ Go(r, "stage")
      BY <2>3, <3>2 DEF Compare, Go
    <3> QED
      BY <2>3, <3>1, <3>2 DEF Compare
  <2>4. CASE Backup(r)
    BY <2>4 DEF Backup, Go, Fail
  <2>5. CASE Copy(r)
    BY <2>5 DEF Copy, Go
  <2>6. CASE Stage(r)
    BY <2>6 DEF Stage, Go
  <2>7. CASE Write(r)
    BY <2>7 DEF Write, Go
  <2>8. CASE Rename(r)
    <3>1. pc[r] = "rename" /\ live' = [live EXCEPT ![File(r)] = Wanted(r)]
          /\ Wanted(r) # None /\ UNCHANGED sshd /\ Loop(r, "compare", "test")
      BY <2>8 DEF Rename, Known, Copying
    <3>2. Wanted(r) # Torn
      BY <3>1, FileInFiles DEF Some, Wanted
    <3>3. pc' = [pc EXCEPT ![r] = "compare"] \/ pc' = [pc EXCEPT ![r] = "test"]
      BY <3>1, LoopBehind
    <3> QED
      BY <3>1, <3>2, <3>3
  <2>9. CASE Test(r)
    BY <2>9 DEF Test, Go, Accepts
  <2>10. CASE Restore(r)
    BY <2>10, LoopBehind DEF Restore, Go
  <2>11. CASE Undo(r)
    BY <2>11, LoopBehind DEF Undo, Go
  <2>12. CASE Commit(r)
    <3>1. pc' = [pc EXCEPT ![r] = "commit"] \/ pc' = [pc EXCEPT ![r] = "stale"]
      BY <2>12, LoopBehind DEF Commit
    <3> QED
      BY <2>12, <3>1 DEF Commit
  <2>13. CASE RemoveStale(r)
    <3>1. pc' = [pc EXCEPT ![r] = "stale"] \/ pc' = [pc EXCEPT ![r] = "done"]
      BY <2>13, LoopBehind DEF RemoveStale
    <3> QED
      BY <2>13, <3>1 DEF RemoveStale
  <2>14. CASE BeginRemoval(r)
    BY <2>14 DEF BeginRemoval, Go
  <2>15. CASE MoveDropIn(r)
    BY <2>15 DEF MoveDropIn, Go
  <2>16. CASE Retest(r)
    BY <2>16 DEF Retest, Go, Accepts
  <2>17. CASE PutBack(r)
    BY <2>17 DEF PutBack, Go
  <2>18. CASE DropBackup(r)
    BY <2>18 DEF DropBackup, Go
  <2>19. CASE RemoveCA(r)
    BY <2>19 DEF RemoveCA, Go
  <2>20. CASE RemoveDir(r)
    BY <2>20 DEF RemoveDir, Go
  <2>21. CASE Abort(r)
    BY <2>21 DEF Abort, Go, Fail
  <2> QED
    BY <1>1, <2>1, <2>2, <2>3, <2>4, <2>5, <2>6, <2>7, <2>8, <2>9,
       <2>10, <2>11, <2>12, <2>13, <2>14, <2>15, <2>16, <2>17,
       <2>18, <2>19, <2>20, <2>21 DEF Sync, Removal
<1>2. CASE EditHost
  BY <1>2 DEF EditHost
<1>3. CASE UNCHANGED vars
  BY <1>3 DEF vars
<1> QED
  BY <1>1, <1>2, <1>3 DEF Next

LEMMA SamePlan ==
  ASSUME NEW r \in Runs, UNCHANGED <<plan, before>>
  PROVE  /\ Changed(r)' = Changed(r) /\ New(r)' = New(r)
         /\ \A f \in Files : Result(r, f)' = Result(r, f) /\ Saved(r, f)' = Saved(r, f)
  BY DEF Changed, New, Result, Saved

LEMMA ExactSame ==
  ASSUME NEW r \in Runs, ExactAt(r),
         UNCHANGED <<live, bak, tmp, pc, i, plan, stale, new, before>>
  PROVE  ExactAt(r)'
<1>1. File(r)' = File(r) /\ Behind(r)' = Behind(r)
  BY SameFile
<1>2. InHand(r)' <=> InHand(r)
  BY <1>1, SamePlan DEF InHand
<1>3. HalfWay(r)' <=> HalfWay(r)
  BY <1>1, <1>2, SamePlan DEF HalfWay
<1>4. Synchronised(r)' <=> Synchronised(r)
  BY <1>1, <1>3, SamePlan DEF Synchronised
<1>5. RolledBack(r)' <=> RolledBack(r)
  BY <1>1, SamePlan DEF RolledBack
<1>6. Cleared(r)' <=> Cleared(r)
  BY DEF Cleared
<1> QED
  BY <1>4, <1>5, <1>6 DEF ExactAt

(* The loop that writes the files goes on: one more file is as the plan has it. *)
LEMMA Advance ==
  ASSUME NEW r \in Runs, TypeOK, ExactAt(r), pc[r] \in {"compare", "rename"},
         Loop(r, "compare", "test"), UNCHANGED <<bak, plan, stale, new, before>>,
         live' \in [Files -> Some],
         \A f \in Files : tmp'[f] = None,
         \A f \in Behind(r) \cup {File(r)} : f \in Files =>
           live'[f] = Result(r, f) /\ bak[f] = Saved(r, f) /\ (f \in new[r] <=> f \in New(r)),
         \A f \in Files \ (Behind(r) \cup {File(r)}) :
           live'[f] = before[r][f] /\ bak[f] = None /\ f \notin new[r]
  PROVE  ExactAt(r)'
<1> USE DEF ExactAt, Synchronised, RolledBack, Cleared, Ended, SyncPC, Copying
<1>1. CASE pc'[r] = "compare" /\ Behind(r)' = Behind(r) \cup {File(r)}
  <2>1. \A f \in Files :
          /\ live'[f] = IF f \in Behind(r)' THEN Result(r, f)' ELSE before'[r][f]
          /\ bak'[f] = IF f \in Behind(r)' THEN Saved(r, f)' ELSE None
          /\ tmp'[f] = None
          /\ f \in new'[r] <=> f \in New(r)' \cap Behind(r)'
    <3>1. New(r)' = New(r) /\ \A f \in Files : Result(r, f)' = Result(r, f) /\ Saved(r, f)' = Saved(r, f)
      BY SamePlan
    <3>2. TAKE f \in Files
    <3>3. CASE f \in Behind(r)'
      <4>1. f \in Behind(r) \cup {File(r)}
        BY <1>1, <3>3
      <4> QED
        BY <3>1, <3>3, <4>1
    <3>4. CASE f \notin Behind(r)'
      <4>1. f \notin Behind(r) \cup {File(r)}
        BY <1>1, <3>4
      <4> QED
        BY <3>1, <3>4, <4>1
    <3> QED
      BY <3>3, <3>4
  <2>2. HalfWay(r)'
    BY <1>1, <2>1 DEF HalfWay
  <2> QED
    BY <1>1, <2>2
<1>2. CASE pc'[r] = "test" /\ Behind(r) \cup {File(r)} = Files
  <2>1. new[r] = New(r)
    BY <1>2 DEF TypeOK, New, Changed
  <2>2. new'[r] = New(r)'
    BY <2>1, SamePlan
  <2>3. \A f \in Files : live'[f] = Result(r, f)' /\ bak'[f] = Saved(r, f)'
    <3>1. \A f \in Files : Result(r, f)' = Result(r, f) /\ Saved(r, f)' = Saved(r, f)
      BY SamePlan
    <3>2. \A f \in Files : f \in Behind(r) \cup {File(r)}
      BY <1>2
    <3> QED
      BY <3>1, <3>2
  <2> QED
    BY <1>2, <2>2, <2>3
<1>3. \/ pc'[r] = "compare" /\ Behind(r)' = Behind(r) \cup {File(r)}
      \/ pc'[r] = "test" /\ Behind(r) \cup {File(r)} = Files
  <2>1. TypeOK /\ r \in Runs /\ Loop(r, "compare", "test")
    OBVIOUS
  <2> QED
    BY ONLY <2>1, LoopAt
<1> QED
  BY <1>1, <1>2, <1>3

LEMMA ExactStep ==
  ASSUME NEW r, Runs = {r}, TypeOK, AtStart, Known(r), Whole, ExactAt(r), [Next]_vars
  PROVE  ExactAt(r)'
<1> USE FileInFiles, SameFile, SamePlan
    DEF TypeOK, ExactAt, Synchronised, RolledBack, Cleared, Ended, SyncPC, Copying, Some
<1>1. ASSUME Sync(r) \/ Removal(r) \/ Abort(r)
      PROVE  ExactAt(r)'
  <2>1. CASE Probe(r)
    <3>1. PICK p \in Plans : stale' = [stale EXCEPT ![r] = Stale(p)]
      BY <2>1 DEF Probe
    <3>2. pc'[r] = "check" /\ UNCHANGED <<live, bak, tmp, before>> /\ stale'[r] = Stale(p)
      BY <2>1, <3>1 DEF Probe, Go, host
    <3>3. \A f \in Files : bak[f] = None /\ tmp[f] = None
      BY <2>1 DEF Probe
    <3>4. \A f \in Principals : <<"bak", f>> \notin stale'[r] /\ <<"tmp", f>> \notin stale'[r]
      <4>1. \A f \in Principals : bak[f] = None /\ tmp[f] = None
        BY <3>3 DEF Principals
      <4>2. stale'[r] = Stale(p)
        BY <3>2
      <4> QED
        BY <4>1, <4>2 DEF Stale
    <3> QED
      BY <3>2, <3>3, <3>4
  <2>2. CASE Check(r)
    <3>1. Behind(r)' = {} /\ new'[r] = {} /\ before'[r] = live
          /\ UNCHANGED <<live, bak, tmp, stale>>
      BY <2>2, BehindNone DEF Check, AtStart, Loops, host
    <3>2. \A f \in Files : bak[f] = None /\ tmp[f] = None
      BY <2>2 DEF Check
    <3>3. CASE pc'[r] = "compare"
      BY <2>2, <3>1, <3>2, <3>3 DEF Check, HalfWay
    <3>4. CASE pc'[r] = "refused"
      BY <3>1, <3>2, <3>4
    <3> QED
      BY <2>2, <3>3, <3>4 DEF Check, Go
  <2>3. CASE Compare(r)
    <3>1. \A f \in Files :
            /\ live[f] = IF f \in Behind(r) THEN Result(r, f) ELSE before[r][f]
            /\ bak[f] = IF f \in Behind(r) THEN Saved(r, f) ELSE None
            /\ tmp[f] = None
            /\ f \in new[r] <=> f \in New(r) \cap Behind(r)
      BY <2>3 DEF Compare, HalfWay
    <3>2. pc[r] = "compare" /\ UNCHANGED <<live, bak, tmp, plan, stale, before>>
      BY <2>3 DEF Compare, host
    <3>3. CASE Wanted(r) \in {None, live[File(r)]}
      <4>1. File(r) \notin Behind(r) => File(r) \notin Changed(r)
        BY <3>1, <3>3 DEF Changed, Wanted
      <4>2. \A f \in Behind(r) \cup {File(r)} : f \in Files =>
              live[f] = Result(r, f) /\ bak[f] = Saved(r, f) /\ (f \in new[r] <=> f \in New(r))
        <5>1. \A f \in Behind(r) : f \in Files =>
                live[f] = Result(r, f) /\ bak[f] = Saved(r, f) /\ (f \in new[r] <=> f \in New(r))
          BY <3>1
        <5>2. CASE File(r) \notin Behind(r)
          <6>1. /\ live[File(r)] = before[r][File(r)] /\ bak[File(r)] = None
                /\ File(r) \notin new[r] /\ File(r) \notin Changed(r)
            BY <3>1, <4>1, <5>2
          <6>2. /\ live[File(r)] = Result(r, File(r)) /\ bak[File(r)] = Saved(r, File(r))
                /\ File(r) \notin New(r)
            BY <6>1 DEF Result, Saved, New, Changed
          <6> QED
            BY <5>1, <6>1, <6>2
        <5> QED
          BY <5>1, <5>2
      <4>3. Loop(r, "compare", "test") /\ UNCHANGED new
        BY <2>3, <3>3 DEF Compare
      <4> QED
        BY <3>1, <3>2, <4>2, <4>3, Advance
    <3>4. CASE Wanted(r) \notin {None, live[File(r)]}
      <4>1. File(r) \in Changed(r) \ Behind(r) /\ live[File(r)] = before[r][File(r)]
        BY <3>1, <3>4 DEF Changed, Result, Wanted
      <4>2. UNCHANGED i
        BY <2>3, <3>4 DEF Compare
      <4>3. CASE live[File(r)] # None
        <5>1. pc'[r] = "backup" /\ UNCHANGED new
          BY <2>3, <3>4, <4>3 DEF Compare, Go
        <5> QED
          BY <3>1, <3>2, <4>1, <4>2, <4>3, <5>1 DEF HalfWay, InHand
      <4>4. CASE live[File(r)] = None
        <5>1. pc'[r] = "stage" /\ new'[r] = new[r] \cup {File(r)}
          BY <2>3, <3>4, <4>4 DEF Compare, Go
        <5> QED
          BY <3>1, <3>2, <4>1, <4>2, <4>4, <5>1 DEF HalfWay, InHand
      <4> QED
        BY <4>3, <4>4
    <3> QED
      BY <3>3, <3>4
  <2>4. CASE Backup(r)
    <3>1. pc[r] = "backup" /\ HalfWay(r) /\ InHand(r)
      BY <2>4 DEF Backup, HalfWay
    <3>2. live[File(r)] # None
      BY <3>1 DEF HalfWay, InHand
    <3>3. pc'[r] = "copy" /\ bak' = [bak EXCEPT ![File(r)] = Torn]
          /\ UNCHANGED <<live, tmp, i, plan, stale, new, before>>
      BY <2>4, <3>2 DEF Backup, Go
    <3> QED
      BY <3>1, <3>3 DEF HalfWay, InHand
  <2>5. CASE Copy(r)
    <3>1. pc[r] = "copy" /\ HalfWay(r) /\ InHand(r)
      BY <2>5 DEF Copy, HalfWay
    <3>2. pc'[r] = "stage" /\ bak' = [bak EXCEPT ![File(r)] = live[File(r)]]
          /\ UNCHANGED <<live, tmp, i, plan, stale, new, before>>
      BY <2>5 DEF Copy, Go
    <3> QED
      BY <3>1, <3>2 DEF HalfWay, InHand
  <2>6. CASE Stage(r)
    <3>1. pc[r] = "stage" /\ HalfWay(r) /\ InHand(r)
      BY <2>6 DEF Stage, HalfWay
    <3>2. pc'[r] = "write" /\ tmp' = [tmp EXCEPT ![File(r)] = Torn]
          /\ UNCHANGED <<live, bak, i, plan, stale, new, before>>
      BY <2>6 DEF Stage, Go
    <3> QED
      BY <3>1, <3>2 DEF HalfWay, InHand
  <2>7. CASE Write(r)
    <3>1. pc[r] = "write" /\ HalfWay(r) /\ InHand(r)
      BY <2>7 DEF Write, HalfWay
    <3>2. pc'[r] = "rename" /\ tmp' = [tmp EXCEPT ![File(r)] = Wanted(r)]
          /\ UNCHANGED <<live, bak, i, plan, stale, new, before>>
      BY <2>7 DEF Write, Go
    <3> QED
      BY <3>1, <3>2 DEF HalfWay, InHand
  <2>8. CASE Rename(r)
    <3>1. pc[r] = "rename" /\ HalfWay(r) /\ InHand(r)
      BY <2>8 DEF Rename, HalfWay
    <3>2. Wanted(r) # None /\ tmp[File(r)] = Wanted(r) /\ Wanted(r) \in Some
      BY <3>1 DEF Known, Wanted
    <3>3. /\ live' = [live EXCEPT ![File(r)] = Wanted(r)]
          /\ tmp' = [tmp EXCEPT ![File(r)] = None]
          /\ Loop(r, "compare", "test")
          /\ UNCHANGED <<bak, plan, stale, new, before>>
      BY <2>8, <3>2 DEF Rename
    <3>4. live'[File(r)] = Result(r, File(r)) /\ bak[File(r)] = Saved(r, File(r))
          /\ (File(r) \in new[r] <=> File(r) \in New(r))
      BY <3>1, <3>2, <3>3 DEF InHand, Result, Saved, New, Wanted
    <3>5. \A f \in Files \ {File(r)} :
            /\ live'[f] = IF f \in Behind(r) THEN Result(r, f) ELSE before[r][f]
            /\ bak[f] = IF f \in Behind(r) THEN Saved(r, f) ELSE None
            /\ f \in new[r] <=> f \in New(r) \cap Behind(r)
      BY <3>1, <3>3 DEF HalfWay
    <3>6. \A f \in Files : tmp'[f] = None
      BY <3>1, <3>3 DEF HalfWay
    <3>7. live' \in [Files -> Some]
      BY <3>2, <3>3
    <3>8. \A f \in Behind(r) \cup {File(r)} : f \in Files =>
            live'[f] = Result(r, f) /\ bak[f] = Saved(r, f) /\ (f \in new[r] <=> f \in New(r))
      BY <3>4, <3>5
    <3>9. \A f \in Files \ (Behind(r) \cup {File(r)}) :
            live'[f] = before[r][f] /\ bak[f] = None /\ f \notin new[r]
      BY <3>5
    <3> QED
      BY <3>1, <3>3, <3>6, <3>7, <3>8, <3>9, Advance
  <2>9. CASE Test(r)
    <3>1. Behind(r)' = {} /\ UNCHANGED <<live, bak, tmp, plan, stale, new, before>>
      BY <2>9, BehindNone DEF Test, AtStart, Loops, host
    <3>2. new[r] = New(r) /\ \A f \in Files :
            live[f] = Result(r, f) /\ bak[f] = Saved(r, f) /\ tmp[f] = None
      BY <2>9 DEF Test
    <3>3. pc[r] = "test" /\ pc'[r] \in {"commit", "restore"}
      BY <2>9 DEF Test, Go
    <3> QED
      BY <3>1, <3>2, <3>3, SamePlan
  <2>10. CASE Restore(r)
    <3>1. /\ pc[r] = "restore" /\ Loop(r, "restore", "undo")
          /\ UNCHANGED <<tmp, plan, stale, new, before>>
      BY <2>10 DEF Restore
    <3>2. new[r] = New(r) /\ \A f \in Files :
            /\ live[f] = IF f \in Behind(r) \ New(r) THEN before[r][f] ELSE Result(r, f)
            /\ bak[f] = IF f \in Behind(r) THEN None ELSE Saved(r, f)
            /\ tmp[f] = None
      BY <3>1
    <3>3. live'[File(r)] = (IF File(r) \in New(r) THEN Result(r, File(r)) ELSE before[r][File(r)])
          /\ bak'[File(r)] = None
      <4>1. CASE Wanted(r) # None /\ bak[File(r)] # None
        BY <2>10, <3>2, <4>1 DEF Restore, Saved, New, Changed
      <4>2. CASE ~(Wanted(r) # None /\ bak[File(r)] # None)
        BY <2>10, <3>2, <4>2 DEF Restore, Saved, New, Changed, Result, Wanted
      <4> QED
        BY <4>1, <4>2
    <3>4. \A f \in Files \ {File(r)} : live'[f] = live[f] /\ bak'[f] = bak[f]
      BY <2>10 DEF Restore
    <3>5. live' \in [Files -> Some]
      <4>1. CASE Wanted(r) # None /\ bak[File(r)] # None
        <5>1. bak[File(r)] \in Some
          BY <3>2, <4>1 DEF Saved
        <5> QED
          BY <2>10, <4>1, <5>1 DEF Restore
      <4>2. CASE ~(Wanted(r) # None /\ bak[File(r)] # None)
        BY <2>10, <4>2 DEF Restore
      <4> QED
        BY <4>1, <4>2
    <3>6. CASE pc'[r] = "restore" /\ Behind(r)' = Behind(r) \cup {File(r)}
      BY <3>1, <3>2, <3>3, <3>4, <3>5, <3>6, SamePlan
    <3>7. CASE pc'[r] = "undo" /\ Behind(r)' = {} /\ Behind(r) \cup {File(r)} = Files
      BY <3>1, <3>2, <3>3, <3>4, <3>5, <3>7, SamePlan
    <3>8. \/ pc'[r] = "restore" /\ Behind(r)' = Behind(r) \cup {File(r)}
          \/ pc'[r] = "undo" /\ Behind(r)' = {} /\ Behind(r) \cup {File(r)} = Files
      BY <3>1, LoopAt
    <3> QED
      BY <3>6, <3>7, <3>8
  <2>11. CASE Undo(r)
    <3>1. /\ pc[r] = "undo" /\ Loop(r, "undo", "rolled back")
          /\ live' = IF File(r) \in new[r] THEN [live EXCEPT ![File(r)] = None] ELSE live
          /\ UNCHANGED <<bak, tmp, plan, stale, new, before>>
      BY <2>11 DEF Undo
    <3>2. new[r] = New(r) /\ \A f \in Files :
            /\ live[f] = IF f \in New(r) \ Behind(r) THEN Result(r, f) ELSE before[r][f]
            /\ bak[f] = None /\ tmp[f] = None
      BY <3>1
    <3>3. live'[File(r)] = before[r][File(r)]
      BY <3>1, <3>2 DEF New
    <3>4. \A f \in Files \ {File(r)} : live'[f] = live[f]
      BY <3>1
    <3>5. live' \in [Files -> Some]
      BY <3>1
    <3>6. CASE pc'[r] = "undo" /\ Behind(r)' = Behind(r) \cup {File(r)}
      BY <3>1, <3>2, <3>3, <3>4, <3>5, <3>6, SamePlan
    <3>7. CASE pc'[r] = "rolled back" /\ Behind(r) \cup {File(r)} = Files
      BY <3>1, <3>2, <3>3, <3>4, <3>5, <3>7
    <3>8. \/ pc'[r] = "undo" /\ Behind(r)' = Behind(r) \cup {File(r)}
          \/ pc'[r] = "rolled back" /\ Behind(r) \cup {File(r)} = Files
      BY <3>1, LoopAt
    <3> QED
      BY <3>6, <3>7, <3>8
  <2>12. CASE Commit(r)
    <3>1. /\ pc[r] = "commit" /\ Loop(r, "commit", "stale")
          /\ bak' = IF Wanted(r) # None THEN [bak EXCEPT ![File(r)] = None] ELSE bak
          /\ UNCHANGED <<live, tmp, plan, stale, new, before>>
      BY <2>12 DEF Commit
    <3>2. \A f \in Files : /\ live[f] = Result(r, f) /\ tmp[f] = None
                          /\ bak[f] = IF f \in Behind(r) THEN None ELSE Saved(r, f)
      BY <3>1
    <3>3. bak'[File(r)] = None
      BY <3>1, <3>2 DEF Saved, Changed, Wanted
    <3>4. \A f \in Files \ {File(r)} : bak'[f] = bak[f]
      BY <3>1
    <3>5. CASE pc'[r] = "commit" /\ Behind(r)' = Behind(r) \cup {File(r)}
      BY <3>1, <3>2, <3>3, <3>4, <3>5, SamePlan
    <3>6. CASE pc'[r] = "stale" /\ Behind(r) \cup {File(r)} = Files
      BY <3>1, <3>2, <3>3, <3>4, <3>6
    <3>7. \/ pc'[r] = "commit" /\ Behind(r)' = Behind(r) \cup {File(r)}
          \/ pc'[r] = "stale" /\ Behind(r) \cup {File(r)} = Files
      BY <3>1, LoopAt
    <3> QED
      BY <3>5, <3>6, <3>7
  <2>13. CASE RemoveStale(r)
    <3>1. /\ pc[r] = "stale" /\ Loop(r, "stale", "done")
          /\ live' = IF <<"live", File(r)>> \in stale[r]
                       THEN [live EXCEPT ![File(r)] = None] ELSE live
          /\ bak' = IF <<"bak", File(r)>> \in stale[r] THEN [bak EXCEPT ![File(r)] = None] ELSE bak
          /\ tmp' = IF <<"tmp", File(r)>> \in stale[r] THEN [tmp EXCEPT ![File(r)] = None] ELSE tmp
          /\ UNCHANGED <<plan, stale, new, before>>
      BY <2>13 DEF RemoveStale
    <3>2. live' \in [Files -> Some]
      BY <3>1
    <3>3. \A f \in Files : bak'[f] = None /\ tmp'[f] = None
      BY <3>1
    <3>4. pc'[r] \in {"stale", "done"}
      BY <3>1, LoopBehind
    <3> QED
      BY <3>1, <3>2, <3>3, <3>4
  <2>14. CASE BeginRemoval(r)
    BY <2>14 DEF BeginRemoval, Go, host
  <2>15. CASE MoveDropIn(r)
    <3>1. pc[r] = "move" /\ live[DropIn] # None /\ live[DropIn] = before[r][DropIn]
      BY <2>15, OrderAssumption DEF MoveDropIn
    <3>2. /\ bak' = [bak EXCEPT ![DropIn] = live[DropIn]]
          /\ live' = [live EXCEPT ![DropIn] = None] /\ pc'[r] = "retest"
          /\ UNCHANGED <<tmp, before>>
      BY <2>15, <3>1 DEF MoveDropIn, Go
    <3> QED
      BY <3>1, <3>2, OrderAssumption
  <2>16. CASE Retest(r)
    BY <2>16 DEF Retest, Go, host
  <2>17. CASE PutBack(r)
    <3>1. pc[r] = "put back" /\ bak[DropIn] = before[r][DropIn] /\ bak[DropIn] # None
      BY <2>17 DEF PutBack
    <3>2. /\ live' = [live EXCEPT ![DropIn] = bak[DropIn]]
          /\ bak' = [bak EXCEPT ![DropIn] = None] /\ pc'[r] = "rolled back"
          /\ UNCHANGED <<tmp, before>>
      BY <2>17, <3>1 DEF PutBack, Go
    <3> QED
      BY <3>1, <3>2, OrderAssumption
  <2>18. CASE DropBackup(r)
    <3>1. /\ pc[r] = "drop" /\ bak' = [bak EXCEPT ![DropIn] = None] /\ pc'[r] = "ca"
          /\ UNCHANGED <<live, tmp, before>>
      BY <2>18 DEF DropBackup, Go
    <3> QED
      BY <3>1, OrderAssumption
  <2>19. CASE RemoveCA(r)
    <3>1. /\ pc[r] = "ca" /\ live' = [live EXCEPT ![CA] = None] /\ pc'[r] = "dir"
          /\ UNCHANGED <<bak, tmp, before>>
      BY <2>19 DEF RemoveCA, Go
    <3> QED
      BY <3>1, OrderAssumption
  <2>20. CASE RemoveDir(r)
    <3>1. /\ pc[r] = "dir" /\ pc'[r] = "done" /\ UNCHANGED before
          /\ live' = [f \in Files |-> IF f \in Principals THEN None ELSE live[f]]
          /\ bak' = [f \in Files |-> IF f \in Principals THEN None ELSE bak[f]]
          /\ tmp' = [f \in Files |-> IF f \in Principals THEN None ELSE tmp[f]]
      BY <2>20 DEF RemoveDir, Go
    <3> QED
      BY <3>1
  <2>21. CASE Abort(r)
    BY <2>21 DEF Abort, Whole
  <2> QED
    BY <1>1, <2>1, <2>2, <2>3, <2>4, <2>5, <2>6, <2>7, <2>8, <2>9,
       <2>10, <2>11, <2>12, <2>13, <2>14, <2>15, <2>16, <2>17,
       <2>18, <2>19, <2>20, <2>21 DEF Sync, Removal
<1>2. CASE EditHost
  <2>1. UNCHANGED <<live, bak, tmp, pc, i, plan, stale, new, before>>
    BY <1>2 DEF EditHost
  <2> QED
    BY <2>1, ExactSame
<1>3. CASE UNCHANGED vars
  BY <1>3, ExactSame DEF vars
<1> QED
  BY <1>1, <1>2, <1>3 DEF Next

-----------------------------------------------------------------------------
LEMMA SameTrouble == [Next]_vars => UNCHANGED trouble
  BY DEF Next, vars, Sync, Removal, Probe, Check, Compare, Backup, Copy, Stage, Write,
         Rename, Test, Restore, Undo, Commit, RemoveStale, BeginRemoval, MoveDropIn,
         Retest, PutBack, DropBackup, RemoveCA, RemoveDir, Abort, EditHost, host, sshd

HostInv == Forward /\ Easy /\ Untorn /\ Exact

LEMMA HostInvInit == Init => HostInv
<1> SUFFICES ASSUME Init PROVE HostInv
  OBVIOUS
<1>1. Forward
  BY ForwardInit
<1>2. Easy /\ Untorn
  BY ContentAssumption DEF Init, Easy, Untorn, NeverTorn, Gone
<1>3. Exact
  BY DEF Init, Exact, ExactAt, Synchronised, RolledBack, Cleared, Copying, SyncPC,
         Ended, Gone, Some
<1> QED
  BY <1>1, <1>2, <1>3 DEF HostInv

LEMMA HostInvStep == OneRun /\ HostInv /\ [Next]_vars => HostInv'
<1> SUFFICES ASSUME OneRun, HostInv, [Next]_vars
             PROVE  HostInv'
  OBVIOUS
<1>1. PICK r : Runs = {r}
  BY DEF OneRun
<1>2. Forward'
  BY ForwardStep DEF HostInv
<1>3. Easy' /\ Untorn'
  BY <1>1, EasyStep DEF HostInv
<1>4. Exact'
  <2>1. Whole' <=> Whole
    BY SameTrouble DEF Whole
  <2>2. Whole => ExactAt(r)'
    BY <1>1, ExactStep DEF HostInv, Forward, ForwardAt, Exact
  <2> QED
    BY <1>1, <2>1, <2>2 DEF Exact
<1> QED
  BY <1>2, <1>3, <1>4 DEF HostInv

LEMMA HostInductive ==
  ASSUME OneRun PROVE Spec => []HostInv
<1>1. HostInv /\ [Next]_vars => HostInv'
  BY HostInvStep
<1> QED
  BY HostInvInit, <1>1, PTL DEF Spec

(* sshd never reads a file that is only written in part, whatever the plans, unless   *)
(* a host both rejects what nk writes and lets a run be cut off.                 *)
THEOREM NeverReadsTorn ==
  ASSUME OneRun, NeverBoth PROVE Spec => []NeverTorn
<1>1. HostInv => NeverTorn
  <2> SUFFICES ASSUME HostInv PROVE NeverTorn
    OBVIOUS
  <2>1. CASE "reject" \notin trouble
    BY <2>1 DEF HostInv, Untorn
  <2>2. CASE "reject" \in trouble
    <3>1. Whole
      BY <2>2 DEF NeverBoth, Whole, HostInv, Forward, TypeOK
    <3>2. live \in [Files -> Some]
      BY <3>1 DEF OneRun, HostInv, Exact, ExactAt
    <3> QED
      BY <3>2, ContentAssumption DEF NeverTorn, Some
  <2> QED
    BY <2>1, <2>2
<1> QED
  BY <1>1, HostInductive, PTL

(* A roll back leaves every file as the run found it, on a host where no run is       *)
(* cut off; a backup that an interrupted run left breaks it (run host_sync_restore).  *)
THEOREM RollBackRestores ==
  ASSUME OneRun PROVE Spec => [](Whole => RollBackExact)
<1>1. HostInv => (Whole => RollBackExact)
  <2> SUFFICES ASSUME HostInv, Whole, NEW r \in Runs, pc[r] = "rolled back"
               PROVE  live = before[r]
    BY DEF RollBackExact
  <2>1. ExactAt(r)
    BY DEF HostInv, Exact
  <2>2. live \in [Files -> Some] /\ before[r] \in [Files -> Some]
    BY <2>1 DEF ExactAt
  <2>3. \A f \in Files : live[f] = before[r][f]
    BY <2>1 DEF ExactAt, RolledBack
  <2>4. live = [f \in Files |-> live[f]] /\ before[r] = [f \in Files |-> before[r][f]]
    BY <2>2
  <2> QED
    BY <2>3, <2>4
<1> QED
  BY <1>1, HostInductive, PTL

-----------------------------------------------------------------------------
LEMMA Extensional ==
  ASSUME NEW r, ExactAt(r)', pc'[r] = "rolled back"
  PROVE  live' = before'[r]
<1>1. live' \in [Files -> Some] /\ before'[r] \in [Files -> Some]
  BY DEF ExactAt
<1>2. \A f \in Files : live'[f] = before'[r][f]
  BY DEF ExactAt, RolledBack
<1>3. live' = [f \in Files |-> live'[f]] /\ before'[r] = [f \in Files |-> before'[r][f]]
  BY <1>1
<1> QED
  BY <1>2, <1>3

AbstractStep == Abstract!Next \/ UNCHANGED <<Content, Want>>

(* A step of a script that is not cut off begins, applies or cancels a plan, clears    *)
(* the host, or changes nothing that counts.                                    *)
LEMMA RefineWhole ==
  ASSUME NEW r, Runs = {r}, Whole, HostInv, HostInv', [Next]_vars
  PROVE  AbstractStep
<1>1. TheRun = r
  BY DEF TheRun
<1>2. Whole' /\ ExactAt(r) /\ Known(r) /\ TypeOK
  BY SameTrouble DEF Whole, HostInv, Exact, Forward, ForwardAt
<1>3. At \in SyncPC => plan[r] \in Plans
  BY <1>1, <1>2 DEF Known, At
<1>4. ExactAt(r)'
  BY <1>2 DEF HostInv, Exact
<1>5. Forward
  BY DEF HostInv
<1> USE <1>1, <1>2, <1>3, PlanAssumption
    DEF AbstractStep, Content, Want, At, Undecided, Synced, Removed, Whole, SyncPC, RemovePC, Ended,
        TypeOK, Abstract!Next, Abstract!Begin, Abstract!Apply, Abstract!Cancel, Abstract!Clear
<1>6. ASSUME Sync(r) \/ Removal(r) \/ Abort(r)
      PROVE  AbstractStep
  <2>1. CASE Probe(r)
    <3>1. At \in Ended /\ At' = "check" /\ plan'[r] \in Plans /\ UNCHANGED live
      BY <2>1 DEF Probe, Go, host
    <3> QED
      BY <3>1
  <2>2. CASE Check(r)
    <3>1. At = "check" /\ before'[r] = live /\ UNCHANGED <<live, plan>>
          /\ At' \in {"compare", "refused"}
      BY <2>2 DEF Check, Go, host
    <3> QED
      BY <3>1
  <2>3. CASE Compare(r)
    <3>1. At = "compare" /\ At' \in {"compare", "backup", "stage", "test"} /\ UNCHANGED <<plan, before>>
      BY <2>3 DEF Compare, Go, Loop, host
    <3> QED
      BY <3>1
  <2>4. CASE Backup(r)
    <3>1. live[File(r)] # None
      <4>1. pc[r] = "backup" /\ HalfWay(r) /\ InHand(r)
        BY <1>2, <2>4 DEF Backup, HalfWay, ExactAt, Synchronised, Copying
      <4>2. File(r) \in Files /\ File(r) \notin Behind(r) /\ before[r][File(r)] # None
        BY <4>1, FileInFiles DEF InHand, Changed
      <4> QED
        BY <4>1, <4>2 DEF HalfWay
    <3>2. At = "backup" /\ At' = "copy" /\ UNCHANGED <<plan, before>>
      BY <2>4, <3>1 DEF Backup, Go
    <3> QED
      BY <3>2
  <2>5. CASE Copy(r)
    <3>1. At = "copy" /\ At' = "stage" /\ UNCHANGED <<plan, before>>
      BY <2>5 DEF Copy, Go, host
    <3> QED
      BY <3>1
  <2>6. CASE Stage(r)
    <3>1. At = "stage" /\ At' = "write" /\ UNCHANGED <<plan, before>>
      BY <2>6 DEF Stage, Go, host
    <3> QED
      BY <3>1
  <2>7. CASE Write(r)
    <3>1. At = "write" /\ At' = "rename" /\ UNCHANGED <<plan, before>>
      BY <2>7 DEF Write, Go, host
    <3> QED
      BY <3>1
  <2>8. CASE Rename(r)
    <3>1. tmp[File(r)] # None
      BY <1>2, <2>8 DEF Rename, Known, Copying
    <3>2. At = "rename" /\ At' \in {"compare", "test"} /\ UNCHANGED <<plan, before>>
      BY <2>8, <3>1 DEF Rename, Loop, Go
    <3> QED
      BY <3>2
  <2>9. CASE Test(r)
    <3>1. At = "test" /\ At' \in {"commit", "restore"} /\ UNCHANGED <<plan, before>>
      BY <2>9 DEF Test, Go
    <3> QED
      BY <3>1
  <2>10. CASE Restore(r)
    <3>1. At = "restore" /\ At' \in {"restore", "undo"} /\ UNCHANGED <<plan, before>>
      BY <2>10 DEF Restore, Loop, Go
    <3> QED
      BY <3>1
  <2>11. CASE Undo(r)
    <3>1. At = "undo" /\ At' \in {"undo", "rolled back"} /\ UNCHANGED <<plan, before>>
      BY <2>11 DEF Undo, Loop, Go
    <3>2. At' = "rolled back" => live' = before'[r]
      BY <1>1, <1>4, Extensional
    <3> QED
      BY <3>1, <3>2
  <2>12. CASE Commit(r)
    <3>1. At = "commit" /\ At' \in {"commit", "stale"} /\ UNCHANGED <<plan, before>>
      BY <2>12 DEF Commit, Go, Loop, host
    <3> QED
      BY <3>1
  <2>13. CASE RemoveStale(r)
    <3>1. At = "stale" /\ At' \in {"stale", "done"} /\ UNCHANGED <<plan, before>>
      BY <2>13 DEF RemoveStale, Loop, Go
    <3>2. At' = "done" => live' = plan[r]
      <4>1. Act(r) /\ ForwardAt(r) /\ r \in Runs
        BY <2>13, <1>5 DEF Act, Sync, Forward
      <4>2. pc[r] = "stale" /\ (At' = "done" <=> pc'[r] = "done")
        BY <3>1
      <4> QED
        BY <4>1, <4>2, LastRound
    <3> QED
      BY <3>1, <3>2
  <2>14. CASE BeginRemoval(r)
    <3>1. At \in Ended /\ At' \in {"move", "ca"} /\ before'[r] = live
      BY <2>14 DEF BeginRemoval, Go, host
    <3> QED
      BY <3>1
  <2>15. CASE MoveDropIn(r)
    <3>1. live[DropIn] # None
      BY <1>2, <2>15, OrderAssumption DEF MoveDropIn, ExactAt, Cleared
    <3>2. At = "move" /\ At' = "retest" /\ UNCHANGED <<plan, before>>
      BY <2>15, <3>1 DEF MoveDropIn, Go
    <3> QED
      BY <3>2
  <2>16. CASE Retest(r)
    <3>1. At = "retest" /\ At' \in {"drop", "put back"} /\ UNCHANGED before
      BY <2>16 DEF Retest, Go
    <3> QED
      BY <3>1
  <2>17. CASE PutBack(r)
    <3>1. bak[DropIn] # None
      BY <1>2, <2>17 DEF PutBack, ExactAt, Cleared
    <3>2. At = "put back" /\ At' = "rolled back" /\ UNCHANGED before
      BY <2>17, <3>1 DEF PutBack, Go
    <3>3. live' = before'[r]
      BY <1>1, <3>2, <1>4, Extensional
    <3> QED
      BY <3>2, <3>3
  <2>18. CASE DropBackup(r)
    <3>1. At = "drop" /\ At' = "ca"
      BY <2>18 DEF DropBackup, Go
    <3> QED
      BY <3>1
  <2>19. CASE RemoveCA(r)
    <3>1. At = "ca" /\ At' = "dir"
      BY <2>19 DEF RemoveCA, Go
    <3> QED
      BY <3>1
  <2>20. CASE RemoveDir(r)
    <3>1. At = "dir" /\ At' = "done"
      BY <2>20 DEF RemoveDir, Go
    <3>2. live' = Gone
      <4>1. live[CA] = None /\ live[DropIn] = None
        BY <1>2, <2>20 DEF RemoveDir, ExactAt, Cleared
      <4>2. live' = [f \in Files |-> IF f \in Principals THEN None ELSE live[f]]
        BY <2>20 DEF RemoveDir
      <4>3. \A f \in Files : f \in Principals \/ f = CA \/ f = DropIn
        BY DEF Principals
      <4> QED
        BY <4>1, <4>2, <4>3 DEF Gone
    <3> QED
      BY <3>1, <3>2
  <2>21. CASE Abort(r)
    BY <2>21 DEF Abort
  <2> QED
    BY <1>6, <2>1, <2>2, <2>3, <2>4, <2>5, <2>6, <2>7, <2>8, <2>9,
       <2>10, <2>11, <2>12, <2>13, <2>14, <2>15, <2>16, <2>17,
       <2>18, <2>19, <2>20, <2>21 DEF Sync, Removal
<1>7. CASE EditHost
  BY <1>7 DEF EditHost
<1>8. CASE UNCHANGED vars
  BY <1>8 DEF vars
<1> QED
  BY <1>6, <1>7, <1>8 DEF Next

LEMMA RefineStep ==
  OneRun /\ HostInv /\ HostInv' /\ [Next]_vars => [Abstract!Next]_<<Content, Want>>
<1> SUFFICES ASSUME OneRun, HostInv, HostInv', [Next]_vars
             PROVE  AbstractStep
  BY DEF AbstractStep
<1>1. PICK r : Runs = {r}
  BY DEF OneRun
<1>2. CASE Whole
  BY <1>1, <1>2, RefineWhole
<1>3. CASE ~Whole
  <2>1. ~Whole'
    BY <1>3, SameTrouble DEF Whole
  <2> QED
    BY <1>3, <2>1 DEF AbstractStep, Content, Want
<1> QED
  BY <1>2, <1>3

(* HostSync implements HostAtomic: nk sync and nk rm take effect as a whole, when sshd    *)
(* accepts the result, or not at all.                                             *)
THEOREM Atomicity ==
  ASSUME OneRun PROVE Spec => AllOrNothing
<1>1. Init => Abstract!Init
  <2>1. TheRun \in Runs
    BY DEF OneRun, TheRun
  <2> QED
    BY <2>1 DEF Init, Abstract!Init, Content, Want, At, Undecided, Synced, Removed, SyncPC
<1>2. HostInv /\ HostInv' /\ [Next]_vars => [Abstract!Next]_<<Content, Want>>
  BY RefineStep
<1> QED
  BY <1>1, <1>2, HostInductive, PTL DEF Spec, AllOrNothing, Abstract!Spec
=============================================================================
