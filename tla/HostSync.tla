------------------------------ MODULE HostSync ------------------------------
(***************************************************************************)
(* The shell scripts that nk sync and nk rm run as root on a server without   *)
(* the daemon (internal/manual/script.go): files written one command at a     *)
(* time beside an sshd that reads them at any moment, a roll back when        *)
(* sshd -t rejects the result, and what an interrupted run leaves behind.     *)
(*                                                                         *)
(* A member of Runs is a place a script runs in: an operator with nk, whose   *)
(* next run starts when the last one has ended.                              *)
(***************************************************************************)
EXTENDS Naturals, Sequences

CONSTANTS
  Runs,
  Order,      \* the files in the order a plan lists them
  CA, DropIn, \* the first two, the others are principals files
  Contents,   \* what nk may write into a file
  Verdicts,   \* what the sshd of a host may reject: sets of <<file, content>>
  Troubles,   \* what a host may come with: sets of "abort" (a script may end at any
              \* command) and "reject" (its sshd may reject what is in Verdicts)
  Torn,       \* a file that is only written in part
  None

Files      == {Order[k] : k \in DOMAIN Order}
Principals == Files \ {CA, DropIn}

ASSUME OrderAssumption ==
  Order \in Seq(Files) /\ {CA, DropIn} \subseteq Files /\ CA # DropIn
ASSUME ContentAssumption == None \notin Contents /\ Torn \notin Contents /\ None # Torn

VARIABLES
  trouble, \* the member of Troubles this host comes with
  live,    \* live[f]: the file sshd reads
  bak,     \* bak[f]: f.nokku-bak
  tmp,     \* tmp[f]: f.nokku-tmp
  pc,      \* pc[r]: the next command of run r
  i,       \* i[r]: where its loop over Order is
  plan,    \* plan[r]: the content of each file, None for an account that is gone
  stale,   \* stale[r]: <<kind, f>> that its probe found in the principals directory
           \* and that is no account's file
  rejected, \* what sshd -t rejects as the host is now
  new,     \* new[r]: nk_new, the files that were not there before
  before   \* before[r]: the files when the run began (history variable)

host == <<trouble, live, bak, tmp, rejected>>
sshd == <<trouble, rejected>>
vars == <<trouble, live, bak, tmp, rejected, pc, i, plan, stale, new, before>>

Some     == Contents \cup {None}
Plans    == {p \in [Files -> Some] : p[CA] # None /\ p[DropIn] # None}
Gone     == [f \in Files |-> None]
Ended    == {"idle", "done", "refused", "rolled back", "failed"}
SyncPC   == {"check", "compare", "backup", "copy", "stage", "write", "rename",
             "test", "restore", "undo", "commit", "stale"}
RemovePC == {"move", "retest", "put back", "drop", "ca", "dir"}

TypeOK ==
  /\ trouble \in Troubles
  /\ live \in [Files -> Some \cup {Torn}]
  /\ bak \in [Files -> Some \cup {Torn}]
  /\ tmp \in [Files -> Some \cup {Torn}]
  /\ rejected \in Verdicts \cup {{}}
  /\ pc \in [Runs -> Ended \cup SyncPC \cup RemovePC]
  /\ i \in [Runs -> 1..Len(Order)]
  /\ plan \in [Runs -> [Files -> Some]]
  /\ stale \in [Runs -> SUBSET ({"live", "bak", "tmp"} \X Principals)]
  /\ new \in [Runs -> SUBSET Files]
  /\ before \in [Runs -> [Files -> Some \cup {Torn}]]

Init ==
  /\ live = Gone /\ bak = Gone /\ tmp = Gone
  /\ trouble \in Troubles
  /\ rejected \in IF "reject" \in trouble THEN Verdicts ELSE {{}}
  /\ pc = [r \in Runs |-> "idle"]
  /\ i = [r \in Runs |-> 1]
  /\ plan = [r \in Runs |-> Gone]
  /\ stale = [r \in Runs |-> {}]
  /\ new = [r \in Runs |-> {}]
  /\ before = [r \in Runs |-> Gone]

-----------------------------------------------------------------------------
(* sshd -t *)
Accepts == \A f \in Files : <<f, live[f]>> \notin rejected

File(r) == Order[i[r]]
Wanted(r) == plan[r][File(r)]
Go(r, l) == pc' = [pc EXCEPT ![r] = l]

(* The script ends here, the next one starts with the first file. *)
Fail(r) == Go(r, "failed") /\ i' = [i EXCEPT ![r] = 1]

(* Mutant: the loop runs once too often. *)
LoopPast(r, again, then) ==
  IF i[r] <= Len(Order)
    THEN i' = [i EXCEPT ![r] = @ + 1] /\ Go(r, again)
    ELSE i' = [i EXCEPT ![r] = 1] /\ Go(r, then)

(* The next round of a loop over the plan, or what follows it. *)
Loop(r, again, then) ==
  IF i[r] < Len(Order)
    THEN i' = [i EXCEPT ![r] = @ + 1] /\ Go(r, again)
    ELSE i' = [i EXCEPT ![r] = 1] /\ Go(r, then)

(* Mutant: only files of former accounts are looked for. *)
StaleAccounts(p) == {<<"live", f>> : f \in {g \in Principals : live[g] # None /\ p[g] = None}}

(* What of the principals directory is not the file of an account in plan p, what   *)
(* an earlier run left there included.                                        *)
Stale(p) ==
  {<<"live", f>> : f \in {g \in Principals : live[g] # None /\ p[g] = None}}
  \cup {<<"bak", f>> : f \in {g \in Principals : bak[g] # None}}
  \cup {<<"tmp", f>> : f \in {g \in Principals : tmp[g] # None}}

(* ProbeCommand and NewPlan. *)
Probe(r) ==
  /\ pc[r] \in Ended
  /\ \E p \in Plans :
       /\ plan' = [plan EXCEPT ![r] = p]
       /\ stale' = [stale EXCEPT ![r] = Stale(p)]
  /\ Go(r, "check")
  /\ UNCHANGED <<host, i, new, before>>

(* A host whose sshd config is invalid already is left alone. *)
Check(r) ==
  /\ pc[r] = "check"
  /\ Go(r, IF Accepts THEN "compare" ELSE "refused")
  /\ new' = [new EXCEPT ![r] = {}]
  /\ before' = [before EXCEPT ![r] = live]
  /\ UNCHANGED <<host, i, plan, stale>>

(* An unchanged file is skipped, one that exists is backed up first. *)
Compare(r) ==
  /\ pc[r] = "compare"
  /\ IF Wanted(r) \in {None, live[File(r)]}
       THEN Loop(r, "compare", "test") /\ UNCHANGED new
     ELSE IF live[File(r)] # None
       THEN Go(r, "backup") /\ UNCHANGED <<i, new>>
     ELSE /\ Go(r, "stage")
          /\ new' = [new EXCEPT ![r] = @ \cup {File(r)}]
          /\ UNCHANGED i
  /\ UNCHANGED <<host, plan, stale, before>>

(* cp opens the backup, then fills it. *)
Backup(r) ==
  /\ pc[r] = "backup"
  /\ IF live[File(r)] = None THEN Fail(r) /\ UNCHANGED bak
     ELSE bak' = [bak EXCEPT ![File(r)] = Torn] /\ Go(r, "copy") /\ UNCHANGED i
  /\ UNCHANGED <<sshd, live, tmp, plan, stale, new, before>>

Copy(r) ==
  /\ pc[r] = "copy"
  /\ bak' = [bak EXCEPT ![File(r)] = live[File(r)]]
  /\ Go(r, "stage")
  /\ UNCHANGED <<sshd, live, tmp, i, plan, stale, new, before>>

(* Mutant: the file is written in place. *)
StageInPlace(r) ==
  /\ pc[r] = "stage"
  /\ tmp' = [tmp EXCEPT ![File(r)] = Torn]
  /\ live' = [live EXCEPT ![File(r)] = Torn]
  /\ Go(r, "write")
  /\ UNCHANGED <<sshd, bak, i, plan, stale, new, before>>

(* printf > f.nokku-tmp opens the file, then fills it. *)
Stage(r) ==
  /\ pc[r] = "stage"
  /\ tmp' = [tmp EXCEPT ![File(r)] = Torn]
  /\ Go(r, "write")
  /\ UNCHANGED <<sshd, live, bak, i, plan, stale, new, before>>

Write(r) ==
  /\ pc[r] = "write"
  /\ tmp' = [tmp EXCEPT ![File(r)] = Wanted(r)]
  /\ Go(r, "rename")
  /\ UNCHANGED <<sshd, live, bak, i, plan, stale, new, before>>

(* mv of what is there, set -e ends the script when nothing is. *)
Rename(r) ==
  /\ pc[r] = "rename"
  /\ IF tmp[File(r)] = None
       THEN Fail(r) /\ UNCHANGED <<live, tmp>>
       ELSE /\ live' = [live EXCEPT ![File(r)] = tmp[File(r)]]
            /\ tmp' = [tmp EXCEPT ![File(r)] = None]
            /\ Loop(r, "compare", "test")
  /\ UNCHANGED <<sshd, bak, plan, stale, new, before>>

Test(r) ==
  /\ pc[r] = "test"
  /\ Go(r, IF Accepts THEN "commit" ELSE "restore")
  /\ UNCHANGED <<host, i, plan, stale, new, before>>

(* nk_restore: every backup of a planned file goes back ... *)
Restore(r) ==
  /\ pc[r] = "restore"
  /\ IF Wanted(r) # None /\ bak[File(r)] # None
       THEN /\ live' = [live EXCEPT ![File(r)] = bak[File(r)]]
            /\ bak' = [bak EXCEPT ![File(r)] = None]
       ELSE UNCHANGED <<live, bak>>
  /\ Loop(r, "restore", "undo")
  /\ UNCHANGED <<sshd, tmp, plan, stale, new, before>>

(* ... and every new file goes. *)
Undo(r) ==
  /\ pc[r] = "undo"
  /\ live' = IF File(r) \in new[r] THEN [live EXCEPT ![File(r)] = None] ELSE live
  /\ Loop(r, "undo", "rolled back")
  /\ UNCHANGED <<sshd, bak, tmp, plan, stale, new, before>>

(* Mutant: the backups stay. *)
KeepBackups(r) ==
  /\ pc[r] = "commit"
  /\ Loop(r, "commit", "stale")
  /\ UNCHANGED <<host, plan, stale, new, before>>

(* The backups go, then what is stale. *)
Commit(r) ==
  /\ pc[r] = "commit"
  /\ bak' = IF Wanted(r) # None THEN [bak EXCEPT ![File(r)] = None] ELSE bak
  /\ Loop(r, "commit", "stale")
  /\ UNCHANGED <<sshd, live, tmp, plan, stale, new, before>>

RemoveStale(r) ==
  /\ pc[r] = "stale"
  /\ LET Rm(kind, file) ==
           IF <<kind, File(r)>> \in stale[r] THEN [file EXCEPT ![File(r)] = None] ELSE file
     IN live' = Rm("live", live) /\ bak' = Rm("bak", bak) /\ tmp' = Rm("tmp", tmp)
  /\ Loop(r, "stale", "done")
  /\ UNCHANGED <<sshd, plan, stale, new, before>>

-----------------------------------------------------------------------------
(* RemoveScript.  The drop-in is moved away first ... *)
BeginRemoval(r) ==
  /\ pc[r] \in Ended
  /\ Go(r, IF live[DropIn] # None THEN "move" ELSE "ca")
  /\ before' = [before EXCEPT ![r] = live]
  /\ UNCHANGED <<host, i, plan, stale, new>>

(* Mutant: it is copied. *)
CopyDropIn(r) ==
  /\ pc[r] = "move"
  /\ bak' = [bak EXCEPT ![DropIn] = live[DropIn]]
  /\ Go(r, "retest")
  /\ UNCHANGED <<sshd, live, tmp, i, plan, stale, new, before>>

MoveDropIn(r) ==
  /\ pc[r] = "move"
  /\ IF live[DropIn] = None THEN Go(r, "failed") /\ UNCHANGED <<live, bak>>
     ELSE /\ bak' = [bak EXCEPT ![DropIn] = live[DropIn]]
          /\ live' = [live EXCEPT ![DropIn] = None]
          /\ Go(r, "retest")
  /\ UNCHANGED <<sshd, tmp, i, plan, stale, new, before>>

(* Mutant: the script gives up and leaves the drop-in aside. *)
RetestExit(r) ==
  /\ pc[r] = "retest"
  /\ Go(r, IF Accepts THEN "drop" ELSE "failed")
  /\ UNCHANGED <<host, i, plan, stale, new, before>>

(* ... and comes back when sshd rejects the config without it. *)
Retest(r) ==
  /\ pc[r] = "retest"
  /\ Go(r, IF Accepts THEN "drop" ELSE "put back")
  /\ UNCHANGED <<host, i, plan, stale, new, before>>

PutBack(r) ==
  /\ pc[r] = "put back"
  /\ IF bak[DropIn] = None THEN Go(r, "failed") /\ UNCHANGED <<live, bak>>
     ELSE /\ live' = [live EXCEPT ![DropIn] = bak[DropIn]]
          /\ bak' = [bak EXCEPT ![DropIn] = None]
          /\ Go(r, "rolled back")
  /\ UNCHANGED <<sshd, tmp, i, plan, stale, new, before>>

DropBackup(r) ==
  /\ pc[r] = "drop"
  /\ bak' = [bak EXCEPT ![DropIn] = None]
  /\ Go(r, "ca")
  /\ UNCHANGED <<sshd, live, tmp, i, plan, stale, new, before>>

RemoveCA(r) ==
  /\ pc[r] = "ca"
  /\ live' = [live EXCEPT ![CA] = None]
  /\ Go(r, "dir")
  /\ UNCHANGED <<sshd, bak, tmp, i, plan, stale, new, before>>

RemoveDir(r) ==
  /\ pc[r] = "dir"
  /\ LET Rm(file) == [f \in Files |-> IF f \in Principals THEN None ELSE file[f]]
     IN live' = Rm(live) /\ bak' = Rm(bak) /\ tmp' = Rm(tmp)
  /\ Go(r, "done")
  /\ UNCHANGED <<sshd, i, plan, stale, new, before>>

-----------------------------------------------------------------------------
(* A command fails (set -e), or the connection is lost and the script ends. *)
Abort(r) ==
  /\ "abort" \in trouble
  /\ pc[r] \notin Ended
  /\ Fail(r)
  /\ UNCHANGED <<host, plan, stale, new, before>>

Sync(r) ==
  \/ Probe(r) \/ Check(r) \/ Compare(r) \/ Backup(r) \/ Copy(r) \/ Stage(r)
  \/ Write(r) \/ Rename(r) \/ Test(r) \/ Restore(r) \/ Undo(r) \/ Commit(r)
  \/ RemoveStale(r)

Removal(r) ==
  \/ BeginRemoval(r) \/ MoveDropIn(r) \/ Retest(r) \/ PutBack(r)
  \/ DropBackup(r) \/ RemoveCA(r) \/ RemoveDir(r)

(* Somebody edits the sshd config of the host, or upgrades it. *)
EditHost ==
  /\ "reject" \in trouble
  /\ \E v \in Verdicts \ {rejected} : rejected' = v
  /\ UNCHANGED <<trouble, live, bak, tmp, pc, i, plan, stale, new, before>>

Next == (\E r \in Runs : Sync(r) \/ Removal(r) \/ Abort(r)) \/ EditHost

Spec == Init /\ [][Next]_vars

-----------------------------------------------------------------------------
(* "Stage then rename, so sshd never reads a torn file." *)
NeverTorn == \A f \in Files : live[f] # Torn

(* "rolls every file back when sshd rejects the result": after a roll back the  *)
(* files are those the run began with.                                        *)
RollBackExact ==
  \A r \in Runs : pc[r] = "rolled back" => live = before[r]

(* Success means done, wherever the runs before it were cut off.  A sync that       *)
(* ends well leaves the plan: every file is the plan's, none is left of an account   *)
(* that is gone, and of earlier runs no backup that a later roll back could restore   *)
(* and no staging file in the principals directory, where a file is an account's.     *)
(* "nk rm ... removes the Nokku CA, the sshd drop-in, and the principals files": one  *)
(* that ends well leaves none, and nothing else in that directory.  What may stay is   *)
(* f.nokku-tmp of CA and drop-in and, after nk rm, their f.nokku-bak.                 *)
DoneIsExact ==
  [][\A r \in Runs :
       /\ pc[r] = "stale" /\ pc'[r] = "done" =>
            live' = plan[r] /\ bak' = Gone /\ \A f \in Principals : tmp'[f] = None
       /\ pc[r] = "dir" /\ pc'[r] = "done" =>
            live' = Gone /\ \A f \in Principals : bak'[f] = None /\ tmp'[f] = None]_vars
=============================================================================
