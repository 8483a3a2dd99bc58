----------------------------- MODULE MCHostSync -----------------------------
(* HostSync on a host with one account besides the two fixed files.            *)
EXTENDS HostSync

CONSTANTS ca, dropin, root

MCOrder == <<ca, dropin, root>>

(* A host that accepts everything; one that rejects the new drop-in; one whose  *)
(* own config needs the drop-in.                                             *)
MCVerdicts == {{}, {<<dropin, 2>>}, {<<dropin, None>>}}

ASSUME PlanAssumption == None \notin Plans

-----------------------------------------------------------------------------
(* What the host will be when the run in progress ends: until sshd -t has       *)
(* accepted it nothing has changed, from then on everything has.              *)
TheRun == CHOOSE r \in Runs : TRUE
At     == pc[TheRun]

Undecided == {"compare", "backup", "copy", "stage", "write", "rename", "test",
              "restore", "undo", "move", "retest", "put back"}
Synced    == {"commit", "stale"}
Removed   == {"drop", "ca", "dir"}

(* A script that is cut off leaves its work half done: no content is claimed    *)
(* for a host where that happens.                                            *)
Whole == "abort" \notin trouble

Content ==
  IF ~Whole THEN Gone
  ELSE CASE At \in Undecided -> before[TheRun]
         [] At \in Synced    -> plan[TheRun]
         [] At \in Removed   -> Gone
         [] OTHER            -> live

Want ==
  IF Whole /\ At \in SyncPC \ (Synced \cup {"restore", "undo"}) THEN plan[TheRun] ELSE None

Abstract == INSTANCE HostAtomic WITH content <- Content, want <- Want

(* One run at a time, not interrupted: a sync or a removal takes effect as a     *)
(* whole or not at all, whatever sshd says of the host.                       *)
AllOrNothing == Abstract!Spec
=============================================================================
