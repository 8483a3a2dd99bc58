----------------------------- MODULE HostAtomic -----------------------------
(* What nk sync and nk rm promise about the files of a host: each run takes    *)
(* effect as a whole, or not at all.                                         *)
CONSTANTS Plans,  \* the plans a sync may have
          Gone,   \* no file of nk on the host
          None    \* no sync is under way

VARIABLES content, \* the files of the host
          want     \* the plan of a sync that is not decided yet

Init == content = Gone /\ want = None

Begin  == want = None /\ want' \in Plans /\ UNCHANGED content
Apply  == want # None /\ content' = want /\ want' = None
Cancel == want # None /\ want' = None /\ UNCHANGED content
Clear  == want = None /\ content' = Gone /\ UNCHANGED want

Next == Begin \/ Apply \/ Cancel \/ Clear

Spec == Init /\ [][Next]_<<content, want>>
=============================================================================
