----------------------------- MODULE MCSshConfig -----------------------------
(* SshConfig for a user with up to four lines of ssh config, two included files  *)
(* and a third that nk does not open, and three servers.                         *)
EXTENDS SshConfig

CONSTANTS x, y, z, d1, d2, d3, web, Web, db

MCFold == [n \in Names |-> IF n = Web THEN web ELSE n]

Host(ps) == [kind |-> "block", patterns |-> ps]
Named(ns) == [neg |-> FALSE, wild |-> FALSE, hits |-> ns]
Star == [neg |-> FALSE, wild |-> TRUE, hits |-> Folded]
Not(ns) == [neg |-> TRUE, wild |-> FALSE, hits |-> ns]

Blocks ==
  { Host({Named({web})}),                \* Host web
    Host({Star, Not({db})}),              \* Host * !db
    Host({Named({web, db}), Not({web})}),\* Host ?* ... !web
    Host({}) }                            \* Match all
Dest   == [kind |-> "dest"]
Option == [kind |-> "option"]
Incl(f) == [kind |-> "include", file |-> f]

Sequences(S, n) == UNION {[1..k -> S] : k \in 0..n}

(* The last two: a destination after an Include in its block, and a file nk does  *)
(* not open.                                                                   *)
MCMains ==
  Sequences(Blocks \cup {Dest, Incl(x), Incl(Nk)}, 3)
    \cup {<<b, Incl(x), c, Dest>> : b, c \in Blocks}
    \cup {<<Incl(x), Incl(y), b, Dest>> : b \in Blocks}
    \cup {<<b, Incl(y), c, Incl(x)>> : b, c \in Blocks}
    \cup {<<b, Incl(x), Option, Dest>> : b \in Blocks}
    \cup {<<b, Incl(z), Dest>> : b \in Blocks}

ExtraX == Sequences({Host({Named({db})}), Host({Star}), Dest, Incl(x)}, 2)
            \cup {<<Host({Named({db})}), Option, Dest>>}

MCExtras ==
  {[o \in {x, y, z} |-> CASE o = x -> f [] o = y -> g [] OTHER -> <<Dest>>] :
     f \in ExtraX, g \in {<<Host({Named({db})})>>, <<Dest>>}}

(* Servers with different names, one spelled twice, one named like another's id. *)
MCSnapshots ==
  { [t \in Ids |-> CASE t = d1 -> web [] t = d2 -> db [] OTHER -> None],
    [t \in Ids |-> CASE t = d1 -> web [] t = d2 -> Web [] OTHER -> d1],
    [t \in Ids |-> CASE t = d1 -> Web [] t = d2 -> None [] OTHER -> d2] }
=============================================================================
