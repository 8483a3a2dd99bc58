------------------------------ MODULE SshConfig ------------------------------
(***************************************************************************)
(* The names nk gives to servers in ssh_config (internal/ssh/config.go and      *)
(* own.go).  WriteConfigs reads the user's own ssh config, line by line and      *)
(* through its Includes, to see which names are taken.  Beside it goes what      *)
(* ssh makes of the same lines: which names each line is for.                   *)
(***************************************************************************)
EXTENDS Naturals, Sequences, FiniteSets

CONSTANTS
  Ids,        \* targets
  Names,      \* names of targets, an id may be one of them
  Fold,       \* Fold[n]: n in lower case
  UserConfig, \* ~/.ssh/config
  Nk,         \* the file nk writes
  Others,     \* files the user's config includes
  Unread,     \* those of them nk does not open: no regular file, too large, unreadable
  Mains,      \* what the user may have in it
  Extras,     \* what the user may have in the other files: [Others -> Seq(lines)]
  Snapshots,  \* what the backend lists: [Ids -> Names \cup {None}]
  MaxDepth,   \* maxIncludeDepth
  MaxFiles,   \* maxOwnFiles
  None

Folded == {Fold[n] : n \in Names}

ASSUME FoldAssumption == Fold \in [Names -> Names] /\ \A n \in Folded : Fold[n] = n
ASSUME FileAssumption ==
  /\ UserConfig # Nk /\ {UserConfig, Nk} \cap Others = {}
  /\ None \notin Names /\ Unread \subseteq Others
(* Ids are UUIDs in canonical form, so in lower case (state/map.go:96). *)
ASSUME IdAssumption == \A t \in Ids \cap Names : Fold[t] = t
ASSUME LimitAssumption == MaxDepth \in Nat /\ MaxFiles \in Nat \ {0}

(* A pattern stands for the names it hits; wild is one of * and ? only. *)
Pattern == [neg : BOOLEAN, wild : BOOLEAN, hits : SUBSET Folded]

(* A Host or Match line, what says where to connect, an Include, anything else.   *)
(* Match is a block like Host, its other criteria left out; without a host        *)
(* pattern it holds no pattern.                                                  *)
Lines ==
  [kind : {"block"}, patterns : SUBSET Pattern]
    \cup [kind : {"dest", "option"}]
    \cup [kind : {"include"}, file : Others \cup {UserConfig, Nk}]

ASSUME ConfigAssumption ==
  /\ Mains \subseteq Seq(Lines) /\ Extras \subseteq [Others -> Seq(Lines)]
  /\ Snapshots \subseteq [Ids -> Names \cup {None}] /\ IsFiniteSet(Ids)
  /\ None \notin Snapshots

VARIABLES
  main,     \* the lines of UserConfig, without the Include nk puts there
  extra,    \* the lines of the other files
  included, \* that Include is there
  phase,
  stack,    \* the files being read, the innermost last
  blocks,   \* r.blocks: patterns of a Host or Match line, and whether it has a destination
  cur,      \* r.cur: an index of blocks, 0 for nil
  files,    \* r.files
  alias,    \* what is in the file nk wrote
  snap,     \* the snapshot that file was written from, None if there is none
  active,   \* ssh: the block the current line is in, an index of blocks, 0 for none
  on,       \* ssh: the names the current line is for
  named,    \* ssh: those of them the user wrote down, not just matched by *
  sent,     \* ssh: names that were given a destination (history)
  agreed,   \* those that were given one where cur is active (history)
  limited   \* a file was left out that ssh may read (history)

reader == <<stack, blocks, cur, files>>
ssh    == <<active, on, named, sent, agreed>>
cvars  == <<main, extra, included, phase, reader, alias, snap, ssh, limited>>

Alias == [nokku : BOOLEAN, name : Names \cup Ids]
Block == [patterns : SUBSET Pattern, dest : BOOLEAN]
Frame == [file : Others \cup {UserConfig}, line : Nat,
          active : Nat, on : SUBSET Folded, named : SUBSET Folded]

CTypeOK ==
  /\ main \in Mains /\ extra \in Extras /\ included \in BOOLEAN
  /\ phase \in {"idle", "read", "write", "include"}
  /\ stack \in Seq(Frame) /\ Len(stack) <= MaxDepth + 1
  /\ blocks \in Seq(Block) /\ cur \in 0..Len(blocks)
  /\ files \in 0..MaxFiles
  /\ alias \in [Ids -> Alias \cup {None}] /\ snap \in Snapshots \cup {None}
  /\ active \in Nat /\ on \subseteq Folded /\ named \subseteq on
  /\ agreed \subseteq sent /\ sent \subseteq Folded
  /\ limited \in BOOLEAN

NoAlias == [t \in Ids |-> None]

CInit ==
  /\ main \in Mains /\ extra \in Extras /\ included \in BOOLEAN
  /\ phase = "idle"
  /\ stack = <<>> /\ blocks = <<>> /\ cur = 0 /\ files = 0
  /\ alias = NoAlias /\ snap = None
  /\ active = 0 /\ on = Folded /\ named = {} /\ sent = {} /\ agreed = {}
  /\ limited = FALSE

-----------------------------------------------------------------------------
(* The user's files and nk's own: a Host line and a ProxyCommand per server,     *)
(* here one Host line with all the bare names.                                 *)
Bare == {alias[t].name : t \in {u \in Ids : alias[u] # None /\ ~alias[u].nokku}}

NkLines ==
  << [kind |-> "block", patterns |-> {[neg |-> FALSE, wild |-> FALSE, hits |-> {Fold[n]}] : n \in Bare}],
     [kind |-> "dest"] >>

Text(f) == IF f = UserConfig THEN main ELSE IF f = Nk THEN NkLines ELSE extra[f]

(* nk's own line.  It stands for itself before line 1 of UserConfig: "it goes on    *)
(* top", and a reader that skips it does not tell from where.                     *)
IncludeNk == [kind |-> "include", file |-> Nk]

Top  == stack[Len(stack)]
Line == IF Top.line = 0 THEN IncludeNk ELSE Text(Top.file)[Top.line]
Rest == [stack EXCEPT ![Len(stack)].line = @ + 1]

(* The line to read, if it is of this kind. *)
At(kind) ==
  /\ phase = "read" /\ stack # <<>>
  /\ Top.line <= Len(Text(Top.file))
  /\ Line.kind = kind

(* What ssh matches, and what of it was named: a host that is hit by * alone    *)
(* gets defaults there.                                                       *)
Negated(ps) == UNION {p.hits : p \in {q \in ps : q.neg}}
Matches(ps) == UNION {p.hits : p \in {q \in ps : ~q.neg}} \ Negated(ps)
NamedIn(ps) == UNION {p.hits : p \in {q \in ps : ~q.neg /\ ~q.wild}} \ Negated(ps)

(* WriteConfigs: read() of UserConfig, at depth 0. *)
BeginWrite ==
  /\ phase = "idle"
  /\ phase' = "read"
  /\ stack' = <<[file |-> UserConfig, line |-> IF included THEN 0 ELSE 1,
                 active |-> 0, on |-> Folded, named |-> {}]>>
  /\ blocks' = <<>> /\ cur' = 0 /\ files' = 1
  /\ active' = 0 /\ on' = Folded /\ named' = {} /\ sent' = {} /\ agreed' = {}
  /\ limited' = FALSE
  /\ UNCHANGED <<main, extra, included, alias, snap>>

(* ssh: a block in an included file is for nobody the Include is not for. *)
ReadBlock ==
  /\ At("block")
  /\ blocks' = Append(blocks, [patterns |-> Line.patterns, dest |-> FALSE])
  /\ cur' = Len(blocks) + 1 /\ active' = cur'
  /\ stack' = Rest
  /\ on' = Top.on \cap (IF Line.patterns = {} THEN Folded ELSE Matches(Line.patterns))
  /\ named' = Top.on \cap NamedIn(Line.patterns)
  /\ UNCHANGED <<main, extra, included, phase, files, alias, snap, sent, agreed, limited>>

(* HostName, ProxyJump, ProxyCommand. *)
ReadDest ==
  /\ At("dest")
  /\ blocks' = IF cur = 0 THEN blocks ELSE [blocks EXCEPT ![cur].dest = TRUE]
  /\ sent' = sent \cup named
  /\ agreed' = IF cur = active THEN agreed \cup named ELSE agreed
  /\ stack' = Rest
  /\ UNCHANGED <<main, extra, included, phase, cur, files, alias, snap, active, on, named, limited>>

ReadOption ==
  /\ At("option")
  /\ stack' = Rest
  /\ UNCHANGED <<main, extra, included, phase, blocks, cur, files, alias, snap, ssh, limited>>

(* Mutant: the file nk wrote itself is read as well. *)
SkippedForeign(f) == Len(stack) > MaxDepth \/ files >= MaxFiles \/ f \in Unread

(* Mutant: nothing bounds the depth. *)
SkippedShallow(f) == files >= MaxFiles \/ f \in Unread \cup {Nk}

(* The early returns of read, for a file one Include deeper than stack. *)
Skipped(f) == Len(stack) > MaxDepth \/ files >= MaxFiles \/ f \in Unread \cup {Nk}

ReadInclude ==
  /\ At("include")
  /\ LET f == Line.file IN
     IF Skipped(f)
     THEN /\ stack' = Rest
          /\ limited' = (limited \/ f # Nk)
          /\ UNCHANGED files
     ELSE /\ stack' = Append(Rest, [file |-> f, line |-> 1, active |-> active, on |-> on, named |-> named])
          /\ files' = files + 1
          /\ UNCHANGED limited
  /\ UNCHANGED <<main, extra, included, phase, blocks, cur, alias, snap, ssh>>

(* read returns.  r.cur stays what it is; ssh goes on with the block that the   *)
(* Include is in.                                                             *)
EndOfFile ==
  /\ phase = "read" /\ stack # <<>>
  /\ Top.line > Len(Text(Top.file))
  /\ stack' = SubSeq(stack, 1, Len(stack) - 1)
  /\ active' = Top.active /\ on' = Top.on /\ named' = Top.named
  /\ phase' = IF Len(stack) = 1 THEN "write" ELSE "read"
  /\ UNCHANGED <<main, extra, included, blocks, cur, files, alias, snap, sent, agreed, limited>>

-----------------------------------------------------------------------------
(* Mutant: only the first block that names it is looked at. *)
ClaimsFirst(n) ==
  \E b \in DOMAIN blocks :
    /\ blocks[b].dest /\ Fold[n] \in NamedIn(blocks[b].patterns)
    /\ \A c \in 1..(b - 1) : Fold[n] \notin NamedIn(blocks[c].patterns)

(* ownBlock.matches, ownHosts.claims. *)
Claims(n) ==
  \E b \in DOMAIN blocks : blocks[b].dest /\ Fold[n] \in NamedIn(blocks[b].patterns)

(* Targets of the snapshot s that share the name of t, upper or lower case. *)
Namesakes(s, t) == {u \in Ids : s[u] # None /\ Fold[s[u]] = Fold[s[t]]}

(* Mutant: a name that is taken is looked at before a name that is shared. *)
AliasClaimedFirst(s, t) ==
  CASE s[t] = None                     -> None
    [] s[t] # None /\ Claims(s[t])     -> [nokku |-> TRUE, name |-> s[t]]
    [] OTHER -> IF Cardinality(Namesakes(s, t)) > 1
                THEN [nokku |-> TRUE, name |-> t] ELSE [nokku |-> FALSE, name |-> s[t]]

(* hostAliases.  A target that is not usable is as good as none. *)
AliasOf(s, t) ==
  IF s[t] = None THEN None
  ELSE IF Cardinality(Namesakes(s, t)) > 1 THEN [nokku |-> TRUE, name |-> t]
  ELSE [nokku |-> Claims(s[t]), name |-> s[t]]

(* The snapshot of this sync is rendered and written. *)
Write ==
  /\ phase = "write"
  /\ \E s \in Snapshots :
       /\ snap' = s
       /\ alias' = [t \in Ids |-> AliasOf(s, t)]
  /\ phase' = "include"
  /\ UNCHANGED <<main, extra, included, reader, ssh, limited>>

(* ensureInclude.  The user's config may be read-only. *)
EnsureInclude ==
  /\ phase = "include"
  /\ included' = TRUE
  /\ phase' = "idle"
  /\ UNCHANGED <<main, extra, reader, alias, snap, ssh, limited>>

IncludeFails ==
  /\ phase = "include" /\ ~included
  /\ phase' = "idle"
  /\ UNCHANGED <<main, extra, included, reader, alias, snap, ssh, limited>>

(* nk logout: RemoveInclude, and the file goes with the directory. *)
RemoveInclude ==
  /\ phase = "idle"
  /\ included' = FALSE
  /\ alias' = NoAlias /\ snap' = None
  /\ UNCHANGED <<main, extra, phase, reader, ssh, limited>>

CNext ==
  \/ BeginWrite \/ ReadBlock \/ ReadDest \/ ReadOption \/ ReadInclude \/ EndOfFile
  \/ Write \/ EnsureInclude \/ IncludeFails \/ RemoveInclude

CSpec == CInit /\ [][CNext]_cvars

-----------------------------------------------------------------------------
(* No Host line of the user's spells out the id of a target. *)
SpellsId(text) ==
  \E i \in DOMAIN text :
    /\ text[i].kind = "block"
    /\ \E n \in Names \cap Ids : Fold[n] \in NamedIn(text[i].patterns)

IdsUnspelled ==
  /\ \A m \in Mains : ~SpellsId(m)
  /\ \A e \in Extras, f \in Others : ~SpellsId(e[f])

(* "a bare name there would take over a host of their own" (config.go:51): no    *)
(* server gets a bare name that ssh takes to a destination of the user's, as     *)
(* far as nk may follow the Includes and has the line in the block ssh has it in. *)
OwnNamesKept ==
  phase \in {"include", "idle"} /\ ~limited =>
    \A n \in Bare : Fold[n] \notin agreed

(* The same of every line.  "cur outlives an Include, the way ssh keeps its        *)
(* active block" (own.go:64) says that nk and ssh have each line in one block.   *)
OwnNamesAlwaysKept ==
  phase \in {"include", "idle"} /\ ~limited =>
    \A n \in Bare : Fold[n] \notin sent

(* No two servers answer to one name.  "ssh's Match does not tell Web from web". *)
AliasesDistinct ==
  \A t, u \in Ids :
    t # u /\ alias[t] # None /\ alias[u] # None =>
      ~ /\ alias[t].nokku = alias[u].nokku
        /\ \/ alias[t].name = alias[u].name
           \/ {alias[t].name, alias[u].name} \subseteq Names
              /\ Fold[alias[t].name] = Fold[alias[u].name]

(* "It goes on top": where nk's file is on top of the user's, writing it again   *)
(* from the same snapshot changes no name: nk does not take its own names for    *)
(* the user's.                                                               *)
AliasesStable == [][phase = "write" /\ snap = snap' => alias' = alias]_cvars
=============================================================================
