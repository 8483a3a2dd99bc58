------------------------------ MODULE SshProofs ------------------------------
(* Package internal/ssh: the dial race of nk proxy, then nk's ssh_config.          *)
(*                                                                         *)
(* The dial race for any number of endpoints.  The heart of it is a count:     *)
(* pending and closing together are exactly the dial goroutines that have yet   *)
(* to hand over a result, so the loop and closeLosers receive neither too few   *)
(* results (a goroutine blocked for ever, a connection leaked) nor too many     *)
(* (the main goroutine blocked for ever).                                     *)
EXTENDS Proxy, SshConfig, SequenceTheorems, FiniteSetTheorems, TLAPS

Racing ==
  /\ closing = 0
  /\ \A d \in Dials : dial[d] \notin {"won", "closed"}
  /\ \A d \in Direct : dial[d] # "off"
  /\ timer # "off" => daemon /\ dial[Relay] = "off"
  /\ daemon /\ timer = "off" => dial[Relay] # "off"
  /\ timer = "now" => \A d \in Direct : dial[d] = "gone"

OneWon ==
  \E d \in Dials : dial[d] = "won" /\ \A o \in Dials \ {d} : dial[o] # "won"

RaceInv ==
  /\ TypeOK
  /\ Cardinality(InFlight) = pending + closing
  /\ pc = "start" => /\ pending = 0 /\ closing = 0 /\ timer = "off"
                     /\ \A d \in Dials : dial[d] = "off"
  /\ pc \in {"race", "failed"} => Racing
  /\ pc = "failed" => pending = 0 /\ timer = "off"
  /\ pc = "pipe" => pending = 0 /\ OneWon

-----------------------------------------------------------------------------
LEMMA DialsFinite == \A S \in SUBSET Dials : IsFiniteSet(S) /\ Cardinality(S) \in Nat
<1>1. IsFiniteSet(Dials)
  BY EndpointsAssumption, FS_AddElement DEF Dials
<1> QED
  BY <1>1, FS_Subset, FS_CardinalityType

LEMMA InFlightFacts ==
  /\ InFlight \subseteq Dials
  /\ IsFiniteSet(InFlight)
  /\ Cardinality(InFlight) \in Nat
  /\ Cardinality(InFlight) = 0 <=> InFlight = {}
  /\ Cardinality(InFlight) = 1 => \A c, d \in InFlight : c = d
<1>1. InFlight \in SUBSET Dials
  BY DEF InFlight
<1>2. IsFiniteSet(InFlight) /\ Cardinality(InFlight) \in Nat
  BY <1>1, DialsFinite
<1> QED
  BY <1>1, <1>2, FS_EmptySet, FS_Singleton

(* Handing a result over takes the goroutine out of the count. *)
LEMMA HandOver ==
  ASSUME TypeOK, NEW d \in InFlight, NEW r \in {"gone", "won", "closed"},
         dial' = [dial EXCEPT ![d] = r]
  PROVE  InFlight' = InFlight \ {d} /\ Cardinality(InFlight') = Cardinality(InFlight) - 1
<1>1. InFlight' = InFlight \ {d}
  BY DEF InFlight, TypeOK
<1> QED
  BY <1>1, InFlightFacts, FS_RemoveElement

LEMMA InitRace == Init => RaceInv
<1> SUFFICES ASSUME Init PROVE RaceInv
  OBVIOUS
<1>1. TypeOK
  BY DEF Init, TypeOK
<1>2. InFlight = {}
  BY DEF Init, InFlight
<1> QED
  BY <1>1, <1>2, FS_EmptySet DEF Init, RaceInv

LEMMA RaceTypeStep == RaceInv /\ [Next]_vars => TypeOK'
<1> SUFFICES ASSUME RaceInv, [Next]_vars
             PROVE  TypeOK'
  OBVIOUS
<1> USE DEF TypeOK, config
<1>0. TypeOK
  BY DEF RaceInv
<1>1. ASSUME NEW d \in Dials, dial[d] \in {"conn", "err"}
      PROVE  pending + closing > 0
  <2>1. InFlight # {}
    BY <1>1 DEF InFlight
  <2> QED
    BY <2>1, InFlightFacts DEF RaceInv
<1>2. CASE Start
  <2>1. Cardinality(Direct) \in Nat
    BY <1>0, DialsFinite DEF Direct, Dials
  <2>2. dial' \in [Dials -> {"off", "dialing", "conn", "err", "won", "closed", "gone"}]
    BY <1>2 DEF Start
  <2>3. pending' \in Nat /\ closing' \in Nat
    BY <2>1, <1>0, <1>2 DEF Start
  <2>4. timer' \in {"off", "head", "now"}
    BY <1>2 DEF Start
  <2> QED
    BY <2>2, <2>3, <2>4, <1>0, <1>2 DEF Start
<1>3. CASE Refuse \/ StartRelay \/ GiveUp \/ PipeEnds \/ HeadStartOver \/ KeepAlive
  <2>1. CASE StartRelay
    <3>1. dial' \in [Dials -> {"off", "dialing", "conn", "err", "won", "closed", "gone"}]
      BY <2>1, <1>0 DEF StartRelay
    <3>2. pending' \in Nat /\ closing' \in Nat
      BY <2>1, <1>0 DEF StartRelay
    <3> QED
      BY <3>1, <3>2, <2>1, <1>0 DEF StartRelay, Looping
  <2>2. CASE Refuse
    BY <2>2, <1>0 DEF Refuse
  <2>3. CASE GiveUp
    BY <2>3, <1>0 DEF GiveUp
  <2>4. CASE PipeEnds
    BY <2>4, <1>0 DEF PipeEnds
  <2>5. CASE HeadStartOver
    BY <2>5, <1>0 DEF HeadStartOver
  <2>6. CASE KeepAlive
    BY <2>6, <1>0 DEF KeepAlive
  <2> QED
    BY <1>3, <2>1, <2>2, <2>3, <2>4, <2>5, <2>6
<1>4. ASSUME NEW d \in Dials, ReceiveError(d) \/ ReceiveConn(d)
      PROVE  TypeOK'
  <2>1. pc = "race" /\ dial[d] \in {"conn", "err"}
    BY <1>4 DEF ReceiveError, ReceiveConn, Looping
  <2>2. closing = 0
    BY <2>1 DEF RaceInv, Racing
  <2>3. pending > 0
    BY <2>1, <2>2, <1>1, <1>0
  <2>4. CASE ReceiveError(d)
    <3>1. dial' \in [Dials -> {"off", "dialing", "conn", "err", "won", "closed", "gone"}]
      BY <2>4, <1>0 DEF ReceiveError
    <3>2. pending' \in Nat /\ closing' \in Nat
      BY <2>3, <2>4, <1>0 DEF ReceiveError
    <3>3. timer' \in {"off", "head", "now"}
      BY <2>4, <1>0 DEF ReceiveError
    <3> QED
      BY <3>1, <3>2, <3>3, <2>4, <1>0 DEF ReceiveError
  <2>5. CASE ReceiveConn(d)
    <3>1. dial' \in [Dials -> {"off", "dialing", "conn", "err", "won", "closed", "gone"}]
      BY <2>5, <1>0 DEF ReceiveConn
    <3>2. pending' \in Nat /\ closing' \in Nat
      BY <2>3, <2>5, <1>0 DEF ReceiveConn
    <3> QED
      BY <3>1, <3>2, <2>5, <1>0 DEF ReceiveConn
  <2> QED
    BY <1>4, <2>4, <2>5
<1>5. ASSUME NEW d \in Dials, DialEnds(d) \/ CloseLoser(d)
      PROVE  TypeOK'
  <2>1. CASE DialEnds(d)
    <3>1. dial' \in [Dials -> {"off", "dialing", "conn", "err", "won", "closed", "gone"}]
      BY <2>1, <1>0 DEF DialEnds
    <3> QED
      BY <3>1, <2>1, <1>0 DEF DialEnds
  <2>2. CASE CloseLoser(d)
    <3>1. dial' \in [Dials -> {"off", "dialing", "conn", "err", "won", "closed", "gone"}]
      BY <2>2, <1>0 DEF CloseLoser
    <3>2. closing' \in Nat
      BY <2>2, <1>0 DEF CloseLoser
    <3> QED
      BY <3>1, <3>2, <2>2, <1>0 DEF CloseLoser
  <2> QED
    BY <1>5, <2>1, <2>2
<1>6. CASE \E c \in {"out", "in"} : CopyEnds(c)
  BY <1>6, <1>0 DEF CopyEnds
<1>7. CASE UNCHANGED vars
  BY <1>7, <1>0 DEF vars
<1> QED
  BY <1>2, <1>3, <1>4, <1>5, <1>6, <1>7 DEF Next, Main

LEMMA RaceStep == RaceInv /\ [Next]_vars => RaceInv'
<1> SUFFICES ASSUME RaceInv, [Next]_vars
             PROVE  RaceInv'
  OBVIOUS
<1>0. TypeOK /\ TypeOK'
  BY RaceTypeStep DEF RaceInv
<1> USE RelayAssumption DEF config
<1>1. CASE Start
  <2>1. InFlight' = Direct /\ Direct \subseteq Endpoints /\ Relay \notin Direct
    BY <1>1, <1>0 DEF Start, InFlight, Direct, Dials, TypeOK
  <2>2. Direct' = Direct
    BY <1>1 DEF Start, Direct
  <2>3. Racing'
    BY <2>1, <2>2, <1>1, <1>0 DEF Start, Racing, RaceInv, Dials, TypeOK
  <2> QED
    BY <2>1, <2>3, <1>1, <1>0 DEF Start, RaceInv, TypeOK
<1>2. CASE StartRelay
  <2>1. Racing /\ dial[Relay] = "off" /\ daemon /\ Relay \in Dials /\ pc = "race"
    BY <1>2 DEF StartRelay, Looping, RaceInv, Racing, Dials
  <2>2. InFlight' = InFlight \cup {Relay} /\ Relay \notin InFlight
    BY <2>1, <1>2, <1>0 DEF StartRelay, InFlight, TypeOK
  <2>3. Cardinality(InFlight') = Cardinality(InFlight) + 1
    BY <2>2, InFlightFacts, FS_AddElement
  <2>4. Racing'
    BY <2>1, <1>2, <1>0 DEF StartRelay, Racing, Direct, Dials, TypeOK
  <2> QED
    BY <2>3, <2>4, <1>2, <1>0, <2>1 DEF StartRelay, RaceInv, TypeOK
<1>3. ASSUME NEW d \in Dials, ReceiveError(d)
      PROVE  RaceInv'
  <2>1. pc = "race" /\ Racing /\ d \in InFlight
    BY <1>3 DEF ReceiveError, Looping, RaceInv, InFlight
  <2>2. InFlight' = InFlight \ {d} /\ Cardinality(InFlight') = Cardinality(InFlight) - 1
    BY <2>1, <1>3, <1>0, HandOver DEF ReceiveError
  <2>3. ASSUME timer' = "now", NEW o \in Direct
        PROVE  dial'[o] = "gone"
    <3>1. o \in Dials
      BY <1>0 DEF Direct, Dials, TypeOK
    <3>2. CASE pending = 1
      <4>1. \A c \in InFlight : c = d
        BY <3>2, <2>1, InFlightFacts DEF RaceInv, Racing, TypeOK
      <4>2. o = d \/ dial[o] \notin {"dialing", "conn", "err", "won", "closed", "off"}
        BY <4>1, <3>1, <2>1 DEF InFlight, Racing
      <4> QED
        BY <4>2, <3>1, <1>3, <1>0 DEF ReceiveError, TypeOK
    <3>3. CASE pending # 1
      BY <3>1, <3>3, <2>1, <2>3, <1>3, <1>0 DEF ReceiveError, Racing, TypeOK
    <3> QED
      BY <3>2, <3>3
  <2>4. Direct' = Direct
    BY <1>3 DEF ReceiveError, Direct
  <2>5. Racing'
    BY <2>1, <2>3, <2>4, <1>3, <1>0 DEF ReceiveError, Racing, Direct, Dials, TypeOK
  <2> QED
    BY <2>1, <2>2, <2>5, <1>3, <1>0 DEF ReceiveError, RaceInv, Racing, TypeOK
<1>4. ASSUME NEW d \in Dials, ReceiveConn(d)
      PROVE  RaceInv'
  <2>1. Racing /\ d \in InFlight
    BY <1>4 DEF ReceiveConn, Looping, RaceInv, InFlight
  <2>2. Cardinality(InFlight') = Cardinality(InFlight) - 1
    BY <2>1, <1>4, <1>0, HandOver DEF ReceiveConn
  <2>3. OneWon'
    BY <2>1, <1>4, <1>0 DEF ReceiveConn, OneWon, Racing, TypeOK
  <2> QED
    BY <2>1, <2>2, <2>3, <1>4, <1>0 DEF ReceiveConn, RaceInv, Racing, TypeOK
<1>5. ASSUME NEW d \in Dials, CloseLoser(d)
      PROVE  RaceInv'
  <2>1. d \in InFlight /\ pc = "pipe" /\ dial[d] # "won"
    BY <1>5 DEF CloseLoser, InFlight
  <2>2. \E r \in {"gone", "closed"} : dial' = [dial EXCEPT ![d] = r]
    BY <1>5 DEF CloseLoser
  <2>3. Cardinality(InFlight') = Cardinality(InFlight) - 1
    BY <2>1, <2>2, <1>0, HandOver
  <2>4. OneWon'
    BY <2>1, <2>2, <1>0 DEF OneWon, RaceInv, TypeOK
  <2> QED
    BY <2>1, <2>3, <2>4, <1>5, <1>0 DEF CloseLoser, RaceInv, TypeOK
<1>6. ASSUME NEW d \in Dials, DialEnds(d)
      PROVE  RaceInv'
  <2>1. PICK r \in {"conn", "err"} : dial' = [dial EXCEPT ![d] = r]
    BY <1>6 DEF DialEnds
  <2>2. InFlight' = InFlight
    BY <2>1, <1>6, <1>0 DEF DialEnds, InFlight, TypeOK
  <2>3. Racing => Racing'
    BY <2>1, <1>6, <1>0 DEF DialEnds, Racing, Direct, TypeOK
  <2>4. OneWon => OneWon'
    BY <2>1, <1>6, <1>0 DEF DialEnds, OneWon, TypeOK
  <2> QED
    BY <2>1, <2>2, <2>3, <2>4, <1>6, <1>0 DEF DialEnds, RaceInv, TypeOK
<1>7. CASE Refuse \/ GiveUp \/ PipeEnds \/ HeadStartOver \/ KeepAlive
           \/ (\E c \in {"out", "in"} : CopyEnds(c)) \/ UNCHANGED vars
  <2>1. UNCHANGED <<dial, pending, closing, timer, daemon, force, eps>>
    BY <1>7 DEF Refuse, GiveUp, PipeEnds, HeadStartOver, KeepAlive, CopyEnds, vars
  <2>2. InFlight' = InFlight /\ (Racing => Racing') /\ (OneWon => OneWon')
    BY <2>1 DEF InFlight, Racing, OneWon, Direct
  <2> QED
    BY <2>1, <2>2, <1>7, <1>0 DEF Refuse, GiveUp, PipeEnds, HeadStartOver,
       KeepAlive, CopyEnds, vars, Looping, RaceInv, Racing, TypeOK
<1> QED
  BY <1>1, <1>2, <1>3, <1>4, <1>5, <1>6, <1>7 DEF Next, Main

(* The count and the phases of the race hold of every behaviour. *)
THEOREM RaceInvariant == Spec => []RaceInv
  BY InitRace, RaceStep, PTL DEF Spec

(* The variables keep their types; pending and closing never go below zero. *)
THEOREM RaceTyping == Spec => []TypeOK
<1>1. RaceInv => TypeOK
  BY DEF RaceInv
<1> QED
  BY <1>1, RaceInvariant, PTL

(* nk says a server cannot be reached only after every endpoint, and the relay  *)
(* of a daemon server, was dialed and failed.                                 *)
THEOREM NoEarlyFailure == Spec => []FailsOnlyAfterAll
<1>1. RaceInv => FailsOnlyAfterAll
  <2> SUFFICES ASSUME RaceInv, pc = "failed"
               PROVE  /\ \A d \in Direct : dial[d] = "gone"
                      /\ daemon => dial[Relay] = "gone"
    BY DEF FailsOnlyAfterAll
  <2>1. Racing /\ InFlight = {}
    BY InFlightFacts DEF RaceInv, Racing, TypeOK
  <2>2. \A d \in Dials : dial[d] \in {"off", "gone"}
    BY <2>1 DEF InFlight, Racing, RaceInv, TypeOK
  <2> QED
    BY <2>1, <2>2 DEF Racing, RaceInv, Direct, Dials, TypeOK
<1> QED
  BY <1>1, RaceInvariant, PTL

(* Exactly one connection is piped, and once closeLosers is done no dial        *)
(* goroutine is left and no other connection is open.                         *)
THEOREM NoLeak == Spec => []NoLoserLeft
<1>1. RaceInv => NoLoserLeft
  BY InFlightFacts DEF RaceInv, NoLoserLeft, OneWon, TypeOK
<1> QED
  BY <1>1, RaceInvariant, PTL

(* The relay never joins before its head start unless the direct dials are all  *)
(* lost.                                                                     *)
THEOREM HeadStartKept == Spec => RelayHeadStart
<1>1. RaceInv /\ [Next]_vars =>
        [StartRelay => elapsed \/ \A d \in Direct : dial[d] = "gone"]_vars
  BY DEF RaceInv, Racing, StartRelay, Looping
<1> QED
  BY <1>1, RaceInvariant, PTL DEF Spec, RelayHeadStart
-----------------------------------------------------------------------------
(* ssh_config.  What ssh has sent somewhere from the block nk's reader has the     *)
(* line in, that reader has seen a block with a destination for (Sending).  The    *)
(* names a line is for stand in its block, and so they do in every file that is    *)
(* only half read (Covered).                                                    *)
UserText(f) == IF f = UserConfig THEN main ELSE extra[f]

NamedBy(b, ns) == ns = {} \/ (b \in DOMAIN blocks /\ ns \subseteq NamedIn(blocks[b].patterns))

Covered ==
  /\ NamedBy(active, named)
  /\ \A i \in DOMAIN stack : NamedBy(stack[i].active, stack[i].named)

Sending == \A n \in agreed : \E b \in DOMAIN blocks : blocks[b].dest /\ n \in NamedIn(blocks[b].patterns)

CTyped ==
  /\ CTypeOK
  /\ \A i \in DOMAIN stack : stack[i].named \subseteq stack[i].on
  /\ phase = "read" <=> stack # <<>>

Spared ==
  phase \in {"include", "idle"} =>
    \A t \in Ids : alias[t] # None /\ ~alias[t].nokku => ~Claims(alias[t].name)

ReaderInv == CTyped /\ Covered /\ Sending /\ Spared

Unspelled ==
  \A b \in DOMAIN blocks : \A n \in Names \cap Ids : Fold[n] \notin NamedIn(blocks[b].patterns)

-----------------------------------------------------------------------------
LEMMA TextTyped ==
  ASSUME main \in Mains, extra \in Extras, NEW f \in Others \cup {UserConfig}
  PROVE  /\ Text(f) = UserText(f)
         /\ Text(f) \in Seq(Lines) /\ Len(Text(f)) \in Nat /\ DOMAIN Text(f) = 1..Len(Text(f))
<1>1. Text(f) = UserText(f) /\ Text(f) \in Seq(Lines)
  <2>1. CASE f = UserConfig
    BY <2>1, ConfigAssumption DEF Text, UserText
  <2>2. CASE f \in Others
    <3>1. f # UserConfig /\ f # Nk
      BY <2>2, FileAssumption
    <3>2. extra \in [Others -> Seq(Lines)]
      BY ConfigAssumption
    <3> QED
      BY <2>2, <3>1, <3>2 DEF Text, UserText
  <2> QED
    BY <2>1, <2>2
<1> QED
  BY <1>1, LenProperties

LEMMA TopTyped ==
  ASSUME CTyped, stack # <<>>
  PROVE  /\ Len(stack) \in Nat \ {0} /\ DOMAIN stack = 1..Len(stack)
         /\ Top \in Frame /\ Top.file # Nk
         /\ Top.named \subseteq Top.on
<1>1. stack \in Seq(Frame)
  BY DEF CTyped, CTypeOK
<1>2. Len(stack) \in Nat \ {0} /\ DOMAIN stack = 1..Len(stack)
  BY <1>1, EmptySeq, LenProperties
<1>3. Len(stack) \in 1..Len(stack)
  BY <1>2
<1>4. Top \in Frame
  BY <1>1, <1>3, ElementOfSeq DEF Top
<1>5. Top.named \subseteq Top.on
  BY <1>2, <1>3 DEF CTyped, Top
<1>6. Top.file # Nk
  BY <1>4, FileAssumption DEF Frame
<1> QED
  BY <1>2, <1>4, <1>5, <1>6

(* The next line of the innermost file is all that Rest changes. *)
LEMMA RestTyped ==
  ASSUME CTyped, stack # <<>>
  PROVE  /\ Rest \in Seq(Frame) /\ Len(Rest) = Len(stack) /\ Rest # <<>>
         /\ \A i \in 1..(Len(stack) - 1) : Rest[i] = stack[i]
         /\ Rest[Len(stack)] =
              [file |-> Top.file, line |-> Top.line + 1,
               active |-> Top.active, on |-> Top.on, named |-> Top.named]
<1> DEFINE e == [Top EXCEPT !.line = @ + 1]
<1>1. stack \in Seq(Frame) /\ Len(stack) \in Nat \ {0} /\ Top \in Frame
  BY TopTyped DEF CTyped, CTypeOK
<1>2. e = [file |-> Top.file, line |-> Top.line + 1,
               active |-> Top.active, on |-> Top.on, named |-> Top.named]
  BY <1>1 DEF Frame
<1>3. e \in Frame
  <2>1. [file |-> Top.file, line |-> Top.line + 1,
               active |-> Top.active, on |-> Top.on, named |-> Top.named] \in Frame
    BY <1>1 DEF Frame
  <2> HIDE DEF e
  <2> QED
    BY <2>1, <1>2
<1>4. Rest = [stack EXCEPT ![Len(stack)] = e]
  BY DEF Rest, Top
<1>5. Len(stack) \in 1..Len(stack)
  BY <1>1
<1>6. /\ [stack EXCEPT ![Len(stack)] = e] \in Seq(Frame)
      /\ Len([stack EXCEPT ![Len(stack)] = e]) = Len(stack)
      /\ \A j \in 1..Len(stack) :
           [stack EXCEPT ![Len(stack)] = e][j] = IF j = Len(stack) THEN e ELSE stack[j]
  BY ONLY <1>1, <1>3, <1>5, ExceptSeq
<1>7. Rest \in Seq(Frame) /\ Len(Rest) = Len(stack)
  BY <1>4, <1>6
<1>8. \A j \in 1..Len(stack) : Rest[j] = IF j = Len(stack) THEN e ELSE stack[j]
  BY <1>4, <1>6
<1>9. Rest # <<>>
  BY <1>1, <1>7, EmptySeq
<1> HIDE DEF e
<1> QED
  BY <1>1, <1>2, <1>5, <1>7, <1>8, <1>9

LEMMA LineTyped ==
  ASSUME CTyped, NEW kind, At(kind)
  PROVE  /\ stack # <<>> /\ phase = "read" /\ Top.line \in Nat /\ Line.kind = kind
         /\ Line \in Lines
         /\ Top.line = 0 => Line = IncludeNk
         /\ Top.line # 0 => /\ Line = UserText(Top.file)[Top.line]
                            /\ Top.line \in DOMAIN UserText(Top.file)
<1>1. stack # <<>> /\ phase = "read" /\ Line.kind = kind /\ Top.line <= Len(Text(Top.file))
  BY DEF At
<1>2. Top.line \in Nat /\ Top.file \in Others \cup {UserConfig}
  BY <1>1, TopTyped DEF Frame
<1>3. Text(Top.file) = UserText(Top.file)
      /\ Text(Top.file) \in Seq(Lines) /\ Len(Text(Top.file)) \in Nat
      /\ DOMAIN Text(Top.file) = 1..Len(Text(Top.file))
  BY <1>2, TextTyped DEF CTyped, CTypeOK
<1>4. Top.line # 0 => Top.line \in 1..Len(Text(Top.file))
  BY <1>1, <1>2, <1>3
<1>5. Top.line # 0 => Text(Top.file)[Top.line] \in Lines
  BY <1>3, <1>4, ElementOfSeq
<1>6. IncludeNk \in Lines
  BY DEF IncludeNk, Lines
<1> QED
  BY <1>1, <1>2, <1>3, <1>4, <1>5, <1>6 DEF Line

LEMMA RestStep ==
  ASSUME CTyped, stack # <<>>, stack' = Rest
  PROVE  /\ stack' \in Seq(Frame) /\ stack' # <<>> /\ Len(stack') = Len(stack)
         /\ DOMAIN stack' = DOMAIN stack
         /\ \A i \in DOMAIN stack' :
              /\ stack'[i].file = stack[i].file
              /\ stack'[i].active = stack[i].active
              /\ stack'[i].on = stack[i].on /\ stack'[i].named = stack[i].named
         /\ \A i \in 1..(Len(stack) - 1) : stack'[i] = stack[i]
         /\ Top'.file = Top.file /\ Top'.line = Top.line + 1
<1>1. stack' \in Seq(Frame) /\ stack' # <<>> /\ Len(stack') = Len(stack)
      /\ \A i \in 1..(Len(stack) - 1) : stack'[i] = stack[i]
  BY RestTyped
<1>2. stack'[Len(stack)] =
        [file |-> Top.file, line |-> Top.line + 1,
               active |-> Top.active, on |-> Top.on, named |-> Top.named]
  BY RestTyped
<1>3. Len(stack) \in Nat \ {0} /\ DOMAIN stack = 1..Len(stack)
  BY TopTyped
<1>4. DOMAIN stack' = 1..Len(stack)
  BY <1>1, LenProperties
<1>5. Top' = stack'[Len(stack)]
  BY <1>1 DEF Top
<1>6. ASSUME NEW i \in 1..Len(stack)
      PROVE  /\ stack'[i].file = stack[i].file /\ stack'[i].active = stack[i].active
             /\ stack'[i].on = stack[i].on /\ stack'[i].named = stack[i].named
  <2>1. CASE i = Len(stack)
    BY <2>1, <1>2 DEF Top
  <2>2. CASE i # Len(stack)
    <3>1. Len(stack) \in Nat
      BY <1>3
    <3>2. i \in 1..(Len(stack) - 1)
      BY <2>2, <3>1
    <3> QED
      BY <3>2, <1>1
  <2> QED
    BY <2>1, <2>2
<1> QED
  BY <1>1, <1>2, <1>3, <1>4, <1>5, <1>6

LEMMA PatternFacts ==
  ASSUME NEW ps \in SUBSET Pattern
  PROVE  /\ Matches(ps) \subseteq Folded
         /\ NamedIn(ps) \subseteq Matches(ps)
         /\ ps = {} => NamedIn(ps) = {}
<1>1. \A p \in ps : p.hits \subseteq Folded
  BY DEF Pattern
<1> QED
  BY <1>1 DEF Matches, NamedIn, Negated

-----------------------------------------------------------------------------
LEMMA CInitTyped == CInit => CTyped
<1> SUFFICES ASSUME CInit PROVE CTyped
  OBVIOUS
<1>1. stack = <<>> /\ blocks = <<>> /\ cur = 0 /\ files = 0 /\ phase = "idle"
  BY DEF CInit
<1>2. stack \in Seq(Frame) /\ Len(stack) = 0 /\ blocks \in Seq(Block) /\ Len(blocks) = 0
  BY <1>1, EmptySeq
<1>3. DOMAIN stack = {}
  BY <1>2, LenProperties
<1>4. alias \in [Ids -> Alias \cup {None}]
  BY DEF CInit, NoAlias
<1>5. files \in 0..MaxFiles /\ cur \in 0..Len(blocks) /\ Len(stack) <= MaxDepth + 1
  BY <1>1, <1>2, LimitAssumption
<1>6. CTypeOK
  BY <1>1, <1>2, <1>4, <1>5 DEF CInit, CTypeOK
<1> QED
  BY <1>1, <1>3, <1>6 DEF CTyped

LEMMA BeginWriteTyped == CTyped /\ BeginWrite => CTyped'
<1> SUFFICES ASSUME CTyped, BeginWrite PROVE CTyped'
  OBVIOUS
<1> DEFINE e == [file |-> UserConfig, line |-> IF included THEN 0 ELSE 1,
                  active |-> 0, on |-> Folded, named |-> {}]
<1>1. e \in Frame /\ e.named \subseteq e.on
  BY DEF Frame
<1>2. stack' = <<e>>
  BY DEF BeginWrite
<1> HIDE DEF e
<1>3. stack' \in Seq(Frame) /\ Len(stack') = 1 /\ stack'[1] = e /\ DOMAIN stack' = 1..1
  BY <1>1, <1>2
<1>4. stack' # <<>>
  BY <1>3, EmptySeq
<1>5. blocks' \in Seq(Block) /\ Len(blocks') = 0
  BY EmptySeq DEF BeginWrite
<1>6. files' \in 0..MaxFiles /\ cur' \in 0..Len(blocks') /\ Len(stack') <= MaxDepth + 1
  BY <1>3, <1>5, LimitAssumption DEF BeginWrite
<1>7. CTypeOK'
  BY <1>3, <1>5, <1>6 DEF BeginWrite, CTyped, CTypeOK
<1> QED
  BY <1>1, <1>3, <1>4, <1>7 DEF CTyped, BeginWrite

LEMMA ReadBlockTyped == CTyped /\ ReadBlock => CTyped'
<1> SUFFICES ASSUME CTyped, ReadBlock PROVE CTyped'
  OBVIOUS
<1>1. stack # <<>> /\ Line \in Lines /\ Line.kind = "block"
  BY LineTyped DEF ReadBlock
<1>2. Line.patterns \in SUBSET Pattern
  BY <1>1 DEF Lines
<1>3. stack' = Rest
  BY DEF ReadBlock
<1>4. [patterns |-> Line.patterns, dest |-> FALSE] \in Block
  BY <1>2 DEF Block
<1>5. blocks' \in Seq(Block) /\ Len(blocks') = Len(blocks) + 1 /\ Len(blocks) \in Nat
  BY <1>4, AppendProperties, LenProperties DEF ReadBlock, CTyped, CTypeOK
<1>6. cur' \in 0..Len(blocks') /\ active' \in Nat
  BY <1>5 DEF ReadBlock
<1>7. on' \subseteq Folded /\ named' \subseteq on'
  <2>1. on' = Top.on \cap (IF Line.patterns = {} THEN Folded ELSE Matches(Line.patterns))
        /\ named' = Top.on \cap NamedIn(Line.patterns)
    BY DEF ReadBlock
  <2> QED
    BY <2>1, <1>2, PatternFacts
<1>8. CTypeOK'
  BY <1>1, <1>3, <1>5, <1>6, <1>7, RestStep DEF ReadBlock, CTyped, CTypeOK
<1> QED
  BY <1>1, <1>3, <1>8, RestStep DEF CTyped, ReadBlock

LEMMA ReadDestTyped == CTyped /\ ReadDest => CTyped'
<1> SUFFICES ASSUME CTyped, ReadDest PROVE CTyped'
  OBVIOUS
<1>1. stack # <<>> /\ stack' = Rest
  BY LineTyped DEF ReadDest
<1>2. blocks' \in Seq(Block) /\ Len(blocks') = Len(blocks)
  <2>1. CASE cur = 0
    BY <2>1 DEF ReadDest, CTyped, CTypeOK
  <2>2. CASE cur # 0
    <3> DEFINE e == [blocks[cur] EXCEPT !.dest = TRUE]
    <3>1. blocks \in Seq(Block) /\ cur \in 1..Len(blocks)
      BY <2>2, LenProperties DEF CTyped, CTypeOK
    <3>2. blocks[cur] \in Block
      BY <3>1, ElementOfSeq
    <3>3. e \in Block
      BY <3>2 DEF Block
    <3>4. blocks' = [blocks EXCEPT ![cur] = e]
      BY <2>2 DEF ReadDest
    <3> HIDE DEF e
    <3> QED
      BY <3>1, <3>3, <3>4, ExceptSeq
  <2> QED
    BY <2>1, <2>2
<1>3. sent' \subseteq Folded /\ agreed' \subseteq sent'
  BY DEF ReadDest, CTyped, CTypeOK
<1>4. CTypeOK'
  BY <1>1, <1>2, <1>3, RestStep DEF ReadDest, CTyped, CTypeOK
<1> QED
  BY <1>1, <1>4, RestStep DEF CTyped, ReadDest

LEMMA ReadOptionTyped == CTyped /\ ReadOption => CTyped'
<1> SUFFICES ASSUME CTyped, ReadOption PROVE CTyped'
  OBVIOUS
<1>1. stack # <<>> /\ stack' = Rest
  BY LineTyped DEF ReadOption
<1>2. CTypeOK'
  BY <1>1, RestStep DEF ReadOption, ssh, CTyped, CTypeOK
<1> QED
  BY <1>1, <1>2, RestStep DEF CTyped, ReadOption, ssh

(* An Include that is followed: the file it names is not nk's, and comes on top. *)
LEMMA FollowStep ==
  ASSUME CTyped, ReadInclude, ~Skipped(Line.file)
  PROVE  LET e == [file |-> Line.file, line |-> 1, active |-> active, on |-> on, named |-> named] IN
         /\ stack # <<>> /\ e \in Frame /\ e.named \subseteq e.on
         /\ Len(stack) <= MaxDepth /\ files < MaxFiles
         /\ Top.line \in DOMAIN UserText(Top.file) /\ Line = UserText(Top.file)[Top.line]
         /\ Len(stack) \in Nat \ {0}
         /\ stack' \in Seq(Frame) /\ Len(stack') = Len(stack) + 1 /\ stack' # <<>>
         /\ DOMAIN stack' = 1..(Len(stack) + 1)
         /\ \A i \in 1..Len(stack) : stack'[i] = Rest[i]
         /\ stack'[Len(stack) + 1] = e
<1> DEFINE e == [file |-> Line.file, line |-> 1, active |-> active, on |-> on, named |-> named]
<1>1. stack # <<>> /\ Line \in Lines /\ Line.kind = "include"
  BY LineTyped DEF ReadInclude
<1>2. Line.file \in Others \cup {UserConfig} /\ Line.file # Nk
  BY <1>1 DEF Lines, Skipped
<1>3. e \in Frame /\ e.named \subseteq e.on
  BY <1>2 DEF Frame, CTyped, CTypeOK
<1>4. Line # IncludeNk
  BY <1>2 DEF IncludeNk
<1>5. Top.line \in DOMAIN UserText(Top.file) /\ Line = UserText(Top.file)[Top.line]
  BY <1>4, LineTyped DEF ReadInclude
<1>6. Len(stack) \in Nat \ {0}
  BY <1>1, TopTyped
<1>7. Len(stack) <= MaxDepth /\ files < MaxFiles
  BY <1>6, LimitAssumption DEF Skipped, CTyped, CTypeOK
<1>8. stack' = Append(Rest, e)
  BY DEF ReadInclude
<1>9. Rest \in Seq(Frame) /\ Len(Rest) = Len(stack)
  BY <1>1, RestTyped
<1> HIDE DEF e
<1>11. /\ stack' \in Seq(Frame) /\ stack' # <<>> /\ Len(stack') = Len(stack) + 1
       /\ \A i \in 1..Len(stack) : stack'[i] = Rest[i]
       /\ stack'[Len(stack) + 1] = e
  BY <1>3, <1>8, <1>9, AppendProperties
<1>12. DOMAIN stack' = 1..(Len(stack) + 1)
  BY <1>11, LenProperties
<1> QED
  BY <1>1, <1>3, <1>5, <1>6, <1>7, <1>11, <1>12 DEF e

LEMMA ReadIncludeTyped == CTyped /\ ReadInclude => CTyped'
<1> SUFFICES ASSUME CTyped, ReadInclude PROVE CTyped'
  OBVIOUS
<1>1. stack # <<>> /\ phase = "read"
  BY LineTyped DEF ReadInclude
<1>2. CASE Skipped(Line.file)
  <2>1. stack' = Rest /\ files' = files /\ limited' \in BOOLEAN
    BY <1>2 DEF ReadInclude, CTyped, CTypeOK
  <2>2. CTypeOK'
    BY <1>1, <2>1, RestStep DEF ReadInclude, ssh, CTyped, CTypeOK
  <2> QED
    BY <1>1, <2>1, <2>2, RestStep DEF CTyped, ReadInclude
<1>3. CASE ~Skipped(Line.file)
  <2> DEFINE e == [file |-> Line.file, line |-> 1, active |-> active, on |-> on, named |-> named]
  <2>1. /\ stack' \in Seq(Frame) /\ Len(stack') = Len(stack) + 1 /\ stack' # <<>>
        /\ DOMAIN stack' = 1..(Len(stack) + 1)
        /\ \A i \in 1..Len(stack) : stack'[i] = Rest[i]
        /\ stack'[Len(stack) + 1] = e /\ e.named \subseteq e.on
        /\ Len(stack) \in Nat \ {0} /\ Len(stack) <= MaxDepth /\ files < MaxFiles
    BY <1>3, FollowStep
  <2>2. files' = files + 1 /\ limited' = limited
    BY <1>3 DEF ReadInclude
  <2>3. files' \in 0..MaxFiles
    BY <2>1, <2>2, LimitAssumption DEF CTyped, CTypeOK
  <2>4. Len(stack') <= MaxDepth + 1
    BY <2>1, LimitAssumption
  <2>5. CTypeOK'
    BY <2>1, <2>2, <2>3, <2>4 DEF ReadInclude, ssh, CTyped, CTypeOK
  <2>6. ASSUME NEW i \in DOMAIN stack' PROVE stack'[i].named \subseteq stack'[i].on
    <3>1. CASE i = Len(stack) + 1
      BY <3>1, <2>1
    <3>2. CASE i \in 1..Len(stack)
      <4>1. stack'[i] = Rest[i]
        BY <3>2, <2>1
      <4>2. CASE i = Len(stack)
        <5>1. Rest[i].named = Top.named /\ Rest[i].on = Top.on
          BY <4>2, <1>1, RestTyped
        <5> QED
          BY <4>1, <5>1, <1>1, TopTyped
      <4>3. CASE i # Len(stack)
        <5>1. i \in 1..(Len(stack) - 1)
          BY <3>2, <4>3, <2>1
        <5>2. Rest[i] = stack[i] /\ i \in DOMAIN stack
          BY <5>1, <3>2, <1>1, RestTyped, TopTyped
        <5> QED
          BY <4>1, <5>2 DEF CTyped
      <4> QED
        BY <4>2, <4>3
    <3>3. i \in 1..Len(stack) \/ i = Len(stack) + 1
      <4>1. i \in 1..(Len(stack) + 1) /\ Len(stack) \in Nat
        BY <2>1
      <4> QED
        BY ONLY <4>1
    <3> QED
      BY <3>1, <3>2, <3>3
  <2> QED
    BY <1>1, <2>1, <2>5, <2>6 DEF CTyped, ReadInclude
<1> QED
  BY <1>2, <1>3

LEMMA PopStep ==
  ASSUME CTyped, EndOfFile
  PROVE  /\ stack # <<>> /\ Len(stack) \in Nat \ {0}
         /\ stack' \in Seq(Frame) /\ Len(stack') = Len(stack) - 1
         /\ DOMAIN stack' = 1..(Len(stack) - 1)
         /\ \A i \in 1..(Len(stack) - 1) : stack'[i] = stack[i] /\ i \in DOMAIN stack
         /\ stack' = <<>> <=> Len(stack) = 1
<1>1. stack # <<>> /\ stack' = SubSeq(stack, 1, Len(stack) - 1)
  BY DEF EndOfFile
<1>2. Len(stack) \in Nat \ {0} /\ DOMAIN stack = 1..Len(stack) /\ stack \in Seq(Frame)
  BY <1>1, TopTyped DEF CTyped, CTypeOK
<1>3. \A i \in 1..(Len(stack) - 1) : stack[i] \in Frame /\ i \in 1..Len(stack)
  BY <1>2, ElementOfSeq
<1>4. 1 \in Int /\ Len(stack) - 1 \in Int
  BY <1>2
<1>5. /\ stack' \in Seq(Frame)
      /\ Len(stack') = IF 1 <= Len(stack) - 1 THEN Len(stack) - 1 - 1 + 1 ELSE 0
      /\ \A i \in 1..(Len(stack) - 1 - 1 + 1) : stack'[i] = stack[1 + i - 1]
  BY <1>1, <1>3, <1>4, SubSeqProperties
<1>6. Len(stack) \in Nat \ {0}
  BY <1>2
<1>7. Len(stack') = Len(stack) - 1
  <2>1. Len(stack') = IF 1 <= Len(stack) - 1 THEN Len(stack) - 1 - 1 + 1 ELSE 0
    BY <1>5
  <2>2. \A n \in Nat \ {0} : (IF 1 <= n - 1 THEN n - 1 - 1 + 1 ELSE 0) = n - 1
    OBVIOUS
  <2> QED
    BY <2>1, <2>2, <1>6
<1>8. \A i \in 1..(Len(stack) - 1) : stack'[i] = stack[i]
  <2>1. \A i \in 1..(Len(stack) - 1 - 1 + 1) : stack'[i] = stack[1 + i - 1]
    BY <1>5
  <2>2. \A i \in 1..(Len(stack) - 1) : i \in 1..(Len(stack) - 1 - 1 + 1) /\ 1 + i - 1 = i
    BY ONLY <1>6
  <2> QED
    BY <2>1, <2>2
<1>9. stack' = <<>> <=> Len(stack') = 0
  BY <1>5, EmptySeq
<1>10. stack' = <<>> <=> Len(stack) = 1
  BY <1>6, <1>7, <1>9
<1>11. DOMAIN stack' = 1..(Len(stack) - 1)
  BY <1>5, <1>7, LenProperties
<1> QED
  BY <1>1, <1>2, <1>3, <1>5, <1>7, <1>8, <1>10, <1>11

LEMMA EndOfFileTyped == CTyped /\ EndOfFile => CTyped'
<1> SUFFICES ASSUME CTyped, EndOfFile PROVE CTyped'
  OBVIOUS
<1>1. /\ stack # <<>> /\ Len(stack) \in Nat \ {0}
      /\ stack' \in Seq(Frame) /\ Len(stack') = Len(stack) - 1
      /\ DOMAIN stack' = 1..(Len(stack) - 1)
      /\ \A i \in 1..(Len(stack) - 1) : stack'[i] = stack[i] /\ i \in DOMAIN stack
      /\ (stack' = <<>> <=> Len(stack) = 1)
  BY PopStep
<1>2. active' \in Nat /\ on' \subseteq Folded /\ named' \subseteq on'
  BY <1>1, TopTyped DEF EndOfFile, Frame
<1>3. Len(stack') <= MaxDepth + 1
  BY <1>1, LimitAssumption DEF CTyped, CTypeOK
<1>4. phase' = IF Len(stack) = 1 THEN "write" ELSE "read"
  BY DEF EndOfFile
<1>5. CTypeOK'
  BY <1>1, <1>2, <1>3, <1>4 DEF EndOfFile, CTyped, CTypeOK
<1> QED
  BY <1>1, <1>4, <1>5 DEF CTyped

LEMMA WriteTyped == CTyped /\ Write => CTyped'
<1> SUFFICES ASSUME CTyped, Write PROVE CTyped'
  OBVIOUS
<1>1. PICK s \in Snapshots : snap' = s /\ alias' = [t \in Ids |-> AliasOf(s, t)]
  BY DEF Write
<1>2. s \in [Ids -> Names \cup {None}]
  BY ConfigAssumption
<1>3. ASSUME NEW t \in Ids PROVE AliasOf(s, t) \in Alias \cup {None}
  <2>1. CASE s[t] = None
    BY <2>1 DEF AliasOf
  <2>2. CASE s[t] # None
    <3>1. s[t] \in Names /\ Claims(s[t]) \in BOOLEAN
      BY <2>2, <1>2 DEF Claims
    <3> QED
      BY <2>2, <3>1 DEF AliasOf, Alias
  <2> QED
    BY <2>1, <2>2
<1>4. alias' \in [Ids -> Alias \cup {None}]
  BY <1>1, <1>3
<1>5. CTypeOK'
  BY <1>1, <1>4 DEF Write, reader, ssh, CTyped, CTypeOK
<1> QED
  BY <1>5 DEF CTyped, Write, reader

LEMMA IncludeStepsTyped ==
  CTyped /\ (EnsureInclude \/ IncludeFails \/ RemoveInclude \/ UNCHANGED cvars) => CTyped'
<1> SUFFICES ASSUME CTyped, EnsureInclude \/ IncludeFails \/ RemoveInclude \/ UNCHANGED cvars
             PROVE  CTyped'
  OBVIOUS
<1>1. UNCHANGED <<main, extra, stack, blocks, cur, files, active, on, named, sent, agreed, limited>>
      /\ included' \in BOOLEAN
  BY DEF EnsureInclude, IncludeFails, RemoveInclude, cvars, reader, ssh, CTyped, CTypeOK
<1>2. phase' \in {"idle", "read", "write", "include"} /\ (phase' = "read" <=> phase = "read")
  BY DEF EnsureInclude, IncludeFails, RemoveInclude, cvars, CTyped, CTypeOK
<1>3. alias' \in [Ids -> Alias \cup {None}] /\ snap' \in Snapshots \cup {None}
  BY DEF EnsureInclude, IncludeFails, RemoveInclude, cvars, NoAlias, CTyped, CTypeOK
<1>4. CTypeOK'
  BY <1>1, <1>2, <1>3 DEF CTyped, CTypeOK
<1> QED
  BY <1>1, <1>2, <1>4 DEF CTyped

LEMMA CStepTyped == CTyped /\ [CNext]_cvars => CTyped'
BY BeginWriteTyped, ReadBlockTyped, ReadDestTyped, ReadOptionTyped, ReadIncludeTyped, EndOfFileTyped,
   WriteTyped, IncludeStepsTyped DEF CNext

(* The type invariant of the reader, of what ssh makes of the same lines and of   *)
(* the file nk writes, for any configs, files and limits: with a circular Include, *)
(* too, no more than MaxDepth files are open under the user's own.                 *)
THEOREM ConfigTyping == CSpec => []CTypeOK
<1>1. CSpec => []CTyped
  BY CInitTyped, CStepTyped, PTL DEF CSpec
<1>2. CTyped => CTypeOK
  BY DEF CTyped
<1> QED
  BY <1>1, <1>2, PTL

-----------------------------------------------------------------------------
(* A step that leaves the blocks there are their patterns, and the frames theirs,   *)
(* leaves them covered.                                                         *)
LEMMA NamedKept ==
  ASSUME NEW b, NEW ns, NamedBy(b, ns),
         \A c \in DOMAIN blocks : c \in DOMAIN blocks' /\ blocks'[c].patterns = blocks[c].patterns
  PROVE  ns = {} \/ (b \in DOMAIN blocks' /\ ns \subseteq NamedIn(blocks'[b].patterns))
<1>1. CASE ns = {}
  BY <1>1
<1>2. CASE ns # {}
  <2>1. b \in DOMAIN blocks /\ ns \subseteq NamedIn(blocks[b].patterns)
    BY <1>2 DEF NamedBy
  <2> QED
    BY <2>1
<1> QED
  BY <1>1, <1>2

LEMMA RestCovered ==
  ASSUME CTyped, Covered, stack # <<>>, stack' = Rest,
         \A c \in DOMAIN blocks : c \in DOMAIN blocks' /\ blocks'[c].patterns = blocks[c].patterns
  PROVE  \A i \in DOMAIN stack' : NamedBy(stack[i].active, stack[i].named)'
<1> SUFFICES ASSUME NEW i \in DOMAIN stack'
             PROVE  \/ stack'[i].named = {}
                    \/ /\ stack'[i].active \in DOMAIN blocks'
                       /\ stack'[i].named \subseteq NamedIn(blocks'[stack'[i].active].patterns)
  BY DEF NamedBy
<1>1. i \in DOMAIN stack /\ stack'[i].active = stack[i].active /\ stack'[i].named = stack[i].named
  BY RestStep
<1>2. NamedBy(stack[i].active, stack[i].named)
  BY <1>1 DEF Covered
<1> QED
  BY <1>1, <1>2, NamedKept

(* Whatever a step adds to blocks, those there are keep patterns and destination. *)
LEMMA SendingKept ==
  ASSUME Sending, agreed' = agreed,
         \A b \in DOMAIN blocks : b \in DOMAIN blocks' /\ blocks'[b] = blocks[b]
  PROVE  Sending'
BY DEF Sending

LEMMA ReadBlockReads == CTyped /\ Covered /\ Sending /\ ReadBlock => Covered' /\ Sending'
<1> SUFFICES ASSUME CTyped, Covered, Sending, ReadBlock PROVE Covered' /\ Sending'
  OBVIOUS
<1>1. stack # <<>> /\ Line \in Lines /\ Line.kind = "block"
  BY LineTyped DEF ReadBlock
<1>2. stack' = Rest /\ agreed' = agreed
  BY DEF ReadBlock
<1>3. blocks \in Seq(Block) /\ Len(blocks) \in Nat /\ DOMAIN blocks = 1..Len(blocks)
  BY LenProperties DEF CTyped, CTypeOK
<1>4. [patterns |-> Line.patterns, dest |-> FALSE] \in Block
  BY <1>1 DEF Lines, Block
<1>5. /\ blocks' \in Seq(Block) /\ Len(blocks') = Len(blocks) + 1
      /\ \A b \in 1..Len(blocks) : blocks'[b] = blocks[b]
      /\ blocks'[Len(blocks) + 1] = [patterns |-> Line.patterns, dest |-> FALSE]
  BY <1>3, <1>4, AppendProperties DEF ReadBlock
<1>6. DOMAIN blocks' = 1..(Len(blocks) + 1)
  BY <1>5, LenProperties
<1>7. \A b \in DOMAIN blocks : b \in DOMAIN blocks' /\ blocks'[b] = blocks[b]
  BY <1>3, <1>5, <1>6
<1>8. Sending'
  BY <1>2, <1>7, SendingKept
<1>9. NamedBy(active, named)'
  <2>1. active' = Len(blocks) + 1 /\ named' = Top.on \cap NamedIn(Line.patterns)
    BY DEF ReadBlock
  <2>2. active' \in DOMAIN blocks' /\ blocks'[active'].patterns = Line.patterns
    BY <1>3, <1>5, <1>6, <2>1
  <2>3. NamedIn(blocks'[active'].patterns) = NamedIn(Line.patterns)
    BY <2>2
  <2> QED
    BY <2>1, <2>2, <2>3 DEF NamedBy
<1>10. \A i \in DOMAIN stack' : NamedBy(stack[i].active, stack[i].named)'
  BY <1>1, <1>2, <1>7, RestCovered
<1> QED
  BY <1>8, <1>9, <1>10 DEF Covered

LEMMA ReadDestReads == CTyped /\ Covered /\ Sending /\ ReadDest => Covered' /\ Sending'
<1> SUFFICES ASSUME CTyped, Covered, Sending, ReadDest PROVE Covered' /\ Sending'
  OBVIOUS
<1>1. stack # <<>>
  BY LineTyped DEF ReadDest
<1>2. stack' = Rest /\ UNCHANGED <<cur, active, named>>
      /\ agreed' = IF cur = active THEN agreed \cup named ELSE agreed
  BY DEF ReadDest
<1>3. blocks \in Seq(Block) /\ Len(blocks) \in Nat /\ DOMAIN blocks = 1..Len(blocks) /\ cur \in 0..Len(blocks)
  BY LenProperties DEF CTyped, CTypeOK
<1>4. /\ DOMAIN blocks' = DOMAIN blocks
      /\ \A b \in DOMAIN blocks : /\ blocks'[b].patterns = blocks[b].patterns
                                  /\ blocks[b].dest => blocks'[b].dest
      /\ cur # 0 => cur \in DOMAIN blocks /\ blocks'[cur].dest
  <2>1. CASE cur = 0
    BY <2>1 DEF ReadDest
  <2>2. CASE cur # 0
    <3>1. cur \in DOMAIN blocks
      BY <2>2, <1>3
    <3>2. blocks[cur] \in Block
      BY <3>1, <1>3, ElementOfSeq
    <3>3. blocks' = [blocks EXCEPT ![cur] = [blocks[cur] EXCEPT !.dest = TRUE]]
      BY <2>2 DEF ReadDest
    <3>4. [blocks[cur] EXCEPT !.dest = TRUE].patterns = blocks[cur].patterns
          /\ [blocks[cur] EXCEPT !.dest = TRUE].dest
      BY <3>2 DEF Block
    <3> QED
      BY <3>1, <3>3, <3>4
  <2> QED
    BY <2>1, <2>2
<1>5. NamedBy(active, named)'
  <2>1. NamedBy(active, named)
    BY DEF Covered
  <2>2. named = {} \/ (active \in DOMAIN blocks' /\ named \subseteq NamedIn(blocks'[active].patterns))
    BY <1>4, <2>1, NamedKept
  <2> QED
    BY <1>2, <2>2 DEF NamedBy
<1>6. \A i \in DOMAIN stack' : NamedBy(stack[i].active, stack[i].named)'
  BY <1>1, <1>2, <1>4, RestCovered
<1>7. ASSUME NEW n \in agreed'
      PROVE  \E b \in DOMAIN blocks' : blocks'[b].dest /\ n \in NamedIn(blocks'[b].patterns)
  <2>1. CASE n \in agreed
    <3>1. PICK b \in DOMAIN blocks : blocks[b].dest /\ n \in NamedIn(blocks[b].patterns)
      BY <2>1 DEF Sending
    <3>2. b \in DOMAIN blocks' /\ blocks'[b].dest /\ blocks'[b].patterns = blocks[b].patterns
      BY <3>1, <1>4
    <3> QED
      BY <3>1, <3>2
  <2>2. CASE n \notin agreed
    <3>1. cur = active /\ n \in named
      BY <2>2, <1>2
    <3>2. cur \in DOMAIN blocks /\ n \in NamedIn(blocks[cur].patterns)
      BY <3>1 DEF Covered, NamedBy
    <3>3. cur \in DOMAIN blocks' /\ blocks'[cur].dest /\ blocks'[cur].patterns = blocks[cur].patterns
      BY <3>2, <1>3, <1>4
    <3> QED
      BY <3>2, <3>3
  <2> QED
    BY <2>1, <2>2
<1>8. Sending'
  BY <1>7 DEF Sending
<1> QED
  BY <1>5, <1>6, <1>8 DEF Covered

(* A file is begun in the block its Include is in. *)
LEMMA ReadIncludeReads == CTyped /\ Covered /\ Sending /\ ReadInclude => Covered' /\ Sending'
<1> SUFFICES ASSUME CTyped, Covered, Sending, ReadInclude PROVE Covered' /\ Sending'
  OBVIOUS
<1>1. UNCHANGED <<blocks, active, named, agreed>>
  BY DEF ReadInclude, ssh
<1>2. Sending'
  BY <1>1, SendingKept
<1>3. NamedBy(active, named)'
  BY <1>1 DEF Covered, NamedBy
<1>4. stack # <<>>
  BY LineTyped DEF ReadInclude
<1>5. CASE Skipped(Line.file)
  <2>1. stack' = Rest
    BY <1>5 DEF ReadInclude
  <2>2. \A i \in DOMAIN stack' : NamedBy(stack[i].active, stack[i].named)'
    BY <1>1, <1>4, <2>1, RestCovered
  <2> QED
    BY <1>2, <1>3, <2>2 DEF Covered
<1>6. CASE ~Skipped(Line.file)
  <2> DEFINE e == [file |-> Line.file, line |-> 1, active |-> active, on |-> on, named |-> named]
             len == Len(stack)
  <2>1. /\ len \in Nat \ {0} /\ DOMAIN stack' = 1..(len + 1)
        /\ \A i \in 1..len : stack'[i] = Rest[i]
        /\ stack'[len + 1] = e
    BY <1>6, FollowStep
  <2>2. /\ \A i \in 1..(len - 1) : Rest[i] = stack[i]
        /\ Rest[len].active = stack[len].active /\ Rest[len].named = stack[len].named
        /\ DOMAIN stack = 1..len
    BY <1>4, RestTyped, TopTyped DEF Top
  <2>3. e.active = active /\ e.named = named
    OBVIOUS
  <2> HIDE DEF e, len
  <2>4. ASSUME NEW i \in DOMAIN stack'
        PROVE  NamedBy(stack'[i].active, stack'[i].named)
    <3>1. CASE i = len + 1
      BY <3>1, <2>1, <2>3 DEF Covered
    <3>2. CASE i # len + 1
      <4>1. i \in 1..len
        BY <3>2, <2>1
      <4>2. i = len \/ i \in 1..(len - 1)
        BY <4>1, <2>1
      <4>3. stack'[i].active = stack[i].active /\ stack'[i].named = stack[i].named
        BY <4>1, <4>2, <2>1, <2>2
      <4> QED
        BY <4>1, <4>3, <2>2 DEF Covered
    <3> QED
      BY <3>1, <3>2
  <2>5. \A i \in DOMAIN stack' : NamedBy(stack[i].active, stack[i].named)'
    BY <1>1, <2>4 DEF NamedBy
  <2> QED
    BY <1>2, <1>3, <2>5 DEF Covered
<1> QED
  BY <1>5, <1>6

(* ssh goes back to the block of the Include. *)
LEMMA EndOfFileReads == CTyped /\ Covered /\ Sending /\ EndOfFile => Covered' /\ Sending'
<1> SUFFICES ASSUME CTyped, Covered, Sending, EndOfFile PROVE Covered' /\ Sending'
  OBVIOUS
<1>1. UNCHANGED <<blocks, agreed>> /\ active' = Top.active /\ named' = Top.named
  BY DEF EndOfFile
<1>2. Sending'
  BY <1>1, SendingKept
<1>3. /\ stack # <<>> /\ Len(stack) \in Nat \ {0} /\ DOMAIN stack = 1..Len(stack)
      /\ DOMAIN stack' = 1..(Len(stack) - 1)
      /\ \A i \in 1..(Len(stack) - 1) : stack'[i] = stack[i] /\ i \in DOMAIN stack
  BY PopStep, TopTyped
<1>4. NamedBy(Top.active, Top.named)
  <2>1. Len(stack) \in DOMAIN stack
    BY <1>3
  <2> QED
    BY <2>1 DEF Covered, Top
<1>5. NamedBy(active, named)'
  BY <1>1, <1>4 DEF NamedBy
<1>6. \A i \in DOMAIN stack' : NamedBy(stack[i].active, stack[i].named)'
  <2>1. \A i \in DOMAIN stack' : stack'[i] = stack[i] /\ NamedBy(stack[i].active, stack[i].named)
    BY <1>3 DEF Covered
  <2> QED
    BY <1>1, <2>1 DEF NamedBy
<1> QED
  BY <1>2, <1>5, <1>6 DEF Covered

LEMMA BeginWriteReads == CTyped /\ BeginWrite => Covered' /\ Sending'
<1> SUFFICES ASSUME CTyped, BeginWrite PROVE Covered' /\ Sending'
  OBVIOUS
<1> DEFINE e == [file |-> UserConfig, line |-> IF included THEN 0 ELSE 1,
                 active |-> 0, on |-> Folded, named |-> {}]
<1>1. stack' = <<e>> /\ named' = {} /\ agreed' = {}
  BY DEF BeginWrite
<1>2. e.named = {}
  OBVIOUS
<1> HIDE DEF e
<1>3. DOMAIN stack' = {1} /\ stack'[1] = e
  BY <1>1
<1> QED
  BY <1>1, <1>2, <1>3 DEF Covered, NamedBy, Sending

LEMMA ReaderStep == CTyped /\ Covered /\ Sending /\ [CNext]_cvars => Covered' /\ Sending'
<1> SUFFICES ASSUME CTyped, Covered, Sending, [CNext]_cvars PROVE Covered' /\ Sending'
  OBVIOUS
<1>1. CASE ReadOption
  <2>1. stack # <<>> /\ stack' = Rest /\ UNCHANGED <<blocks, active, named, agreed>>
    BY <1>1, LineTyped DEF ReadOption, ssh
  <2>2. \A i \in DOMAIN stack' : NamedBy(stack[i].active, stack[i].named)'
    BY <2>1, RestCovered
  <2>3. NamedBy(active, named)'
    BY <2>1 DEF Covered, NamedBy
  <2> QED
    BY <2>1, <2>2, <2>3, SendingKept DEF Covered
<1>2. CASE Write \/ EnsureInclude \/ IncludeFails \/ RemoveInclude \/ UNCHANGED cvars
  <2>1. UNCHANGED <<stack, blocks, active, named, agreed>>
    BY <1>2 DEF Write, EnsureInclude, IncludeFails, RemoveInclude, cvars, reader, ssh
  <2> QED
    BY <2>1 DEF Covered, NamedBy, Sending
<1> QED
  BY <1>1, <1>2, BeginWriteReads, ReadBlockReads, ReadDestReads, ReadIncludeReads, EndOfFileReads
     DEF CNext

LEMMA CInitReads == CInit => Covered /\ Sending /\ Spared
<1> SUFFICES ASSUME CInit PROVE Covered /\ Sending /\ Spared
  OBVIOUS
<1>1. stack = <<>> /\ named = {} /\ agreed = {} /\ alias = NoAlias
  BY DEF CInit
<1>2. DOMAIN stack = {}
  BY <1>1
<1> QED
  BY <1>1, <1>2 DEF Covered, NamedBy, Sending, Spared, NoAlias

(* What Write gives a bare name to, no block with a destination names. *)
LEMMA SparedStep == CTyped /\ Spared /\ [CNext]_cvars => Spared'
<1> SUFFICES ASSUME CTyped, Spared, [CNext]_cvars PROVE Spared'
  OBVIOUS
<1>1. CASE Write
  <2>1. PICK s \in Snapshots : alias' = [t \in Ids |-> AliasOf(s, t)]
    BY <1>1 DEF Write
  <2>2. blocks' = blocks
    BY <1>1 DEF Write, reader
  <2>3. ASSUME NEW t \in Ids, alias'[t] # None, ~alias'[t].nokku PROVE ~Claims(alias'[t].name)
    <3>1. alias'[t] = AliasOf(s, t)
      BY <2>1
    <3>2. alias'[t] = [nokku |-> Claims(s[t]), name |-> s[t]]
      BY <2>3, <3>1 DEF AliasOf
    <3> QED
      BY <2>3, <3>2
  <2>4. ASSUME NEW n PROVE Claims(n)' <=> Claims(n)
    BY <2>2 DEF Claims
  <2> QED
    BY <2>2, <2>3 DEF Spared, Claims
<1>2. CASE RemoveInclude
  BY <1>2 DEF RemoveInclude, NoAlias, Spared
<1>3. CASE EnsureInclude \/ IncludeFails \/ UNCHANGED cvars
  <2>1. UNCHANGED <<alias, blocks>> /\ (phase' \in {"include", "idle"} => phase \in {"include", "idle"})
    BY <1>3 DEF EnsureInclude, IncludeFails, cvars, reader
  <2> QED
    BY <2>1 DEF Spared, Claims
<1>4. CASE BeginWrite \/ ReadBlock \/ ReadDest \/ ReadOption \/ ReadInclude \/ EndOfFile
  <2>1. phase' \in {"read", "write"}
    BY <1>4 DEF BeginWrite, ReadBlock, ReadDest, ReadOption, ReadInclude, EndOfFile, At
  <2> QED
    BY <2>1 DEF Spared
<1> QED
  BY <1>1, <1>2, <1>3, <1>4 DEF CNext

LEMMA SparedKept == ReaderInv => OwnNamesKept
<1> SUFFICES ASSUME ReaderInv, phase \in {"include", "idle"}, NEW n \in Bare, Fold[n] \in agreed
             PROVE  FALSE
  BY DEF OwnNamesKept
<1>1. PICK t \in Ids : alias[t] # None /\ ~alias[t].nokku /\ alias[t].name = n
  BY DEF Bare
<1>2. ~Claims(n)
  BY <1>1 DEF ReaderInv, Spared
<1>3. \E b \in DOMAIN blocks : blocks[b].dest /\ Fold[n] \in NamedIn(blocks[b].patterns)
  BY DEF ReaderInv, Sending
<1> QED
  BY <1>2, <1>3 DEF Claims

(* A server never gets a bare name that ssh takes to a destination of the user's,   *)
(* where nk and ssh have the line that says so in one block: for every config,      *)
(* however its Includes nest, and every snapshot.                               *)
THEOREM UserNamesSpared == CSpec => []OwnNamesKept
<1>1. CInit => ReaderInv
  BY CInitTyped, CInitReads DEF ReaderInv
<1>2. ReaderInv /\ [CNext]_cvars => ReaderInv'
  BY CStepTyped, ReaderStep, SparedStep DEF ReaderInv
<1> QED
  BY <1>1, <1>2, SparedKept, PTL DEF CSpec

-----------------------------------------------------------------------------
(* The names.  No block spells out the id of a target, so nokku/<id> and            *)
(* nokku/<name> never meet; what is left are names of two targets, which are       *)
(* namesakes and counted.                                                        *)
LEMMA UnspelledStep == IdsUnspelled /\ CTyped /\ Unspelled /\ [CNext]_cvars => Unspelled'
<1> SUFFICES ASSUME IdsUnspelled, CTyped, Unspelled, [CNext]_cvars PROVE Unspelled'
  OBVIOUS
<1>1. blocks \in Seq(Block) /\ DOMAIN blocks = 1..Len(blocks) /\ Len(blocks) \in Nat
  BY LenProperties DEF CTyped, CTypeOK
<1>2. CASE ReadBlock
  <2>1. stack # <<>> /\ Line \in Lines /\ Line.kind = "block"
        /\ (Top.line = 0 => Line = IncludeNk)
        /\ (Top.line # 0 => /\ Line = UserText(Top.file)[Top.line]
                            /\ Top.line \in DOMAIN UserText(Top.file))
    BY <1>2, LineTyped DEF ReadBlock
  <2>2. Line = UserText(Top.file)[Top.line] /\ Top.line \in DOMAIN UserText(Top.file)
    BY <2>1 DEF IncludeNk
  <2>3. ~SpellsId(UserText(Top.file))
    <3>1. Top.file \in Others \cup {UserConfig} /\ main \in Mains /\ extra \in Extras
      BY <2>1, TopTyped DEF Frame, CTyped, CTypeOK
    <3> QED
      BY <3>1 DEF UserText, IdsUnspelled
  <2>4. \A n \in Names \cap Ids : Fold[n] \notin NamedIn(Line.patterns)
    BY <2>1, <2>2, <2>3 DEF SpellsId
  <2>5. [patterns |-> Line.patterns, dest |-> FALSE] \in Block
    BY <2>1 DEF Lines, Block
  <2>6. /\ blocks' \in Seq(Block) /\ Len(blocks') = Len(blocks) + 1
        /\ \A b \in 1..Len(blocks) : blocks'[b] = blocks[b]
        /\ blocks'[Len(blocks) + 1] = [patterns |-> Line.patterns, dest |-> FALSE]
    BY <1>1, <1>2, <2>5, AppendProperties DEF ReadBlock
  <2>7. DOMAIN blocks' = 1..(Len(blocks) + 1)
    BY <2>6, LenProperties
  <2>8. ASSUME NEW b \in DOMAIN blocks', NEW n \in Names \cap Ids
        PROVE  Fold[n] \notin NamedIn(blocks'[b].patterns)
    <3>1. b = Len(blocks) + 1 \/ b \in DOMAIN blocks
      BY <1>1, <2>7
    <3>2. CASE b = Len(blocks) + 1
      <4>1. blocks'[b].patterns = Line.patterns
        BY <3>2, <2>6
      <4> QED
        BY <4>1, <2>4
    <3>3. CASE b \in DOMAIN blocks
      <4>1. blocks'[b] = blocks[b]
        BY <3>3, <1>1, <2>6
      <4> QED
        BY <3>3, <4>1 DEF Unspelled
    <3> QED
      BY <3>1, <3>2, <3>3
  <2> QED
    BY <2>8 DEF Unspelled
<1>3. CASE ReadDest
  <2>1. /\ DOMAIN blocks' = DOMAIN blocks
        /\ \A b \in DOMAIN blocks : blocks'[b].patterns = blocks[b].patterns
    <3>1. CASE cur = 0
      BY <3>1, <1>3 DEF ReadDest
    <3>2. CASE cur # 0
      <4>1. cur \in 1..Len(blocks)
        BY <3>2, <1>1 DEF CTyped, CTypeOK
      <4>2. blocks[cur] \in Block
        BY <4>1, <1>1, ElementOfSeq
      <4>3. blocks' = [blocks EXCEPT ![cur] = [blocks[cur] EXCEPT !.dest = TRUE]]
        BY <1>3, <3>2 DEF ReadDest
      <4>4. [blocks[cur] EXCEPT !.dest = TRUE].patterns = blocks[cur].patterns
        BY <4>2 DEF Block
      <4> QED
        BY <4>1, <4>3, <4>4
    <3> QED
      BY <3>1, <3>2
  <2>2. \A b \in DOMAIN blocks : NamedIn(blocks'[b].patterns) = NamedIn(blocks[b].patterns)
    BY <2>1
  <2> QED
    BY <2>1, <2>2 DEF Unspelled
<1>4. CASE BeginWrite
  <2>1. blocks' = <<>>
    BY <1>4 DEF BeginWrite
  <2> QED
    BY <2>1 DEF Unspelled
<1>5. CASE ReadOption \/ ReadInclude \/ EndOfFile \/ Write \/ EnsureInclude \/ IncludeFails
           \/ RemoveInclude \/ UNCHANGED cvars
  <2>1. blocks' = blocks
    BY <1>5 DEF ReadOption, ReadInclude, EndOfFile, Write, EnsureInclude, IncludeFails, RemoveInclude,
                cvars, reader
  <2> QED
    BY <2>1 DEF Unspelled
<1> QED
  BY <1>2, <1>3, <1>4, <1>5 DEF CNext

LEMMA TwoNamesakes ==
  ASSUME NEW s, NEW t \in Ids, NEW u \in Ids, t # u, s[t] # None, s[u] # None, Fold[s[t]] = Fold[s[u]]
  PROVE  Cardinality(Namesakes(s, t)) > 1
<1>1. {t, u} \subseteq Namesakes(s, t) /\ Namesakes(s, t) \subseteq Ids
  BY DEF Namesakes
<1>2. IsFiniteSet(Namesakes(s, t))
  BY <1>1, ConfigAssumption, FS_Subset
<1>3. IsFiniteSet({t}) /\ Cardinality({t}) = 1
  BY FS_Singleton
<1>4. Cardinality({t} \cup {u}) = 2
  <2>1. u \notin {t}
    OBVIOUS
  <2>2. Cardinality({t} \cup {u}) = IF u \in {t} THEN Cardinality({t}) ELSE Cardinality({t}) + 1
    BY ONLY <1>3, FS_AddElement
  <2> QED
    BY ONLY <1>3, <2>1, <2>2
<1>5. {t} \cup {u} = {t, u}
  OBVIOUS
<1>6. Cardinality({t, u}) <= Cardinality(Namesakes(s, t))
  BY <1>1, <1>2, FS_Subset
<1>7. Cardinality(Namesakes(s, t)) \in Nat
  BY <1>2, FS_CardinalityType
<1> QED
  BY <1>4, <1>5, <1>6, <1>7

LEMMA ClaimsNoId ==
  ASSUME Unspelled, NEW t \in Ids, NEW n \in Names, Claims(n), t = n \/ (t \in Names /\ Fold[t] = Fold[n])
  PROVE  FALSE
<1>1. t \in Names \cap Ids /\ Fold[t] = Fold[n]
  OBVIOUS
<1>2. PICK b \in DOMAIN blocks : Fold[n] \in NamedIn(blocks[b].patterns)
  BY DEF Claims
<1> QED
  BY <1>1, <1>2 DEF Unspelled

(* Two aliases of one snapshot, by the reasons they were given for. *)
LEMMA AliasesApart ==
  ASSUME Unspelled, NEW s \in [Ids -> Names \cup {None}], NEW t \in Ids, NEW u \in Ids, t # u,
         AliasOf(s, t) # None, AliasOf(s, u) # None,
         AliasOf(s, t).nokku = AliasOf(s, u).nokku,
         \/ AliasOf(s, t).name = AliasOf(s, u).name
         \/ {AliasOf(s, t).name, AliasOf(s, u).name} \subseteq Names
              /\ Fold[AliasOf(s, t).name] = Fold[AliasOf(s, u).name]
  PROVE  FALSE
<1> DEFINE shared(v) == Cardinality(Namesakes(s, v)) > 1
<1>1. s[t] # None /\ s[u] # None /\ s[t] \in Names /\ s[u] \in Names
  BY DEF AliasOf
<1>2. ASSUME NEW v \in {t, u}, shared(v) PROVE AliasOf(s, v) = [nokku |-> TRUE, name |-> v]
  BY <1>1, <1>2 DEF AliasOf
<1>3. ASSUME NEW v \in {t, u}, ~shared(v) PROVE AliasOf(s, v) = [nokku |-> Claims(s[v]), name |-> s[v]]
  BY <1>1, <1>3 DEF AliasOf
<1>4. ASSUME Fold[s[t]] = Fold[s[u]] PROVE shared(t) /\ shared(u)
  BY <1>1, <1>4, TwoNamesakes
<1> HIDE DEF shared
<1>5. CASE shared(t) /\ shared(u)
  <2>1. AliasOf(s, t).name = t /\ AliasOf(s, u).name = u
    BY <1>2, <1>5
  <2>2. {t, u} \subseteq Names /\ Fold[t] = Fold[u]
    BY <2>1
  <2> QED
    BY <2>2, IdAssumption
<1>6. CASE shared(t) /\ ~shared(u)
  <2>1. AliasOf(s, t).nokku = TRUE /\ AliasOf(s, t).name = t
        /\ AliasOf(s, u).nokku = Claims(s[u]) /\ AliasOf(s, u).name = s[u]
    BY <1>2, <1>3, <1>6
  <2>2. Claims(s[u])
    BY <2>1
  <2>3. t = s[u] \/ (t \in Names /\ Fold[t] = Fold[s[u]])
    BY <2>1
  <2> QED
    BY <1>1, <2>2, <2>3, ClaimsNoId
<1>7. CASE ~shared(t) /\ shared(u)
  <2>1. AliasOf(s, u).nokku = TRUE /\ AliasOf(s, u).name = u
        /\ AliasOf(s, t).nokku = Claims(s[t]) /\ AliasOf(s, t).name = s[t]
    BY <1>2, <1>3, <1>7
  <2>2. Claims(s[t])
    BY <2>1
  <2>3. u = s[t] \/ (u \in Names /\ Fold[u] = Fold[s[t]])
    BY <2>1
  <2> QED
    BY <1>1, <2>2, <2>3, ClaimsNoId
<1>8. CASE ~shared(t) /\ ~shared(u)
  <2>1. AliasOf(s, t).name = s[t] /\ AliasOf(s, u).name = s[u]
    BY <1>3, <1>8
  <2>2. Fold[s[t]] = Fold[s[u]]
    BY <2>1
  <2> QED
    BY <2>2, <1>4, <1>8
<1> QED
  BY <1>5, <1>6, <1>7, <1>8

LEMMA DistinctStep == CTyped /\ Unspelled /\ AliasesDistinct /\ [CNext]_cvars => AliasesDistinct'
<1> SUFFICES ASSUME CTyped, Unspelled, AliasesDistinct, [CNext]_cvars PROVE AliasesDistinct'
  OBVIOUS
<1>1. CASE Write
  <2>1. PICK s \in Snapshots : alias' = [t \in Ids |-> AliasOf(s, t)]
    BY <1>1 DEF Write
  <2>2. s \in [Ids -> Names \cup {None}]
    BY ConfigAssumption
  <2>3. \A t \in Ids : alias'[t] = AliasOf(s, t)
    BY <2>1
  <2> SUFFICES ASSUME NEW t \in Ids, NEW u \in Ids, t # u, alias'[t] # None, alias'[u] # None,
                      alias'[t].nokku = alias'[u].nokku,
                      \/ alias'[t].name = alias'[u].name
                      \/ {alias'[t].name, alias'[u].name} \subseteq Names
                           /\ Fold[alias'[t].name] = Fold[alias'[u].name]
               PROVE  FALSE
    BY DEF AliasesDistinct
  <2>4. alias'[t] = AliasOf(s, t) /\ alias'[u] = AliasOf(s, u)
    BY <2>3
  <2> QED
    BY <2>2, <2>4, AliasesApart
<1>2. CASE RemoveInclude
  BY <1>2 DEF RemoveInclude, NoAlias, AliasesDistinct
<1>3. CASE BeginWrite \/ ReadBlock \/ ReadDest \/ ReadOption \/ ReadInclude \/ EndOfFile
           \/ EnsureInclude \/ IncludeFails \/ UNCHANGED cvars
  <2>1. alias' = alias
    BY <1>3 DEF BeginWrite, ReadBlock, ReadDest, ReadOption, ReadInclude, EndOfFile, EnsureInclude,
                IncludeFails, cvars
  <2> QED
    BY <2>1 DEF AliasesDistinct
<1> QED
  BY <1>1, <1>2, <1>3 DEF CNext

(* Two servers never share the name ssh knows them by, upper or lower case: for any  *)
(* config in which no Host line spells out an id.                                 *)
THEOREM NamesApart == ASSUME IdsUnspelled PROVE CSpec => []AliasesDistinct
<1>1. CInit => CTyped /\ Unspelled /\ AliasesDistinct
  <2>1. CInit => Unspelled /\ AliasesDistinct
    BY DEF CInit, NoAlias, Unspelled, AliasesDistinct
  <2> QED
    BY <2>1, CInitTyped
<1>2. CTyped /\ Unspelled /\ AliasesDistinct /\ [CNext]_cvars => (CTyped /\ Unspelled /\ AliasesDistinct)'
  BY CStepTyped, UnspelledStep, DistinctStep
<1> QED
  BY <1>1, <1>2, PTL DEF CSpec

-----------------------------------------------------------------------------
(* The reader is a function of the user's files: the file nk wrote is left out,    *)
(* and the line that includes it leaves no trace.  ReadOn(m, e, q) is what the     *)
(* next step makes of the reader q over the texts m and e.  What a read can come   *)
(* to is in every set that holds its start and is closed under ReadOn.  That two   *)
(* of these are finished only if they are the same needs no induction over lines: *)
(* the states that must come to the one are such a set.                          *)
Readers ==
  [stack : Seq(Frame), blocks : Seq(Block), cur : Nat, files : Nat,
   active : Nat, on : SUBSET Folded, named : SUBSET Folded]

Here ==
  [stack |-> stack, blocks |-> blocks, cur |-> cur, files |-> files,
   active |-> active, on |-> on, named |-> named]

StartAt(n) ==
  [stack |-> <<[file |-> UserConfig, line |-> n, active |-> 0, on |-> Folded, named |-> {}]>>,
   blocks |-> <<>>, cur |-> 0, files |-> 1,
   active |-> 0, on |-> Folded, named |-> {}]

TextOf(m, e, f) == IF f = UserConfig THEN m ELSE e[f]
TopOf(q) == q.stack[Len(q.stack)]
RestOf(q) == [q.stack EXCEPT ![Len(q.stack)].line = @ + 1]

PastInclude(q, f) ==
  IF Len(q.stack) > MaxDepth \/ q.files >= MaxFiles \/ f \in Unread \cup {Nk}
  THEN [q EXCEPT !.stack = RestOf(q)]
  ELSE [q EXCEPT !.stack = Append(RestOf(q), [file |-> f, line |-> 1, active |-> q.active,
                                                on |-> q.on, named |-> q.named]),
                 !.files = @ + 1]

PastLine(q, l) ==
  CASE l.kind = "block"   -> [q EXCEPT !.stack = RestOf(q),
                                       !.blocks = Append(@, [patterns |-> l.patterns, dest |-> FALSE]),
                                       !.cur = Len(q.blocks) + 1, !.active = Len(q.blocks) + 1,
                                       !.on = TopOf(q).on \cap
                                                (IF l.patterns = {} THEN Folded ELSE Matches(l.patterns)),
                                       !.named = TopOf(q).on \cap NamedIn(l.patterns)]
    [] l.kind = "dest"    -> [q EXCEPT !.stack = RestOf(q),
                                       !.blocks = IF q.cur = 0 THEN @ ELSE [@ EXCEPT ![q.cur].dest = TRUE]]
    [] l.kind = "include" -> PastInclude(q, l.file)
    [] OTHER              -> [q EXCEPT !.stack = RestOf(q)]

ReadOn(m, e, q) ==
  IF TopOf(q).line > Len(TextOf(m, e, TopOf(q).file))
  THEN [q EXCEPT !.stack = SubSeq(@, 1, Len(@) - 1), !.active = TopOf(q).active,
                !.on = TopOf(q).on, !.named = TopOf(q).named]
  ELSE PastLine(q, TextOf(m, e, TopOf(q).file)[TopOf(q).line])

Closed(m, e, S) ==
  \A q \in S : q.stack # <<>> /\ ReadOn(m, e, q) \in Readers => ReadOn(m, e, q) \in S

Reached(m, e) ==
  {q \in Readers : \A S \in SUBSET Readers : StartAt(1) \in S /\ Closed(m, e, S) => q \in S}

Taken(bs) == {n \in Names : \E b \in DOMAIN bs : bs[b].dest /\ Fold[n] \in NamedIn(bs[b].patterns)}

AliasBy(taken, s, t) ==
  IF s[t] = None THEN None
  ELSE IF Cardinality(Namesakes(s, t)) > 1 THEN [nokku |-> TRUE, name |-> t]
  ELSE [nokku |-> s[t] \in taken, name |-> s[t]]

Numbered == \A i \in DOMAIN stack : stack[i].line # 0

(* What is in nk's file comes from a whole read of the files the user still has. *)
Retold ==
  /\ phase = "read" => Here = StartAt(0) \/ (Numbered /\ Here \in Reached(main, extra))
  /\ phase = "write" => Here \in Reached(main, extra)
  /\ snap # None =>
       \E q \in Reached(main, extra) :
         q.stack = <<>> /\ alias = [t \in Ids |-> AliasBy(Taken(q.blocks), snap, t)]

-----------------------------------------------------------------------------
LEMMA StartReads == StartAt(1) \in Readers
<1> DEFINE f == [file |-> UserConfig, line |-> 1, active |-> 0, on |-> Folded, named |-> {}]
<1>1. f \in Frame
  BY DEF Frame
<1>2. <<f>> \in Seq(Frame) /\ <<>> \in Seq(Block)
  <2> HIDE DEF f
  <2> QED
    BY <1>1, EmptySeq
<1> HIDE DEF f
<1>3. StartAt(1) = [stack |-> <<f>>, blocks |-> <<>>, cur |-> 0, files |-> 1,
   active |-> 0, on |-> Folded, named |-> {}]
  BY DEF StartAt, f
<1>4. \A a \in Seq(Frame), b \in Seq(Block) :
        [stack |-> a, blocks |-> b, cur |-> 0, files |-> 1,
   active |-> 0, on |-> Folded, named |-> {}] \in Readers
  BY DEF Readers
<1> QED
  BY <1>2, <1>3, <1>4

LEMMA StartReached == \A m, e : StartAt(1) \in Reached(m, e)
BY StartReads DEF Reached

LEMMA ReachOn ==
  ASSUME NEW m, NEW e, NEW q \in Reached(m, e), q.stack # <<>>, ReadOn(m, e, q) \in Readers
  PROVE  ReadOn(m, e, q) \in Reached(m, e)
<1> SUFFICES ASSUME NEW S \in SUBSET Readers, StartAt(1) \in S, Closed(m, e, S)
             PROVE  ReadOn(m, e, q) \in S
  BY DEF Reached
<1>1. q \in S
  BY DEF Reached
<1> QED
  BY <1>1 DEF Closed

(* A read comes to one end only. *)
LEMMA OneEnd ==
  ASSUME NEW m, NEW e, NEW p \in Reached(m, e), NEW q \in Reached(m, e), p.stack = <<>>, q.stack = <<>>
  PROVE  p = q
<1> DEFINE S == {s \in Readers : \A C \in SUBSET Readers : s \in C /\ Closed(m, e, C) => p \in C}
<1>1. StartAt(1) \in S
  BY StartReads DEF Reached
<1>2. Closed(m, e, S)
  <2> SUFFICES ASSUME NEW s \in S, s.stack # <<>>, ReadOn(m, e, s) \in Readers
               PROVE  ReadOn(m, e, s) \in S
    BY DEF Closed
  <2> SUFFICES ASSUME NEW C \in SUBSET Readers, ReadOn(m, e, s) \in C, Closed(m, e, C)
               PROVE  p \in C
    OBVIOUS
  <2>1. C \cup {s} \in SUBSET Readers
    OBVIOUS
  <2>2. Closed(m, e, C \cup {s})
    BY DEF Closed
  <2>3. p \in C \cup {s}
    BY <2>1, <2>2
  <2> QED
    BY <2>3
<1>3. q \in S
  <2>1. S \in SUBSET Readers
    OBVIOUS
  <2> HIDE DEF S
  <2> QED
    BY <1>1, <1>2, <2>1 DEF Reached
<1>4. {q} \in SUBSET Readers /\ Closed(m, e, {q})
  BY DEF Closed, Reached
<1> QED
  BY <1>3, <1>4

LEMMA HereReads == CTyped => Here \in Readers
<1> SUFFICES ASSUME CTyped PROVE Here \in Readers
  OBVIOUS
<1>1. stack \in Seq(Frame) /\ blocks \in Seq(Block) /\ cur \in 0..Len(blocks) /\ files \in 0..MaxFiles
      /\ active \in Nat /\ on \subseteq Folded /\ named \subseteq Folded
  BY DEF CTyped, CTypeOK
<1>2. Len(blocks) \in Nat
  BY <1>1, LenProperties
<1>3. cur \in Nat /\ files \in Nat
  BY <1>1, <1>2, LimitAssumption
<1> QED
  BY <1>1, <1>3 DEF Here, Readers

LEMMA HereFields ==
  /\ Here.stack = stack /\ Here.blocks = blocks /\ Here.cur = cur /\ Here.files = files
  /\ TopOf(Here) = Top /\ RestOf(Here) = Rest
  /\ \A f : TextOf(main, extra, f) = UserText(f)
BY DEF Here, TopOf, RestOf, Top, Rest, TextOf, UserText

(* The line of the Include that nk put there is passed, and leads nowhere. *)
LEMMA PassNk ==
  ASSUME CTyped, Here = StartAt(0), CNext
  PROVE  phase = "read" => Here' = StartAt(1) /\ Numbered' /\ phase' = "read"
<1> SUFFICES ASSUME phase = "read" PROVE Here' = StartAt(1) /\ Numbered' /\ phase' = "read"
  OBVIOUS
<1> DEFINE f(n) == [file |-> UserConfig, line |-> n, active |-> 0, on |-> Folded, named |-> {}]
<1>1. stack = <<f(0)>> /\ blocks = <<>> /\ cur = 0 /\ files = 1
      /\ active = 0 /\ on = Folded /\ named = {}
  BY DEF Here, StartAt
<1>2. Len(stack) = 1 /\ Top = f(0) /\ stack # <<>>
  BY <1>1 DEF Top
<1>3. Top.line = 0 /\ Top.file = UserConfig /\ Line = IncludeNk
  BY <1>2 DEF Line
<1>4. Len(Text(Top.file)) \in Nat
  BY <1>3, TextTyped DEF CTyped, CTypeOK
<1>5. ReadInclude
  BY <1>3, <1>4 DEF CNext, BeginWrite, ReadBlock, ReadDest, ReadOption, EndOfFile, Write, EnsureInclude,
                    IncludeFails, RemoveInclude, At, IncludeNk
<1>6. stack' = Rest /\ files' = files
  BY <1>3, <1>5 DEF ReadInclude, Skipped, IncludeNk
<1>7. Rest = <<f(1)>>
  <2>1. Rest \in Seq(Frame) /\ Len(Rest) = 1 /\ Rest[1] = f(1)
    BY <1>2, RestTyped
  <2> HIDE DEF f
  <2>2. f(1) \in Frame
    BY <2>1, ElementOfSeq
  <2>3. <<f(1)>> \in Seq(Frame) /\ Len(<<f(1)>>) = 1 /\ <<f(1)>>[1] = f(1)
    BY <2>2, EmptySeq
  <2>4. \A i \in 1..Len(Rest) : Rest[i] = <<f(1)>>[i]
    BY <2>1, <2>3
  <2> QED
    BY <2>1, <2>3, <2>4, SeqEqual
<1>8. Here' = StartAt(1)
  BY <1>1, <1>5, <1>6, <1>7 DEF ReadInclude, ssh, Here, StartAt
<1>9. Numbered'
  BY <1>6, <1>7 DEF Numbered
<1> QED
  BY <1>5, <1>8, <1>9 DEF ReadInclude

LEMMA ReaderReads ==
  ASSUME CTyped, Numbered,
         ReadBlock \/ ReadDest \/ ReadOption \/ ReadInclude \/ EndOfFile
  PROVE  Here' = ReadOn(main, extra, Here) /\ Numbered' /\ stack # <<>>
<1> DEFINE l == UserText(Top.file)[Top.line]
<1> DEFINE past == Top.line > Len(UserText(Top.file))
<1>1. ReadOn(main, extra, Here) =
        IF past THEN [Here EXCEPT !.stack = SubSeq(stack, 1, Len(stack) - 1),
                               !.active = Top.active, !.on = Top.on, !.named = Top.named]
        ELSE PastLine(Here, l)
  BY HereFields DEF ReadOn
<1>2. ASSUME stack # <<>> PROVE Top.line # 0 /\ Top.line \in Nat
  BY <1>2, TopTyped DEF Numbered, Top, Frame
<1>3. ASSUME stack # <<>>, stack' = Rest PROVE Numbered'
  <2>1. Len(stack) \in Nat \ {0} /\ DOMAIN stack' = 1..Len(stack) /\ Top'.line = Top.line + 1
        /\ Top' = stack'[Len(stack)] /\ DOMAIN stack = 1..Len(stack)
        /\ \A i \in 1..(Len(stack) - 1) : stack'[i] = stack[i]
    BY <1>3, TopTyped, RestStep DEF Top
  <2>2. Top.line \in Nat
    BY <1>2, <1>3
  <2>3. stack'[Len(stack)].line # 0
    BY <2>1, <2>2
  <2>4. \A i \in 1..(Len(stack) - 1) : stack'[i].line # 0
    BY <2>1 DEF Numbered
  <2> QED
    BY <2>1, <2>3, <2>4 DEF Numbered
<1>4. ASSUME NEW kind, At(kind)
      PROVE  /\ stack # <<>> /\ ~past /\ Line = l /\ l.kind = kind /\ l \in Lines
             /\ ReadOn(main, extra, Here) = PastLine(Here, l)
  <2>1. stack # <<>> /\ Line.kind = kind /\ Line \in Lines
        /\ (Top.line # 0 => Line = l /\ Top.line \in DOMAIN UserText(Top.file))
    BY <1>4, LineTyped
  <2>2. Top.line # 0 /\ Top.line \in Nat
    BY <1>2, <2>1
  <2>3. Top.file \in Others \cup {UserConfig}
    BY <2>1, TopTyped DEF Frame
  <2>4. DOMAIN UserText(Top.file) = 1..Len(UserText(Top.file)) /\ Len(UserText(Top.file)) \in Nat
    BY <2>3, TextTyped DEF CTyped, CTypeOK
  <2>5. ~past
    BY <2>1, <2>2, <2>4
  <2> QED
    BY <1>1, <2>1, <2>2, <2>5
<1>5. CASE ReadBlock
  <2>1. At("block")
    BY <1>5 DEF ReadBlock
  <2>2. l.kind = "block" /\ Line = l /\ stack # <<>> /\ ReadOn(main, extra, Here) = PastLine(Here, l)
    BY <2>1, <1>4
  <2>3. Numbered'
    BY <2>2, <1>3, <1>5 DEF ReadBlock
  <2>4. Here' = PastLine(Here, l)
    BY <2>2, <1>5, HereFields DEF ReadBlock, PastLine, Here
  <2> QED
    BY <2>2, <2>3, <2>4
<1>6. CASE ReadDest
  <2>1. At("dest")
    BY <1>6 DEF ReadDest
  <2>2. l.kind = "dest" /\ stack # <<>> /\ ReadOn(main, extra, Here) = PastLine(Here, l)
    BY <2>1, <1>4
  <2>3. Numbered'
    BY <2>2, <1>3, <1>6 DEF ReadDest
  <2>4. Here' = PastLine(Here, l)
    BY <2>2, <1>6, HereFields DEF ReadDest, PastLine, Here
  <2> QED
    BY <2>2, <2>3, <2>4
<1>7. CASE ReadOption
  <2>1. At("option")
    BY <1>7 DEF ReadOption
  <2>2. l.kind = "option" /\ stack # <<>> /\ ReadOn(main, extra, Here) = PastLine(Here, l)
    BY <2>1, <1>4
  <2>3. Numbered'
    BY <2>2, <1>3, <1>7 DEF ReadOption
  <2>4. Here' = PastLine(Here, l)
    BY <2>2, <1>7, HereFields DEF ReadOption, PastLine, Here, ssh
  <2> QED
    BY <2>2, <2>3, <2>4
<1>8. CASE ReadInclude
  <2>1. At("include")
    BY <1>8 DEF ReadInclude
  <2>2. l.kind = "include" /\ Line = l /\ stack # <<>> /\ ReadOn(main, extra, Here) = PastLine(Here, l)
    BY <2>1, <1>4
  <2>3. PastLine(Here, l) = PastInclude(Here, l.file)
    BY <2>2 DEF PastLine
  <2>4. CASE Skipped(l.file)
    <3>1. stack' = Rest /\ files' = files
      BY <2>2, <2>4, <1>8 DEF ReadInclude
    <3>2. Here' = PastInclude(Here, l.file)
      BY <3>1, <2>4, <1>8, HereFields DEF ReadInclude, PastInclude, Skipped, Here, ssh
    <3> QED
      BY <2>2, <2>3, <3>1, <3>2, <1>3
  <2>5. CASE ~Skipped(l.file)
    <3> DEFINE new == [file |-> l.file, line |-> 1, active |-> active, on |-> on, named |-> named]
    <3>1. stack' = Append(Rest, new) /\ files' = files + 1
      BY <2>2, <2>5, <1>8 DEF ReadInclude
    <3>2. Here' = PastInclude(Here, l.file)
      BY <3>1, <2>5, <1>8, HereFields DEF ReadInclude, PastInclude, Skipped, Here, ssh
    <3>3. Numbered'
      <4>1. Rest \in Seq(Frame) /\ Len(Rest) = Len(stack) /\ Rest[Len(stack)].line = Top.line + 1
            /\ \A i \in 1..(Len(stack) - 1) : Rest[i] = stack[i]
        BY <2>2, RestTyped
      <4>2. Len(stack) \in Nat \ {0} /\ DOMAIN stack = 1..Len(stack) /\ Top.line \in Nat
        BY <2>2, <1>2, TopTyped
      <4>3. new.line = 1
        OBVIOUS
      <4> HIDE DEF new, l
      <4>4. /\ DOMAIN stack' = 1..(Len(stack) + 1) /\ stack'[Len(stack) + 1] = new
            /\ \A i \in 1..Len(stack) : stack'[i] = Rest[i]
        BY <3>1, <4>1, <4>2
      <4>5. \A i \in 1..(Len(stack) - 1) : stack'[i].line # 0
        BY <4>1, <4>2, <4>4 DEF Numbered
      <4>6. stack'[Len(stack)].line # 0 /\ stack'[Len(stack) + 1].line # 0
        BY <4>1, <4>2, <4>3, <4>4
      <4> QED
        BY <4>2, <4>4, <4>5, <4>6 DEF Numbered
    <3> QED
      BY <2>2, <2>3, <3>2, <3>3
  <2> QED
    BY <2>4, <2>5
<1>9. CASE EndOfFile
  <2>1. stack # <<>> /\ Top.line > Len(Text(Top.file))
    BY <1>9 DEF EndOfFile
  <2>2. Top.file \in Others \cup {UserConfig}
    BY <2>1, TopTyped DEF Frame
  <2>3. past
    BY <2>1, <2>2, TextTyped DEF CTyped, CTypeOK
  <2>4. Here' = ReadOn(main, extra, Here)
    BY <1>1, <1>9, <2>3 DEF EndOfFile, Here
  <2>5. Numbered'
    BY <1>9, PopStep DEF Numbered
  <2> QED
    BY <2>1, <2>4, <2>5
<1> QED
  BY <1>5, <1>6, <1>7, <1>8, <1>9

(* A whole read, and what the file is written from. *)
LEMMA WriteTaken ==
  ASSUME NEW s, NEW t \in Ids, s[t] \in Names \cup {None}
  PROVE  AliasOf(s, t) = AliasBy(Taken(blocks), s, t)
<1>1. CASE s[t] = None
  BY <1>1 DEF AliasOf, AliasBy
<1>2. CASE s[t] # None
  <2>1. Claims(s[t]) <=> s[t] \in Taken(blocks)
    BY <1>2 DEF Claims, Taken
  <2>2. Claims(s[t]) \in BOOLEAN
    BY DEF Claims
  <2>3. Claims(s[t]) = (s[t] \in Taken(blocks))
    BY <2>1, <2>2
  <2> QED
    BY <1>2, <2>3 DEF AliasOf, AliasBy
<1> QED
  BY <1>1, <1>2

LEMMA RetoldStep == CTyped /\ Retold /\ [CNext]_cvars => Retold'
<1> SUFFICES ASSUME CTyped, Retold, [CNext]_cvars PROVE Retold'
  OBVIOUS
<1> DEFINE R == Reached(main, extra)
<1> DEFINE Kept == snap # None =>
             \E q \in R : q.stack = <<>> /\ alias = [t \in Ids |-> AliasBy(Taken(q.blocks), snap, t)]
<1>0. main' = main /\ extra' = extra /\ CTyped' /\ Here' \in Readers
  <2>1. CTyped'
    BY CStepTyped
  <2>2. (Here \in Readers)'
    BY <2>1, HereReads, PTL
  <2>3. main' = main /\ extra' = extra
    BY DEF CNext, BeginWrite, ReadBlock, ReadDest, ReadOption, ReadInclude, EndOfFile,
           Write, EnsureInclude, IncludeFails, RemoveInclude, cvars
  <2> QED
    BY <2>1, <2>2, <2>3
<1>1. R' = R
  BY <1>0
<1>2. ASSUME UNCHANGED <<alias, snap>> PROVE Kept'
  BY <1>1, <1>2 DEF Retold
<1>3. CASE BeginWrite
  <2> DEFINE f(n) == [file |-> UserConfig, line |-> n, active |-> 0, on |-> Folded, named |-> {}]
  <2>0. stack' = <<f(0)>> \/ stack' = <<f(1)>>
    BY <1>3 DEF BeginWrite
  <2>1. Here' = StartAt(0) \/ (Here' = StartAt(1) /\ Numbered')
    <3>1. CASE stack' = <<f(0)>>
      BY <1>3, <3>1 DEF BeginWrite, Here, StartAt
    <3>2. CASE stack' = <<f(1)>>
      <4>1. Here' = StartAt(1)
        BY <1>3, <3>2 DEF BeginWrite, Here, StartAt
      <4>2. Numbered'
        BY <3>2 DEF Numbered
      <4> QED
        BY <4>1, <4>2
    <3> QED
      BY <2>0, <3>1, <3>2
  <2>2. Here' = StartAt(0) \/ (Numbered' /\ Here' \in R')
    BY <2>1, StartReached
  <2>3. phase' = "read" /\ Kept'
    BY <1>2, <1>3 DEF BeginWrite
  <2> QED
    BY <2>2, <2>3 DEF Retold
<1>4. CASE ReadBlock \/ ReadDest \/ ReadOption \/ ReadInclude \/ EndOfFile
  <2>1. phase = "read" /\ Kept'
    BY <1>2, <1>4 DEF ReadBlock, ReadDest, ReadOption, ReadInclude, EndOfFile, At
  <2>2. CASE Here = StartAt(0)
    <3>1. CNext
      BY <1>4 DEF CNext
    <3>2. Here' = StartAt(1) /\ Numbered' /\ phase' = "read"
      BY <3>1, <2>1, <2>2, PassNk
    <3> QED
      BY <3>2, <2>1, StartReached DEF Retold
  <2>3. CASE Numbered /\ Here \in R
    <3>1. Here' = ReadOn(main, extra, Here) /\ Numbered' /\ Here.stack # <<>>
      BY <1>4, <2>3, ReaderReads, HereFields
    <3>2. Here' \in R'
      BY <3>1, <2>3, <1>0, <1>1, ReachOn
    <3> QED
      BY <3>1, <3>2, <2>1 DEF Retold
  <2> QED
    BY <2>1, <2>2, <2>3 DEF Retold
<1>5. CASE Write
  <2>1. phase = "write" /\ Here \in R /\ stack = <<>> /\ phase' = "include"
    BY <1>5 DEF Write, Retold, CTyped
  <2>2. PICK s \in Snapshots : snap' = s /\ alias' = [t \in Ids |-> AliasOf(s, t)]
    BY <1>5 DEF Write
  <2>3. \A t \in Ids : AliasOf(s, t) = AliasBy(Taken(blocks), s, t)
    BY WriteTaken, ConfigAssumption
  <2>4. alias' = [t \in Ids |-> AliasBy(Taken(Here.blocks), s, t)] /\ Here.stack = <<>>
    BY <2>1, <2>2, <2>3, HereFields
  <2>5. \E q \in R : q.stack = <<>> /\ alias' = [t \in Ids |-> AliasBy(Taken(q.blocks), s, t)]
    BY <2>1, <2>4
  <2>6. Kept'
    BY <2>2, <2>5, <1>1
  <2> QED
    BY <2>1, <2>6 DEF Retold
<1>6. CASE EnsureInclude \/ IncludeFails
  <2>1. phase' = "idle" /\ Kept'
    BY <1>2, <1>6 DEF EnsureInclude, IncludeFails
  <2> QED
    BY <2>1 DEF Retold
<1>7. CASE RemoveInclude
  BY <1>7 DEF RemoveInclude, Retold
<1>8. CASE UNCHANGED cvars
  <2>1. Kept' /\ phase' = phase /\ Here' = Here /\ (Numbered' <=> Numbered)
    BY <1>2, <1>8 DEF cvars, reader, ssh, Here, Numbered
  <2> QED
    BY <2>1, <1>1 DEF Retold
<1> QED
  BY <1>3, <1>4, <1>5, <1>6, <1>7, <1>8 DEF CNext

(* nk does not take its own names for the user's: as long as the snapshot is the     *)
(* same, writing its file again changes no name, with the Include or without it,   *)
(* for any files of the user's (WriteConfigs, config.go).                         *)
THEOREM NamesStay == CSpec => AliasesStable
<1>1. CInit => CTyped /\ Retold
  <2>1. CInit => Retold
    BY DEF CInit, Retold
  <2> QED
    BY <2>1, CInitTyped
<1>2. CTyped /\ Retold /\ [CNext]_cvars => (CTyped /\ Retold)'
  BY CStepTyped, RetoldStep
<1>3. CTyped /\ Retold /\ [CNext]_cvars => [phase = "write" /\ snap = snap' => alias' = alias]_cvars
  <2> SUFFICES ASSUME CTyped, Retold, CNext, phase = "write", snap = snap' PROVE alias' = alias
    OBVIOUS
  <2>1. Write
    BY DEF CNext, BeginWrite, ReadBlock, ReadDest, ReadOption, ReadInclude, EndOfFile, EnsureInclude,
           IncludeFails, RemoveInclude, At
  <2>2. PICK s \in Snapshots : snap' = s /\ alias' = [t \in Ids |-> AliasOf(s, t)]
    BY <2>1 DEF Write
  <2>3. snap # None
    BY <2>2, ConfigAssumption
  <2>4. PICK q \in Reached(main, extra) :
          q.stack = <<>> /\ alias = [t \in Ids |-> AliasBy(Taken(q.blocks), snap, t)]
    BY <2>3 DEF Retold
  <2>5. Here \in Reached(main, extra) /\ Here.stack = <<>>
    BY HereFields DEF Retold, CTyped
  <2>6. q = Here
    BY <2>4, <2>5, OneEnd
  <2>7. \A t \in Ids : AliasOf(s, t) = AliasBy(Taken(q.blocks), snap, t)
    BY <2>2, <2>6, WriteTaken, HereFields, ConfigAssumption
  <2> QED
    BY <2>2, <2>4, <2>7
<1> QED
  BY <1>1, <1>2, <1>3, PTL DEF CSpec, AliasesStable
=============================================================================
