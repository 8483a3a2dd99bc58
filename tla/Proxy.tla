-------------------------------- MODULE Proxy --------------------------------
(***************************************************************************)
(* The dial race of nk proxy (internal/ssh/proxy.go): every endpoint of the *)
(* server is dialed at once, the relay joins after a head start or once all  *)
(* direct dials failed, the first connection wins and is piped, and a        *)
(* goroutine closes what still connects afterwards.  Each dial runs in a     *)
(* goroutine of its own and hands its result over an unbuffered channel.     *)
(***************************************************************************)
EXTENDS Naturals, FiniteSets

CONSTANTS Endpoints,   \* direct addresses a server may have
          Relay        \* the dial through the backend

ASSUME EndpointsAssumption == IsFiniteSet(Endpoints)
ASSUME RelayAssumption == Relay \notin Endpoints

VARIABLES
  daemon,    \* the server runs a daemon, so the relay reaches it
  force,     \* nk proxy --relay
  eps,       \* its endpoints
  pc,        \* the main goroutine
  dial,      \* dial[d]: the goroutine of dial d and what became of it
  pending,   \* dials not received from yet
  timer,     \* relayStart: "off" (nil), "head" (300 ms) or "now" (0 ms)
  elapsed,   \* 300 ms have passed
  closing,   \* results closeLosers still waits for
  copying,   \* the copies pipe still runs
  silent     \* ssh got no answer to its keepalives

vars == <<daemon, force, eps, pc, dial, pending, timer, elapsed, closing, copying, silent>>
config == <<daemon, force, eps>>

Dials == Endpoints \cup {Relay}

TypeOK ==
  /\ daemon \in BOOLEAN /\ force \in BOOLEAN /\ eps \subseteq Endpoints
  /\ pc \in {"start", "race", "pipe", "ended", "failed", "refused"}
  /\ dial \in [Dials -> {"off", "dialing", "conn", "err", "won", "closed", "gone"}]
  /\ pending \in Nat /\ closing \in Nat
  /\ timer \in {"off", "head", "now"}
  /\ elapsed \in BOOLEAN
  /\ copying \subseteq {"out", "in"} /\ silent \in BOOLEAN

Direct == IF force THEN {} ELSE eps

Init ==
  /\ daemon \in BOOLEAN /\ force \in BOOLEAN /\ eps \in SUBSET Endpoints
  /\ pc = "start"
  /\ dial = [d \in Dials |-> "off"]
  /\ pending = 0 /\ closing = 0
  /\ timer = "off" /\ elapsed = FALSE
  /\ copying = {} /\ silent = FALSE

-----------------------------------------------------------------------------
(* A manual server has no relay, and without an address there is nothing to    *)
(* dial.                                                                     *)
Refuse ==
  /\ pc = "start"
  /\ ~daemon /\ (force \/ eps = {})
  /\ pc' = "refused"
  /\ UNCHANGED <<config, dial, pending, timer, elapsed, closing, copying, silent>>

Start ==
  /\ pc = "start"
  /\ daemon \/ (~force /\ eps # {})
  /\ dial' = [d \in Dials |-> IF d \in Direct THEN "dialing" ELSE "off"]
  /\ pending' = Cardinality(Direct)
  /\ timer' = IF ~daemon THEN "off" ELSE IF Direct = {} THEN "now" ELSE "head"
  /\ pc' = "race"
  /\ UNCHANGED <<config, elapsed, closing, copying, silent>>

(* A dial goroutine gets its connection or its error and offers it on the      *)
(* channel.  A dial that stopDials cancelled may still have connected.        *)
DialEnds(d) ==
  /\ dial[d] = "dialing"
  /\ \E r \in {"conn", "err"} : dial' = [dial EXCEPT ![d] = r]
  /\ UNCHANGED <<config, pc, pending, timer, elapsed, closing, copying, silent>>

HeadStartOver ==
  /\ pc = "race" /\ ~elapsed
  /\ elapsed' = TRUE
  /\ UNCHANGED <<config, pc, dial, pending, timer, closing, copying, silent>>

(* Mutants: the loop forgets the relay that is to come, or runs for it only. *)
LoopingForDials == pc = "race" /\ pending > 0
LoopingForRelay == pc = "race" /\ timer # "off"

(* The loop ends with an error once no dial is pending and no relay is to come. *)
Looping == pc = "race" /\ (pending > 0 \/ timer # "off")

StartRelay ==
  /\ Looping
  /\ timer = "now" \/ (timer = "head" /\ elapsed)
  /\ timer' = "off"
  /\ pending' = pending + 1
  /\ dial' = [dial EXCEPT ![Relay] = "dialing"]
  /\ UNCHANGED <<config, pc, elapsed, closing, copying, silent>>

(* With the last direct dial gone the relay need not wait. *)
ReceiveError(d) ==
  /\ Looping
  /\ dial[d] = "err"
  /\ dial' = [dial EXCEPT ![d] = "gone"]
  /\ pending' = pending - 1
  /\ timer' = IF pending = 1 /\ timer # "off" THEN "now" ELSE timer
  /\ UNCHANGED <<config, pc, elapsed, closing, copying, silent>>

(* Mutant: the winner is taken off pending a second time. *)
ReceiveConnTwice(d) ==
  /\ Looping
  /\ dial[d] = "conn"
  /\ dial' = [dial EXCEPT ![d] = "won"]
  /\ pending' = 0
  /\ closing' = pending - 2
  /\ timer' = "off"
  /\ pc' = "pipe"
  /\ copying' = {"out", "in"}
  /\ UNCHANGED <<config, elapsed, silent>>

(* The winner is piped, closeLosers takes over what is pending. *)
ReceiveConn(d) ==
  /\ Looping
  /\ dial[d] = "conn"
  /\ dial' = [dial EXCEPT ![d] = "won"]
  /\ pending' = 0
  /\ closing' = pending - 1
  /\ timer' = "off"
  /\ pc' = "pipe"
  /\ copying' = {"out", "in"}
  /\ UNCHANGED <<config, elapsed, silent>>

GiveUp ==
  /\ pc = "race" /\ ~Looping
  /\ pc' = "failed"
  /\ UNCHANGED <<config, dial, pending, timer, elapsed, closing, copying, silent>>

(* Mutant: closeLosers is done after one result. *)
CloseOneLoser(d) ==
  /\ pc = "pipe" /\ closing > 0
  /\ dial[d] \in {"conn", "err"}
  /\ dial' = [dial EXCEPT ![d] = IF @ = "conn" THEN "closed" ELSE "gone"]
  /\ closing' = 0
  /\ UNCHANGED <<config, pc, pending, timer, elapsed, copying, silent>>

(* closeLosers receives one result and closes its connection, if it has one. *)
CloseLoser(d) ==
  /\ pc = "pipe" /\ closing > 0
  /\ dial[d] \in {"conn", "err"}
  /\ dial' = [dial EXCEPT ![d] = IF @ = "conn" THEN "closed" ELSE "gone"]
  /\ closing' = closing - 1
  /\ UNCHANGED <<config, pc, pending, timer, elapsed, copying, silent>>

(* A copy ends: the server closed (out), or ssh closed its end or a write      *)
(* failed (in), which half-closes the connection.  The end of the first one does *)
(* not end the other, and ssh does not see it: nk keeps its stdout open.         *)
CopyEnds(c) ==
  /\ pc = "pipe" /\ c \in copying
  /\ copying' = copying \ {c}
  /\ UNCHANGED <<config, pc, dial, pending, timer, elapsed, closing, silent>>

(* Mutant: the host entry sets no ServerAliveInterval. *)
KeepAliveNever == FALSE

(* "ServerAliveInterval 60": with the server's side closed nothing answers any    *)
(* more.                                                                     *)
KeepAlive ==
  /\ pc = "pipe" /\ copying = {"in"} /\ ~silent
  /\ silent' = TRUE
  /\ UNCHANGED <<config, pc, dial, pending, timer, elapsed, closing, copying>>

(* wg.Wait returns, the process exits. *)
PipeEnds ==
  /\ pc = "pipe" /\ copying = {}
  /\ pc' = "ended"
  /\ UNCHANGED <<config, dial, pending, timer, elapsed, closing, copying, silent>>

Main == \/ Refuse \/ Start \/ StartRelay \/ GiveUp \/ PipeEnds
        \/ \E d \in Dials : ReceiveError(d) \/ ReceiveConn(d)

Next ==
  \/ Main \/ HeadStartOver \/ KeepAlive
  \/ \E d \in Dials : DialEnds(d) \/ CloseLoser(d)
  \/ \E c \in {"out", "in"} : CopyEnds(c)

(* The main goroutine, closeLosers and the clock run, and ssh leaves a server   *)
(* that does not answer.  No dial and no copy has to end by itself: a relay dial  *)
(* has no timeout of its own.                                                *)
Fairness ==
  /\ WF_vars(Main) /\ WF_vars(HeadStartOver)
  /\ WF_vars(KeepAlive) /\ WF_vars(silent /\ CopyEnds("in"))
  /\ WF_vars(\E d \in Dials : CloseLoser(d))

Spec     == Init /\ [][Next]_vars
FairSpec == Spec /\ Fairness

-----------------------------------------------------------------------------
(* Dial goroutines that have not handed their result over. *)
InFlight == {d \in Dials : dial[d] \in {"dialing", "conn", "err"}}

(* "cannot reach": every address of the server was tried and failed, and so    *)
(* was the relay when there is a daemon behind it.                           *)
FailsOnlyAfterAll ==
  pc = "failed" =>
    /\ \A d \in Direct : dial[d] = "gone"
    /\ daemon => dial[Relay] = "gone"

(* One connection is piped.  When closeLosers is done no dial goroutine is     *)
(* left blocked on the channel and every other connection is closed.         *)
NoLoserLeft ==
  pc = "pipe" =>
    /\ \E d \in Dials : dial[d] = "won" /\ \A o \in Dials \ {d} : dial[o] # "won"
    /\ closing = 0 => InFlight = {}

(* The relay joins early only when no direct dial can win any more. *)
RelayHeadStart ==
  [][StartRelay => elapsed \/ \A d \in Direct : dial[d] = "gone"]_vars

(* "an unreachable private address never delays the connection": once a dial   *)
(* has connected, some connection is piped, even if the others never end.     *)
ConnectedIsPiped ==
  (pc = "race" /\ \E d \in Dials : dial[d] = "conn") ~> (pc \in {"pipe", "ended"})

(* pipe waits for both copies: nk proxy outlives a server that hung up only as    *)
(* long as ssh keeps asking it.                                               *)
HangUpEnds == (pc = "pipe" /\ "out" \notin copying) ~> pc = "ended"
=============================================================================
