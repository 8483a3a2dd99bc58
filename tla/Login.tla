------------------------------- MODULE Login -------------------------------
(***************************************************************************)
(* One Sync with the sign-in it may need (internal/client: Sync, sync,        *)
(* ensureSession, deviceLogin, pollDeviceToken): the device flow with its     *)
(* ticker and its timeout, rejected nonces and proofs, slow_down, a server    *)
(* whose certificate is not trusted yet, a session the backend rejects.       *)
(*                                                                         *)
(* Time passes in steps.  The ticker holds one tick that nobody received yet,  *)
(* and Reset drops it (go 1.23 and later).                                    *)
(***************************************************************************)
EXTENDS Naturals

CONSTANTS
  Intervals,     \* the interval in the device authorization, 0 for none
  DefaultWait,   \* 5 s
  MaxWait,       \* slow_down is not answered beyond it
  Deadline,      \* 15 min
  Lifetimes      \* of a new session: subset of {"future", "none"}

ASSUME TimeAssumption ==
  /\ MaxWait \in Nat /\ Deadline \in Nat
  /\ DefaultWait \in 1..MaxWait /\ Intervals \subseteq 0..MaxWait
ASSUME LifetimeAssumption == Lifetimes \subseteq {"future", "none"}

VARIABLES
  session,       \* the session in memory
  stored,        \* the session in config.json
  slow,          \* on this network an answer may take longer than the ticker
  trusted,       \* nk trusts the certificate of the server
  interactive,
  stage,         \* which sync this is: "first", "confirmed", "relogin", "last"
  pc,
  nonceRetried,
  bootstrapped,
  wait,
  next,          \* time to the next tick
  ticked,        \* a tick waits in the ticker
  left,          \* time left on the timeout
  since,         \* time since the round of polls before began (history)
  burst,         \* polls sent since the last tick (history)
  signIns        \* how often this command had the user sign in (history)

sync  == <<slow, session, stored, trusted, interactive, stage>>
flags == <<nonceRetried, bootstrapped>>
clock == <<wait, next, ticked, left, since>>
vars  == <<slow, session, stored, trusted, interactive, stage, pc, nonceRetried, bootstrapped,
           wait, next, ticked, left, since, burst, signIns>>

Sessions == [token : BOOLEAN, expires : {"never", "future", "past"}]
None     == [token |-> FALSE, expires |-> "never"]
Valid(s) == s.token /\ s.expires # "past"

Ended   == {"done", "failed"}
Polling == {"send", "answer", "fetch", "select"}

TypeOK ==
  /\ session \in Sessions /\ stored \in Sessions
  /\ slow \in BOOLEAN /\ trusted \in BOOLEAN /\ interactive \in BOOLEAN
  /\ ticked \in BOOLEAN /\ nonceRetried \in BOOLEAN /\ bootstrapped \in BOOLEAN
  /\ stage \in {"first", "confirmed", "relogin", "last"}
  /\ pc \in Ended \cup Polling \cup {"session", "begin", "call", "confirm"}
  /\ wait \in 1..MaxWait /\ next \in 1..wait
  /\ left \in 0..Deadline /\ since \in 0..MaxWait
  /\ burst \in 0..3 /\ signIns \in Nat   \* at most three polls without a wait

Init ==
  /\ session = None /\ stored = None
  /\ slow \in BOOLEAN /\ trusted \in BOOLEAN
  /\ interactive = FALSE /\ stage = "first" /\ pc = "failed"
  /\ nonceRetried = FALSE /\ bootstrapped = FALSE
  /\ wait = DefaultWait /\ next = wait /\ ticked = FALSE
  /\ left = Deadline /\ since = MaxWait /\ burst = 0 /\ signIns = 0

-----------------------------------------------------------------------------
(* A new command: nk login, nk ls, or nk under ssh. *)
Begin ==
  /\ pc \in Ended
  /\ session' = stored
  /\ interactive' \in BOOLEAN
  /\ stage' = "first" /\ pc' = "session"
  /\ signIns' = 0
  /\ UNCHANGED <<slow, stored, trusted, flags, clock, burst>>

(* The stored session runs out between two commands. *)
SessionEnds ==
  /\ pc \in Ended
  /\ stored.expires = "future"
  /\ stored' = [stored EXCEPT !.expires = "past"]
  /\ UNCHANGED <<slow, session, trusted, interactive, stage, pc, flags, clock, burst, signIns>>

Fail ==
  /\ pc' = "failed"
  /\ UNCHANGED <<sync, flags, clock, burst, signIns>>

(* Any request may fail for good, and the user may interrupt any wait. *)
GiveUp == pc \notin Ended /\ Fail

(* A request ends with an untrusted certificate.  Sync asks the user, once. *)
Untrusted ==
  /\ ~trusted /\ pc \in {"begin", "answer", "fetch", "call"}
  /\ pc' = IF stage = "first" THEN "confirm" ELSE "failed"
  /\ UNCHANGED <<sync, flags, clock, burst, signIns>>

(* confirmServer and keepCA, which saves. *)
Confirm ==
  /\ pc = "confirm" /\ interactive
  /\ trusted' = TRUE
  /\ stored' = session
  /\ stage' = "confirmed" /\ pc' = "session"
  /\ UNCHANGED <<slow, session, interactive, flags, clock, burst, signIns>>

EnsureSession ==
  /\ pc = "session"
  /\ pc' = IF Valid(session) THEN "call"
           ELSE IF interactive /\ stage # "last" THEN "begin" ELSE "failed"
  /\ UNCHANGED <<sync, flags, clock, burst, signIns>>

-----------------------------------------------------------------------------
(* beginDeviceAuth, the browser, and the timers of pollDeviceToken. *)
BeginDeviceAuth ==
  /\ pc = "begin" /\ pc' = "send"
  /\ nonceRetried' = FALSE /\ bootstrapped' = FALSE
  /\ \E n \in Intervals : wait' = IF n > 0 THEN n ELSE DefaultWait
  /\ next' = wait' /\ ticked' = FALSE /\ left' = Deadline
  /\ since' = MaxWait /\ burst' = 0
  /\ UNCHANGED <<sync, signIns>>

Poll ==
  /\ pc = "send" /\ pc' = "answer"
  /\ since' = IF burst = 0 THEN 0 ELSE since
  /\ burst' = burst + 1
  /\ UNCHANGED <<sync, flags, wait, next, ticked, left, signIns>>

(* The token, and Save.  Without a lifetime the expiry stays what it was. *)
Approved ==
  /\ pc = "answer"
  /\ \E life \in Lifetimes :
       session' = [token |-> TRUE,
                   expires |-> IF life = "none" THEN session.expires ELSE life]
  /\ stored' = session'
  /\ IF stage = "relogin" THEN stage' = "last" /\ pc' = "session"
                          ELSE pc' = "call" /\ UNCHANGED stage
  /\ signIns' = signIns + 1
  /\ UNCHANGED <<slow, trusted, interactive, flags, clock, burst>>

Pending ==
  /\ pc = "answer" /\ pc' = "select"
  /\ UNCHANGED <<sync, flags, clock, burst, signIns>>

(* use_dpop_nonce: retry at once, a second rejection in a row is final. *)
NonceRejected ==
  /\ pc = "answer"
  /\ pc' = IF nonceRetried THEN "failed" ELSE "send"
  /\ nonceRetried' = TRUE
  /\ UNCHANGED <<sync, bootstrapped, clock, burst, signIns>>

(* invalid_dpop_proof: FetchNonce and retry, once in a sign-in. *)
ProofRejected ==
  /\ pc = "answer"
  /\ pc' = IF bootstrapped THEN "failed" ELSE "fetch"
  /\ bootstrapped' = TRUE
  /\ UNCHANGED <<sync, nonceRetried, clock, burst, signIns>>

Fetched ==
  /\ pc = "fetch" /\ pc' = "send"
  /\ UNCHANGED <<sync, flags, clock, burst, signIns>>

(* Mutant: the ticker goes on as it was. *)
SlowDownNoReset ==
  /\ pc = "answer" /\ pc' = "select"
  /\ wait < MaxWait
  /\ wait' = wait + 1
  /\ UNCHANGED <<sync, flags, next, ticked, left, since, burst, signIns>>

SlowDown ==
  /\ pc = "answer" /\ pc' = "select"
  /\ wait < MaxWait
  /\ wait' = wait + 1
  /\ next' = wait' /\ ticked' = FALSE
  /\ UNCHANGED <<sync, flags, left, since, burst, signIns>>

-----------------------------------------------------------------------------
(* Mutant: the timeout starts again with every round. *)
TickRestarts ==
  /\ pc = "select" /\ ticked /\ pc' = "send"
  /\ ticked' = FALSE /\ nonceRetried' = FALSE /\ burst' = 0
  /\ left' = Deadline
  /\ UNCHANGED <<sync, bootstrapped, wait, next, since, signIns>>

Tick ==
  /\ pc = "select" /\ ticked /\ pc' = "send"
  /\ ticked' = FALSE /\ nonceRetried' = FALSE /\ burst' = 0
  /\ UNCHANGED <<sync, bootstrapped, wait, next, left, since, signIns>>

Timeout == pc = "select" /\ left = 0 /\ Fail

(* Mutant: a timer that nobody arms again. *)
TimeOnce ==
  /\ \/ pc = "select" /\ ~ticked
     \/ pc \in {"answer", "fetch"} /\ (slow \/ next > 1)
  /\ next > 0
  /\ next' = next - 1
  /\ ticked' = (next = 1)
  /\ left' = IF left > 0 THEN left - 1 ELSE 0
  /\ since' = IF since < MaxWait THEN since + 1 ELSE since
  /\ UNCHANGED <<sync, pc, flags, wait, burst, signIns>>

(* The clock.  A select takes a tick as it comes, an answer takes its time. *)
Time ==
  /\ \/ pc = "select" /\ ~ticked
     \/ pc \in {"answer", "fetch"} /\ (slow \/ next > 1)
  /\ IF next = 1 THEN next' = wait /\ ticked' = TRUE
                 ELSE next' = next - 1 /\ UNCHANGED ticked
  /\ left' = IF left > 0 THEN left - 1 ELSE 0
  /\ since' = IF since < MaxWait THEN since + 1 ELSE since
  /\ UNCHANGED <<sync, pc, flags, wait, burst, signIns>>

-----------------------------------------------------------------------------
(* GetMyAccess and the rest of sync, which saves. *)
Synced ==
  /\ pc = "call" /\ pc' = "done"
  /\ stored' = session
  /\ UNCHANGED <<slow, session, trusted, interactive, stage, flags, clock, burst, signIns>>

(* Mutant: every rejected session is replaced. *)
RejectedAlways ==
  /\ pc = "call"
  /\ session' = None
  /\ stage' = "relogin" /\ pc' = "session"
  /\ signIns < 4
  /\ UNCHANGED <<slow, stored, trusted, interactive, flags, clock, burst, signIns>>

(* CodeUnauthenticated: log in once more. *)
Rejected ==
  /\ pc = "call"
  /\ IF interactive /\ stage # "last"
       THEN session' = None /\ stage' = "relogin" /\ pc' = "session"
       ELSE pc' = "failed" /\ UNCHANGED <<session, stage>>
  /\ UNCHANGED <<slow, stored, trusted, interactive, flags, clock, burst, signIns>>

Answer ==
  Approved \/ Pending \/ NonceRejected \/ ProofRejected \/ Fetched \/ SlowDown

Next ==
  \/ Begin \/ SessionEnds \/ GiveUp \/ Untrusted \/ Confirm \/ EnsureSession
  \/ BeginDeviceAuth \/ Poll \/ Answer \/ Tick \/ Timeout \/ Time \/ Synced \/ Rejected

Spec == Init /\ [][Next]_vars

(* Every request is answered, the clock goes on, and a select whose channels are  *)
(* both ready takes each of them sometimes.                                   *)
Fairness ==
  /\ WF_vars(Poll) /\ WF_vars(Answer) /\ WF_vars(Time) /\ WF_vars(Tick)
  /\ SF_vars(Timeout)

FairSpec == Spec /\ Fairness

-----------------------------------------------------------------------------
(* "Cap the total wait at the grant TTL": however the server answers, polling     *)
(* ends.                                                                    *)
PollingEnds == pc \in Polling ~> pc \notin Polling

(* "The stored session was rejected, log in once more": a command has the user     *)
(* sign in at most twice, whatever is rejected or confirmed in between.         *)
NoThirdSignIn == signIns <= 2

(* "The server counts violations per grant ..., so this must be honored": where    *)
(* answers are quicker than the ticker, two rounds of polls are at least the       *)
(* interval apart, as slow_down left it.                                      *)
PollSpacing == pc = "send" /\ burst = 0 /\ ~slow => since >= wait
=============================================================================
