----------------------------- MODULE LoginProofs -----------------------------
(***************************************************************************)
(* What Login promises for any intervals and timeout.  Three invariants: Bursts     *)
(* counts the retries that may follow a poll at once, Stages says how far the       *)
(* sign-ins of a command have come at each point of Sync, and Clock ties the time    *)
(* since the last round to the time until the next tick.                          *)
(***************************************************************************)
EXTENDS Login, TLAPS

Count(b) == IF b THEN 1 ELSE 0

(* A retry at once uses up a flag, and a tick gives only one of them back. *)
Bursts ==
  /\ pc \in {"send", "fetch"} => burst <= Count(nonceRetried) + Count(bootstrapped)
  /\ pc \in {"answer", "select"} => burst <= Count(nonceRetried) + Count(bootstrapped) + 1

Stages ==
  /\ signIns <= 2
  /\ pc \notin Ended /\ stage \in {"first", "confirmed"} =>
       \/ signIns = 0
       \/ signIns = 1 /\ Valid(session) /\ pc \in {"session", "call", "confirm"}
  /\ pc \notin Ended /\ stage = "relogin" =>
       signIns <= 1 /\ session = None /\ pc \in {"session", "begin"} \cup Polling
  /\ pc \notin Ended /\ stage = "last" => pc \in {"session", "call"}

Clock ==
  /\ pc \in {"answer", "fetch", "select"} => burst > 0
  /\ ~slow /\ pc \in Polling =>
       /\ since + next >= wait
       /\ ticked => pc = "select" /\ since >= wait /\ next = wait
       /\ pc = "send" /\ burst = 0 => since >= wait /\ next = wait

-----------------------------------------------------------------------------
LEMMA TypeInit == Init => TypeOK /\ Bursts
<1> SUFFICES ASSUME Init PROVE TypeOK /\ Bursts
  OBVIOUS
<1>1. /\ wait \in 1..MaxWait /\ next \in 1..wait
      /\ left \in 0..Deadline /\ since \in 0..MaxWait
      /\ burst \in 0..3 /\ signIns \in Nat
  BY TimeAssumption DEF Init
<1>2. session \in Sessions /\ stored \in Sessions
  BY DEF Init, Sessions, None
<1>3. Bursts
  BY DEF Init, Bursts
<1> QED
  BY <1>1, <1>2, <1>3 DEF Init, TypeOK, Ended

LEMMA TypeStep == TypeOK /\ Bursts /\ [Next]_vars => TypeOK'
<1> SUFFICES ASSUME TypeOK, Bursts, [Next]_vars
             PROVE  TypeOK'
  OBVIOUS
<1> USE TimeAssumption, LifetimeAssumption
    DEF TypeOK, Bursts, Count, Sessions, None, Ended, Polling, sync, flags, clock
<1>1. CASE Begin
  BY <1>1 DEF Begin
<1>2. CASE SessionEnds
  BY <1>2 DEF SessionEnds
<1>3. CASE GiveUp
  BY <1>3 DEF GiveUp, Fail
<1>4. CASE Untrusted
  BY <1>4 DEF Untrusted
<1>5. CASE Confirm
  BY <1>5 DEF Confirm
<1>6. CASE EnsureSession
  BY <1>6 DEF EnsureSession
<1>7. CASE BeginDeviceAuth
  <2> HIDE DEF Sessions, None, Bursts, Count
  <2>1. wait' \in 1..MaxWait
    BY <1>7 DEF BeginDeviceAuth
  <2>2. next' = wait' /\ left' = Deadline /\ since' = MaxWait /\ burst' = 0
    BY <1>7 DEF BeginDeviceAuth
  <2>3. /\ next' \in 1..wait' /\ left' \in 0..Deadline /\ since' \in 0..MaxWait
        /\ burst' \in 0..3
    BY <2>1, <2>2
  <2> QED
    BY <1>7, <2>1, <2>3 DEF BeginDeviceAuth
<1>8. CASE Poll
  BY <1>8 DEF Poll
<1>9. CASE Approved
  BY <1>9 DEF Approved
<1>10. CASE Pending
  BY <1>10 DEF Pending
<1>11. CASE NonceRejected
  BY <1>11 DEF NonceRejected
<1>12. CASE ProofRejected
  BY <1>12 DEF ProofRejected
<1>13. CASE Fetched
  BY <1>13 DEF Fetched
<1>14. CASE SlowDown
  <2> HIDE DEF Sessions, None, Bursts, Count
  <2>1. wait' \in 1..MaxWait /\ next' \in 1..wait'
    BY <1>14 DEF SlowDown
  <2> QED
    BY <1>14, <2>1 DEF SlowDown
<1>15. CASE Tick
  <2> HIDE DEF Sessions, None, Bursts, Count
  <2>1. burst' \in 0..3 /\ UNCHANGED <<wait, next, left, since>>
    BY <1>15 DEF Tick
  <2> QED
    BY <1>15, <2>1 DEF Tick
<1>16. CASE Timeout
  BY <1>16 DEF Timeout, Fail
<1>17. CASE Time
  <2>1. next' \in 1..wait' /\ ticked' \in BOOLEAN
    <3>1. CASE next = 1
      BY <1>17, <3>1 DEF Time
    <3>2. CASE next # 1
      BY <1>17, <3>2 DEF Time
    <3> QED
      BY <3>1, <3>2
  <2>2. left' \in 0..Deadline /\ since' \in 0..MaxWait
    BY <1>17 DEF Time
  <2> QED
    BY <1>17, <2>1, <2>2 DEF Time
<1>18. CASE Synced
  BY <1>18 DEF Synced
<1>19. CASE Rejected
  <2>1. session' \in Sessions /\ stage' \in {"first", "confirmed", "relogin", "last"}
        /\ pc' \in {"session", "failed"}
    <3>1. CASE interactive /\ stage # "last"
      <4>1. session' = [token |-> FALSE, expires |-> "never"]
        BY <1>19, <3>1 DEF Rejected
      <4>2. session' \in Sessions
        BY <4>1
      <4> QED
        BY <1>19, <3>1, <4>2 DEF Rejected
    <3>2. CASE ~(interactive /\ stage # "last")
      BY <1>19, <3>2 DEF Rejected
    <3> QED
      BY <3>1, <3>2
  <2> QED
    BY <1>19, <2>1 DEF Rejected
<1>20. CASE UNCHANGED vars
  BY <1>20 DEF vars
<1> QED
  BY <1>1, <1>2, <1>3, <1>4, <1>5, <1>6, <1>7, <1>8, <1>9, <1>10,
     <1>11, <1>12, <1>13, <1>14, <1>15, <1>16, <1>17, <1>18, <1>19, <1>20 DEF Next, Answer

LEMMA BurstsStep == TypeOK /\ Bursts /\ [Next]_vars => Bursts'
<1> SUFFICES ASSUME TypeOK, Bursts, [Next]_vars
             PROVE  Bursts'
  OBVIOUS
<1> USE DEF TypeOK, Bursts, Count, Ended, Polling, sync, flags, clock
<1>1. CASE Begin
  BY <1>1 DEF Begin
<1>2. CASE SessionEnds
  BY <1>2 DEF SessionEnds
<1>3. CASE GiveUp
  BY <1>3 DEF GiveUp, Fail
<1>4. CASE Untrusted
  BY <1>4 DEF Untrusted
<1>5. CASE Confirm
  BY <1>5 DEF Confirm
<1>6. CASE EnsureSession
  BY <1>6 DEF EnsureSession
<1>7. CASE BeginDeviceAuth
  BY <1>7 DEF BeginDeviceAuth
<1>8. CASE Poll
  BY <1>8 DEF Poll
<1>9. CASE Approved
  BY <1>9 DEF Approved
<1>10. CASE Pending
  BY <1>10 DEF Pending
<1>11. CASE NonceRejected
  BY <1>11 DEF NonceRejected
<1>12. CASE ProofRejected
  BY <1>12 DEF ProofRejected
<1>13. CASE Fetched
  BY <1>13 DEF Fetched
<1>14. CASE SlowDown
  BY <1>14 DEF SlowDown
<1>15. CASE Tick
  BY <1>15 DEF Tick
<1>16. CASE Timeout
  BY <1>16 DEF Timeout, Fail
<1>17. CASE Time
  BY <1>17 DEF Time
<1>18. CASE Synced
  BY <1>18 DEF Synced
<1>19. CASE Rejected
  BY <1>19 DEF Rejected
<1>20. CASE UNCHANGED vars
  BY <1>20 DEF vars
<1> QED
  BY <1>1, <1>2, <1>3, <1>4, <1>5, <1>6, <1>7, <1>8, <1>9, <1>10,
     <1>11, <1>12, <1>13, <1>14, <1>15, <1>16, <1>17, <1>18, <1>19, <1>20 DEF Next, Answer

(* Every state component keeps its type; in particular no more than three polls      *)
(* ever follow each other without a tick between them.                         *)
THEOREM Typing == Spec => []TypeOK
<1>1. TypeOK /\ Bursts /\ [Next]_vars => TypeOK' /\ Bursts'
  BY TypeStep, BurstsStep
<1> QED
  BY TypeInit, <1>1, PTL DEF Spec

-----------------------------------------------------------------------------
LEMMA StagesStep ==
  "none" \notin Lifetimes /\ TypeOK /\ Stages /\ [Next]_vars => Stages'
<1> SUFFICES ASSUME "none" \notin Lifetimes, TypeOK, Stages, [Next]_vars
             PROVE  Stages'
  OBVIOUS
<1> USE LifetimeAssumption
    DEF TypeOK, Stages, Valid, Sessions, None, Ended, Polling, sync, flags, clock
<1>1. CASE Begin
  BY <1>1 DEF Begin
<1>2. CASE SessionEnds
  BY <1>2 DEF SessionEnds
<1>3. CASE GiveUp
  BY <1>3 DEF GiveUp, Fail
<1>4. CASE Untrusted
  BY <1>4 DEF Untrusted
<1>5. CASE Confirm
  BY <1>5 DEF Confirm
<1>6. CASE EnsureSession
  <2>1. CASE Valid(session)
    BY <1>6, <2>1 DEF EnsureSession
  <2>2. CASE ~Valid(session) /\ interactive /\ stage # "last"
    BY <1>6, <2>2 DEF EnsureSession
  <2>3. CASE ~Valid(session) /\ ~(interactive /\ stage # "last")
    BY <1>6, <2>3 DEF EnsureSession
  <2> QED
    BY <2>1, <2>2, <2>3
<1>7. CASE BeginDeviceAuth
  BY <1>7 DEF BeginDeviceAuth
<1>8. CASE Poll
  BY <1>8 DEF Poll
<1>9. CASE Approved
  BY <1>9 DEF Approved
<1>10. CASE Pending
  BY <1>10 DEF Pending
<1>11. CASE NonceRejected
  BY <1>11 DEF NonceRejected
<1>12. CASE ProofRejected
  BY <1>12 DEF ProofRejected
<1>13. CASE Fetched
  BY <1>13 DEF Fetched
<1>14. CASE SlowDown
  BY <1>14 DEF SlowDown
<1>15. CASE Tick
  BY <1>15 DEF Tick
<1>16. CASE Timeout
  BY <1>16 DEF Timeout, Fail
<1>17. CASE Time
  BY <1>17 DEF Time
<1>18. CASE Synced
  BY <1>18 DEF Synced
<1>19. CASE Rejected
  BY <1>19 DEF Rejected
<1>20. CASE UNCHANGED vars
  BY <1>20 DEF vars
<1> QED
  BY <1>1, <1>2, <1>3, <1>4, <1>5, <1>6, <1>7, <1>8, <1>9, <1>10,
     <1>11, <1>12, <1>13, <1>14, <1>15, <1>16, <1>17, <1>18, <1>19, <1>20 DEF Next, Answer

(* A command has the user sign in at most twice, as long as every new session comes    *)
(* with a lifetime.                                                           *)
THEOREM TwoSignIns ==
  ASSUME "none" \notin Lifetimes PROVE Spec => []NoThirdSignIn
<1>1. Init => TypeOK /\ Bursts /\ Stages
  BY TypeInit DEF Init, Stages, Ended
<1>2. TypeOK /\ Bursts /\ Stages /\ [Next]_vars => TypeOK' /\ Bursts' /\ Stages'
  BY TypeStep, BurstsStep, StagesStep
<1>3. Stages => NoThirdSignIn
  BY DEF Stages, NoThirdSignIn
<1> QED
  BY <1>1, <1>2, <1>3, PTL DEF Spec

-----------------------------------------------------------------------------
LEMMA ClockStep == TypeOK /\ Clock /\ [Next]_vars => Clock'
<1> SUFFICES ASSUME TypeOK, Clock, [Next]_vars
             PROVE  Clock'
  OBVIOUS
<1> USE TimeAssumption DEF TypeOK, Clock, Ended, Polling, sync, flags, clock
<1>1. CASE Begin
  BY <1>1 DEF Begin
<1>2. CASE SessionEnds
  BY <1>2 DEF SessionEnds
<1>3. CASE GiveUp
  BY <1>3 DEF GiveUp, Fail
<1>4. CASE Untrusted
  BY <1>4 DEF Untrusted
<1>5. CASE Confirm
  BY <1>5 DEF Confirm
<1>6. CASE EnsureSession
  BY <1>6 DEF EnsureSession
<1>7. CASE BeginDeviceAuth
  BY <1>7 DEF BeginDeviceAuth
<1>8. CASE Poll
  BY <1>8 DEF Poll
<1>9. CASE Approved
  BY <1>9 DEF Approved
<1>10. CASE Pending
  BY <1>10 DEF Pending
<1>11. CASE NonceRejected
  BY <1>11 DEF NonceRejected
<1>12. CASE ProofRejected
  BY <1>12 DEF ProofRejected
<1>13. CASE Fetched
  BY <1>13 DEF Fetched
<1>14. CASE SlowDown
  BY <1>14 DEF SlowDown
<1>15. CASE Tick
  BY <1>15 DEF Tick
<1>16. CASE Timeout
  BY <1>16 DEF Timeout, Fail
<1>17. CASE Time
  BY <1>17 DEF Time
<1>18. CASE Synced
  BY <1>18 DEF Synced
<1>19. CASE Rejected
  BY <1>19 DEF Rejected
<1>20. CASE UNCHANGED vars
  BY <1>20 DEF vars
<1> QED
  BY <1>1, <1>2, <1>3, <1>4, <1>5, <1>6, <1>7, <1>8, <1>9, <1>10,
     <1>11, <1>12, <1>13, <1>14, <1>15, <1>16, <1>17, <1>18, <1>19, <1>20 DEF Next, Answer

(* Where answers are quicker than the ticker, the interval that the server asked      *)
(* for is kept between two rounds of polls, whatever slow_down made of it.        *)
THEOREM Spacing == Spec => []PollSpacing
<1>1. Init => TypeOK /\ Bursts /\ Clock
  BY TypeInit DEF Init, Clock, Polling
<1>2. TypeOK /\ Bursts /\ Clock /\ [Next]_vars => TypeOK' /\ Bursts' /\ Clock'
  BY TypeStep, BurstsStep, ClockStep
<1>3. TypeOK /\ Clock => PollSpacing
  BY DEF Clock, PollSpacing, Polling
<1> QED
  BY <1>1, <1>2, <1>3, PTL DEF Spec
=============================================================================
