------------------------ MODULE CaptureBrokerProofs ------------------------
(* TLAPS proofs about CaptureBroker, for any agents, frames and bound.      *)
EXTENDS CaptureBroker, TLAPS

(* What a call asks for is what its client named or the generation it began *)
(* with, whichever is more; the frame kept is the last one published.       *)
AsksForMore ==
    /\ \A a \in Agents : pc[a] \in Calling =>
          \A g \in Nat : g > asked[a] <=> Awaited(a, g)
    /\ latest # NONE => latest.generation = generation

(* A call that slept while its frame was there has not looked away since:   *)
(* it still sleeps, or looks next and finds it, or has returned a frame.    *)
DueIsSeen ==
    \A a \in Agents : due[a] =>
        \/ pc[a] \in {"armed", "check"} /\ Newer(asked[a])
        \/ pc[a] = "idle" /\ result[a] # TIMEOUT

IInv ==
    /\ TypeOK
    /\ ReturnsNewerFrame
    /\ WakesEverySleeper
    /\ AsksForMore
    /\ DueIsSeen

LEMMA MarksAreNoImages == NONE \notin Image /\ TIMEOUT \notin Image /\ NONE # TIMEOUT
BY BrokerAssumption

LEMMA InitIInv == Init => IInv
BY DEF Init, IInv, TypeOK, ReturnsNewerFrame, WakesEverySleeper, Calling,
   AsksForMore, DueIsSeen

(* A frame that is published wakes whoever is armed in the same step; every *)
(* way back to the top of the loop, and the timer, meet Newer.              *)
LEMMA StepIInv == IInv /\ [Next]_vars => IInv'
<1> SUFFICES ASSUME IInv, [Next]_vars PROVE IInv'
    OBVIOUS
<1> USE MarksAreNoImages DEF IInv, TypeOK, Calling, brokerVars, callVars
<1>1. ASSUME NEW f \in Frames, Publish(f) PROVE IInv'
  <2>1. TypeOK'
    BY <1>1 DEF Publish, MarkDue, Newer, Image
  <2>2. ReturnsNewerFrame'
    BY <1>1 DEF Publish, MarkDue, Newer, ReturnsNewerFrame, AsksForMore, Awaited, Image
  <2>3. WakesEverySleeper'
    BY <1>1 DEF Publish, MarkDue, Newer, WakesEverySleeper
  <2>4. AsksForMore'
    BY <1>1 DEF Publish, MarkDue, Newer, AsksForMore, Awaited, Image
  <2>5. DueIsSeen'
    BY <1>1 DEF Publish, MarkDue, Newer, DueIsSeen, AsksForMore, Awaited, Image
  <2>6. QED
    BY <2>1, <2>2, <2>3, <2>4, <2>5
<1>2. ASSUME NEW a \in Agents, NEW after \in 0 .. MaxGeneration, Begin(a, after)
      PROVE  IInv'
  <2>1. TypeOK'
    BY <1>2, BrokerAssumption DEF Begin, Call, Newer, Image
  <2>2. ReturnsNewerFrame'
    BY <1>2, BrokerAssumption DEF Begin, Call, Newer, ReturnsNewerFrame, AsksForMore, Awaited, Image
  <2>3. WakesEverySleeper'
    BY <1>2, BrokerAssumption DEF Begin, Call, Newer, WakesEverySleeper
  <2>4. AsksForMore'
    BY <1>2, BrokerAssumption DEF Begin, Call, Newer, AsksForMore, Awaited, Image
  <2>5. DueIsSeen'
    BY <1>2, BrokerAssumption DEF Begin, Call, Newer, DueIsSeen, AsksForMore, Awaited, Image
  <2>6. QED
    BY <2>1, <2>2, <2>3, <2>4, <2>5
<1>3. ASSUME NEW a \in Agents, CheckHit(a) PROVE IInv'
  <2>1. TypeOK'
    BY <1>3 DEF CheckHit, Return, Newer, Image
  <2>2. ReturnsNewerFrame'
    BY <1>3 DEF CheckHit, Return, Newer, ReturnsNewerFrame, AsksForMore, Awaited, Image
  <2>3. WakesEverySleeper'
    BY <1>3 DEF CheckHit, Return, Newer, WakesEverySleeper
  <2>4. AsksForMore'
    BY <1>3 DEF CheckHit, Return, Newer, AsksForMore, Awaited, Image
  <2>5. DueIsSeen'
    BY <1>3 DEF CheckHit, Return, Newer, DueIsSeen, AsksForMore, Awaited, Image
  <2>6. QED
    BY <2>1, <2>2, <2>3, <2>4, <2>5
<1>4. ASSUME NEW a \in Agents, CheckMiss(a) PROVE IInv'
  <2>1. TypeOK'
    BY <1>4 DEF CheckMiss, Newer, Image
  <2>2. ReturnsNewerFrame'
    BY <1>4 DEF CheckMiss, Newer, ReturnsNewerFrame, AsksForMore, Awaited, Image
  <2>3. WakesEverySleeper'
    BY <1>4 DEF CheckMiss, Newer, WakesEverySleeper
  <2>4. AsksForMore'
    BY <1>4 DEF CheckMiss, Newer, AsksForMore, Awaited, Image
  <2>5. DueIsSeen'
    BY <1>4 DEF CheckMiss, Newer, DueIsSeen, AsksForMore, Awaited, Image
  <2>6. QED
    BY <2>1, <2>2, <2>3, <2>4, <2>5
<1>5. ASSUME NEW a \in Agents, GiveUp(a) PROVE IInv'
  <2>1. TypeOK'
    BY <1>5 DEF GiveUp, Return, Image
  <2>2. ReturnsNewerFrame'
    BY <1>5 DEF GiveUp, Return, ReturnsNewerFrame, AsksForMore, Awaited, Image
  <2>3. WakesEverySleeper'
    BY <1>5 DEF GiveUp, Return, WakesEverySleeper
  <2>4. AsksForMore'
    BY <1>5 DEF GiveUp, Return, AsksForMore, Awaited, Image
  <2>5. DueIsSeen'
    BY <1>5 DEF GiveUp, Return, Newer, DueIsSeen, AsksForMore, Awaited, Image
  <2>6. QED
    BY <2>1, <2>2, <2>3, <2>4, <2>5
<1>6. ASSUME NEW a \in Agents, Arm(a) PROVE IInv'
  <2>1. TypeOK'
    BY <1>6 DEF Arm, Newer, Image
  <2>2. ReturnsNewerFrame'
    BY <1>6 DEF Arm, Newer, ReturnsNewerFrame, AsksForMore, Awaited, Image
  <2>3. WakesEverySleeper'
    BY <1>6 DEF Arm, Newer, WakesEverySleeper
  <2>4. AsksForMore'
    BY <1>6 DEF Arm, Newer, AsksForMore, Awaited, Image
  <2>5. DueIsSeen'
    BY <1>6 DEF Arm, Newer, DueIsSeen, AsksForMore, Awaited, Image
  <2>6. QED
    BY <2>1, <2>2, <2>3, <2>4, <2>5
<1>7. ASSUME NEW a \in Agents, Wake(a) PROVE IInv'
  <2>1. TypeOK'
    BY <1>7 DEF Wake, Newer, Image
  <2>2. ReturnsNewerFrame'
    BY <1>7 DEF Wake, Newer, ReturnsNewerFrame, AsksForMore, Awaited, Image
  <2>3. WakesEverySleeper'
    BY <1>7 DEF Wake, Newer, WakesEverySleeper
  <2>4. AsksForMore'
    BY <1>7 DEF Wake, Newer, AsksForMore, Awaited, Image
  <2>5. DueIsSeen'
    BY <1>7 DEF Wake, Newer, DueIsSeen, AsksForMore, Awaited, Image
  <2>6. QED
    BY <2>1, <2>2, <2>3, <2>4, <2>5
<1>8. ASSUME NEW a \in Agents, TimerFires(a) PROVE IInv'
  <2>1. TypeOK'
    BY <1>8 DEF TimerFires, Return, Newer, Image
  <2>2. ReturnsNewerFrame'
    BY <1>8 DEF TimerFires, Return, Newer, ReturnsNewerFrame, AsksForMore, Awaited, Image
  <2>3. WakesEverySleeper'
    BY <1>8 DEF TimerFires, Return, Newer, WakesEverySleeper
  <2>4. AsksForMore'
    BY <1>8 DEF TimerFires, Return, Newer, AsksForMore, Awaited, Image
  <2>5. DueIsSeen'
    BY <1>8 DEF TimerFires, Return, Newer, DueIsSeen, AsksForMore, Awaited, Image
  <2>6. QED
    BY <2>1, <2>2, <2>3, <2>4, <2>5
<1>9. ASSUME NEW a \in Agents, Deadline(a) PROVE IInv'
  <2>1. TypeOK'
    BY <1>9 DEF Deadline, Newer, Image
  <2>2. ReturnsNewerFrame'
    BY <1>9 DEF Deadline, Newer, ReturnsNewerFrame, AsksForMore, Awaited, Image
  <2>3. WakesEverySleeper'
    BY <1>9 DEF Deadline, Newer, WakesEverySleeper
  <2>4. AsksForMore'
    BY <1>9 DEF Deadline, Newer, AsksForMore, Awaited, Image
  <2>5. DueIsSeen'
    BY <1>9 DEF Deadline, Newer, DueIsSeen, AsksForMore, Awaited, Image
  <2>6. QED
    BY <2>1, <2>2, <2>3, <2>4, <2>5
<1>10. ASSUME NEW a \in Agents, HangUp(a) PROVE IInv'
  <2>1. TypeOK'
    BY <1>10 DEF HangUp, Return, Newer, Image
  <2>2. ReturnsNewerFrame'
    BY <1>10 DEF HangUp, Return, Newer, ReturnsNewerFrame, AsksForMore, Awaited, Image
  <2>3. WakesEverySleeper'
    BY <1>10 DEF HangUp, Return, Newer, WakesEverySleeper
  <2>4. AsksForMore'
    BY <1>10 DEF HangUp, Return, Newer, AsksForMore, Awaited, Image
  <2>5. DueIsSeen'
    BY <1>10 DEF HangUp, Return, Newer, DueIsSeen, AsksForMore, Awaited, Image
  <2>6. QED
    BY <2>1, <2>2, <2>3, <2>4, <2>5
<1>11. CASE UNCHANGED vars
  BY <1>11 DEF vars, ReturnsNewerFrame, WakesEverySleeper, AsksForMore,
     DueIsSeen, Awaited, Newer
<1>12. QED
  BY <1>1, <1>2, <1>3, <1>4, <1>5, <1>6, <1>7, <1>8, <1>9, <1>10, <1>11
     DEF Next

LEMMA Invariance == Spec => []IInv
BY InitIInv, StepIInv, PTL DEF Spec

(* Every variable keeps the type capture_broker.rs gives it.                *)
THEOREM TypeCorrect == Spec => []TypeOK
<1>1. IInv => TypeOK
  BY DEF IInv
<1>2. QED
  BY <1>1, Invariance, PTL

(* A call returns only a frame published after it began and newer than the  *)
(* one its client names.                                                    *)
THEOREM FramesAreNew == Spec => []ReturnsNewerFrame
<1>1. IInv => ReturnsNewerFrame
  BY DEF IInv
<1>2. QED
  BY <1>1, Invariance, PTL

(* No call sleeps through a frame published after it went to sleep.         *)
THEOREM SleepersAreWoken == Spec => []WakesEverySleeper
<1>1. IInv => WakesEverySleeper
  BY DEF IInv
<1>2. QED
  BY <1>1, Invariance, PTL

(* No call ends in a timeout that slept while a frame it waits for was      *)
(* there: the final check makes up for a lost wakeup.                       *)
THEOREM TimeoutsAreHonest == Spec => []TimeoutMissesNothing
<1>1. IInv => TimeoutMissesNothing
  BY DEF IInv, DueIsSeen, TimeoutMissesNothing
<1>2. QED
  BY <1>1, Invariance, PTL
=============================================================================
