---------------------------- MODULE LinuxSemProofs ----------------------------
(***************************************************************************)
(* Proofs about LinuxSem, for any set of threads: the types and the mutex, *)
(* no lost wakeup for max = 1, and the implementation of CountingSem for   *)
(* any max.                                                                *)
(***************************************************************************)
EXTENDS LinuxSem, TLAPS

USE DEF Steps, Holding

\* Types and mutual exclusion hold initially and are preserved by any step.
LEMMA TypeInit == Init => TypeOK
  BY MaxAssumption, NoOneAssumption DEF Init, TypeOK

LEMMA TypeStep == TypeOK /\ [Next]_vars => TypeOK'
<1> SUFFICES ASSUME TypeOK, [Next]_vars PROVE TypeOK'
  OBVIOUS
<1> USE MaxAssumption, NoOneAssumption DEF TypeOK, Goto
<1>1. CASE UNCHANGED vars
  BY <1>1 DEF vars
<1>2. ASSUME NEW t \in Threads, Step(t) PROVE TypeOK'
  <2>1. CASE PostCall(t)
    BY <2>1 DEF PostCall
  <2>2. CASE PostLock(t)
    BY <2>2 DEF PostLock, Lock
  <2>3. CASE PostCount(t)
    <3>1. cnt' \in 0..Max /\ UNCHANGED <<mutex, timed>> /\ pc[t] = "count"
      BY <2>3 DEF PostCount
    <3>2. CASE Silent(t)
      BY <3>1, <3>2 DEF Silent
    <3>3. CASE Signal(t)
      BY <3>1, <3>3 DEF Signal
    <3> QED
      BY <2>3, <3>2, <3>3 DEF PostCount
  <2>4. CASE WaitCall(t)
    BY <2>4 DEF WaitCall
  <2>5. CASE WaitLock(t)
    BY <2>5 DEF WaitLock, Lock
  <2>6. CASE WaitTest(t)
    BY <2>6 DEF WaitTest
  <2>7. CASE Spurious(t)
    BY <2>7 DEF Spurious, Leave
  <2>8. CASE Expire(t)
    BY <2>8 DEF Expire, Leave
  <2>9. CASE WaitWoken(t)
    BY <2>9 DEF WaitWoken, Lock
  <2>10. CASE WaitExpired(t)
    BY <2>10 DEF WaitExpired, Lock
  <2>11. CASE Unlock(t)
    BY <2>11 DEF Unlock
  <2> QED
    BY <1>2, <2>1, <2>2, <2>3, <2>4, <2>5, <2>6, <2>7, <2>8, <2>9, <2>10, <2>11
       DEF Step, Run
<1> QED
  BY <1>1, <1>2 DEF Next

\* The mutex of the semaphore excludes, and the count stays within 0..max.
THEOREM SemTypeCorrect == Spec => []TypeOK
  BY TypeInit, TypeStep, PTL DEF Spec

-----------------------------------------------------------------------------
\* With max = 1 a signal is under way whenever the count is not 0 and
\* somebody sleeps: the invariant is inductive given the types.
LEMMA WakeupStep ==
  TypeOK /\ NoLostWakeup /\ [Next]_vars => NoLostWakeup'
<1> SUFFICES ASSUME TypeOK, NoLostWakeup, [Next]_vars, Max = 1,
                    cnt' > 0, waiters' # {}
             PROVE \E t \in Threads : Awake(t)'
  BY DEF NoLostWakeup, Awake
<1> USE DEF Awake, Goto
<1>0. cnt \in {0, 1} /\ pc \in [Threads -> Steps] /\ waiters \subseteq Threads
  BY DEF TypeOK
<1>1. CASE UNCHANGED vars
  BY <1>1 DEF vars, NoLostWakeup
<1>2. ASSUME NEW t \in Threads, Step(t)
      PROVE \E u \in Threads : Awake(u)'
  <2>a. ASSUME waiters' \subseteq waiters, cnt' = cnt, NEW l, pc' = [pc EXCEPT ![t] = l],
               ~Awake(t) \/ l \in {"woken", "test"}
        PROVE \E u \in Threads : Awake(u)'
    <3>1. PICK u \in Threads : Awake(u)
      BY <2>a DEF NoLostWakeup
    <3>2. Awake(u)'
      BY <2>a, <3>1, <1>0
    <3> QED
      BY <3>2
  <2>1. CASE PostCall(t)
    BY <2>1, <2>a DEF PostCall
  <2>2. CASE PostLock(t)
    BY <2>2, <2>a DEF PostLock, Lock
  <2>3. CASE PostCount(t)
    <3>1. CASE cnt = 0
      <4>1. cnt' = 1 /\ Signal(t)
        BY <2>3, <3>1 DEF PostCount
      <4>2. waiters # {}
        BY <4>1 DEF Signal
      <4>3. PICK w \in waiters : pc' = [pc EXCEPT ![t] = "posted", ![w] = "woken"]
        BY <4>1, <4>2 DEF Signal
      <4>4. pc'[w] = "woken"
        BY <4>3, <1>0
      <4> QED
        BY <4>4, <1>0
    <3>2. CASE cnt = 1
      <4>1. cnt' = cnt /\ Silent(t) /\ pc[t] = "count"
        BY <2>3, <3>2 DEF PostCount
      <4> QED
        BY <4>1, <2>a DEF Silent
    <3> QED
      BY <3>1, <3>2, <1>0
  <2>4. CASE WaitCall(t)
    BY <2>4, <2>a DEF WaitCall
  <2>5. CASE WaitLock(t)
    BY <2>5, <2>a DEF WaitLock, Lock
  <2>6. CASE WaitTest(t)
    BY <2>6, <1>0 DEF WaitTest
  <2>7. CASE Spurious(t)
    BY <2>7, <2>a DEF Spurious, Leave
  <2>8. CASE Expire(t)
    <3>1. pc[t] = "asleep"
      BY <2>8 DEF Expire, Leave, TypeOK
    <3> QED
      BY <2>8, <3>1, <2>a DEF Expire, Leave
  <2>9. CASE WaitWoken(t)
    BY <2>9, <2>a DEF WaitWoken, Lock
  <2>10. CASE WaitExpired(t)
    BY <2>10, <2>a DEF WaitExpired, Lock
  <2>11. CASE Unlock(t)
    BY <2>11, <2>a DEF Unlock
  <2> QED
    BY <1>2, <2>1, <2>2, <2>3, <2>4, <2>5, <2>6, <2>7, <2>8, <2>9, <2>10, <2>11
       DEF Step, Run
<1> QED
  BY <1>1, <1>2 DEF Next

\* A post that finds a sleeper wakes one: with max = 1 no wakeup is lost,
\* however many threads there are.
THEOREM WakeupNotLost == Spec => []NoLostWakeup
<1>1. Init => NoLostWakeup
  BY DEF Init, NoLostWakeup
<1> QED
  BY <1>1, SemTypeCorrect, WakeupStep, PTL DEF Spec

-----------------------------------------------------------------------------
(* Refinement.                                                             *)

StageOf(l) ==
  CASE l \in {"idle", "post", "count", "posted"} -> "idle"
    [] l = "taken" -> "done"
    [] l = "failed" -> "failed"
    [] OTHER -> "waiting"

\* What a thread shows to the abstract specification depends on its pc alone.
LEMMA StageIs ==
  /\ Stage = [t \in Threads |-> StageOf(pc[t])]
  /\ Stage' = [t \in Threads |-> StageOf(pc'[t])]
  BY DEF Stage, StageOf

\* A thread that goes from stage to stage, or stays, changes Stage there only.
LEMMA StageGoto ==
  ASSUME TypeOK, NEW t \in Threads, NEW l \in Steps, pc' = [pc EXCEPT ![t] = l]
  PROVE  Stage' = [Stage EXCEPT ![t] = StageOf(l)]
<1>1. \A u \in Threads : pc'[u] = IF u = t THEN l ELSE pc[u]
  BY DEF TypeOK
<1> QED
  BY <1>1, StageIs

\* A step of a thread is a step of the counting semaphore, or invisible.
LEMMA Refines ==
  TypeOK /\ TypeOK' /\ [Next]_vars => [Abstract!Next]_<<cnt, Stage>>
<1> SUFFICES ASSUME TypeOK, TypeOK', [Next]_vars
             PROVE [Abstract!Next]_<<cnt, Stage>>
  OBVIOUS
<1> USE DEF Goto
<1>1. CASE UNCHANGED vars
  BY <1>1, StageIs DEF vars
<1>2. ASSUME NEW t \in Threads, Step(t)
      PROVE [Abstract!Next]_<<cnt, Stage>>
  <2>s. Stage[t] = StageOf(pc[t]) /\ pc[t] \in Steps
        /\ Stage = [u \in Threads |-> StageOf(pc[u])]
    BY StageIs DEF TypeOK
  <2>a. ASSUME cnt' = cnt, NEW l \in Steps, pc' = [pc EXCEPT ![t] = l],
               StageOf(l) = StageOf(pc[t])
        PROVE UNCHANGED <<cnt, Stage>>
    <3>1. Stage' = [Stage EXCEPT ![t] = StageOf(l)]
      BY <2>a, StageGoto
    <3> QED
      BY <2>a, <2>s, <3>1
  <2>1. CASE PostCall(t)
    BY <2>1, <2>a DEF PostCall, StageOf
  <2>2. CASE PostLock(t)
    BY <2>2, <2>a DEF PostLock, Lock, StageOf
  <2>3. CASE PostCount(t)
    <3>1. Stage' = Stage
      <4>1. CASE Silent(t)
        <5>1. pc' = [pc EXCEPT ![t] = "posted"] /\ pc[t] = "count"
          BY <2>3, <4>1 DEF Silent, PostCount
        <5>2. Stage' = [Stage EXCEPT ![t] = Stage[t]]
          BY <5>1, <2>s, StageGoto DEF StageOf
        <5> QED
          BY <2>s, <5>2
      <4>2. CASE Signal(t)
        <5>1. CASE waiters = {}
          BY <5>1, <4>2, <2>3, <2>s, StageIs DEF Signal, PostCount, StageOf, TypeOK
        <5>2. CASE waiters # {}
          <6>1. PICK w \in waiters : pc' = [pc EXCEPT ![t] = "posted", ![w] = "woken"]
            BY <4>2, <5>2 DEF Signal
          <6>2. w \in Threads /\ pc[w] = "asleep" /\ pc[t] = "count"
            BY <2>3 DEF TypeOK, PostCount
          <6>3. \A u \in Threads : StageOf(pc'[u]) = StageOf(pc[u])
            BY <6>1, <6>2 DEF TypeOK, StageOf
          <6> QED
            BY <6>3, StageIs
        <5> QED
          BY <5>1, <5>2
      <4> QED
        BY <2>3, <4>1, <4>2 DEF PostCount
    <3>2. cnt' = cnt \/ (cnt < Max /\ cnt' = cnt + 1)
      BY <2>3 DEF PostCount
    <3> QED
      BY <3>1, <3>2 DEF Abstract!Next, Abstract!Post
  <2>4. CASE WaitCall(t)
    <3>1. Abstract!Call(t)
      BY <2>4, <2>s, StageGoto DEF WaitCall, Abstract!Call, StageOf
    <3> QED
      BY <3>1 DEF Abstract!Next
  <2>5. CASE WaitLock(t)
    BY <2>5, <2>a DEF WaitLock, Lock, StageOf
  <2>6. CASE WaitTest(t)
    <3>1. CASE cnt = 0
      BY <2>6, <3>1, <2>a DEF WaitTest, StageOf
    <3>2. CASE cnt # 0
      <4>1. Abstract!Take(t)
        BY <2>6, <3>2, <2>s, StageGoto, MaxAssumption
           DEF WaitTest, Abstract!Take, StageOf, TypeOK
      <4> QED
        BY <4>1 DEF Abstract!Next
    <3> QED
      BY <3>1, <3>2
  <2>7. CASE Spurious(t)
    BY <2>7, <2>a DEF Spurious, Leave, StageOf, TypeOK
  <2>8. CASE Expire(t)
    BY <2>8, <2>a DEF Expire, Leave, StageOf, TypeOK
  <2>9. CASE WaitWoken(t)
    BY <2>9, <2>a DEF WaitWoken, Lock, StageOf
  <2>10. CASE WaitExpired(t)
    <3>1. Abstract!GiveUp(t)
      BY <2>10, <2>s, StageGoto DEF WaitExpired, Lock, Abstract!GiveUp, StageOf
    <3> QED
      BY <3>1 DEF Abstract!Next
  <2>11. CASE Unlock(t)
    <3>1. CASE pc[t] = "posted"
      BY <2>11, <3>1, <2>a DEF Unlock, StageOf
    <3>2. CASE pc[t] # "posted"
      <4>1. Abstract!Return(t)
        BY <2>11, <3>2, <2>s, StageGoto DEF Unlock, Abstract!Return, StageOf
      <4> QED
        BY <4>1 DEF Abstract!Next
    <3> QED
      BY <3>1, <3>2
  <2> QED
    BY <1>2, <2>1, <2>2, <2>3, <2>4, <2>5, <2>6, <2>7, <2>8, <2>9, <2>10, <2>11
       DEF Step, Run
<1> QED
  BY <1>1, <1>2 DEF Next

\* The mutex, the condition and the loop make a counting semaphore, for any
\* max: it is only the wakeups that need max = 1.
THEOREM SemImplements == Spec => Implements
<1>1. Init => Abstract!Init
  BY DEF Init, Abstract!Init, Stage
<1>2. TypeOK /\ TypeOK' /\ [Next]_vars => [Abstract!Next]_Abstract!vars
  BY Refines DEF Abstract!vars
<1> QED
  BY <1>1, <1>2, SemTypeCorrect, PTL DEF Spec, Implements, Abstract!Spec
=============================================================================
