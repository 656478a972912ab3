------------------------------- MODULE LinuxSem -------------------------------
(***************************************************************************)
(* The semaphore of components/aloe/aloe_linux/aloe_sys_linux.c: a count   *)
(* under a mutex, and a condition that is signalled when the count leaves  *)
(* 0.  Threads post and wait in any order, whoever waited before.          *)
(*                                                                         *)
(* pthread is external: a signal moves one waiter, if there is one, out of *)
(* the condition; a waiter also leaves it without cause, or by its         *)
(* time-out; all of them take the mutex again before they return.  A       *)
(* duration of zero is a time-out that is due at once.  As in glibc, a     *)
(* waiter that times out does not use up a signal.                         *)
(***************************************************************************)
EXTENDS Integers, FiniteSets

CONSTANTS
  Threads,
  Max,      (* ctx->max.                                                    *)
  NoOne     (* The mutex is free.                                           *)

ASSUME MaxAssumption == Max \in Nat \ {0}
ASSUME NoOneAssumption == NoOne \notin Threads

VARIABLES
  cnt,      (* ctx->cnt.                                                    *)
  mutex,    (* Who holds ctx->mutex.                                        *)
  waiters,  (* Who is in ctx->not_empty.                                    *)
  timed,    (* Whose wait has a finite duration.                            *)
  pc        (* Where each thread is; "woken" and "expired" have left the    *)
            (* condition and want the mutex.                                *)

vars == <<cnt, mutex, waiters, timed, pc>>

Goto(t, l) == pc' = [pc EXCEPT ![t] = l]

\* aloe_sem_init(): any count up to max.
Init ==
  /\ cnt \in 0..Max
  /\ mutex = NoOne /\ waiters = {} /\ timed = {}
  /\ pc = [t \in Threads |-> "idle"]

Lock(t, from, to) ==
  /\ pc[t] = from /\ mutex = NoOne
  /\ mutex' = t /\ Goto(t, to)
  /\ UNCHANGED <<cnt, waiters, timed>>

Unlock(t) ==
  /\ pc[t] \in {"posted", "taken", "failed"}
  /\ mutex' = NoOne /\ Goto(t, "idle")
  /\ UNCHANGED <<cnt, waiters, timed>>

-----------------------------------------------------------------------------
(* aloe_sem_post().                                                        *)

PostCall(t) ==
  /\ pc[t] = "idle" /\ Goto(t, "post")
  /\ UNCHANGED <<cnt, mutex, waiters, timed>>

PostLock(t) == Lock(t, "post", "count")

\* pthread_cond_signal().
Signal(t) ==
  IF waiters = {}
    THEN Goto(t, "posted") /\ UNCHANGED waiters
    ELSE \E w \in waiters :
           /\ waiters' = waiters \ {w}
           /\ pc' = [pc EXCEPT ![t] = "posted", ![w] = "woken"]
Silent(t) == Goto(t, "posted") /\ UNCHANGED waiters

PostCountUnbounded(t) ==
  /\ pc[t] = "count"
  /\ cnt' = cnt + 1
  /\ IF cnt' = 1 THEN Signal(t) ELSE Silent(t)
  /\ UNCHANGED <<mutex, timed>>
PostCountQuiet(t) ==
  /\ pc[t] = "count"
  /\ IF cnt < Max THEN cnt' = cnt + 1 ELSE cnt' = cnt
  /\ IF cnt < Max /\ cnt' > 1 THEN Signal(t) ELSE Silent(t)
  /\ UNCHANGED <<mutex, timed>>
PostCount(t) ==
  /\ pc[t] = "count"
  /\ IF cnt < Max THEN cnt' = cnt + 1 ELSE cnt' = cnt
  /\ IF cnt < Max /\ cnt' = 1 THEN Signal(t) ELSE Silent(t)
  /\ UNCHANGED <<mutex, timed>>

-----------------------------------------------------------------------------
(* aloe_sem_wait().                                                        *)

WaitCall(t) ==
  /\ pc[t] = "idle" /\ Goto(t, "wait")
  /\ timed' \in {timed \cup {t}, timed \ {t}}
  /\ UNCHANGED <<cnt, mutex, waiters>>

WaitLock(t) == Lock(t, "wait", "test")

\* while (cnt == 0): the wait lets go of the mutex as it enters the condition.
WaitTest(t) ==
  /\ pc[t] = "test"
  /\ IF cnt = 0
       THEN /\ waiters' = waiters \cup {t} /\ mutex' = NoOne
            /\ Goto(t, "asleep") /\ UNCHANGED cnt
       ELSE /\ cnt' = cnt - 1 /\ Goto(t, "taken")
            /\ UNCHANGED <<waiters, mutex>>
  /\ UNCHANGED timed

Leave(t, l) ==
  /\ t \in waiters
  /\ waiters' = waiters \ {t} /\ Goto(t, l)
  /\ UNCHANGED <<cnt, mutex, timed>>

Spurious(t) == Leave(t, "woken")
Expire(t) == t \in timed /\ Leave(t, "expired")

\* cond_wait() returns: 0 tests the count again, an error gives up.
WaitWokenTakes(t) ==
  /\ pc[t] = "woken" /\ mutex = NoOne
  /\ mutex' = t /\ cnt' = cnt - 1 /\ Goto(t, "taken")
  /\ UNCHANGED <<waiters, timed>>
WaitWoken(t) == Lock(t, "woken", "test")
WaitExpired(t) == Lock(t, "expired", "failed")

-----------------------------------------------------------------------------
\* The steps a thread takes by itself once it has called.
Run(t) ==
  \/ PostLock(t) \/ PostCount(t)
  \/ WaitLock(t) \/ WaitTest(t) \/ WaitWoken(t) \/ WaitExpired(t)
  \/ Unlock(t)

Step(t) == PostCall(t) \/ WaitCall(t) \/ Spurious(t) \/ Expire(t) \/ Run(t)

Next == \E t \in Threads : Step(t)

Spec == Init /\ [][Next]_vars

\* A thread that has called runs on.  Nothing is assumed of who gets the mutex.
FairSpec == Spec /\ \A t \in Threads : WF_vars(Run(t))

-----------------------------------------------------------------------------
(* Properties.                                                             *)

Steps == {"idle", "post", "count", "posted", "wait", "test", "asleep", "woken",
          "expired", "taken", "failed"}
Holding == {"count", "posted", "test", "taken", "failed"}

\* The types of the variables; the mutex is held by the one thread that is
\* between a lock and an unlock.
TypeOK ==
  /\ cnt \in 0..Max
  /\ mutex \in Threads \cup {NoOne}
  /\ waiters \subseteq Threads /\ timed \subseteq Threads
  /\ pc \in [Threads -> Steps]
  /\ \A t \in Threads : pc[t] \in Holding <=> mutex = t
  /\ \A t \in Threads : pc[t] = "asleep" <=> t \in waiters

\* Someone who will look at the count.
Awake(t) == pc[t] \in {"woken", "test"}

\* No waiter sleeps on a count that is not 0 unless another is about to look
\* at it.  The signal is sent only when the count leaves 0, which is enough
\* for max = 1, the only max in use, whatever times out or wakes by itself.
NoLostWakeup == Max = 1 /\ cnt > 0 /\ waiters # {} => \E t \in Threads : Awake(t)

\* So when posts cease the count is taken, or all who waited have given up.
Posting == \E t \in Threads : pc[t] = "count"
Taken ==
  Max = 1 => (cnt > 0 /\ waiters # {} ~> cnt = 0 \/ waiters = {} \/ Posting)

\* The semaphore is a counting semaphore.
Stage ==
  [t \in Threads |->
     CASE pc[t] \in {"idle", "post", "count", "posted"} -> "idle"
       [] pc[t] = "taken" -> "done"
       [] pc[t] = "failed" -> "failed"
       [] OTHER -> "waiting"]

Abstract == INSTANCE CountingSem WITH st <- Stage
Implements == Abstract!Spec
=============================================================================
