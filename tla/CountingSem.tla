----------------------------- MODULE CountingSem -----------------------------
(***************************************************************************)
(* What aloe_sem_t promises: a count between 0 and Max, a post that raises *)
(* it unless it is Max, a wait that lowers it once it is not 0, or gives   *)
(* up.  A thread is "idle", "waiting" in aloe_sem_wait(), or has its wait  *)
(* behind it: "done", "failed".                                            *)
(***************************************************************************)
EXTENDS Integers

CONSTANTS Threads, Max
VARIABLES cnt, st
vars == <<cnt, st>>

Init == cnt \in 0..Max /\ st = [t \in Threads |-> "idle"]

Call(t) == st[t] = "idle" /\ st' = [st EXCEPT ![t] = "waiting"] /\ UNCHANGED cnt

Take(t) ==
  /\ st[t] = "waiting" /\ cnt > 0
  /\ cnt' = cnt - 1 /\ st' = [st EXCEPT ![t] = "done"]

GiveUp(t) == st[t] = "waiting" /\ st' = [st EXCEPT ![t] = "failed"] /\ UNCHANGED cnt

Return(t) ==
  /\ st[t] \in {"done", "failed"}
  /\ st' = [st EXCEPT ![t] = "idle"] /\ UNCHANGED cnt

Post == cnt < Max /\ cnt' = cnt + 1 /\ UNCHANGED st

Next == Post \/ \E t \in Threads : Call(t) \/ Take(t) \/ GiveUp(t) \/ Return(t)

Spec == Init /\ [][Next]_vars
=============================================================================
