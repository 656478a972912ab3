---------------------------- MODULE SpiPipeProofs ---------------------------
(***************************************************************************)
(* Safety of the SPI frame pipe, for any producers, requests and lengths:  *)
(* the types, one owner per request, no wake-up lost.                      *)
(***************************************************************************)
EXTENDS SpiPipe, CommonLemmas

-----------------------------------------------------------------------------
(* Type correctness.                                                       *)

LEMMA InitType == Init => TypeOK
<1>1. <<>> \in Seq(Reqs) /\ <<>> \in Seq(Msgs) /\ Len(<<>>) = 0
  BY EmptySeq
<1>2. 0 <= MqLen /\ 0 \in 0..MaxAdds
  BY QueueAssumption
<1> QED
  BY <1>1, <1>2 DEF Init, TypeOK

LEMMA NextType == TypeOK /\ [Next]_vars => TypeOK'
<1> SUFFICES ASSUME TypeOK, [Next]_vars PROVE TypeOK'
  OBVIOUS
<1> USE DEF TypeOK
<1>0. Len(mq) \in Nat
  BY LenProperties
<1>1. ASSUME NEW p \in Producers, NEW r \in Reqs, AddInsert(p, r) PROVE TypeOK'
  <2>1. req_list' \in Seq(Reqs)
    BY <1>1, AppendProperties DEF AddInsert
  <2>2. adds' \in 0..MaxAdds
    BY <1>1, QueueAssumption DEF AddInsert
  <2> QED
    BY <1>1, <2>1, <2>2 DEF AddInsert, taskvars
<1>2. ASSUME NEW p \in Producers, Add(p) PROVE TypeOK'
  <2>1. CASE AddNotify(p)
    <3>1. mq' \in Seq(Msgs) /\ Len(mq') = Len(mq) + 1
      BY <2>1, AppendProperties DEF AddNotify, Msgs
    <3>2. Len(mq') <= MqLen
      BY <1>0, <2>1, <3>1, QueueAssumption DEF AddNotify
    <3> QED
      BY <2>1, <3>1, <3>2 DEF AddNotify, taskvars
  <2>2. CASE AddNotifyFull(p)
    BY <2>2 DEF AddNotifyFull, taskvars
  <2> QED
    BY <1>2, <2>1, <2>2 DEF Add
<1>3. CASE Receive
  <2>1. mq' \in Seq(Msgs) /\ Len(mq') <= MqLen
    BY <1>0, <1>3, HeadTailProperties, QueueAssumption DEF Receive
  <2> QED
    BY <1>3, <2>1 DEF Receive
<1>4. CASE Gc
  BY <1>4 DEF Gc, Recycle
<1>5. CASE DrainNext
  BY <1>5, HeadTailProperties DEF DrainNext
<1>6. CASE DrainDone
  BY <1>6 DEF DrainDone
<1>7. CASE ProcEmpty
  BY <1>7, ReqAssumption DEF ProcEmpty
<1>8. CASE ProcSend
  BY <1>8 DEF ProcSend
<1>9. CASE PostDone
  <2>1. mq' \in Seq(Msgs) /\ Len(mq') = Len(mq) + 1
    BY <1>9, AppendProperties DEF PostDone, Msgs
  <2>2. Len(mq') <= MqLen
    BY <1>0, <1>9, <2>1, QueueAssumption DEF PostDone
  <2> QED
    BY <1>9, <2>1, <2>2 DEF PostDone
<1>10. CASE UNCHANGED vars
  BY <1>10 DEF vars
<1> QED
  BY <1>1, <1>2, <1>3, <1>4, <1>5, <1>6, <1>7, <1>8, <1>9, <1>10 DEF Next, Task

\* The variables keep their types; the message queue never exceeds its length.
THEOREM TypeCorrect == Spec => []TypeOK
  BY InitType, NextType, PTL DEF Spec

-----------------------------------------------------------------------------
(* Requests have one owner.                                                *)

\* The task holds a request exactly while it processes it, which is what
\* keeps DrainNext from losing one.
ProcHoldsReq == pc # "proc" => req = NoReq

\* Places spelt out.
Held(r) == {r} \ {NoReq}
OneOwner ==
  /\ IsInjective(req_list)
  /\ free \cup Range(req_list) \cup Held(req) \cup Held(req_recycle) = Reqs
  /\ free \cap Range(req_list) = {}
  /\ (free \cup Range(req_list)) \cap (Held(req) \cup Held(req_recycle)) = {}
  /\ Held(req) \cap Held(req_recycle) = {}

LEMMA OneOwnerIsPlaces == OneOwner <=> RequestOwnedOnce
<1>1. /\ DOMAIN Places = 1..4
      /\ Places[1] = free /\ Places[2] = Range(req_list)
      /\ Places[3] = Held(req) /\ Places[4] = Held(req_recycle)
  BY DEF Places, Held
<1>2. Range(Places) = {free, Range(req_list), Held(req), Held(req_recycle)}
  <2>1. Range(Places) = {Places[i] : i \in 1..4}
    BY <1>1 DEF Range
  <2>2. 1..4 = {1, 2, 3, 4}
    OBVIOUS
  <2> QED
    BY <1>1, <2>1, <2>2
<1>3. UNION Range(Places)
        = free \cup Range(req_list) \cup Held(req) \cup Held(req_recycle)
  BY <1>2
<1>4. (\A i, j \in DOMAIN Places : i # j => Places[i] \cap Places[j] = {})
        <=> /\ free \cap Range(req_list) = {}
            /\ free \cap Held(req) = {} /\ free \cap Held(req_recycle) = {}
            /\ Range(req_list) \cap Held(req) = {}
            /\ Range(req_list) \cap Held(req_recycle) = {}
            /\ Held(req) \cap Held(req_recycle) = {}
  <2>1. 1..4 = {1, 2, 3, 4}
    OBVIOUS
  <2> QED
    BY <1>1, <2>1
<1> QED
  BY <1>3, <1>4 DEF OneOwner, RequestOwnedOnce

LEMMA OwnerStep ==
  TypeOK /\ OneOwner /\ ProcHoldsReq /\ [Next]_vars => OneOwner' /\ ProcHoldsReq'
<1> SUFFICES ASSUME TypeOK, OneOwner, ProcHoldsReq, [Next]_vars
             PROVE  OneOwner' /\ ProcHoldsReq'
  OBVIOUS
<1>0. req_list \in Seq(Reqs) /\ NoReq \notin Reqs
  BY ReqAssumption DEF TypeOK
<1>1. ASSUME NEW p \in Producers, NEW r \in Reqs, AddInsert(p, r)
      PROVE  OneOwner' /\ ProcHoldsReq'
  <2>1. r \in free /\ free' = free \ {r} /\ req_list' = Append(req_list, r)
    BY <1>1 DEF AddInsert
  <2>2. /\ Range(req_list') = Range(req_list) \cup {r}
        /\ IsInjective(req_list')
    BY <1>0, <2>1, AppendToQueue DEF OneOwner
  <2>3. UNCHANGED <<pc, req, req_recycle>>
    BY <1>1 DEF AddInsert, taskvars
  <2> QED
    BY <2>1, <2>2, <2>3 DEF OneOwner, ProcHoldsReq, Held
<1>2. ASSUME UNCHANGED <<free, req_list, req, req_recycle>>,
             pc # "proc" \/ pc' = pc
      PROVE  OneOwner' /\ ProcHoldsReq'
  BY <1>2 DEF OneOwner, ProcHoldsReq, Held
<1>7. ASSUME NEW p \in Producers, Add(p) PROVE OneOwner' /\ ProcHoldsReq'
  BY <1>2, <1>7 DEF Add, AddNotify, AddNotifyFull, taskvars
<1>8. CASE Receive
  BY <1>2, <1>8 DEF Receive
<1>9. CASE DrainDone
  BY <1>2, <1>9 DEF DrainDone
<1>10. CASE PostDone
  BY <1>2, <1>10 DEF PostDone
<1>11. CASE UNCHANGED vars
  BY <1>2, <1>11 DEF vars
<1>3. CASE Gc
  BY <1>3 DEF Gc, Recycle, OneOwner, ProcHoldsReq, Held
<1>4. CASE DrainNext
  <2>1. /\ Range(req_list) = Range(req_list') \cup {req'}
        /\ IsInjective(req_list') /\ req' \notin Range(req_list') /\ req' \in Reqs
    BY <1>0, <1>4, TailOfQueue DEF DrainNext, OneOwner
  <2>2. req = NoReq /\ UNCHANGED <<free, req_recycle>> /\ pc' = "proc"
    BY <1>4 DEF DrainNext, ProcHoldsReq
  <2>3. Held(req) = {} /\ Held(req') = {req'} /\ Held(req_recycle') = Held(req_recycle)
    BY <1>0, <2>1, <2>2 DEF Held
  <2>4. /\ free \cup Range(req_list) \cup Held(req_recycle) = Reqs
        /\ free \cap Range(req_list) = {}
        /\ (free \cup Range(req_list)) \cap Held(req_recycle) = {}
    BY <2>3 DEF OneOwner
  <2> QED
    BY <2>1, <2>2, <2>3, <2>4 DEF OneOwner, ProcHoldsReq
<1>5. CASE ProcEmpty
  <2>1. req \in Reqs
    BY <1>5, ReqAssumption DEF ProcEmpty
  <2> QED
    BY <1>0, <1>5, <2>1 DEF ProcEmpty, OneOwner, ProcHoldsReq, Held
<1>6. CASE ProcSend
  BY <1>6 DEF ProcSend, OneOwner, ProcHoldsReq, Held
<1> QED
  BY <1>1, <1>3, <1>4, <1>5, <1>6, <1>7, <1>8, <1>9, <1>10, <1>11
     DEF Next, Task

LEMMA OwnerInit == Init => OneOwner /\ ProcHoldsReq
<1>1. Range(<<>>) = {} /\ IsInjective(<<>>)
  BY DEF Range, IsInjective
<1> QED
  BY <1>1 DEF Init, OneOwner, ProcHoldsReq, Held

\* A request is with its owner, in the list once, being processed or waiting
\* for its callback, and never in two of these places: no callback is run
\* twice for one add, and none is dropped.
THEOREM OneOwnerPerRequest == Spec => []RequestOwnedOnce
<1>1. Spec => [](OneOwner /\ ProcHoldsReq)
  BY TypeCorrect, OwnerInit, OwnerStep, PTL DEF Spec
<1>2. OneOwner => RequestOwnedOnce
  BY OneOwnerIsPlaces
<1> QED
  BY <1>1, <1>2, PTL

-----------------------------------------------------------------------------
(* No wake-up is lost.                                                     *)

\* The task drains only after a message: a time-out goes back to receiving.
DrainsForMsg == pc \in {"drain", "proc", "post"} => msg

LEMMA WakeupStep ==
  TypeOK /\ NoLostWakeup /\ DrainsForMsg /\ [Next]_vars
    => NoLostWakeup' /\ DrainsForMsg'
<1> SUFFICES ASSUME TypeOK, NoLostWakeup, DrainsForMsg, [Next]_vars
             PROVE  NoLostWakeup' /\ DrainsForMsg'
  OBVIOUS
<1> USE DEF NoLostWakeup, DrainsForMsg, Draining
<1>1. ASSUME NEW p \in Producers, NEW r \in Reqs, AddInsert(p, r)
      PROVE  NoLostWakeup' /\ DrainsForMsg'
  BY <1>1 DEF AddInsert, taskvars, TypeOK
<1>2. ASSUME NEW p \in Producers, AddNotify(p)
      PROVE  NoLostWakeup' /\ DrainsForMsg'
  <2>1. mq' # <<>>
    BY <1>2, AppendProperties DEF AddNotify, TypeOK, Msgs
  <2> QED
    BY <1>2, <2>1 DEF AddNotify, taskvars
<1>3. ASSUME NEW p \in Producers, AddNotifyFull(p)
      PROVE  NoLostWakeup' /\ DrainsForMsg'
  <2>1. mq # <<>>
    BY <1>3, EmptySeq, QueueAssumption DEF AddNotifyFull
  <2> QED
    BY <1>3, <2>1 DEF AddNotifyFull, taskvars
<1>4. CASE Receive
  BY <1>4 DEF Receive
<1>5. CASE Gc \/ DrainNext \/ DrainDone \/ ProcEmpty \/ ProcSend
  BY <1>5 DEF Gc, DrainNext, DrainDone, ProcEmpty, ProcSend, TypeOK
<1>6. CASE PostDone
  <2>1. mq' # <<>>
    BY <1>6, AppendProperties DEF PostDone, TypeOK, Msgs
  <2> QED
    BY <1>6, <2>1 DEF PostDone
<1>7. CASE UNCHANGED vars
  BY <1>7 DEF vars
<1> QED
  BY <1>1, <1>2, <1>3, <1>4, <1>5, <1>6, <1>7 DEF Next, Add, Task

\* A request in the list is always seen to, although a producer posts its
\* message outside the lock and gives it up when the queue is full.
THEOREM WakeupNotLost == Spec => []NoLostWakeup
<1>1. Init => NoLostWakeup /\ DrainsForMsg
  BY DEF Init, NoLostWakeup, DrainsForMsg
<1> QED
  BY <1>1, TypeCorrect, WakeupStep, PTL DEF Spec
=============================================================================
