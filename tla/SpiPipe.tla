------------------------------- MODULE SpiPipe ------------------------------
(***************************************************************************)
(* The frame pipe of main/dw_spi2.c: threads add requests to req_list and  *)
(* then post a message to the queue mq of the SPI task, which drains the   *)
(* list, starts each request and calls its callback once the next message, *)
(* time-out or request finds it finished.  The SPI driver is the mock that *)
(* the repository builds: dw_spi2_send_start() finishes at once, moves the *)
(* request to req_recycle and posts mq_msg_id_spi_req_done to mq itself.   *)
(*                                                                         *)
(* A critical section of lock is one step.  What only the task touches     *)
(* between two shared accesses is one step, so req_proc.req, set and       *)
(* cleared within one, is not a variable; time is the choice to time out.  *)
(***************************************************************************)
EXTENDS Naturals, Sequences, Functions

CONSTANTS
  Producers,  (* Threads that call dw_spi2_add().                           *)
  Reqs,       (* The requests, each owned by whoever may add it.            *)
  EmptyReqs,  (* Those with nothing to send, sz = 0.                        *)
  NoReq,      (* A null request pointer.                                    *)
  MqLen,      (* Length of mq, 20 in dw_spi2_start().                       *)
  MaxAdds     (* Bound: how often a request is added.                       *)

ASSUME ReqAssumption == NoReq \notin Reqs /\ EmptyReqs \subseteq Reqs
ASSUME QueueAssumption == MqLen \in Nat \ {0} /\ MaxAdds \in Nat

VARIABLES
  req_list,   (* Requests added and not started, a FIFO.                    *)
  mq,         (* Messages posted to the task and not received.              *)
  add_pc,     (* Per producer: "idle", or "notify" inside dw_spi2_add().    *)
  pc,         (* Where the task is.                                         *)
  msg,        (* Whether its last receive returned a message.               *)
  req,        (* The request spi2_req_proc2() works on.                     *)
  req_recycle,(* The request sent whose callback is still to be called.     *)
  free,       (* The requests nobody has added or whose callback ran.       *)
  adds        (* How many requests were added.                              *)

vars == <<req_list, mq, add_pc, pc, msg, req, req_recycle, free, adds>>
taskvars == <<pc, msg, req, req_recycle>>

Msgs == {"spi_send", "spi_req_done"}

Init ==
  /\ req_list = <<>> /\ mq = <<>>
  /\ add_pc = [p \in Producers |-> "idle"]
  /\ pc = "recv" /\ msg = FALSE /\ req = NoReq /\ req_recycle = NoReq
  /\ free = Reqs /\ adds = 0

-----------------------------------------------------------------------------
(* dw_spi2_add().                                                          *)

\* As if a task that is not waiting needed no message.
AddInsertBusy(p, r) ==
  /\ add_pc[p] = "idle" /\ r \in free /\ adds < MaxAdds
  /\ req_list' = Append(req_list, r)
  /\ free' = free \ {r}
  /\ adds' = adds + 1
  /\ add_pc' = [add_pc EXCEPT ![p] = IF pc = "recv" THEN "notify" ELSE "idle"]
  /\ UNCHANGED <<mq, taskvars>>
AddInsert(p, r) ==
  /\ add_pc[p] = "idle" /\ r \in free /\ adds < MaxAdds
  /\ req_list' = Append(req_list, r)
  /\ free' = free \ {r}
  /\ adds' = adds + 1
  /\ add_pc' = [add_pc EXCEPT ![p] = "notify"]
  /\ UNCHANGED <<mq, taskvars>>

AddNotify(p) ==
  /\ add_pc[p] = "notify" /\ Len(mq) < MqLen
  /\ mq' = Append(mq, "spi_send")
  /\ add_pc' = [add_pc EXCEPT ![p] = "idle"]
  /\ UNCHANGED <<req_list, free, adds, taskvars>>

\* The queue stayed full for 100 ticks: the message is given up.
AddNotifyFull(p) ==
  /\ add_pc[p] = "notify" /\ Len(mq) = MqLen
  /\ add_pc' = [add_pc EXCEPT ![p] = "idle"]
  /\ UNCHANGED <<req_list, mq, free, adds, taskvars>>

-----------------------------------------------------------------------------
(* spi2_slave_task().                                                      *)

\* xQueueReceive(), one second at most.
Receive ==
  /\ pc = "recv"
  /\ IF mq = <<>> THEN msg' = FALSE /\ UNCHANGED mq
                  ELSE msg' = TRUE /\ mq' = Tail(mq)
  /\ pc' = "gc"
  /\ UNCHANGED <<req_list, add_pc, req, req_recycle, free, adds>>

\* spi2_req_gc(): the callback takes the request back, the pointer is cleared.
\* Two slips: it takes a null pointer for a request, it keeps the pointer.
RecycleNull ==
  /\ free' = free \cup {req_recycle}
  /\ req_recycle' = NoReq
RecycleTwice ==
  /\ free' = free \cup ({req_recycle} \ {NoReq})
  /\ req_recycle' = req_recycle
Recycle ==
  /\ free' = free \cup ({req_recycle} \ {NoReq})
  /\ req_recycle' = NoReq

Gc ==
  /\ pc = "gc"
  /\ Recycle
  /\ pc' = IF msg THEN "drain" ELSE "recv"
  /\ UNCHANGED <<req_list, mq, add_pc, msg, req, adds>>

DrainNext ==
  /\ pc = "drain" /\ req_list # <<>>
  /\ req' = Head(req_list) /\ req_list' = Tail(req_list)
  /\ pc' = "proc"
  /\ UNCHANGED <<mq, add_pc, msg, req_recycle, free, adds>>

DrainDone ==
  /\ pc = "drain" /\ req_list = <<>>
  /\ pc' = "recv"
  /\ UNCHANGED <<req_list, mq, add_pc, msg, req, req_recycle, free, adds>>

\* Nothing to send: its callback at once.
ProcEmpty ==
  /\ pc = "proc" /\ req \in EmptyReqs
  /\ free' = free \cup {req} /\ req' = NoReq
  /\ pc' = "drain"
  /\ UNCHANGED <<req_list, mq, add_pc, msg, req_recycle, adds>>

\* The previous request's callback, then this one is sent.
ProcSendForgetful ==
  /\ pc = "proc" /\ req \notin EmptyReqs
  /\ req_recycle' = req /\ req' = NoReq
  /\ pc' = "post"
  /\ UNCHANGED <<req_list, mq, add_pc, msg, free, adds>>
ProcSend ==
  /\ pc = "proc" /\ req \notin EmptyReqs
  /\ free' = free \cup ({req_recycle} \ {NoReq})
  /\ req_recycle' = req /\ req' = NoReq
  /\ pc' = "post"
  /\ UNCHANGED <<req_list, mq, add_pc, msg, adds>>

\* dw_spi2_send_start() posts to the task's own queue, and waits for room.
PostDone ==
  /\ pc = "post" /\ Len(mq) < MqLen
  /\ mq' = Append(mq, "spi_req_done")
  /\ pc' = "drain"
  /\ UNCHANGED <<req_list, add_pc, msg, req, req_recycle, free, adds>>

-----------------------------------------------------------------------------
Add(p) == AddNotify(p) \/ AddNotifyFull(p)

Task ==
  Receive \/ Gc \/ DrainNext \/ DrainDone \/ ProcEmpty \/ ProcSend \/ PostDone

Next ==
  \/ Task
  \/ \E p \in Producers : Add(p) \/ \E r \in Reqs : AddInsert(p, r)

Spec == Init /\ [][Next]_vars

\* Both threads keep running; nobody has to add a request.
FairSpec == Spec /\ WF_vars(Task) /\ \A p \in Producers : WF_vars(Add(p))

-----------------------------------------------------------------------------
(* Properties.                                                             *)

\* The types of the variables.
TypeOK ==
  /\ req_list \in Seq(Reqs) /\ mq \in Seq(Msgs) /\ Len(mq) <= MqLen
  /\ add_pc \in [Producers -> {"idle", "notify"}]
  /\ pc \in {"recv", "gc", "drain", "proc", "post"} /\ msg \in BOOLEAN
  /\ req \in Reqs \cup {NoReq} /\ req_recycle \in Reqs \cup {NoReq}
  /\ free \subseteq Reqs /\ adds \in 0..MaxAdds

\* Where a request can be.
Places ==
  <<free, Range(req_list), {req} \ {NoReq}, {req_recycle} \ {NoReq}>>

\* A request has one owner at a time, so its callback runs exactly once for
\* each time it is added: it is with its owner, in the list once, being
\* processed or waiting for its callback.
RequestOwnedOnce ==
  /\ IsInjective(req_list)
  /\ UNION Range(Places) = Reqs
  /\ \A i, j \in DOMAIN Places : i # j => Places[i] \cap Places[j] = {}

\* The task is going to look at the list without waiting for a message.
Draining == msg /\ pc \in {"gc", "drain", "proc", "post"}

\* No wake-up is lost: a request in the list always has a message on the way,
\* a task that is draining, or a producer about to post, even though a
\* producer that finds mq full gives its message up.
NoLostWakeup ==
  req_list # <<>> =>
    mq # <<>> \/ Draining \/ \E p \in Producers : add_pc[p] = "notify"

\* The task, the only reader of mq, waits for room in it.
WaitsForItself == pc = "post" /\ Len(mq) = MqLen

\* Every request added gets its callback, unless the task stops there.
RequestDone == \A r \in Reqs : r \notin free ~> r \in free \/ WaitsForItself

\* A full queue is passed over with the report "queue to notify SPI is full":
\* the task never waits for room.
NeverWaitsForItself == ~WaitsForItself
=============================================================================
