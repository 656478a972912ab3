-------------------------------- MODULE Wifi --------------------------------
(***************************************************************************)
(* Wi-Fi control of main/eh_main.c with the looper (main/dw_looper.c) and  *)
(* the button: the event task of ESP-IDF runs eh_wifi_event_handler(), the *)
(* looper task runs btn_triggered(), eh_wifi_sta_start() and               *)
(* eh_wifi_feedback(), and both read and write ophase without a lock on a  *)
(* chip with two cores.  A step of a task is one access to ophase, or one  *)
(* call of the driver or of the looper's queue.                            *)
(*                                                                         *)
(* The driver is external: what eh_main.c calls of it and the events it    *)
(* posts.  Events stay queued when the driver is stopped.  Left out: the   *)
(* configuration, and calls under ESP_ERROR_CHECK that fail, which restart *)
(* the chip.                                                               *)
(***************************************************************************)
EXTENDS Integers, Sequences, FiniteSets

CONSTANTS
  Trials,     (* Connection attempts after the first, conn_trial = 3.       *)
  LooperLen,  (* Length of the looper's queue, 20 in eh_looper_start().     *)
  Faults      (* "malloc": no memory for a message may be left; "late_ip":  *)
              (* an address may be reported after the link was lost.        *)

ASSUME TrialAssumption == Trials \in Nat
ASSUME LooperAssumption == LooperLen \in Nat \ {0}
ASSUME FaultAssumption == Faults \subseteq {"malloc", "late_ip"}

VARIABLES
  ophase,     (* eh_impl.wifi.ophase.                                       *)
  conn_trial, (* eh_impl.wifi.conn_trial.                                   *)
  sta_inst,   (* Whether eh_impl.wifi.sta_inst is set.                      *)
  handler,    (* Whether the button message's handler is set: in flight.    *)
  mq,         (* The looper's queue: "btn", or "fb" for a feedback message. *)
  heap,       (* Feedback messages allocated and not freed.                 *)
  ev_pc,      (* Where the event task is in its handler.                    *)
  lp_pc,      (* Where the looper task is.                                  *)
  evq,        (* Events posted and not handled.                             *)
  drv,        (* The driver and the connection.                             *)
  calls,      (* History: connects since the driver was last told to start. *)
  hit         (* History: the Faults that have happened.                    *)

ctlvars == <<ophase, conn_trial, sta_inst>>
msgvars == <<handler, mq, heap>>
drvvars == <<evq, drv>>
history == <<calls, hit>>
vars == <<ctlvars, msgvars, ev_pc, lp_pc, drvvars, history>>

Phases == {"init", "sta_cfg", "sta_start", "sta_conn", "sta_ip",
           "sta_normal", "sta_disconn"}
Events == {"start", "connected", "got_ip", "disconnected"}

Least(m, n) == IF m <= n THEN m ELSE n

Init ==
  /\ ophase = "init" /\ conn_trial = 0 /\ sta_inst = FALSE
  /\ handler = FALSE /\ mq = <<>> /\ heap = 0
  /\ ev_pc = "idle" /\ lp_pc = "idle"
  /\ evq = <<>> /\ drv = "off"
  /\ calls = 0 /\ hit = {}

-----------------------------------------------------------------------------
(* The event task: eh_wifi_event_handler().                                *)

EvGoto(l) == ev_pc' = l /\ UNCHANGED lp_pc

\* The event task takes an event of kind e.
Take(e) ==
  /\ ev_pc = "idle" /\ evq # <<>> /\ Head(evq) = e
  /\ evq' = Tail(evq)
  /\ UNCHANGED <<drv, msgvars, sta_inst>>

EvStart ==
  /\ Take("start")
  /\ EvGoto(IF ophase = "sta_start" THEN "conn" ELSE "idle")
  /\ UNCHANGED <<ophase, conn_trial, history>>

EvConn ==
  /\ ev_pc = "conn"
  /\ conn_trial' = Trials /\ ophase' = "sta_conn"
  /\ EvGoto("connect")
  /\ UNCHANGED <<sta_inst, msgvars, drvvars, history>>

\* esp_wifi_connect(): its error, when the driver is not started, is ignored.
EvConnect ==
  /\ ev_pc = "connect"
  /\ drv' = IF drv = "started" THEN "connecting" ELSE drv
  /\ calls' = Least(calls + 1, Trials + 2)
  /\ EvGoto("idle")
  /\ UNCHANGED <<ctlvars, msgvars, evq, hit>>

\* A lost link is treated as a failed attempt only in phase sta_conn.
EvDisconnectedAlways ==
  /\ Take("disconnected")
  /\ EvGoto("trial")
  /\ UNCHANGED <<ophase, conn_trial, history>>
EvDisconnected ==
  /\ Take("disconnected")
  /\ EvGoto(IF ophase = "sta_conn" THEN "trial" ELSE "lost")
  /\ UNCHANGED <<ophase, conn_trial, history>>

\* Tried again while trials are left.
TrialAgainAlways == conn_trial >= 0
TrialAgain == conn_trial > 0

EvTrial ==
  /\ ev_pc = "trial"
  /\ IF TrialAgain
       THEN EvGoto("connect") /\ conn_trial' = conn_trial - 1
       ELSE EvGoto("lost") /\ UNCHANGED conn_trial
  /\ UNCHANGED <<ophase, sta_inst, msgvars, drvvars, history>>

EvLost ==
  /\ ev_pc = "lost"
  /\ ophase' = "sta_disconn"
  /\ EvGoto("post")
  /\ UNCHANGED <<conn_trial, sta_inst, msgvars, drvvars, history>>

EvConnected ==
  /\ Take("connected")
  /\ ophase' = "sta_ip"
  /\ EvGoto("idle")
  /\ UNCHANGED <<conn_trial, history>>

EvGotIp ==
  /\ Take("got_ip")
  /\ ophase' = "sta_normal" /\ conn_trial' = Trials
  /\ EvGoto("post")
  /\ UNCHANGED history

\* _eh_looper_msg1_post_new(): allocate, then wait for room in the queue.
EvAlloc ==
  /\ ev_pc = "post"
  /\ heap' = heap + 1
  /\ EvGoto("send")
  /\ UNCHANGED <<ctlvars, handler, mq, drvvars, history>>

EvAllocFail ==
  /\ ev_pc = "post" /\ "malloc" \in Faults
  /\ hit' = hit \cup {"malloc"}
  /\ EvGoto("idle")
  /\ UNCHANGED <<ctlvars, msgvars, drvvars, calls>>

EvSend ==
  /\ ev_pc = "send" /\ Len(mq) < LooperLen
  /\ mq' = Append(mq, "fb")
  /\ EvGoto("idle")
  /\ UNCHANGED <<ctlvars, handler, heap, drvvars, history>>

-----------------------------------------------------------------------------
(* The looper task: eh_looper_task().                                      *)

LpGoto(l) == lp_pc' = l /\ UNCHANGED ev_pc

\* dw_looper_once(); a time-out changes nothing.
LpTake ==
  /\ lp_pc = "idle" /\ mq # <<>>
  /\ mq' = Tail(mq)
  /\ LpGoto(Head(mq))
  /\ UNCHANGED <<ctlvars, handler, heap, drvvars, history>>

\* btn_triggered() may find the button's level high or low.
HandledKept == handler
Handled == FALSE

LpBtn ==
  /\ lp_pc = "btn"
  /\ handler' = Handled
  /\ LpGoto("idle") \/ LpGoto("sta_init")
  /\ UNCHANGED <<ctlvars, mq, heap, drvvars, history>>

\* eh_wifi_sta_start(): esp_wifi_init() if the phase is init.
LpStaInit ==
  /\ lp_pc = "sta_init"
  /\ IF ophase = "init"
       THEN sta_inst' = TRUE /\ drv' = "inited" /\ LpGoto("to_cfg")
       ELSE LpGoto("sta_cfg") /\ UNCHANGED <<sta_inst, drv>>
  /\ UNCHANGED <<ophase, conn_trial, msgvars, evq, history>>

LpToCfg ==
  /\ lp_pc = "to_cfg"
  /\ ophase' = "sta_cfg"
  /\ LpGoto("sta_cfg")
  /\ UNCHANGED <<conn_trial, sta_inst, msgvars, drvvars, history>>

LpStaCfg ==
  /\ lp_pc = "sta_cfg"
  /\ LpGoto(IF ophase = "sta_cfg" THEN "to_start" ELSE "idle")
  /\ UNCHANGED <<ctlvars, msgvars, drvvars, history>>

\* The phase is set before esp_wifi_start() can post its event.
LpToStart ==
  /\ lp_pc = "to_start"
  /\ conn_trial' = Trials /\ ophase' = "sta_start"
  /\ LpGoto("wifi_start")
  /\ UNCHANGED <<sta_inst, msgvars, drvvars, history>>

LpWifiStart ==
  /\ lp_pc = "wifi_start"
  /\ drv' = "started" /\ evq' = Append(evq, "start")
  /\ calls' = 0
  /\ LpGoto("idle")
  /\ UNCHANGED <<ctlvars, msgvars, hit>>

\* eh_wifi_feedback(): a disconnection stops the driver.
LpFeedback ==
  /\ lp_pc = "fb"
  /\ LpGoto(IF ophase = "sta_disconn" THEN "stop" ELSE "check")
  /\ UNCHANGED <<ctlvars, msgvars, drvvars, history>>

\* Stopping a connected driver disconnects it, which is an event too.
LpStop ==
  /\ lp_pc = "stop"
  /\ drv' = "off" /\ sta_inst' = FALSE
  /\ evq' = IF drv \in {"connecting", "linked", "ip"}
            THEN Append(evq, "disconnected") ELSE evq
  /\ LpGoto("to_init")
  /\ UNCHANGED <<ophase, conn_trial, msgvars, history>>

LpToInitNot ==
  /\ lp_pc = "to_init"
  /\ LpGoto("free")
  /\ UNCHANGED <<ctlvars, msgvars, drvvars, history>>
LpToInit ==
  /\ lp_pc = "to_init"
  /\ ophase' = "init"
  /\ LpGoto("free")
  /\ UNCHANGED <<conn_trial, sta_inst, msgvars, drvvars, history>>

\* In phase normal dw_sinsvc2_init() is called again, and refuses.
LpCheck ==
  /\ lp_pc = "check"
  /\ LpGoto("free")
  /\ UNCHANGED <<ctlvars, msgvars, drvvars, history>>

\* finally: the message is freed.
FreedNot == heap
Freed == heap - 1

LpFree ==
  /\ lp_pc = "free"
  /\ heap' = Freed
  /\ LpGoto("idle")
  /\ UNCHANGED <<ctlvars, handler, mq, drvvars, history>>

-----------------------------------------------------------------------------
(* The button: btn2_cb(), in the timer task.  A press while a message is   *)
(* in flight, or that finds the queue full, changes nothing.               *)

BtnPress ==
  /\ ~handler
  /\ Len(mq) < LooperLen
  /\ handler' = TRUE /\ mq' = Append(mq, "btn")
  /\ UNCHANGED <<ctlvars, heap, ev_pc, lp_pc, drvvars, history>>

-----------------------------------------------------------------------------
(* The driver and the network (external).                                  *)

Drv(from, to, es) ==
  /\ drv \in from /\ drv' = to
  /\ evq' = evq \o es
  /\ UNCHANGED <<ctlvars, msgvars, ev_pc, lp_pc, calls>>

DrvConnected == Drv({"connecting"}, "linked", <<"connected">>) /\ UNCHANGED hit
DrvGotIp == Drv({"linked"}, "ip", <<"got_ip">>) /\ UNCHANGED hit
DrvLost ==
  /\ Drv({"connecting", "linked", "ip"}, "started", <<"disconnected">>)
  /\ UNCHANGED hit
DrvLostLateIp ==
  /\ "late_ip" \in Faults /\ hit' = hit \cup {"late_ip"}
  /\ Drv({"linked"}, "started", <<"disconnected", "got_ip">>)

-----------------------------------------------------------------------------
EventTask ==
  \/ EvStart \/ EvConn \/ EvConnect \/ EvDisconnected \/ EvTrial \/ EvLost
  \/ EvConnected \/ EvGotIp \/ EvAlloc \/ EvAllocFail \/ EvSend

Looper ==
  \/ LpTake \/ LpBtn
  \/ LpStaInit \/ LpToCfg \/ LpStaCfg \/ LpToStart \/ LpWifiStart
  \/ LpFeedback \/ LpStop \/ LpToInit \/ LpCheck \/ LpFree

Driver == DrvConnected \/ DrvGotIp \/ DrvLost \/ DrvLostLateIp

Next == EventTask \/ Looper \/ BtnPress \/ Driver

Spec == Init /\ [][Next]_vars

\* Both tasks keep running; the user, the driver and the network owe nothing.
FairSpec == Spec /\ WF_vars(EventTask) /\ WF_vars(Looper)

-----------------------------------------------------------------------------
(* Properties.                                                             *)

FbSteps == {"fb", "stop", "to_init", "check", "free"}

\* The types of the variables.
TypeOK ==
  /\ ophase \in Phases /\ conn_trial \in 0..Trials /\ sta_inst \in BOOLEAN
  /\ handler \in BOOLEAN /\ mq \in Seq({"btn", "fb"}) /\ heap \in Nat
  /\ ev_pc \in {"idle", "conn", "connect", "trial", "lost", "post", "send"}
  /\ lp_pc \in FbSteps \cup {"idle", "btn", "sta_init", "to_cfg", "sta_cfg",
                             "to_start", "wifi_start"}
  /\ evq \in Seq(Events)
  /\ drv \in {"off", "inited", "started", "connecting", "linked", "ip"}
  /\ calls \in 0..Trials + 2 /\ hit \subseteq Faults

\* Positions of messages of kind k in the looper's queue.
Queued(k) == {i \in DOMAIN mq : mq[i] = k}

\* The button's one static message is never in the queue twice, and a press
\* is possible again exactly when the last one was taken up: its handler field
\* is set while it is queued or just taken, and at no other time.
ButtonOnce ==
  Cardinality(Queued("btn")) + (IF lp_pc = "btn" THEN 1 ELSE 0)
    = IF handler THEN 1 ELSE 0

\* No feedback message leaks and none is freed twice: those allocated are
\* being posted, in the queue, or with the looper.
FeedbackFreed ==
  heap = Cardinality(Queued("fb")) + (IF ev_pc = "send" THEN 1 ELSE 0)
           + (IF lp_pc \in FbSteps THEN 1 ELSE 0)

\* One press leads to at most one attempt and Trials more: a disconnection,
\* however late, never restarts the count.
AttemptsBounded == calls <= Trials + 1

\* Nothing is going on in the tasks or on the way to them.
Settled == ev_pc = "idle" /\ lp_pc = "idle" /\ evq = <<>> /\ mq = <<>>

\* The phase is what both tasks believe of the driver: once everything posted
\* is handled it is true, so a press connects exactly when the driver is off.
\* A message that finds no memory, or an address after the link is lost,
\* leaves a phase that nothing corrects: from then on nothing is promised.
PhaseTrue ==
  hit = {} /\ Settled =>
    /\ <<ophase, drv>> \in {<<"init", "off">>, <<"sta_conn", "connecting">>,
                           <<"sta_ip", "linked">>, <<"sta_normal", "ip">>}
    /\ sta_inst = (drv # "off")

\* A disconnection seen by the event task is acted upon: the looper stops the
\* driver and the next press can connect; unless a fault came before.
DisconnectionHandled == ophase = "sta_disconn" ~> ophase = "init" \/ hit # {}

\* A press is taken up.
PressTaken == handler ~> ~handler

\* eh_wifi_feedback() finds one of the two phases it is posted for, or it logs
\* "Sanity check unexpected wifi_ophase".
FeedbackExpected == lp_pc = "check" => ophase = "sta_normal"
=============================================================================
