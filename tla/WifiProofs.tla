----------------------------- MODULE WifiProofs ------------------------------
(***************************************************************************)
(* Safety of the Wi-Fi control, for any number of trials, length of the    *)
(* looper's queue and faults: the types and the messages, which need each  *)
(* other, then what the two tasks can be doing in each phase, from which   *)
(* the bound on attempts and the truth of the phase follow.                *)
(***************************************************************************)
EXTENDS Wifi, CommonLemmas

-----------------------------------------------------------------------------
(* The messages to the looper.                                             *)

Count(k) == Cardinality(Queued(k))
One(P) == IF P THEN 1 ELSE 0

Messages ==
  /\ Count("btn") + One(lp_pc = "btn") = One(handler)
  /\ heap = Count("fb") + One(ev_pc = "send") + One(lp_pc \in FbSteps)

LEMMA MessagesAre == Messages <=> ButtonOnce /\ FeedbackFreed
  BY DEF Messages, ButtonOnce, FeedbackFreed, Count, One

LEMMA CountType == TypeOK => Count("btn") \in Nat /\ Count("fb") \in Nat
<1> SUFFICES ASSUME TypeOK PROVE Count("btn") \in Nat /\ Count("fb") \in Nat
  OBVIOUS
<1>1. \A k : Queued(k) = Positions(mq, k)
  BY DEF Queued, Positions
<1>2. mq \in Seq({"btn", "fb"})
  BY DEF TypeOK
<1> QED
  BY <1>1, <1>2, PositionsFinite DEF Count

\* What a message sent or received does to the counts.
LEMMA CountAppend ==
  ASSUME TypeOK, NEW e \in {"btn", "fb"}, mq' = Append(mq, e)
  PROVE  /\ Count("btn")' = Count("btn") + One(e = "btn")
         /\ Count("fb")' = Count("fb") + One(e = "fb")
<1>1. \A k : Queued(k) = Positions(mq, k) /\ Queued(k)' = Positions(mq', k)
  BY DEF Queued, Positions
<1>2. mq \in Seq({"btn", "fb"})
  BY DEF TypeOK
<1> QED
  BY <1>1, <1>2, PositionsAppend DEF Count, One

LEMMA CountTail ==
  ASSUME TypeOK, mq # <<>>, mq' = Tail(mq)
  PROVE  /\ Count("btn") = Count("btn")' + One(Head(mq) = "btn")
         /\ Count("fb") = Count("fb")' + One(Head(mq) = "fb")
         /\ Count("btn")' \in Nat /\ Count("fb")' \in Nat
         /\ Head(mq) \in {"btn", "fb"}
<1>1. \A k : Queued(k) = Positions(mq, k) /\ Queued(k)' = Positions(mq', k)
  BY DEF Queued, Positions
<1>2. mq \in Seq({"btn", "fb"})
  BY DEF TypeOK
<1>3. Tail(mq) \in Seq({"btn", "fb"}) /\ Head(mq) \in {"btn", "fb"}
  BY <1>2, HeadTailProperties
<1>4. \A k : Cardinality(Positions(mq', k)) \in Nat
  BY <1>3, PositionsFinite
<1> QED
  BY <1>1, <1>2, <1>3, <1>4, PositionsTail DEF Count, One

\* A step that leaves the messages alone and neither starts nor ends the
\* handling of one.
LEMMA MessagesKept ==
  ASSUME Messages, UNCHANGED msgvars,
         (lp_pc = "btn") = (lp_pc' = "btn"),
         (ev_pc = "send") = (ev_pc' = "send"),
         (lp_pc \in FbSteps) = (lp_pc' \in FbSteps)
  PROVE  Messages'
BY DEF Messages, msgvars, Count, Queued, One

LEMMA EventMessages == TypeOK /\ Messages /\ EventTask => Messages'
<1> SUFFICES ASSUME TypeOK, Messages, EventTask PROVE Messages'
  OBVIOUS
<1> USE DEF EvGoto
<1>1. CASE EvStart \/ EvDisconnected \/ EvConnected \/ EvGotIp
  BY <1>1, MessagesKept
     DEF EvStart, EvDisconnected, EvConnected, EvGotIp, Take
<1>2. CASE EvConn \/ EvConnect \/ EvTrial \/ EvLost \/ EvAllocFail
  BY <1>2, MessagesKept DEF EvConn, EvConnect, EvTrial, EvLost, EvAllocFail
<1>3. CASE EvAlloc
  <2>1. heap' = heap + 1 /\ ev_pc = "post" /\ ev_pc' = "send"
        /\ UNCHANGED <<mq, handler, lp_pc>>
    BY <1>3 DEF EvAlloc
  <2>2. Count("btn")' = Count("btn") /\ Count("fb")' = Count("fb")
    BY <2>1 DEF Count, Queued
  <2> QED
    BY <2>1, <2>2, CountType DEF Messages, One
<1>4. CASE EvSend
  <2>1. /\ mq' = Append(mq, "fb") /\ ev_pc = "send" /\ ev_pc' = "idle"
        /\ UNCHANGED <<heap, handler, lp_pc>>
    BY <1>4 DEF EvSend
  <2>2. Count("btn")' = Count("btn") /\ Count("fb")' = Count("fb") + 1
    BY <2>1, CountAppend, CountType DEF One
  <2> QED
    BY <2>1, <2>2, CountType DEF Messages, One
<1> QED
  BY <1>1, <1>2, <1>3, <1>4 DEF EventTask

LEMMA LooperMessages == TypeOK /\ Messages /\ Looper => Messages'
<1> SUFFICES ASSUME TypeOK, Messages, Looper PROVE Messages'
  OBVIOUS
<1> USE DEF LpGoto, FbSteps
<1>1. CASE LpTake
  <2>1. /\ mq # <<>> /\ mq' = Tail(mq) /\ lp_pc = "idle" /\ lp_pc' = Head(mq)
        /\ UNCHANGED <<heap, handler, ev_pc>>
    BY <1>1 DEF LpTake
  <2>2. CASE Head(mq) = "btn"
    BY <2>1, <2>2, CountTail DEF Messages, One
  <2>3. CASE Head(mq) = "fb"
    BY <2>1, <2>3, CountTail DEF Messages, One
  <2> QED
    BY <2>1, <2>2, <2>3, CountTail
<1>2. CASE LpBtn
  <2>1. /\ lp_pc = "btn" /\ lp_pc' \in {"idle", "sta_init"} /\ handler' = FALSE
        /\ UNCHANGED <<mq, heap, ev_pc>>
    BY <1>2 DEF LpBtn, Handled
  <2>2. Count("btn")' = Count("btn") /\ Count("fb")' = Count("fb")
    BY <2>1 DEF Count, Queued
  <2> QED
    BY <2>1, <2>2, CountType DEF Messages, One
<1>3. CASE LpStaInit \/ LpToCfg \/ LpStaCfg \/ LpToStart \/ LpWifiStart
  BY <1>3, MessagesKept
     DEF LpStaInit, LpToCfg, LpStaCfg, LpToStart, LpWifiStart
<1>4. CASE LpFeedback \/ LpStop \/ LpToInit \/ LpCheck
  BY <1>4, MessagesKept DEF LpFeedback, LpStop, LpToInit, LpCheck
<1>5. CASE LpFree
  <2>1. /\ lp_pc = "free" /\ lp_pc' = "idle" /\ heap' = heap - 1
        /\ UNCHANGED <<mq, handler, ev_pc>>
    BY <1>5 DEF LpFree, Freed
  <2>2. Count("btn")' = Count("btn") /\ Count("fb")' = Count("fb")
    BY <2>1 DEF Count, Queued
  <2> QED
    BY <2>1, <2>2, CountType DEF Messages, One
<1> QED
  BY <1>1, <1>2, <1>3, <1>4, <1>5 DEF Looper

LEMMA MessagesStep == TypeOK /\ Messages /\ [Next]_vars => Messages'
<1> SUFFICES ASSUME TypeOK, Messages, [Next]_vars PROVE Messages'
  OBVIOUS
<1>1. CASE EventTask \/ Looper
  BY <1>1, EventMessages, LooperMessages
<1>2. CASE BtnPress
  <2>1. /\ mq' = Append(mq, "btn") /\ ~handler /\ handler'
        /\ UNCHANGED <<heap, ev_pc, lp_pc>>
    BY <1>2 DEF BtnPress
  <2>2. Count("btn")' = Count("btn") + 1 /\ Count("fb")' = Count("fb")
    BY <2>1, CountAppend, CountType DEF One
  <2> QED
    BY <2>1, <2>2, CountType DEF Messages, One
<1>3. CASE Driver
  BY <1>3, MessagesKept
     DEF Driver, DrvConnected, DrvGotIp, DrvLost, DrvLostLateIp, Drv
<1>4. CASE UNCHANGED vars
  BY <1>4, MessagesKept DEF vars
<1> QED
  BY <1>1, <1>2, <1>3, <1>4 DEF Next

-----------------------------------------------------------------------------
(* The types.  A message is freed only when there is one.                  *)

LEMMA EventTypes == TypeOK /\ EventTask => TypeOK'
<1> SUFFICES ASSUME TypeOK, EventTask PROVE TypeOK'
  OBVIOUS
<1> USE DEF TypeOK, EvGoto, msgvars, ctlvars, drvvars, history, Phases
<1>1. ASSUME NEW e, Take(e)
      PROVE  /\ evq' \in Seq(Events)
             /\ UNCHANGED <<drv, handler, mq, heap, sta_inst>>
  BY <1>1, HeadTailProperties DEF Take
<1>2. CASE EvStart
  BY <1>1, <1>2 DEF EvStart
<1>3. CASE EvDisconnected
  BY <1>1, <1>3 DEF EvDisconnected
<1>4. CASE EvConnected
  BY <1>1, <1>4 DEF EvConnected
<1>5. CASE EvGotIp
  BY <1>1, <1>5, TrialAssumption DEF EvGotIp
<1>6. CASE EvConn
  BY <1>6, TrialAssumption DEF EvConn
<1>7. CASE EvConnect
  <2>1. calls' \in 0..Trials + 2
    BY <1>7, TrialAssumption DEF EvConnect, Least
  <2> QED
    BY <1>7, <2>1 DEF EvConnect
<1>8. CASE EvTrial
  <2>1. conn_trial' \in 0..Trials
    BY <1>8, TrialAssumption DEF EvTrial, TrialAgain
  <2> QED
    BY <1>8, <2>1 DEF EvTrial
<1>9. CASE EvLost
  BY <1>9 DEF EvLost
<1>10. CASE EvAlloc
  BY <1>10 DEF EvAlloc
<1>11. CASE EvAllocFail
  BY <1>11 DEF EvAllocFail
<1>12. CASE EvSend
  BY <1>12, AppendProperties DEF EvSend
<1> QED
  BY <1>2, <1>3, <1>4, <1>5, <1>6, <1>7, <1>8, <1>9, <1>10, <1>11, <1>12
     DEF EventTask

LEMMA LooperTypes == TypeOK /\ Messages /\ Looper => TypeOK'
<1> SUFFICES ASSUME TypeOK, Messages, Looper PROVE TypeOK'
  OBVIOUS
<1> USE DEF TypeOK, LpGoto, FbSteps, msgvars, ctlvars, drvvars, history, Phases
<1>1. CASE LpTake
  BY <1>1, HeadTailProperties DEF LpTake
<1>2. CASE LpBtn
  BY <1>2 DEF LpBtn, Handled
<1>3. CASE LpStaInit
  BY <1>3 DEF LpStaInit
<1>4. CASE LpToCfg \/ LpStaCfg \/ LpFeedback \/ LpToInit \/ LpCheck
  BY <1>4 DEF LpToCfg, LpStaCfg, LpFeedback, LpToInit, LpCheck
<1>5. CASE LpToStart
  BY <1>5, TrialAssumption DEF LpToStart
<1>6. CASE LpWifiStart
  <2>1. evq' \in Seq(Events)
    BY <1>6, AppendProperties DEF LpWifiStart, Events
  <2> QED
    BY <1>6, <2>1, TrialAssumption DEF LpWifiStart
<1>7. CASE LpStop
  <2>1. evq' \in Seq(Events)
    BY <1>7, AppendProperties DEF LpStop, Events
  <2> QED
    BY <1>7, <2>1 DEF LpStop
<1>8. CASE LpFree
  <2>1. heap - 1 \in Nat
    BY <1>8, CountType DEF LpFree, Messages, One
  <2> QED
    BY <1>8, <2>1 DEF LpFree, Freed
<1> QED
  BY <1>1, <1>2, <1>3, <1>4, <1>5, <1>6, <1>7, <1>8 DEF Looper

LEMMA TypeStep == TypeOK /\ Messages /\ [Next]_vars => TypeOK'
<1> SUFFICES ASSUME TypeOK, Messages, [Next]_vars PROVE TypeOK'
  OBVIOUS
<1> USE DEF TypeOK, msgvars, ctlvars, drvvars, history
<1>1. CASE EventTask \/ Looper
  BY <1>1, EventTypes, LooperTypes
<1>2. CASE BtnPress
  BY <1>2, AppendProperties DEF BtnPress
<1>3. ASSUME NEW from, NEW to, NEW es \in Seq(Events), Drv(from, to, es),
             to \in {"off", "inited", "started", "connecting", "linked", "ip"},
             hit' \subseteq Faults
      PROVE  TypeOK'
  BY <1>3, ConcatProperties DEF Drv
<1>4. /\ <<"connected">> \in Seq(Events) /\ <<"got_ip">> \in Seq(Events)
      /\ <<"disconnected">> \in Seq(Events)
      /\ <<"disconnected", "got_ip">> \in Seq(Events)
  BY DEF Events
<1>5. CASE DrvConnected
  BY <1>3, <1>4, <1>5 DEF DrvConnected
<1>6. CASE DrvGotIp
  BY <1>3, <1>4, <1>6 DEF DrvGotIp
<1>7. CASE DrvLost
  BY <1>3, <1>4, <1>7 DEF DrvLost
<1>8. CASE DrvLostLateIp
  BY <1>3, <1>4, <1>8 DEF DrvLostLateIp
<1>9. CASE UNCHANGED vars
  BY <1>9 DEF vars
<1> QED
  BY <1>1, <1>2, <1>5, <1>6, <1>7, <1>8, <1>9 DEF Next, Driver

LEMMA MessagesInit == Init => TypeOK /\ Messages
<1> SUFFICES ASSUME Init PROVE TypeOK /\ Messages
  OBVIOUS
<1>1. <<>> \in Seq({"btn", "fb"}) /\ <<>> \in Seq(Events)
  BY EmptySeq
<1>2. 0 \in 0..Trials /\ 0 \in 0..Trials + 2
  BY TrialAssumption
<1>3. TypeOK
  BY <1>1, <1>2 DEF Init, TypeOK, Phases
<1>4. \A k : Queued(k) = {}
  <2>1. mq = <<>>
    BY DEF Init
  <2> QED
    BY <2>1 DEF Queued
<1>5. Count("btn") = 0 /\ Count("fb") = 0
  BY <1>4, FS_EmptySet DEF Count
<1>6. Messages
  BY <1>5 DEF Init, Messages, One, FbSteps
<1> QED
  BY <1>3, <1>6

LEMMA MessagesAlways == Spec => [](TypeOK /\ Messages)
  BY MessagesInit, MessagesStep, TypeStep, PTL DEF Spec

\* The variables keep their types; a message is never freed when none is
\* allocated.
THEOREM TypeCorrect == Spec => []TypeOK
  BY MessagesAlways, PTL

\* The button's static message is in the queue once at most, and its handler
\* field is set exactly while it is on its way.
THEOREM ButtonMessageOnce == Spec => []ButtonOnce
  BY MessagesAlways, MessagesAre, PTL

\* Every feedback message that was allocated is somewhere until it is freed.
THEOREM NoFeedbackLeaks == Spec => []FeedbackFreed
  BY MessagesAlways, MessagesAre, PTL
-----------------------------------------------------------------------------
(* A session: what the two tasks can be doing in each phase.  An address   *)
(* that came late may be left from the session before.                     *)

\* The event task is between events, or posting the feedback of the last.
Posting == ev_pc \in {"idle", "post", "send"}

\* The looper is not changing the phase: sta_cfg only in phase sta_cfg does.
AtRest == lp_pc \in {"idle", "btn", "sta_init", "sta_cfg", "fb", "check", "free"}

Late == "late_ip" \in hit
Leftover == evq = <<>> \/ (Late /\ evq = <<"got_ip">>)

InInit ==
  /\ Posting /\ Leftover
  /\ \/ drv = "off" /\ AtRest /\ lp_pc # "sta_cfg"
     \/ drv = "inited" /\ lp_pc = "to_cfg"

InCfg ==
  Posting /\ Leftover /\ drv = "inited" /\ lp_pc \in {"sta_cfg", "to_start"}

\* The event "start" is handled once, before anything is connected.
StartComing == evq = <<"start">> \/ (Late /\ evq = <<"got_ip", "start">>)
InStart ==
  \/ Posting /\ Leftover /\ drv = "inited" /\ lp_pc = "wifi_start"
  \/ /\ AtRest /\ drv = "started" /\ calls = 0
     /\ (Posting /\ StartComing) \/ (ev_pc = "conn" /\ evq = <<>>)

\* The driver's progress is in the events, in order; an attempt is counted
\* from the time the event task decides on it.
InConn ==
  /\ AtRest
  /\ \/ ev_pc = "idle" /\ drv = "connecting" /\ evq = <<>>
     \/ ev_pc = "idle" /\ drv = "linked" /\ evq = <<"connected">>
     \/ ev_pc = "idle" /\ drv = "ip" /\ evq = <<"connected", "got_ip">>
     \/ /\ ev_pc = "idle" /\ drv = "started"
        /\ \/ evq = <<"disconnected">>
           \/ evq = <<"connected", "disconnected">>
           \/ evq = <<"connected", "got_ip", "disconnected">>
           \/ Late /\ evq = <<"connected", "disconnected", "got_ip">>
     \/ ev_pc \in {"connect", "trial", "lost"} /\ drv = "started" /\ evq = <<>>
  /\ calls + conn_trial + One(ev_pc = "connect") <= Trials + 1

InIp ==
  /\ AtRest
  /\ \/ ev_pc = "idle" /\ drv = "linked" /\ evq = <<>>
     \/ ev_pc = "idle" /\ drv = "ip" /\ evq = <<"got_ip">>
     \/ /\ ev_pc = "idle" /\ drv = "started"
        /\ \/ evq = <<"disconnected">>
           \/ evq = <<"got_ip", "disconnected">>
           \/ Late /\ evq = <<"disconnected", "got_ip">>
     \/ ev_pc = "lost" /\ drv = "started" /\ Leftover

\* After an address that came late the phase stays normal whatever the looper
\* was about to do with the driver.
Stray ==
  /\ Late /\ Posting
  /\ \/ drv = "off" /\ evq = <<>> /\ (AtRest \/ lp_pc = "to_init")
     \/ /\ drv = "inited" /\ evq = <<>>
        /\ AtRest \/ lp_pc \in {"to_cfg", "to_start", "wifi_start"}
     \/ drv = "started" /\ evq = <<>> /\ (AtRest \/ lp_pc = "stop")
     \/ drv = "started" /\ evq = <<"start">> /\ AtRest
InNormal ==
  \/ AtRest /\ drv = "ip" /\ Posting /\ evq = <<>>
  \/ AtRest /\ drv = "started" /\ Posting /\ evq = <<"disconnected">>
  \/ AtRest /\ drv = "started" /\ ev_pc = "lost" /\ evq = <<>>
  \/ Stray

InDisconn ==
  /\ Posting /\ Leftover
  /\ \/ drv = "started" /\ (AtRest \/ lp_pc = "stop")
     \/ drv = "off" /\ lp_pc = "to_init"

Session ==
  /\ sta_inst = (drv # "off") /\ calls <= Trials + 1
  /\ \/ ophase = "init" /\ InInit
     \/ ophase = "sta_cfg" /\ InCfg
     \/ ophase = "sta_start" /\ InStart
     \/ ophase = "sta_conn" /\ InConn
     \/ ophase = "sta_ip" /\ InIp
     \/ ophase = "sta_normal" /\ InNormal
     \/ ophase = "sta_disconn" /\ InDisconn

\* Unless there was no memory for it, a message that makes the looper stop the
\* driver is on its way whenever the phase is sta_disconn.
StopComing ==
  hit = {} /\ ophase = "sta_disconn" /\ drv = "started" =>
    ev_pc \in {"post", "send"} \/ Count("fb") > 0 \/ lp_pc \in {"fb", "stop"}

\* What the queues named above become when an event is taken or posted.
LEMMA EventTaken ==
  /\ Head(<<"start">>) = "start" /\ Tail(<<"start">>) = <<>>
  /\ Head(<<"connected">>) = "connected" /\ Tail(<<"connected">>) = <<>>
  /\ Head(<<"got_ip">>) = "got_ip" /\ Tail(<<"got_ip">>) = <<>>
  /\ Head(<<"disconnected">>) = "disconnected" /\ Tail(<<"disconnected">>) = <<>>
  /\ Head(<<"got_ip", "start">>) = "got_ip"
  /\ Tail(<<"got_ip", "start">>) = <<"start">>
  /\ Head(<<"connected", "got_ip">>) = "connected"
  /\ Tail(<<"connected", "got_ip">>) = <<"got_ip">>
  /\ Head(<<"connected", "disconnected">>) = "connected"
  /\ Tail(<<"connected", "disconnected">>) = <<"disconnected">>
  /\ Head(<<"got_ip", "disconnected">>) = "got_ip"
  /\ Tail(<<"got_ip", "disconnected">>) = <<"disconnected">>
  /\ Head(<<"disconnected", "got_ip">>) = "disconnected"
  /\ Tail(<<"disconnected", "got_ip">>) = <<"got_ip">>
  /\ Head(<<"connected", "got_ip", "disconnected">>) = "connected"
  /\ Tail(<<"connected", "got_ip", "disconnected">>)
       = <<"got_ip", "disconnected">>
  /\ Head(<<"connected", "disconnected", "got_ip">>) = "connected"
  /\ Tail(<<"connected", "disconnected", "got_ip">>)
       = <<"disconnected", "got_ip">>
  OBVIOUS

LEMMA EventPosted ==
  /\ \A e : <<>> \o <<e>> = <<e>> /\ Append(<<>>, e) = <<e>>
  /\ <<>> \o <<"disconnected", "got_ip">> = <<"disconnected", "got_ip">>
  /\ <<"connected">> \o <<"got_ip">> = <<"connected", "got_ip">>
  /\ <<"connected">> \o <<"disconnected">> = <<"connected", "disconnected">>
  /\ <<"got_ip">> \o <<"disconnected">> = <<"got_ip", "disconnected">>
  /\ Append(<<"got_ip">>, "start") = <<"got_ip", "start">>
  /\ <<"connected", "got_ip">> \o <<"disconnected">>
       = <<"connected", "got_ip", "disconnected">>
  /\ <<"connected">> \o <<"disconnected", "got_ip">>
       = <<"connected", "disconnected", "got_ip">>
<1>1. /\ \A e : <<>> \o <<e>> = <<e>> /\ Append(<<>>, e) = <<e>>
      /\ <<>> \o <<"disconnected", "got_ip">> = <<"disconnected", "got_ip">>
  OBVIOUS
<1> QED
  BY <1>1, ConcatPair, ConcatTriple, Zenon

LEMMA EventSession == TypeOK /\ Session /\ EventTask => Session'
<1> SUFFICES ASSUME TypeOK, Session, EventTask PROVE Session'
  OBVIOUS
<1> USE DEF EvGoto, Session, InInit, InCfg, InStart, InConn, InIp, InNormal,
            InDisconn, Stray, Posting, AtRest, Leftover, Late, StartComing
<1> USE DEF ctlvars, msgvars, drvvars, history
<1>1. CASE EvStart
  BY <1>1, EventTaken DEF EvStart, Take
<1>2. CASE EvConn
  BY <1>2, TrialAssumption DEF EvConn, One
<1>3. CASE EvConnect
  BY <1>3, TrialAssumption DEF EvConnect, One, Least, TypeOK
<1>4. CASE EvDisconnected
  BY <1>4, EventTaken DEF EvDisconnected, Take, One
<1>5. CASE EvTrial
  BY <1>5, TrialAssumption DEF EvTrial, TrialAgain, One, TypeOK
<1>6. CASE EvLost
  BY <1>6 DEF EvLost
<1>7. CASE EvConnected
  BY <1>7, EventTaken DEF EvConnected, Take
<1>8. CASE EvGotIp
  BY <1>8, EventTaken DEF EvGotIp, Take
<1>9. CASE EvAlloc
  BY <1>9 DEF EvAlloc
<1>10. CASE EvAllocFail
  BY <1>10 DEF EvAllocFail
<1>11. CASE EvSend
  BY <1>11 DEF EvSend
<1> QED
  BY <1>1, <1>2, <1>3, <1>4, <1>5, <1>6, <1>7, <1>8, <1>9, <1>10, <1>11
     DEF EventTask

LEMMA LooperSession == TypeOK /\ Session /\ Looper => Session'
<1> SUFFICES ASSUME TypeOK, Session, Looper PROVE Session'
  OBVIOUS
<1> USE DEF LpGoto, Session, InInit, InCfg, InStart, InConn, InIp, InNormal,
            InDisconn, Stray, Posting, AtRest, Leftover, Late, StartComing
<1> USE DEF ctlvars, msgvars, drvvars, history
<1>1. CASE LpTake
  <2>1. Head(mq) \in {"btn", "fb"}
    BY <1>1, HeadTailProperties DEF LpTake, TypeOK
  <2> QED
    BY <1>1, <2>1 DEF LpTake
<1>2. CASE LpBtn
  BY <1>2 DEF LpBtn
<1>3. CASE LpStaInit
  BY <1>3 DEF LpStaInit
<1>4. CASE LpToCfg
  BY <1>4 DEF LpToCfg
<1>5. CASE LpStaCfg
  BY <1>5 DEF LpStaCfg
<1>6. CASE LpToStart
  BY <1>6 DEF LpToStart
<1>7. CASE LpWifiStart
  <2>1. /\ lp_pc' = "idle" /\ drv' = "started" /\ calls' = 0
        /\ evq' = Append(evq, "start") /\ UNCHANGED <<ophase, ev_pc, sta_inst, hit>>
    BY <1>7 DEF LpWifiStart
  <2>2. CASE ophase = "sta_start" /\ Posting /\ Leftover /\ drv = "inited"
    <3>1. StartComing'
      BY <2>1, <2>2, EventPosted
    <3> QED
      BY <2>1, <2>2, <3>1, TrialAssumption
  <2>3. CASE ophase = "sta_normal" /\ Stray /\ drv = "inited"
    <3>1. Stray'
      BY <2>1, <2>3, EventPosted
    <3> QED
      BY <2>1, <2>3, <3>1, TrialAssumption
  <2> QED
    BY <1>7, <2>2, <2>3 DEF LpWifiStart
<1>8. CASE LpFeedback
  BY <1>8 DEF LpFeedback
<1>9. CASE LpStop
  BY <1>9 DEF LpStop
<1>10. CASE LpToInit
  BY <1>10 DEF LpToInit
<1>11. CASE LpCheck
  BY <1>11 DEF LpCheck
<1>12. CASE LpFree
  BY <1>12 DEF LpFree
<1> QED
  BY <1>1, <1>2, <1>3, <1>4, <1>5, <1>6, <1>7, <1>8, <1>9, <1>10, <1>11, <1>12
     DEF Looper

LEMMA SessionStep == TypeOK /\ Session /\ [Next]_vars => Session'
<1> SUFFICES ASSUME TypeOK, Session, [Next]_vars PROVE Session'
  OBVIOUS
<1>0. CASE EventTask \/ Looper
  BY <1>0, EventSession, LooperSession
<1> USE DEF Session, InInit, InCfg, InStart, InConn, InIp, InNormal,
            InDisconn, Stray, Posting, AtRest, Leftover, Late, StartComing
<1> USE DEF ctlvars, msgvars, drvvars, history
<1>1. CASE BtnPress
  BY <1>1 DEF BtnPress
<1>2. CASE DrvConnected
  BY <1>2 DEF DrvConnected, Drv
<1>3. CASE DrvGotIp
  BY <1>3, EventPosted DEF DrvGotIp, Drv
<1>4. CASE DrvLost
  BY <1>4, EventPosted DEF DrvLost, Drv
<1>5. CASE DrvLostLateIp
  BY <1>5, EventPosted DEF DrvLostLateIp, Drv
<1>6. CASE UNCHANGED vars
  BY <1>6 DEF vars
<1> QED
  BY <1>0, <1>1, <1>2, <1>3, <1>4, <1>5, <1>6 DEF Next, Driver

LEMMA StopStep ==
  TypeOK /\ Session /\ StopComing /\ [Next]_vars => StopComing'
<1> SUFFICES ASSUME TypeOK, Session, StopComing, [Next]_vars,
                    hit' = {}, ophase' = "sta_disconn", drv' = "started"
             PROVE  \/ ev_pc' \in {"post", "send"} \/ Count("fb")' > 0
                    \/ lp_pc' \in {"fb", "stop"}
  BY DEF StopComing
<1> DEFINE Coming == \/ ev_pc \in {"post", "send"} \/ Count("fb") > 0
                     \/ lp_pc \in {"fb", "stop"}
<1>1. mq' = mq => Count("fb")' = Count("fb")
  BY DEF Count, Queued
<1>2. ASSUME hit = hit', ophase = ophase', drv = drv', mq = mq',
             ev_pc \in {"post", "send"} => ev_pc' \in {"post", "send"},
             lp_pc \in {"fb", "stop"} => lp_pc' \in {"fb", "stop"}
      PROVE  Coming'
  BY <1>1, <1>2 DEF StopComing
<1> USE DEF ctlvars, msgvars, drvvars, history, EvGoto, LpGoto
<1>3. CASE EvStart \/ EvDisconnected \/ EvConnected \/ EvGotIp
  BY <1>2, <1>3 DEF EvStart, EvDisconnected, EvConnected, EvGotIp, Take
<1>4. CASE EvConn \/ EvConnect \/ EvTrial \/ EvLost
  BY <1>2, <1>4 DEF EvConn, EvConnect, EvTrial, EvLost
<1>5. CASE EvAlloc \/ EvAllocFail
  BY <1>5 DEF EvAlloc, EvAllocFail
<1>6. CASE EvSend
  <2>1. Count("fb")' = Count("fb") + 1 /\ Count("fb") \in Nat
    BY <1>6, CountAppend, CountType DEF EvSend, One
  <2> QED
    BY <2>1
<1>7. CASE LpTake
  <2>1. /\ Count("fb") = Count("fb")' + One(Head(mq) = "fb")
        /\ Count("fb")' \in Nat
        /\ lp_pc = "idle" /\ lp_pc' = Head(mq)
        /\ UNCHANGED <<hit, ophase, drv, ev_pc>>
    BY <1>7, CountTail DEF LpTake
  <2>2. Coming
    BY <2>1 DEF StopComing
  <2> QED
    BY <2>1, <2>2 DEF One
<1>8. CASE LpBtn \/ LpToCfg \/ LpStaCfg \/ LpToStart \/ LpCheck \/ LpFree
  BY <1>2, <1>8 DEF LpBtn, LpToCfg, LpStaCfg, LpToStart, LpCheck, LpFree
<1>9. CASE LpStaInit
  BY <1>2, <1>9 DEF LpStaInit
<1>10. CASE LpFeedback
  BY <1>10 DEF LpFeedback
<1>11. CASE LpStop \/ LpToInit
  BY <1>11 DEF LpStop, LpToInit
<1>12. CASE LpWifiStart
  BY <1>12 DEF LpWifiStart, Session, InDisconn, AtRest
<1>13. CASE BtnPress
  <2>1. Count("fb")' = Count("fb") /\ UNCHANGED <<hit, ophase, drv, ev_pc, lp_pc>>
    BY <1>13, CountAppend, CountType DEF BtnPress, One
  <2> QED
    BY <2>1 DEF StopComing
<1>14. CASE Driver
  BY <1>14 DEF Driver, DrvConnected, DrvGotIp, DrvLost, DrvLostLateIp, Drv,
               Session, InDisconn
<1>15. CASE UNCHANGED vars
  BY <1>2, <1>15 DEF vars
<1> QED
  BY <1>3, <1>4, <1>5, <1>6, <1>7, <1>8, <1>9, <1>10, <1>11, <1>12, <1>13,
     <1>14, <1>15 DEF Next, EventTask, Looper

LEMMA SessionInit == Init => Session /\ StopComing
<1> SUFFICES ASSUME Init PROVE Session /\ StopComing
  OBVIOUS
<1>1. ophase = "init" /\ InInit
  BY DEF Init, InInit, Posting, Leftover, AtRest
<1>2. sta_inst = (drv # "off")
  BY DEF Init
<1>3. calls <= Trials + 1
  BY TrialAssumption DEF Init
<1> QED
  BY <1>1, <1>2, <1>3 DEF Session, StopComing

LEMMA SessionAlways == Spec => [](TypeOK /\ Messages /\ Session /\ StopComing)
  BY MessagesInit, MessagesStep, TypeStep, SessionInit, SessionStep, StopStep, PTL
  DEF Spec

\* One press leads to Trials + 1 connects at most, whatever is late and
\* whenever memory runs out: an attempt not yet made is paid for by conn_trial
\* in phase sta_conn, and "start" is handled before any was made.
THEOREM AttemptsAreBounded == Spec => []AttemptsBounded
<1>1. Session => AttemptsBounded
  BY DEF Session, AttemptsBounded
<1> QED
  BY <1>1, SessionAlways, PTL

\* Once all that was posted is handled the phase is what the driver does, if
\* no fault happened.
THEOREM PhaseIsTrue == Spec => []PhaseTrue
<1>1. TypeOK /\ Session /\ StopComing => PhaseTrue
  <2> SUFFICES ASSUME TypeOK, Session, StopComing, hit = {}, Settled
               PROVE  /\ <<ophase, drv>> \in
                           {<<"init", "off">>, <<"sta_conn", "connecting">>,
                            <<"sta_ip", "linked">>, <<"sta_normal", "ip">>}
                      /\ sta_inst = (drv # "off")
    BY DEF PhaseTrue
  <2>1. Count("fb") = 0
    <3>1. Queued("fb") = {}
      BY DEF Settled, Queued
    <3> QED
      BY <3>1, FS_EmptySet DEF Count
  <2>2. ~(ophase = "sta_disconn" /\ drv = "started")
    BY <2>1 DEF StopComing, Settled
  <2>3. \/ ophase = "init" /\ drv = "off"
        \/ ophase = "sta_conn" /\ drv = "connecting"
        \/ ophase = "sta_ip" /\ drv = "linked"
        \/ ophase = "sta_normal" /\ drv = "ip"
    BY <2>2, EventTaken
       DEF Settled, Session, InInit, InCfg, InStart, InConn, InIp, InNormal,
           InDisconn, Stray, Late, StartComing, Leftover
  <2> QED
    BY <2>3 DEF Session
<1> QED
  BY <1>1, SessionAlways, PTL
=============================================================================
