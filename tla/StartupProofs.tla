---------------------------- MODULE StartupProofs ----------------------------
(***************************************************************************)
(* Safety of start and restart, for any flash, length of the looper's      *)
(* queue and bounds: the types, the button's message marked while it is in *)
(* flight, the service's memory cleared and its task started once unless   *)
(* ready was lost, nothing used before it is there.                        *)
(***************************************************************************)
EXTENDS Startup, CommonLemmas

-----------------------------------------------------------------------------
(* The types.                                                              *)

LEMMA ResetType ==
  ASSUME TypeOK, Reset, fails' \in 0..MaxFails, restarts' \in 0..MaxRestarts
  PROVE  TypeOK'
<1>1. <<>> \in Seq({"btn", "fb"}) /\ Len(<<>>) = 0 /\ 0 <= LooperLen
  BY EmptySeq, LooperAssumption
<1>2. /\ nvs' \in {"ok", "full"} /\ ips' \in 0..MaxIps
  BY DEF TypeOK, Reset
<1>3. /\ word' \in Word /\ reg' \in [Owner -> Word] /\ tk' \in [Tasks -> TkSteps]
  BY DEF Reset, Word, Zero, TkSteps
<1> QED
  BY <1>1, <1>2, <1>3 DEF TypeOK, Reset, MnSteps, LpSteps

LEMMA InitType == Init => TypeOK
<1> SUFFICES ASSUME Init PROVE TypeOK
  OBVIOUS
<1>1. <<>> \in Seq({"btn", "fb"}) /\ Len(<<>>) = 0 /\ 0 <= LooperLen
  BY EmptySeq, LooperAssumption
<1>2. /\ MaxIps \in 0..MaxIps /\ MaxFails \in 0..MaxFails
      /\ MaxRestarts \in 0..MaxRestarts
  BY BoundAssumption
<1>3. nvs \in {"ok", "full"}
  BY NvsAssumption DEF Init
<1> QED
  BY <1>1, <1>2, <1>3 DEF Init, TypeOK, Word, Zero, MnSteps, LpSteps, TkSteps

\* A call that fails uses up one of those that may.
LEMMA FailType == TypeOK /\ Fail => fails' \in 0..MaxFails
  BY BoundAssumption DEF TypeOK, Fail

LEMMA AppMainType == TypeOK /\ AppMain => TypeOK'
<1> SUFFICES ASSUME TypeOK, AppMain PROVE TypeOK'
  OBVIOUS
<1> USE DEF MnGoto, MnSame, lpvars, svcvars, budget, pcs, appvars
<1>1. CASE MnNvs
  BY <1>1 DEF MnNvs, TypeOK, MnSteps
<1>2. CASE MnErase
  <2>1. CASE logger
    BY <1>2, <2>1 DEF MnErase, TypeOK, MnSteps
  <2>2. CASE ~logger
    <3>1. Reset /\ UNCHANGED <<fails, restarts>>
      BY <1>2, <2>2 DEF MnErase
    <3>2. fails' \in 0..MaxFails /\ restarts' \in 0..MaxRestarts
      BY <3>1 DEF TypeOK
    <3> QED
      BY <3>1, <3>2, ResetType
  <2> QED
    BY <2>1, <2>2
<1>3. CASE MnLogger
  <2>1. CASE Fail /\ Reset /\ UNCHANGED restarts
    <3>1. restarts' \in 0..MaxRestarts
      BY <2>1 DEF TypeOK
    <3> QED
      BY <2>1, <3>1, FailType, ResetType
  <2>2. CASE logger' = TRUE /\ MnGoto("btn") /\ MnSame /\ UNCHANGED nvs
    BY <2>2 DEF TypeOK, MnSteps
  <2> QED
    BY <1>3, <2>1, <2>2 DEF MnLogger
<1>4. CASE MnBtn
  BY <1>4 DEF MnBtn, TypeOK, MnSteps
<1>5. CASE MnNoSize
  BY <1>5, FailType DEF MnNoSize, TypeOK, MnSteps
<1>6. CASE MnLooper
  BY <1>6, FailType DEF MnLooper, TypeOK, MnSteps
<1>7. CASE MnReady
  BY <1>7 DEF MnReady, TypeOK, MnSteps
<1>8. CASE MnRun
  BY <1>8, FailType DEF MnRun, TypeOK, MnSteps, LpSteps
<1> QED
  BY <1>1, <1>2, <1>3, <1>4, <1>5, <1>6, <1>7, <1>8 DEF AppMain

LEMMA LooperType == TypeOK /\ Looper => TypeOK'
<1> SUFFICES ASSUME TypeOK, Looper PROVE TypeOK'
  OBVIOUS
<1> USE DEF LpGoto, LpSame, lpvars, appvars, svcvars, budget
<1>1. \A id : Kept(id) \in Nat
  BY DEF Kept
<1>2. Failed \in LpSteps
  BY DEF Failed, LpSteps
<1>3. CASE LpSpi
  <2>1. leaked' \in Nat
    BY <1>1, <1>3 DEF LpSpi, TypeOK
  <2> QED
    BY <1>3, <2>1, FailType DEF LpSpi, TypeOK, LpSteps
<1>4. CASE LpExit
  BY <1>4, ResetType DEF LpExit, TypeOK
<1>5. CASE InitCheck
  BY <1>2, <1>5 DEF InitCheck, TypeOK, LpSteps
<1>6. CASE InitAlloc
  <2>1. leaked' \in Nat /\ word' \in Word
    BY <1>6 DEF InitAlloc, TypeOK, Word, Zero
  <2> QED
    BY <1>2, <1>6, <2>1, FailType DEF InitAlloc, TypeOK, LpSteps
<1>7. CASE InitSems
  <2>1. leaked' \in Nat
    BY <1>1, <1>7 DEF InitSems, TypeOK
  <2> QED
    BY <1>2, <1>7, <2>1, FailType DEF InitSems, TypeOK, LpSteps
<1>8. CASE InitRun
  <2>1. leaked' \in Nat
    BY <1>1, <1>8 DEF InitRun, TypeOK
  <2>2. tk' \in [Tasks -> TkSteps]
    BY <1>8 DEF InitRun, TypeOK, TkSteps
  <2> QED
    BY <1>2, <1>8, <2>1, <2>2, FailType DEF InitRun, TypeOK, LpSteps
<1>9. CASE InitLoad
  BY <1>9 DEF InitLoad, TypeOK, LpSteps
<1>10. CASE InitStore
  <2>1. word' \in Word /\ reg' \in [Owner -> Word]
    BY <1>10 DEF InitStore, TypeOK, Word, Zero, Owner
  <2> QED
    BY <1>10, <2>1 DEF InitStore, TypeOK, LpSteps
<1>11. CASE LpTake
  <2>1. mq' \in Seq({"btn", "fb"}) /\ Len(mq') <= LooperLen
    BY <1>11, HeadTailProperties, LenProperties, LooperAssumption
       DEF LpTake, TypeOK
  <2> QED
    BY <1>11, <2>1 DEF LpTake, TypeOK, LpSteps
<1> QED
  BY <1>3, <1>4, <1>5, <1>6, <1>7, <1>8, <1>9, <1>10, <1>11 DEF Looper, Service

LEMMA TaskType == ASSUME NEW t \in Tasks PROVE TypeOK /\ Task(t) => TypeOK'
<1> SUFFICES ASSUME TypeOK, Task(t) PROVE TypeOK'
  OBVIOUS
<1> USE DEF TkSame, lpvars, appvars, budget, pcs
<1>1. ASSUME NEW from, NEW to \in TkSteps, TkLoad(t, from, to) PROVE TypeOK'
  BY <1>1 DEF TkLoad, TypeOK
<1>2. ASSUME NEW from, NEW l \in BOOLEAN, NEW to \in TkSteps,
             TkStore(t, from, l, to)
      PROVE  TypeOK'
  <2>1. word' \in Word /\ reg' \in [Owner -> Word] /\ lost' \in BOOLEAN
    BY <1>2 DEF TkStore, TypeOK, Word, Zero, Owner
  <2> QED
    BY <1>2, <2>1 DEF TkStore, TypeOK
<1>3. CASE TkTop(t) \/ TkAddr(t) \/ TkPoll(t)
  BY <1>3 DEF TkTop, TkAddr, TkPoll, TypeOK, TkSteps
<1>4. CASE TkClose(t) \/ TkOpened(t) \/ TkError(t)
  BY <1>1, <1>4 DEF TkClose, TkOpened, TkError, TkSteps
<1>5. CASE TkClosed(t) \/ TkLaunched(t) \/ TkErrored(t)
  BY <1>2, <1>5 DEF TkClosed, TkLaunched, TkErrored, TkSteps
<1> QED
  BY <1>3, <1>4, <1>5 DEF Task

LEMMA NextType == TypeOK /\ [Next]_vars => TypeOK'
<1> SUFFICES ASSUME TypeOK, [Next]_vars PROVE TypeOK'
  OBVIOUS
<1> USE DEF lpvars, appvars, svcvars, budget, pcs
<1>1. ASSUME NEW e \in {"btn", "fb"}, Len(mq) < LooperLen
      PROVE  Append(mq, e) \in Seq({"btn", "fb"}) /\ Len(Append(mq, e)) <= LooperLen
  <2>1. Len(mq) \in Nat /\ Len(Append(mq, e)) = Len(mq) + 1
    BY AppendProperties, LenProperties DEF TypeOK
  <2> QED
    BY <1>1, <2>1, AppendProperties, LooperAssumption DEF TypeOK
<1>2. CASE BtnPress
  BY <1>2 DEF BtnPress, TypeOK
<1>3. CASE BtnSend
  BY <1>1, <1>3 DEF BtnSend, TypeOK
<1>4. CASE GotIp
  <2>1. ips' \in 0..MaxIps
    BY <1>4, BoundAssumption DEF GotIp, TypeOK
  <2> QED
    BY <1>4, <2>1 DEF GotIp, TypeOK
<1>5. CASE EvSend
  BY <1>1, <1>5 DEF EvSend, TypeOK
<1>6. CASE PowerLoss
  <2>1. restarts' \in 0..MaxRestarts
    BY <1>6, BoundAssumption DEF PowerLoss, TypeOK
  <2> QED
    BY <1>6, <2>1, ResetType DEF PowerLoss, TypeOK
<1>7. CASE UNCHANGED vars
  BY <1>7 DEF vars, TypeOK
<1> QED
  BY <1>2, <1>3, <1>4, <1>5, <1>6, <1>7, AppMainType, LooperType, TaskType
     DEF Next

\* The variables keep their types; the looper's queue never exceeds its
\* length.
THEOREM TypeCorrect == Spec => []TypeOK
  BY InitType, NextType, PTL DEF Spec

-----------------------------------------------------------------------------
(* The button's message.                                                   *)

Count == Cardinality(Queued("btn"))

LEMMA CountType == TypeOK => Count \in Nat
<1> SUFFICES ASSUME TypeOK PROVE Count \in Nat
  OBVIOUS
<1>1. Queued("btn") = Positions(mq, "btn") /\ mq \in Seq({"btn", "fb"})
  BY DEF Queued, Positions, TypeOK
<1> QED
  BY <1>1, PositionsFinite DEF Count

\* What a message sent or received does to the count.
LEMMA CountAppend ==
  ASSUME TypeOK, NEW e \in {"btn", "fb"}, mq' = Append(mq, e)
  PROVE  Count' = Count + (IF e = "btn" THEN 1 ELSE 0)
<1>1. /\ Queued("btn") = Positions(mq, "btn") /\ mq \in Seq({"btn", "fb"})
      /\ Queued("btn")' = Positions(mq', "btn")
  BY DEF Queued, Positions, TypeOK
<1> QED
  BY <1>1, PositionsAppend DEF Count

LEMMA CountTail ==
  ASSUME TypeOK, mq # <<>>, mq' = Tail(mq)
  PROVE  /\ Head(mq) = "btn" => Count = Count' + 1
         /\ Head(mq) # "btn" => Count = Count'
         /\ Count' \in Nat
<1>1. /\ Queued("btn") = Positions(mq, "btn") /\ mq \in Seq({"btn", "fb"})
      /\ Queued("btn")' = Positions(mq', "btn")
  BY DEF Queued, Positions, TypeOK
<1>2. Tail(mq) \in Seq({"btn", "fb"})
  BY <1>1, HeadTailProperties
<1>3. Count' \in Nat
  BY <1>1, <1>2, PositionsFinite DEF Count
<1>4. Count = Count' + (IF Head(mq) = "btn" THEN 1 ELSE 0)
  BY <1>1, PositionsTail DEF Count
<1>5. Head(mq) = "btn" => Count = Count' + 1
  BY <1>4
<1>6. Head(mq) # "btn" => Count = Count' + 0
  BY <1>4
<1> QED
  BY <1>3, <1>5, <1>6

LEMMA NothingQueued ==
  ASSUME mq = <<>>, bt = "idle", handler = FALSE PROVE PressInFlight
<1>1. Queued("btn") = {}
  BY DEF Queued
<1> QED
  BY <1>1, FS_EmptySet DEF PressInFlight

LEMMA ResetPress == Reset => PressInFlight'
<1> SUFFICES ASSUME Reset PROVE PressInFlight'
  OBVIOUS
<1>1. Queued("btn")' = {}
  BY DEF Reset, Queued
<1>2. Count' = 0
  BY <1>1, FS_EmptySet DEF Count
<1>3. (bt' = "send") = FALSE /\ handler' = FALSE
  BY DEF Reset
<1> HIDE DEF Reset
<1> QED
  BY <1>2, <1>3 DEF PressInFlight, Count

\* What the sum says: one place at most, and none while nothing is marked.
LEMMA PressMeans ==
  TypeOK /\ PressInFlight =>
    /\ Count # 0 => Count = 1 /\ bt # "send"
    /\ bt = "send" => Count = 0 /\ handler = TRUE
    /\ handler = FALSE => Count = 0
<1> SUFFICES ASSUME TypeOK, PressInFlight
             PROVE  /\ Count # 0 => Count = 1 /\ bt # "send"
                    /\ bt = "send" => Count = 0 /\ handler = TRUE
                    /\ handler = FALSE => Count = 0
  OBVIOUS
<1>1. Count \in Nat
  BY CountType
<1>2. CASE handler = TRUE
  <2>1. Count + (IF bt = "send" THEN 1 ELSE 0) = 1
    BY <1>2 DEF PressInFlight, Count
  <2> QED
    BY <1>1, <1>2, <2>1
<1>3. CASE handler = FALSE
  <2>1. Count + (IF bt = "send" THEN 1 ELSE 0) = 0
    BY <1>3 DEF PressInFlight, Count
  <2> QED
    BY <1>1, <1>3, <2>1
<1> QED
  BY <1>2, <1>3 DEF TypeOK

\* A step that leaves the queue and the button alone.
LEMMA PressKept ==
  ASSUME PressInFlight, UNCHANGED <<mq, bt, handler>> PROVE PressInFlight'
BY DEF PressInFlight, Queued

LEMMA PressStep == TypeOK /\ PressInFlight /\ [Next]_vars => PressInFlight'
<1> SUFFICES ASSUME TypeOK, PressInFlight, [Next]_vars PROVE PressInFlight'
  OBVIOUS
<1> USE DEF lpvars, appvars, svcvars, budget, pcs
<1>1. CASE AppMain
  <2>1. Reset \/ UNCHANGED <<mq, bt, handler>>
    BY <1>1 DEF AppMain, MnNvs, MnErase, MnLogger, MnBtn, MnNoSize, MnLooper,
                MnReady, MnRun, MnGoto, MnSame
  <2> QED
    BY <2>1, ResetPress, PressKept
<1>2. CASE Looper /\ ~LpTake
  <2>1. Reset \/ UNCHANGED <<mq, bt, handler>>
    BY <1>2 DEF Looper, Service, LpSpi, LpExit, InitCheck, InitAlloc, InitSems,
                InitRun, InitLoad, InitStore, LpGoto, LpSame
  <2> QED
    BY <2>1, ResetPress, PressKept
<1>3. CASE LpTake
  <2>1. /\ mq # <<>> /\ mq' = Tail(mq) /\ bt' = bt
        /\ Head(mq) = "btn" => handler' = FALSE
        /\ Head(mq) # "btn" => handler' = handler
    BY <1>3 DEF LpTake, LpGoto
  <2>2. /\ Head(mq) = "btn" => Count = Count' + 1
        /\ Head(mq) # "btn" => Count = Count'
        /\ Count' \in Nat
    BY <2>1, CountTail
  <2>3. CASE Head(mq) = "btn"
    <3>1. Count # 0
      BY <2>2, <2>3
    <3>2. Count = 1 /\ bt # "send"
      BY <3>1, PressMeans
    <3>3. Count' = 0
      <4>1. Count = Count' + 1
        BY <2>2, <2>3
      <4>2. \A n \in Nat : n + 1 = 1 => n = 0
        OBVIOUS
      <4> QED
        BY <2>2, <3>2, <4>1, <4>2
    <3>4. bt' # "send" /\ handler' = FALSE
      BY <2>1, <2>3, <3>2
    <3> QED
      BY <3>3, <3>4 DEF PressInFlight, Count
  <2>4. CASE Head(mq) # "btn"
    <3>1. Count' = Count /\ bt' = bt /\ handler' = handler
      BY <2>1, <2>2, <2>4
    <3> QED
      BY <3>1 DEF PressInFlight, Count
  <2> QED
    BY <2>3, <2>4
<1>4. CASE \E t \in Tasks : Task(t)
  <2>1. UNCHANGED <<mq, bt, handler>>
    BY <1>4 DEF Task, TkTop, TkAddr, TkPoll, TkClose, TkOpened, TkError, TkClosed,
                TkLaunched, TkErrored, TkLoad, TkStore, TkSame
  <2> QED
    BY <2>1, PressKept
<1>5. CASE BtnPress
  <2>1. \/ UNCHANGED <<mq, bt, handler>>
        \/ UNCHANGED mq /\ bt' = "send" /\ handler = FALSE /\ handler' = TRUE
    BY <1>5 DEF BtnPress, TypeOK
  <2>2. CASE UNCHANGED mq /\ bt' = "send" /\ handler = FALSE /\ handler' = TRUE
    <3>1. Count' = 0
      BY <2>2, PressMeans DEF Count, Queued
    <3> QED
      BY <2>2, <3>1 DEF PressInFlight, Count
  <2> QED
    BY <2>1, <2>2, PressKept
<1>6. CASE BtnSend
  <2>1. bt' = "idle" /\ Count = 0 /\ handler = TRUE
    BY <1>6, PressMeans DEF BtnSend
  <2>2. CASE mq' = Append(mq, "btn") /\ UNCHANGED handler
    <3>1. Count' = 1 /\ handler' = TRUE
      BY <2>1, <2>2, CountAppend
    <3> QED
      BY <2>1, <3>1 DEF PressInFlight, Count
  <2>3. CASE handler' = FALSE /\ UNCHANGED mq
    <3>1. Count' = 0
      BY <2>1, <2>3 DEF Count, Queued
    <3> QED
      BY <2>1, <2>3, <3>1 DEF PressInFlight, Count
  <2> QED
    BY <1>6, <2>2, <2>3 DEF BtnSend
<1>7. CASE GotIp
  BY <1>7, PressKept DEF GotIp
<1>8. CASE EvSend
  <2>1. mq' = Append(mq, "fb") /\ UNCHANGED <<bt, handler>>
    BY <1>8 DEF EvSend
  <2>2. Count' = Count
    BY <2>1, CountAppend, CountType
  <2> QED
    BY <2>1, <2>2 DEF PressInFlight, Count
<1>9. CASE PowerLoss
  BY <1>9, ResetPress DEF PowerLoss
<1>10. CASE UNCHANGED vars
  BY <1>10, PressKept DEF vars
<1> QED
  BY <1>1, <1>2, <1>3, <1>4, <1>5, <1>6, <1>7, <1>8, <1>9, <1>10 DEF Next

\* The button's message is marked in flight exactly while it is on its way: a
\* press at any moment of the start, or that meets a full queue, leaves the
\* button able to be pressed again.
THEOREM PressMarked == Spec => []PressInFlight
<1>1. Init => PressInFlight
  BY NothingQueued DEF Init
<1> QED
  BY <1>1, InitType, NextType, PressStep, PTL DEF Spec

-----------------------------------------------------------------------------
(* One task, and nothing before its use.                                   *)

\* The looper task is created at the end of app_main(); the queue exists from
\* MnLooper on.
Booting ==
  /\ mn # "done" => lp = "none"
  /\ mn \in {"nvs", "log_erase", "logger", "btn", "looper"} => ~lq
  /\ "send" \in {bt, ev} => lq

\* Up to InitRun of the boot no task of the service is alive; from then on
\* ready keeps a second call of dw_sinsvc2_init() out.
Starting ==
  lp \in {"none", "spi", "alloc", "sems", "run"} \/ (lp = "check" /\ caller = "boot")
KeptOut == lp = "loop" \/ (lp = "check" /\ caller = "fb")

Guarded ==
  ~lost =>
    /\ Cardinality(Live) <= 1
    /\ Starting => Live = {}
    /\ KeptOut => word.ready \/ Live = {}
    /\ lp = "run" \/ Live # {} => pool = "built"

LEMMA InitGuarded == Init => Booting /\ Guarded
<1> SUFFICES ASSUME Init PROVE Booting /\ Guarded
  OBVIOUS
<1>1. Live = {}
  BY DEF Init, Live
<1>2. Cardinality(Live) <= 1
  BY <1>1, FS_EmptySet
<1> QED
  BY <1>1, <1>2 DEF Init, Booting, Guarded, Starting, KeptOut

LEMMA ResetGuarded == Reset => Booting' /\ Guarded'
<1> SUFFICES ASSUME Reset PROVE Booting' /\ Guarded'
  OBVIOUS
<1>1. Live' = {}
  BY DEF Reset, Live
<1>2. Cardinality(Live') <= 1
  BY <1>1, FS_EmptySet
<1> QED
  BY <1>1, <1>2 DEF Reset, Booting, Guarded, Starting, KeptOut

\* A step that leaves the service and the looper task alone.
LEMMA GuardedKept ==
  ASSUME Guarded, UNCHANGED svcvars, UNCHANGED <<lp, caller>>
  PROVE  Guarded'
BY DEF Guarded, svcvars, Live, Starting, KeptOut

LEMMA AppMainGuarded ==
  TypeOK /\ Booting /\ Guarded /\ AppMain => Booting' /\ Guarded'
<1> SUFFICES ASSUME TypeOK, Booting, Guarded, AppMain PROVE Booting' /\ Guarded'
  OBVIOUS
<1> USE DEF MnGoto, MnSame, lpvars, budget, pcs, appvars
<1>1. CASE MnNvs \/ MnBtn \/ MnNoSize \/ MnLooper \/ MnReady
  <2>1. Booting'
    BY <1>1 DEF MnNvs, MnBtn, MnNoSize, MnLooper, MnReady, Booting
  <2> QED
    BY <1>1, <2>1, GuardedKept DEF MnNvs, MnBtn, MnNoSize, MnLooper, MnReady
<1>2. CASE MnErase
  <2>1. CASE logger
    BY <1>2, <2>1, GuardedKept DEF MnErase, Booting
  <2> QED
    BY <1>2, <2>1, ResetGuarded DEF MnErase
<1>3. CASE MnLogger
  <2>1. CASE logger' = TRUE /\ MnGoto("btn") /\ MnSame /\ UNCHANGED nvs
    BY <1>3, <2>1, GuardedKept DEF MnLogger, Booting
  <2> QED
    BY <1>3, <2>1, ResetGuarded DEF MnLogger
<1>4. CASE MnRun
  <2>1. Booting'
    BY <1>4 DEF MnRun, Booting
  <2>2. lp = "none" /\ lp' \in {"none", "spi"} /\ UNCHANGED svcvars
    BY <1>4 DEF MnRun, Booting
  <2>3. Guarded'
    BY <2>2 DEF Guarded, svcvars, Live, Starting, KeptOut
  <2> QED
    BY <2>1, <2>3
<1> QED
  BY <1>1, <1>2, <1>3, <1>4 DEF AppMain

LEMMA LooperGuarded ==
  TypeOK /\ Booting /\ Guarded /\ Looper => Booting' /\ Guarded'
<1> SUFFICES ASSUME TypeOK, Booting, Guarded, Looper PROVE Booting' /\ Guarded'
  OBVIOUS
<1> USE DEF LpGoto, LpSame, lpvars, appvars, svcvars, budget
<1>1. LpExit => Booting' /\ Guarded'
  BY ResetGuarded DEF LpExit
<1>2. Looper /\ ~LpExit => Booting'
  BY DEF Looper, Service, LpSpi, InitCheck, InitAlloc, InitSems, InitRun,
         InitLoad, InitStore, LpTake, Booting
<1>3. tk' = tk => Live' = Live
  BY DEF Live
<1>4. caller \in {"boot", "fb"}
  BY DEF TypeOK
<1>5. ASSUME LpSpi PROVE Guarded'
  BY <1>3, <1>4, <1>5 DEF LpSpi, Guarded, Starting, KeptOut
<1>6. ASSUME InitCheck PROVE Guarded'
  BY <1>3, <1>4, <1>6 DEF InitCheck, Failed, Guarded, Starting, KeptOut
<1>7. ASSUME InitAlloc PROVE Guarded'
  BY <1>3, <1>4, <1>7 DEF InitAlloc, Failed, Guarded, Starting, KeptOut
<1>8. ASSUME InitSems PROVE Guarded'
  BY <1>3, <1>4, <1>8 DEF InitSems, Failed, Guarded, Starting, KeptOut
<1>9. ASSUME InitRun PROVE Guarded'
  <2>1. CASE tk' = tk
    BY <1>3, <1>4, <1>9, <2>1 DEF InitRun, Failed, Guarded, Starting, KeptOut
  <2>2. CASE tk' = [tk EXCEPT ![Fresh] = "top"] /\ LpGoto("load")
             /\ UNCHANGED <<pool, lost>>
    <3>1. SUFFICES ASSUME ~lost
                   PROVE  Cardinality(Live') <= 1 /\ pool' = "built"
      BY <2>2 DEF Guarded, Starting, KeptOut
    <3>2. Live = {} /\ pool' = "built"
      BY <1>9, <2>2, <3>1 DEF InitRun, Guarded, Starting
    <3>3. Live' \in SUBSET {Fresh}
      BY <2>2, <3>2 DEF Live, TypeOK
    <3>4. IsFiniteSet({Fresh}) /\ Cardinality({Fresh}) = 1
      BY FS_Singleton
    <3>5. Cardinality(Live') <= 1
      BY <3>3, <3>4, FS_Subset
    <3> QED
      BY <3>2, <3>5
  <2> QED
    BY <1>9, <2>1, <2>2 DEF InitRun
<1>10. ASSUME InitLoad PROVE Guarded'
  BY <1>3, <1>4, <1>10 DEF InitLoad, Guarded, Starting, KeptOut
<1>11. ASSUME InitStore PROVE Guarded'
  BY <1>3, <1>4, <1>11 DEF InitStore, Guarded, Starting, KeptOut, TypeOK, Word
<1>12. ASSUME LpTake PROVE Guarded'
  BY <1>3, <1>4, <1>12 DEF LpTake, Guarded, Starting, KeptOut
<1> QED
  BY <1>1, <1>2, <1>5, <1>6, <1>7, <1>8, <1>9, <1>10, <1>11, <1>12
     DEF Looper, Service

\* A task of the service writes launched, and with it the ready it has read.
LEMMA TaskGuarded ==
  ASSUME NEW t \in Tasks
  PROVE  TypeOK /\ Booting /\ Guarded /\ Task(t) => Booting' /\ Guarded'
<1> SUFFICES ASSUME TypeOK, Booting, Guarded, Task(t) PROVE Booting' /\ Guarded'
  OBVIOUS
<1> USE DEF TkSame, lpvars, appvars, budget, pcs
<1>1. /\ UNCHANGED <<mn, lq, bt, ev, lp, caller, pool>>
      /\ tk[t] # "none" /\ \E l : l # "none" /\ tk' = [tk EXCEPT ![t] = l]
  BY DEF Task, TkTop, TkAddr, TkPoll, TkClose, TkOpened, TkError, TkClosed,
         TkLaunched, TkErrored, TkLoad, TkStore
<1>2. Live' = Live
  BY <1>1 DEF Live, TypeOK
<1>3. /\ lost => lost'
      /\ ~lost' /\ word.ready => word'.ready
  BY DEF Task, TkTop, TkAddr, TkPoll, TkClose, TkOpened, TkError, TkClosed,
         TkLaunched, TkErrored, TkLoad, TkStore, TypeOK, Word, Owner
<1> QED
  BY <1>1, <1>2, <1>3 DEF Booting, Guarded, Starting, KeptOut

LEMMA GuardedStep ==
  TypeOK /\ Booting /\ Guarded /\ [Next]_vars => Booting' /\ Guarded'
<1> SUFFICES ASSUME TypeOK, Booting, Guarded, [Next]_vars
             PROVE  Booting' /\ Guarded'
  OBVIOUS
<1>1. CASE BtnPress \/ BtnSend \/ GotIp \/ EvSend \/ UNCHANGED vars
  <2>1. Booting'
    BY <1>1 DEF BtnPress, BtnSend, GotIp, EvSend, Sees, Booting, vars, lpvars,
                appvars, pcs
  <2> QED
    BY <1>1, <2>1, GuardedKept DEF BtnPress, BtnSend, GotIp, EvSend, vars, pcs
<1>2. CASE PowerLoss
  BY <1>2, ResetGuarded DEF PowerLoss
<1> QED
  BY <1>1, <1>2, AppMainGuarded, LooperGuarded, TaskGuarded DEF Next

LEMMA GuardedAlways == Spec => [](TypeOK /\ Booting /\ Guarded)
  BY InitType, NextType, InitGuarded, GuardedStep, PTL DEF Spec

\* dw_sinsvc2_init() clears the service's memory and starts its task once,
\* however often Wi-Fi gets an address, unless a task's write of the flag word
\* took ready back.
THEOREM OneTaskWhileReadyKept == Spec => []OneTaskUnlessLost
<1>1. Guarded => OneTaskUnlessLost
  BY DEF Guarded, Starting, OneTaskUnlessLost
<1> QED
  BY <1>1, GuardedAlways, PTL

\* The button and the event task send only to a queue that app_main() has
\* made, and the service's task finds its memory and locks.
THEOREM NothingUsedTooEarly == Spec => []NothingBeforeItsUse
<1>1. Booting /\ Guarded => NothingBeforeItsUse
  BY DEF Booting, Guarded, NothingBeforeItsUse
<1> QED
  BY <1>1, GuardedAlways, PTL
=============================================================================
