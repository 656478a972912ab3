------------------------------- MODULE Startup -------------------------------
(***************************************************************************)
(* Start and restart of the device: app_main() of main/eh_main.c, the boot *)
(* part of eh_looper_task(), dw_looper_init(), dw_spi2_start(),            *)
(* dw_sinsvc2_init() with the flags the service's task shares with it, and *)
(* the messages that may come before all of it is ready.                   *)
(*                                                                         *)
(* main, the looper, the timer task (button), the event task (Wi-Fi) and   *)
(* the service's tasks run in parallel on two cores.  Of the service only  *)
(* the accesses to quit, launched and ready are modelled: they are bits of *)
(* one word, so a write of one of them reads the word and writes it back.  *)
(* quit is never set.  A restart clears everything but the flash.          *)
(* Initialised twice, the service's memory is cleared under its task: what *)
(* the task then does with its locks and lists is left out.                *)
(***************************************************************************)
EXTENDS Integers, Sequences, FiniteSets

CONSTANTS
  LooperLen,    (* Length of the looper's queue, 20 in eh_looper_start().    *)
  NvsStates,    (* What the flash may hold when the device is first started. *)
  MaxTasks,     (* Bound: tasks of the service, named in order: 1..MaxTasks.  *)
  MaxIps,       (* Bound: addresses the device gets.                         *)
  MaxFails,     (* Bound: calls that fail, over all restarts.                *)
  MaxRestarts   (* Bound: losses of power.                                   *)

ASSUME LooperAssumption == LooperLen \in Nat \ {0}
ASSUME NvsAssumption == NvsStates \subseteq {"ok", "full"}
ASSUME BoundAssumption == {MaxTasks, MaxIps, MaxFails, MaxRestarts} \subseteq Nat

VARIABLES
  nvs,      (* The flash: "full" until it is erased.                          *)
  mn,       (* Where app_main() is.                                           *)
  logger,   (* Whether the logger's semaphore exists.                         *)
  lq,       (* Whether the looper's queue exists, dw_looper_main set.         *)
  lready,   (* The looper's ready.                                            *)
  mq,       (* The looper's queue.                                            *)
  handler,  (* Whether the button's message is in flight.                     *)
  bt,       (* Where btn2_cb() is.                                            *)
  wifi,     (* Whether the button has started Wi-Fi.                          *)
  ev,       (* Where the event task is.                                       *)
  lp,       (* Where the looper task is.                                      *)
  caller,   (* Who called dw_sinsvc2_init(): "boot" or "fb".                  *)
  word,     (* The service's flags: [launched, ready].                        *)
  reg,      (* What a task, or 0 for the init, has read and not yet written.    *)
  tk,       (* Where each of the service's tasks is.                          *)
  pool,     (* The service's memory: "none", "mem", with its locks "built".   *)
  leaked,   (* Blocks allocated that nothing will free.                       *)
  ips, fails, restarts,   (* How often these may still happen.                *)
  lost      (* History: a task wrote ready = 0 over ready = 1.                *)

appvars == <<mn, logger>>
lpvars == <<lq, lready, mq, handler, wifi>>
svcvars == <<word, reg, tk, pool, leaked, lost>>
budget == <<ips, fails, restarts>>
pcs == <<bt, ev, lp, caller>>
vars == <<nvs, appvars, lpvars, svcvars, budget, pcs>>

Tasks == 1..MaxTasks
Word == [launched : BOOLEAN, ready : BOOLEAN]
Zero == [launched |-> FALSE, ready |-> FALSE]
Owner == Tasks \cup {0}
Live == {t \in Tasks : tk[t] # "none"}

Init ==
  /\ nvs \in NvsStates
  /\ mn = "nvs" /\ logger = FALSE /\ lq = FALSE /\ lready = FALSE
  /\ mq = <<>> /\ handler = FALSE /\ wifi = FALSE
  /\ bt = "idle" /\ ev = "idle" /\ lp = "none" /\ caller = "boot"
  /\ word = Zero /\ reg = [o \in Owner |-> Zero]
  /\ tk = [t \in Tasks |-> "none"] /\ pool = "none" /\ leaked = 0 /\ lost = FALSE
  /\ ips = MaxIps /\ fails = MaxFails /\ restarts = MaxRestarts

\* A reset, by a lost supply, a failed assertion or an abort, clears the RAM.
Reset ==
  /\ mn' = "nvs" /\ logger' = FALSE /\ lq' = FALSE /\ lready' = FALSE
  /\ mq' = <<>> /\ handler' = FALSE /\ wifi' = FALSE
  /\ bt' = "idle" /\ ev' = "idle" /\ lp' = "none" /\ caller' = "boot"
  /\ word' = Zero /\ reg' = [o \in Owner |-> Zero]
  /\ tk' = [t \in Tasks |-> "none"] /\ pool' = "none" /\ leaked' = 0 /\ lost' = FALSE
  /\ UNCHANGED <<nvs, ips>>

PowerLoss ==
  /\ restarts > 0 /\ restarts' = restarts - 1
  /\ Reset /\ UNCHANGED fails

\* A call may fail as long as the bound allows.
Fail == fails > 0 /\ fails' = fails - 1

\* How many of the blocks freed, here one, aloe_mem_free() keeps.
Kept(id) == IF id \in {"dxmem", "stdc"} THEN 0 ELSE 1

-----------------------------------------------------------------------------
(* app_main().                                                             *)

MnGoto(l) == mn' = l /\ UNCHANGED <<lq, lready, mq, handler, wifi, lp>>
MnSame == UNCHANGED <<svcvars, budget, bt, ev, caller>>

MnNvs ==
  /\ mn = "nvs"
  /\ MnGoto(IF nvs = "ok" THEN "logger" ELSE "log_erase")
  /\ MnSame /\ UNCHANGED <<nvs, logger>>

\* log_d() takes the logger's semaphore, and asserts that there is one; then
\* the flash is erased and tried again.
MnErase ==
  /\ mn = "log_erase"
  /\ IF logger
       THEN nvs' = "ok" /\ MnGoto("nvs") /\ MnSame /\ UNCHANGED logger
       ELSE Reset /\ UNCHANGED <<fails, restarts>>

\* aloe_logger_init(); without its semaphore the first log_d() asserts.
MnLogger ==
  /\ mn = "logger"
  /\ \/ logger' = TRUE /\ MnGoto("btn") /\ MnSame /\ UNCHANGED nvs
     \/ Fail /\ Reset /\ UNCHANGED restarts

\* eh_btn2_init() and eh_wifi_init(): from now on the button is live.
MnBtn ==
  /\ mn = "btn"
  /\ MnGoto("looper")
  /\ MnSame /\ UNCHANGED <<nvs, logger>>

\* The flash does not tell its size: app_main() returns before the button.
MnNoSize ==
  /\ mn = "btn"
  /\ mn' = "done" /\ Fail
  /\ UNCHANGED <<nvs, logger, lpvars, svcvars, ips, restarts, pcs>>

\* dw_looper_init(); a failure ends eh_looper_start(), and app_main() does
\* not look at what it returns.
MnLooper ==
  /\ mn = "looper"
  /\ \/ mn' = "ready" /\ lq' = TRUE /\ UNCHANGED budget
     \/ mn' = "done" /\ lq' = FALSE /\ Fail /\ UNCHANGED <<ips, restarts>>
  /\ UNCHANGED <<nvs, logger, lready, mq, handler, wifi, svcvars, pcs>>

MnReady ==
  /\ mn = "ready"
  /\ lready' = TRUE /\ mn' = "run"
  /\ UNCHANGED <<nvs, logger, lq, mq, handler, wifi, svcvars, budget, pcs>>

MnRun ==
  /\ mn = "run" /\ mn' = "done"
  /\ \/ lp' = "spi" /\ UNCHANGED budget
     \/ Fail /\ UNCHANGED <<ips, restarts, lp>>
  /\ UNCHANGED <<nvs, logger, lpvars, svcvars, bt, ev, caller>>

-----------------------------------------------------------------------------
(* The looper task: dw_spi2_start() and dw_sinsvc2_init(), then messages.  *)

LpGoto(l) == lp' = l /\ UNCHANGED <<bt, ev>>
LpSame == UNCHANGED <<nvs, appvars, lpvars, ips, restarts>>

\* dw_spi2_start(): fails at the buffer, or later and frees it.
LpSpi ==
  /\ lp = "spi" /\ LpSame
  /\ UNCHANGED <<word, reg, tk, pool, lost, caller>>
  /\ \/ LpGoto("check") /\ UNCHANGED <<leaked, fails>>
     \/ Fail /\ LpGoto("exit") /\ \E n \in {0, Kept("psram")} : leaked' = leaked + n

\* A task's function must not return: the port aborts.
LpExitWaits == lp = "exit" /\ UNCHANGED vars
LpExit ==
  /\ lp = "exit" /\ Reset /\ UNCHANGED <<fails, restarts>>

\* What a failed dw_sinsvc2_init() does to its caller.
FailedIgnored == "loop"
Failed == IF caller = "boot" THEN "exit" ELSE "loop"

InitCheckNot ==
  /\ lp = "check" /\ LpSame
  /\ LpGoto("alloc")
  /\ UNCHANGED <<svcvars, fails, caller>>
InitCheck ==
  /\ lp = "check" /\ LpSame
  /\ LpGoto(IF word.ready THEN Failed ELSE "alloc")
  /\ UNCHANGED <<svcvars, fails, caller>>

\* memset(), which forgets a former buffer, and the buffer.
InitAlloc ==
  /\ lp = "alloc" /\ LpSame
  /\ word' = Zero
  /\ leaked' = IF pool = "none" THEN leaked ELSE leaked + 1
  /\ \/ LpGoto("sems") /\ pool' = "mem" /\ UNCHANGED fails
     \/ Fail /\ LpGoto(Failed) /\ pool' = "none"
  /\ UNCHANGED <<reg, tk, lost, caller>>

\* frm_lock and store_lock.
InitSems ==
  /\ lp = "sems" /\ LpSame
  /\ \/ LpGoto("run") /\ pool' = "built" /\ UNCHANGED <<leaked, fails>>
     \/ Fail /\ LpGoto(Failed) /\ pool' = "none" /\ leaked' = leaked + Kept("psram")
  /\ UNCHANGED <<word, reg, tk, lost, caller>>

Fresh == CHOOSE t \in Tasks : tk[t] = "none" /\ \A u \in 1..t - 1 : tk[u] # "none"

InitRun ==
  /\ lp = "run" /\ LpSame
  /\ \/ /\ Live # Tasks
        /\ tk' = [tk EXCEPT ![Fresh] = "top"]
        /\ LpGoto("load") /\ UNCHANGED <<pool, leaked, fails>>
     \/ /\ Fail /\ LpGoto(Failed)
        /\ pool' = "none" /\ leaked' = leaked + Kept("psram") /\ UNCHANGED tk
  /\ UNCHANGED <<word, reg, lost, caller>>

\* impl.ready = 1, after the task has been started.
InitLoad ==
  /\ lp = "load" /\ LpSame
  /\ reg' = [reg EXCEPT ![0] = word]
  /\ LpGoto("store")
  /\ UNCHANGED <<word, tk, pool, leaked, lost, fails, caller>>

InitStore ==
  /\ lp = "store" /\ LpSame
  /\ word' = [reg[0] EXCEPT !.ready = TRUE]
  /\ reg' = [reg EXCEPT ![0] = Zero]
  /\ LpGoto("loop")
  /\ UNCHANGED <<tk, pool, leaked, lost, fails, caller>>

\* A message: the button starts Wi-Fi; feedback in phase normal calls
\* dw_sinsvc2_init() again.
LpTake ==
  /\ lp = "loop" /\ mq # <<>>
  /\ mq' = Tail(mq)
  /\ caller' = "fb"
  /\ IF Head(mq) = "btn"
       THEN LpGoto("loop") /\ wifi' = TRUE /\ handler' = FALSE
       ELSE LpGoto("check") /\ UNCHANGED <<wifi, handler>>
  /\ UNCHANGED <<nvs, appvars, lq, lready, svcvars, budget>>

-----------------------------------------------------------------------------
(* btn2_cb() in the timer task and _eh_looper_msg1_post_new() in the event *)
(* task: dw_looper_add() looks at the looper, then sends.                  *)

SeesNot == TRUE
Sees == lq /\ lready

BtnPress ==
  /\ mn \notin {"nvs", "log_erase", "logger", "btn"}
  /\ bt = "idle" /\ ~handler
  /\ IF Sees THEN bt' = "send" /\ handler' = TRUE ELSE UNCHANGED <<bt, handler>>
  /\ UNCHANGED <<nvs, appvars, lq, lready, mq, wifi, svcvars, budget, ev, lp, caller>>

BtnSendMarked ==
  /\ bt = "send" /\ bt' = "idle"
  /\ IF Len(mq) < LooperLen THEN mq' = Append(mq, "btn") ELSE UNCHANGED mq
  /\ UNCHANGED <<nvs, appvars, lq, lready, handler, wifi, svcvars, budget, ev, lp, caller>>
BtnSend ==
  /\ bt = "send" /\ bt' = "idle"
  /\ IF Len(mq) < LooperLen
       THEN mq' = Append(mq, "btn") /\ UNCHANGED handler
       ELSE handler' = FALSE /\ UNCHANGED mq
  /\ UNCHANGED <<nvs, appvars, lq, lready, wifi, svcvars, budget, ev, lp, caller>>

GotIp ==
  /\ wifi /\ ev = "idle" /\ ips > 0
  /\ ips' = ips - 1
  /\ ev' = IF Sees THEN "send" ELSE "idle"
  /\ UNCHANGED <<nvs, appvars, lpvars, svcvars, fails, restarts, bt, lp, caller>>

EvSend ==
  /\ ev = "send" /\ Len(mq) < LooperLen
  /\ mq' = Append(mq, "fb") /\ ev' = "idle"
  /\ UNCHANGED <<nvs, appvars, lq, lready, handler, wifi, svcvars, budget, bt, lp, caller>>

-----------------------------------------------------------------------------
(* A task of the service: sinsvc_task() and sinsvc_close_all().            *)

TkSame == UNCHANGED <<nvs, appvars, lpvars, budget, pcs, pool, leaked>>

\* while (!quit): not launched, everything is closed first.
TkTop(t) ==
  /\ tk[t] = "top" /\ TkSame
  /\ tk' = [tk EXCEPT ![t] = IF word.launched THEN "open" ELSE "close"]
  /\ UNCHANGED <<word, reg, lost>>

\* Read the word, to write launched: 0 in sinsvc_close_all() and after a
\* failed select(), 1 when the sockets are open.
TkLoad(t, from, to) ==
  /\ tk[t] = from /\ TkSame
  /\ reg' = [reg EXCEPT ![t] = word]
  /\ tk' = [tk EXCEPT ![t] = to]
  /\ UNCHANGED <<word, lost>>

TkStore(t, from, l, to) ==
  /\ tk[t] = from /\ TkSame
  /\ word' = [reg[t] EXCEPT !.launched = l]
  /\ lost' = (lost \/ (word.ready /\ ~reg[t].ready))
  /\ reg' = [reg EXCEPT ![t] = Zero]
  /\ tk' = [tk EXCEPT ![t] = to]

TkClose(t) == TkLoad(t, "close", "closed")
TkClosed(t) == TkStore(t, "closed", FALSE, "addr")
TkOpened(t) == TkLoad(t, "open", "opened")
TkLaunched(t) == TkStore(t, "opened", TRUE, "poll")
TkError(t) == TkLoad(t, "error", "errored")
TkErrored(t) == TkStore(t, "errored", FALSE, "top")

\* No address yet: try again.  A socket that does not open: likewise.
TkAddr(t) ==
  /\ tk[t] = "addr" /\ TkSame
  /\ \E l \in {"top", "open"} : tk' = [tk EXCEPT ![t] = l]
  /\ UNCHANGED <<word, reg, lost>>

TkPoll(t) ==
  /\ tk[t] = "poll" /\ TkSame
  /\ \E l \in {"top", "error"} : tk' = [tk EXCEPT ![t] = l]
  /\ UNCHANGED <<word, reg, lost>>

-----------------------------------------------------------------------------
AppMain ==
  \/ MnNvs \/ MnErase \/ MnLogger \/ MnBtn \/ MnNoSize
  \/ MnLooper \/ MnReady \/ MnRun

Service == InitCheck \/ InitAlloc \/ InitSems \/ InitRun \/ InitLoad \/ InitStore
Looper == LpSpi \/ LpExit \/ Service \/ LpTake

Task(t) ==
  \/ TkTop(t) \/ TkClose(t) \/ TkClosed(t) \/ TkAddr(t) \/ TkOpened(t)
  \/ TkLaunched(t) \/ TkPoll(t) \/ TkError(t) \/ TkErrored(t)

Next ==
  \/ AppMain \/ Looper \/ (\E t \in Tasks : Task(t))
  \/ BtnPress \/ BtnSend \/ GotIp \/ EvSend \/ PowerLoss

Spec == Init /\ [][Next]_vars

\* Every task keeps running; the user and the network owe nothing.
FairSpec ==
  /\ Spec
  /\ WF_vars(AppMain) /\ WF_vars(Looper) /\ WF_vars(BtnSend) /\ WF_vars(EvSend)
  /\ \A t \in Tasks : WF_vars(Task(t))

-----------------------------------------------------------------------------
(* Properties.                                                             *)

MnSteps == {"nvs", "log_erase", "logger", "btn", "looper", "ready",
            "run", "done"}
LpSteps == {"none", "spi", "exit", "check", "alloc", "sems", "run", "load",
            "store", "loop"}
TkSteps == {"none", "top", "close", "closed", "addr", "open", "opened", "poll",
            "error", "errored"}

\* The types of the variables.
TypeOK ==
  /\ nvs \in {"ok", "full"} /\ mn \in MnSteps
  /\ {logger, lq, lready, handler, wifi, lost} \subseteq BOOLEAN
  /\ mq \in Seq({"btn", "fb"}) /\ Len(mq) <= LooperLen
  /\ bt \in {"idle", "send"} /\ ev \in {"idle", "send"}
  /\ lp \in LpSteps /\ caller \in {"boot", "fb"}
  /\ word \in Word /\ reg \in [Owner -> Word] /\ tk \in [Tasks -> TkSteps]
  /\ pool \in {"none", "mem", "built"} /\ leaked \in Nat
  /\ ips \in 0..MaxIps /\ fails \in 0..MaxFails /\ restarts \in 0..MaxRestarts

\* However often the device gets an address, the service's memory is cleared
\* and its task started once only, unless a task's write took ready back.
OneTaskUnlessLost == ~lost => Cardinality(Live) <= 1 /\ (lp = "alloc" => Live = {})

\* No thread makes use of what another has not made yet: a message is sent
\* only to a queue that exists, and a task of the service runs only when
\* memory and locks are there, unless ready was taken back.
NothingBeforeItsUse ==
  /\ "send" \in {bt, ev} => lq
  /\ ~lost /\ Live # {} => pool = "built"

\* Positions of messages of kind k in the looper's queue.
Queued(k) == {i \in DOMAIN mq : mq[i] = k}

\* The button's one static message is marked in flight exactly while it is: a
\* press that meets a looper not ready, a queue full of feedback or a restart
\* does not leave it marked, which would make the button deaf for good, and
\* none sends it while it is still queued.
PressInFlight ==
  Cardinality(Queued("btn")) + (IF bt = "send" THEN 1 ELSE 0)
    = IF handler THEN 1 ELSE 0

\* A failed start of a service leaks its buffer, which only a restart gives
\* back: the restart comes.  After ready was lost, no restart follows.
LeakCleared == leaked > 0 ~> leaked = 0 \/ lost

\* With a usable flash every start ends: with the looper at its messages, or,
\* if the queue or the looper's task could not be created, with no looper.
Boots == mn = "nvs" /\ nvs = "ok" ~> mn = "done" /\ lp \in {"none", "loop"}

\* dw_sinsvc2_init() is for one task: a second call is "alread initialized".
OneTask == Cardinality(Live) <= 1

\* Flash without free pages is erased, as app_main() says when it finds it.
NvsErased == nvs = "full" ~> nvs = "ok"
=============================================================================
