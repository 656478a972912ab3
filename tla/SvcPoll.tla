------------------------------- MODULE SvcPoll -------------------------------
(***************************************************************************)
(* Time in the service of main/dw_sinsvc2.c: how sinsvc_task() computes    *)
(* the time-out of select() from the sockets' due times, and which sockets *)
(* it finds due.  A time is an unsigned long of milliseconds that wraps;   *)
(* all ones means never, and 0 now.  The tick is 10 ms and the durations   *)
(* are even, so a sum is never all ones.  Handlers take no time; the       *)
(* sleeps after a failure are left out.                                    *)
(***************************************************************************)
EXTENDS Integers, Sequences

CONSTANTS
  Width,     (* The bits of an unsigned long, 32.                           *)
  Socks,     (* How many sockets are open.                                  *)
  PollMax,   (* "socket poll infinite bad?": 10000.                         *)
  MinWait,   (* "at least 100ms".                                           *)
  Durs,      (* The durations handlers ask for.                             *)
  MaxNow     (* Bound: how long the device runs.                            *)

VARIABLES
  now,      (* The time, not wrapped.                                       *)
  due,      (* sock->tdue of each socket.                                   *)
  real,     (* History: the due time not wrapped, or -1.                    *)
  wait,     (* The time-out given to select(), or "forever".                *)
  polling   (* Whether the task is in select().                             *)

pvars == <<now, due, real, wait, polling>>

Limit == 2^Width
Wrap(n) == n % Limit
Infinite == Limit - 1
Times == 0..Limit - 1

\* aloe_tick2ms(aloe_ticks()) and sock_tdue().
Ts == Wrap(now)
Tdue(dur) == Wrap(Ts + dur)

\* sinsvc_tdue(): the earlier of t and a socket's due time.
EarlierAny(t, ts0, d) == IF d # Infinite THEN d ELSE t
Earlier(t, ts0, d) ==
  IF ~(t = Infinite \/ t > ts0) THEN t
  ELSE IF d = 0 THEN ts0
  ELSE IF d # Infinite /\ t > d THEN d ELSE t

\* The due time of the poll, the sockets looked at in turn: what it is after
\* the first i.
DueUpTo[i \in 0..Socks] ==
  IF i = 0 THEN Wrap(Ts + PollMax) ELSE Earlier(DueUpTo[i - 1], Ts, due[i])
PollDue == DueUpTo[Socks]

Timeout(t, ts0) ==
  IF t = Infinite THEN -1
  ELSE IF t <= ts0 THEN 0
  ELSE IF t <= Wrap(ts0 + MinWait) THEN MinWait
  ELSE t - ts0

\* sinsvc_ts_tdue().
IsDue(ts1, d) == d # Infinite /\ ts1 >= d

Init ==
  /\ now = 0 /\ wait = 0 /\ polling = FALSE
  /\ due = [s \in 1..Socks |-> Infinite] /\ real = [s \in 1..Socks |-> -1]

Poll ==
  /\ ~polling /\ polling' = TRUE
  /\ wait' = Timeout(PollDue, Ts)
  /\ UNCHANGED <<now, due, real>>

\* select() returns at its time-out, or earlier for the sockets of busy.
\* sinsvc_sock_act() lets a socket's handler ask for another due time, or
\* none, if there is something to do on it or it is due.
Act ==
  /\ polling /\ polling' = FALSE
  /\ \E busy \in SUBSET (1..Socks), n \in {k \in 0..wait : k % 2 = 0} :
       /\ busy = {} => n = wait
       /\ now + n <= MaxNow
       /\ now' = now + n
       /\ LET acts == busy \cup {s \in 1..Socks : IsDue(Ts', due[s])} IN
          \E dur \in [acts -> Durs \cup {-1}] :
            /\ due' = [s \in 1..Socks |->
                 IF s \notin acts THEN due[s]
                 ELSE IF dur[s] = -1 THEN Infinite ELSE Tdue(dur[s])']
            /\ real' = [s \in 1..Socks |->
                 IF s \notin acts THEN real[s]
                 ELSE IF dur[s] = -1 THEN -1 ELSE now' + dur[s]]
  /\ UNCHANGED wait

\* The device starts anew.
Restart ==
  /\ now' = 0 /\ wait' = 0 /\ polling' = FALSE
  /\ due' = [s \in 1..Socks |-> Infinite] /\ real' = [s \in 1..Socks |-> -1]

Next == Poll \/ Act \/ Restart

\* Every poll ends, after PollMax at the latest, also when the time wraps.
PollEnds == wait \in 0..PollMax

\* Until the time wraps no poll goes on for longer than MinWait after a
\* socket's due time, nothing is called due before its time, and a poll that
\* returns at once found something due.
NotWrapped == now + PollMax < Limit /\ \A s \in 1..Socks : real[s] < Limit

TimersExact ==
  NotWrapped =>
    /\ \A s \in 1..Socks :
         /\ real[s] # -1 => now + (IF polling THEN wait ELSE 0) <= real[s] + MinWait
         /\ IsDue(Ts, due[s]) <=> (real[s] # -1 /\ now >= real[s])
    /\ polling /\ wait = 0 => \E s \in 1..Socks : IsDue(Ts, due[s])

PollTimely == PollEnds /\ TimersExact
=============================================================================
