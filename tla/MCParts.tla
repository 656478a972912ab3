------------------------------- MODULE MCParts -------------------------------
(***************************************************************************)
(* The parts that share nothing with each other, for TLC: the semaphore,   *)
(* the buffers, the ring, the tail queue, the tree, the test runner and    *)
(* the text functions of components/aloe, the service's timers and the     *)
(* LED.  which says the part that runs; the others stay as they began.     *)
(***************************************************************************)
EXTENDS LinuxSem, Parts, RbTree

CONSTANTS h1, h2, e1, e2, e3

VARIABLES
  which,
  suite, runs                          \* UnitTest

bufs == <<use, buf, out>>
ring == <<data, rd, wr, wpc, rpc, wb, rb>>
tailq == <<slot, last, prev>>
test == <<suite, runs>>
poll == <<now, due, real, wait, polling>>
led == <<duty, step, level, calls>>
all == <<which, vars, bufs, ring, tailq, rvars, test, call, poll, led>>

-----------------------------------------------------------------------------
\* Sets for the constants of Parts; the .cfg has the numbers.
MCBytes == {1, 2}
MCHeads == {h1, h2}
MCElems == {e1, e2, e3}

\* Seven entries with different keys and one with a key that is there already.
MCKeys == 1..7

\* Suites three deep: a suite of a case and a suite, of cases and suites.
UpTo(n, S) == UNION {[1..k -> S] : k \in 0..n}
Shape == INSTANCE UnitTest WITH Suites <- {}
Cases == {Shape!Case(o) : o \in Shape!Pass..Shape!FailedSuite}
Lowest == {Shape!Suite(s, k) : s \in {"none", "bad"}, k \in UpTo(1, Cases)}
Middle == {Shape!Suite(s, k) : s \in {"ok", "bad"}, k \in UpTo(2, Cases \cup Lowest)}
AnyCase == Cases \cup {Shape!Case(Shape!Prerequisite)}
MCSuites ==
  {Shape!Suite("ok", <<c, m>>) : c \in AnyCase, m \in Middle}
    \cup {Shape!Suite("ok", <<m, c>>) : c \in Cases, m \in Middle}
    \cup {Shape!Suite("bad", <<m>>) : m \in Middle}
Test == INSTANCE UnitTest WITH Suites <- MCSuites

\* Sizes below, at and above each line and dump.
MCSizes == (0..18) \cup (25..28)
MCLines == (1..3) \X (-1..5)
MCItems == UpTo(3, {0, 10, 255})
MCWidths == 0..5

-----------------------------------------------------------------------------
PartsInit ==
  /\ which \in {"sem", "buf", "ring", "tailq", "tree", "test", "text", "poll", "led"}
  /\ IF which = "sem" THEN Init ELSE Init /\ cnt = 0
  /\ IF which = "buf" THEN Buf!Init ELSE Buf!Init /\ use = "ring"
  /\ Ring!Init /\ Queue!Init /\ TreeInit /\ Test!Init /\ Text!Init
  /\ Poll!Init /\ Led!Init

Run1(t) == which = "sem" /\ Run(t) /\ UNCHANGED <<which, bufs, ring, tailq, rvars, test, call, poll, led>>

PartsNext ==
  \/ which = "sem" /\ Next /\ UNCHANGED <<which, bufs, ring, tailq, rvars, test, call, poll, led>>
  \/ which = "buf" /\ Buf!Next /\ UNCHANGED <<which, vars, ring, tailq, rvars, test, call, poll, led>>
  \/ which = "ring" /\ Ring!Next /\ UNCHANGED <<which, vars, bufs, tailq, rvars, test, call, poll, led>>
  \/ which = "tailq" /\ Queue!Next /\ UNCHANGED <<which, vars, bufs, ring, rvars, test, call, poll, led>>
  \/ which = "tree" /\ TreeNext /\ UNCHANGED <<which, vars, bufs, ring, tailq, test, call, poll, led>>
  \/ which = "test" /\ Test!Next /\ UNCHANGED <<which, vars, bufs, ring, tailq, rvars, call, poll, led>>
  \/ which = "text" /\ Text!Next /\ UNCHANGED <<which, vars, bufs, ring, tailq, rvars, test, poll, led>>
  \/ which = "poll" /\ Poll!Next /\ UNCHANGED <<which, vars, bufs, ring, tailq, rvars, test, call, led>>
  \/ which = "led" /\ Led!Next /\ UNCHANGED <<which, vars, bufs, ring, tailq, rvars, test, call, poll>>

\* The fairness of LinuxSem.
PartsSpec ==
  /\ PartsInit /\ [][PartsNext]_all
  /\ \A t \in Threads : WF_all(Run1(t))

-----------------------------------------------------------------------------
(* The properties of the two parts that are not in Parts.                  *)

\* Results and reports of test suites, at the first run and the second.
TestResults == Test!TestResults
=============================================================================
