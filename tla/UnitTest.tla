------------------------------- MODULE UnitTest -------------------------------
(***************************************************************************)
(* The test runner of components/aloe/aloe_unitest.c: suites of cases and  *)
(* suites, run in the order they were added.  A node keeps its flag_result *)
(* from one run to the next.  Names, causes and logs are left out; of what *)
(* a case or a setup does only its answer is kept: out, and setup.         *)
(***************************************************************************)
EXTENDS Naturals, Sequences, FiniteSets

CONSTANT Suites      (* The suites given to the runner, never run before.   *)

VARIABLES
  suite,     (* The suite, or <<>> between two of them.                     *)
  runs       (* How often it was run.                                       *)

uvars == <<suite, runs>>

\* aloe_test_flag_result_*, ordered.
Pass == 0
Failed == 1
FailedSuite == 2
Prerequisite == 3

\* ALOE_TEST_CASE_INIT() and ALOE_TEST_INIT(); called and setUp tell whether
\* the last run called the case, or the suite's setup.
Case(out) == [class |-> "case", out |-> out, result |-> Pass, called |-> FALSE]
Suite(setup, kids) ==
  [class |-> "suite", setup |-> setup, kids |-> kids, result |-> Pass, setUp |-> FALSE]

IsSuite(n) == n.class = "suite"
Greater(m, n) == IF m >= n THEN m ELSE n

-----------------------------------------------------------------------------
(* aloe_test_runner().                                                     *)

SkipsRest(r) == r \in {FailedSuite, Prerequisite}

\* A suite that has failed before is not set up.
SetUpAgain(s) ==
  LET does == s.setup # "none"
  IN [s EXCEPT !.setUp = does, !.result = IF does /\ s.setup = "bad" THEN FailedSuite ELSE Pass]
SetUp(s) ==
  LET does == s.result = Pass /\ s.setup # "none"
  IN [s EXCEPT !.setUp = does,
               !.result = IF does /\ s.setup = "bad" THEN FailedSuite ELSE @]

\* What node k makes of the result r of its suite: a failed suite breaks no
\* suite, a failed case may.
After(r, k) ==
  IF SkipsRest(r) \/ k.result = Pass THEN r
  ELSE IF IsSuite(k) THEN Greater(r, Failed) ELSE Greater(r, k.result)

RECURSIVE RunSuite(_), RunKids(_)
RunKid(r, k) ==
  IF IsSuite(k) THEN RunSuite(IF SkipsRest(r) THEN [k EXCEPT !.result = Prerequisite] ELSE k)
  ELSE IF SkipsRest(r) THEN [k EXCEPT !.result = Prerequisite, !.called = FALSE]
  ELSE [k EXCEPT !.result = k.out, !.called = TRUE]

\* The nodes of s one after the other; s.result changes on the way.
RunKids(s) ==
  IF s.kids = <<>> THEN s
  ELSE LET k == RunKid(s.result, Head(s.kids))
           rest == RunKids([s EXCEPT !.kids = Tail(@), !.result = After(@, k)])
       IN [rest EXCEPT !.kids = <<k>> \o @]

RunSuite(s) == RunKids(SetUp(s))

-----------------------------------------------------------------------------
(* aloe_test_report(): no caller gives it a runner that breaks it.         *)

Count(n) ==
  [total |-> 1,
   pass |-> IF n.result = Pass THEN 1 ELSE 0,
   failed |-> IF n.result = Pass THEN 0 ELSE 1,
   prereq |-> IF n.result = Prerequisite THEN 1 ELSE 0]
Plus(a, b) == [f \in DOMAIN a |-> a[f] + b[f]]
NoneSeen == [total |-> 0, pass |-> 0, failed |-> 0, prereq |-> 0]

RECURSIVE Report(_)
Report(s) ==
  IF s.kids = <<>> THEN NoneSeen
  ELSE Plus(IF IsSuite(Head(s.kids)) THEN Report(Head(s.kids)) ELSE Count(Head(s.kids)),
            Report([s EXCEPT !.kids = Tail(@)]))

-----------------------------------------------------------------------------
Init == suite = <<>> /\ runs = 0

Given == suite = <<>> /\ suite' \in Suites /\ UNCHANGED runs

\* All that was wrong put right.
RECURSIVE Mended(_)
Mended(n) ==
  IF IsSuite(n)
    THEN [n EXCEPT !.setup = IF @ = "bad" THEN "ok" ELSE @,
                   !.kids = [i \in DOMAIN n.kids |-> Mended(n.kids[i])]]
    ELSE [n EXCEPT !.out = Pass]

\* ALOE_TEST_RUN(): once, and once more as it was or mended.
RunIt ==
  /\ suite # <<>> /\ runs < 2 /\ runs' = runs + 1
  /\ \E s \in {suite} \cup IF runs = 1 THEN {Mended(suite)} ELSE {} : suite' = RunSuite(s)

Discard == runs = 2 /\ suite' = <<>> /\ runs' = 0

Next == Given \/ RunIt \/ Discard

-----------------------------------------------------------------------------
\* The nodes of n by their paths, and the node at a path.
RECURSIVE Paths(_), At(_, _)
Paths(n) ==
  {<<>>} \cup IF IsSuite(n)
              THEN UNION {{<<i>> \o p : p \in Paths(n.kids[i])} : i \in DOMAIN n.kids}
              ELSE {}
At(n, p) == IF p = <<>> THEN n ELSE At(n.kids[Head(p)], Tail(p))

\* A suite on the way to p is broken before it comes to p: by its setup, or by
\* an earlier case of its own that fails it.
Broken(p) ==
  \E n \in 0..Len(p) - 1 : LET s == At(suite, SubSeq(p, 1, n)) IN
    \/ s.setup = "bad"
    \/ \E i \in 1..p[n + 1] - 1 : ~IsSuite(s.kids[i]) /\ SkipsRest(s.kids[i].out)

\* Something at p or below it is bad.
Bad(p) ==
  \E q \in Paths(At(suite, p)) : LET n == At(suite, p \o q) IN
    IF IsSuite(n) THEN n.setup = "bad" ELSE n.out # Pass

\* What a suite at p that is not broken by another comes to.
Worst(p) ==
  LET s == At(suite, p)
      own == {s.kids[i].out : i \in {j \in DOMAIN s.kids :
                                       ~IsSuite(s.kids[j]) /\ ~Broken(Append(p, j))}}
      below == {Failed : i \in {j \in DOMAIN s.kids : IsSuite(s.kids[j]) /\ Bad(Append(p, j))}}
  IN IF s.setup = "bad" THEN FailedSuite
     ELSE CHOOSE r \in own \cup below \cup {Pass} : \A o \in own \cup below : o <= r

\* The first run tells of each case what it answered, or that it was not called
\* since a suite around it was broken before; of each suite the worst of what
\* it holds, where a suite held counts as one failure; and the report counts
\* every case once.
FirstRun ==
  /\ \A p \in Paths(suite) : LET n == At(suite, p) IN
       /\ Broken(p) => n.result = Prerequisite
       /\ ~Broken(p) => n.result = IF IsSuite(n) THEN Worst(p) ELSE n.out
       /\ IF IsSuite(n) THEN n.setUp <=> ~Broken(p) /\ n.setup # "none"
                        ELSE n.called <=> ~Broken(p)
  /\ LET cases == {p \in Paths(suite) : ~IsSuite(At(suite, p))}
         of(S) == {p \in cases : At(suite, p).result \in S}
         r == Report(suite)
     IN /\ r.total = Cardinality(cases) /\ r.pass = Cardinality(of({Pass}))
        /\ r.failed = r.total - r.pass /\ r.prereq = Cardinality(of({Prerequisite}))

\* A suite keeps a failure: a second run never makes it pass, even when all
\* is put right, and a suite that was broken stays so with all it holds.
StaysFailed ==
  \A p \in Paths(suite) : IsSuite(At(suite, p)) =>
    At(suite, p).result <= At(suite', p).result

TestResults ==
  /\ [](runs = 1 /\ suite # <<>> => FirstRun)
  /\ [][suite # <<>> /\ suite' # <<>> => StaysFailed]_uvars
=============================================================================
