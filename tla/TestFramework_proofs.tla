------------------------ MODULE TestFramework_proofs ------------------------
(***************************************************************************)
(* The verdicts of the test framework, for every number of suites and      *)
(* tests.                                                                  *)
(***************************************************************************)
EXTENDS TestFramework, FiniteSetTheorems, TLAPS

InSuite == phase \in {"tests", "body"}

\* A suite that is running has tests, and k is one of them or just past them.
WithinList ==
    /\ InSuite => i \in Suites /\ list_size[i] > 0 /\ k <= list_size[i] + 1
    /\ phase = "body" => k <= list_size[i]

\* Every test behind has been started, none ahead has been.
RanBefore == \A s \in Suites : s < i =>
                list_size[s] > 0 /\ \A n \in 1 .. list_size[s] : verdicts[<<s, n>>] # "none"
RanInSuite == InSuite => \A n \in 1 .. k - 1 : verdicts[<<i, n>>] # "none"
NotRunAhead == \A s \in Suites, n \in 1 .. MaxTests :
                /\ phase # "done"
                /\ s > i \/ (s = i /\ (phase = "suites" \/ n > k \/ (n = k /\ phase = "tests")))
                => verdicts[<<s, n>>] = "none"

\* The result is the current test's, and its place lies in this suite.
ResultOfTest == phase = "body" => verdicts[<<i, k>>] = ret.val
PlaceInSuite == InSuite => ret.where[1] \in {0, i}

FailedBefore(n) == {m \in 1 .. n - 1 : verdicts[<<i, m>>] = "TEST_FAILED"}
Counted == InSuite => failed_tests = Cardinality(FailedBefore(k))

NoErrorYet == phase # "done" => retval = "NO_ERROR"

IInv ==
    /\ TypeOK /\ WithinList /\ RanBefore /\ RanInSuite /\ NotRunAhead /\ ResultOfTest
    /\ PlaceInSuite /\ Counted /\ NoErrorYet
    /\ SuiteVerdictExact /\ VerdictSound /\ NoForeignPlace

\* The failed tests before test n are finitely many, and one more if test n failed.
LEMMA FailedBeforeFinite ==
    ASSUME NEW n \in Nat
    PROVE  /\ IsFiniteSet(FailedBefore(n)) /\ Cardinality(FailedBefore(n)) \in Nat
           /\ Cardinality(FailedBefore(n)) = 0 <=> FailedBefore(n) = {}
<1>1. IsFiniteSet(1 .. n - 1)
  BY FS_Interval
<1>2. FailedBefore(n) \in SUBSET (1 .. n - 1)
  BY DEF FailedBefore
<1>3. IsFiniteSet(FailedBefore(n))
  BY <1>1, <1>2, FS_Subset
<1> QED
  BY <1>3, FS_CardinalityType, FS_EmptySet

\* Counting test n too adds one exactly if it failed.
LEMMA FailedBeforeNext ==
    ASSUME NEW n \in Nat \ {0}
    PROVE  Cardinality(FailedBefore(n + 1)) =
             Cardinality(FailedBefore(n)) + (IF verdicts[<<i, n>>] = "TEST_FAILED" THEN 1 ELSE 0)
<1>1. CASE verdicts[<<i, n>>] = "TEST_FAILED"
  <2>1. FailedBefore(n + 1) = FailedBefore(n) \cup {n}
    BY <1>1 DEF FailedBefore
  <2>2. n \notin FailedBefore(n)
    BY DEF FailedBefore
  <2>3. IsFiniteSet(FailedBefore(n))
    BY FailedBeforeFinite
  <2>4. Cardinality(FailedBefore(n) \cup {n}) = Cardinality(FailedBefore(n)) + 1
    BY <2>2, <2>3, FS_AddElement, Zenon
  <2> QED
    BY <1>1, <2>1, <2>4
<1>2. CASE verdicts[<<i, n>>] # "TEST_FAILED"
  <2>1. FailedBefore(n + 1) = FailedBefore(n)
    BY <1>2 DEF FailedBefore
  <2>2. Cardinality(FailedBefore(n)) \in Nat
    BY FailedBeforeFinite
  <2> QED
    BY <1>2, <2>1, <2>2
<1> QED
  BY <1>1, <1>2

\* A suite and a number of a test in it identify a test.
LEMMA TestIdOf ==
    ASSUME NEW s \in Suites, NEW n \in 1 .. MaxTests
    PROVE  <<s, n>> \in TestIds
BY DEF TestIds

\* What the type invariant says of numbers.
LEMMA Ranges ==
    ASSUME TypeOK
    PROVE  /\ i \in Nat /\ k \in Nat \ {0} /\ i <= NrSuites + 1
           /\ \A s \in Suites : s \in Nat /\ list_size[s] \in 0 .. MaxTests
           /\ \A s \in Suites, n \in Nat : 1 <= n /\ n <= list_size[s] => n \in 1 .. MaxTests
BY FrameworkAssumption DEF TypeOK, Suites

\* Where the framework is while a suite runs.
LEMMA InSuiteFacts ==
    ASSUME TypeOK, WithinList, InSuite, k <= list_size[i]
    PROVE  i \in Suites /\ k \in 1 .. MaxTests /\ <<i, k>> \in TestIds
<1>1. i \in Suites
  BY DEF WithinList
<1>2. k \in 1 .. MaxTests
  BY <1>1, Ranges
<1> QED
  BY <1>1, <1>2, TestIdOf

\* The current test's verdict is written: nothing changes for the tests behind.
LEMMA VerdictWritten ==
    ASSUME TypeOK, RanBefore, NEW v \in Status, i \in Suites, k \in 1 .. MaxTests,
           verdicts' = [verdicts EXCEPT ![<<i, k>>] = v], UNCHANGED <<i, k, list_size>>
    PROVE  /\ \A s \in Suites, n \in 1 .. MaxTests :
                verdicts'[<<s, n>>] = IF s = i /\ n = k THEN v ELSE verdicts[<<s, n>>]
           /\ RanBefore'
           /\ FailedBefore(k)' = FailedBefore(k)
           /\ \A s \in Suites : s < i => FailedIn(s)' = FailedIn(s)
<1>v. verdicts \in [TestIds -> Status \cup {"none"}]
  BY DEF TypeOK
<1>1. ASSUME NEW s \in Suites, NEW n \in 1 .. MaxTests
      PROVE  verdicts'[<<s, n>>] = IF s = i /\ n = k THEN v ELSE verdicts[<<s, n>>]
  <2>1. <<s, n>> \in TestIds
    BY TestIdOf
  <2>2. <<s, n>> = <<i, k>> <=> s = i /\ n = k
    OBVIOUS
  <2> QED
    BY <2>1, <2>2, <1>v
<1>2. RanBefore'
  <2> SUFFICES ASSUME NEW s \in Suites, s < i
               PROVE  /\ list_size[s] > 0
                      /\ \A n \in 1 .. list_size[s] : verdicts'[<<s, n>>] # "none"
    BY DEF RanBefore
  <2>1. list_size[s] > 0 /\ \A n \in 1 .. list_size[s] : verdicts[<<s, n>>] # "none"
    BY DEF RanBefore
  <2>2. ASSUME NEW n \in 1 .. list_size[s] PROVE verdicts'[<<s, n>>] # "none"
    <3>1. n \in 1 .. MaxTests /\ s # i
      BY Ranges
    <3> QED
      BY <3>1, <1>1, <2>1
  <2> QED
    BY <2>1, <2>2
<1>3. FailedBefore(k)' = FailedBefore(k)
  <2>1. \A n \in 1 .. k - 1 : n \in 1 .. MaxTests /\ n # k
    BY Ranges, FrameworkAssumption
  <2>2. \A n \in 1 .. k - 1 : verdicts'[<<i, n>>] = verdicts[<<i, n>>]
    BY <2>1, <1>1
  <2> QED
    BY <2>2 DEF FailedBefore
<1>4. ASSUME NEW s \in Suites, s < i PROVE FailedIn(s)' = FailedIn(s)
  <2>1. ASSUME NEW t \in TestIds, t[1] = s PROVE verdicts'[t] = verdicts[t]
    <3>1. t # <<i, k>>
      BY <2>1, <1>4, Ranges
    <3> QED
      BY <3>1, <1>v
  <2> QED
    BY <2>1 DEF FailedIn
<1> QED
  BY <1>1, <1>2, <1>3, <1>4

\* The invariant holds before run_test does anything.
LEMMA InitIInv == Init => IInv
<1> SUFFICES ASSUME Init PROVE IInv
  OBVIOUS
<1> USE FrameworkAssumption DEF Init, Suites, TestIds, Status, Errors, Nowhere, ZeroedResult
<1>1. TypeOK
  BY DEF TypeOK
<1>2. /\ WithinList /\ RanBefore /\ RanInSuite /\ ResultOfTest /\ PlaceInSuite /\ NoErrorYet
      /\ Counted /\ SuiteVerdictExact /\ VerdictSound /\ NoForeignPlace
  BY DEF WithinList, RanBefore, RanInSuite, ResultOfTest, PlaceInSuite, NoErrorYet, Counted,
         InSuite, SuiteVerdictExact, VerdictSound, NoForeignPlace
<1>3. NotRunAhead
  BY DEF NotRunAhead
<1> QED
  BY <1>1, <1>2, <1>3 DEF IInv

-----------------------------------------------------------------------------
(* One lemma per action that starts, runs or ends something. *)

\* run_testsuite begins: an empty list ends the run with nothing claimed.
LEMMA StartSuiteStep ==
    ASSUME IInv, NEW size \in 0 .. MaxTests, start_suite(size)
    PROVE  IInv'
<1> USE FrameworkAssumption DEF start_suite, Suites, TestIds, Status, Errors, Nowhere,
        ResultAtSuiteStart, FailedAtSuiteStart, ZeroedResult
<1>t. TypeOK
  BY DEF IInv
<1>1. TypeOK'
  BY <1>t, SMTT(30) DEF TypeOK
<1>2. WithinList'
  BY <1>t, SMTT(30) DEF TypeOK, WithinList, InSuite
<1>3. RanBefore'
  BY <1>t DEF IInv, TypeOK, RanBefore
<1>3a. RanInSuite'
  BY DEF RanInSuite
<1>3b. NotRunAhead'
  BY <1>t DEF IInv, NotRunAhead
<1>4. ResultOfTest' /\ PlaceInSuite' /\ NoErrorYet'
  BY <1>t DEF IInv, TypeOK, ResultOfTest, PlaceInSuite, NoErrorYet, InSuite
<1>5. Counted'
  <2>1. k' = 1 /\ failed_tests' = 0
    OBVIOUS
  <2>2. FailedBefore(k)' = {}
    BY <2>1 DEF FailedBefore
  <2> QED
    BY <2>1, <2>2, FS_EmptySet DEF Counted
<1>6. SuiteVerdictExact' /\ NoForeignPlace'
  BY DEF IInv, SuiteVerdictExact, NoForeignPlace, FailedIn
<1>7. VerdictSound'
  <2>1. CASE size = 0
    <3>1. ~AllRan'
      BY <2>1, <1>t DEF AllRan, TypeOK
    <3> QED
      BY <2>1, <3>1 DEF VerdictSound
  <2>2. CASE size # 0
    BY <2>2 DEF VerdictSound
  <2> QED
    BY <2>1, <2>2
<1> QED
  BY <1>1, <1>2, <1>3, <1>3a, <1>3b, <1>4, <1>5, <1>6, <1>7 DEF IInv

\* A test is started with a verdict of its own.
LEMMA StartTestStep ==
    ASSUME IInv, start_test
    PROVE  IInv'
<1> USE FrameworkAssumption
<1>t. TypeOK /\ WithinList /\ RanBefore /\ InSuite /\ k <= list_size[i]
  BY DEF IInv, start_test, InSuite
<1>i. i \in Suites /\ k \in 1 .. MaxTests /\ <<i, k>> \in TestIds
  BY <1>t, InSuiteFacts
<1>w. /\ verdicts' = [verdicts EXCEPT ![<<i, k>>] = "TEST_PASSED"]
      /\ "TEST_PASSED" \in Status /\ UNCHANGED <<i, k, list_size>>
  BY DEF start_test, Status
<1>v. /\ \A s \in Suites, n \in 1 .. MaxTests :
            verdicts'[<<s, n>>] = IF s = i /\ n = k THEN "TEST_PASSED" ELSE verdicts[<<s, n>>]
      /\ RanBefore' /\ FailedBefore(k)' = FailedBefore(k)
      /\ \A s \in Suites : s < i => FailedIn(s)' = FailedIn(s)
  BY <1>t, <1>i, <1>w, VerdictWritten
<1>1. TypeOK'
  BY <1>t, <1>i, <1>w DEF TypeOK, start_test, VerdictAtTestStart, Status
<1>2. WithinList'
  BY <1>t DEF WithinList, InSuite, start_test
<1>3. RanInSuite'
  <2>1. \A n \in 1 .. k - 1 : n \in 1 .. MaxTests /\ verdicts[<<i, n>>] # "none"
    BY <1>t, <1>i DEF IInv, RanInSuite
  <2> QED
    BY <2>1, <1>v, <1>w, <1>i DEF RanInSuite
<1>4. NotRunAhead'
  BY <1>v, <1>w, <1>i, <1>t, Ranges DEF IInv, NotRunAhead, start_test
<1>5. ResultOfTest' /\ PlaceInSuite' /\ NoErrorYet'
  BY <1>t, <1>v, <1>i DEF IInv, TypeOK, ResultOfTest, PlaceInSuite, NoErrorYet, InSuite, start_test,
                          VerdictAtTestStart
<1>6. Counted'
  BY <1>v, <1>t DEF IInv, Counted, InSuite, start_test
<1>7. SuiteVerdictExact'
  BY <1>v DEF IInv, SuiteVerdictExact, start_test
<1>8. VerdictSound' /\ NoForeignPlace'
  BY DEF IInv, VerdictSound, NoForeignPlace, start_test
<1> QED
  BY <1>1, <1>2, <1>v, <1>3, <1>4, <1>5, <1>6, <1>7, <1>8 DEF IInv

\* A list entry without a function ends the run before all tests have run.
LEMMA InvalidTestStep ==
    ASSUME IInv, invalid_test
    PROVE  IInv'
<1> USE FrameworkAssumption DEF invalid_test, Suites, TestIds, Status, Errors, Nowhere
<1>t. TypeOK /\ WithinList /\ i \in Suites /\ k \in 1 .. MaxTests /\ k \in 1 .. list_size[i]
  BY DEF IInv, TypeOK, WithinList, InSuite
<1>1. TypeOK'
  BY <1>t DEF TypeOK
<1>2. /\ WithinList' /\ RanBefore' /\ RanInSuite' /\ NotRunAhead' /\ ResultOfTest'
      /\ PlaceInSuite' /\ Counted' /\ NoErrorYet'
  BY DEF IInv, WithinList, RanBefore, RanInSuite, NotRunAhead, ResultOfTest, PlaceInSuite,
         Counted, NoErrorYet, InSuite
<1>3. SuiteVerdictExact' /\ NoForeignPlace'
  BY DEF IInv, SuiteVerdictExact, NoForeignPlace, FailedIn
<1>4. VerdictSound'
  <2>1. verdicts[<<i, k>>] = "none"
    BY <1>t DEF IInv, NotRunAhead
  <2>2. ~AllRan'
    BY <2>1, <1>t DEF AllRan
  <2> QED
    BY <2>2 DEF VerdictSound
<1> QED
  BY <1>1, <1>2, <1>3, <1>4 DEF IInv

\* A test returns and is counted if it failed.
LEMMA TestReturnsStep ==
    ASSUME IInv, test_returns
    PROVE  IInv'
<1> USE FrameworkAssumption DEF test_returns
<1>p. TypeOK /\ WithinList /\ InSuite /\ k <= list_size[i]
  BY DEF IInv, WithinList, InSuite
<1>t. TypeOK /\ i \in Suites /\ k \in 1 .. MaxTests /\ <<i, k>> \in TestIds
  BY <1>p, InSuiteFacts
<1>1. TypeOK'
  <2>1. failed_tests' \in 0 .. k
    BY <1>t DEF TypeOK, CountFailed
  <2>2. k' = k + 1 /\ k' \in 1 .. MaxTests + 1 /\ failed_tests' \in 0 .. k' - 1
    BY <1>t, <2>1
  <2>3. reported' \in [test : TestIds \cup {Nowhere}, where : TestIds \cup {Nowhere}]
    BY <1>t DEF TypeOK
  <2> QED
    BY <1>t, <2>2, <2>3 DEF TypeOK
<1>2. WithinList'
  BY <1>p, <1>t, Ranges DEF WithinList, InSuite
<1>3. RanBefore' /\ ResultOfTest' /\ PlaceInSuite' /\ NoErrorYet'
  BY DEF IInv, RanBefore, ResultOfTest, PlaceInSuite, NoErrorYet, InSuite
<1>3a. NotRunAhead'
  BY <1>t, Ranges DEF IInv, NotRunAhead
<1>4. RanInSuite'
  <2>1. verdicts[<<i, k>>] # "none"
    BY <1>t DEF IInv, ResultOfTest, TypeOK, Status
  <2> QED
    BY <2>1, <1>t DEF IInv, RanInSuite, InSuite
<1>5. Counted'
  <2>1. FailedBefore(k)' = FailedBefore(k + 1)
    BY DEF FailedBefore
  <2>2. failed_tests = Cardinality(FailedBefore(k))
    BY DEF IInv, Counted, InSuite
  <2>3. verdicts[<<i, k>>] = ret.val
    BY DEF IInv, ResultOfTest
  <2>4. k \in Nat \ {0}
    BY <1>t
  <2>5. Cardinality(FailedBefore(k + 1)) = failed_tests'
    BY <2>2, <2>3, <2>4, FailedBeforeNext DEF CountFailed
  <2> QED
    BY <2>1, <2>5 DEF Counted
<1>6. SuiteVerdictExact' /\ VerdictSound'
  BY DEF IInv, SuiteVerdictExact, VerdictSound, FailedIn
<1>7. NoForeignPlace'
  BY <1>t DEF IInv, NoForeignPlace, PlaceInSuite, InSuite, TypeOK
<1> QED
  BY <1>1, <1>2, <1>3, <1>3a, <1>4, <1>5, <1>6, <1>7 DEF IInv

\* The suite gets its verdict: the count is zero exactly if none of its tests failed.
LEMMA EndSuiteStep ==
    ASSUME IInv, end_suite
    PROVE  IInv'
<1> USE FrameworkAssumption DEF end_suite
<1>t. TypeOK /\ WithinList /\ i \in Suites /\ k = list_size[i] + 1 /\ k \in Nat
  <2>1. TypeOK /\ WithinList /\ i \in Suites
    BY DEF IInv, WithinList, InSuite
  <2> QED
    BY <2>1, Ranges DEF WithinList, InSuite
<1>1. TypeOK'
  <2>1. i' \in 1 .. NrSuites + 1
    BY <1>t DEF Suites
  <2>2. val' \in [Suites -> {"TEST_PASSED", "TEST_FAILED"}]
    BY <1>t DEF TypeOK
  <2> QED
    BY <1>t, <2>1, <2>2 DEF TypeOK
<1>2. WithinList' /\ RanInSuite' /\ ResultOfTest' /\ PlaceInSuite' /\ Counted' /\ NoErrorYet'
  BY <1>t DEF IInv, WithinList, RanInSuite, ResultOfTest, PlaceInSuite, Counted, NoErrorYet, InSuite
<1>3. RanBefore'
  <2>1. \A n \in 1 .. list_size[i] : verdicts[<<i, n>>] # "none"
    BY <1>t, Ranges DEF IInv, RanInSuite, InSuite
  <2>2. \A s \in Suites : s < i + 1 => s < i \/ s = i
    BY <1>t, Ranges
  <2> QED
    BY <2>1, <2>2, <1>t DEF IInv, RanBefore, WithinList, InSuite
<1>4. NotRunAhead'
  <2>1. \A s \in Suites : s > i + 1 \/ s = i + 1 => s > i
    BY <1>t, Ranges
  <2> QED
    BY <2>1 DEF IInv, NotRunAhead
<1>5. SuiteVerdictExact'
  <2>1. failed_tests = 0 <=> FailedBefore(k) = {}
    BY <1>t, FailedBeforeFinite DEF IInv, Counted, InSuite
  <2>2. FailedIn(i) = {} <=> FailedBefore(k) = {}
    <3>1. ASSUME NEW t \in FailedIn(i) PROVE t[2] \in FailedBefore(k)
      <4>1. t \in TestIds /\ t = <<i, t[2]>> /\ verdicts[t] = "TEST_FAILED" /\ t[2] \in 1 .. MaxTests
        BY DEF FailedIn, TestIds
      <4>2. verdicts[<<i, t[2]>>] # "none"
        BY <4>1
      <4>3. ~(t[2] > k) /\ t[2] # k
        BY <4>1, <4>2, <1>t DEF IInv, NotRunAhead
      <4> QED
        BY <4>1, <4>3, <1>t DEF FailedBefore
    <3>2. ASSUME NEW n \in FailedBefore(k) PROVE <<i, n>> \in FailedIn(i)
      <4>1. n \in 1 .. MaxTests /\ verdicts[<<i, n>>] = "TEST_FAILED"
        BY <1>t, Ranges DEF FailedBefore
      <4>2. <<i, n>> \in TestIds /\ <<i, n>>[1] = i
        BY <4>1, <1>t, TestIdOf
      <4> QED
        BY <4>1, <4>2 DEF FailedIn
    <3> QED
      BY <3>1, <3>2
  <2>3. \A s \in Suites : FailedIn(s)' = FailedIn(s)
    BY DEF FailedIn
  <2>4. val'[i] = "TEST_FAILED" <=> FailedIn(i) # {}
    BY <2>1, <2>2, <1>t DEF TypeOK
  <2>5. ASSUME NEW s \in Suites, s < i' PROVE val'[s] = "TEST_FAILED" <=> FailedIn(s)' # {}
    <3>1. CASE s = i
      BY <3>1, <2>3, <2>4
    <3>2. CASE s # i
      <4>1. s < i /\ val'[s] = val[s]
        BY <3>2, <2>5, <1>t, Ranges DEF TypeOK
      <4> QED
        BY <4>1, <2>3 DEF IInv, SuiteVerdictExact
    <3> QED
      BY <3>1, <3>2
  <2> QED
    BY <2>5 DEF SuiteVerdictExact
<1>6. VerdictSound' /\ NoForeignPlace'
  BY DEF IInv, VerdictSound, NoForeignPlace
<1> QED
  BY <1>1, <1>2, <1>3, <1>4, <1>5, <1>6 DEF IInv

\* run_test computes its return value from the verdicts of all suites.
LEMMA SummaryStep ==
    ASSUME IInv, summary
    PROVE  IInv'
<1> USE FrameworkAssumption DEF summary, Suites, TestIds, Status, Errors, Nowhere
<1>t. TypeOK /\ i = NrSuites + 1
  BY DEF IInv, TypeOK
<1>1. TypeOK'
  BY <1>t DEF TypeOK
<1>2. /\ WithinList' /\ RanBefore' /\ RanInSuite' /\ NotRunAhead' /\ ResultOfTest'
      /\ PlaceInSuite' /\ Counted' /\ NoErrorYet'
  BY DEF IInv, WithinList, RanBefore, RanInSuite, NotRunAhead, ResultOfTest, PlaceInSuite,
         Counted, NoErrorYet, InSuite
<1>3. SuiteVerdictExact' /\ NoForeignPlace'
  BY DEF IInv, SuiteVerdictExact, NoForeignPlace, FailedIn
<1>4. VerdictSound'
  <2>1. AllRan'
    BY <1>t DEF IInv, RanBefore, AllRan
  <2>2. \A s \in Suites : val[s] # "TEST_PASSED" <=> FailedIn(s) # {}
    BY <1>t, SMTT(30) DEF IInv, SuiteVerdictExact, TypeOK
  <2>3. SuitesFailed = {} <=> \A s \in Suites : FailedIn(s) = {}
    BY <2>2 DEF SuitesFailed
  <2>4. \A s \in Suites : FailedIn(s)' = FailedIn(s)
    BY DEF FailedIn
  <2>5. retval = "NO_ERROR"
    BY DEF IInv, NoErrorYet
  <2> QED
    BY <2>1, <2>3, <2>4, <2>5 DEF VerdictSound
<1> QED
  BY <1>1, <1>2, <1>3, <1>4 DEF IInv

\* What a test may do to the result, either by TEST_FAIL or by an assignment.
LEMMA BodyStep ==
    ASSUME IInv, NEW v \in Status, phase = "body", ret'.val = v,
           ret' \in [val : Status, where : {ret.where, <<i, k>>}],
           verdicts' = [verdicts EXCEPT ![<<i, k>>] = v],
           UNCHANGED <<phase, i, k, list_size, failed_tests, val, retval, reported>>
    PROVE  IInv'
<1> USE FrameworkAssumption
<1>t. TypeOK /\ WithinList /\ RanBefore /\ InSuite /\ k <= list_size[i]
  BY DEF IInv, InSuite, WithinList
<1>i. i \in Suites /\ k \in 1 .. MaxTests /\ <<i, k>> \in TestIds
  BY <1>t, InSuiteFacts
<1>v. /\ \A s \in Suites, n \in 1 .. MaxTests :
            verdicts'[<<s, n>>] = IF s = i /\ n = k THEN v ELSE verdicts[<<s, n>>]
      /\ RanBefore' /\ FailedBefore(k)' = FailedBefore(k)
      /\ \A s \in Suites : s < i => FailedIn(s)' = FailedIn(s)
  BY <1>t, <1>i, VerdictWritten
<1>1. TypeOK'
  BY <1>t, <1>i DEF TypeOK
<1>2. WithinList' /\ NoErrorYet'
  BY <1>t DEF IInv, WithinList, NoErrorYet, InSuite
<1>3. RanInSuite'
  <2>1. \A n \in 1 .. k - 1 : n \in 1 .. MaxTests /\ verdicts[<<i, n>>] # "none"
    BY <1>t, <1>i DEF IInv, RanInSuite
  <2> QED
    BY <2>1, <1>v, <1>i DEF RanInSuite, Status
<1>4. NotRunAhead'
  BY <1>v, <1>i, <1>t, Ranges DEF IInv, NotRunAhead
<1>5. ResultOfTest'
  BY <1>v, <1>i DEF ResultOfTest
<1>6. PlaceInSuite'
  <2>1. ret'.where \in {ret.where, <<i, k>>}
    OBVIOUS
  <2>2. ret.where[1] \in {0, i} /\ <<i, k>>[1] = i
    BY <1>t DEF IInv, PlaceInSuite
  <2> QED
    BY <2>1, <2>2 DEF PlaceInSuite
<1>7. Counted'
  BY <1>v, <1>t DEF IInv, Counted, InSuite
<1>8. SuiteVerdictExact'
  BY <1>v DEF IInv, SuiteVerdictExact
<1>9. VerdictSound' /\ NoForeignPlace'
  BY DEF IInv, VerdictSound, NoForeignPlace
<1> QED
  BY <1>1, <1>2, <1>v, <1>3, <1>4, <1>5, <1>6, <1>7, <1>8, <1>9 DEF IInv

\* Every step keeps the invariant.
LEMMA NextIInv == IInv /\ [Next]_vars => IInv'
<1> SUFFICES ASSUME IInv, [Next]_vars PROVE IInv'
  OBVIOUS
<1>1. CASE \E size \in 0 .. MaxTests : start_suite(size)
  BY <1>1, StartSuiteStep
<1>2. CASE start_test
  BY <1>2, StartTestStep
<1>3. CASE invalid_test
  BY <1>3, InvalidTestStep
<1>4. CASE test_returns
  BY <1>4, TestReturnsStep
<1>5. CASE end_suite
  BY <1>5, EndSuiteStep
<1>6. CASE summary
  BY <1>6, SummaryStep
<1>7. CASE set_test_failed
  <2>1. ret'.val = "TEST_FAILED" /\ ret' \in [val : Status, where : {ret.where, <<i, k>>}]
    BY <1>7 DEF set_test_failed, Status
  <2> QED
    BY <1>7, <2>1, BodyStep DEF set_test_failed, Status
<1>8. CASE \E v \in Status : set_val(v)
  <2> PICK v \in Status : set_val(v)
    BY <1>8
  <2>1. ret'.val = v /\ ret' \in [val : Status, where : {ret.where, <<i, k>>}]
    BY DEF set_val, IInv, TypeOK
  <2> QED
    BY <2>1, BodyStep DEF set_val
<1>9. CASE UNCHANGED vars
  BY <1>9 DEF vars, IInv, TypeOK, WithinList, RanBefore, RanInSuite, NotRunAhead, ResultOfTest,
              PlaceInSuite, Counted, NoErrorYet, SuiteVerdictExact, VerdictSound, NoForeignPlace,
              InSuite, FailedBefore, FailedIn, AllRan
<1> QED
  BY <1>1, <1>2, <1>3, <1>4, <1>5, <1>6, <1>7, <1>8, <1>9 DEF Next

\* The invariant holds throughout.
LEMMA Invariance == Spec => []IInv
BY InitIInv, NextIInv, PTL DEF Spec

-----------------------------------------------------------------------------
\* The framework's state keeps its types; failed_tests never exceeds the number of
\* tests of the suite that have returned.
THEOREM TypeCorrect == Spec => []TypeOK
<1>1. IInv => TypeOK
  BY DEF IInv
<1> QED
  BY <1>1, Invariance, PTL

\* run_test's return value is right: no error exactly if all tests of all suites
\* have run and none has failed, "failed" only if one has.
THEOREM ReturnValueRight == Spec => []VerdictSound
<1>1. IInv => VerdictSound
  BY DEF IInv
<1> QED
  BY <1>1, Invariance, PTL

\* A suite is marked failed exactly if one of its own tests has failed.
THEOREM SuiteVerdictsRight == Spec => []SuiteVerdictExact
<1>1. IInv => SuiteVerdictExact
  BY DEF IInv
<1> QED
  BY <1>1, Invariance, PTL

\* The number of failed tests in the log is the number of tests of the suite whose
\* verdict was failure.
THEOREM FailureCountRight == Spec => []FailedCountExact
<1>1. IInv => FailedCountExact
  BY DEF IInv, Counted, FailedBefore, InSuite, FailedCountExact
<1> QED
  BY <1>1, Invariance, PTL

\* A reported failure carries no place of another suite.
THEOREM PlaceWithinSuite == Spec => []NoForeignPlace
<1>1. IInv => NoForeignPlace
  BY DEF IInv
<1> QED
  BY <1>1, Invariance, PTL
=============================================================================
