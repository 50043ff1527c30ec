--------------------------- MODULE TestFramework ---------------------------
(***************************************************************************)
(* The regression test framework                                           *)
(* (tests_reg/test/framework/test_framework.c): run_test runs the suites   *)
(* of a table, run_testsuite the tests of a suite, and every test writes   *)
(* its verdict into one test_result_t that lives as long as the suite.     *)
(*                                                                         *)
(* A test is anything that writes the result and returns; the suites'      *)
(* registration functions set any list, the empty one included.  Names,    *)
(* descriptions and the log's wording are left out, except where a         *)
(* reported failure is said to have happened.                              *)
(***************************************************************************)
EXTENDS Naturals, FiniteSets

CONSTANTS NrSuites,     \* the suites of test_suites[]
          MaxTests      \* bound: the tests of a suite

ASSUME FrameworkAssumption == NrSuites \in Nat /\ MaxTests \in Nat

VARIABLES
    phase,          \* where run_test is
    i,              \* the suite, as in run_test
    k,              \* the test, i in run_testsuite
    list_size,      \* per suite, once registered
    ret,            \* test_result_t: the verdict and where TEST_FAIL was called
    failed_tests,
    val,            \* the suites' verdicts
    retval,
    reported,       \* the last test_failed: the test, and the place it prints
    verdicts        \* history: what each test that has started wrote last

vars == <<phase, i, k, list_size, ret, failed_tests, val, retval, reported, verdicts>>

Suites == 1 .. NrSuites
Nowhere == <<0, 0>>
TestIds == Suites \X (1 .. MaxTests)
Status == {"TEST_PASSED", "TEST_FAILED", "TEST_SKIPPED"}
Errors == {"NO_ERROR", "INVALID_DATA", "INVALID_TEST_DATA", "TEST_FAILED"}

ZeroedResult == [val |-> "TEST_PASSED", where |-> Nowhere]

-----------------------------------------------------------------------------
(* run_testsuite *)

ResultAtSuiteStart == ZeroedResult

FailedAtSuiteStart == 0

\* freg sets the list; one without tests ends the whole run.
start_suite(size) ==
    /\ phase = "suites" /\ i <= NrSuites
    /\ list_size' = [list_size EXCEPT ![i] = size]
    /\ IF size = 0
       THEN phase' = "done" /\ retval' = "INVALID_DATA"
       ELSE phase' = "tests" /\ UNCHANGED retval
    /\ ret' = ResultAtSuiteStart
    /\ k' = 1 /\ failed_tests' = FailedAtSuiteStart
    /\ UNCHANGED <<i, val, reported, verdicts>>

\* Mutant of VerdictAtTestStart: the previous verdict stays.
Mut_KeepVerdict == ret.val

VerdictAtTestStart == "TEST_PASSED"

start_test ==
    /\ phase = "tests" /\ k <= list_size[i]
    /\ ret' = [ret EXCEPT !.val = VerdictAtTestStart]
    /\ phase' = "body"
    /\ verdicts' = [verdicts EXCEPT ![<<i, k>>] = "TEST_PASSED"]
    /\ UNCHANGED <<i, k, list_size, failed_tests, val, retval, reported>>

\* A list entry without function or name also ends the whole run.
invalid_test ==
    /\ phase = "tests" /\ k <= list_size[i]
    /\ phase' = "done" /\ retval' = "INVALID_TEST_DATA"
    /\ UNCHANGED <<i, k, list_size, ret, failed_tests, val, reported, verdicts>>

CountFailed == failed_tests + (IF ret.val = "TEST_FAILED" THEN 1 ELSE 0)

\* The test returns and its verdict is reported.
test_returns ==
    /\ phase = "body"
    /\ failed_tests' = CountFailed
    /\ reported' = IF ret.val = "TEST_FAILED"
                   THEN [test |-> <<i, k>>, where |-> ret.where] ELSE reported
    /\ k' = k + 1
    /\ phase' = "tests"
    /\ UNCHANGED <<i, list_size, ret, val, retval, verdicts>>

end_suite ==
    /\ phase = "tests" /\ k > list_size[i]
    /\ val' = [val EXCEPT ![i] = IF failed_tests = 0 THEN "TEST_PASSED" ELSE "TEST_FAILED"]
    /\ i' = i + 1
    /\ phase' = "suites"
    /\ UNCHANGED <<k, list_size, ret, failed_tests, retval, reported, verdicts>>

-----------------------------------------------------------------------------
(* What tests do with the result: TEST_FAIL, which is set_test_failed, and   *)
(* plain assignments to ret->val.                                            *)

set_test_failed ==
    /\ phase = "body"
    /\ ret' = [val |-> "TEST_FAILED", where |-> <<i, k>>]
    /\ verdicts' = [verdicts EXCEPT ![<<i, k>>] = "TEST_FAILED"]
    /\ UNCHANGED <<phase, i, k, list_size, failed_tests, val, retval, reported>>

set_val(v) ==
    /\ phase = "body"
    /\ ret' = [ret EXCEPT !.val = v]
    /\ verdicts' = [verdicts EXCEPT ![<<i, k>>] = v]
    /\ UNCHANGED <<phase, i, k, list_size, failed_tests, val, retval, reported>>

-----------------------------------------------------------------------------
(* run_test *)

\* Mutant of SuitesFailed: only the last suite counts.
Mut_LastSuiteOnly == {s \in {NrSuites} \cap Suites : val[s] # "TEST_PASSED"}

SuitesFailed == {s \in Suites : val[s] # "TEST_PASSED"}

\* After the last suite: the summary.
summary ==
    /\ phase = "suites" /\ i > NrSuites
    /\ retval' = IF SuitesFailed = {} THEN retval ELSE "TEST_FAILED"
    /\ phase' = "done"
    /\ UNCHANGED <<i, k, list_size, ret, failed_tests, val, reported, verdicts>>

-----------------------------------------------------------------------------
\* The table's verdicts are zero, TEST_PASSED, before anything has run.
Init ==
    /\ phase = "suites" /\ i = 1 /\ k = 1
    /\ list_size = [s \in Suites |-> 0]
    /\ ret = ZeroedResult
    /\ failed_tests = 0
    /\ val = [s \in Suites |-> "TEST_PASSED"]
    /\ retval = "NO_ERROR"
    /\ reported = [test |-> Nowhere, where |-> Nowhere]
    /\ verdicts = [t \in TestIds |-> "none"]

Next ==
    \/ \E size \in 0 .. MaxTests : start_suite(size)
    \/ start_test \/ invalid_test \/ test_returns \/ end_suite \/ summary
    \/ set_test_failed \/ \E v \in Status : set_val(v)

Spec == Init /\ [][Next]_vars

-----------------------------------------------------------------------------
(* Properties. *)

\* Types; the tests of a suite are all that can fail in it.
TypeOK ==
    /\ phase \in {"suites", "tests", "body", "done"}
    /\ i \in 1 .. NrSuites + 1 /\ k \in 1 .. MaxTests + 1
    /\ list_size \in [Suites -> 0 .. MaxTests]
    /\ ret \in [val : Status, where : TestIds \cup {Nowhere}]
    /\ failed_tests \in 0 .. k - 1
    /\ val \in [Suites -> {"TEST_PASSED", "TEST_FAILED"}]
    /\ retval \in Errors
    /\ reported \in [test : TestIds \cup {Nowhere}, where : TestIds \cup {Nowhere}]
    /\ verdicts \in [TestIds -> Status \cup {"none"}]

FailedIn(s) == {t \in TestIds : t[1] = s /\ verdicts[t] = "TEST_FAILED"}
AllRan == \A s \in Suites : list_size[s] > 0 /\ \A n \in 1 .. list_size[s] : verdicts[<<s, n>>] # "none"

\* run_test reports no error only if every test of every suite has run and none
\* failed, whatever the tests before it did to the shared result, and it reports
\* failed tests only if there are some.
VerdictSound ==
    phase = "done" =>
        /\ retval = "NO_ERROR" <=> AllRan /\ \A s \in Suites : FailedIn(s) = {}
        /\ retval = "TEST_FAILED" => AllRan /\ \E s \in Suites : FailedIn(s) # {}

\* A suite's verdict is that of its tests: a suite behind has failed exactly if
\* one of its tests has, one ahead has none.
SuiteVerdictExact ==
    \A s \in Suites : s < i => (val[s] = "TEST_FAILED" <=> FailedIn(s) # {})

\* The number of failed tests that the log gives is that of the tests of this
\* suite that themselves ended in failure.
FailedCountExact ==
    phase = "tests" =>
        failed_tests = Cardinality({n \in 1 .. k - 1 : verdicts[<<i, n>>] = "TEST_FAILED"})

\* A failure is never reported as having happened in another suite.
NoForeignPlace == reported.where[1] \in {0, reported.test[1]}

=============================================================================
