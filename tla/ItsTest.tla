------------------------------ MODULE ItsTest ------------------------------
(***************************************************************************)
(* The Internal Trusted Storage suites against the storage service: what   *)
(* their verdicts mean.                                                    *)
(***************************************************************************)
EXTENDS ItsScripts, StorageTest

\* The tests that rely on what an earlier test of their suite has left: the
\* write-once asset of 002, and the UIDs that 001 and 008 have removed.
Needs == {<<2, 4>>, <<2, 10>>, <<2, 14>>, <<1, 7>>, <<8, 12>>}

\* With a service that has always worked, a test fails only if one of its calls was
\* not served, or a call of the one test it relies on, in the same boot: whatever an
\* earlier boot was interrupted at, what it has left never fails a test
\* (its_tests_common.c, "clean up storage for the next test" and the note on a
\* previous test run in 002).
NoFalseAlarm ==
    sound => \A t \in failed :
        \E h \in hit :
            \/ h[1] = t
            \/ /\ Run[h[1]].client = Run[t].client
               /\ <<Run[h[1]].nr, Run[t].nr>> \in Needs

\* A test does not pass if one of its calls was not served, neither by the device nor
\* by Secure Client 2.  The one exception is the get of 001, whose status is never
\* looked at (its_tests_common.c:60): what becomes of the test is then up to what the
\* stack holds in read_data_length and read_data_2.
FaultsSeen ==
    \A h \in hit : h[1] < test => h[1] \in failed \/ Run[h[1]].script[h[2]].uninit

WriteOnceKept == \A c \in {"S", "NS"} : <<c, WRITE_ONCE_UID>> \in kept

\* A boot with a broken service has a test that fails, on a wiped device and on one
\* where an earlier boot has left anything.  The exception is a service that ignores
\* the flags of a second set: only 002 finds it, and only where it creates the
\* write-once asset ("Wipe the storage area to run the full test").
DefectFound ==
    Done /\ broken # "none" => failed # {} \/ (broken = "keeps flags" /\ WriteOnceKept)
=============================================================================
