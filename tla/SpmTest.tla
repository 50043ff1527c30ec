------------------------------ MODULE SpmTest ------------------------------
(***************************************************************************)
(* The IPC and SFN test suites with the test partitions they call.  A      *)
(* non-secure client, the secure test partition and the client partition   *)
(* of test S_IPC 1006 run their scripts; the service partition answers     *)
(* one message at a time, in the order of its if-else chain.               *)
(*                                                                         *)
(* External: the SPM passes messages and answers.  It may be out of        *)
(* connections (transiently, or because tests left theirs open), and it    *)
(* may be broken in one of the ways the suites are there to find.          *)
(***************************************************************************)
EXTENDS SpmScripts, FiniteSets

CONSTANTS MaxHandles,   \* the SPM's connections
          MaxBusy,      \* bound: connections a working SPM refuses for other reasons
          Broken        \* the ways in which the SPM may be broken

Defects == {"none", "no output", "wrong rhandle", "grants refused", "connects stateless",
            "status lost", "no version", "wrong input", "id not translated"}

ASSUME SpmAssumption == MaxHandles \in Nat /\ MaxBusy \in Nat /\ Broken \subseteq Defects

VARIABLES
    backend,        \* the build: "IPC" or "SFN"
    broken,         \* the SPM's defect
    cl,             \* the clients: where they are in their script, the last answer
    conns,          \* external: the SPM's connections
    queue,          \* external: messages not yet answered
    connect_cnt, first_handle, private_data,    \* ipc_service_rhandle_check
    aborted,        \* the service partition is in tfm_abort
    busy,           \* refused connections so far
    hit,            \* history: tests during which a connection was refused
    verdicts        \* history: the verdicts of the tests that have ended

srvVars == <<connect_cnt, first_handle, private_data, aborted>>
spmVars == <<conns, queue>>
histVars == <<busy, hit, verdicts>>
vars == <<backend, broken, cl, conns, queue, connect_cnt, first_handle, private_data,
          aborted, busy, hit, verdicts>>

Clients == {"NS", "S", "CP"}
Handles == 1 .. MaxHandles
NoConn == [svc |-> "none", owner |-> "none", rhandle |-> 0]

Suite(c) ==
    IF c = "CP" THEN <<ipc_isolation_2_psa_access_app_memory>>
    ELSE IF backend = "SFN" THEN sfn_tests(c)
    ELSE IF c = "NS" THEN ns_ipc_tests ELSE s_ipc_tests

Finished(c) == cl[c].test > Len(Suite(c))
Now(c) == Suite(c)[cl[c].test][cl[c].step]
Ready(c) == cl[c].state = "ready" /\ ~Finished(c) /\ cl[c].step <= Len(Suite(c)[cl[c].test])

-----------------------------------------------------------------------------
(* The clients. *)

\* The answer to the current call is handed to the client.
Answered(c, status, out) == [cl[c] EXCEPT !.state = "answered", !.status = status, !.out = out]

Send(c, hdl, type) ==
    /\ queue' = queue \cup {[from |-> c, svc |-> Now(c).svc, type |-> type, hdl |-> hdl]}
    /\ cl' = [cl EXCEPT ![c].state = "blocked"]

\* psa_framework_version and psa_version.
query(c) ==
    /\ Ready(c) /\ Now(c).op = "query"
    /\ cl' = [cl EXCEPT ![c] = Answered(c, IF broken = "no version" THEN NOT_SUPPORTED
                                           ELSE SUCCESS, cl[c].out)]
    /\ UNCHANGED <<backend, broken, spmVars, srvVars, histVars>>

Stateless(svc) == svc \in {"STATELESS", "MMIOVEC", "SFN_STATELESS"}

\* Grants connection hdl, in variable Now(c).h of the client.
Granted(c, hdl) == [Answered(c, HANDLE, cl[c].out) EXCEPT !.h[Now(c).h] = hdl]

\* psa_connect reserves a connection and asks the service.
connect(c) ==
    /\ Ready(c) /\ Now(c).op = "connect" /\ ~Stateless(Now(c).svc)
    /\ \E hdl \in Handles :
        /\ conns[hdl] = NoConn /\ \A lower \in 1 .. hdl - 1 : conns[lower] # NoConn
        /\ conns' = [conns EXCEPT ![hdl] = [svc |-> Now(c).svc, owner |-> c, rhandle |-> 0]]
        /\ Send(c, hdl, CONNECT)
    /\ UNCHANGED <<backend, broken, srvVars, histVars>>

\* The SPM itself refuses to connect to a stateless service.
connect_stateless(c) ==
    /\ Ready(c) /\ Now(c).op = "connect" /\ Stateless(Now(c).svc)
    /\ IF broken = "connects stateless"
       THEN \E hdl \in Handles :
                /\ conns[hdl] = NoConn
                /\ conns' = [conns EXCEPT ![hdl] = [svc |-> Now(c).svc, owner |-> c, rhandle |-> 0]]
                /\ cl' = [cl EXCEPT ![c] = Granted(c, hdl)]
       ELSE /\ cl' = [cl EXCEPT ![c] = Answered(c, PROGRAMMER_ERROR, cl[c].out)]
            /\ UNCHANGED conns
    /\ UNCHANGED <<backend, broken, queue, srvVars, histVars>>

\* The test on behalf of which c runs.
TestOf(c) == IF c = "CP" THEN <<"S", cl["S"].test>> ELSE <<c, cl[c].test>>

\* The SPM has no connection for psa_connect, or none for now.
connect_busy(c) ==
    /\ Ready(c) /\ Now(c).op = "connect" /\ ~Stateless(Now(c).svc)
    /\ busy < MaxBusy \/ \A hdl \in Handles : conns[hdl] # NoConn
    /\ busy' = IF busy < MaxBusy THEN busy + 1 ELSE busy
    /\ hit' = hit \cup {TestOf(c)}
    /\ cl' = [cl EXCEPT ![c] = Answered(c, BUSY, cl[c].out)]
    /\ UNCHANGED <<backend, broken, spmVars, srvVars, verdicts>>

call(c) ==
    /\ Ready(c) /\ Now(c).op = "call"
    /\ Send(c, IF Now(c).h = 0 THEN 0 ELSE cl[c].h[Now(c).h], Now(c).type)
    /\ UNCHANGED <<backend, broken, conns, srvVars, histVars>>

close(c) ==
    /\ Ready(c) /\ Now(c).op = "close"
    /\ Send(c, cl[c].h[Now(c).h], DISCONNECT)
    /\ UNCHANGED <<backend, broken, conns, srvVars, histVars>>

\* A test looks again at what the last call has written.
check(c) ==
    /\ Ready(c) /\ Now(c).op = "check"
    /\ cl' = [cl EXCEPT ![c].state = "answered", ![c].status = SUCCESS]
    /\ UNCHANGED <<backend, broken, spmVars, srvVars, histVars>>

\* The test judges the answer.
judge(c) ==
    LET op == Now(c)
        good == cl[c].status \in op.ok /\ cl[c].out \in op.out
        leave == ~good /\ op.miss = "return"
    IN  /\ cl[c].state = "answered"
        /\ cl' = [cl EXCEPT ![c].state = "ready",
                            ![c].val = IF good THEN @ ELSE "TEST_FAILED",
                            ![c].step = IF leave THEN Len(Suite(c)[cl[c].test]) + 1 ELSE @ + 1]
        /\ UNCHANGED <<backend, broken, spmVars, srvVars, histVars>>

StartOf(test) ==
    [test |-> test, step |-> 1, state |-> "ready", status |-> SUCCESS, out |-> Silent,
     h |-> [v \in 1 .. 2 |-> 0], val |-> "TEST_PASSED"]

TestOver(c) == cl[c].state = "ready" /\ ~Finished(c) /\ cl[c].step > Len(Suite(c)[cl[c].test])

next_test(c) ==
    /\ c # "CP" /\ TestOver(c)
    /\ verdicts' = [verdicts EXCEPT ![c] = Append(@, cl[c].val)]
    /\ cl' = [cl EXCEPT ![c] = StartOf(cl[c].test + 1)]
    /\ UNCHANGED <<backend, broken, spmVars, srvVars, busy, hit>>

-----------------------------------------------------------------------------
(* Answers on their way back to the client. *)

Seen(status) == IF broken = "status lost" THEN SUCCESS ELSE status

\* psa_reply(msg.handle, status), with out written to the output vectors.
Reply(m, status, out) ==
    LET client == m.from
        heard == Seen(status)
        granted == heard = SUCCESS \/ broken = "grants refused"
        keep == IF m.type = CONNECT THEN granted ELSE m.type # DISCONNECT
        written == IF broken = "no output" \/ m.type \in {CONNECT, DISCONNECT} THEN cl[client].out ELSE out
    IN  /\ queue' = queue \ {m}
        /\ cl' = [cl EXCEPT ![client] =
                    IF m.type = CONNECT /\ granted THEN Granted(client, m.hdl)
                    ELSE Answered(client, heard, written)]
        /\ conns' = IF keep \/ m.hdl = 0 THEN conns ELSE [conns EXCEPT ![m.hdl] = NoConn]
        /\ UNCHANGED <<backend, broken, histVars>>

\* As Reply, where handling the connection request has called psa_set_rhandle.
ReplyWithRhandle(m, rhandle) ==
    /\ queue' = queue \ {m}
    /\ cl' = [cl EXCEPT ![m.from] = Granted(m.from, m.hdl)]
    /\ conns' = [conns EXCEPT ![m.hdl].rhandle = rhandle]
    /\ UNCHANGED <<backend, broken, histVars>>

-----------------------------------------------------------------------------
(* The service partition. *)

Order == <<"BASIC", "APP_MEM", "PROGRAMMER_ERROR", "STATELESS", "MMIOVEC", "CLIENT_ID",
           "RHANDLE", "REFUSED">>

Rank(svc) == CHOOSE n \in 1 .. Len(Order) : Order[n] = svc
ForService == {m \in queue : m.svc \in {Order[n] : n \in 1 .. Len(Order)}}

\* psa_wait has returned: the first signal in the order of the chain is handled.
Handled(m, svc) ==
    /\ ~aborted /\ m \in ForService /\ m.svc = svc
    /\ \A other \in ForService : Rank(svc) <= Rank(other.svc)

tfm_abort ==
    /\ aborted' = TRUE
    /\ UNCHANGED <<backend, broken, cl, spmVars, connect_cnt, first_handle, private_data, histVars>>

\* The services compare the input vectors with what the tests send.
InputRight == broken # "wrong input"

client_api_test_rot_srv(m) ==
    IF InputRight THEN Reply(m, SUCCESS, OUTPUT) ELSE Reply(m, "CLIENT_API_TEST_ERROR_FAIL", Silent)

ipc_service_basic(m) ==
    /\ Handled(m, "BASIC")
    /\ CASE m.type \in {CONNECT, DISCONNECT} -> Reply(m, SUCCESS, Silent)
         [] m.type = REQUEST -> client_api_test_rot_srv(m)
         [] OTHER -> Reply(m, NOT_SUPPORTED, Silent)
    /\ UNCHANGED srvVars

\* The client's variable is changed to 'B' if it holds 'A'.
ipc_service_psa_access_app_mem(m) ==
    /\ Handled(m, "APP_MEM")
    /\ CASE m.type \in {CONNECT, DISCONNECT} -> Reply(m, SUCCESS, Silent) /\ UNCHANGED srvVars
         [] m.type = CALL ->
              /\ IF InputRight THEN Reply(m, SUCCESS, LetterB) ELSE Reply(m, "-1", Silent)
              /\ UNCHANGED srvVars
         [] OTHER -> tfm_abort

ipc_service_programmer_error(m) ==
    /\ Handled(m, "PROGRAMMER_ERROR")
    /\ CASE m.type \in {CONNECT, DISCONNECT} -> Reply(m, SUCCESS, Silent) /\ UNCHANGED srvVars
         [] m.type = CALL -> Reply(m, PROGRAMMER_ERROR, Silent) /\ UNCHANGED srvVars
         [] OTHER -> tfm_abort

ipc_service_stateless_rot(m) ==
    /\ Handled(m, "STATELESS")
    /\ IF m.type = REQUEST THEN client_api_test_rot_srv(m) ELSE Reply(m, PROGRAMMER_ERROR, Silent)
    /\ UNCHANGED srvVars

MMIOVEC_ERROR == "TFM_MMIOVEC_TEST_ERROR"

\* Only an output vector that is unmapped again comes back with a length.
mmiovec_service(m, otherwise) ==
    CASE m.type = OUTVEC -> Reply(m, SUCCESS, OUTPUT)
      [] m.type = OUTVEC_ONLY -> Reply(m, SUCCESS, Silent)
      [] m.type = INVEC -> Reply(m, IF InputRight THEN SUCCESS ELSE MMIOVEC_ERROR, Silent)
      [] OTHER -> Reply(m, otherwise, Silent)

ipc_service_mmiovec_test_handle(m) ==
    Handled(m, "MMIOVEC") /\ mmiovec_service(m, MMIOVEC_ERROR) /\ UNCHANGED srvVars

\* The status that psa_get returned overwrites the PSA_ERROR_INVALID_ARGUMENT
\* that the handlers start with.
StatusAfterGet == SUCCESS

IdTranslated(m) == broken # "id not translated"

ipc_service_client_id_translate(m) ==
    /\ Handled(m, "CLIENT_ID")
    /\ CASE m.type \in {CONNECT, DISCONNECT} -> Reply(m, SUCCESS, Silent) /\ UNCHANGED srvVars
         [] m.type = ID_CHECK ->
              /\ Reply(m, IF IdTranslated(m) THEN SUCCESS ELSE StatusAfterGet, Silent)
              /\ UNCHANGED srvVars
         [] OTHER -> tfm_abort

\* msg.rhandle: which of the two private records belongs to the connection.
Rhandle(m) == IF broken = "wrong rhandle" THEN 1 ELSE conns[m.hdl].rhandle

ExpectedData(r) == IF r = 1 THEN 2 ELSE 242

\* Mutant of CountedUp: the call answers before it counts.
Mut_NotCounted(n) == n

CountedUp(n) == (n + 1) % 256

rhandle_connect(m) ==
    IF connect_cnt > 1 \/ (connect_cnt = 1 /\ first_handle = m.hdl)
    THEN tfm_abort
    ELSE /\ ReplyWithRhandle(m, connect_cnt + 1)
         /\ connect_cnt' = connect_cnt + 1
         /\ first_handle' = IF connect_cnt = 0 THEN m.hdl ELSE first_handle
         /\ UNCHANGED <<private_data, aborted>>

ipc_service_rhandle_check(m) ==
    LET r == Rhandle(m)
    IN  /\ Handled(m, "RHANDLE")
        /\ CASE m.type = CONNECT -> rhandle_connect(m)
             [] m.type = DISCONNECT ->
                  /\ Reply(m, IF private_data[r] = ExpectedData(r) THEN SUCCESS ELSE StatusAfterGet, Silent)
                  /\ UNCHANGED <<connect_cnt, first_handle, private_data, aborted>>
             [] m.type = RHANDLE_CHECK ->
                  /\ private_data' = [private_data EXCEPT ![r] = CountedUp(@)]
                  /\ Reply(m, SUCCESS, CountedUp(private_data[r]))
                  /\ UNCHANGED <<connect_cnt, first_handle, aborted>>
             [] OTHER -> tfm_abort

ipc_service_connection_refused(m) ==
    /\ Handled(m, "REFUSED")
    /\ IF m.type = CONNECT THEN Reply(m, REFUSED, Silent) /\ UNCHANGED srvVars ELSE tfm_abort

-----------------------------------------------------------------------------
(* The client partition: a CALL makes it a client of the service partition. *)

ipc_client_handle_ser_req(m) ==
    /\ m \in queue /\ m.svc = "CLIENT_APP_MEM" /\ cl["CP"].state = "idle"
    /\ IF m.type \in {CONNECT, DISCONNECT}
       THEN Reply(m, SUCCESS, Silent)
       ELSE /\ m.type = CALL
            /\ cl' = [cl EXCEPT !["CP"] = StartOf(1)]
            /\ UNCHANGED <<backend, broken, spmVars, histVars>>
    /\ UNCHANGED srvVars

\* Mutant of ipc_client_reply: the partition does not go back to its loop.
Mut_LoopLeft(m) ==
    /\ m \in queue /\ m.svc = "CLIENT_APP_MEM" /\ m.type = CALL /\ TestOver("CP")
    /\ queue' = queue \ {m}
    /\ cl' = [cl EXCEPT ![m.from] = Answered(m.from, SUCCESS, IPC_SP_TEST_SUCCESS)]
    /\ UNCHANGED <<backend, broken, conns, srvVars, histVars>>

\* The function has returned and the partition writes its result and replies.
ipc_client_reply(m) ==
    /\ m \in queue /\ m.svc = "CLIENT_APP_MEM" /\ m.type = CALL /\ TestOver("CP")
    /\ queue' = queue \ {m}
    /\ cl' = [cl EXCEPT
                ![m.from] = Answered(m.from, SUCCESS,
                                IF cl["CP"].val = "TEST_PASSED" /\ broken # "no output"
                                THEN IPC_SP_TEST_SUCCESS ELSE cl[m.from].out),
                !["CP"] = [StartOf(1) EXCEPT !.state = "idle"]]
    /\ UNCHANGED <<backend, broken, conns, srvVars, histVars>>

-----------------------------------------------------------------------------
(* The SFN partition. *)

sfn_test_stateless_sfn(m) ==
    /\ m \in queue /\ m.svc = "SFN_STATELESS"
    /\ CASE m.type = CALL -> Reply(m, SUCCESS, Silent)
         [] m.type = REQUEST -> client_api_test_rot_srv(m)
         [] OTHER -> mmiovec_service(m, PROGRAMMER_ERROR)
    /\ UNCHANGED srvVars

sfn_test_connection_based_sfn(m) ==
    /\ m \in queue /\ m.svc = "SFN_BASED"
    /\ CASE m.type \in {CONNECT, DISCONNECT} -> Reply(m, SUCCESS, Silent)
         [] m.type = REQUEST -> client_api_test_rot_srv(m)
         [] OTHER -> Reply(m, NOT_SUPPORTED, Silent)
    /\ UNCHANGED srvVars

sfn_test_connection_refused_sfn(m) ==
    /\ m \in queue /\ m.svc = "SFN_REFUSED"
    /\ Reply(m, IF m.type = CONNECT THEN REFUSED ELSE NOT_SUPPORTED, Silent)
    /\ UNCHANGED srvVars

-----------------------------------------------------------------------------
Init ==
    /\ backend \in {"IPC", "SFN"}
    /\ broken \in Broken
    /\ cl = [c \in Clients |-> IF c = "CP" THEN [StartOf(1) EXCEPT !.state = "idle"] ELSE StartOf(1)]
    /\ conns = [hdl \in Handles |-> NoConn]
    /\ queue = {}
    /\ connect_cnt = 0 /\ first_handle = 0
    /\ private_data = [r \in 1 .. 2 |-> IF r = 1 THEN 0 ELSE 240]
    /\ aborted = FALSE
    /\ busy = (IF broken = "none" THEN 0 ELSE MaxBusy) /\ hit = {}
    /\ verdicts = [c \in Clients |-> <<>>]

ClientStep(c) ==
    \/ query(c) \/ connect(c) \/ connect_stateless(c) \/ connect_busy(c)
    \/ call(c) \/ close(c) \/ check(c) \/ judge(c) \/ next_test(c)

ipc_service_test_main(m) ==
    \/ ipc_service_basic(m) \/ ipc_service_psa_access_app_mem(m) \/ ipc_service_programmer_error(m)
    \/ ipc_service_stateless_rot(m) \/ ipc_service_mmiovec_test_handle(m)
    \/ ipc_service_client_id_translate(m) \/ ipc_service_rhandle_check(m)
    \/ ipc_service_connection_refused(m)

PartitionStep(m) ==
    \/ ipc_service_test_main(m) \/ ipc_client_handle_ser_req(m) \/ ipc_client_reply(m)
    \/ sfn_test_stateless_sfn(m) \/ sfn_test_connection_based_sfn(m)
    \/ sfn_test_connection_refused_sfn(m)

Next == (\E c \in Clients : ClientStep(c)) \/ \E m \in queue : PartitionStep(m)

Spec == Init /\ [][Next]_vars

\* Clients and partitions are scheduled.
FairSpec ==
    /\ Spec
    /\ \A c \in Clients : WF_vars(ClientStep(c))
    /\ WF_vars(\E m \in queue : PartitionStep(m))

-----------------------------------------------------------------------------
(* Properties. *)

Ended(c) == 1 .. Len(verdicts[c])

\* On a working SPM a test fails exactly if the SPM refused it a connection,
\* whichever other suite runs at the same time and whatever the tests before it
\* left behind.
VerdictExact ==
    broken = "none" =>
        \A c \in {"NS", "S"} : \A n \in Ended(c) :
            verdicts[c][n] = "TEST_FAILED" <=> <<c, n>> \in hit

\* The defects that the suite of a build has a test for.
Covered ==
    Defects \ ({"none"} \cup
        IF backend = "SFN" THEN {"wrong rhandle", "id not translated"} ELSE {})

\* The non-secure suite finds a broken SPM: one of its tests fails.
BrokenFound ==
    broken \in Covered /\ Finished("NS") => \E n \in Ended("NS") : verdicts["NS"][n] = "TEST_FAILED"

\* A test that passes closes what it opened: what is open when no test of a client
\* is under way was left behind by one that failed.
LeakOnlyByFailure ==
    \A c \in {"NS", "S"} :
        /\ cl[c].step = 1 /\ cl[c].state = "ready"
        /\ \E hdl \in Handles : conns[hdl].owner = c
        => \E n \in Ended(c) : verdicts[c][n] = "TEST_FAILED"

\* Both suites come to their end: neither clients, client partition and service
\* partition wait for one another, nor does a message stay unanswered.
SuitesEnd == <>(Finished("NS") /\ Finished("S"))

\* What the suite says of test NS_IPC 1016, "Testing Client-Id Translation": it
\* fails if the SPM does not translate the client ID.
ClientIdTested ==
    \A n \in Ended("NS") :
        backend = "IPC" /\ Suite("NS")[n] = NS_IPC_1016 /\ broken = "id not translated"
        => verdicts["NS"][n] = "TEST_FAILED"

=============================================================================
