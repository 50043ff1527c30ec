----------------------------- MODULE SpmScripts -----------------------------
(***************************************************************************)
(* The tests of the IPC and SFN suites                                     *)
(* (tests_reg/test/secure_fw/suites/spm) as scripts: the calls of the PSA  *)
(* client API that a test makes in order, which answers it accepts, and    *)
(* whether an answer it does not accept ends the test at once or only      *)
(* fails it.  The isolation tests that end in a deliberate fault (S_IPC    *)
(* 1007, 1008, 1009 and 1011) are not in the default build and are left    *)
(* out.                                                                    *)
(***************************************************************************)
EXTENDS Naturals, Sequences

\* Answers to psa_connect (HANDLE is a valid handle) and psa_call.
SUCCESS == "PSA_SUCCESS"
HANDLE == "handle > 0"
REFUSED == "PSA_ERROR_CONNECTION_REFUSED"
BUSY == "PSA_ERROR_CONNECTION_BUSY"
PROGRAMMER_ERROR == "PSA_ERROR_PROGRAMMER_ERROR"
NOT_SUPPORTED == "PSA_ERROR_NOT_SUPPORTED"
ConnectErrors == {REFUSED, BUSY, PROGRAMMER_ERROR}

\* Output vectors, as one byte: 0 if nothing was written, OUTPUT for the services'
\* fixed patterns (CLIENT_API_TEST_OUTPUT_DATA, MMIOVEC_OUTPUT_DATA).
Byte == 0 .. 255
Silent == 0
OUTPUT == 165
LetterB == 66
IPC_SP_TEST_SUCCESS == 1

\* Message types; the mmiovec types are all answered by the same service.
CONNECT == "PSA_IPC_CONNECT"
DISCONNECT == "PSA_IPC_DISCONNECT"
CALL == "PSA_IPC_CALL"
REQUEST == "CLIENT_API_TEST_TYPE_REQUEST_SRV"
INVEC == "INVEC_MAP_AND_UNMAP"
OUTVEC == "OUTVEC_MAP_AND_UNMAP"
OUTVEC_ONLY == "OUTVEC_MAP_NOT_UNMAP"
ID_CHECK == "CLIENT_ID_TRANSLATE_TEST_TYPE_REQUEST_SRVC"
RHANDLE_CHECK == "IPC_SERVICE_RHANDLE_CHECK_TYPE_REQUEST_SRVC"

\* One step of a script.  h is the variable that holds the handle, 0 for a
\* service's stateless handle; miss is what follows an answer outside ok or out.
Step(op, svc, h, type, ok, out, miss) ==
    [op |-> op, svc |-> svc, h |-> h, type |-> type, ok |-> ok, out |-> out, miss |-> miss]

Query == Step("query", "SPM", 0, CALL, {SUCCESS}, Byte, "return")
ConnectTo(svc, h, ok) == Step("connect", svc, h, CONNECT, ok, Byte, "return")
CallOn(svc, h, type, ok, out, miss) == Step("call", svc, h, type, ok, out, miss)
\* Mutant of CheckOut: the outputs are not compared.
Mut_CheckNothing(out) == Step("check", "SPM", 0, CALL, {SUCCESS}, Byte, "go on")

CheckOut(out) == Step("check", "SPM", 0, CALL, {SUCCESS}, out, "go on")
CloseIt(svc, h) == Step("close", svc, h, DISCONNECT, {SUCCESS}, Byte, "go on")

-----------------------------------------------------------------------------
(* The tests shared by the suites. *)

psa_framework_version_test == <<Query>>
psa_version_test == <<Query>>

request_rot_service_test(svc, h) == <<CallOn(svc, h, REQUEST, {SUCCESS}, {OUTPUT}, "go on")>>

invec_map_unmap_test(svc) == <<CallOn(svc, 0, INVEC, {SUCCESS}, Byte, "return")>>
outvec_map_unmap_test(svc) == <<CallOn(svc, 0, OUTVEC, {SUCCESS}, {OUTPUT}, "return")>>
outvec_map_only_test(svc) == <<CallOn(svc, 0, OUTVEC_ONLY, {SUCCESS}, {Silent}, "return")>>

connection_based_test(svc) ==
    <<ConnectTo(svc, 1, {HANDLE})>> \o request_rot_service_test(svc, 1) \o <<CloseIt(svc, 1)>>

stateless_test(svc) ==
    <<ConnectTo(svc, 1, ConnectErrors)>> \o request_rot_service_test(svc, 0)

-----------------------------------------------------------------------------
(* The non-secure and secure IPC suites and the test of the client partition. *)

NS_IPC_1003 == <<ConnectTo("BASIC", 1, {HANDLE}), CloseIt("BASIC", 1)>>

NS_IPC_1010 ==
    LET again == CallOn("PROGRAMMER_ERROR", 1, CALL, {PROGRAMMER_ERROR}, Byte, "go on")
    IN  <<ConnectTo("PROGRAMMER_ERROR", 1, {HANDLE}), again, again, CloseIt("PROGRAMMER_ERROR", 1)>>

NS_IPC_1016 ==
    <<ConnectTo("CLIENT_ID", 1, {HANDLE}),
      CallOn("CLIENT_ID", 1, ID_CHECK, {SUCCESS}, Byte, "go on"),
      CloseIt("CLIENT_ID", 1)>>

\* Mutant of NS_IPC_1017: the second handle is never closed.
Mut_CloseOne ==
    LET twice(h) == <<CallOn("RHANDLE", h, RHANDLE_CHECK, {SUCCESS}, Byte, "return"),
                      CallOn("RHANDLE", h, RHANDLE_CHECK, {SUCCESS}, Byte, "return")>>
    IN  <<ConnectTo("RHANDLE", 1, {HANDLE})>> \o twice(1) \o <<CheckOut({2})>>
        \o <<ConnectTo("RHANDLE", 2, {HANDLE})>> \o twice(2) \o <<CheckOut({242})>>
        \o <<CloseIt("RHANDLE", 1)>>

\* Two connections, two calls on each; the service counts from 0x00 on the first
\* and from 0xF0 on the second.
NS_IPC_1017 ==
    LET twice(h) == <<CallOn("RHANDLE", h, RHANDLE_CHECK, {SUCCESS}, Byte, "return"),
                      CallOn("RHANDLE", h, RHANDLE_CHECK, {SUCCESS}, Byte, "return")>>
    IN  <<ConnectTo("RHANDLE", 1, {HANDLE})>> \o twice(1) \o <<CheckOut({2})>>
        \o <<ConnectTo("RHANDLE", 2, {HANDLE})>> \o twice(2) \o <<CheckOut({242})>>
        \o <<CloseIt("RHANDLE", 1), CloseIt("RHANDLE", 2)>>

NS_IPC_1018 == <<ConnectTo("REFUSED", 1, {REFUSED})>>

ns_ipc_tests ==
    <<psa_framework_version_test, psa_version_test, NS_IPC_1003, connection_based_test("BASIC"),
      NS_IPC_1010, stateless_test("STATELESS"), invec_map_unmap_test("MMIOVEC"),
      outvec_map_unmap_test("MMIOVEC"), outvec_map_only_test("MMIOVEC"),
      NS_IPC_1016, NS_IPC_1017, NS_IPC_1018>>

\* The client partition writes 1 for success; its caller looks for more than 0.
S_IPC_1006 ==
    <<ConnectTo("CLIENT_APP_MEM", 1, {HANDLE}),
      CallOn("CLIENT_APP_MEM", 1, CALL, {SUCCESS}, {IPC_SP_TEST_SUCCESS}, "go on"),
      CloseIt("CLIENT_APP_MEM", 1)>>

s_ipc_tests ==
    <<psa_framework_version_test, psa_version_test, connection_based_test("BASIC"),
      S_IPC_1006, request_rot_service_test("STATELESS", 0)>>

ipc_isolation_2_psa_access_app_memory ==
    <<ConnectTo("APP_MEM", 1, {HANDLE}),
      CallOn("APP_MEM", 1, CALL, {SUCCESS}, {LetterB}, "go on"),
      CloseIt("APP_MEM", 1)>>

-----------------------------------------------------------------------------
(* The SFN suites: a secure client does not try to connect to the stateless   *)
(* service, which would be a panic.                                           *)

tfm_sfn_test_1008 == <<ConnectTo("SFN_REFUSED", 1, {REFUSED})>>

sfn_tests(domain) ==
    <<psa_framework_version_test, psa_version_test, connection_based_test("SFN_BASED"),
      IF domain = "NS" THEN stateless_test("SFN_STATELESS")
                       ELSE request_rot_service_test("SFN_STATELESS", 0),
      invec_map_unmap_test("SFN_STATELESS"), outvec_map_unmap_test("SFN_STATELESS"),
      outvec_map_only_test("SFN_STATELESS"), tfm_sfn_test_1008>>
=============================================================================
