-------------------------------- MODULE Erpc --------------------------------
(***************************************************************************)
(* The PSA client API over eRPC: erpc/host_example, erpc/client,           *)
(* erpc/server and the generated shims.  A client calls one method at a    *)
(* time; its shim encodes the arguments, sends the request and blocks for  *)
(* the reply.  The server decodes the arguments into memory it allocates,  *)
(* calls the PSA API, encodes the reply and frees the memory.              *)
(*                                                                         *)
(* The eRPC library (codec, framed transport with a CRC, server loop) and  *)
(* the secure partition manager behind the PSA API are external.  A        *)
(* message is a sequence of words, read in the order it was written; a     *)
(* binary is its length and a tag for its bytes.  The server's loop ends   *)
(* at the first error, and nothing in src/ starts it again.                *)
(***************************************************************************)
EXTENDS Integers, Sequences, FiniteSets, SequencesExt

CONSTANTS
    PSA_MAX_IOVEC,
    BufferSize,         \* words in a message buffer (ERPC_DEFAULT_BUFFER_SIZE)
    Lengths,            \* lengths, in words, of a caller's vectors
    MaxVecs,            \* bound on the vectors of one direction
    Sids,               \* service identifiers
    Types,              \* request types
    MaxHandle,          \* bound on the connections the SPM grants
    MaxCalls,           \* bound on the calls of a behaviour
    MaxFaults           \* bound on the failures of a behaviour

ASSUME ErpcAssumption ==
    /\ PSA_MAX_IOVEC \in Nat /\ Lengths \subseteq Nat
    \* a header and one word: the code's buffer has 3072 bytes
    /\ BufferSize \in Nat /\ BufferSize >= 3
    /\ MaxVecs \in Nat /\ MaxHandle \in Nat /\ MaxCalls \in Nat /\ MaxFaults \in Nat

VARIABLES
    host,       \* the client program: [pc, transport, args]
    client,     \* the call in progress: [pc, req]
    ret,        \* what the last call returned: [value, outs]
    wire,       \* the messages under way
    server,     \* the server: [pc, service, msg]
    heap,       \* the blocks the server's shims have allocated and not freed
    spm,        \* external: [conns, done], done the executions for this call
    known,      \* the connections the client holds
    calls,
    faults,     \* the failures so far
    overrun     \* an array or a caller's buffer was written past its end

vars == <<host, client, ret, wire, server, heap, spm, known, calls, faults, overrun>>

\* psa_framework_version .. psa_close: enum _psa_client_api_ids
Methods == {"psa_framework_version", "psa_version", "erpc_psa_call", "psa_connect", "psa_close"}

PSA_SUCCESS == 0
PSA_ERROR_PROGRAMMER_ERROR == -129
PSA_ERROR_CONNECTION_REFUSED == -130
\* -1, and 0xFFFFFFFF for the methods that return a uint32_t.
NoResult == -1

\* External: something fails in the library, the heap or the transport.
Fault(kind) == Len(faults) < MaxFaults /\ faults' = Append(faults, kind)

-----------------------------------------------------------------------------
(* Messages. *)

Vec(tag, len) == [data |-> tag, len |-> len]

\* f[1] + ... + f[n]
Total(f, n) ==
    LET sum[k \in 0 .. n] == IF k = 0 THEN 0 ELSE sum[k - 1] + f[k]
    IN  sum[n]

\* binary_t and list_binary_1_t as words: a count, then length and bytes of each.
list_binary_size(list) == 1 + Total([i \in DOMAIN list |-> 1 + list[i].len], Len(list))

\* A header of two words, one word for each integer.
MessageSize(msg) ==
    2 + msg.words
      + Total([i \in DOMAIN msg.lists |-> list_binary_size(msg.lists[i])], Len(msg.lists))

\* The request of a method: its integers and its lists, in the order written.
Encode(method, ints, lists) ==
    [kind |-> "invocation", method |-> method, ints |-> ints, lists |-> lists,
     words |-> Len(ints), crc |-> TRUE]

\* Mutant of EncodeReply: the codec is not reset, and the reply follows the request.
Mut_NoReset(method, ints, lists) ==
    [Encode(method, ints, lists) EXCEPT !.kind = "reply", !.words = @ + MessageSize(server.msg)]

EncodeReply(method, ints, lists) == [Encode(method, ints, lists) EXCEPT !.kind = "reply"]

-----------------------------------------------------------------------------
(* External: the secure side. *)

OutsFor(outs) ==
    {o \in [DOMAIN outs -> [data : {"new"}, len : Lengths]] :
        \A i \in DOMAIN outs : o[i].len <= outs[i].len}

\* What the SPM may answer: an error leaves or updates the output vectors.
PsaOutcomes(r) ==
    CASE r.method = "psa_framework_version" -> {[value |-> 256, outs |-> <<>>]}
      [] r.method = "psa_version" -> [value : {0, 1}, outs : {<<>>}]
      [] r.method = "psa_connect" ->
            [value : 1 .. MaxHandle \cup {PSA_ERROR_CONNECTION_REFUSED}, outs : {<<>>}]
      [] r.method = "psa_close" -> {[value |-> 0, outs |-> <<>>]}
      [] r.method = "erpc_psa_call" ->
            [value : {PSA_SUCCESS, PSA_ERROR_PROGRAMMER_ERROR}, outs : OutsFor(r.out)]

\* The request is executed; a connection is granted or closed.
PsaExecute(r, o) ==
    /\ r.method = "psa_connect" /\ o.value > 0 => o.value \notin spm.conns
    /\ spm' = [done |-> Append(spm.done, [req |-> r, outcome |-> o]),
               conns |-> CASE r.method = "psa_connect" /\ o.value > 0 -> spm.conns \cup {o.value}
                           [] r.method = "psa_close" -> spm.conns \ {r.handle}
                           [] OTHER -> spm.conns]

-----------------------------------------------------------------------------
(* Start of the two programs. *)

\* A command line: how many words it has, and how often each option is there.
Argv == [argc : 1 .. 5, uart : 0 .. 2, tcp : 0 .. 2]
ARGC_UART == 3
ARGC_TCP == 4
\* argc - optind
Operands(a) == a.argc - 1 - a.uart - a.tcp

\* main's checks of its arguments, in their order.
SelectTransport(a) ==
    CASE a.argc # ARGC_UART /\ a.argc # ARGC_TCP -> "exit"
      [] a.uart = 0 /\ a.tcp = 0 -> "exit"
      [] a.uart > 0 /\ a.tcp > 0 -> "exit"
      [] a.uart > 0 -> IF Operands(a) # 1 THEN "exit" ELSE "uart"
      [] a.tcp > 0 -> IF Operands(a) # 2 THEN "exit" ELSE "tcp"

\* main of the example and of the regression tests' host: the transport is
\* chosen and opened (built for one, it needs no arguments); without a transport
\* main returns 1.
host_main ==
    /\ host.pc = "start"
    /\ \E a \in {b \in Argv : Operands(b) >= 0}, built \in {"uart", "tcp", "exit"} :
          LET transport == IF built = "exit" THEN SelectTransport(a) ELSE built
          IN  \/ /\ host' = [pc |-> IF transport = "exit" THEN "exit" ELSE "open",
                             transport |-> transport,
                             args |-> IF built = "exit" THEN Operands(a) ELSE -1]
                 /\ UNCHANGED faults
              \/ /\ transport # "exit" /\ Fault("client_transport")
                 /\ host' = [host EXCEPT !.pc = "exit"]
    /\ UNCHANGED <<client, ret, wire, server, heap, spm, known, calls, overrun>>

\* The client manager is set up, and main goes on to make calls: here any calls,
\* its own being psa_framework_version and the psa_call of psa_hash_compute.
erpc_client_start ==
    /\ host.pc = "open"
    /\ host' = [pc |-> "run", transport |-> "none", args |-> -1]
    /\ UNCHANGED <<client, ret, wire, server, heap, spm, known, calls, faults, overrun>>

\* test_app and erpc_server_start: a missing transport is only logged, and the
\* server then uses it; the service may be missing too (new (nothrow)).
erpc_server_start ==
    /\ server.pc = "off"
    /\ \/ UNCHANGED faults /\ server' = [server EXCEPT !.pc = "receive"]
       \/ /\ Fault("server_transport")
          /\ server' = [server EXCEPT !.pc = "undefined"]
       \/ /\ Fault("server_service")
          /\ server' = [server EXCEPT !.pc = "receive", !.service = FALSE]
    /\ UNCHANGED <<host, client, ret, wire, heap, spm, known, calls, overrun>>

-----------------------------------------------------------------------------
(* The client's shims (tfm_erpc_client.cpp). *)

\* The end of a shim: the request is released and the caller gets the result.
Finish(value, outs) ==
    /\ ret' = [value |-> value, outs |-> outs]
    /\ client' = [pc |-> "idle", req |-> <<>>]
    /\ spm' = [spm EXCEPT !.done = <<>>]
    /\ calls' = calls + 1

\* A shim up to performRequest: no codec is an error; a request that does not
\* fit the buffer leaves the codec in error and is not sent; a send may fail.
Perform(req, msg) ==
    /\ host.pc = "run" /\ client.pc = "idle" /\ calls < MaxCalls
    /\ IF MessageSize(msg) > BufferSize
       THEN client' = [pc |-> "failed", req |-> req] /\ UNCHANGED <<wire, faults>>
       ELSE \/ /\ client' = [pc |-> "wait", req |-> req] /\ wire' = Append(wire, msg)
               /\ UNCHANGED faults
            \/ /\ Fault("client_codec") /\ UNCHANGED wire
               /\ client' = [pc |-> "failed", req |-> req]
            \/ /\ Fault("client_send") /\ UNCHANGED wire
               /\ client' = [pc |-> "failed", req |-> req]
    /\ UNCHANGED <<host, ret, server, heap, spm, calls>>

\* A result other than Success of the codec: every shim returns NoResult (psa_close
\* nothing), and the caller's vectors are not touched.
shim_error ==
    /\ client.pc = "failed"
    /\ Finish(NoResult, client.req.out)
    /\ UNCHANGED <<host, wire, server, heap, known, faults, overrun>>

psa_framework_version ==
    /\ Perform([method |-> "psa_framework_version", out |-> <<>>],
               Encode("psa_framework_version", <<>>, <<>>))
    /\ UNCHANGED <<known, overrun>>

psa_version ==
    /\ \E sid \in Sids :
          Perform([method |-> "psa_version", sid |-> sid, out |-> <<>>],
                  Encode("psa_version", <<sid>>, <<>>))
    /\ UNCHANGED <<known, overrun>>

psa_connect ==
    /\ \E sid \in Sids, ver \in {1, 2} :
          Perform([method |-> "psa_connect", sid |-> sid, ver |-> ver, out |-> <<>>],
                  Encode("psa_connect", <<sid, ver>>, <<>>))
    /\ UNCHANGED <<known, overrun>>

\* The client gives the handle up, whatever becomes of the request.
psa_close ==
    /\ \E h \in known :
          /\ Perform([method |-> "psa_close", handle |-> h, out |-> <<>>],
                     Encode("psa_close", <<h>>, <<>>))
          /\ known' = known \ {h}
    /\ UNCHANGED overrun

\* The shim of erpc_psa_call: handle, type and both lists are written.
erpc_psa_call(handle, type, erpc_in_vec, erpc_out_vec) ==
    Perform([method |-> "erpc_psa_call", handle |-> handle, type |-> type,
             in |-> erpc_in_vec, out |-> erpc_out_vec],
            Encode("erpc_psa_call", <<handle, type>>, <<erpc_in_vec, erpc_out_vec>>))

\* Both wrappers copy the vectors of a call into two arrays of PSA_MAX_IOVEC
\* elements, the server's erpc_psa_call without a check of its own.
CopiedPastEnd(in_vec, out_vec) == Len(in_vec) > PSA_MAX_IOVEC \/ Len(out_vec) > PSA_MAX_IOVEC

CallerVecs(tag) == {[i \in DOMAIN lens |-> Vec(tag, lens[i])] : lens \in BoundedSeq(Lengths, MaxVecs)}

\* Mutant of psa_call: the number of vectors is not checked.
Mut_NoVecCheck ==
    /\ \E h \in known, type \in Types, in_vec \in CallerVecs("in"), out_vec \in CallerVecs("old") :
          /\ erpc_psa_call(h, type, in_vec, out_vec)
          /\ overrun' = (overrun \/ CopiedPastEnd(in_vec, out_vec))
    /\ UNCHANGED known

\* psa_call of erpc_client_wrapper.c: too many vectors are refused without a
\* call; the vectors are copied into arrays of PSA_MAX_IOVEC elements.
psa_call ==
    /\ \E h \in known, type \in Types, in_vec \in CallerVecs("in"), out_vec \in CallerVecs("old") :
          IF Len(in_vec) + Len(out_vec) > PSA_MAX_IOVEC
          THEN /\ host.pc = "run" /\ client.pc = "idle" /\ calls < MaxCalls
               /\ ret' = [value |-> PSA_ERROR_PROGRAMMER_ERROR, outs |-> out_vec]
               /\ calls' = calls + 1
               /\ UNCHANGED <<host, client, wire, server, heap, spm, faults, overrun>>
          ELSE /\ erpc_psa_call(h, type, in_vec, out_vec)
               /\ overrun' = (overrun \/ CopiedPastEnd(in_vec, out_vec))
    /\ UNCHANGED known

\* The lists of the reply are copied over the caller's buffers, whatever their
\* size; the wrapper passes the lengths on only when the status is PSA_SUCCESS.
read_list_binary(list) ==
    [i \in DOMAIN list |-> Vec(list[i].data, list[i].len)]

\* Mutant of CallerOuts: the lengths are passed on whatever the status.
Mut_LensAlways(status, outs) == outs

\* erpc_client_wrapper.c after the call.
CallerOuts(status, outs) ==
    [i \in DOMAIN outs |->
        Vec(outs[i].data, IF status = PSA_SUCCESS THEN outs[i].len ELSE client.req.out[i].len)]

\* The rest of performRequest and of the shim: a reply that fails its CRC is an
\* error, any other gives the result.
shim_result ==
    /\ client.pc = "wait" /\ wire # <<>> /\ Head(wire).kind = "reply"
    /\ wire' = Tail(wire)
    /\ LET msg == Head(wire)
           value == IF msg.ints = <<>> THEN 0 ELSE msg.ints[1]
           outs == IF msg.lists = <<>> THEN <<>> ELSE read_list_binary(msg.lists[1])
       IN  IF ~msg.crc
           THEN /\ client' = [client EXCEPT !.pc = "failed"]
                /\ UNCHANGED <<ret, spm, known, calls, overrun>>
           ELSE /\ Finish(value, CallerOuts(value, outs))
                /\ known' = known \cup (IF msg.method = "psa_connect" /\ value > 0
                                        THEN {value} ELSE {})
                /\ overrun' = (overrun \/ \E i \in DOMAIN outs : outs[i].len > client.req.out[i].len)
    /\ UNCHANGED <<host, server, heap, faults>>

-----------------------------------------------------------------------------
(* The server's shims (tfm_erpc_server.cpp). *)

\* External: the server's loop takes a message.  One that fails its CRC, for a
\* service that is not there or without memory for its codec ends the loop.
server_receive ==
    /\ server.pc = "receive" /\ wire # <<>> /\ Head(wire).kind = "invocation"
    /\ wire' = Tail(wire)
    /\ \/ /\ server' = [server EXCEPT !.msg = Head(wire),
                            !.pc = IF Head(wire).crc /\ server.service THEN "shim" ELSE "stopped"]
          /\ UNCHANGED faults
       \/ Fault("server_codec") /\ server' = [server EXCEPT !.pc = "stopped"]
    /\ UNCHANGED <<host, client, ret, heap, spm, known, calls, overrun>>

\* External: the loop sends the reply.
server_send ==
    /\ server.pc = "send"
    /\ \/ /\ wire' = Append(wire, server.msg) /\ server' = [server EXCEPT !.pc = "receive"]
          /\ UNCHANGED faults
       \/ /\ Fault("server_send") /\ server' = [server EXCEPT !.pc = "stopped"]
          /\ UNCHANGED wire
    /\ UNCHANGED <<host, client, ret, heap, spm, known, calls, overrun>>

\* The reply of a shim: psa_close has no result, erpc_psa_call also returns its
\* output vectors.
Reply(r, o) ==
    EncodeReply(r.method, IF r.method = "psa_close" THEN <<>> ELSE <<o.value>>,
                IF r.method = "erpc_psa_call" THEN <<o.outs>> ELSE <<>>)

\* A shim whose arguments were read: the function is called, then the reply is
\* built in the same buffer; a failure after the call loses its result.
Served(r, failed) ==
    \E o \in PsaOutcomes(r) :
        /\ PsaExecute(r, o)
        /\ \/ /\ server' = [server EXCEPT !.msg = Reply(r, o),
                                !.pc = IF MessageSize(Reply(r, o)) > BufferSize
                                       THEN "stopped" ELSE "send"]
              /\ faults' = faults \o failed
           \/ /\ Len(faults) + Len(failed) < MaxFaults
              /\ faults' = faults \o failed \o <<"server_prepare">>
              /\ server' = [server EXCEPT !.pc = "stopped"]

\* The shims with integers only.
SimpleShim(method, r) ==
    /\ server.pc = "shim" /\ server.msg.method = method
    /\ Served(r, <<>>)
    /\ UNCHANGED <<host, client, ret, wire, heap, known, calls, overrun>>

psa_framework_version_shim ==
    SimpleShim("psa_framework_version", [method |-> "psa_framework_version", out |-> <<>>])

psa_version_shim ==
    SimpleShim("psa_version", [method |-> "psa_version", sid |-> server.msg.ints[1], out |-> <<>>])

psa_connect_shim ==
    SimpleShim("psa_connect", [method |-> "psa_connect", sid |-> server.msg.ints[1],
                               ver |-> server.msg.ints[2], out |-> <<>>])

\* Mutants of psa_close_shim: the function is not called and nothing is answered;
\* the reply is built and the function is not called.
Mut_CloseUnserved ==
    /\ server.pc = "shim" /\ server.msg.method = "psa_close"
    /\ server' = [server EXCEPT !.pc = "receive"]
    /\ UNCHANGED <<host, client, ret, wire, heap, spm, known, calls, faults, overrun>>

Mut_CloseUncalled ==
    /\ server.pc = "shim" /\ server.msg.method = "psa_close"
    /\ server' = [server EXCEPT !.pc = "send", !.msg = EncodeReply("psa_close", <<>>, <<>>)]
    /\ UNCHANGED <<host, client, ret, wire, heap, spm, known, calls, faults, overrun>>

psa_close_shim ==
    SimpleShim("psa_close", [method |-> "psa_close", handle |-> server.msg.ints[1], out |-> <<>>])

\* The blocks of the list name: <<name>> the list, <<name, 0>> its elements and
\* <<name, i>> the data of element i.  st is the state of reading so far: the
\* codec's status, the blocks allocated, and the count of each list read.
ReadStart(failing) ==
    [ok |-> {<<"in">>, <<"out">>} \cap failing = {},
     live |-> {<<"in">>, <<"out">>} \ failing,
     count |-> [in |-> 0, out |-> 0],
     undefined |-> FALSE]

\* read_binary_t_struct for every element: an allocation of more than 0 bytes failed.
read_binary_failed(name, list, failing) ==
    \E i \in DOMAIN list : <<name, i>> \in failing /\ list[i].len > 0

\* read_list_binary_1_t_struct: a codec in error reads a count of 0.  When the
\* elements cannot be allocated the loop, or the freeing, goes through NULL.
read_list(name, list, failing, st) ==
    LET count == IF st.ok THEN Len(list) ELSE 0
    IN  IF <<name>> \notin st.live THEN st
        ELSE IF <<name, 0>> \in failing
        THEN [st EXCEPT !.ok = @ /\ count = 0, !.undefined = @ \/ count > 0]
        ELSE [st EXCEPT !.ok = @ /\ ~read_binary_failed(name, list, failing),
                        !.live = @ \cup ({<<name, i>> : i \in 0 .. count} \ failing),
                        !.count[name] = count]

\* Mutant of freed: the shim frees the lists only after a successful read.
Mut_FreeOnSuccess(st) ==
    IF st.ok THEN UNION {{<<name>>} \cup {<<name, i>> : i \in 0 .. st.count[name]}
                            : name \in {"in", "out"}}
    ELSE {}

\* free_list_binary_1_t_struct, free_binary_t_struct and the end of the shim.
freed(st) ==
    UNION {{<<name>>} \cup {<<name, i>> : i \in 0 .. st.count[name]} : name \in {"in", "out"}}

\* The lists are read into allocated memory; erpc_psa_call of
\* erpc_server_wrapper.c calls the PSA API and copies the lengths back.
erpc_psa_call_shim ==
    /\ server.pc = "shim" /\ server.msg.method = "erpc_psa_call"
    /\ LET msg == server.msg
           in == msg.lists[1]
           out == msg.lists[2]
           blocks == {<<"in">>, <<"out">>} \cup {<<"in", i>> : i \in 0 .. Len(in)}
                        \cup {<<"out", i>> : i \in 0 .. Len(out)}
           r == [method |-> "erpc_psa_call", handle |-> msg.ints[1], type |-> msg.ints[2],
                 in |-> in, out |-> out]
       IN  \E failing \in {f \in SUBSET blocks : Cardinality(f) <= MaxFaults - Len(faults)} :
             LET st == read_list("out", out, failing, read_list("in", in, failing, ReadStart(failing)))
                 mallocs == [i \in 1 .. Cardinality(failing) |->
                                IF {<<"in", 0>>, <<"out", 0>>} \cap failing # {}
                                THEN "server_elements" ELSE "server_malloc"]
             IN  /\ IF st.ok
                    THEN /\ Served(r, mallocs)
                         /\ overrun' = (overrun \/ CopiedPastEnd(in, out))
                    ELSE /\ server' = [server EXCEPT !.pc = IF st.undefined THEN "undefined"
                                                            ELSE "stopped"]
                         /\ faults' = faults \o mallocs
                         /\ UNCHANGED <<spm, overrun>>
                 /\ heap' = heap \cup (st.live \ freed(st))
    /\ UNCHANGED <<host, client, ret, wire, known, calls>>

\* The shims of handleInvocation; client and server are generated from one
\* interface, so that the default case, InvalidArgument, is not reached.
handleInvocation ==
    \/ psa_framework_version_shim \/ psa_version_shim \/ erpc_psa_call_shim
    \/ psa_connect_shim \/ psa_close_shim

\* External: a message is lost, or damaged.
wire_lose ==
    /\ wire # <<>> /\ Fault("lost") /\ wire' = Tail(wire)
    /\ UNCHANGED <<host, client, ret, server, heap, spm, known, calls, overrun>>

wire_damage ==
    /\ wire # <<>> /\ Head(wire).crc /\ Fault("damaged")
    /\ wire' = <<[Head(wire) EXCEPT !.crc = FALSE]>> \o Tail(wire)
    /\ UNCHANGED <<host, client, ret, server, heap, spm, known, calls, overrun>>

-----------------------------------------------------------------------------
Init ==
    /\ host = [pc |-> "start", transport |-> "none", args |-> -1]
    /\ client = [pc |-> "idle", req |-> <<>>]
    /\ ret = [value |-> NoResult, outs |-> <<>>]
    /\ wire = <<>>
    /\ server = [pc |-> "off", service |-> TRUE, msg |-> <<>>]
    /\ heap = {} /\ known = {} /\ calls = 0 /\ faults = <<>> /\ overrun = FALSE
    /\ spm = [conns |-> {}, done |-> <<>>]

ClientCalls ==
    psa_framework_version \/ psa_version \/ psa_connect \/ psa_call \/ psa_close
ClientSteps == shim_error \/ shim_result
ServerSteps == erpc_server_start \/ server_receive \/ handleInvocation \/ server_send

Next ==
    \/ host_main \/ erpc_client_start \/ ClientCalls \/ ClientSteps \/ ServerSteps \/ wire_lose \/ wire_damage

\* Both programs run on; what is sent and not lost arrives.
Spec == Init /\ [][Next]_vars /\ WF_vars(ClientSteps) /\ WF_vars(ServerSteps)

-----------------------------------------------------------------------------
(* Properties. *)

Requests ==
    [method : {"psa_framework_version"}, out : {<<>>}]
    \cup [method : {"psa_version"}, sid : Sids, out : {<<>>}]
    \cup [method : {"psa_connect"}, sid : Sids, ver : {1, 2}, out : {<<>>}]
    \cup [method : {"psa_close"}, handle : 1 .. MaxHandle, out : {<<>>}]
    \cup {r \in [method : {"erpc_psa_call"}, handle : 1 .. MaxHandle, type : Types,
                 in : CallerVecs("in"), out : CallerVecs("old")] :
              Len(r.in) + Len(r.out) <= PSA_MAX_IOVEC}

Refusals ==
    {[value |-> PSA_ERROR_PROGRAMMER_ERROR, outs |-> outs] : outs \in CallerVecs("old")}

\* The executions of the call in progress; more than one, or one of another
\* request than the client's, is no state of the abstract call.
AbstractPhase ==
    CASE client.pc = "idle" -> "idle"
      [] client.pc # "idle" /\ spm.done = <<>> -> "called"
      [] client.pc # "idle" /\ Len(spm.done) = 1 ->
            IF spm.done[1].req = client.req THEN "executed" ELSE "another"
      [] OTHER -> "again"

AbstractOutcome ==
    IF spm.done = <<>> THEN [value |-> NoResult, outs |-> <<>>] ELSE spm.done[1].outcome

RC == INSTANCE RemoteCall WITH
        Request <- Requests, Failure <- NoResult, Outcomes <- PsaOutcomes,
        phase <- AbstractPhase, req <- client.req, outcome <- AbstractOutcome

\* The client API over eRPC implements the abstract remote call: whatever fails,
\* the request executed is the one made, it is executed at most once, its result
\* and output vectors reach the caller, and a call that fails on the way leaves
\* the caller's vectors as they were.
RemoteSpec == RC!RemoteSpec

\* No array of PSA_MAX_IOVEC elements, on either side, and no output buffer of a
\* caller is written past its end; the server relies on the client's check.
NoOverrun == ~overrun

\* The shims free whatever they allocated, whichever of their allocations fail:
\* between messages, and when the loop has ended, the server holds no block.
HeapBalanced == server.pc # "undefined" => heap = {}

\* The server's loop ends only after a failure: a request that fits the buffer
\* has a reply that fits it, so that no legal call silences the server.  It
\* survives every failed allocation (its loop ends at worst) but that of a
\* list's elements, through which read_list and free_list go as NULL, and a
\* transport that could not be opened, which test_app only logs.
StopsOnlyOnFault ==
    /\ server.pc = "stopped" => faults # <<>>
    /\ server.pc = "undefined" =>
          \E i \in DOMAIN faults : faults[i] \in {"server_elements", "server_transport"}

\* The client holds only connections that are open; each failure leaves at most
\* one connection open that the client does not hold, and a run without
\* failures leaves none.
ConnectionsAgree ==
    /\ known \subseteq spm.conns
    /\ Cardinality(spm.conns \ known) <= Len(faults) + (IF client.pc = "idle" THEN 0 ELSE 1)

ServerGone == server.pc \in {"stopped", "undefined"}
MessageLost == \E i \in DOMAIN faults : faults[i] = "lost"

\* A call returns unless a message was lost or the server's loop has ended: the
\* client has no timeout, and nothing restarts the loop.
CallReturns == client.pc # "idle" ~> (client.pc = "idle" \/ ServerGone \/ MessageLost)
=============================================================================
