--------------------------- MODULE StorageScripts ---------------------------
(***************************************************************************)
(* The vocabulary of the storage test suites: the calls of the PSA storage *)
(* API a test makes, with their arguments and with the answers the test    *)
(* accepts.  An answer it does not accept ends the test with TEST_FAIL.    *)
(*                                                                         *)
(* Data is a tag (which constant of the suite was written) with an offset  *)
(* and a length; a buffer that holds anything else than what was asked for *)
(* differs in one of them.                                                 *)
(***************************************************************************)
EXTENDS Naturals, Sequences

SUCCESS == "PSA_SUCCESS"
INVALID_ARGUMENT == "PSA_ERROR_INVALID_ARGUMENT"
DOES_NOT_EXIST == "PSA_ERROR_DOES_NOT_EXIST"
NOT_PERMITTED == "PSA_ERROR_NOT_PERMITTED"
NOT_SUPPORTED == "PSA_ERROR_NOT_SUPPORTED"
PROGRAMMER_ERROR == "PSA_ERROR_PROGRAMMER_ERROR"
STORAGE_FAILURE == "PSA_ERROR_STORAGE_FAILURE"
GENERIC_ERROR == "PSA_ERROR_GENERIC_ERROR"
Statuses == {SUCCESS, INVALID_ARGUMENT, DOES_NOT_EXIST, NOT_PERMITTED, NOT_SUPPORTED,
             PROGRAMMER_ERROR, STORAGE_FAILURE, GENERIC_ERROR}

FLAG_NONE == "PSA_STORAGE_FLAG_NONE"
WRITE_ONCE == "PSA_STORAGE_FLAG_WRITE_ONCE"
INVALID_FLAG == "INVALID_FLAG"

\* What a get has written to the buffer: a part of some data, or nothing.
Slice(tag, off, n) == IF n = 0 THEN <<"none", 0, 0>> ELSE <<tag, off, n>>
Unchanged == Slice("none", 0, 0)

\* What get_info returns: size, capacity and flags.
Info(size, flags) == <<size, size, flags>>
NoInfo == <<0, 0, FLAG_NONE>>

\* An output is compared with a set of values, the empty one if it is not compared.
Compared(value, wanted) == wanted = {} \/ value \in wanted
InfoCompared(info, wanted) == \A n \in 1 .. 3 : Compared(info[n], wanted[n])

\* A call, before its arguments and its expectations are filled in.  null names a
\* NULL pointer among the arguments; skip is the number of steps left out after
\* an accepted error; later means that the buffer is compared by a later Compare;
\* uninit that the outputs were not initialised and the status is not looked at.
Call(op, uid, ok) ==
    [op |-> op, uid |-> uid, off |-> 0, len |-> 0, tag |-> "none", flags |-> FLAG_NONE,
     null |-> "none", ok |-> ok, data |-> {}, lens |-> {}, info |-> <<{}, {}, {}>>,
     skip |-> 0, later |-> FALSE, uninit |-> FALSE]

Set(uid, tag, len, flags, ok) ==
    [Call("set", uid, {ok}) EXCEPT !.tag = tag, !.len = len, !.flags = flags]
Get(uid, off, len, ok) == [Call("get", uid, {ok}) EXCEPT !.off = off, !.len = len]
GetInfo(uid, ok) == Call("get_info", uid, {ok})
Remove(uid, ok) == Call("remove", uid, {ok})

\* psa_get of the same UID by the Secure Client 2 partition.
GetByClient2(uid, ok) == [Call("get by client 2", uid, {ok}) EXCEPT !.len = 1]

\* memcmp of the whole read buffer, after several gets.
Compare == Call("compare", 0, Statuses)

Reads(s, data, n) == [s EXCEPT !.data = {data}, !.lens = {n}]
ReadsData(s, data) == [s EXCEPT !.data = {data}]
ReadsLen(s, n) == [s EXCEPT !.lens = {n}]
Tells(s, info) == [s EXCEPT !.info = <<{info[1]}, {info[2]}, {info[3]}>>]
WithNull(s, null) == [s EXCEPT !.null = null]
=============================================================================
