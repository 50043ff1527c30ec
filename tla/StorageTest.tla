---------------------------- MODULE StorageTest ----------------------------
(***************************************************************************)
(* A boot that runs storage test suites against the storage service, and   *)
(* is run again and again on the same device: a reset may come between any *)
(* two calls and what has been stored by then stays, until the suites are  *)
(* started anew, perhaps with another build of the firmware.               *)
(*                                                                         *)
(* External: the service keeps assets per client.  A call may fail for a   *)
(* reason of the storage device (PSA_ERROR_STORAGE_FAILURE, without        *)
(* effect), and the service may be broken in one of the ways the suites    *)
(* are there to find.                                                      *)
(***************************************************************************)
EXTENDS StorageScripts, FiniteSets

CONSTANTS Run,          \* the tests of a boot, in order: client, number, script
          Uids,         \* the UIDs the tests use
          Capacity,     \* the largest asset of the service
          MaxBoots,     \* bound: how often the device is started
          MaxFaults,    \* bound: calls and connections that fail for a reason of the device
          Broken        \* the ways in which the service may be broken

Defects == {"none", "any uid", "any flag", "any size", "any offset", "rewrites", "removes",
            "keeps flags", "keeps data", "remove forgets", "remove corrupts", "no offset",
            "no short get", "wrong length", "wrong size", "null length", "null info",
            "null data", "shared"}

ASSUME StorageAssumption ==
    /\ Broken \subseteq Defects /\ Broken # {}
    /\ 0 \in Uids /\ Capacity \in Nat
    /\ MaxBoots \in Nat \ {0} /\ MaxFaults \in Nat

VARIABLES
    store,      \* external: per client and UID, the asset
    broken,     \* external: the defect of the service in this boot
    test, step, \* where the boot is: Run[test].script[step]
    intact,     \* what later compares of the buffer: every byte so far is right
    failed,     \* the tests of this boot that failed
    hit,        \* history: the tests and steps of this boot that were not served
    kept,       \* history: the clients and UIDs that were write-once when the boot started
    sound,      \* history: no broken service has run on this device yet
    boots, faults

vars == <<store, broken, test, step, intact, failed, hit, kept, sound, boots, faults>>

Clients == {"S", "NS", "Secure Client 2"}
Tests == 1 .. Len(Run)
NoAsset == [tag |-> "none", len |-> 0, flags |-> "no asset"]
Wiped == [c \in Clients |-> [u \in Uids |-> NoAsset]]

WriteOnce == {a \in Clients \X Uids : store[a[1]][a[2]].flags = WRITE_ONCE}

Done == test > Len(Run)
Now == Run[test].script[step]
Client == Run[test].client

-----------------------------------------------------------------------------
(* External: the storage service. *)

\* The client on whose account an asset is kept.
Owner(c) == IF broken = "shared" THEN "S" ELSE c
Asset(c, uid) == store[Owner(c)][uid]
Exists(c, uid) == Asset(c, uid) # NoAsset

\* The reasons that the service has not to do what s asks for client c.
Refusals(c, s) ==
    {e \in Statuses :
        \/ e = PROGRAMMER_ERROR /\ s.null = "data" /\ s.len > 0 /\ broken # "null data"
        \/ e = INVALID_ARGUMENT /\ s.uid = 0 /\ broken # "any uid"
        \/ e = INVALID_ARGUMENT /\ s.null = "length" /\ broken # "null length"
        \/ e = INVALID_ARGUMENT /\ s.null = "info" /\ broken # "null info"
        \/ e = INVALID_ARGUMENT /\ s.op = "set" /\ s.len > Capacity /\ broken # "any size"
        \/ e = NOT_SUPPORTED /\ s.op = "set" /\ s.flags = INVALID_FLAG /\ broken # "any flag"
        \/ /\ e = NOT_PERMITTED /\ Asset(c, s.uid).flags = WRITE_ONCE
           /\ \/ s.op = "set" /\ broken # "rewrites"
              \/ s.op = "remove" /\ broken # "removes"
        \/ e = DOES_NOT_EXIST /\ s.uid # 0 /\ s.op # "set" /\ ~Exists(c, s.uid)
        \/ /\ e = INVALID_ARGUMENT /\ s.op = "get" /\ Exists(c, s.uid)
           /\ \/ s.off > Asset(c, s.uid).len /\ broken # "any offset"
              \/ s.off + s.len > Asset(c, s.uid).len /\ broken = "no short get"}

\* The asset after s, a set that is done.
Written(c, s) ==
    LET old == Asset(c, s.uid)
    IN  [tag |-> IF broken = "keeps data" /\ Exists(c, s.uid) THEN old.tag ELSE s.tag,
         len |-> s.len,
         flags |-> IF broken = "keeps flags" /\ Exists(c, s.uid) THEN old.flags ELSE s.flags]

\* The client's assets after one is removed.
Removed(c, uid) ==
    [u \in Uids |->
        CASE u = uid /\ broken # "remove forgets" -> NoAsset
          [] u # uid /\ broken = "remove corrupts" /\ Exists(c, u)
                -> [Asset(c, u) EXCEPT !.tag = "garbage"]
          [] OTHER -> Asset(c, u)]

Smaller(a, b) == IF a < b THEN a ELSE b

\* What a get that is done writes to the buffer, and the length it tells.
Got(c, s) ==
    LET a == Asset(c, s.uid)
        off == IF broken = "no offset" THEN 0 ELSE s.off
        n == Smaller(s.len, IF off > a.len THEN 0 ELSE a.len - off)
    IN  [data |-> Slice(a.tag, off, n), len |-> IF broken = "wrong length" THEN s.len + 1 ELSE n]

InfoOf(c, s) ==
    LET a == Asset(c, s.uid)
    IN  Info(IF broken = "wrong size" THEN a.len + 1 ELSE a.len, a.flags)

-----------------------------------------------------------------------------
(* The tests. *)

\* The next test, or the next step of this one.
NextTest == test' = test + 1 /\ step' = 1 /\ intact' = TRUE
Goes(n, right) ==
    IF step + n > Len(Run[test].script) THEN NextTest
    ELSE test' = test /\ step' = step + n /\ intact' = (intact /\ right)

\* TEST_FAIL and return: what the test would still have cleaned up is left.
Fails == failed' = failed \cup {test} /\ NextTest

Passes(n) == UNCHANGED failed /\ Goes(n, TRUE)

\* The outputs of a call that was not done are still what the test looks for.
Untouched == Compared(Unchanged, Now.data) /\ InfoCompared(NoInfo, Now.info)

\* An error.  A test that accepts it goes on if the outputs are untouched; one that
\* has not initialised its outputs may find in them what it looks for.
Judge(status) ==
    \/ (status \notin Now.ok \/ ~Untouched) /\ Fails
    \/ status \in Now.ok /\ (Untouched \/ Now.uninit) /\ Passes(1 + Now.skip)

\* A call without outputs that is done.
JudgeDone == IF SUCCESS \in Now.ok THEN Passes(1) ELSE Fails

others == <<broken, hit, kept, sound, boots, faults>>

\* A call that the service refuses leaves the store and the outputs alone.
refused ==
    /\ ~Done /\ Now.op \in {"set", "get", "get_info", "remove"}
    /\ \E status \in Refusals(Client, Now) : Judge(status)
    /\ UNCHANGED <<store, others>>

psa_set ==
    /\ ~Done /\ Now.op = "set" /\ Refusals(Client, Now) = {}
    /\ store' = [store EXCEPT ![Owner(Client)][Now.uid] = Written(Client, Now)]
    /\ JudgeDone
    /\ UNCHANGED others

psa_remove ==
    /\ ~Done /\ Now.op = "remove" /\ Refusals(Client, Now) = {}
    /\ store' = [store EXCEPT ![Owner(Client)] = Removed(Client, Now.uid)]
    /\ JudgeDone
    /\ UNCHANGED others

psa_get ==
    /\ ~Done /\ Now.op = "get" /\ Refusals(Client, Now) = {}
    /\ LET got == Got(Client, Now)
           right == Compared(got.data, Now.data)
       IN  IF SUCCESS \in Now.ok /\ Compared(got.len, Now.lens) /\ (right \/ Now.later)
           THEN UNCHANGED failed /\ Goes(1, right)
           ELSE Fails
    /\ UNCHANGED <<store, others>>

psa_get_info ==
    /\ ~Done /\ Now.op = "get_info" /\ Refusals(Client, Now) = {}
    /\ IF InfoCompared(InfoOf(Client, Now), Now.info) THEN JudgeDone ELSE Fails
    /\ UNCHANGED <<store, others>>

\* What the Secure Client 2 partition is asked for: a get of a byte of the UID.
secure_client_2_test_its_access_ctrl == [Now EXCEPT !.op = "get"]

\* The partition is connected to, and passes the status of its get on.
tfm_secure_client_2_call_test ==
    /\ ~Done /\ Now.op = "get by client 2"
    /\ LET no == Refusals("Secure Client 2", secure_client_2_test_its_access_ctrl)
       IN  IF no = {} THEN JudgeDone ELSE \E status \in no : Judge(status)
    /\ UNCHANGED <<store, others>>

compare ==
    /\ ~Done /\ Now.op = "compare"
    /\ IF intact THEN Passes(1) ELSE Fails
    /\ UNCHANGED <<store, others>>

\* A call that is not served, for a reason that is neither the test's nor the store's.
Unserved(status) ==
    /\ sound /\ faults < MaxFaults
    /\ faults' = faults + 1 /\ hit' = hit \cup {<<test, step>>}
    /\ Judge(status)
    /\ UNCHANGED <<store, broken, kept, sound, boots>>

\* The device fails a call.
storage_failure == ~Done /\ Now.op # "compare" /\ Unserved(STORAGE_FAILURE)

\* The Secure Client 2 partition refuses the connection: nothing is called.
client_2_refused == ~Done /\ Now.op = "get by client 2" /\ Unserved(GENERIC_ERROR)

\* Reset, or the next boot after a finished one.  A broken service is not combined
\* with a failing device.
boot ==
    /\ boots < MaxBoots /\ boots' = boots + 1
    /\ test' = 1 /\ step' = 1 /\ intact' = TRUE /\ failed' = {} /\ hit' = {} /\ kept' = WriteOnce
    /\ broken' \in Broken /\ (broken' = "none" \/ faults = 0)
    /\ sound' = (sound /\ broken' = "none")
    /\ UNCHANGED <<store, faults>>

Init ==
    /\ store = Wiped /\ kept = {}
    /\ broken \in Broken /\ sound = (broken = "none")
    /\ test = 1 /\ step = 1 /\ intact = TRUE /\ failed = {} /\ hit = {}
    /\ boots = 1 /\ faults = 0

Next ==
    \/ refused \/ psa_set \/ psa_remove \/ psa_get \/ psa_get_info
    \/ tfm_secure_client_2_call_test \/ compare
    \/ storage_failure \/ client_2_refused \/ boot

Spec == Init /\ [][Next]_vars
=============================================================================
