---------------------------- MODULE NsidManager ----------------------------
(***************************************************************************)
(* The NSID manager of lib/nsid_manager/tfm_nsid_manager.c: a table of     *)
(* THREAD_NUM_MAX (token, nsid) pairs, and the static thread-name to NSID  *)
(* assignment of app_broker/tfm_nsid_map_table.c.  The table is passive    *)
(* state of the TZ shim, so its operations are operators from a table and  *)
(* arguments to the status returned and the table left behind.             *)
(***************************************************************************)
EXTENDS Integers

CONSTANT THREAD_NUM_MAX

ASSUME ThreadNumAssumption == THREAD_NUM_MAX \in Nat \ {0}

\* 0xFFFFFFFF, the value ns_client_ext never hands out (read as an int32).
TFM_NS_CLIENT_INVALID_TOKEN == -1
TFM_DEFAULT_NSID == -1
TFM_INVALID_NSID_MIN == 0

Slot == 0 .. THREAD_NUM_MAX - 1

FreeEntry == [token |-> TFM_NS_CLIENT_INVALID_TOKEN, nsid |-> TFM_INVALID_NSID_MIN]

\* Mutant of ZeroedTable: static storage that reads as free entries.
Mut_ZeroedTableIsFree == [i \in Slot |-> FreeEntry]

\* The table as static storage leaves it, before nsid_mgr_init: token 0 is not
\* the free marker, so no slot is free.
ZeroedTable == [i \in Slot |-> [token |-> 0, nsid |-> 0]]

\* The slots in which the scans "for (i = 0; ...)" find the token, and the
\* first of them, where they stop.
SlotsWith(table, token) == {i \in Slot : table[i].token = token}

FirstSlotWith(table, token) ==
    CHOOSE i \in SlotsWith(table, token) : \A j \in SlotsWith(table, token) : i <= j

nsid_mgr_init == [i \in Slot |-> FreeEntry]

\* Mutants of nsid_mgr_add_entry_status: the token is not checked; the default
\* NSID is refused.
Mut_AddUncheckedToken(table, nsid, token) ==
    IF nsid >= TFM_INVALID_NSID_MIN THEN "INVALID_NSID"
    ELSE IF SlotsWith(table, TFM_NS_CLIENT_INVALID_TOKEN) = {} THEN "NO_FREE_ENTRY"
    ELSE "SUCCESS"

Mut_AddRefusesDefault(table, nsid, token) ==
    IF nsid >= TFM_DEFAULT_NSID THEN "INVALID_NSID"
    ELSE IF token = TFM_NS_CLIENT_INVALID_TOKEN THEN "INVALID_TOKEN"
    ELSE IF SlotsWith(table, TFM_NS_CLIENT_INVALID_TOKEN) = {} THEN "NO_FREE_ENTRY"
    ELSE "SUCCESS"

\* The error that nsid_mgr_add_entry returns, its checks in order.
nsid_mgr_add_entry_status(table, nsid, token) ==
    IF nsid >= TFM_INVALID_NSID_MIN THEN "INVALID_NSID"
    ELSE IF token = TFM_NS_CLIENT_INVALID_TOKEN THEN "INVALID_TOKEN"
    ELSE IF SlotsWith(table, TFM_NS_CLIENT_INVALID_TOKEN) = {} THEN "NO_FREE_ENTRY"
    ELSE "SUCCESS"

\* The table that a successful nsid_mgr_add_entry leaves.
nsid_mgr_add_entry(table, nsid, token) ==
    [table EXCEPT ![FirstSlotWith(table, TFM_NS_CLIENT_INVALID_TOKEN)] =
        [token |-> token, nsid |-> nsid]]

nsid_mgr_remove_entry_status(table, token) ==
    IF token = TFM_NS_CLIENT_INVALID_TOKEN \/ SlotsWith(table, token) = {}
    THEN "INVALID_TOKEN" ELSE "SUCCESS"

\* Mutant of nsid_mgr_remove_entry: only the NSID is reset.
Mut_RemoveKeepsToken(table, token) ==
    [table EXCEPT ![FirstSlotWith(table, token)].nsid = TFM_INVALID_NSID_MIN]

\* The table that a successful nsid_mgr_remove_entry leaves.
nsid_mgr_remove_entry(table, token) ==
    [table EXCEPT ![FirstSlotWith(table, token)] = FreeEntry]

\* Mutant of nsid_mgr_query_nsid: the scan stops one slot early.
Mut_QueryMissesLast(table, token) ==
    IF token = TFM_NS_CLIENT_INVALID_TOKEN \/ SlotsWith(table, token) \ {THREAD_NUM_MAX - 1} = {}
    THEN TFM_INVALID_NSID_MIN
    ELSE table[FirstSlotWith(table, token)].nsid

nsid_mgr_query_nsid(table, token) ==
    IF token = TFM_NS_CLIENT_INVALID_TOKEN \/ SlotsWith(table, token) = {}
    THEN TFM_INVALID_NSID_MIN
    ELSE table[FirstSlotWith(table, token)].nsid

\* The pre-assigned NSIDs (a build for the PSA API tests adds an eighth).
test_ns_nsid_table ==
    [Thread_A |-> -2, Thread_B |-> -3, Thread_C |-> -4, Thread_D |-> -5,
     seq_task |-> -6, mid_task |-> -7, pri_task |-> -8]

\* NULL and every name that is not in the table get the default.
nsid_mgr_get_thread_nsid(t_name) ==
    IF t_name \in DOMAIN test_ns_nsid_table
    THEN test_ns_nsid_table[t_name] ELSE TFM_DEFAULT_NSID
=============================================================================
