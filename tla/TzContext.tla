----------------------------- MODULE TzContext -----------------------------
(***************************************************************************)
(* The TZ shim layer (lib/nsid_manager/tz_shim_layer.c, built with         *)
(* TFM_NS_MANAGE_NSID and TEST_NS_MANAGE_NSID) between the RTX kernel and  *)
(* the secure side's ns_client_ext (NSCE).                                 *)
(*                                                                         *)
(* RTX calls the shim from its SVC and PendSV handlers: at kernel start,   *)
(* when a thread is created or exits, and around every context switch.  An *)
(* action below is one call of the shim together with what RTX does around *)
(* it; "pend" is the thread RTX has chosen to run while its handler is     *)
(* between the call for the old thread and the call for the new one.       *)
(*                                                                         *)
(* External, modelled from how the code and the NSID test suite use it:    *)
(*  - NSCE keeps one context (TFM_NS_CONTEXT_MAX 1) for the default group, *)
(*    with a reference count, the thread ID and NSID last loaded into it   *)
(*    and whether it is active.  LOAD and RELEASE check the reference      *)
(*    count but not the thread ID; SAVE checks that the thread is the one  *)
(*    loaded (nsid_testsuite.c, cases 2 to 20).  A token of group 0 and    *)
(*    context 0 is its thread ID (MAKE_NS_CLIENT_TOKEN).                   *)
(*  - RTX keeps the token in the thread's tz_memory, fails the creation of *)
(*    a thread for which it is 0, and makes no call for the idle thread    *)
(*    (OS_IDLE_THREAD_TZ_MOD_ID 0).  Threads are detached: os_wrapper has  *)
(*    no join and no terminate, so a context is freed when its own thread, *)
(*    the running one, exits.                                              *)
(***************************************************************************)
EXTENDS NsidManager, FiniteSets

CONSTANTS
    Thread,                 \* RTX thread control blocks
    Idle,                   \* the idle thread
    NoThread,               \* no thread: the kernel has not started
    ThreadName,             \* names threads are created with
    NSID_MGR_THREAD_ID_MAX  \* 0xFF in the code

ASSUME ThreadAssumption ==
    IsFiniteSet(Thread) /\ {Idle, NoThread} \cap Thread = {} /\ Idle # NoThread
ASSUME ThreadIdAssumption == NSID_MGR_THREAD_ID_MAX \in 1 .. 255

VARIABLES
    test_ns_token_table,
    nsid_mgr_thread_id,
    current_active_token,
    nsce,                   \* external: [ref, tid, nsid, active]
    kernel,                 \* external: osKernelGetState
    tz_memory,              \* external: the token in each control block, 0 if none
    tz_module,              \* external: the NSID each thread was created with
    running,                \* external: the running thread
    pend                    \* external: the thread being switched to

shimVars == <<test_ns_token_table, nsid_mgr_thread_id, current_active_token>>
rtxVars == <<kernel, tz_memory, tz_module, running, pend>>
vars == <<shimVars, nsce, rtxVars>>

Live == {t \in Thread : tz_memory[t] # 0}

-----------------------------------------------------------------------------
(* NSCE, as the shim and the NSID test suite see it. *)

NsceIdle == [ref |-> 0, tid |-> 0, nsid |-> 0, active |-> FALSE]

\* tfm_nsce_acquire_ctx takes another reference of the group's context, or
\* has none to give.
tfm_nsce_acquire_ctx(tid, token) ==
    \/ token = tid /\ nsce' = [nsce EXCEPT !.ref = @ + 1]
    \/ token = TFM_NS_CLIENT_INVALID_TOKEN /\ UNCHANGED nsce

ReleaseSucceeds(token) == nsce.ref > 0

\* Releasing the loaded thread deactivates the context.
tfm_nsce_release_ctx(token) ==
    nsce' = [nsce EXCEPT !.ref = @ - 1, !.active = @ /\ nsce.tid # token]

LoadSucceeds(token, nsid) == nsce.ref > 0 /\ nsid < TFM_INVALID_NSID_MIN

tfm_nsce_load_ctx(token, nsid) ==
    nsce' = [nsce EXCEPT !.tid = token, !.nsid = nsid, !.active = TRUE]

SaveSucceeds(token) == nsce.ref > 0 /\ nsce.active /\ nsce.tid = token

tfm_nsce_save_ctx(token) == nsce' = [nsce EXCEPT !.active = FALSE]

-----------------------------------------------------------------------------
(* The shim. *)

ThreadIdsUsedUp == nsid_mgr_thread_id >= NSID_MGR_THREAD_ID_MAX

\* Mutant of TakeThreadId: the thread ID is not advanced.
Mut_TakeSameThreadId == UNCHANGED nsid_mgr_thread_id

TakeThreadId == nsid_mgr_thread_id' = nsid_mgr_thread_id + 1

ClearActiveToken == current_active_token' = TFM_NS_CLIENT_INVALID_TOKEN

\* osKernelInitialize calls TZ_InitContextSystem_S, which fails when
\* tfm_nsce_init reports no context; main ignores the error, but the kernel
\* then never starts.
TZ_InitContextSystem_S ==
    /\ kernel = "inactive"
    /\ \/ /\ test_ns_token_table' = nsid_mgr_init
          /\ ClearActiveToken
          /\ kernel' = "ready"
       \/ /\ kernel' = "error"
          /\ UNCHANGED <<test_ns_token_table, current_active_token>>
    /\ UNCHANGED <<nsid_mgr_thread_id, nsce, tz_memory, tz_module, running, pend>>

\* osThreadNew, from os_wrapper_thread_new or from main, allocates the thread's
\* secure context in the SVC handler.  The thread ID is used up even when NSCE
\* has no context or the table has no free entry; in the latter case the
\* reference NSCE gave is not returned.
TZ_AllocModuleContext_S(t, t_name) ==
    LET nsid == nsid_mgr_get_thread_nsid(t_name)
    IN  /\ kernel # "inactive" /\ pend = NoThread
        /\ t \notin Live
        /\ \/ /\ ThreadIdsUsedUp
              /\ UNCHANGED vars
           \/ /\ ~ThreadIdsUsedUp
              /\ TakeThreadId
              /\ \E token \in {nsid_mgr_thread_id, TFM_NS_CLIENT_INVALID_TOKEN} :
                    /\ tfm_nsce_acquire_ctx(nsid_mgr_thread_id, token)
                    /\ IF nsid_mgr_add_entry_status(test_ns_token_table, nsid, token)
                            = "SUCCESS"
                       THEN /\ test_ns_token_table' =
                                 nsid_mgr_add_entry(test_ns_token_table, nsid, token)
                            /\ tz_memory' = [tz_memory EXCEPT ![t] = token]
                            /\ tz_module' = [tz_module EXCEPT ![t] = nsid]
                       ELSE UNCHANGED <<test_ns_token_table, tz_memory, tz_module>>
              /\ UNCHANGED <<current_active_token, kernel, running, pend>>

\* osKernelStart and every switch: RTX stores the context of the thread it
\* leaves and ignores the status.  There is no call for a thread without
\* context, and none when no thread runs yet.
TZ_StoreContext_S(next) ==
    /\ kernel = "ready" /\ pend = NoThread
    /\ next \in (Live \cup {Idle}) \ {running}
    /\ IF running \in Live /\ SaveSucceeds(tz_memory[running])
       THEN /\ tfm_nsce_save_ctx(tz_memory[running])
            /\ ClearActiveToken
       ELSE UNCHANGED <<nsce, current_active_token>>
    /\ pend' = next
    /\ UNCHANGED <<test_ns_token_table, nsid_mgr_thread_id, kernel, tz_memory, tz_module,
                   running>>

\* osThreadExit of the running thread: the map entry goes first, then the
\* secure context; current_active_token is cleared whichever token is freed.
TZ_FreeModuleContext_S(next) ==
    LET token == tz_memory[running]
    IN  /\ kernel = "ready" /\ pend = NoThread
        /\ running \in Live
        /\ next \in (Live \cup {Idle}) \ {running}
        /\ IF nsid_mgr_remove_entry_status(test_ns_token_table, token) = "SUCCESS"
           THEN /\ test_ns_token_table' = nsid_mgr_remove_entry(test_ns_token_table, token)
                /\ IF ReleaseSucceeds(token)
                   THEN /\ tfm_nsce_release_ctx(token)
                        /\ ClearActiveToken
                   ELSE UNCHANGED <<nsce, current_active_token>>
           ELSE UNCHANGED <<test_ns_token_table, nsce, current_active_token>>
        /\ tz_memory' = [tz_memory EXCEPT ![running] = 0]
        /\ pend' = next
        /\ UNCHANGED <<nsid_mgr_thread_id, kernel, tz_module, running>>

\* The second half of the switch: RTX loads the context of the thread it enters.
TZ_LoadContext_S ==
    /\ pend # NoThread
    /\ IF pend \in Live
       THEN LET token == tz_memory[pend]
                nsid == nsid_mgr_query_nsid(test_ns_token_table, token)
            IN  IF nsid < TFM_INVALID_NSID_MIN /\ LoadSucceeds(token, nsid)
                THEN /\ tfm_nsce_load_ctx(token, nsid)
                     /\ current_active_token' = token
                ELSE UNCHANGED <<nsce, current_active_token>>
       ELSE UNCHANGED <<nsce, current_active_token>>
    /\ running' = pend
    /\ pend' = NoThread
    /\ UNCHANGED <<test_ns_token_table, nsid_mgr_thread_id, kernel, tz_memory, tz_module>>

-----------------------------------------------------------------------------
Init ==
    /\ test_ns_token_table = ZeroedTable
    /\ nsid_mgr_thread_id = 1
    /\ current_active_token = 0
    /\ nsce = NsceIdle
    /\ kernel = "inactive"
    /\ tz_memory = [t \in Thread |-> 0]
    /\ tz_module = [t \in Thread |-> TFM_DEFAULT_NSID]
    /\ running = NoThread
    /\ pend = NoThread

Next ==
    \/ TZ_InitContextSystem_S
    \/ \E t \in Thread, t_name \in ThreadName : TZ_AllocModuleContext_S(t, t_name)
    \/ \E next \in Thread \cup {Idle} : TZ_StoreContext_S(next)
    \/ \E next \in Thread \cup {Idle} : TZ_FreeModuleContext_S(next)
    \/ TZ_LoadContext_S

Spec == Init /\ [][Next]_vars

-----------------------------------------------------------------------------
(* Properties. *)

Nsid == {nsid_mgr_get_thread_nsid(n) : n \in ThreadName}

\* Types: tokens are thread IDs that have been used, or the free marker.
TypeOK ==
    /\ test_ns_token_table \in
         [Slot -> [token : -1 .. NSID_MGR_THREAD_ID_MAX - 1, nsid : Nsid \cup {0}]]
    /\ nsid_mgr_thread_id \in 1 .. NSID_MGR_THREAD_ID_MAX
    /\ current_active_token \in -1 .. NSID_MGR_THREAD_ID_MAX - 1
    /\ nsce \in [ref : Nat, tid : 0 .. NSID_MGR_THREAD_ID_MAX - 1,
                 nsid : Nsid \cup {0}, active : BOOLEAN]
    /\ kernel \in {"inactive", "ready", "error"}
    /\ tz_memory \in [Thread -> 0 .. NSID_MGR_THREAD_ID_MAX - 1]
    /\ tz_module \in [Thread -> Nsid \cup {TFM_DEFAULT_NSID}]
    /\ running \in Thread \cup {Idle, NoThread}
    /\ pend \in Thread \cup {Idle, NoThread}

\* Whenever a thread runs outside the kernel's handlers, the secure side
\* attributes its calls to the NSID the thread was created with; when the idle
\* thread runs, no context is active.  The NSID goes through the token, the
\* table and a LOAD whose status RTX ignores, so every call of the shim and
\* every reuse of a table slot can break it.
RunningIdentity ==
    pend = NoThread =>
        /\ running \in Live => /\ nsce.active
                              /\ nsce.tid = tz_memory[running]
                              /\ nsce.nsid = tz_module[running]
        /\ running = Idle => ~nsce.active

\* current_active_token, from which the NSID test suite saves and restores the
\* test thread's context, is the token that is active on the secure side, at
\* every point between two calls of the shim.
ActiveTokenMirrorsNsce ==
    kernel = "ready" =>
        current_active_token =
            IF nsce.active THEN nsce.tid ELSE TFM_NS_CLIENT_INVALID_TOKEN

\* The pairs in the table.
MapOf(table) ==
    {<<table[i].token, table[i].nsid>> :
        i \in {j \in Slot : table[j].token # TFM_NS_CLIENT_INVALID_TOKEN}}

\* Once initialised the table holds exactly the contexts of the live threads:
\* no entry outlives its thread, none is lost, and no two slots or threads
\* share a token.
TableMatchesThreads ==
    kernel = "ready" =>
        /\ MapOf(test_ns_token_table) = {<<tz_memory[t], tz_module[t]>> : t \in Live}
        /\ \A i, j \in Slot :
              /\ test_ns_token_table[i].token = test_ns_token_table[j].token
              /\ test_ns_token_table[i].token # TFM_NS_CLIENT_INVALID_TOKEN
              => i = j
        /\ \A t, u \in Live : tz_memory[t] = tz_memory[u] => t = u

\* If the secure side could not be initialised no thread ever gets a token:
\* the table static storage leaves has no entry that nsid_mgr_add_entry takes
\* for free.
NoContextWithoutInit == kernel # "ready" => Live = {}

\* The secure context is held at least once for every live thread, so no exit
\* can take it away from a thread that still runs.
ContextHeldForLiveThreads == Cardinality(Live) <= nsce.ref

\* A reference of the secure context is lost only when a thread is created
\* while the table has no free entry: TZ_AllocModuleContext_S then returns 0
\* without giving back what it acquired.
LeakOnlyWhenTableFull ==
    [][nsce'.ref - Cardinality(Live') # nsce.ref - Cardinality(Live)
        => SlotsWith(test_ns_token_table, TFM_NS_CLIENT_INVALID_TOKEN) = {}]_vars

\* The shim and the table implement the map of NsidMap, tokens bound once and
\* for all: a token kept by RTX or by the test suite can never come to mean
\* another thread.
Map == INSTANCE NsidMap WITH
    Capacity <- THREAD_NUM_MAX,
    Token <- 1 .. NSID_MGR_THREAD_ID_MAX - 1,
    map <- IF kernel = "ready" THEN MapOf(test_ns_token_table) ELSE {},
    used <- 1 .. nsid_mgr_thread_id - 1

MapSpec == Map!Spec
=============================================================================
