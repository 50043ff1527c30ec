-------------------------- MODULE TzContext_proofs --------------------------
(***************************************************************************)
(* The safety invariants of the TZ shim, for every number of threads,      *)
(* table entries and thread IDs.                                           *)
(***************************************************************************)
EXTENDS TzContext, WellFoundedInduction, FiniteSetTheorems, TLAPS

-----------------------------------------------------------------------------
(* Natural numbers. *)

(***************************************************************************)
(* The least-number principle, for a set of natural numbers.               *)
(***************************************************************************)
LEMMA LeastNumber ==
    ASSUME NEW S, S \subseteq Nat, S # {}
    PROVE  \E i \in S : \A j \in S : i <= j
<1>. DEFINE Less == {ss \in Nat \X Nat : ss[1] < ss[2]}
<1>1. IsWellFoundedOn(Less, Nat)
  BY NatLessThanWellFounded DEF OpToRel
<1>2. \E i \in S : \A j \in S : <<j, i>> \notin Less
  <2>. HIDE DEF Less
  <2>. QED BY <1>1, WFMin
<1>3. PICK i \in S : \A j \in S : <<j, i>> \notin Less
  BY <1>2
<1>4. ASSUME NEW j \in S PROVE i <= j
  <2>1. i \in Nat /\ j \in Nat
    OBVIOUS
  <2>2. ~(j < i)
    BY <1>3, <2>1
  <2>. QED
    BY <2>1, <2>2
<1>. QED
  BY <1>4

-----------------------------------------------------------------------------
(* What the operations of the NSID manager's table do. *)

(***************************************************************************)
(* A scan of the table that finds the token at all stops at a slot that    *)
(* holds it.                                                               *)
(***************************************************************************)
LEMMA FirstSlotFound ==
    ASSUME NEW table, NEW token, SlotsWith(table, token) # {}
    PROVE  FirstSlotWith(table, token) \in SlotsWith(table, token)
<1>. DEFINE S == SlotsWith(table, token)
<1>1. S \subseteq Nat
  BY ThreadNumAssumption DEF SlotsWith, Slot
<1>2. \E i \in S : \A j \in S : i <= j
  <2>. HIDE DEF S
  <2>1. S # {}
    BY DEF S
  <2>. QED BY <1>1, <2>1, LeastNumber
<1>. QED
  BY <1>2 DEF FirstSlotWith

(***************************************************************************)
(* A successful nsid_mgr_add_entry writes a valid pair into one free slot. *)
(***************************************************************************)
LEMMA AddEntryEffect ==
    ASSUME NEW table, NEW nsid, NEW token,
           nsid_mgr_add_entry_status(table, nsid, token) = "SUCCESS"
    PROVE  /\ ~(nsid >= TFM_INVALID_NSID_MIN)
           /\ token # TFM_NS_CLIENT_INVALID_TOKEN
           /\ \E s \in Slot :
                /\ table[s].token = TFM_NS_CLIENT_INVALID_TOKEN
                /\ nsid_mgr_add_entry(table, nsid, token) =
                     [table EXCEPT ![s] = [token |-> token, nsid |-> nsid]]
<1>1. /\ ~(nsid >= TFM_INVALID_NSID_MIN)
      /\ token # TFM_NS_CLIENT_INVALID_TOKEN
      /\ SlotsWith(table, TFM_NS_CLIENT_INVALID_TOKEN) # {}
  BY Zenon DEF nsid_mgr_add_entry_status
<1>2. FirstSlotWith(table, TFM_NS_CLIENT_INVALID_TOKEN)
        \in SlotsWith(table, TFM_NS_CLIENT_INVALID_TOKEN)
  BY <1>1, FirstSlotFound
<1>. QED
  BY <1>1, <1>2, Zenon DEF nsid_mgr_add_entry, SlotsWith

(***************************************************************************)
(* A successful nsid_mgr_remove_entry frees one slot that held the token.  *)
(***************************************************************************)
LEMMA RemoveEntryEffect ==
    ASSUME NEW table, NEW token,
           nsid_mgr_remove_entry_status(table, token) = "SUCCESS"
    PROVE  /\ token # TFM_NS_CLIENT_INVALID_TOKEN
           /\ \E s \in Slot :
                /\ table[s].token = token
                /\ nsid_mgr_remove_entry(table, token) = [table EXCEPT ![s] = FreeEntry]
<1>1. token # TFM_NS_CLIENT_INVALID_TOKEN /\ SlotsWith(table, token) # {}
  BY Zenon DEF nsid_mgr_remove_entry_status
<1>2. FirstSlotWith(table, token) \in SlotsWith(table, token)
  BY <1>1, FirstSlotFound
<1>. QED
  BY <1>1, <1>2, Zenon DEF nsid_mgr_remove_entry, SlotsWith

(***************************************************************************)
(* nsid_mgr_query_nsid finds the NSID of a token that a single slot holds. *)
(***************************************************************************)
LEMMA QueryFindsEntry ==
    ASSUME NEW table, NEW token, token # TFM_NS_CLIENT_INVALID_TOKEN,
           NEW s \in Slot, table[s].token = token,
           \A i \in Slot : table[i].token = token => i = s
    PROVE  nsid_mgr_query_nsid(table, token) = table[s].nsid
<1>1. s \in SlotsWith(table, token)
  BY DEF SlotsWith
<1>2. FirstSlotWith(table, token) \in SlotsWith(table, token)
  BY <1>1, FirstSlotFound
<1>3. FirstSlotWith(table, token) = s
  BY <1>2 DEF SlotsWith
<1>. QED
  BY <1>1, <1>3, Zenon DEF nsid_mgr_query_nsid

(***************************************************************************)
(* Every thread is given a negative NSID.                                  *)
(***************************************************************************)
LEMMA ThreadNsidNegative ==
    ASSUME NEW t_name
    PROVE  /\ nsid_mgr_get_thread_nsid(t_name) \in Int
           /\ nsid_mgr_get_thread_nsid(t_name) < 0
  BY DEF nsid_mgr_get_thread_nsid, test_ns_nsid_table, TFM_DEFAULT_NSID

-----------------------------------------------------------------------------
(* The inductive invariant. *)

\* Before, and without, a successful initialisation nothing has happened.
NotReady ==
    kernel # "ready" =>
        /\ test_ns_token_table = ZeroedTable
        /\ Live = {}
        /\ running = NoThread /\ pend = NoThread
        /\ ~nsce.active

\* The entries and the live threads correspond one to one.
EntryPerThread ==
    kernel = "ready" =>
        /\ \A t \in Live : \E i \in Slot :
             /\ test_ns_token_table[i].token = tz_memory[t]
             /\ test_ns_token_table[i].nsid = tz_module[t]
        /\ \A i \in Slot :
             test_ns_token_table[i].token # TFM_NS_CLIENT_INVALID_TOKEN =>
                \E t \in Live : /\ tz_memory[t] = test_ns_token_table[i].token
                                /\ tz_module[t] = test_ns_token_table[i].nsid
        /\ \A i, j \in Slot :
             /\ test_ns_token_table[i].token = test_ns_token_table[j].token
             /\ test_ns_token_table[i].token # TFM_NS_CLIENT_INVALID_TOKEN
             => i = j
        /\ \A t, u \in Live : tz_memory[t] = tz_memory[u] => t = u

\* The next thread ID is not the token of any thread.
TokensUsed == \A t \in Live : tz_memory[t] < nsid_mgr_thread_id

\* Outside the handlers the running thread is live and its context is the
\* active one; between the two halves of a switch no context is active.
SwitchState ==
    /\ pend = NoThread =>
         /\ running \in Live \cup {Idle, NoThread}
         /\ running \in Live => /\ nsce.active
                               /\ nsce.tid = tz_memory[running]
                               /\ nsce.nsid = tz_module[running]
         /\ running \notin Live => ~nsce.active
    /\ pend # NoThread => ~nsce.active /\ pend \in Live \cup {Idle}

IInv ==
    /\ TypeOK
    /\ NotReady
    /\ EntryPerThread
    /\ TokensUsed
    /\ SwitchState
    /\ ContextHeldForLiveThreads
    /\ ActiveTokenMirrorsNsce

-----------------------------------------------------------------------------
(***************************************************************************)
(* NSIDs that threads are created with are negative integers.              *)
(***************************************************************************)
LEMMA NsidNegative == \A n \in Nsid : n \in Int /\ n < 0
  BY ThreadNsidNegative DEF Nsid

(***************************************************************************)
(* The live threads are finitely many, and count as a natural number.      *)
(***************************************************************************)
LEMMA LiveFinite == IsFiniteSet(Live) /\ Cardinality(Live) \in Nat
<1>1. Live \in SUBSET Thread
  BY DEF Live
<1>2. IsFiniteSet(Live)
  BY <1>1, ThreadAssumption, FS_Subset
<1>. QED
  BY <1>2, FS_CardinalityType

(***************************************************************************)
(* The initial state, in which static storage is zero, satisfies the       *)
(* inductive invariant.                                                    *)
(***************************************************************************)
LEMMA InitInv == Init => IInv
<1>. SUFFICES ASSUME Init PROVE IInv
  OBVIOUS
<1>1. Live = {}
  BY DEF Init, Live
<1>2. TypeOK
  BY ThreadIdAssumption DEF Init, TypeOK, ZeroedTable, NsceIdle
<1>3. NotReady
  BY <1>1 DEF Init, NotReady, NsceIdle
<1>4. EntryPerThread
  BY DEF Init, EntryPerThread
<1>5. TokensUsed
  BY <1>1 DEF TokensUsed
<1>6. SwitchState
  BY <1>1 DEF Init, SwitchState, NsceIdle
<1>7. ContextHeldForLiveThreads
  BY <1>1, FS_EmptySet DEF Init, ContextHeldForLiveThreads, NsceIdle
<1>8. ActiveTokenMirrorsNsce
  BY DEF Init, ActiveTokenMirrorsNsce
<1>. QED
  BY <1>2, <1>3, <1>4, <1>5, <1>6, <1>7, <1>8 DEF IInv

(***************************************************************************)
(* osKernelInitialize empties the table while no thread exists.            *)
(***************************************************************************)
LEMMA InitContextInv == IInv /\ TZ_InitContextSystem_S => IInv'
<1>. SUFFICES ASSUME IInv, TZ_InitContextSystem_S PROVE IInv'
  OBVIOUS
<1>. USE DEF IInv, TZ_InitContextSystem_S, ClearActiveToken
<1>1. /\ Live = {} /\ Live' = {}
      /\ running' = NoThread /\ pend' = NoThread /\ ~nsce'.active
  BY DEF NotReady, Live
<1>2. TypeOK'
  BY ThreadIdAssumption
  DEF TypeOK, nsid_mgr_init, FreeEntry, TFM_NS_CLIENT_INVALID_TOKEN, TFM_INVALID_NSID_MIN
<1>3. NotReady'
  BY <1>1 DEF NotReady
<1>4. EntryPerThread'
  BY <1>1 DEF EntryPerThread, nsid_mgr_init, FreeEntry
<1>5. TokensUsed'
  BY <1>1 DEF TokensUsed
<1>6. SwitchState'
  BY <1>1 DEF SwitchState
<1>7. ContextHeldForLiveThreads'
  BY <1>1 DEF ContextHeldForLiveThreads
<1>8. ActiveTokenMirrorsNsce'
  BY <1>1 DEF ActiveTokenMirrorsNsce
<1>. QED
  BY <1>2, <1>3, <1>4, <1>5, <1>6, <1>7, <1>8

(***************************************************************************)
(* The store half of a switch deactivates the context of the thread that   *)
(* is left: the SAVE cannot fail.                                          *)
(***************************************************************************)
LEMMA StoreInv == ASSUME NEW next \in Thread \cup {Idle}
                  PROVE  IInv /\ TZ_StoreContext_S(next) => IInv'
<1>. SUFFICES ASSUME IInv, TZ_StoreContext_S(next) PROVE IInv'
  OBVIOUS
<1>. USE DEF IInv, TZ_StoreContext_S, ClearActiveToken
<1>1. Live' = Live /\ next \in Live \cup {Idle} /\ next # NoThread
  BY ThreadAssumption DEF Live
<1>2. ASSUME running \in Live PROVE SaveSucceeds(tz_memory[running])
  <2>1. Cardinality(Live) > 0
    BY <1>2, LiveFinite, FS_EmptySet
  <2>. QED
    BY <1>2, <2>1, LiveFinite
    DEF SwitchState, SaveSucceeds, ContextHeldForLiveThreads, TypeOK
<1>3. /\ ~nsce'.active /\ nsce'.ref = nsce.ref /\ nsce' \in
           [ref : Nat, tid : 0 .. NSID_MGR_THREAD_ID_MAX - 1,
            nsid : Nsid \cup {0}, active : BOOLEAN]
      /\ current_active_token' = TFM_NS_CLIENT_INVALID_TOKEN
  <2>1. CASE running \in Live
    BY <1>2, <2>1 DEF tfm_nsce_save_ctx, TypeOK
  <2>2. CASE running \notin Live
    BY <2>2 DEF SwitchState, TypeOK, ActiveTokenMirrorsNsce
  <2>. QED
    BY <2>1, <2>2
<1>4. TypeOK'
  BY <1>3, ThreadIdAssumption DEF TypeOK, TFM_NS_CLIENT_INVALID_TOKEN
<1>5. NotReady'
  BY DEF NotReady
<1>6. EntryPerThread'
  BY <1>1 DEF EntryPerThread
<1>7. TokensUsed'
  BY <1>1 DEF TokensUsed
<1>8. SwitchState'
  BY <1>1, <1>3 DEF SwitchState
<1>9. ContextHeldForLiveThreads'
  BY <1>1, <1>3 DEF ContextHeldForLiveThreads
<1>10. ActiveTokenMirrorsNsce'
  BY <1>3 DEF ActiveTokenMirrorsNsce
<1>. QED
  BY <1>4, <1>5, <1>6, <1>7, <1>8, <1>9, <1>10

(***************************************************************************)
(* The load half of a switch activates the context of the thread that is   *)
(* entered, with its own NSID: neither the query nor the LOAD can fail.    *)
(***************************************************************************)
LEMMA LoadInv == IInv /\ TZ_LoadContext_S => IInv'
<1>. SUFFICES ASSUME IInv, TZ_LoadContext_S PROVE IInv'
  OBVIOUS
<1>. USE DEF IInv, TZ_LoadContext_S
<1>1. /\ Live' = Live /\ kernel = "ready" /\ ~nsce.active
      /\ pend \in Live \cup {Idle} /\ running' = pend /\ pend' = NoThread
  BY DEF Live, NotReady, SwitchState
<1>2. ASSUME pend \in Live
      PROVE  /\ nsce' = [nsce EXCEPT !.tid = tz_memory[pend], !.nsid = tz_module[pend],
                                    !.active = TRUE]
             /\ current_active_token' = tz_memory[pend]
             /\ tz_module[pend] \in Nsid
  <2>. DEFINE token == tz_memory[pend]
              nsid == nsid_mgr_query_nsid(test_ns_token_table, token)
  <2>1. token # TFM_NS_CLIENT_INVALID_TOKEN
    BY <1>2 DEF TypeOK, Live, TFM_NS_CLIENT_INVALID_TOKEN
  <2>2. PICK i \in Slot : /\ test_ns_token_table[i].token = token
                          /\ test_ns_token_table[i].nsid = tz_module[pend]
    BY <1>1, <1>2 DEF EntryPerThread
  <2>3. \A j \in Slot : test_ns_token_table[j].token = token => j = i
    BY <1>1, <2>1, <2>2 DEF EntryPerThread
  <2>4. nsid = tz_module[pend]
    BY <2>1, <2>2, <2>3, QueryFindsEntry
  <2>5. tz_module[pend] \in Nsid
    <3>1. tz_module[pend] \in Nsid \cup {0}
      BY <2>2 DEF TypeOK
    <3>2. tz_module[pend] \in Nsid \cup {TFM_DEFAULT_NSID}
      BY <1>2 DEF TypeOK, Live
    <3>. QED
      BY <3>1, <3>2 DEF TFM_DEFAULT_NSID
  <2>6. nsid < TFM_INVALID_NSID_MIN
    BY <2>4, <2>5, NsidNegative DEF TFM_INVALID_NSID_MIN
  <2>7. Cardinality(Live) > 0
    BY <1>2, LiveFinite, FS_EmptySet
  <2>8. LoadSucceeds(token, nsid)
    BY <2>6, <2>7, LiveFinite DEF LoadSucceeds, ContextHeldForLiveThreads, TypeOK
  <2>9. tfm_nsce_load_ctx(token, nsid) /\ current_active_token' = token
    BY <1>2, <2>6, <2>8
  <2>. QED
    BY <2>4, <2>5, <2>9 DEF tfm_nsce_load_ctx
<1>3. ASSUME pend \notin Live PROVE UNCHANGED <<nsce, current_active_token>> /\ pend = Idle
  BY <1>1, <1>3
<1>4. TypeOK'
  <2>1. CASE pend \in Live
    <3>1. tz_memory[pend] \in 0 .. NSID_MGR_THREAD_ID_MAX - 1
      BY <2>1 DEF TypeOK, Live
    <3>2. nsce' \in [ref : Nat, tid : 0 .. NSID_MGR_THREAD_ID_MAX - 1,
                     nsid : Nsid \cup {0}, active : BOOLEAN]
      BY <1>2, <2>1, <3>1 DEF TypeOK
    <3>3. current_active_token' \in -1 .. NSID_MGR_THREAD_ID_MAX - 1
      BY <1>2, <2>1, <3>1, ThreadIdAssumption
    <3>. QED
      BY <1>1, <3>2, <3>3 DEF TypeOK
  <2>2. CASE pend \notin Live
    BY <1>1, <1>3, <2>2 DEF TypeOK
  <2>. QED
    BY <2>1, <2>2
<1>5. NotReady'
  BY <1>1 DEF NotReady
<1>6. EntryPerThread'
  BY <1>1 DEF EntryPerThread
<1>7. TokensUsed'
  BY <1>1 DEF TokensUsed
<1>8. SwitchState'
  <2>1. CASE pend \in Live
    BY <1>1, <1>2, <2>1 DEF SwitchState, TypeOK
  <2>2. CASE pend \notin Live
    BY <1>1, <1>3, <2>2 DEF SwitchState
  <2>. QED
    BY <2>1, <2>2
<1>9. ContextHeldForLiveThreads'
  <2>1. nsce'.ref = nsce.ref
    BY <1>2, <1>3 DEF TypeOK
  <2>. QED
    BY <1>1, <2>1 DEF ContextHeldForLiveThreads
<1>10. ActiveTokenMirrorsNsce'
  <2>1. CASE pend \in Live
    BY <1>2, <2>1 DEF ActiveTokenMirrorsNsce, TypeOK
  <2>2. CASE pend \notin Live
    BY <1>1, <1>3, <2>2 DEF ActiveTokenMirrorsNsce
  <2>. QED
    BY <2>1, <2>2
<1>. QED
  BY <1>4, <1>5, <1>6, <1>7, <1>8, <1>9, <1>10

(***************************************************************************)
(* What the exit of the running thread does: it frees the thread's entry   *)
(* and one reference of the context, and leaves no context active.         *)
(***************************************************************************)
LEMMA FreeEffect ==
    ASSUME NEW next \in Thread \cup {Idle}, IInv, TZ_FreeModuleContext_S(next)
    PROVE  /\ running \in Live /\ kernel = "ready" /\ kernel' = "ready"
           /\ pend' = next /\ next \in (Live \cup {Idle}) \ {running} /\ next # NoThread
           /\ tz_memory' = [tz_memory EXCEPT ![running] = 0]
           /\ UNCHANGED <<tz_module, nsid_mgr_thread_id, running>>
           /\ Live' = Live \ {running} /\ \A t \in Live' : tz_memory'[t] = tz_memory[t]
           /\ tz_memory[running] # TFM_NS_CLIENT_INVALID_TOKEN
           /\ current_active_token' = TFM_NS_CLIENT_INVALID_TOKEN
           /\ nsce.ref > 0 /\ nsce'.ref = nsce.ref - 1 /\ ~nsce'.active
           /\ nsce' \in [ref : Nat, tid : 0 .. NSID_MGR_THREAD_ID_MAX - 1,
                         nsid : Nsid \cup {0}, active : BOOLEAN]
           /\ \E e \in Slot :
                /\ test_ns_token_table[e].token = tz_memory[running]
                /\ test_ns_token_table[e].nsid = tz_module[running]
                /\ test_ns_token_table' = [test_ns_token_table EXCEPT ![e] = FreeEntry]
<1>. DEFINE token == tz_memory[running]
<1>. USE DEF IInv, TZ_FreeModuleContext_S
<1>1. /\ running \in Live /\ kernel = "ready" /\ kernel' = "ready"
      /\ pend' = next /\ next \in (Live \cup {Idle}) \ {running} /\ next # NoThread
      /\ tz_memory' = [tz_memory EXCEPT ![running] = 0]
      /\ UNCHANGED <<tz_module, nsid_mgr_thread_id, running>>
  BY ThreadAssumption DEF Live
<1>2. Live' = Live \ {running} /\ \A t \in Live' : tz_memory'[t] = tz_memory[t]
  BY <1>1 DEF Live, TypeOK
<1>3. /\ nsce.active /\ nsce.tid = token /\ nsce.ref > 0
      /\ token # TFM_NS_CLIENT_INVALID_TOKEN
  <2>1. Cardinality(Live) > 0
    BY <1>1, LiveFinite, FS_EmptySet
  <2>2. nsce.active /\ nsce.tid = token
    BY <1>1 DEF SwitchState
  <2>3. nsce.ref > 0
    BY <2>1, LiveFinite DEF ContextHeldForLiveThreads, TypeOK
  <2>4. token # TFM_NS_CLIENT_INVALID_TOKEN
    BY <1>1 DEF TypeOK, Live, TFM_NS_CLIENT_INVALID_TOKEN
  <2>. QED
    BY <2>2, <2>3, <2>4
<1>4. PICK e \in Slot : /\ test_ns_token_table[e].token = token
                        /\ test_ns_token_table[e].nsid = tz_module[running]
  BY <1>1 DEF EntryPerThread
<1>5. nsid_mgr_remove_entry_status(test_ns_token_table, token) = "SUCCESS"
  BY <1>3, <1>4 DEF nsid_mgr_remove_entry_status, SlotsWith
<1>6. test_ns_token_table' = [test_ns_token_table EXCEPT ![e] = FreeEntry]
  <2>1. PICK s \in Slot :
          /\ test_ns_token_table[s].token = token
          /\ nsid_mgr_remove_entry(test_ns_token_table, token) =
               [test_ns_token_table EXCEPT ![s] = FreeEntry]
    BY <1>5, RemoveEntryEffect
  <2>2. s = e
    BY <1>1, <1>3, <1>4, <2>1 DEF EntryPerThread
  <2>. QED
    BY <1>5, <2>1, <2>2
<1>7. /\ nsce' = [nsce EXCEPT !.ref = nsce.ref - 1, !.active = FALSE]
      /\ current_active_token' = TFM_NS_CLIENT_INVALID_TOKEN
  <2>1. tfm_nsce_release_ctx(token) /\ ClearActiveToken
    BY <1>3, <1>5 DEF ReleaseSucceeds
  <2>. QED
    BY <1>3, <2>1 DEF tfm_nsce_release_ctx, ClearActiveToken
<1>. HIDE DEF TZ_FreeModuleContext_S
<1>8. /\ nsce' \in [ref : Nat, tid : 0 .. NSID_MGR_THREAD_ID_MAX - 1,
                    nsid : Nsid \cup {0}, active : BOOLEAN]
      /\ nsce'.ref = nsce.ref - 1 /\ ~nsce'.active
  <2>1. nsce.ref - 1 \in Nat
    BY <1>3 DEF TypeOK
  <2>. QED
    BY <1>7, <2>1 DEF TypeOK
<1>. QED
  BY <1>1, <1>2, <1>3, <1>4, <1>6, <1>7, <1>8

(***************************************************************************)
(* The exit of the running thread preserves the inductive invariant.       *)
(***************************************************************************)
LEMMA FreeInv == ASSUME NEW next \in Thread \cup {Idle}
                 PROVE  IInv /\ TZ_FreeModuleContext_S(next) => IInv'
<1>. SUFFICES ASSUME IInv, TZ_FreeModuleContext_S(next) PROVE IInv'
  OBVIOUS
<1>. DEFINE token == tz_memory[running]
<1>. USE DEF IInv
<1>1. /\ running \in Live /\ kernel = "ready" /\ kernel' = "ready"
      /\ pend' = next /\ next \in (Live \cup {Idle}) \ {running} /\ next # NoThread
      /\ tz_memory' = [tz_memory EXCEPT ![running] = 0]
      /\ UNCHANGED <<tz_module, nsid_mgr_thread_id, running>>
  BY FreeEffect
<1>2. Live' = Live \ {running} /\ \A t \in Live' : tz_memory'[t] = tz_memory[t]
  BY FreeEffect
<1>3. nsce.ref > 0 /\ token # TFM_NS_CLIENT_INVALID_TOKEN
  BY FreeEffect
<1>4. PICK e \in Slot :
        /\ test_ns_token_table[e].token = token
        /\ test_ns_token_table[e].nsid = tz_module[running]
        /\ test_ns_token_table' = [test_ns_token_table EXCEPT ![e] = FreeEntry]
  BY FreeEffect
<1>6. test_ns_token_table' = [test_ns_token_table EXCEPT ![e] = FreeEntry]
  BY <1>4
<1>7. current_active_token' = TFM_NS_CLIENT_INVALID_TOKEN
  BY FreeEffect
<1>8. /\ nsce' \in [ref : Nat, tid : 0 .. NSID_MGR_THREAD_ID_MAX - 1,
                    nsid : Nsid \cup {0}, active : BOOLEAN]
      /\ nsce'.ref = nsce.ref - 1 /\ ~nsce'.active
  BY FreeEffect
<1>9. TypeOK'
  <2>1. FreeEntry \in [token : -1 .. NSID_MGR_THREAD_ID_MAX - 1, nsid : Nsid \cup {0}]
    BY ThreadIdAssumption DEF FreeEntry, TFM_NS_CLIENT_INVALID_TOKEN, TFM_INVALID_NSID_MIN
  <2>2. test_ns_token_table' \in
          [Slot -> [token : -1 .. NSID_MGR_THREAD_ID_MAX - 1, nsid : Nsid \cup {0}]]
    BY <1>6, <2>1 DEF TypeOK
  <2>3. current_active_token' \in -1 .. NSID_MGR_THREAD_ID_MAX - 1
    BY <1>7, ThreadIdAssumption DEF TFM_NS_CLIENT_INVALID_TOKEN
  <2>4. tz_memory' \in [Thread -> 0 .. NSID_MGR_THREAD_ID_MAX - 1]
    <3>1. 0 \in 0 .. NSID_MGR_THREAD_ID_MAX - 1
      BY ThreadIdAssumption
    <3>. QED
      BY <1>1, <3>1 DEF TypeOK
  <2>. QED
    BY <1>1, <1>8, <2>2, <2>3, <2>4 DEF TypeOK
<1>10. NotReady'
  BY <1>1 DEF NotReady
<1>11. EntryPerThread'
  <2>0. \A i \in Slot : i # e => test_ns_token_table'[i] = test_ns_token_table[i]
    BY <1>6 DEF TypeOK
  <2>1. test_ns_token_table'[e].token = TFM_NS_CLIENT_INVALID_TOKEN
    BY <1>6 DEF TypeOK, FreeEntry
  <2>2. ASSUME NEW t \in Live'
        PROVE  \E i \in Slot : /\ test_ns_token_table'[i].token = tz_memory'[t]
                               /\ test_ns_token_table'[i].nsid = tz_module'[t]
    <3>1. t \in Live /\ t # running /\ tz_memory'[t] = tz_memory[t]
      BY <1>2, <2>2
    <3>2. PICK i \in Slot : /\ test_ns_token_table[i].token = tz_memory[t]
                            /\ test_ns_token_table[i].nsid = tz_module[t]
      BY <1>1, <3>1 DEF EntryPerThread
    <3>3. i # e
      BY <1>1, <1>4, <3>1, <3>2 DEF EntryPerThread
    <3>. QED
      BY <1>1, <2>0, <3>1, <3>2, <3>3
  <2>3. ASSUME NEW i \in Slot,
               test_ns_token_table'[i].token # TFM_NS_CLIENT_INVALID_TOKEN
        PROVE  \E t \in Live' : /\ tz_memory'[t] = test_ns_token_table'[i].token
                                /\ tz_module'[t] = test_ns_token_table'[i].nsid
    <3>1. i # e /\ test_ns_token_table'[i] = test_ns_token_table[i]
      BY <2>0, <2>1, <2>3
    <3>2. PICK t \in Live : /\ tz_memory[t] = test_ns_token_table[i].token
                            /\ tz_module[t] = test_ns_token_table[i].nsid
      BY <1>1, <2>3, <3>1 DEF EntryPerThread
    <3>3. t # running
      BY <1>1, <1>3, <1>4, <3>1, <3>2 DEF EntryPerThread
    <3>. QED
      BY <1>1, <1>2, <3>1, <3>2, <3>3
  <2>4. ASSUME NEW i \in Slot, NEW j \in Slot,
               test_ns_token_table'[i].token = test_ns_token_table'[j].token,
               test_ns_token_table'[i].token # TFM_NS_CLIENT_INVALID_TOKEN
        PROVE  i = j
    BY <1>1, <2>0, <2>1, <2>4 DEF EntryPerThread
  <2>5. \A t, u \in Live' : tz_memory'[t] = tz_memory'[u] => t = u
    BY <1>1, <1>2 DEF EntryPerThread
  <2>. QED
    BY <2>2, <2>3, <2>4, <2>5 DEF EntryPerThread
<1>12. TokensUsed'
  BY <1>1, <1>2 DEF TokensUsed
<1>13. SwitchState'
  BY <1>1, <1>2, <1>8 DEF SwitchState
<1>14. ContextHeldForLiveThreads'
  <2>1. Cardinality(Live') = Cardinality(Live) - 1
    BY <1>1, <1>2, LiveFinite, FS_RemoveElement
  <2>. QED
    BY <1>8, <2>1, LiveFinite DEF ContextHeldForLiveThreads, TypeOK
<1>15. ActiveTokenMirrorsNsce'
  BY <1>7, <1>8 DEF ActiveTokenMirrorsNsce
<1>. QED
  BY <1>9, <1>10, <1>11, <1>12, <1>13, <1>14, <1>15

(***************************************************************************)
(* The creation of a thread binds a token that no thread has, or leaves    *)
(* every live thread as it was.                                            *)
(***************************************************************************)
LEMMA AllocInv == ASSUME NEW t \in Thread, NEW t_name \in ThreadName
                  PROVE  IInv /\ TZ_AllocModuleContext_S(t, t_name) => IInv'
<1>. SUFFICES ASSUME IInv, TZ_AllocModuleContext_S(t, t_name) PROVE IInv'
  OBVIOUS
<1>. DEFINE nsid == nsid_mgr_get_thread_nsid(t_name)
            id == nsid_mgr_thread_id
<1>. USE DEF IInv
<1>1. CASE UNCHANGED vars
  <2>1. Live' = Live
    BY <1>1 DEF vars, rtxVars, Live
  <2>. QED
    BY <1>1, <2>1
    DEF vars, shimVars, rtxVars, TypeOK, NotReady, EntryPerThread, TokensUsed, SwitchState,
        ContextHeldForLiveThreads, ActiveTokenMirrorsNsce
<1>2. ASSUME ~UNCHANGED vars
      PROVE  /\ id < NSID_MGR_THREAD_ID_MAX /\ nsid_mgr_thread_id' = id + 1
             /\ UNCHANGED <<current_active_token, kernel, running, pend>>
             /\ pend = NoThread /\ t \notin Live
             /\ \E token \in {id, TFM_NS_CLIENT_INVALID_TOKEN} :
                  /\ tfm_nsce_acquire_ctx(id, token)
                  /\ \/ /\ nsid_mgr_add_entry_status(test_ns_token_table, nsid, token)
                              = "SUCCESS"
                        /\ test_ns_token_table' =
                             nsid_mgr_add_entry(test_ns_token_table, nsid, token)
                        /\ tz_memory' = [tz_memory EXCEPT ![t] = token]
                        /\ tz_module' = [tz_module EXCEPT ![t] = nsid]
                     \/ UNCHANGED <<test_ns_token_table, tz_memory, tz_module>>
  <2>1. ~ThreadIdsUsedUp
    BY <1>2 DEF TZ_AllocModuleContext_S
  <2>2. id < NSID_MGR_THREAD_ID_MAX
    BY <2>1, ThreadIdAssumption DEF ThreadIdsUsedUp, TypeOK
  <2>. QED
    BY <1>2, <2>2 DEF TZ_AllocModuleContext_S, TakeThreadId
<1>3. CASE ~UNCHANGED vars
  <2>0. id \in 1 .. NSID_MGR_THREAD_ID_MAX - 1 /\ nsid \in Nsid /\ nsid < 0
    BY <1>2, <1>3, ThreadIdAssumption, ThreadNsidNegative DEF TypeOK, Nsid
  <2>1. PICK token \in {id, TFM_NS_CLIENT_INVALID_TOKEN} :
          /\ tfm_nsce_acquire_ctx(id, token)
          /\ \/ /\ nsid_mgr_add_entry_status(test_ns_token_table, nsid, token) = "SUCCESS"
                /\ test_ns_token_table' =
                     nsid_mgr_add_entry(test_ns_token_table, nsid, token)
                /\ tz_memory' = [tz_memory EXCEPT ![t] = token]
                /\ tz_module' = [tz_module EXCEPT ![t] = nsid]
             \/ UNCHANGED <<test_ns_token_table, tz_memory, tz_module>>
    BY <1>2, <1>3
  <2>2. /\ nsce' \in [ref : Nat, tid : 0 .. NSID_MGR_THREAD_ID_MAX - 1,
                      nsid : Nsid \cup {0}, active : BOOLEAN]
        /\ nsce'.active = nsce.active /\ nsce'.tid = nsce.tid /\ nsce'.nsid = nsce.nsid
        /\ nsce'.ref \in {nsce.ref, nsce.ref + 1}
        /\ token = id => nsce'.ref = nsce.ref + 1
    <3>1. TFM_NS_CLIENT_INVALID_TOKEN # id
      BY <2>0 DEF TFM_NS_CLIENT_INVALID_TOKEN
    <3>2. nsce.ref + 1 \in Nat
      BY DEF TypeOK
    <3>. QED
      BY <2>1, <3>1, <3>2 DEF tfm_nsce_acquire_ctx, TypeOK
  <2>3. nsid_mgr_thread_id' \in 1 .. NSID_MGR_THREAD_ID_MAX
    BY <1>2, <1>3, <2>0, ThreadIdAssumption
  <2>4. CASE UNCHANGED <<test_ns_token_table, tz_memory, tz_module>>
    <3>1. Live' = Live
      BY <2>4 DEF Live
    <3>2. TypeOK'
      BY <1>2, <1>3, <2>2, <2>3, <2>4 DEF TypeOK
    <3>3. NotReady'
      BY <1>2, <1>3, <2>2, <2>4, <3>1 DEF NotReady
    <3>4. EntryPerThread'
      BY <1>2, <1>3, <2>4, <3>1 DEF EntryPerThread
    <3>5. TokensUsed'
      <4>1. \A u \in Live : tz_memory[u] \in Int
        BY DEF TypeOK, Live
      <4>. QED
        BY <1>2, <1>3, <2>0, <2>4, <3>1, <4>1 DEF TokensUsed
    <3>6. SwitchState'
      BY <1>2, <1>3, <2>2, <2>4, <3>1 DEF SwitchState
    <3>7. ContextHeldForLiveThreads'
      BY <2>2, <3>1, LiveFinite DEF ContextHeldForLiveThreads, TypeOK
    <3>8. ActiveTokenMirrorsNsce'
      BY <1>2, <1>3, <2>2 DEF ActiveTokenMirrorsNsce
    <3>. QED
      BY <3>2, <3>3, <3>4, <3>5, <3>6, <3>7, <3>8
  <2>5. CASE /\ nsid_mgr_add_entry_status(test_ns_token_table, nsid, token) = "SUCCESS"
             /\ test_ns_token_table' = nsid_mgr_add_entry(test_ns_token_table, nsid, token)
             /\ tz_memory' = [tz_memory EXCEPT ![t] = token]
             /\ tz_module' = [tz_module EXCEPT ![t] = nsid]
    <3>1. PICK s \in Slot :
            /\ test_ns_token_table[s].token = TFM_NS_CLIENT_INVALID_TOKEN
            /\ test_ns_token_table' =
                 [test_ns_token_table EXCEPT ![s] = [token |-> token, nsid |-> nsid]]
      BY <2>5, AddEntryEffect
    <3>2. token = id
      BY <2>1, <2>5, AddEntryEffect
    <3>3. kernel = "ready"
      <4>1. ZeroedTable[s].token = 0
        BY DEF ZeroedTable
      <4>. QED
        BY <3>1, <4>1 DEF NotReady, TFM_NS_CLIENT_INVALID_TOKEN
    <3>4. /\ t \notin Live /\ Live' = Live \cup {t}
          /\ \A u \in Live : tz_memory'[u] = tz_memory[u] /\ tz_module'[u] = tz_module[u]
          /\ tz_memory'[t] = id /\ tz_module'[t] = nsid
      BY <1>2, <1>3, <2>0, <2>5, <3>2 DEF Live, TypeOK
    <3>5. TypeOK'
      <4>1. tz_memory' \in [Thread -> 0 .. NSID_MGR_THREAD_ID_MAX - 1]
        BY <2>0, <2>5, <3>2, ThreadIdAssumption DEF TypeOK
      <4>2. tz_module' \in [Thread -> Nsid \cup {TFM_DEFAULT_NSID}]
        BY <2>0, <2>5 DEF TypeOK
      <4>3. [token |-> token, nsid |-> nsid] \in
              [token : -1 .. NSID_MGR_THREAD_ID_MAX - 1, nsid : Nsid \cup {0}]
        BY <2>0, <3>2, ThreadIdAssumption
      <4>4. test_ns_token_table' \in
              [Slot -> [token : -1 .. NSID_MGR_THREAD_ID_MAX - 1, nsid : Nsid \cup {0}]]
        BY <3>1, <4>3 DEF TypeOK
      <4>. QED
        BY <1>2, <1>3, <2>2, <2>3, <4>1, <4>2, <4>4 DEF TypeOK
    <3>6. NotReady'
      BY <1>2, <1>3, <3>3 DEF NotReady
    <3>7. EntryPerThread'
      <4>0. /\ \A i \in Slot : i # s => test_ns_token_table'[i] = test_ns_token_table[i]
            /\ test_ns_token_table'[s].token = id /\ test_ns_token_table'[s].nsid = nsid
        BY <3>1, <3>2 DEF TypeOK
      <4>1. \A u \in Live : tz_memory[u] # id
        <5>1. \A u \in Live : tz_memory[u] \in Int
          BY DEF TypeOK, Live
        <5>. QED
          BY <2>0, <5>1 DEF TokensUsed
      <4>2. \A i \in Slot : test_ns_token_table[i].token # id
        BY <2>0, <3>3, <4>1 DEF EntryPerThread, TFM_NS_CLIENT_INVALID_TOKEN
      <4>3. ASSUME NEW u \in Live'
            PROVE  \E i \in Slot : /\ test_ns_token_table'[i].token = tz_memory'[u]
                                   /\ test_ns_token_table'[i].nsid = tz_module'[u]
        <5>1. CASE u = t
          BY <3>4, <4>0, <5>1
        <5>2. CASE u \in Live
          <6>1. PICK i \in Slot : /\ test_ns_token_table[i].token = tz_memory[u]
                                  /\ test_ns_token_table[i].nsid = tz_module[u]
            BY <3>3, <5>2 DEF EntryPerThread
          <6>2. i # s
            BY <3>1, <5>2, <6>1 DEF TypeOK, Live, TFM_NS_CLIENT_INVALID_TOKEN
          <6>. QED
            BY <3>4, <4>0, <5>2, <6>1, <6>2
        <5>. QED
          BY <3>4, <4>3, <5>1, <5>2
      <4>4. ASSUME NEW i \in Slot,
                   test_ns_token_table'[i].token # TFM_NS_CLIENT_INVALID_TOKEN
            PROVE  \E u \in Live' : /\ tz_memory'[u] = test_ns_token_table'[i].token
                                    /\ tz_module'[u] = test_ns_token_table'[i].nsid
        <5>1. CASE i = s
          BY <3>4, <4>0, <5>1
        <5>2. CASE i # s
          BY <3>3, <3>4, <4>0, <4>4, <5>2 DEF EntryPerThread
        <5>. QED
          BY <5>1, <5>2
      <4>5. ASSUME NEW i \in Slot, NEW j \in Slot,
                   test_ns_token_table'[i].token = test_ns_token_table'[j].token,
                   test_ns_token_table'[i].token # TFM_NS_CLIENT_INVALID_TOKEN
            PROVE  i = j
        BY <3>3, <4>0, <4>2, <4>5 DEF EntryPerThread
      <4>6. ASSUME NEW u \in Live', NEW v \in Live', tz_memory'[u] = tz_memory'[v]
            PROVE  u = v
        BY <3>3, <3>4, <4>1, <4>6 DEF EntryPerThread
      <4>. QED
        BY <4>3, <4>4, <4>5, <4>6 DEF EntryPerThread
    <3>8. TokensUsed'
      <4>1. \A u \in Live : tz_memory[u] \in Int
        BY DEF TypeOK, Live
      <4>. QED
        BY <1>2, <1>3, <2>0, <3>4, <4>1 DEF TokensUsed
    <3>9. SwitchState'
      <4>1. running \in Live' <=> running \in Live
        BY <1>2, <1>3, <3>4, ThreadAssumption DEF SwitchState
      <4>. QED
        BY <1>2, <1>3, <2>2, <3>4, <4>1 DEF SwitchState
    <3>10. ContextHeldForLiveThreads'
      <4>1. Cardinality(Live') = Cardinality(Live) + 1
        BY <3>4, LiveFinite, FS_AddElement
      <4>. QED
        BY <2>2, <3>2, <4>1, LiveFinite DEF ContextHeldForLiveThreads, TypeOK
    <3>11. ActiveTokenMirrorsNsce'
      BY <1>2, <1>3, <2>2 DEF ActiveTokenMirrorsNsce
    <3>. QED
      BY <3>5, <3>6, <3>7, <3>8, <3>9, <3>10, <3>11
  <2>. QED
    BY <2>1, <2>4, <2>5
<1>. QED
  BY <1>1, <1>3

-----------------------------------------------------------------------------
(***************************************************************************)
(* The inductive invariant holds in every reachable state.                 *)
(***************************************************************************)
THEOREM Invariance == Spec => []IInv
<1>1. Init => IInv
  BY InitInv
<1>2. IInv /\ [Next]_vars => IInv'
  <2>. SUFFICES ASSUME IInv, [Next]_vars PROVE IInv'
    OBVIOUS
  <2>1. CASE TZ_InitContextSystem_S
    BY <2>1, InitContextInv
  <2>2. ASSUME NEW t \in Thread, NEW t_name \in ThreadName,
               TZ_AllocModuleContext_S(t, t_name)
        PROVE  IInv'
    BY <2>2, AllocInv
  <2>3. ASSUME NEW next \in Thread \cup {Idle}, TZ_StoreContext_S(next) PROVE IInv'
    BY <2>3, StoreInv
  <2>4. ASSUME NEW next \in Thread \cup {Idle}, TZ_FreeModuleContext_S(next) PROVE IInv'
    BY <2>4, FreeInv
  <2>5. CASE TZ_LoadContext_S
    BY <2>5, LoadInv
  <2>6. CASE UNCHANGED vars
    <3>1. Live' = Live
      BY <2>6 DEF vars, rtxVars, Live
    <3>. QED
      BY <2>6, <3>1
      DEF IInv, vars, shimVars, rtxVars, TypeOK, NotReady, EntryPerThread, TokensUsed,
          SwitchState, ContextHeldForLiveThreads, ActiveTokenMirrorsNsce
  <2>. QED
    BY <2>1, <2>2, <2>3, <2>4, <2>5, <2>6 DEF Next
<1>. QED
  BY <1>1, <1>2, PTL DEF Spec

(***************************************************************************)
(* Type correctness of the shim's state.                                   *)
(***************************************************************************)
THEOREM TypeCorrect == Spec => []TypeOK
<1>1. IInv => TypeOK
  BY DEF IInv
<1>. QED
  BY <1>1, Invariance, PTL

(***************************************************************************)
(* A running thread's secure calls carry the NSID it was created with,     *)
(* whatever sequence of creations, switches and exits came before.         *)
(***************************************************************************)
THEOREM RunningIdentityHolds == Spec => []RunningIdentity
<1>1. IInv => RunningIdentity
  <2>. SUFFICES ASSUME IInv, pend = NoThread PROVE RunningIdentity
    BY DEF RunningIdentity
  <2>1. Idle \notin Live
    BY ThreadAssumption DEF Live
  <2>. QED
    BY <2>1 DEF IInv, SwitchState, RunningIdentity
<1>. QED
  BY <1>1, Invariance, PTL

(***************************************************************************)
(* current_active_token is the token active on the secure side.            *)
(***************************************************************************)
THEOREM ActiveTokenHolds == Spec => []ActiveTokenMirrorsNsce
<1>1. IInv => ActiveTokenMirrorsNsce
  BY DEF IInv
<1>. QED
  BY <1>1, Invariance, PTL

(***************************************************************************)
(* The secure context is held for every live thread.                       *)
(***************************************************************************)
THEOREM ContextHeld == Spec => []ContextHeldForLiveThreads
<1>1. IInv => ContextHeldForLiveThreads
  BY DEF IInv
<1>. QED
  BY <1>1, Invariance, PTL

(***************************************************************************)
(* The table holds exactly the contexts of the live threads.               *)
(***************************************************************************)
THEOREM TableMatches == Spec => []TableMatchesThreads
<1>1. IInv => TableMatchesThreads
  <2>. SUFFICES ASSUME IInv, kernel = "ready" PROVE TableMatchesThreads
    BY DEF TableMatchesThreads
  <2>1. ASSUME NEW t \in Live
        PROVE  <<tz_memory[t], tz_module[t]>> \in MapOf(test_ns_token_table)
    <3>1. PICK i \in Slot : /\ test_ns_token_table[i].token = tz_memory[t]
                            /\ test_ns_token_table[i].nsid = tz_module[t]
      BY <2>1 DEF IInv, EntryPerThread
    <3>2. tz_memory[t] # TFM_NS_CLIENT_INVALID_TOKEN
      BY <2>1 DEF IInv, TypeOK, Live, TFM_NS_CLIENT_INVALID_TOKEN
    <3>. QED
      BY <3>1, <3>2 DEF MapOf
  <2>2. ASSUME NEW p \in MapOf(test_ns_token_table)
        PROVE  p \in {<<tz_memory[t], tz_module[t]>> : t \in Live}
    <3>1. PICK i \in Slot :
            /\ test_ns_token_table[i].token # TFM_NS_CLIENT_INVALID_TOKEN
            /\ p = <<test_ns_token_table[i].token, test_ns_token_table[i].nsid>>
      BY <2>2 DEF MapOf
    <3>2. PICK t \in Live : /\ tz_memory[t] = test_ns_token_table[i].token
                            /\ tz_module[t] = test_ns_token_table[i].nsid
      BY <3>1 DEF IInv, EntryPerThread
    <3>. QED
      BY <3>1, <3>2
  <2>3. MapOf(test_ns_token_table) = {<<tz_memory[t], tz_module[t]>> : t \in Live}
    BY <2>1, <2>2
  <2>. QED
    BY <2>3 DEF IInv, EntryPerThread, TableMatchesThreads
<1>. QED
  BY <1>1, Invariance, PTL

(***************************************************************************)
(* No thread has a token unless the secure side was initialised.           *)
(***************************************************************************)
THEOREM NoContextWithoutInitHolds == Spec => []NoContextWithoutInit
<1>1. IInv => NoContextWithoutInit
  BY DEF IInv, NotReady, NoContextWithoutInit
<1>. QED
  BY <1>1, Invariance, PTL

-----------------------------------------------------------------------------
(* What a step does to the references of the context and to the map. *)

(***************************************************************************)
(* What the creation of a thread does.  It is refused for want of an ID;   *)
(* or uses an ID up, with no context given, or with one given and no free  *)
(* entry to note it in; or binds the new token in a free entry.            *)
(***************************************************************************)
LEMMA AllocEffect ==
    ASSUME NEW t \in Thread, NEW t_name \in ThreadName,
           IInv, TZ_AllocModuleContext_S(t, t_name)
    PROVE  \/ UNCHANGED vars
           \/ /\ nsid_mgr_thread_id < NSID_MGR_THREAD_ID_MAX
              /\ nsid_mgr_thread_id' = nsid_mgr_thread_id + 1
              /\ kernel' = kernel
              /\ \/ /\ UNCHANGED test_ns_token_table /\ Live' = Live
                    /\ \/ nsce' = nsce
                       \/ SlotsWith(test_ns_token_table, TFM_NS_CLIENT_INVALID_TOKEN) = {}
                 \/ /\ kernel = "ready"
                    /\ t \notin Live /\ Live' = Live \cup {t}
                    /\ nsce'.ref = nsce.ref + 1
                    /\ \E s \in Slot, nsid \in Nsid :
                         /\ test_ns_token_table[s].token = TFM_NS_CLIENT_INVALID_TOKEN
                         /\ test_ns_token_table' =
                              [test_ns_token_table EXCEPT
                                  ![s] = [token |-> nsid_mgr_thread_id, nsid |-> nsid]]
<1>. DEFINE nsid == nsid_mgr_get_thread_nsid(t_name)
            id == nsid_mgr_thread_id
            table == test_ns_token_table
<1>. SUFFICES ASSUME ~UNCHANGED vars
     PROVE  /\ id < NSID_MGR_THREAD_ID_MAX /\ id' = id + 1 /\ kernel' = kernel
            /\ \/ /\ UNCHANGED test_ns_token_table /\ Live' = Live
                  /\ \/ nsce' = nsce
                     \/ SlotsWith(table, TFM_NS_CLIENT_INVALID_TOKEN) = {}
               \/ /\ kernel = "ready"
                  /\ t \notin Live /\ Live' = Live \cup {t}
                  /\ nsce'.ref = nsce.ref + 1
                  /\ \E s \in Slot, n \in Nsid :
                       /\ table[s].token = TFM_NS_CLIENT_INVALID_TOKEN
                       /\ table' = [table EXCEPT ![s] = [token |-> id, nsid |-> n]]
  OBVIOUS
<1>1. ~ThreadIdsUsedUp /\ t \notin Live /\ TakeThreadId /\ kernel' = kernel
  BY DEF TZ_AllocModuleContext_S
<1>2. /\ id < NSID_MGR_THREAD_ID_MAX /\ id' = id + 1
      /\ id \in 1 .. NSID_MGR_THREAD_ID_MAX - 1
  BY <1>1, ThreadIdAssumption DEF ThreadIdsUsedUp, TakeThreadId, IInv, TypeOK
<1>3. PICK token \in {id, TFM_NS_CLIENT_INVALID_TOKEN} :
        /\ tfm_nsce_acquire_ctx(id, token)
        /\ IF nsid_mgr_add_entry_status(table, nsid, token) = "SUCCESS"
           THEN /\ table' = nsid_mgr_add_entry(table, nsid, token)
                /\ tz_memory' = [tz_memory EXCEPT ![t] = token]
                /\ tz_module' = [tz_module EXCEPT ![t] = nsid]
           ELSE UNCHANGED <<test_ns_token_table, tz_memory, tz_module>>
  BY DEF TZ_AllocModuleContext_S
<1>4. nsid \in Nsid /\ nsid \in Int /\ nsid < 0
  BY ThreadNsidNegative DEF Nsid
<1>5. CASE nsid_mgr_add_entry_status(table, nsid, token) = "SUCCESS"
  <2>1. PICK s \in Slot :
          /\ table[s].token = TFM_NS_CLIENT_INVALID_TOKEN
          /\ table' = [table EXCEPT ![s] = [token |-> token, nsid |-> nsid]]
    BY <1>3, <1>5, AddEntryEffect
  <2>2. token = id
    BY <1>3, <1>5, AddEntryEffect
  <2>3. kernel = "ready"
    <3>1. ZeroedTable[s].token = 0
      BY DEF ZeroedTable
    <3>. QED
      BY <2>1, <3>1 DEF IInv, NotReady, TFM_NS_CLIENT_INVALID_TOKEN
  <2>4. Live' = Live \cup {t}
    BY <1>2, <1>3, <1>5, <2>2 DEF Live, IInv, TypeOK
  <2>5. nsce'.ref = nsce.ref + 1
    BY <1>2, <1>3, <2>2 DEF tfm_nsce_acquire_ctx, TFM_NS_CLIENT_INVALID_TOKEN, IInv, TypeOK
  <2>6. table' = [table EXCEPT ![s] = [token |-> id, nsid |-> nsid]]
    BY <2>1, <2>2
  <2>7. \E r \in Slot, n \in Nsid :
          /\ table[r].token = TFM_NS_CLIENT_INVALID_TOKEN
          /\ table' = [table EXCEPT ![r] = [token |-> id, nsid |-> n]]
    BY <1>4, <2>1, <2>6
  <2>. QED
    BY <1>1, <1>2, <2>3, <2>4, <2>5, <2>7
<1>6. CASE nsid_mgr_add_entry_status(table, nsid, token) # "SUCCESS"
  <2>1. UNCHANGED test_ns_token_table /\ Live' = Live
    BY <1>3, <1>6 DEF Live
  <2>2. ASSUME nsce' # nsce
        PROVE  SlotsWith(table, TFM_NS_CLIENT_INVALID_TOKEN) = {}
    <3>1. token # TFM_NS_CLIENT_INVALID_TOKEN
      BY <1>2, <1>3, <2>2 DEF tfm_nsce_acquire_ctx, TFM_NS_CLIENT_INVALID_TOKEN
    <3>2. ~(nsid >= TFM_INVALID_NSID_MIN)
      BY <1>4 DEF TFM_INVALID_NSID_MIN
    <3>. QED
      BY <1>6, <3>1, <3>2 DEF nsid_mgr_add_entry_status
  <2>. QED
    BY <1>1, <1>2, <2>1, <2>2
<1>. QED
  BY <1>5, <1>6

(***************************************************************************)
(* The calls of the shim that neither create nor end a thread leave the    *)
(* live threads and the references of the context as they are.             *)
(***************************************************************************)
LEMMA SwitchKeepsRefs ==
    ASSUME IInv,
           \/ TZ_InitContextSystem_S
           \/ \E next \in Thread \cup {Idle} : TZ_StoreContext_S(next)
           \/ TZ_LoadContext_S
    PROVE  Live' = Live /\ nsce'.ref = nsce.ref /\ UNCHANGED nsid_mgr_thread_id
<1>1. UNCHANGED <<tz_memory, nsid_mgr_thread_id>>
  BY DEF TZ_InitContextSystem_S, TZ_StoreContext_S, TZ_LoadContext_S
<1>2. Live' = Live
  BY <1>1 DEF Live
<1>3. \/ nsce' = nsce
      \/ \E token : tfm_nsce_save_ctx(token)
      \/ \E token, nsid : tfm_nsce_load_ctx(token, nsid)
  BY Zenon DEF TZ_InitContextSystem_S, TZ_StoreContext_S, TZ_LoadContext_S
<1>4. nsce'.ref = nsce.ref
  BY <1>3 DEF tfm_nsce_save_ctx, tfm_nsce_load_ctx, IInv, TypeOK
<1>. QED
  BY <1>1, <1>2, <1>4

(***************************************************************************)
(* A reference of the context is lost only by a creation that finds the    *)
(* table full, however many threads came and went before.                  *)
(***************************************************************************)
THEOREM LeakOnlyWhenTableFullHolds == Spec => LeakOnlyWhenTableFull
<1>. DEFINE Leaks == nsce'.ref - Cardinality(Live') # nsce.ref - Cardinality(Live)
            Full == SlotsWith(test_ns_token_table, TFM_NS_CLIENT_INVALID_TOKEN) = {}
<1>1. IInv /\ [Next]_vars => [Leaks => Full]_vars
  <2>. SUFFICES ASSUME IInv, Next PROVE Leaks => Full
    OBVIOUS
  <2>0. nsce.ref \in Nat /\ Cardinality(Live) \in Nat
    BY LiveFinite DEF IInv, TypeOK
  <2>1. ASSUME NEW t \in Thread, NEW t_name \in ThreadName,
               TZ_AllocModuleContext_S(t, t_name)
        PROVE  Leaks => Full
    <3>1. CASE UNCHANGED vars
      <4>1. nsce' = nsce /\ Live' = Live
        BY <3>1 DEF vars, rtxVars, Live
      <4>. QED
        BY <4>1
    <3>2. CASE Live' = Live /\ (nsce' = nsce \/ Full)
      BY <3>2
    <3>3. CASE t \notin Live /\ Live' = Live \cup {t} /\ nsce'.ref = nsce.ref + 1
      <4>1. Cardinality(Live') = Cardinality(Live) + 1
        BY <3>3, LiveFinite, FS_AddElement
      <4>. QED
        BY <2>0, <3>3, <4>1
    <3>. QED
      BY <2>1, <3>1, <3>2, <3>3, AllocEffect
  <2>2. ASSUME NEW next \in Thread \cup {Idle}, TZ_FreeModuleContext_S(next)
        PROVE  Leaks => Full
    <3>1. running \in Live /\ Live' = Live \ {running} /\ nsce'.ref = nsce.ref - 1
      BY <2>2, FreeEffect
    <3>2. Cardinality(Live') = Cardinality(Live) - 1
      BY <3>1, LiveFinite, FS_RemoveElement
    <3>. QED
      BY <2>0, <3>1, <3>2
  <2>3. CASE \/ TZ_InitContextSystem_S
             \/ \E next \in Thread \cup {Idle} : TZ_StoreContext_S(next)
             \/ TZ_LoadContext_S
    BY <2>3, SwitchKeepsRefs
  <2>. QED
    BY <2>1, <2>2, <2>3 DEF Next
<1>. QED
  BY <1>1, Invariance, PTL DEF Spec, LeakOnlyWhenTableFull

-----------------------------------------------------------------------------
(* The refinement of NsidMap. *)

MapBar == IF kernel = "ready" THEN MapOf(test_ns_token_table) ELSE {}
UsedBar == 1 .. nsid_mgr_thread_id - 1

(***************************************************************************)
(* A table with a free slot holds fewer than THREAD_NUM_MAX pairs: there   *)
(* is room for one more in the map.                                        *)
(***************************************************************************)
LEMMA RoomInMap ==
    ASSUME NEW table, NEW s \in Slot, table[s].token = TFM_NS_CLIENT_INVALID_TOKEN
    PROVE  Cardinality(MapOf(table)) < THREAD_NUM_MAX
<1>. DEFINE B == {i \in Slot : table[i].token # TFM_NS_CLIENT_INVALID_TOKEN}
            f == [i \in B |-> <<table[i].token, table[i].nsid>>]
<1>1. IsFiniteSet(Slot) /\ Cardinality(Slot) = THREAD_NUM_MAX
  <2>1. 0 \in Int /\ THREAD_NUM_MAX - 1 \in Int /\ ~(0 > THREAD_NUM_MAX - 1)
    BY ThreadNumAssumption
  <2>2. /\ IsFiniteSet(0 .. THREAD_NUM_MAX - 1)
        /\ Cardinality(0 .. THREAD_NUM_MAX - 1) = (THREAD_NUM_MAX - 1) - 0 + 1
    BY <2>1, FS_Interval
  <2>. QED
    BY <2>2, ThreadNumAssumption DEF Slot
<1>2. IsFiniteSet(Slot \ {s}) /\ Cardinality(Slot \ {s}) = THREAD_NUM_MAX - 1
  BY <1>1, FS_RemoveElement
<1>3. B \in SUBSET (Slot \ {s})
  OBVIOUS
<1>4. IsFiniteSet(B) /\ Cardinality(B) <= THREAD_NUM_MAX - 1
  <2>. HIDE DEF B
  <2>. QED
    BY <1>2, <1>3, FS_Subset
<1>5. f \in Surjection(B, MapOf(table))
  BY DEF MapOf, Surjection
<1>6. Cardinality(MapOf(table)) <= Cardinality(B) /\ IsFiniteSet(MapOf(table))
  <2>. HIDE DEF B, f
  <2>. QED
    BY <1>4, <1>5, FS_Surjection
<1>7. Cardinality(MapOf(table)) \in Nat /\ Cardinality(B) \in Nat
  <2>. HIDE DEF B
  <2>. QED
    BY <1>4, <1>6, FS_CardinalityType
<1>. QED
  BY <1>4, <1>6, <1>7, ThreadNumAssumption

(***************************************************************************)
(* To note a token in a free slot is to bind it in the map.                *)
(***************************************************************************)
LEMMA MapAdds ==
    ASSUME NEW table, NEW new, NEW s \in Slot,
           table[s].token = TFM_NS_CLIENT_INVALID_TOKEN,
           new[s].token # TFM_NS_CLIENT_INVALID_TOKEN,
           \A i \in Slot : i # s => new[i] = table[i]
    PROVE  MapOf(new) = MapOf(table) \cup {<<new[s].token, new[s].nsid>>}
<1>. DEFINE token == new[s].token
            nsid == new[s].nsid
<1>2. ASSUME NEW p \in MapOf(new) PROVE p \in MapOf(table) \cup {<<token, nsid>>}
  <2>1. PICK i \in Slot : /\ new[i].token # TFM_NS_CLIENT_INVALID_TOKEN
                          /\ p = <<new[i].token, new[i].nsid>>
    BY <1>2 DEF MapOf
  <2>. QED
    BY <2>1 DEF MapOf
<1>3. ASSUME NEW p \in MapOf(table) PROVE p \in MapOf(new)
  <2>1. PICK i \in Slot : /\ table[i].token # TFM_NS_CLIENT_INVALID_TOKEN
                          /\ p = <<table[i].token, table[i].nsid>>
    BY <1>3 DEF MapOf
  <2>2. i # s /\ new[i] = table[i]
    BY <2>1
  <2>. QED
    BY <2>1, <2>2 DEF MapOf
<1>4. <<token, nsid>> \in MapOf(new)
  BY DEF MapOf
<1>. QED
  BY <1>2, <1>3, <1>4

(***************************************************************************)
(* To free the only slot of a token is to drop the token from the map.     *)
(***************************************************************************)
LEMMA MapDrops ==
    ASSUME NEW table, NEW R, table \in [Slot -> R], NEW e \in Slot,
           table[e].token # TFM_NS_CLIENT_INVALID_TOKEN,
           \A i \in Slot : table[i].token = table[e].token => i = e
    PROVE  /\ MapOf([table EXCEPT ![e] = FreeEntry])
                = {p \in MapOf(table) : p[1] # table[e].token}
           /\ table[e].token \in {p[1] : p \in MapOf(table)}
<1>. DEFINE new == [table EXCEPT ![e] = FreeEntry]
<1>1. /\ new[e].token = TFM_NS_CLIENT_INVALID_TOKEN
      /\ \A i \in Slot : i # e => new[i] = table[i]
  BY DEF FreeEntry
<1>. HIDE DEF new
<1>2. ASSUME NEW p \in MapOf(new) PROVE p \in MapOf(table) /\ p[1] # table[e].token
  <2>1. PICK i \in Slot : /\ new[i].token # TFM_NS_CLIENT_INVALID_TOKEN
                          /\ p = <<new[i].token, new[i].nsid>>
    BY <1>2 DEF MapOf
  <2>2. i # e /\ new[i] = table[i]
    BY <1>1, <2>1
  <2>3. table[i].token # table[e].token
    BY <2>2
  <2>. QED
    BY <2>1, <2>2, <2>3 DEF MapOf
<1>3. ASSUME NEW p \in MapOf(table), p[1] # table[e].token PROVE p \in MapOf(new)
  <2>1. PICK i \in Slot : /\ table[i].token # TFM_NS_CLIENT_INVALID_TOKEN
                          /\ p = <<table[i].token, table[i].nsid>>
    BY <1>3 DEF MapOf
  <2>2. i # e /\ new[i] = table[i]
    BY <1>1, <1>3, <2>1
  <2>. QED
    BY <2>1, <2>2 DEF MapOf
<1>4. MapOf(new) = {p \in MapOf(table) : p[1] # table[e].token}
  BY <1>2, <1>3
<1>5. <<table[e].token, table[e].nsid>> \in MapOf(table)
  BY DEF MapOf
<1>6. table[e].token \in {p[1] : p \in MapOf(table)}
  BY <1>5
<1>. QED
  BY <1>4, <1>6 DEF new

(***************************************************************************)
(* An empty table stands for the empty map.                                *)
(***************************************************************************)
LEMMA InitMapEmpty == MapOf(nsid_mgr_init) = {}
  BY DEF MapOf, nsid_mgr_init, FreeEntry

(***************************************************************************)
(* The instance's copy of Cardinality is the one of FiniteSets.            *)
(***************************************************************************)
LEMMA MapCardinality == \A S : Map!Cardinality(S) = Cardinality(S)
  BY Zenon DEF Map!Cardinality, Cardinality

(***************************************************************************)
(* The shim's table and its thread IDs implement the map of NsidMap: every *)
(* call of the shim binds a token never used before, wastes one, drops one *)
(* or leaves the map as it is.                                             *)
(***************************************************************************)
THEOREM ShimImplementsMap == Spec => MapSpec
<1>1. Init => Map!Init
  <2>. SUFFICES ASSUME Init PROVE Map!Init
    OBVIOUS
  <2>1. 1 .. nsid_mgr_thread_id - 1 = {}
    BY DEF Init
  <2>. QED
    BY <2>1 DEF Init, Map!Init
<1>2. IInv /\ [Next]_vars => [Map!Next]_<<MapBar, UsedBar>>
  <2>. DEFINE id == nsid_mgr_thread_id
              Token == 1 .. NSID_MGR_THREAD_ID_MAX - 1
  <2>. SUFFICES ASSUME IInv, [Next]_vars PROVE [Map!Next]_<<MapBar, UsedBar>>
    OBVIOUS
  <2>1. ASSUME NEW t \in Thread, NEW t_name \in ThreadName,
               TZ_AllocModuleContext_S(t, t_name), ~UNCHANGED vars
        PROVE  Map!Next
    <3>1. id \in Token /\ id' = id + 1 /\ kernel' = kernel
      BY <2>1, AllocEffect, ThreadIdAssumption DEF IInv, TypeOK
    <3>2. id \notin UsedBar /\ UsedBar' = UsedBar \cup {id}
      BY <3>1, ThreadIdAssumption DEF UsedBar
    <3>3. CASE UNCHANGED test_ns_token_table
      <4>1. MapBar' = MapBar
        BY <3>1, <3>3 DEF MapBar
      <4>2. Map!Waste(id)
        BY <3>2, <4>1 DEF Map!Waste, MapBar, UsedBar
      <4>. QED
        BY <3>1, <4>2 DEF Map!Next
    <3>4. ASSUME kernel = "ready", NEW s \in Slot, NEW nsid \in Nsid,
                 test_ns_token_table[s].token = TFM_NS_CLIENT_INVALID_TOKEN,
                 test_ns_token_table' =
                   [test_ns_token_table EXCEPT ![s] = [token |-> id, nsid |-> nsid]]
          PROVE  Map!Next
      <4>1. id # TFM_NS_CLIENT_INVALID_TOKEN
        BY <3>1, ThreadIdAssumption DEF TFM_NS_CLIENT_INVALID_TOKEN
      <4>2. MapOf(test_ns_token_table') = MapOf(test_ns_token_table) \cup {<<id, nsid>>}
        <5>1. test_ns_token_table \in
                [Slot -> [token : -1 .. NSID_MGR_THREAD_ID_MAX - 1, nsid : Nsid \cup {0}]]
          BY DEF IInv, TypeOK
        <5>2. /\ test_ns_token_table'[s].token = id /\ test_ns_token_table'[s].nsid = nsid
              /\ \A i \in Slot : i # s => test_ns_token_table'[i] = test_ns_token_table[i]
          BY <3>4, <5>1
        <5>3. test_ns_token_table'[s].token # TFM_NS_CLIENT_INVALID_TOKEN
          BY <4>1, <5>2
        <5>4. MapOf(test_ns_token_table')
                = MapOf(test_ns_token_table)
                    \cup {<<test_ns_token_table'[s].token, test_ns_token_table'[s].nsid>>}
          <6>1. test_ns_token_table[s].token = TFM_NS_CLIENT_INVALID_TOKEN
            BY <3>4
          <6>. QED
            BY <5>2, <5>3, <6>1, MapAdds
        <5>. QED
          BY <5>2, <5>4
      <4>3. MapBar' = MapBar \cup {<<id, nsid>>}
        BY <3>1, <3>4, <4>2 DEF MapBar, MapOf
      <4>4. Cardinality(MapBar) < THREAD_NUM_MAX
        BY <3>4, RoomInMap DEF MapBar
      <4>5. Map!Bind(id, nsid)
        BY <3>2, <4>3, <4>4, MapCardinality DEF Map!Bind, MapBar, UsedBar
      <4>. QED
        BY <3>1, <4>5 DEF Map!Next
    <3>. QED
      BY <2>1, <3>3, <3>4, AllocEffect
  <2>2. ASSUME NEW next \in Thread \cup {Idle}, TZ_FreeModuleContext_S(next)
        PROVE  Map!Next
    <3>1. /\ running \in Live /\ kernel = "ready" /\ kernel' = "ready" /\ id' = id
          /\ tz_memory[running] # TFM_NS_CLIENT_INVALID_TOKEN
      BY <2>2, FreeEffect
    <3>2. PICK e \in Slot :
            /\ test_ns_token_table[e].token = tz_memory[running]
            /\ test_ns_token_table' = [test_ns_token_table EXCEPT ![e] = FreeEntry]
      BY <2>2, FreeEffect
    <3>. DEFINE token == tz_memory[running]
    <3>3. token \in Token
      BY <3>1, ThreadIdAssumption DEF Live, IInv, TypeOK
    <3>4. \A i \in Slot : test_ns_token_table[i].token = test_ns_token_table[e].token => i = e
      BY <3>1, <3>2 DEF IInv, EntryPerThread
    <3>5. /\ MapOf(test_ns_token_table') = {p \in MapOf(test_ns_token_table) : p[1] # token}
          /\ token \in {p[1] : p \in MapOf(test_ns_token_table)}
      <4>1. test_ns_token_table \in
              [Slot -> [token : -1 .. NSID_MGR_THREAD_ID_MAX - 1, nsid : Nsid \cup {0}]]
        BY DEF IInv, TypeOK
      <4>2. /\ MapOf([test_ns_token_table EXCEPT ![e] = FreeEntry])
                 = {p \in MapOf(test_ns_token_table) : p[1] # test_ns_token_table[e].token}
            /\ test_ns_token_table[e].token \in {p[1] : p \in MapOf(test_ns_token_table)}
        BY <3>1, <3>2, <3>4, <4>1, MapDrops
      <4>. QED
        BY <3>2, <4>2
    <3>6. /\ MapBar' = {p \in MapBar : p[1] # token}
          /\ token \in {p[1] : p \in MapBar}
      BY <3>1, <3>5 DEF MapBar, MapOf
    <3>7. UsedBar' = UsedBar
      BY <3>1 DEF UsedBar
    <3>8. Map!Drop(token)
      BY <3>6, <3>7 DEF Map!Drop, Map!Bound, MapBar, UsedBar
    <3>. QED
      BY <3>3, <3>8 DEF Map!Next
  <2>3. CASE TZ_InitContextSystem_S
    <3>1. UNCHANGED nsid_mgr_thread_id
      BY <2>3 DEF TZ_InitContextSystem_S
    <3>2. kernel = "inactive"
      BY <2>3 DEF TZ_InitContextSystem_S
    <3>3. \/ kernel' = "error"
          \/ kernel' = "ready" /\ test_ns_token_table' = nsid_mgr_init
      BY <2>3 DEF TZ_InitContextSystem_S
    <3>4. MapBar = {} /\ MapBar' = {}
      BY <3>2, <3>3, InitMapEmpty DEF MapBar, MapOf
    <3>. QED
      BY <3>1, <3>4 DEF UsedBar
  <2>4. CASE \/ UNCHANGED vars
             \/ \E next \in Thread \cup {Idle} : TZ_StoreContext_S(next)
             \/ TZ_LoadContext_S
    <3>1. UNCHANGED <<kernel, test_ns_token_table, nsid_mgr_thread_id>>
      BY <2>4 DEF vars, shimVars, rtxVars, TZ_StoreContext_S, TZ_LoadContext_S
    <3>. QED
      BY <3>1 DEF MapBar, UsedBar, MapOf
  <2>. QED
    BY <2>1, <2>2, <2>3, <2>4 DEF Next
<1>. QED
  BY <1>1, <1>2, Invariance, PTL DEF Spec, MapSpec, Map!Spec, MapBar, UsedBar
=============================================================================
