----------------------------- MODULE ItsScripts -----------------------------
(***************************************************************************)
(* The tests of the Internal Trusted Storage suites                        *)
(* (tests_reg/test/secure_fw/suites/its) as scripts, and one boot that     *)
(* runs them.  The secure partition runs its suites when it is             *)
(* initialised, so they come first; assets are kept per client, and        *)
(* neither world can see how far the other one is.                         *)
(***************************************************************************)
EXTENDS StorageScripts

CONSTANT ITS_MAX_ASSET_SIZE

ASSUME AssetSizeAssumption == ITS_MAX_ASSET_SIZE \in Nat /\ ITS_MAX_ASSET_SIZE >= 64

INVALID_UID == 0
WRITE_ONCE_UID == 1
TEST_UID_1 == 2
TEST_UID_2 == 3
TEST_UID_3 == 4
TEST_UID_ACCESS_CONTROL == 42
ItsUids == {INVALID_UID, WRITE_ONCE_UID, TEST_UID_1, TEST_UID_2, TEST_UID_3,
            TEST_UID_ACCESS_CONTROL}

WRITE_DATA_SIZE == 33
WRITE_ONCE_DATA_SIZE == 36

\* Sets WRITE_DATA, and gets all of it.
SetData(uid) == Set(uid, "WRITE_DATA", WRITE_DATA_SIZE, FLAG_NONE, SUCCESS)
AllData == Slice("WRITE_DATA", 0, WRITE_DATA_SIZE)
GetAll(uid) == Reads(Get(uid, 0, WRITE_DATA_SIZE, SUCCESS), AllData, WRITE_DATA_SIZE)

-----------------------------------------------------------------------------
(* its_tests_common.c *)

\* The status of the get is not looked at, and its outputs start uninitialised.
common_001 ==
    LET empty(uid) == Set(uid, "zero", 0, FLAG_NONE, SUCCESS)
        got == Reads(Get(TEST_UID_2, 0, 5, SUCCESS), Slice("TWO", 0, 4), 4)
    IN  <<empty(TEST_UID_1), empty(TEST_UID_1), empty(TEST_UID_2),
          Set(TEST_UID_2, "TWO", 4, FLAG_NONE, SUCCESS),
          [got EXCEPT !.ok = Statuses, !.uninit = TRUE],
          Set(INVALID_UID, "zero", 0, FLAG_NONE, INVALID_ARGUMENT),
          Remove(TEST_UID_1, SUCCESS), Remove(TEST_UID_2, SUCCESS)>>

\* Mutant of common_002: the asset of an earlier run is not expected.
Mut_FirstRunOnly ==
    <<SetData(WRITE_ONCE_UID),
      Set(WRITE_ONCE_UID, "WRITE_ONCE_DATA", WRITE_ONCE_DATA_SIZE, WRITE_ONCE, SUCCESS),
      Set(TEST_UID_2, "WRITE_DATA", WRITE_DATA_SIZE, INVALID_FLAG, NOT_SUPPORTED)>>

\* If an earlier run has created the write-once asset, creating it is left out.
common_002 ==
    <<[SetData(WRITE_ONCE_UID) EXCEPT !.ok = {SUCCESS, NOT_PERMITTED}, !.skip = 2],
      Set(WRITE_ONCE_UID, "WRITE_ONCE_DATA", WRITE_ONCE_DATA_SIZE, WRITE_ONCE, SUCCESS),
      \* only the flags are compared
      [GetInfo(WRITE_ONCE_UID, SUCCESS) EXCEPT !.info[3] = {WRITE_ONCE}],
      Set(TEST_UID_2, "WRITE_DATA", WRITE_DATA_SIZE, INVALID_FLAG, NOT_SUPPORTED)>>

common_003 == <<WithNull(Set(TEST_UID_3, "none", 0, FLAG_NONE, SUCCESS), "data")>>

common_004 ==
    <<Set(WRITE_ONCE_UID, "WRITE_DATA", WRITE_DATA_SIZE, FLAG_NONE, NOT_PERMITTED),
      Reads(Get(WRITE_ONCE_UID, 0, WRITE_ONCE_DATA_SIZE, SUCCESS),
            Slice("WRITE_ONCE_DATA", 0, WRITE_ONCE_DATA_SIZE), WRITE_ONCE_DATA_SIZE)>>

\* The second get is a part of the data; its length is not compared.
common_005 ==
    <<SetData(TEST_UID_2), GetAll(TEST_UID_2),
      ReadsData(Get(TEST_UID_2, 2, WRITE_DATA_SIZE - 4, SUCCESS),
                Slice("WRITE_DATA", 2, WRITE_DATA_SIZE - 4)),
      Remove(TEST_UID_2, SUCCESS)>>

common_006 ==
    <<SetData(TEST_UID_3), Reads(Get(TEST_UID_3, 0, 0, SUCCESS), Unchanged, 0),
      Reads(Get(TEST_UID_3, 5, 0, SUCCESS), Unchanged, 0), Remove(TEST_UID_3, SUCCESS)>>

common_007 ==
    <<ReadsData(Get(TEST_UID_1, 0, 1, DOES_NOT_EXIST), Unchanged),
      ReadsData(Get(INVALID_UID, 0, 1, INVALID_ARGUMENT), Unchanged)>>

common_008 ==
    <<SetData(TEST_UID_2),
      ReadsData(Get(TEST_UID_2, WRITE_DATA_SIZE + 1, 1, INVALID_ARGUMENT), Unchanged),
      Reads(Get(TEST_UID_2, 0, WRITE_DATA_SIZE + 1, SUCCESS), AllData, WRITE_DATA_SIZE),
      Reads(Get(TEST_UID_2, 1, WRITE_DATA_SIZE, SUCCESS),
            Slice("WRITE_DATA", 1, WRITE_DATA_SIZE - 1), WRITE_DATA_SIZE - 1),
      Remove(TEST_UID_2, SUCCESS)>>

common_009 ==
    <<SetData(TEST_UID_3), ReadsLen(WithNull(Get(TEST_UID_3, 0, 0, SUCCESS), "data"), 0),
      Remove(TEST_UID_3, SUCCESS)>>

common_010 ==
    <<Tells(GetInfo(WRITE_ONCE_UID, SUCCESS), Info(WRITE_ONCE_DATA_SIZE, WRITE_ONCE))>>

common_011 ==
    <<SetData(TEST_UID_1), Tells(GetInfo(TEST_UID_1, SUCCESS), Info(WRITE_DATA_SIZE, FLAG_NONE)),
      Remove(TEST_UID_1, SUCCESS)>>

\* After the first get_info only the size is compared.
common_012 ==
    <<[GetInfo(TEST_UID_2, DOES_NOT_EXIST) EXCEPT !.info[1] = {0}],
      Tells(GetInfo(INVALID_UID, INVALID_ARGUMENT), NoInfo)>>

common_013 ==
    <<SetData(TEST_UID_1), Remove(TEST_UID_1, SUCCESS), GetInfo(TEST_UID_1, DOES_NOT_EXIST),
      Get(TEST_UID_1, 0, WRITE_DATA_SIZE, DOES_NOT_EXIST), Remove(TEST_UID_1, DOES_NOT_EXIST)>>

common_014 == <<Remove(WRITE_ONCE_UID, NOT_PERMITTED)>>
common_015 == <<Remove(INVALID_UID, INVALID_ARGUMENT)>>

\* Mutant of common_016: the other asset is not read back.
Mut_NoReadBack ==
    <<Set(TEST_UID_2, "UID 1 DATA", 11, FLAG_NONE, SUCCESS), SetData(TEST_UID_3),
      Remove(TEST_UID_2, SUCCESS), Remove(TEST_UID_3, SUCCESS)>>

\* Removing the first asset makes the service compact the block.
common_016 ==
    <<Set(TEST_UID_2, "UID 1 DATA", 11, FLAG_NONE, SUCCESS), SetData(TEST_UID_3),
      Remove(TEST_UID_2, SUCCESS), GetAll(TEST_UID_3), Remove(TEST_UID_3, SUCCESS)>>

\* Byte by byte; the whole buffer is compared after the last byte.
common_017 ==
    LET byte(off) == ReadsData(Get(TEST_UID_1, off, 1, SUCCESS), Slice("WRITE_DATA", off, 1))
    IN  <<SetData(TEST_UID_1)>>
        \o [n \in 1 .. WRITE_DATA_SIZE |-> [byte(n - 1) EXCEPT !.later = TRUE]]
        \o <<Compare, Remove(TEST_UID_1, SUCCESS)>>

common_018 ==
    <<Set(TEST_UID_2, "ONE", 4, FLAG_NONE, SUCCESS), Set(TEST_UID_2, "TWO", 4, FLAG_NONE, SUCCESS),
      Set(TEST_UID_2, "THREE", 6, FLAG_NONE, SUCCESS),
      Reads(Get(TEST_UID_2, 0, 6, SUCCESS), Slice("THREE", 0, 6), 6),
      Remove(TEST_UID_2, SUCCESS)>>

\* A quarter, a half and all of the largest size; the capacity is not compared.
common_019 ==
    LET cycle(uid, size) ==
            <<Set(uid, "asset", size, FLAG_NONE, SUCCESS),
              [GetInfo(uid, SUCCESS) EXCEPT !.info = <<{size}, {}, {FLAG_NONE}>>],
              Reads(Get(uid, 0, size, SUCCESS), Slice("asset", 0, size), size),
              Remove(uid, SUCCESS)>>
    IN  cycle(TEST_UID_1, ITS_MAX_ASSET_SIZE \div 4) \o cycle(TEST_UID_2, ITS_MAX_ASSET_SIZE \div 2)
        \o cycle(TEST_UID_3, ITS_MAX_ASSET_SIZE)

common_020 == <<Set(TEST_UID_1, "zero", ITS_MAX_ASSET_SIZE + 1, FLAG_NONE, INVALID_ARGUMENT)>>

\* Mutant of common_021: the asset's removal is not checked.
Mut_UncheckedRemove ==
    <<SetData(TEST_UID_2), WithNull(Get(TEST_UID_2, 0, 1, INVALID_ARGUMENT), "length"),
      [Remove(TEST_UID_2, SUCCESS) EXCEPT !.ok = Statuses]>>

common_021 ==
    <<SetData(TEST_UID_2), WithNull(Get(TEST_UID_2, 0, 1, INVALID_ARGUMENT), "length"),
      Remove(TEST_UID_2, SUCCESS)>>

-----------------------------------------------------------------------------
(* The tests of one world only. *)

ns_test_001 == <<WithNull(Set(TEST_UID_2, "none", 1, FLAG_NONE, PROGRAMMER_ERROR), "data")>>

ns_test_002 ==
    <<SetData(TEST_UID_2), WithNull(GetInfo(TEST_UID_2, INVALID_ARGUMENT), "info"),
      Remove(TEST_UID_2, SUCCESS)>>

ns_test_003 ==
    <<SetData(TEST_UID_2), WithNull(Get(TEST_UID_2, 0, 1, PROGRAMMER_ERROR), "data"),
      Remove(TEST_UID_2, SUCCESS)>>

\* TFM_S_ITS_TEST_1023: another partition must not see the asset.
s_test_1020 ==
    <<SetData(TEST_UID_ACCESS_CONTROL), GetByClient2(TEST_UID_ACCESS_CONTROL, DOES_NOT_EXIST),
      Remove(TEST_UID_ACCESS_CONTROL, SUCCESS)>>

\* The reliability tests repeat themselves; their UID is TEST_UID_1's.
LOOP_ITERATIONS == 15
Repeated(body) == [n \in 1 .. LOOP_ITERATIONS * Len(body) |-> body[((n - 1) % Len(body)) + 1]]
SetAndGet ==
    <<SetData(TEST_UID_1), ReadsData(Get(TEST_UID_1, 0, WRITE_DATA_SIZE, SUCCESS), AllData)>>

test_2001 == Repeated(SetAndGet) \o <<Remove(TEST_UID_1, SUCCESS)>>
test_2002 == Repeated(SetAndGet \o <<Remove(TEST_UID_1, SUCCESS)>>)

-----------------------------------------------------------------------------
(* The suites, and a boot that runs them all. *)

CommonTests ==
    <<common_001, common_002, common_003, common_004, common_005, common_006, common_007,
      common_008, common_009, common_010, common_011, common_012, common_013, common_014,
      common_015, common_016, common_017, common_018, common_019, common_020, common_021>>

psa_its_s_tests == CommonTests \o <<s_test_1020>>
reliability_tests == <<test_2001, test_2002>>
psa_its_ns_tests == CommonTests \o <<ns_test_001, ns_test_002, ns_test_003>>

\* nr is the test's place in its suite, with the reliability suite after the other.
ItsRun ==
    LET of(client, tests) ==
            [n \in 1 .. Len(tests) |-> [client |-> client, nr |-> n, script |-> tests[n]]]
    IN  of("S", psa_its_s_tests \o reliability_tests) \o of("NS", psa_its_ns_tests)
=============================================================================
