------------------------------ MODULE TreeTests ------------------------------
(***************************************************************************)
(* The test cases of the Tree deduplicator (test_case_01 to 10.cpp): two   *)
(* regions of eight chunks of a letter each, a checkpoint and a restart of *)
(* both, and the numbers of regions the second checkpoint is to have.  The *)
(* tests see one order of the teams of a kernel, the model has them all.   *)
(***************************************************************************)
EXTENDS MCTreeDedup

VARIABLE test  \* the test that is run

testVars == <<referenceVars, test>>

Test(step0, step1, first, shift) ==
  [step |-> <<step0, step1>>, num_first_ocur |-> first, num_shift_dupl |-> shift]

AtoH == <<"A", "B", "C", "D", "E", "F", "G", "H">>
MtoR == <<"M", "N", "X", "Y", "O", "P", "Q", "R">>

Tests == {
  Test(AtoH, <<"I", "J", "K", "L", "M", "N", "O", "P">>, 1, 0),
  Test(AtoH, AtoH, 0, 0),
  Test(AtoH, <<"A", "B", "C", "D", "E", "I", "J", "K">>, 2, 0),
  Test(AtoH, <<"I", "J", "A", "B", "C", "D", "E", "K">>, 2, 3),
  Test(AtoH, <<"A", "B", "C", "I", "A", "B", "C", "J">>, 2, 2),
  Test(AtoH, <<"E", "F", "G", "B", "C", "D", "I", "J">>, 1, 4),
  Test(AtoH, <<"I", "J", "K", "L", "A", "B", "I", "H">>, 1, 2),
  Test(MtoR, <<"I", "J", "X", "Y", "I", "J", "A", "B">>, 2, 1),
  Test(MtoR, <<"I", "J", "X", "Y", "I", "J", "I", "B">>, 2, 2),
  Test(MtoR, <<"I", "J", "X", "Y", "I", "J", "J", "I">>, 1, 3)}

Letters == {t.step[i][c] : t \in Tests, i \in 1 .. 2, c \in 1 .. 8}

TestInit == ReferenceInit /\ test \in Tests

\* checkpoint(step0_d, ..., true), and checkpoint(step1_d, ..., false)
TestCheckpoint ==
  /\ current_id < 2
  /\ Checkpoint([c \in Chunks |-> test.step[current_id + 1][c + 1]], current_id = 0)

\* restart() of the checkpoint just taken
TestRestart == current_id > 0 /\ RestartFromViews(current_id - 1)

TestNext ==
  /\ Progress \/ TestCheckpoint \/ TestRestart \/ Release
  /\ prior' = IF TestCheckpoint THEN [tree |-> tree', map |-> first_ocur'] ELSE prior
  /\ UNCHANGED test

TestSpec == TestInit /\ [][TestNext]_testVars

-----------------------------------------------------------------------------
\* "Expected 2 first occurrence region and 3 shifted duplicate regions": the
\* second checkpoint has as many regions as the test expects, in every order.
RegionsAsExpected ==
  pc = "idle" /\ current_id = 2 =>
    /\ Cardinality(first_ocur_vec) = test.num_first_ocur
    /\ Cardinality(shift_dupl_vec) = test.num_shift_dupl
=============================================================================
