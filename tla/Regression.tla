----------------------------- MODULE Regression -----------------------------
(***************************************************************************)
(* The regression test of the flasher: test_regression.py finds the one    *)
(* netX to test on, runs the test classes on its memories, and sums up.    *)
(*                                                                         *)
(* A run of a test class on one memory (Flashertest.run_test) writes its   *)
(* binary files, runs its commands one after the other (command_carrier),  *)
(* counts those that failed, and has the log manager pack the log folder   *)
(* and write a json file beside it.  The log folder is shared by all runs, *)
(* and so is the list numErrors_a, an attribute of the class Dyntest.      *)
(*                                                                         *)
(* The commands are the flasher's own command line tool; what they do to   *)
(* the memory is modelled as far as the verdict of a test depends on it.   *)
(* A fault is a command the device does not carry out, a failure to pack   *)
(* the logs, a log that cannot be removed, or an exception in the middle   *)
(* of a run (no binary, disk full).                                        *)
(***************************************************************************)
EXTENDS Integers, Sequences, FiniteSets, SequencesExt

CONSTANTS Ports,       \* the interfaces of the host
          Memories,    \* the flashes of the board
          MemorySize,  \* MemorySize[m]: the cells of memory m
          TestSize,    \* num_bytes_to_test
          Campaigns,   \* the test methods in the order unittest runs them
          MaxFaults    \* bound on the faults of a campaign

ASSUME MemorySizeAssumption == /\ MemorySize \in [Memories -> Nat \ {0}]
                         /\ TestSize \in Nat \ {0}

None == "none"
Cleared == 0
Firmware == -1
Junk == -2

VARIABLES
    stage,     \* where setUpClass, the test method or tearDownClass is
    plan,      \* the test methods of this campaign
    args,      \* the port lists on the command line: sets of patterns
    todo,      \* ports still to be asked, then memories still to be tested
    found,     \* accessable_netX
    test,      \* the index of the test method
    run,       \* the number of test objects made so far
    idx,       \* the next command of the batch
    rets,      \* the return values of the batch
    flash,     \* the contents of the memories
    tmp,       \* logs_last_run: file name -> the test that wrote it
    work,      \* logs_working_dir: class name -> content of the binary
    zips,      \* the archives packed, in order
    jsons,     \* the summaries beside them, in order
    numErrorsA, \* Dyntest.numErrors_a
    results,   \* test_results of the test method
    verdict,   \* what unittest notes for each test method
    resultJson, \* "result" of result.json, -1 before tearDownClass
    faults,    \* the faults so far
    failing,   \* history: the runs that had a command that failed
    left       \* history: the logs that could not be removed, and who wrote them

setup == <<plan, args, found>>
logs == <<tmp, work, left, zips, jsons, numErrorsA>>
testVars == <<stage, setup, todo, test, run, idx, rets, failing, flash, logs, results,
          verdict, resultJson, faults>>

-----------------------------------------------------------------------------
(* The ports to use.  A pattern is the set of the ports it is part of.     *)

MatchesAny(patterns, p) == \E pattern \in patterns : p \in pattern

ApplyWhitemaskBlacklist(ports, white, black) ==
    SelectSeq(ports, LAMBDA p : /\ white = {} \/ MatchesAny(white, p)
                                /\ ~MatchesAny(black, p))

\* execute_argparse asks for the attribute list_whit, which no parser sets.
ListWhite == {}

(* The lines the flasher prints: the ports, between two marks and two      *)
(* empty lines; and what re_retrive_ports_from_list makes of them.         *)
Output(ports) == <<"banner", "START", "">> \o ports \o <<"", "END">>

RetrivePorts(lines) ==
    LET start == CHOOSE i \in DOMAIN lines : lines[i] = "START"
        end == CHOOSE i \in DOMAIN lines : lines[i] = "END"
    IN  SubSeq(lines, start + 2, end - 2)

(* The commands of the test classes. *)
Commands ==
    [FltStandardSqiFlash   |-> <<"info", "detect", "erase", "flash", "read", "verify">>,
     FltStandardOtherFlash |-> <<"detect", "flash", "read", "verify", "erase">>,
     FltHash               |-> <<"flash", "verify", "hash">>,
     FltTestcliSqiFlash    |-> <<"testcli">>,
     NxtFlasher_51         |-> <<"flash", "verify">>]

Classes == DOMAIN Commands

\* A class without a memory to test is skipped or fails.
ASSUME CampaignsAssumption ==
    \A campaign \in Campaigns :
        campaign \in Seq([class : Classes, enabled : BOOLEAN, memories : Seq(Memories),
                          otherwise : {"skipped", "failed"}])

\* The classes whose pre_test_step generates a random binary.
Generates == {"FltStandardSqiFlash", "FltStandardOtherFlash", "FltHash"}

Class == plan[test].class
Memory == Head(todo)
Batch == Commands[Class]

\* init_params: no more than the memory has room for.
TestBinarySize == IF TestSize <= MemorySize[Memory] THEN TestSize ELSE MemorySize[Memory]

\* The file a command names, and its length.
Binary == IF Class \in Generates THEN work[Class] ELSE Firmware
FileSize == IF Class \in Generates THEN TestBinarySize ELSE 1
InFile == 1 .. FileSize

Fill(m, cells, c) ==
    [flash EXCEPT ![m] = [a \in DOMAIN @ |-> IF a \in cells THEN c ELSE @[a]]]

(* The contents after a command the device carries out, and whether the    *)
(* command line tool then returns 0.                                       *)
Carried(command) ==
    CASE command = "erase" -> Fill(Memory, 1 .. TestBinarySize, Cleared)
      [] command = "flash" -> Fill(Memory, InFile, Binary)
      [] command = "testcli" -> Fill(Memory, 1 .. MemorySize[Memory], Junk)
      [] OTHER -> flash

Succeeds(command) ==
    /\ command \in {"erase", "read", "hash"} => TestBinarySize <= MemorySize[Memory]
    /\ command = "flash" => FileSize <= MemorySize[Memory]
    /\ command = "verify" =>
          /\ FileSize <= MemorySize[Memory]
          /\ \A a \in InFile : flash[Memory][a] = Binary

-----------------------------------------------------------------------------
TestInit ==
    /\ stage = "list"
    /\ plan \in Campaigns
    /\ args \in [white : {{}} \cup {{{p}} : p \in Ports},
                 black : {{}} \cup {{{p}} : p \in Ports}]
    /\ todo \in {SetToSeq(ps) : ps \in SUBSET Ports}
    /\ found = <<>>
    /\ test = 1 /\ run = 0 /\ idx = 1 /\ rets = <<>> /\ failing = {}
    /\ flash \in {[m \in Memories |-> [a \in 1 .. MemorySize[m] |-> c]] : c \in {Cleared, Junk}}
    /\ tmp = <<>> /\ work = <<>> /\ left = {}
    /\ zips = <<>> /\ jsons = <<>> /\ numErrorsA = <<>>
    /\ results = 0
    /\ verdict = [t \in DOMAIN plan |-> None]
    /\ resultJson = -1
    /\ faults = 0

Fault == faults < MaxFaults /\ faults' = faults + 1

tests == <<test, run, idx, rets, failing, flash, logs, results, verdict, resultJson>>

(* identify_connected_netx: the command list_interfaces.  When it returns 0 *)
(* its output is taken apart, and what is left of it goes through the      *)
(* filter.  A list given on the command line is a string, which the filter *)
(* asserts it is not; output without the two marks is an assertion too.    *)
ListInterfaces ==
    /\ stage = "list"
    /\ \/ /\ LET ports == RetrivePorts(Output(todo)) IN
                IF ports # <<>> /\ args.black # {}
                THEN stage' = "aborted" /\ UNCHANGED todo
                ELSE /\ stage' = "detect"
                     /\ todo' = ApplyWhitemaskBlacklist(ports, ListWhite, args.black)
          /\ UNCHANGED faults
       \/ Fault /\ todo' = <<>> /\ stage' \in {"detect", "aborted"}
    /\ UNCHANGED <<setup, tests>>

(* The command detect_netx on one port: kept when it returns 0.  Its       *)
(* output must then name the chip, which the script asserts.               *)
DetectNetx ==
    /\ stage = "detect" /\ todo # <<>>
    /\ \/ /\ \E there \in BOOLEAN :
                found' = IF there THEN Append(found, Head(todo)) ELSE found
          /\ todo' = Tail(todo)
          /\ UNCHANGED <<stage, faults>>
       \/ /\ Fault
          /\ stage' = "aborted"
          /\ UNCHANGED <<found, todo>>
    /\ UNCHANGED <<plan, args, tests>>

(* setUpClass goes on with one netX only. *)
ChooseNetx ==
    /\ stage = "detect" /\ todo = <<>>
    /\ stage' = IF Len(found) = 1 THEN "setUp" ELSE "aborted"
    /\ UNCHANGED <<setup, todo, tests, faults>>

NextTest(v) ==
    /\ verdict' = [verdict EXCEPT ![test] = v]
    /\ test' = test + 1
    /\ stage' = "setUp"

\* The files of the log folder: those of a run, and one per command.
Log(name) == <<name, 0>>
Wrote(names) == [f \in (DOMAIN tmp) \cup names |-> IF f \in names THEN test ELSE tmp[f]]

(* setUp writes the test configuration into the log folder, also for a     *)
(* test method that is skipped at once.                                    *)
SetUp ==
    /\ stage = "setUp" /\ test <= Len(plan)
    /\ tmp' = Wrote({Log("testconfig")})
    /\ results' = 0
    /\ todo' = plan[test].memories
    /\ \/ /\ ~plan[test].enabled
          /\ NextTest("skipped")
       \/ /\ plan[test].enabled /\ plan[test].memories = <<>>
          /\ NextTest(plan[test].otherwise)
       \/ /\ plan[test].enabled /\ plan[test].memories # <<>>
          /\ stage' = "prepare"
          /\ UNCHANGED <<test, verdict>>
    /\ UNCHANGED <<setup, run, idx, rets, failing, flash, work, left, zips, jsons, numErrorsA,
                   resultJson, faults>>

(* A new test object: init_params and pre_test_step, which generates the   *)
(* binary in the working folder and copies it to the logs.                 *)
PreTestStep ==
    /\ stage = "prepare"
    /\ run' = run + 1
    /\ idx' = 1 /\ rets' = <<>>
    /\ work' = IF Class \in Generates
               THEN [c \in (DOMAIN work) \cup {Class} |-> IF c = Class THEN run + 1 ELSE work[c]]
               ELSE work
    /\ tmp' = IF Class \in Generates THEN Wrote({Log("writefile")}) ELSE tmp
    /\ stage' = "batch"
    /\ UNCHANGED <<setup, todo, test, failing, flash, left, zips, jsons, numErrorsA, results,
                   verdict, resultJson, faults>>

(* batch_command_base: every command is run, whatever the one before it    *)
(* returned; its output goes to a file of the log folder.                  *)
Ran(ret, contents) ==
    /\ rets' = Append(rets, ret)
    /\ failing' = IF ret = 0 THEN failing ELSE failing \cup {<<test, run>>}
    /\ flash' = contents
    /\ tmp' = Wrote({<<"stdout", idx>>})
    /\ idx' = idx + 1
    /\ UNCHANGED <<stage, setup, todo, test, run, work, left, zips, jsons, numErrorsA,
                   results, verdict, resultJson>>

RunCommand ==
    /\ stage = "batch" /\ idx <= Len(Batch)
    /\ LET command == Batch[idx] IN
          IF Succeeds(command) THEN Ran(0, Carried(command)) ELSE Ran(1, flash)
    /\ UNCHANGED faults

CommandFails ==
    /\ stage = "batch" /\ idx <= Len(Batch)
    /\ \E contents \in {flash} \cup
             (IF Batch[idx] \in {"erase", "flash", "testcli"}
              THEN {Fill(Memory, 1 .. 1, Junk)} ELSE {}) :
          Ran(1, contents)
    /\ Fault

Failed(values) == Cardinality({i \in DOMAIN values : values[i] # 0})

(* eval_batch_result counts the commands that failed and writes the        *)
(* summary; the count is appended to the list all tests share.             *)
EvalBatchResult ==
    /\ stage = "batch" /\ idx = Len(Batch) + 1
    /\ numErrorsA' = Append(numErrorsA, Failed(rets))
    /\ tmp' = Wrote({Log("summary")})
    /\ stage' = "archive"
    /\ UNCHANGED <<setup, todo, test, run, idx, rets, failing, flash, work, left, zips, jsons,
                   results, verdict, resultJson, faults>>

\* Mistakes: the result of the first run, and folders that stay full.
FirstResult == Head(numErrorsA)
FoldersKept(folder, locked) == folder

\* The entry of this run in the list all tests share.
Result == Last(numErrorsA)

\* logfiles_folder_reset_create: what is left of a folder when os.remove has failed for
\* these files, which is logged as an info and nothing else.
FoldersReset(folder, locked) == [f \in locked |-> folder[f]]

\* No file of a folder is locked, or one is.
Locked(folder) == {{}} \cup {{f} : f \in DOMAIN folder}

(* wrap_archive_logs_and_clear: the archive, the json file with the last   *)
(* entry of numErrors_a, and the folders cleared, also when packing the    *)
(* logs has failed.  The name of the archive holds a counter, so that it   *)
(* never exists yet.  The test method adds up the same entry.              *)
ArchiveLogs ==
    /\ stage = "archive"
    /\ \E packed \in BOOLEAN, stays \in Locked(tmp), kept \in Locked(work) :
          /\ zips' = IF packed THEN Append(zips, [test |-> test, run |-> run, files |-> tmp]) ELSE zips
          /\ tmp' = FoldersReset(tmp, stays) /\ work' = FoldersReset(work, kept)
          /\ left' = left \cup {<<f, tmp[f]>> : f \in stays}
          /\ IF packed /\ stays = {} /\ kept = {} THEN UNCHANGED faults ELSE Fault
    /\ jsons' = Append(jsons, [test |-> test, run |-> run, result |-> Result])
    /\ results' = results + Result
    /\ todo' = Tail(todo)
    /\ stage' = IF Len(todo) > 1 THEN "prepare" ELSE "assert"
    /\ UNCHANGED <<setup, test, run, idx, rets, failing, flash, numErrorsA, verdict, resultJson>>

AssertEqual ==
    /\ stage = "assert"
    /\ NextTest(IF results = 0 THEN "ok" ELSE "failed")
    /\ UNCHANGED <<setup, todo, run, idx, rets, failing, flash, logs, results, resultJson, faults>>

(* An exception on the way: unittest notes an error and goes on with the   *)
(* next test method; the log folder stays as it is.                        *)
Raise ==
    /\ stage \in {"prepare", "batch", "archive"}
    /\ NextTest("error")
    /\ Fault
    /\ UNCHANGED <<setup, todo, run, idx, rets, failing, flash, logs, results, resultJson>>

(* tearDownClass sums up the json files. *)
TearDownClass ==
    /\ stage = "setUp" /\ test > Len(plan)
    /\ resultJson' = Cardinality({i \in DOMAIN jsons : jsons[i].result # 0})
    /\ stage' = "done"
    /\ UNCHANGED <<setup, todo, test, run, idx, rets, failing, flash, logs, results,
                   verdict, faults>>

\* What test_regression.py ends with, once every test method had its turn.
Verdicts(v) == {t \in DOMAIN plan : verdict[t] = v}
ExitCode == IF Verdicts("error") # {} THEN 2
            ELSE IF Verdicts("failed") # {} THEN 1 ELSE 0

Terminated == stage \in {"done", "aborted"} /\ UNCHANGED testVars

TestNext ==
    \/ ListInterfaces \/ DetectNetx \/ ChooseNetx
    \/ SetUp \/ PreTestStep \/ RunCommand \/ CommandFails \/ EvalBatchResult
    \/ ArchiveLogs \/ AssertEqual \/ Raise \/ TearDownClass
    \/ Terminated

TestSpec == TestInit /\ [][TestNext]_testVars

-----------------------------------------------------------------------------
(* The values of the variables. *)
TestTypeOK ==
    /\ stage \in {"list", "detect", "setUp", "prepare", "batch", "archive",
                  "assert", "done", "aborted"}
    /\ plan \in Campaigns
    /\ test \in 1 .. Len(plan) + 1
    /\ stage \in {"setUp", "prepare", "batch", "archive", "assert"} => todo \in Seq(Memories)
    /\ run \in Nat /\ rets \in Seq({0, 1}) /\ idx = Len(rets) + 1
    /\ failing \subseteq (DOMAIN plan) \X Nat
    /\ \A l \in left : l[2] \in DOMAIN plan
    /\ DOMAIN flash = Memories
    /\ \A m \in Memories : flash[m] \in [1 .. MemorySize[m] -> Int]
    /\ tmp \in [DOMAIN tmp -> DOMAIN plan]
    /\ DOMAIN work \subseteq Classes /\ work \in [DOMAIN work -> Int]
    /\ jsons \in Seq([test : DOMAIN plan, run : Nat, result : Nat])
    /\ numErrorsA \in Seq(Nat) /\ results \in Nat
    /\ verdict \in [DOMAIN plan -> {None, "skipped", "ok", "failed", "error"}]
    /\ resultJson \in Nat \cup {-1}
    /\ faults \in Nat

(* On a board without faults the whole campaign succeeds: no test class    *)
(* trips over what the one before it left in the memory or in the folders, *)
(* and none of its commands goes beyond a small memory.                    *)
GreenWithoutFaults ==
    (/\ stage = "done" /\ faults = 0
     /\ \A t \in DOMAIN plan : plan[t].memories = <<>> => plan[t].otherwise = "skipped")
        => ExitCode = 0 /\ resultJson = 0

(* A command that failed is not lost on the way to the result: the test    *)
(* method it ran in does not end well, the json file of its run (and no    *)
(* other) says so, result.json counts that run, and so does the exit code. *)
NoFailureLost ==
    /\ \A f \in failing : verdict[f[1]] \in {None, "failed", "error"}
    /\ \A i \in DOMAIN jsons :
          jsons[i].result # 0 <=> <<jsons[i].test, jsons[i].run>> \in failing
    /\ stage = "done" =>
          /\ failing # {} => ExitCode > 0
          /\ resultJson = Cardinality({i \in DOMAIN jsons :
                         <<jsons[i].test, jsons[i].run>> \in failing})

\* The verdict of a batch is right in both directions.
VerdictIsRight == GreenWithoutFaults /\ NoFailureLost

(* An archive holds the logs of its own test, except those of a test that  *)
(* an exception has cut off before it was packed, and those that could not *)
(* be removed when they were.                                              *)
ArchiveIsOwn ==
    \A i \in DOMAIN zips : \A f \in DOMAIN zips[i].files :
        LET writer == zips[i].files[f] IN
        writer # zips[i].test => verdict[writer] = "error" \/ <<f, writer>> \in left

=============================================================================
