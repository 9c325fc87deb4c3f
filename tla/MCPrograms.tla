---------------------------- MODULE MCPrograms ----------------------------
(***************************************************************************)
(* The programs of tests/myth_felock.c (FELock) and of                     *)
(* tests/myth_cond_broadcast_0.c (CondBroadcast) for TLC, which runs one   *)
(* or the other on a mutex, its condition variables and the workers.       *)
(***************************************************************************)
EXTENDS FELock

CONSTANT Batches    \* how many times Main produces, when it is the producer

VARIABLES
    program,            \* the program that runs
    x, y, served, done  \* the variables of CondBroadcast

CB == INSTANCE CondBroadcast WITH Producer <- Main

\* What the programs take for granted of their constants.
ASSUME ProgramsAssumption == FELockAssumption /\ CB!ProgramAssumption

cbVars == <<x, y, served, done>>
programsVars == <<program, allVars, cbVars>>

ProgramsInit ==
    /\ program \in {"felock", "broadcast"}
    /\ FEInit /\ CB!ProgramInit

RunsFE == program = "felock" /\ UNCHANGED <<program, cbVars>>
RunsCB == program = "broadcast" /\ UNCHANGED <<program, feVars>>

ProgramsNext ==
    \/ RunsFE /\ FENext
    \/ RunsCB /\ CB!ProgramNext

\* The fairness of both: workers are OS threads and never stop.
ProgramsFairness ==
    /\ \A a \in Agents :
        /\ WF_programsVars(RunsFE /\ RuntimeStep(a) /\ UNCHANGED feVars)
        /\ WF_programsVars(RunsCB /\ CB!RuntimeStep(a) /\ UNCHANGED cbVars)
    /\ \A w \in Workers, th \in Threads :
        /\ WF_programsVars(RunsFE /\ FEStep(w, th))
        /\ WF_programsVars(RunsCB /\ CB!ProgramStep(w, th))

ProgramsSpec == ProgramsInit /\ [][ProgramsNext]_programsVars /\ ProgramsFairness

-----------------------------------------------------------------------------
(***************************************************************************)
(* Either program ends with what its assertion expects: the increments all *)
(* counted, or every item consumed.  No wakeup of the mutex is lost and no *)
(* signal or broadcast, and nobody spins for ever on an empty queue.       *)
(***************************************************************************)
ProgramsFinish ==
    /\ program = "felock" => Finishes
    /\ program = "broadcast" => CB!Finishes
=============================================================================
