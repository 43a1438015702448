------------------------------ MODULE PinnedRun ------------------------------
(***************************************************************************)
(* One benchmark after the other, each run through the shim that pins its  *)
(* address layout: ci/noaslr.c, as run_tests.run_test calls it for         *)
(* ci/performance.py.                                                      *)
(*                                                                         *)
(* A run is three processes.  The driver starts the shim and waits for it, *)
(* the shim starts the benchmark and waits for it, and the benchmark ends  *)
(* when it likes, or never.  The driver's patience is bounded: it kills    *)
(* the process it started, which is the shim.  The benchmark is not the    *)
(* driver's child, and runs on.                                            *)
(*                                                                         *)
(* Left out: the shim's usage message, since command_for always names a    *)
(* program after the prefix; and the ways an output can fail its check,    *)
(* which are one choice.                                                   *)
(***************************************************************************)
EXTENDS Naturals

CONSTANTS
    Runs,       \* how many runs the driver makes
    Codes,      \* exit codes of a benchmark
    Signals     \* signals that end one

ASSUME RunsAssumption == Runs \in Nat \ {0}
ASSUME CodesAssumption == Codes \subseteq 0 .. 255 /\ Signals \subseteq 1 .. 127

VARIABLES
    mode,       \* "performance", or "correctness" for --correctness-only
    driver,     \* "ready", "waiting", "done", or "failed" when it gave up
    at,         \* number of the run under way, or of the last one
    shim,       \* run -> the shim's process
    bench,      \* run -> the benchmark's process
    result      \* run -> what run_test returned

vars == <<mode, driver, at, shim, bench, result>>

RunIds == 1 .. Runs

Process == [is : {"absent", "starting", "waiting", "running", "exited", "signalled"},
            code : 0 .. 255]
Is(state) == [is |-> state, code |-> 0]

SpawnFailed == 127
Kill == 9

Init ==
    /\ mode \in {"performance", "correctness"}
    /\ driver = "ready"
    /\ at = 0
    /\ shim = [r \in RunIds |-> Is("absent")]
    /\ bench = [r \in RunIds |-> Is("absent")]
    /\ result = [r \in RunIds |-> "none"]

Ended(process) == process.is \in {"exited", "signalled"}

-----------------------------------------------------------------------------
(* The shim and the benchmark.                                               *)

ShimSpawns(r) ==
    /\ shim[r].is = "starting"
    /\ \/ /\ shim' = [shim EXCEPT ![r] = Is("waiting")]
          /\ bench' = [bench EXCEPT ![r] = Is("running")]
       \/ /\ shim' = [shim EXCEPT ![r] = [is |-> "exited", code |-> SpawnFailed]]
          /\ UNCHANGED bench
    /\ UNCHANGED <<mode, driver, at, result>>

\* Mutant: the end is taken for an exit; the exit status of a killed process is 0.
StatusUnchecked(process) == IF process.is = "exited" THEN process.code ELSE 0

\* The shim's exit code for a benchmark's end.
Status(process) ==
    IF process.is = "exited" THEN process.code ELSE 128 + process.code

\* waitpid fails when the shim was started with SIGCHLD ignored: it waits all the
\* same, and finds no status.
ShimReturns(r) ==
    /\ shim[r].is = "waiting"
    /\ Ended(bench[r])
    /\ \E code \in {Status(bench[r]), SpawnFailed} :
         shim' = [shim EXCEPT ![r] = [is |-> "exited", code |-> code]]
    /\ UNCHANGED <<mode, driver, at, bench, result>>

\* Also what becomes of a benchmark whose shim is gone: it ends on its own, or
\* by the failure of its next line of output, or is killed.
BenchEnds(r) ==
    /\ bench[r].is = "running"
    /\ \/ \E code \in Codes : bench' = [bench EXCEPT ![r] = [is |-> "exited", code |-> code]]
       \/ \E sig \in Signals : bench' = [bench EXCEPT ![r] = [is |-> "signalled", code |-> sig]]
    /\ UNCHANGED <<mode, driver, at, shim, result>>

-----------------------------------------------------------------------------
(* The driver.                                                               *)

\* Mutant: the comparison goes on as well.
AfterAnyRun(r, status) == IF r = Runs THEN "done" ELSE "ready"

\* What follows a run: the comparison stops at the first that does not pass, the
\* correctness suite notes it and goes on.
AfterRun(r, status) ==
    IF status # "PASS" /\ mode = "performance" THEN "failed"
    ELSE IF r = Runs THEN "done" ELSE "ready"

Settle(r, status) ==
    /\ result' = [result EXCEPT ![r] = status]
    /\ driver' = AfterRun(r, status)

\* run_test finds its inputs missing, or the shim cannot be started, or it runs.
Launch(r) ==
    /\ driver = "ready"
    /\ r = at + 1
    /\ at' = r
    /\ \/ \E status \in {"SKIP", "FAIL"} : Settle(r, status) /\ UNCHANGED shim
       \/ /\ driver' = "waiting"
          /\ shim' = [shim EXCEPT ![r] = Is("starting")]
          /\ UNCHANGED result
    /\ UNCHANGED <<mode, bench>>

Awaits(r) == driver = "waiting" /\ at = r

\* subprocess.run returns once the shim has ended and both pipes are closed, which
\* the benchmark holds open too.
Collect(r) ==
    /\ Awaits(r)
    /\ Ended(shim[r])
    /\ bench[r].is # "running"
    /\ IF shim[r] = [is |-> "exited", code |-> 0]
       THEN \E status \in {"PASS", "FAIL"} : Settle(r, status)
       ELSE Settle(r, "FAIL")
    /\ UNCHANGED <<mode, at, shim, bench>>

\* Mutant: the pipes are read to their end after the kill.
TimeoutDrains(r) ==
    /\ Awaits(r)
    /\ bench[r].is # "running"
    /\ shim' = IF Ended(shim[r]) THEN shim
               ELSE [shim EXCEPT ![r] = [is |-> "signalled", code |-> Kill]]
    /\ Settle(r, "FAIL")
    /\ UNCHANGED <<mode, at, bench>>

\* TimeoutExpired: the child is killed and reaped, the pipes are dropped.
Timeout(r) ==
    /\ Awaits(r)
    /\ shim' = IF Ended(shim[r]) THEN shim
               ELSE [shim EXCEPT ![r] = [is |-> "signalled", code |-> Kill]]
    /\ Settle(r, "FAIL")
    /\ UNCHANGED <<mode, at, bench>>

Finished == driver \in {"done", "failed"} /\ UNCHANGED vars

Next ==
    \/ \E r \in RunIds :
         Launch(r) \/ ShimSpawns(r) \/ BenchEnds(r) \/ ShimReturns(r) \/ Collect(r) \/ Timeout(r)
    \/ Finished

\* The shim and the driver are scheduled, and the driver's timer fires.  Nothing is
\* asked of the benchmark.
Fairness ==
    \A r \in RunIds :
        WF_vars(Launch(r)) /\ WF_vars(ShimSpawns(r) \/ ShimReturns(r)) /\ WF_vars(Timeout(r))

Spec == Init /\ [][Next]_vars /\ Fairness

-----------------------------------------------------------------------------
(* Properties.                                                               *)

TypeOK ==
    /\ driver \in {"ready", "waiting", "done", "failed"}
    /\ at \in 0 .. Runs
    /\ shim \in [RunIds -> Process]
    /\ bench \in [RunIds -> Process]
    /\ result \in [RunIds -> {"none", "PASS", "FAIL", "SKIP"}]

(* A run passes only if its own benchmark was started and exited with 0: no  *)
(* failure of the shim's, and no signal, comes back as a success.            *)
PassIsAnExit ==
    \A r \in RunIds : result[r] = "PASS" => bench[r] = [is |-> "exited", code |-> 0]

(* While the comparison waits for a benchmark no other one is running.       *)
(* Killing the shim leaves a benchmark behind; that it never runs beside a   *)
(* measured one is due to the comparison giving up at the first failure.     *)
MeasuredAlone ==
    mode = "performance" =>
        \A r, s \in RunIds : Awaits(r) /\ bench[s].is = "running" => s = r

(* The driver comes to an end though benchmarks hang.                        *)
DriverFinishes == <>(driver \in {"done", "failed"})
==============================================================================
