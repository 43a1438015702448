-------------------------- MODULE PinnedRun_proofs --------------------------
(* Theorems about PinnedRun: what a PASS stands for, that a measured          *)
(* benchmark has the machine to itself, how processes end, and that the      *)
(* driver runs out of things to do.                                          *)
EXTENDS PinnedRun, TLAPS

USE RunsAssumption, CodesAssumption

(* Which run is under way, and how far its processes are.                     *)
Progress ==
    /\ driver \in {"ready", "waiting", "failed"} \/ at = Runs
    /\ \A r \in RunIds : r > at => shim[r] = Is("absent") /\ bench[r] = Is("absent")
    /\ \A r \in RunIds : shim[r].is \in {"absent", "starting"} => bench[r] = Is("absent")
    /\ \A r \in RunIds : shim[r].is = "waiting" => bench[r].is # "absent"
    /\ \A r \in RunIds : shim[r].is \in {"starting", "waiting"} => driver = "waiting" /\ at = r
    /\ \A r \in RunIds : bench[r].is \in {"absent", "running", "exited", "signalled"}
    /\ \A r \in RunIds : bench[r].is = "signalled" => bench[r].code \in 1 .. 127

(* A shim that returned 0 stands for a benchmark that did.                    *)
ZeroIsZero ==
    \A r \in RunIds : shim[r] = [is |-> "exited", code |-> 0] =>
        bench[r] = [is |-> "exited", code |-> 0]

(* As long as the comparison goes on, no earlier run has left a benchmark.    *)
OnlyAwaited == \A r \in RunIds : bench[r].is = "running" => driver = "waiting" /\ at = r
NoneLeft == mode = "performance" /\ driver # "failed" => OnlyAwaited

IInv == TypeOK /\ Progress /\ ZeroIsZero /\ PassIsAnExit /\ NoneLeft

(* What the shim returns is an exit code, and 0 for an exit with 0 only.      *)
LEMMA StatusIsCode ==
    ASSUME NEW p \in Process, p.is = "exited" \/ (p.is = "signalled" /\ p.code \in 1 .. 127)
    PROVE  /\ Status(p) \in 0 .. 255
           /\ Status(p) = 0 => p = [is |-> "exited", code |-> 0]
  BY DEF Status, Process

(* How a benchmark ends is a state its process can be in.                     *)
IsAnEnd(p) ==
    /\ p \in Process
    /\ p.is \in {"exited", "signalled"}
    /\ p.is = "signalled" => p.code \in 1 .. 127

LEMMA EndsAreProcesses ==
    /\ \A code \in Codes : IsAnEnd([is |-> "exited", code |-> code])
    /\ \A sig \in Signals : IsAnEnd([is |-> "signalled", code |-> sig])
<1>1. ASSUME NEW code \in Codes PROVE IsAnEnd([is |-> "exited", code |-> code])
  <2>1. code \in 0 .. 255
    BY CodesAssumption
  <2> QED BY <2>1 DEF IsAnEnd, Process
<1>2. ASSUME NEW sig \in Signals PROVE IsAnEnd([is |-> "signalled", code |-> sig])
  <2>1. sig \in 1 .. 127 /\ sig \in 0 .. 255
    BY CodesAssumption
  <2> QED BY <2>1 DEF IsAnEnd, Process
<1> QED BY <1>1, <1>2

LEMMA InitEstablishes == Init => IInv
  BY DEF Init, IInv, TypeOK, Progress, ZeroIsZero, PassIsAnExit, NoneLeft, OnlyAwaited, RunIds, Process, Is
-----------------------------------------------------------------------------
(* One lemma per action.                                                     *)

LEMMA LaunchStep ==
    ASSUME IInv, NEW r \in RunIds, Launch(r) PROVE IInv'
<1>1. /\ driver = "ready" /\ r = at + 1 /\ at' = r
      /\ shim[r] = Is("absent") /\ bench[r] = Is("absent")
      /\ bench' = bench /\ mode' = mode
  BY DEF Launch, IInv, Progress, TypeOK, RunIds
<1>2. CASE \E status \in {"SKIP", "FAIL"} : Settle(r, status) /\ UNCHANGED shim
  <2>1. PICK status \in {"SKIP", "FAIL"} : Settle(r, status) /\ UNCHANGED shim
    BY <1>2
  <2> QED BY <1>1, <2>1
        DEF Settle, AfterRun, IInv, TypeOK, Progress, ZeroIsZero, PassIsAnExit, NoneLeft,
            OnlyAwaited, RunIds
<1>3. CASE /\ driver' = "waiting"
           /\ shim' = [shim EXCEPT ![r] = Is("starting")]
           /\ UNCHANGED result
  <2>1. Is("starting") \in Process /\ Is("starting").is = "starting"
    BY DEF Is, Process
  <2> QED BY <1>1, <1>3, <2>1
        DEF IInv, TypeOK, Progress, ZeroIsZero, PassIsAnExit, NoneLeft, OnlyAwaited, RunIds
<1> QED BY <1>2, <1>3 DEF Launch

LEMMA SpawnStep ==
    ASSUME IInv, NEW r \in RunIds, ShimSpawns(r) PROVE IInv'
<1>1. /\ shim[r].is = "starting" /\ bench[r] = Is("absent")
      /\ UNCHANGED <<mode, driver, at, result>>
  BY DEF ShimSpawns, IInv, Progress
<1>2. driver = "waiting" /\ at = r
  BY <1>1 DEF IInv, Progress
<1>4. CASE /\ shim' = [shim EXCEPT ![r] = Is("waiting")]
           /\ bench' = [bench EXCEPT ![r] = Is("running")]
  <2>1. /\ Is("waiting") \in Process /\ Is("waiting").is = "waiting"
        /\ Is("running") \in Process /\ Is("running").is = "running"
    BY DEF Is, Process
  <2>2. TypeOK'
    BY <1>1, <1>4, <2>1 DEF IInv, TypeOK
  <2>3. Progress'
    <3>1. /\ shim'[r] = Is("waiting") /\ bench'[r] = Is("running")
          /\ \A s \in RunIds \ {r} : shim'[s] = shim[s] /\ bench'[s] = bench[s]
      BY <1>4 DEF IInv, TypeOK
    <3>2. \A s \in RunIds : s > at' => s # r
      BY <1>1, <1>2 DEF RunIds
    <3> QED BY <1>1, <1>2, <2>1, <3>1, <3>2 DEF IInv, Progress
  <2>4. ZeroIsZero' /\ PassIsAnExit'
    BY <1>1, <1>4, <2>1 DEF IInv, TypeOK, ZeroIsZero, PassIsAnExit, Is
  <2>5. NoneLeft'
    BY <1>1, <1>2, <1>4, <2>1 DEF IInv, TypeOK, NoneLeft, OnlyAwaited
  <2> QED BY <2>2, <2>3, <2>4, <2>5 DEF IInv
<1>5. CASE /\ shim' = [shim EXCEPT ![r] = [is |-> "exited", code |-> SpawnFailed]]
           /\ bench' = bench
  <2> DEFINE p == [is |-> "exited", code |-> SpawnFailed]
  <2>1. p \in Process /\ p.is = "exited"
    BY DEF Process, SpawnFailed
  <2>2. p # [is |-> "exited", code |-> 0]
    BY DEF SpawnFailed
  <2>3. shim' = [shim EXCEPT ![r] = p]
    BY <1>5
  <2> HIDE DEF p
  <2>4. /\ shim'[r] = p
        /\ \A s \in RunIds \ {r} : shim'[s] = shim[s]
    BY <2>3 DEF IInv, TypeOK
  <2>5. TypeOK'
    BY <1>1, <1>5, <2>1, <2>3 DEF IInv, TypeOK
  <2>6. Progress'
    <3>1. \A s \in RunIds : s > at' => s # r
      BY <1>1, <1>2 DEF RunIds
    <3> QED BY <1>1, <1>2, <1>5, <2>1, <2>4, <3>1 DEF IInv, Progress, Is
  <2>7. ZeroIsZero' /\ PassIsAnExit' /\ NoneLeft'
    BY <1>1, <1>5, <2>2, <2>4 DEF IInv, ZeroIsZero, PassIsAnExit, NoneLeft, OnlyAwaited
  <2> QED BY <2>5, <2>6, <2>7 DEF IInv
<1> QED BY <1>4, <1>5 DEF ShimSpawns

LEMMA BenchStep ==
    ASSUME IInv, NEW r \in RunIds, BenchEnds(r) PROVE IInv'
<1>1. PICK p :
        /\ bench' = [bench EXCEPT ![r] = p]
        /\ IsAnEnd(p)
  <2>1. CASE \E code \in Codes : bench' = [bench EXCEPT ![r] = [is |-> "exited", code |-> code]]
    <3>1. PICK code \in Codes : bench' = [bench EXCEPT ![r] = [is |-> "exited", code |-> code]]
      BY <2>1
    <3> DEFINE end == [is |-> "exited", code |-> code]
    <3>2. IsAnEnd(end)
      BY EndsAreProcesses
    <3>3. bench' = [bench EXCEPT ![r] = end]
      BY <3>1
    <3> HIDE DEF end
    <3> QED BY <3>2, <3>3
  <2>2. CASE \E sig \in Signals : bench' = [bench EXCEPT ![r] = [is |-> "signalled", code |-> sig]]
    <3>1. PICK sig \in Signals : bench' = [bench EXCEPT ![r] = [is |-> "signalled", code |-> sig]]
      BY <2>2
    <3> DEFINE end == [is |-> "signalled", code |-> sig]
    <3>2. IsAnEnd(end)
      BY EndsAreProcesses
    <3>3. bench' = [bench EXCEPT ![r] = end]
      BY <3>1
    <3> HIDE DEF end
    <3> QED BY <3>2, <3>3
  <2> QED BY <2>1, <2>2 DEF BenchEnds
<1>2. bench[r].is = "running" /\ UNCHANGED <<mode, driver, at, shim, result>>
  BY DEF BenchEnds
<1>3. r <= at /\ shim[r].is \notin {"absent", "starting"}
  BY <1>2 DEF IInv, Progress, Is, RunIds, TypeOK
<1>4. /\ bench'[r] = p
      /\ \A s \in RunIds \ {r} : bench'[s] = bench[s]
  BY <1>1 DEF IInv, TypeOK
<1>5. p \in Process /\ p.is \in {"exited", "signalled"} /\ (p.is = "signalled" => p.code \in 1 .. 127)
  BY <1>1 DEF IsAnEnd
<1>6. TypeOK'
  BY <1>1, <1>2, <1>5 DEF IInv, TypeOK
<1>7. Progress'
  <2>1. \A s \in RunIds : s > at' => s # r
    BY <1>2, <1>3 DEF IInv, TypeOK, RunIds
  <2> QED BY <1>2, <1>3, <1>4, <1>5, <2>1 DEF IInv, Progress
<1>8. ZeroIsZero' /\ PassIsAnExit'
  <2>1. bench[r] # [is |-> "exited", code |-> 0]
    BY <1>2
  <2> QED BY <1>2, <1>4, <2>1 DEF IInv, ZeroIsZero, PassIsAnExit
<1>9. NoneLeft'
  BY <1>2, <1>4, <1>5 DEF IInv, NoneLeft, OnlyAwaited
<1> QED BY <1>6, <1>7, <1>8, <1>9 DEF IInv

LEMMA ReturnStep ==
    ASSUME IInv, NEW r \in RunIds, ShimReturns(r) PROVE IInv'
<1>1. /\ shim[r].is = "waiting" /\ bench[r] \in Process /\ at = r /\ driver = "waiting"
      /\ bench[r].is = "exited" \/ (bench[r].is = "signalled" /\ bench[r].code \in 1 .. 127)
      /\ UNCHANGED <<mode, driver, at, bench, result>>
  BY DEF ShimReturns, Ended, IInv, Progress, TypeOK, RunIds, Is
<1>2. PICK code \in {Status(bench[r]), SpawnFailed} :
        shim' = [shim EXCEPT ![r] = [is |-> "exited", code |-> code]]
  BY DEF ShimReturns
<1>3. /\ code \in 0 .. 255
      /\ code = 0 => bench[r] = [is |-> "exited", code |-> 0]
  BY <1>1, StatusIsCode DEF SpawnFailed
<1> DEFINE p == [is |-> "exited", code |-> code]
<1>4. p \in Process /\ p.is = "exited" /\ p.code = code
  BY <1>3 DEF Process
<1>5. /\ shim' = [shim EXCEPT ![r] = p]
      /\ p = [is |-> "exited", code |-> 0] => bench[r] = [is |-> "exited", code |-> 0]
  BY <1>2, <1>3
<1> HIDE DEF p
<1>6. /\ shim'[r] = p
      /\ \A s \in RunIds \ {r} : shim'[s] = shim[s]
  BY <1>5 DEF IInv, TypeOK
<1>7. TypeOK'
  BY <1>1, <1>4, <1>5 DEF IInv, TypeOK
<1>8. Progress'
  <2>1. \A s \in RunIds : s > at' => s # r
    BY <1>1 DEF IInv, TypeOK, RunIds
  <2> QED BY <1>1, <1>4, <1>6, <2>1 DEF IInv, Progress
<1>9. ZeroIsZero' /\ PassIsAnExit' /\ NoneLeft'
  BY <1>1, <1>5, <1>6 DEF IInv, ZeroIsZero, PassIsAnExit, NoneLeft, OnlyAwaited
<1> QED BY <1>7, <1>8, <1>9 DEF IInv

LEMMA CollectStep ==
    ASSUME IInv, NEW r \in RunIds, Collect(r) PROVE IInv'
<1>1. /\ driver = "waiting" /\ at = r /\ bench[r].is # "running"
      /\ UNCHANGED <<mode, at, shim, bench>>
      /\ Ended(shim[r])
  BY DEF Collect, Awaits
<1>2. PICK status \in {"PASS", "FAIL"} :
        Settle(r, status) /\ (status = "PASS" => shim[r] = [is |-> "exited", code |-> 0])
  BY DEF Collect
<1>3. status = "PASS" => bench[r] = [is |-> "exited", code |-> 0]
  BY <1>2 DEF IInv, ZeroIsZero
<1>4. TypeOK'
  BY <1>1, <1>2 DEF IInv, TypeOK, Settle, AfterRun
<1>5. Progress'
  BY <1>1, <1>2 DEF IInv, TypeOK, Progress, Settle, AfterRun, RunIds, Ended
<1>6. ZeroIsZero' /\ PassIsAnExit'
  BY <1>1, <1>2, <1>3 DEF IInv, TypeOK, ZeroIsZero, PassIsAnExit, Settle
<1>7. NoneLeft'
  BY <1>1, <1>2 DEF IInv, NoneLeft, OnlyAwaited, Settle, AfterRun
<1> QED BY <1>4, <1>5, <1>6, <1>7 DEF IInv

LEMMA TimeoutStep ==
    ASSUME IInv, NEW r \in RunIds, Timeout(r) PROVE IInv'
<1>1. driver = "waiting" /\ at = r /\ UNCHANGED <<mode, at, bench>> /\ Settle(r, "FAIL")
  BY DEF Timeout, Awaits
<1>2. shim' = shim \/ shim' = [shim EXCEPT ![r] = [is |-> "signalled", code |-> Kill]]
  BY DEF Timeout
<1>4. TypeOK'
  BY <1>1, <1>2 DEF IInv, TypeOK, Settle, AfterRun, Process, Kill
<1>5. Progress'
  <2>1. /\ \A s \in RunIds \ {r} : shim'[s] = shim[s]
        /\ shim'[r] = shim[r] \/ shim'[r] = [is |-> "signalled", code |-> Kill]
    BY <1>2 DEF IInv, TypeOK
  <2>2. shim'[r].is \notin {"starting", "waiting"}
    BY DEF Timeout, Ended, IInv, TypeOK
  <2>3. shim'[r].is = "absent" => shim[r].is = "absent"
    BY <2>1
  <2>4. driver' \in {"ready", "waiting", "failed"} \/ at' = Runs
    BY <1>1 DEF Settle, AfterRun
  <2>5. \A s \in RunIds : s > at' => s # r
    BY <1>1 DEF RunIds
  <2> QED BY <1>1, <2>1, <2>2, <2>3, <2>4, <2>5 DEF IInv, Progress
<1>6. ZeroIsZero' /\ PassIsAnExit'
  BY <1>1, <1>2 DEF IInv, TypeOK, ZeroIsZero, PassIsAnExit, Settle, Kill
<1>7. NoneLeft'
  BY <1>1 DEF IInv, NoneLeft, OnlyAwaited, Settle, AfterRun
<1> QED BY <1>4, <1>5, <1>6, <1>7 DEF IInv

-----------------------------------------------------------------------------
(* The theorems.                                                             *)

LEMMA Invariant == Spec => []IInv
<1>1. Init => IInv
  BY InitEstablishes
<1>2. IInv /\ [Next]_vars => IInv'
  <2> SUFFICES ASSUME IInv, [Next]_vars PROVE IInv'
    OBVIOUS
  <2>1. CASE UNCHANGED vars
    BY <2>1 DEF vars, IInv, TypeOK, Progress, ZeroIsZero, PassIsAnExit, NoneLeft, OnlyAwaited, Awaits
  <2>2. CASE Finished
    BY <2>1, <2>2 DEF Finished
  <2>3. ASSUME NEW r \in RunIds,
               \/ Launch(r) \/ ShimSpawns(r) \/ BenchEnds(r)
               \/ ShimReturns(r) \/ Collect(r) \/ Timeout(r)
        PROVE  IInv'
    BY <2>3, LaunchStep, SpawnStep, BenchStep, ReturnStep, CollectStep, TimeoutStep
  <2> QED BY <2>1, <2>2, <2>3 DEF Next
<1> QED BY <1>1, <1>2, PTL DEF Spec

(* A run passes only when its own benchmark exited with 0.                    *)
THEOREM PassesAreExits == Spec => []PassIsAnExit
<1>1. IInv => PassIsAnExit
  BY DEF IInv
<1> QED BY <1>1, Invariant, PTL

(* While the comparison waits for a benchmark, no other one runs.             *)
THEOREM MeasuredBenchmarksRunAlone == Spec => []MeasuredAlone
<1>1. IInv => MeasuredAlone
  BY DEF IInv, NoneLeft, OnlyAwaited, MeasuredAlone, Awaits
<1> QED BY <1>1, Invariant, PTL

(* Every state is well typed, the shim's exit codes included.                 *)
THEOREM RunsAreTyped == Spec => []TypeOK
<1>1. IInv => TypeOK
  BY DEF IInv
<1> QED BY <1>1, Invariant, PTL

-----------------------------------------------------------------------------
(* What a run has returned.                                                  *)

(* A run's result is open until the driver is done with it, and the          *)
(* comparison is past a run only if that run passed.                         *)
Reported ==
    /\ \A r \in RunIds : r > at \/ (r = at /\ driver = "waiting") <=> result[r] = "none"
    /\ mode = "performance" /\ driver # "failed" =>
         \A r \in RunIds : result[r] \in {"none", "PASS"}
    /\ mode = "performance" => \A r \in RunIds : r < at => result[r] = "PASS"

\* A result, once there is one, stays.
Final == \A r \in RunIds : result[r] # "none" => result'[r] = result[r]

LEMMA ReportedSettles ==
    ASSUME TypeOK, Reported, NEW r \in RunIds, NEW status \in {"PASS", "FAIL", "SKIP"},
           Settle(r, status), at' = r, mode' = mode,
           (driver = "ready" /\ r = at + 1) \/ (driver = "waiting" /\ r = at)
    PROVE  Reported' /\ Final
<1>1. /\ result'[r] = status
      /\ \A s \in RunIds \ {r} : result'[s] = result[s]
  BY DEF Settle, TypeOK
<1>2. /\ driver' \in {"ready", "done", "failed"}
      /\ mode = "performance" /\ driver' # "failed" => status = "PASS"
  BY DEF Settle, AfterRun
<1>3. at \in Nat /\ r \in Nat /\ \A s \in RunIds : s \in Nat
  BY DEF TypeOK, RunIds
<1>4. result[r] = "none"
  BY <1>3 DEF Reported
<1>5. \A s \in RunIds : s > at' <=> result'[s] = "none"
  <2> SUFFICES ASSUME NEW s \in RunIds PROVE s > r <=> result'[s] = "none"
    OBVIOUS
  <2>1. CASE s = r
    BY <1>1, <1>3, <2>1
  <2>2. CASE s # r
    BY <1>1, <1>3, <2>2 DEF Reported
  <2> QED BY <2>1, <2>2
<1>6. mode = "performance" /\ driver' # "failed" =>
        \A s \in RunIds : result'[s] \in {"none", "PASS"}
  BY <1>1, <1>2 DEF Reported
<1>7. mode = "performance" => \A s \in RunIds : s < at' => result'[s] = "PASS"
  <2> SUFFICES ASSUME mode = "performance", NEW s \in RunIds, s < r PROVE result'[s] = "PASS"
    OBVIOUS
  <2>1. result'[s] = result[s]
    BY <1>1, <1>3
  <2>2. CASE s < at
    BY <2>1, <2>2 DEF Reported
  <2>3. CASE s = at /\ driver = "ready"
    BY <1>3, <2>1, <2>3 DEF Reported
  <2> QED BY <1>3, <2>2, <2>3
<1> QED BY <1>1, <1>2, <1>4, <1>5, <1>6, <1>7 DEF Reported, Final

LEMMA ReportedStep ==
    ASSUME TypeOK, Reported, [Next]_vars PROVE Reported' /\ Final
<1>1. CASE UNCHANGED vars
  BY <1>1 DEF vars, Reported, Final
<1>2. ASSUME NEW r \in RunIds, Launch(r) PROVE Reported' /\ Final
  <2>1. CASE \E status \in {"SKIP", "FAIL"} : Settle(r, status)
    BY <1>2, <2>1, ReportedSettles DEF Launch
  <2>2. CASE driver' = "waiting" /\ result' = result
    <3>1. driver = "ready" /\ r = at + 1 /\ at' = r /\ mode' = mode
      BY <1>2 DEF Launch
    <3>2. at \in Nat /\ \A s \in RunIds : s \in Nat
      BY DEF TypeOK, RunIds
    <3>3. \A s \in RunIds : s > at' \/ s = at' <=> result'[s] = "none"
      BY <2>2, <3>1, <3>2 DEF Reported
    <3>4. mode = "performance" => \A s \in RunIds : s < at' => result'[s] = "PASS"
      BY <2>2, <3>1, <3>2 DEF Reported
    <3> QED BY <2>2, <3>1, <3>3, <3>4 DEF Reported, Final
  <2> QED BY <1>2, <2>1, <2>2 DEF Launch
<1>3. ASSUME NEW r \in RunIds, ShimSpawns(r) \/ BenchEnds(r) \/ ShimReturns(r)
      PROVE  Reported' /\ Final
  <2>1. UNCHANGED <<mode, driver, at, result>>
    BY <1>3 DEF ShimSpawns, BenchEnds, ShimReturns
  <2> QED BY <2>1 DEF Reported, Final
<1>4. ASSUME NEW r \in RunIds, Collect(r) \/ Timeout(r) PROVE Reported' /\ Final
  <2>1. /\ driver = "waiting" /\ at = r /\ at' = r /\ mode' = mode
        /\ \E status \in {"PASS", "FAIL"} : Settle(r, status)
    BY <1>4 DEF Collect, Timeout, Awaits
  <2> QED BY <2>1, ReportedSettles
<1> QED BY <1>1, <1>2, <1>3, <1>4 DEF Next, Finished

LEMMA ReportedInvariant == Spec => []Reported
<1>1. Init => Reported
  BY DEF Init, Reported, RunIds
<1>2. TypeOK /\ Reported /\ [Next]_vars => Reported'
  BY ReportedStep
<1> QED BY <1>1, <1>2, RunsAreTyped, PTL DEF Spec

(* What a run has returned is not touched again: a process that ends late    *)
(* changes no verdict.                                                       *)
THEOREM VerdictsAreFinal == Spec => [][Final]_vars
<1>1. TypeOK /\ Reported /\ [Next]_vars => Final
  BY ReportedStep
<1> QED BY <1>1, RunsAreTyped, ReportedInvariant, PTL DEF Spec

(* The comparison ends at the first run that does not pass, and is done only *)
(* when every run has.                                                       *)
StopsAtFirst ==
    mode = "performance" =>
        /\ \A r \in RunIds : r < at => result[r] = "PASS"
        /\ driver = "done" => \A r \in RunIds : result[r] = "PASS"

THEOREM ComparisonStopsAtFirst == Spec => []StopsAtFirst
<1>1. ASSUME IInv, Reported, mode = "performance", driver = "done", NEW r \in RunIds
      PROVE  result[r] = "PASS"
  <2>1. at = Runs /\ r <= at
    BY <1>1 DEF IInv, Progress, RunIds
  <2>2. result[r] \in {"none", "PASS"}
    BY <1>1 DEF Reported
  <2>3. result[r] # "none"
    BY <1>1, <2>1 DEF Reported, RunIds
  <2> QED BY <2>2, <2>3
<1>2. IInv /\ Reported => StopsAtFirst
  BY <1>1 DEF StopsAtFirst, Reported
<1> QED BY <1>2, Invariant, ReportedInvariant, PTL

-----------------------------------------------------------------------------
(* How the runs come to an end.                                              *)

(* What the driver has left to do: a run to start and to be done with.       *)
Left == 2 * (Runs - at) + IF driver = "waiting" THEN 1 ELSE 0

(* Whatever the driver does brings it nearer to its end.                     *)
Nearer ==
    /\ Left' <= Left
    /\ <<driver, at, result>>' # <<driver, at, result>> => Left' < Left

(* A driver that is not at its end has a run to start, or one to give up on: *)
(* the guards of Launch and of Timeout.                                      *)
GoesOn ==
    driver \notin {"done", "failed"} =>
        \E r \in RunIds : (driver = "ready" /\ r = at + 1) \/ Awaits(r)

ReadyIsShort == (driver = "ready" => at < Runs) /\ (driver = "waiting" => at \in RunIds)

LEMMA DriverMoves ==
    ASSUME TypeOK, ReadyIsShort, NEW r \in RunIds, Launch(r) \/ Collect(r) \/ Timeout(r)
    PROVE  ReadyIsShort' /\ Left \in Nat /\ Left' \in Nat /\ Left' < Left
<1>1. at \in Nat /\ at <= Runs /\ r \in Nat /\ r <= Runs /\ Runs \in Nat
  BY DEF TypeOK, RunIds
<1>2. CASE Launch(r)
  <2>1. driver = "ready" /\ at + 1 = r /\ at' = r
    BY <1>2 DEF Launch
  <2>2. /\ driver' \in {"waiting", "ready", "done", "failed"}
        /\ driver' = "ready" => r # Runs
    BY <1>2 DEF Launch, Settle, AfterRun
  <2> QED BY <1>1, <2>1, <2>2 DEF ReadyIsShort, Left, RunIds
<1>3. CASE Collect(r) \/ Timeout(r)
  <2>1. driver = "waiting" /\ at = r /\ at' = r
    BY <1>3 DEF Collect, Timeout, Awaits
  <2>2. /\ driver' \in {"ready", "done", "failed"}
        /\ driver' = "ready" => r # Runs
    BY <1>3 DEF Collect, Timeout, Settle, AfterRun
  <2> QED BY <1>1, <2>1, <2>2 DEF ReadyIsShort, Left
<1> QED BY <1>2, <1>3

LEMMA OthersWait ==
    ASSUME TypeOK, ReadyIsShort, UNCHANGED <<driver, at, result>>
    PROVE  ReadyIsShort' /\ Left \in Nat /\ Nearer
<1>1. Left' = Left
  BY DEF Left
<1>2. Left \in Nat
  BY DEF Left, TypeOK, RunIds
<1> QED BY <1>1, <1>2 DEF Nearer, ReadyIsShort

LEMMA NearerStep ==
    ASSUME TypeOK, ReadyIsShort, [Next]_vars PROVE ReadyIsShort' /\ Nearer
<1>1. CASE \E r \in RunIds : Launch(r) \/ Collect(r) \/ Timeout(r)
  BY <1>1, DriverMoves DEF Nearer
<1>2. CASE UNCHANGED vars \/ Finished \/ \E r \in RunIds : ShimSpawns(r) \/ BenchEnds(r) \/ ShimReturns(r)
  <2>1. UNCHANGED <<driver, at, result>>
    BY <1>2 DEF vars, Finished, ShimSpawns, BenchEnds, ShimReturns
  <2> QED BY <2>1, OthersWait
<1> QED BY <1>1, <1>2 DEF Next

LEMMA AlwaysShort == Spec => []ReadyIsShort
<1>1. Init => ReadyIsShort
  BY DEF Init, ReadyIsShort
<1> QED BY <1>1, NearerStep, RunsAreTyped, PTL DEF Spec

(* The part of DriverFinishes that is not about fairness: each thing the     *)
(* driver does is one of the 2 * Runs it has to do, and until it is at its   *)
(* end there is one that neither shim nor benchmark can keep from it -- the  *)
(* next run, or the timeout of the one it waits for (run_tests.py).          *)
THEOREM DriverRunsOut == Spec => []GoesOn /\ [](Left \in Nat) /\ [][Nearer]_vars
<1>1. ASSUME TypeOK, ReadyIsShort, driver \notin {"done", "failed"}
      PROVE  \E r \in RunIds : (driver = "ready" /\ r = at + 1) \/ Awaits(r)
  <2>1. CASE driver = "ready"
    <3>1. at + 1 \in RunIds
      BY <1>1, <2>1 DEF TypeOK, ReadyIsShort, RunIds
    <3> QED BY <2>1, <3>1
  <2>2. CASE driver = "waiting"
    BY <1>1, <2>2 DEF ReadyIsShort, Awaits
  <2> QED BY <1>1, <2>1, <2>2 DEF TypeOK
<1>2. TypeOK => Left \in Nat
  BY DEF TypeOK, Left, RunIds
<1>3. TypeOK /\ ReadyIsShort /\ [Next]_vars => Nearer
  BY NearerStep
<1>4. TypeOK /\ ReadyIsShort => GoesOn
  BY <1>1 DEF GoesOn
<1> QED BY <1>2, <1>3, <1>4, RunsAreTyped, AlwaysShort, PTL DEF Spec

-----------------------------------------------------------------------------
(* What the processes of a run come to.                                      *)

(* A process that has ended stays as it ended, and is not started again.     *)
EndsAreFinal ==
    \A r \in RunIds :
        /\ Ended(shim[r]) => shim'[r] = shim[r]
        /\ Ended(bench[r]) => bench'[r] = bench[r]
        /\ bench[r].is # "absent" => bench'[r].is # "absent"

THEOREM ProcessesEndOnce == Spec => [][EndsAreFinal]_vars
<1>1. ASSUME IInv, NEW r \in RunIds, Launch(r) PROVE EndsAreFinal
  <2>1. shim[r] = Is("absent") /\ bench' = bench
    BY <1>1 DEF Launch, IInv, Progress, TypeOK, RunIds
  <2>2. \A s \in RunIds \ {r} : shim'[s] = shim[s]
    BY <1>1 DEF Launch, IInv, TypeOK
  <2> QED BY <2>1, <2>2 DEF EndsAreFinal, Ended, Is
<1>2. ASSUME IInv, NEW r \in RunIds, ShimSpawns(r) PROVE EndsAreFinal
  <2>1. shim[r].is = "starting" /\ bench[r] = Is("absent")
    BY <1>2 DEF ShimSpawns, IInv, Progress
  <2>2. \A s \in RunIds \ {r} : shim'[s] = shim[s] /\ bench'[s] = bench[s]
    BY <1>2 DEF ShimSpawns, IInv, TypeOK
  <2> QED BY <2>1, <2>2 DEF EndsAreFinal, Ended, Is
<1>3. ASSUME IInv, NEW r \in RunIds, BenchEnds(r) PROVE EndsAreFinal
  <2>1. /\ bench[r].is = "running" /\ shim' = shim
        /\ \A s \in RunIds \ {r} : bench'[s] = bench[s]
    BY <1>3 DEF BenchEnds, IInv, TypeOK
  <2>2. bench'[r].is # "absent"
    BY <1>3 DEF BenchEnds, IInv, TypeOK
  <2> QED BY <2>1, <2>2 DEF EndsAreFinal, Ended
<1>4. ASSUME IInv, NEW r \in RunIds, ShimReturns(r) \/ Collect(r) \/ Timeout(r) PROVE EndsAreFinal
  <2>1. /\ bench' = bench
        /\ Ended(shim[r]) => shim' = shim
        /\ \A s \in RunIds \ {r} : shim'[s] = shim[s]
    BY <1>4 DEF ShimReturns, Collect, Timeout, Ended, IInv, TypeOK
  <2> QED BY <2>1 DEF EndsAreFinal
<1>5. IInv /\ [Next]_vars => [EndsAreFinal]_vars
  BY <1>1, <1>2, <1>3, <1>4 DEF Next, Finished
<1> QED BY <1>5, Invariant, PTL DEF Spec

(* A benchmark that runs though the driver waits for it no more is one whose *)
(* shim was killed, in a run that failed.                                    *)
LeftBehind ==
    \A r \in RunIds : bench[r].is = "running" /\ ~Awaits(r) =>
        result[r] = "FAIL" /\ shim[r] = [is |-> "signalled", code |-> Kill]

(* A shim that ended by itself has seen the end of its benchmark.            *)
ShimsOutlive ==
    \A r \in RunIds : bench[r].is = "running" =>
        \/ shim[r].is = "waiting"
        \/ result[r] = "FAIL" /\ shim[r] = [is |-> "signalled", code |-> Kill]

LEMMA OutliveStep == ASSUME IInv, Reported, ShimsOutlive, [Next]_vars PROVE ShimsOutlive'
<1>1. CASE UNCHANGED vars \/ Finished
  BY <1>1 DEF vars, Finished, ShimsOutlive
<1>2. ASSUME NEW r \in RunIds, Launch(r) PROVE ShimsOutlive'
  <2>1. bench[r] = Is("absent") /\ bench' = bench
    BY <1>2 DEF Launch, IInv, Progress, TypeOK, RunIds
  <2>2. \A s \in RunIds \ {r} : shim'[s] = shim[s] /\ result'[s] = result[s]
    BY <1>2 DEF Launch, Settle, IInv, TypeOK
  <2> QED BY <2>1, <2>2 DEF ShimsOutlive, Is
<1>3. ASSUME NEW r \in RunIds, ShimSpawns(r) PROVE ShimsOutlive'
  <2>1. /\ bench[r].is = "absent" /\ result' = result
        /\ \A s \in RunIds \ {r} : shim'[s] = shim[s] /\ bench'[s] = bench[s]
    BY <1>3 DEF ShimSpawns, IInv, Progress, TypeOK, Is
  <2>2. shim'[r].is = "waiting" \/ bench'[r] = bench[r]
    BY <1>3 DEF ShimSpawns, IInv, TypeOK, Is
  <2> QED BY <2>1, <2>2 DEF ShimsOutlive
<1>4. ASSUME NEW r \in RunIds, BenchEnds(r) PROVE ShimsOutlive'
  <2>1. /\ UNCHANGED <<shim, result>> /\ bench'[r].is # "running"
        /\ \A s \in RunIds \ {r} : bench'[s] = bench[s]
    BY <1>4 DEF BenchEnds, IInv, TypeOK
  <2> QED BY <2>1 DEF ShimsOutlive
<1>5. ASSUME NEW r \in RunIds, ShimReturns(r) \/ Collect(r) PROVE ShimsOutlive'
  <2>1. /\ bench' = bench /\ bench[r].is # "running"
        /\ \A s \in RunIds \ {r} : shim'[s] = shim[s] /\ result'[s] = result[s]
    BY <1>5 DEF ShimReturns, Collect, Settle, Ended, IInv, TypeOK
  <2> QED BY <2>1 DEF ShimsOutlive
<1>6. ASSUME NEW r \in RunIds, Timeout(r) PROVE ShimsOutlive'
  <2>1. /\ bench' = bench /\ result'[r] = "FAIL"
        /\ \A s \in RunIds \ {r} : shim'[s] = shim[s] /\ result'[s] = result[s]
    BY <1>6 DEF Timeout, Settle, IInv, TypeOK
  <2>2. bench[r].is = "running" => shim'[r] = [is |-> "signalled", code |-> Kill]
    BY <1>6 DEF Timeout, Ended, ShimsOutlive, IInv, TypeOK
  <2> QED BY <2>1, <2>2 DEF ShimsOutlive
<1> QED BY <1>1, <1>2, <1>3, <1>4, <1>5, <1>6 DEF Next

(* The shim's promise, noaslr.c: it does not end before its benchmark unless *)
(* it is killed, so that what the driver leaves running is the benchmark of  *)
(* a run it gave up on -- in either mode, the correctness suite's too.       *)
THEOREM OnlyTheKilledLeave == Spec => []LeftBehind
<1>1. Init => ShimsOutlive
  BY DEF Init, ShimsOutlive, Is
<1>2. Spec => []ShimsOutlive
  BY <1>1, OutliveStep, Invariant, ReportedInvariant, PTL DEF Spec
<1>3. IInv /\ ShimsOutlive => LeftBehind
  BY DEF IInv, Progress, ShimsOutlive, LeftBehind, Awaits
<1> QED BY <1>2, <1>3, Invariant, PTL
==============================================================================
