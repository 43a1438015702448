------------------------------ MODULE FreqProbe ------------------------------
(***************************************************************************)
(* The frequency probe, scripts/freqprobe.c: blocks of dependent adds, one *)
(* a cycle, until the clock says that the target duration is over; the     *)
(* adds made, divided by the time passed, is the frequency printed.        *)
(*                                                                         *)
(* Time is counted in cycles of the core, so that a frequency of 1 is the  *)
(* truth.  The clock advances once every Tick cycles, and the process may  *)
(* lose the core for a while between any two of its steps.  The width of   *)
(* the counters and the rounding of the doubles are left out: a run of     *)
(* seconds comes nowhere near either.  A negative duration is left out as  *)
(* well; with one the loop ends after the first block, which may be before *)
(* the clock has moved.                                                    *)
(***************************************************************************)
EXTENDS Naturals

CONSTANTS
    Block,      \* adds in a block, 16384
    Tick,       \* cycles between two ticks of the clock
    Targets,    \* durations that may be asked for, in ticks
    Endless,    \* what atof makes of "nan" and "inf"
    MaxStall,   \* bound on the cycles lost at once
    MaxNow      \* bound on the cycles of a run

ASSUME ProbeAssumption ==
    Block \in Nat \ {0} /\ Tick \in Nat \ {0} /\ Targets \subseteq Nat
    /\ MaxStall \in Nat /\ MaxNow \in Nat

VARIABLES
    target,     \* the duration asked for
    now,        \* cycles since the machine was started
    t0,         \* the clock when the loop was entered
    blocks,     \* blocks made
    pc,         \* "start", "adds", "clock" or "done"
    ns          \* time passed when the loop was left, in ticks

vars == <<target, now, t0, blocks, pc, ns>>

Clock(time) == time \div Tick

Init ==
    /\ target \in Targets \cup {Endless}
    /\ now \in 0 .. Tick - 1
    /\ t0 = 0
    /\ blocks = 0
    /\ pc = "start"
    /\ ns = 0

Takes(cycles) == \E stall \in 0 .. MaxStall : now' = now + cycles + stall

Start ==
    /\ pc = "start"
    /\ t0' = Clock(now)
    /\ pc' = "adds"
    /\ Takes(0)
    /\ UNCHANGED <<target, blocks, ns>>

Adds ==
    /\ pc = "adds"
    /\ now <= MaxNow
    /\ blocks' = blocks + 1
    /\ pc' = "clock"
    /\ Takes(Block)
    /\ UNCHANGED <<target, t0, ns>>

\* Mutants: reaching the target is enough; the loop waits for the exact moment.
Reached(elapsed) == target # Endless /\ elapsed >= target
Met(elapsed) == target # Endless /\ elapsed = target + 1

\* No comparison with a NaN is true, and no duration exceeds infinity.
Over(elapsed) == target # Endless /\ elapsed > target

ReadClock ==
    /\ pc = "clock"
    /\ LET elapsed == Clock(now) - t0
       IN  IF Over(elapsed) THEN pc' = "done" /\ ns' = elapsed
           ELSE pc' = "adds" /\ UNCHANGED ns
    /\ Takes(0)
    /\ UNCHANGED <<target, t0, blocks>>

\* The bound, and the end.
Stopped == (pc = "done" \/ (pc = "adds" /\ now > MaxNow)) /\ UNCHANGED vars

Next == Start \/ Adds \/ ReadClock \/ Stopped

\* The process gets the core again whenever it has lost it.
Spec == Init /\ [][Next]_vars /\ WF_vars(Start \/ Adds \/ ReadClock)

-----------------------------------------------------------------------------
(* Properties.                                                               *)

(* The frequency that is printed, blocks * Block / (ns * Tick), is a number, *)
(* even if no time was asked for, and exceeds the core's by less than a      *)
(* tick's share: time lost makes it smaller, and only the clock's grain can  *)
(* make it larger.                                                           *)
NeverOverstates == pc = "done" => ns > 0 /\ blocks * Block < (ns + 1) * Tick

(* The probe ends, unless it is asked for a duration that is none.            *)
ProbeEnds == <>(pc = "done" \/ target = Endless)
==============================================================================
