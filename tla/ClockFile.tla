------------------------------ MODULE ClockFile ------------------------------
(***************************************************************************)
(* The virtual clock (core/clock.py): one file that the API's threads and  *)
(* the command line share without a lock.  Reading takes one step; writing *)
(* truncates the file and then fills it.  A file that is missing, empty or *)
(* cut short holds no time, and whoever reads it then writes the start     *)
(* into it, also when all it wanted was to look.                           *)
(*                                                                         *)
(* Times are clock steps since an epoch.  All times are written in the     *)
(* same number of characters, so two writes that overlap leave the later.  *)
(***************************************************************************)
EXTENDS Integers

CONSTANTS
    Processes,  \* threads and scripts that use the clock
    Start,      \* settings.virtual_clock_start
    Deltas,     \* amounts the clock is advanced by
    AskCap,     \* bound: all advances together
    BreakCap    \* bound: resets and deaths in the middle of a write

ASSUME ClockAssumption == Start \in Nat /\ Deltas \subseteq Nat \ {0} /\ AskCap \in Nat
                          /\ BreakCap \in Nat

VARIABLES
    serial,     \* whether clock calls and workflow runs never overlap
    file,       \* <<t>> when the file holds t, <<>> when it holds no time
    step,       \* where each process is in _write
    target,     \* the moment it writes
    extra,      \* what it adds to that moment by a second write
    asked,      \* history: all advances asked for
    breaks      \* history: resets and deaths in the middle of a write

cvars == <<serial, file, step, target, extra, asked, breaks>>

ClockInit ==
    /\ serial \in BOOLEAN
    /\ file \in {<<>>, <<Start>>}
    /\ step = [p \in Processes |-> "idle"]
    /\ target = [p \in Processes |-> Start]
    /\ extra = [p \in Processes |-> 0]
    /\ asked = 0
    /\ breaks = 0

\* A process that may call the clock now.
Free(p) == step[p] = "idle" /\ (serial => \A q \in Processes : step[q] = "idle")

\* The value of now(), whatever it writes.
ReadTime == IF file = <<>> THEN Start ELSE file[1]

BeginWrite(p, moment, more) ==
    /\ step'   = [step EXCEPT ![p] = "write"]
    /\ target' = [target EXCEPT ![p] = moment]
    /\ extra'  = [extra EXCEPT ![p] = more]
    /\ UNCHANGED <<serial, file>>

\* now(), when it is more than a read.
Now(p) ==
    /\ Free(p) /\ file = <<>>
    /\ BeginWrite(p, Start, 0)
    /\ UNCHANGED <<asked, breaks>>

\* advance(): now(), with its own write if need be, then the sum.
AdvanceBackwards(p, delta) ==           \* mutant of Advance: a delta below zero
    /\ Free(p) /\ asked + delta <= AskCap /\ file # <<>>
    /\ BeginWrite(p, file[1] - delta, 0)
    /\ asked' = asked + delta
    /\ UNCHANGED breaks
Advance(p, delta) ==
    /\ Free(p) /\ asked + delta <= AskCap
    /\ IF file = <<>> THEN BeginWrite(p, Start, delta)
                      ELSE BeginWrite(p, file[1] + delta, 0)
    /\ asked' = asked + delta
    /\ UNCHANGED breaks

Reset(p) ==
    /\ Free(p) /\ breaks < BreakCap
    /\ BeginWrite(p, Start, 0)
    /\ breaks' = breaks + 1
    /\ UNCHANGED asked

\* write_text opens the file, which empties it, and fills it.
Truncate(p) ==
    /\ step[p] = "write"
    /\ step' = [step EXCEPT ![p] = "cut"]
    /\ file' = <<>>
    /\ UNCHANGED <<serial, target, extra, asked, breaks>>

PutForgettingAdvance(p) ==              \* mutants of Put: an advance of an empty clock
    /\ step[p] = "cut"                  \* stops at its start; it is added twice
    /\ file' = <<target[p]>>
    /\ step' = [step EXCEPT ![p] = "idle"] /\ extra' = [extra EXCEPT ![p] = 0]
    /\ target' = [target EXCEPT ![p] = Start]
    /\ UNCHANGED <<serial, asked, breaks>>
PutAddingTwice(p) ==
    /\ step[p] = "cut"
    /\ file' = <<target[p] + extra[p]>>
    /\ IF extra[p] = 0
       THEN /\ step' = [step EXCEPT ![p] = "idle"] /\ UNCHANGED extra
            /\ target' = [target EXCEPT ![p] = Start]
       ELSE /\ step' = [step EXCEPT ![p] = "write"] /\ extra' = [extra EXCEPT ![p] = 0]
            /\ target' = [target EXCEPT ![p] = @ + 2 * extra[p]]
    /\ UNCHANGED <<serial, asked, breaks>>
Put(p) ==
    /\ step[p] = "cut"
    /\ file' = <<target[p]>>
    /\ IF extra[p] = 0
       THEN /\ step' = [step EXCEPT ![p] = "idle"] /\ UNCHANGED extra
            /\ target' = [target EXCEPT ![p] = Start]
       ELSE /\ step' = [step EXCEPT ![p] = "write"] /\ extra' = [extra EXCEPT ![p] = 0]
            /\ target' = [target EXCEPT ![p] = @ + extra[p]]
    /\ UNCHANGED <<serial, asked, breaks>>

\* The process dies before or between the two steps of a write.
ClockCrash(p) ==
    /\ step[p] # "idle" /\ breaks < BreakCap
    /\ step' = [step EXCEPT ![p] = "idle"]
    /\ target' = [target EXCEPT ![p] = Start]
    /\ extra' = [extra EXCEPT ![p] = 0]
    /\ breaks' = breaks + 1
    /\ UNCHANGED <<serial, file, asked>>

ClockStep(p) ==
    \/ Reset(p) \/ Truncate(p) \/ Put(p) \/ ClockCrash(p)
    \/ \E delta \in Deltas : Advance(p, delta)

ClockNext == \E p \in Processes : Now(p) \/ ClockStep(p)

ClockSpec == ClockInit /\ [][ClockNext]_cvars

(***************************************************************************)
(* Properties.                                                             *)
(***************************************************************************)
\* Every variable has its shape.
ClockTypeOK ==
    /\ serial \in BOOLEAN /\ breaks \in 0..BreakCap
    /\ file = <<>> \/ (file[1] \in Nat /\ file = <<file[1]>>)
    /\ step \in [Processes -> {"idle", "write", "cut"}]
    /\ target \in [Processes -> Nat]
    /\ extra \in [Processes -> Nat]
    /\ asked \in Nat

\* However readers, writers, resets and deaths interleave, simulation time is
\* never before its start and never later than all advances asked for: a lost
\* update or an empty file can delay a retry but never make one due early.
ClockNeverAhead ==
    /\ Start <= ReadTime /\ ReadTime <= Start + asked
    /\ \A p \in Processes : Start <= target[p] /\ target[p] + extra[p] <= Start + asked

\* When calls do not overlap and nothing was reset or died, the file holds
\* exactly the time asked for ("simulation timelines stay reproducible",
\* clock.py:3-5), between any two calls.
ClockExact ==
    serial /\ breaks = 0 /\ (\A p \in Processes : step[p] = "idle") => ReadTime = Start + asked
=============================================================================
