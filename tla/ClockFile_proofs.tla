--------------------------- MODULE ClockFile_proofs ---------------------------
(***************************************************************************)
(* The clock file keeps its promises for every set of processes, every     *)
(* start and every set of amounts: it is never ahead of what was asked,    *)
(* and exact when calls do not overlap.                                    *)
(***************************************************************************)
EXTENDS ClockFile, TLAPS

\* Between any two steps of calls that do not overlap, at most one process is
\* writing, and what it has yet to write is the time asked for.
SerialInv ==
    serial /\ breaks = 0 =>
        /\ \A p, q \in Processes : step[p] # "idle" /\ step[q] # "idle" => p = q
        /\ \A p \in Processes : step[p] # "idle" => target[p] + extra[p] = Start + asked
        /\ (\A p \in Processes : step[p] = "idle") => ReadTime = Start + asked

ClockInv == ClockTypeOK /\ ClockNeverAhead /\ SerialInv

LEMMA ClockInvInit == ClockInit => ClockInv
  BY ClockAssumption DEF ClockInit, ClockInv, ClockTypeOK, ClockNeverAhead, SerialInv, ReadTime

\* What starting to write moment + more does, for any call that may start.
LEMMA WriteKeepsInv ==
    ASSUME NEW p \in Processes, NEW moment \in Nat, NEW more \in Nat,
           ClockInv, Free(p), BeginWrite(p, moment, more),
           asked' \in Nat, asked <= asked', breaks' \in 0..BreakCap,
           Start <= moment, moment + more <= Start + asked',
           serial /\ breaks' = 0 => breaks = 0 /\ moment + more = Start + asked'
    PROVE  ClockInv'
<1>1. ClockTypeOK'
  BY DEF ClockInv, ClockTypeOK, BeginWrite
<1>2. ClockNeverAhead'
  <2>1. ReadTime' = ReadTime
    BY DEF BeginWrite, ReadTime
  <2>2. ReadTime \in Nat
    BY ClockAssumption DEF ClockInv, ClockTypeOK, ReadTime
  <2>3. Start <= ReadTime' /\ ReadTime' <= Start + asked'
    BY <2>1, <2>2, ClockAssumption DEF ClockInv, ClockTypeOK, ClockNeverAhead
  <2>4. ASSUME NEW q \in Processes
        PROVE  Start <= target'[q] /\ target'[q] + extra'[q] <= Start + asked'
    BY <2>4, ClockAssumption DEF ClockInv, ClockTypeOK, ClockNeverAhead, BeginWrite
  <2> QED
    BY <2>3, <2>4 DEF ClockNeverAhead
<1>3. SerialInv'
  <2> SUFFICES ASSUME serial', breaks' = 0
               PROVE  /\ \A q, r \in Processes : step'[q] # "idle" /\ step'[r] # "idle" => q = r
                      /\ \A q \in Processes : step'[q] # "idle" =>
                             target'[q] + extra'[q] = Start + asked'
                      /\ (\A q \in Processes : step'[q] = "idle") => ReadTime' = Start + asked'
    BY DEF SerialInv
  <2>1. serial /\ \A q \in Processes : step[q] = "idle"
    BY DEF Free, BeginWrite
  <2>2. \A q \in Processes : step'[q] # "idle" <=> q = p
    BY <2>1 DEF ClockInv, ClockTypeOK, BeginWrite
  <2>3. target'[p] + extra'[p] = Start + asked'
    BY <2>1 DEF ClockInv, ClockTypeOK, BeginWrite
  <2> QED
    BY <2>2, <2>3
<1> QED
  BY <1>1, <1>2, <1>3 DEF ClockInv

LEMMA ClockInvNext == ClockInv /\ [ClockNext]_cvars => ClockInv'
<1> SUFFICES ASSUME ClockInv, [ClockNext]_cvars PROVE ClockInv'
  OBVIOUS
<1> USE ClockAssumption
<1>0. ReadTime \in Nat /\ asked \in Nat /\ breaks \in 0..BreakCap
  BY DEF ClockInv, ClockTypeOK, ReadTime
<1>1. ASSUME NEW p \in Processes, Now(p) PROVE ClockInv'
  <2>1. ReadTime = Start
    BY <1>1 DEF Now, ReadTime
  <2>2. serial /\ breaks = 0 => Start + 0 = Start + asked
    BY <1>0, <1>1, <2>1 DEF Now, Free, ClockInv, SerialInv
  <2> QED
    BY <1>0, <1>1, <2>2, WriteKeepsInv DEF Now
<1>2. ASSUME NEW p \in Processes, NEW delta \in Deltas, Advance(p, delta) PROVE ClockInv'
  <2>0. delta \in Nat
    OBVIOUS
  <2>1. serial /\ breaks = 0 => ReadTime = Start + asked
    BY <1>2 DEF Advance, Free, ClockInv, SerialInv
  <2>2. CASE file = <<>>
    <3>1. BeginWrite(p, Start, delta) /\ ReadTime = Start
      BY <1>2, <2>2 DEF Advance, ReadTime
    <3> QED
      BY <1>0, <1>2, <2>0, <2>1, <3>1, WriteKeepsInv DEF Advance
  <2>3. CASE file # <<>>
    <3>1. BeginWrite(p, ReadTime + delta, 0) /\ Start <= ReadTime /\ ReadTime <= Start + asked
      BY <1>2, <2>3 DEF Advance, ReadTime, ClockInv, ClockNeverAhead
    <3>2. asked' = asked + delta /\ breaks' = breaks /\ Free(p)
      BY <1>2 DEF Advance
    <3>3. ReadTime + delta \in Nat
      BY <1>0, <2>0
    <3>4. /\ Start <= ReadTime + delta
          /\ (ReadTime + delta) + 0 <= Start + asked'
          /\ serial /\ breaks' = 0 => breaks = 0 /\ (ReadTime + delta) + 0 = Start + asked'
      BY <1>0, <2>0, <2>1, <3>1, <3>2
    <3> QED
      BY <1>0, <2>0, <3>1, <3>2, <3>3, <3>4, WriteKeepsInv
  <2> QED
    BY <2>2, <2>3
<1>3. ASSUME NEW p \in Processes, Reset(p) PROVE ClockInv'
  BY <1>0, <1>3, WriteKeepsInv DEF Reset
<1>4. ASSUME NEW p \in Processes, Truncate(p) PROVE ClockInv'
  <2>1. ClockTypeOK'
    BY <1>4 DEF ClockInv, ClockTypeOK, Truncate
  <2>2. ClockNeverAhead'
    BY <1>0, <1>4 DEF ClockInv, ClockNeverAhead, ClockTypeOK, ReadTime, Truncate
  <2>3. SerialInv'
    <3>1. \A q \in Processes : step'[q] # "idle" <=> step[q] # "idle"
      BY <1>4 DEF ClockInv, ClockTypeOK, Truncate
    <3>2. step[p] # "idle"
      BY <1>4 DEF Truncate
    <3> QED
      BY <1>4, <3>1, <3>2 DEF ClockInv, SerialInv, Truncate
  <2> QED
    BY <2>1, <2>2, <2>3 DEF ClockInv
<1>5. ASSUME NEW p \in Processes, Put(p) PROVE ClockInv'
  <2>0. /\ ClockTypeOK /\ target[p] \in Nat /\ extra[p] \in Nat /\ step[p] = "cut"
        /\ Start <= target[p] /\ target[p] + extra[p] <= Start + asked
        /\ file' = <<target[p]>> /\ UNCHANGED <<serial, asked, breaks>>
    BY <1>5 DEF ClockInv, ClockTypeOK, ClockNeverAhead, Put
  <2>1. ClockTypeOK'
    <3>1. file'[1] \in Nat /\ file' = <<file'[1]>>
      BY <2>0
    <3>2. CASE extra[p] = 0
      BY <1>5, <2>0, <3>1, <3>2 DEF ClockTypeOK, Put
    <3>3. CASE extra[p] # 0
      <4>1. /\ step' = [step EXCEPT ![p] = "write"] /\ extra' = [extra EXCEPT ![p] = 0]
            /\ target' = [target EXCEPT ![p] = @ + extra[p]]
        BY <1>5, <3>3 DEF Put
      <4>2. target[p] + extra[p] \in Nat
        BY <2>0
      <4>3. target' \in [Processes -> Nat]
        BY <2>0, <4>1, <4>2 DEF ClockTypeOK
      <4>4. step' \in [Processes -> {"idle", "write", "cut"}] /\ extra' \in [Processes -> Nat]
        BY <2>0, <4>1 DEF ClockTypeOK
      <4> QED
        BY <2>0, <3>1, <4>3, <4>4 DEF ClockTypeOK
    <3> QED
      BY <3>2, <3>3
  <2>2. ClockNeverAhead'
    <3>1. ReadTime' = target[p]
      BY <2>0 DEF ReadTime
    <3>2. Start <= ReadTime' /\ ReadTime' <= Start + asked'
      BY <1>0, <2>0, <3>1
    <3>3. ASSUME NEW q \in Processes
          PROVE  Start <= target'[q] /\ target'[q] + extra'[q] <= Start + asked'
      <4>1. /\ target[q] \in Nat /\ extra[q] \in Nat
            /\ Start <= target[q] /\ target[q] + extra[q] <= Start + asked
        BY <3>3 DEF ClockInv, ClockTypeOK, ClockNeverAhead
      <4>2. CASE q # p
        <5>1. target'[q] = target[q] /\ extra'[q] = extra[q]
          BY <1>5, <2>0, <3>3, <4>2 DEF ClockTypeOK, Put
        <5> QED
          BY <2>0, <4>1, <5>1
      <4>3. CASE q = p /\ extra[p] = 0
        <5>1. target'[q] = Start /\ extra'[q] = 0
          BY <1>5, <2>0, <4>3 DEF ClockTypeOK, Put
        <5> QED
          BY <1>0, <2>0, <5>1
      <4>4. CASE q = p /\ extra[p] # 0
        <5>1. target'[q] = target[p] + extra[p] /\ extra'[q] = 0
          BY <1>5, <2>0, <4>4 DEF ClockTypeOK, Put
        <5> QED
          BY <1>0, <2>0, <5>1
      <4> QED
        BY <4>2, <4>3, <4>4
    <3> QED
      BY <3>2, <3>3 DEF ClockNeverAhead
  <2>3. SerialInv'
    <3> SUFFICES ASSUME serial, breaks = 0
                 PROVE  /\ \A q, r \in Processes : step'[q] # "idle" /\ step'[r] # "idle" => q = r
                        /\ \A q \in Processes : step'[q] # "idle" =>
                               target'[q] + extra'[q] = Start + asked
                        /\ (\A q \in Processes : step'[q] = "idle") => ReadTime' = Start + asked
      BY <1>5 DEF SerialInv, Put
    <3>1. /\ \A q \in Processes : step[q] # "idle" => q = p
          /\ target[p] + extra[p] = Start + asked
      BY <1>5 DEF ClockInv, SerialInv, Put
    <3>2. ReadTime' = target[p]
      BY <1>5 DEF Put, ReadTime
    <3>3. CASE extra[p] = 0
      <4>1. \A q \in Processes : step'[q] = "idle"
        BY <1>5, <3>1, <3>3 DEF Put, ClockInv, ClockTypeOK
      <4> QED
        BY <3>1, <3>2, <3>3, <4>1 DEF ClockInv, ClockTypeOK
    <3>4. CASE extra[p] # 0
      <4>1. \A q \in Processes : step'[q] # "idle" <=> q = p
        BY <1>5, <3>1, <3>4 DEF Put, ClockInv, ClockTypeOK
      <4>2. target'[p] + extra'[p] = Start + asked
        BY <1>5, <3>1, <3>4 DEF Put, ClockInv, ClockTypeOK
      <4> QED
        BY <4>1, <4>2
    <3> QED
      BY <3>3, <3>4
  <2> QED
    BY <2>1, <2>2, <2>3 DEF ClockInv
<1>6. ASSUME NEW p \in Processes, ClockCrash(p) PROVE ClockInv'
  <2>1. ClockTypeOK'
    BY <1>6 DEF ClockInv, ClockTypeOK, ClockCrash
  <2>2. ClockNeverAhead'
    BY <1>0, <1>6 DEF ClockInv, ClockNeverAhead, ClockTypeOK, ReadTime, ClockCrash
  <2>3. SerialInv'
    BY <1>0, <1>6 DEF SerialInv, ClockCrash
  <2> QED
    BY <2>1, <2>2, <2>3 DEF ClockInv
<1>7. CASE UNCHANGED cvars
  BY <1>7 DEF cvars, ClockInv, ClockTypeOK, ClockNeverAhead, SerialInv, ReadTime
<1> QED
  BY <1>1, <1>2, <1>3, <1>4, <1>5, <1>6, <1>7 DEF ClockNext, ClockStep

\* Every variable of the clock keeps its shape (core/clock.py).
THEOREM ClockTypeCorrect == ClockSpec => []ClockTypeOK
<1>1. ClockInv => ClockTypeOK
  BY DEF ClockInv
<1> QED
  BY ClockInvInit, ClockInvNext, <1>1, PTL DEF ClockSpec

\* However reads, writes, resets and deaths interleave, the clock is never before
\* its start and never ahead of the advances asked for (clock.py:42-80).
THEOREM ClockIsNeverAhead == ClockSpec => []ClockNeverAhead
<1>1. ClockInv => ClockNeverAhead
  BY DEF ClockInv
<1> QED
  BY ClockInvInit, ClockInvNext, <1>1, PTL DEF ClockSpec

\* Calls that do not overlap lose nothing: between them the file holds exactly the
\* start and all advances (clock.py:53-58), also when it was missing at first.
THEOREM ClockIsExact == ClockSpec => []ClockExact
<1>1. ClockInv => ClockExact
  BY DEF ClockInv, SerialInv, ClockExact
<1> QED
  BY ClockInvInit, ClockInvNext, <1>1, PTL DEF ClockSpec
=============================================================================
