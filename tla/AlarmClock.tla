----------------------------- MODULE AlarmClock -----------------------------
(***************************************************************************)
(* The alarm clocks of the two boards: a clock of two words that are read  *)
(* one at a time, and an alarm of two words that are written one at a time *)
(* while the clock runs on.                                                *)
(*   "plic"  e310x: mtime and mtimecmp; the interrupt is pending while the *)
(*           clock has reached the alarm                                   *)
(*   "nvic"  stm32f4: TIM2 counts the low word and TIM5 the high word; the *)
(*           interrupt comes when TIM2 meets its compare register          *)
(***************************************************************************)
EXTENDS Integers

CONSTANTS
  Hals,       \* the boards, of "plic" and "nvic"
  Base,       \* the number of values of a word
  MaxTime     \* the last tick of the clock: a bound

ASSUME ClockAssumption ==
  /\ Base \in Nat /\ Base >= 2 /\ Base % 2 = 0
  /\ MaxTime \in Nat /\ MaxTime < Base * Base - 1

VARIABLES
  hal,        \* the board, one of Hals
  time,       \* the true time
  cmpLow, cmpHigh,   \* the compare registers
  flag,       \* the capture/compare flag of TIM2
  pc,
  at,         \* the argument of set_wakeup
  high, low,  \* the words that have been read
  begun, ticks,      \* when clock_ticks was called, and what it returned
  wanted,     \* the alarm the kernel waits for
  early       \* the kernel was woken before its alarm

vars == <<hal, time, cmpLow, cmpHigh, flag, pc, at, high, low, begun, ticks, wanted, early>>
registers == <<cmpLow, cmpHigh, flag>>
reading == <<high, low, begun, ticks>>

\* set_wakeup(None) sets the alarm to u64::MAX.
Never == Base * Base - 1
Alarms == 0 .. MaxTime \cup {Never}

Low(t) == t % Base
High(t) == t \div Base
Signed(w) == IF 2 * w < Base THEN w ELSE w - Base

\* The clock advances.  TIM2 sets its flag when it meets its compare register.
Tick ==
  /\ time < MaxTime
  /\ time' = time + 1
  /\ flag' = (flag \/ (hal = "nvic" /\ Low(time + 1) = cmpLow))
  /\ UNCHANGED <<hal, cmpLow, cmpHigh, pc, at, reading, wanted, early>>

-----------------------------------------------------------------------------
(* clock_ticks                                                             *)

ReadHigh ==
  /\ pc \in {"idle", "high"}
  /\ high' = High(time)
  /\ begun' = IF pc = "idle" THEN time ELSE begun
  /\ pc' = "low"
  /\ UNCHANGED <<hal, time, registers, at, low, ticks, wanted, early>>

ReadLow ==
  /\ pc = "low"
  /\ low' = Low(time)
  /\ pc' = "again"
  /\ UNCHANGED <<hal, time, registers, at, high, begun, ticks, wanted, early>>

\* Mutant: the high word is not read again.
ReadAgainNot ==
  /\ pc = "again"
  /\ ticks' = high * Base + low
  /\ pc' = "return"
  /\ UNCHANGED <<hal, time, registers, at, high, low, begun, wanted, early>>

\* The high word is read again, and the loop repeated when it has changed.
ReadAgain ==
  /\ pc = "again"
  /\ IF High(time) = high
     THEN ticks' = high * Base + low /\ pc' = "return"
     ELSE pc' = "high" /\ UNCHANGED ticks
  /\ UNCHANGED <<hal, time, registers, at, high, low, begun, wanted, early>>

Return ==
  /\ pc = "return"
  /\ pc' = "idle"
  /\ ticks' = 0 /\ high' = 0 /\ low' = 0 /\ begun' = 0
  /\ UNCHANGED <<hal, time, registers, at, wanted, early>>

-----------------------------------------------------------------------------
(* set_wakeup, with interrupts disabled                                    *)

SetWakeup ==
  /\ pc = "idle"
  /\ \E a \in Alarms : at' = a /\ wanted' = a
  /\ pc' = "write1"
  /\ UNCHANGED <<hal, time, registers, reading, early>>

\* Mutant: the words are swapped.
PlicWriteSwapped ==
  /\ hal = "plic"
  /\ \/ pc = "write1" /\ cmpHigh' = Base - 1 /\ UNCHANGED cmpLow /\ pc' = "write2"
     \/ pc = "write2" /\ cmpLow' = High(at) /\ UNCHANGED cmpHigh /\ pc' = "write3"
     \/ pc = "write3" /\ cmpHigh' = Low(at) /\ UNCHANGED cmpLow /\ pc' = "idle"
  /\ UNCHANGED <<hal, time, flag, at, reading, wanted, early>>

\* e310x: the high word is set to its maximum first, then the two words are written.
PlicWrite ==
  /\ hal = "plic"
  /\ \/ pc = "write1" /\ cmpHigh' = Base - 1 /\ UNCHANGED cmpLow /\ pc' = "write2"
     \/ pc = "write2" /\ cmpLow' = Low(at) /\ UNCHANGED cmpHigh /\ pc' = "write3"
     \/ pc = "write3" /\ cmpHigh' = High(at) /\ UNCHANGED cmpLow /\ pc' = "idle"
  /\ UNCHANGED <<hal, time, flag, at, reading, wanted, early>>

\* stm32f4: the words are written, and the counters read: first TIM5, then TIM2.  A
\* compare register that is written with the value of the counter matches.
NvicWrite ==
  /\ hal = "nvic"
  /\ \/ /\ pc = "write1" /\ cmpLow' = Low(at)
        /\ flag' = (flag \/ Low(time) = Low(at))
        /\ UNCHANGED cmpHigh /\ pc' = "write2"
     \/ pc = "write2" /\ cmpHigh' = High(at) /\ UNCHANGED <<cmpLow, flag>> /\ pc' = "read1"
  /\ UNCHANGED <<hal, time, at, reading, wanted, early>>

NvicReadHigh ==
  /\ pc = "read1"
  /\ high' = High(time)
  /\ pc' = "read2"
  /\ UNCHANGED <<hal, time, registers, at, low, begun, ticks, wanted, early>>

\* The interrupt is triggered when the alarm is found to have passed.
NvicTrigger ==
  /\ pc = "read2"
  /\ flag' = (flag \/ (high = High(at) /\ Low(time) > Low(at)) \/ high > High(at))
  /\ high' = 0
  /\ pc' = "idle"
  /\ UNCHANGED <<hal, time, cmpLow, cmpHigh, at, low, begun, ticks, wanted, early>>

-----------------------------------------------------------------------------
(* The interrupt                                                           *)

Pending == IF hal = "plic" THEN time >= cmpHigh * Base + cmpLow ELSE flag

\* The handler of TIM2 compares TIM5 with its compare register as signed words, and
\* ignores the interrupt when it is less; otherwise the kernel is woken.
Ignored == hal = "nvic" /\ Signed(High(time)) < Signed(cmpHigh)

\* The interrupt of the clock, up to the set_wakeup of the rescheduling: what has
\* not been reached yet is waited for again.
Interrupt ==
  /\ pc = "idle" /\ Pending
  /\ flag' = FALSE
  /\ IF Ignored THEN UNCHANGED <<at, wanted, early, pc>>
     ELSE /\ \E a \in Alarms : (time < wanted => a = wanted) /\ at' = a /\ wanted' = a
          /\ early' = (time < wanted)
          /\ pc' = "write1"
  /\ UNCHANGED <<hal, time, cmpLow, cmpHigh, reading>>

-----------------------------------------------------------------------------
Init ==
  /\ hal \in Hals
  /\ time = 0 /\ cmpLow = Low(Never) /\ cmpHigh = High(Never) /\ flag = FALSE
  /\ pc = "idle" /\ at = Never /\ wanted = Never /\ early = FALSE
  /\ high = 0 /\ low = 0 /\ begun = 0 /\ ticks = 0

Next ==
  \/ Tick \/ ReadHigh \/ ReadLow \/ ReadAgain \/ Return
  \/ SetWakeup \/ PlicWrite \/ NvicWrite \/ NvicReadHigh \/ NvicTrigger \/ Interrupt

Spec == Init /\ [][Next]_vars

-----------------------------------------------------------------------------
(* Properties                                                              *)

\* Type correctness: every register holds a word.
TypeOK ==
  /\ time \in 0 .. MaxTime /\ at \in Alarms /\ wanted \in Alarms
  /\ {cmpLow, cmpHigh, high, low} \subseteq 0 .. Base - 1
  /\ flag \in BOOLEAN /\ early \in BOOLEAN
  /\ begun \in 0 .. MaxTime /\ ticks \in Nat
  /\ pc \in {"idle", "high", "low", "again", "return", "write1", "write2", "write3",
             "read1", "read2"}

\* clock_ticks returns a time between its call and its return, however the low word
\* overflows in between (scars-khal: "Monotonously growing tick counter").
ClockExact == pc = "return" => begun <= ticks /\ ticks <= time

\* Once set_wakeup is done, the interrupt is pending as soon as the clock has reached
\* the alarm.
AlarmRingsOn(h) == hal = h /\ pc = "idle" /\ time >= wanted => Pending

\* The kernel is only woken when its alarm is due, and never when it has none.
NeverEarlyOn(h) == hal = h => ~early

\* The alarm of the e310x rings, although its two words are written one at a time while
\* the clock runs (set_wakeup: the high word is at its maximum in between).
AlarmRings == AlarmRingsOn("plic")

\* The alarm of the e310x never rings before it is due, not even while its words are
\* being written (set_wakeup; scars-khal: "If `at` is `None`, the wakeup is disabled").
NeverEarly == NeverEarlyOn("plic")

-----------------------------------------------------------------------------
(* What comments of the code promise and the code does not keep; see the   *)
(* README for the counterexamples.                                         *)

\* The alarm of the stm32f4 rings (set_wakeup: "If there was no overflow in tim5, but tim2
\* cnt is greater than compare_low, trigger interrupt").
Stm32AlarmRings == AlarmRingsOn("nvic")

\* The alarm of the stm32f4 never rings early (the handler of TIM2: "this interrupt from
\* TIM2 can be ignored"; the words are compared as signed numbers).
Stm32NeverEarly == NeverEarlyOn("nvic")
=============================================================================
