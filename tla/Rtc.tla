---------------------------------- MODULE Rtc ----------------------------------
(***************************************************************************)
(* The real time clock (kernel/src/devices/clock/rtc.rs).  The chip counts *)
(* on its own: an update is announced by a bit of status register A, and   *)
(* while it lasts a register has its old or its new value.  The kernel     *)
(* reads the registers one by one until two rounds agree, decodes them and  *)
(* turns the date into seconds since 1970.                                 *)
(***************************************************************************)
EXTENDS Integers, Sequences, FiniteSetsExt

CONSTANTS Dates,        \* times the clock may show when it is read
          MaxUpdates    \* bound: updates during a read

RtcAssumptions ==
    /\ MaxUpdates \in Nat
    /\ \A d \in Dates : d.year \in 1970 .. 2037 /\ d.month \in 1 .. 12

\* Order in which get_time_sync reads the registers
Registers == <<"seconds", "minutes", "hours", "day_of_month", "month", "year", "century">>

VARIABLES time,       \* chip: the time it shows
          next,       \* chip: the time after the update
          updating,   \* chip: the update bit of status A
          unix,       \* history: seconds since 1970 at the chip's time
          updates,
          format,     \* chip: BCD or binary, 12 or 24 hours, a century register
          pc,         \* get_time_sync: "wait" for the update bit, "read", "done"
          reg,        \* the next register to read
          t, t_new,   \* the two rounds
          called      \* history: unix when the read began

vars == <<time, next, updating, unix, updates, format, pc, reg, t, t_new, called>>
--------------------------------------------------------------------------------
(* The chip (external) *)

IsLeap(y) == y % 4 = 0 /\ (y % 100 # 0 \/ y % 400 = 0)
DaysIn(m, y) == CASE m = 2 -> IF IsLeap(y) THEN 29 ELSE 28
                  [] m \in {4, 6, 9, 11} -> 30
                  [] OTHER -> 31

\* The second after d
NextSecond(d) ==
    LET s == d.seconds = 59
        mi == s /\ d.minutes = 59
        h == mi /\ d.hours = 23
        da == h /\ d.day_of_month = DaysIn(d.month, d.year)
        mo == da /\ d.month = 12
        Step(carry, wraps, first, value) ==
            IF wraps THEN first ELSE IF carry THEN value + 1 ELSE value
    IN  [seconds |-> Step(TRUE, s, 0, d.seconds),
         minutes |-> Step(s, mi, 0, d.minutes),
         hours |-> Step(mi, h, 0, d.hours),
         day_of_month |-> Step(h, da, 1, d.day_of_month),
         month |-> Step(da, mo, 1, d.month),
         year |-> IF mo THEN d.year + 1 ELSE d.year]

\* Seconds since 1970 by counting the days of years and months
CountedSeconds(d) ==
    LET years == MapThenSumSet(LAMBDA y : IF IsLeap(y) THEN 366 ELSE 365, 1970 .. d.year - 1)
        months == MapThenSumSet(LAMBDA m : DaysIn(m, d.year), 1 .. d.month - 1)
    IN  (((years + months + d.day_of_month - 1) * 24 + d.hours) * 60 + d.minutes) * 60 + d.seconds

Encoded(n) == IF format.bcd THEN (n \div 10) * 16 + (n % 10) ELSE n

\* What a register holds for the time d
RegisterOf(r, d) ==
    CASE r = "hours" /\ format.half ->
            Encoded(((d.hours + 11) % 12) + 1) + (IF d.hours >= 12 THEN 128 ELSE 0)
      [] r = "year" -> Encoded(d.year % 100)
      [] r = "century" -> Encoded(d.year \div 100)
      [] OTHER -> Encoded(d[r])

StartUpdate ==
    /\ ~updating
    /\ updates < MaxUpdates
    /\ updating' = TRUE
    /\ UNCHANGED <<time, next, unix, updates, format, pc, reg, t, t_new, called>>

FinishUpdate ==
    /\ updating
    /\ updating' = FALSE
    /\ time' = next
    /\ next' = NextSecond(next)
    /\ unix' = unix + 1
    /\ updates' = updates + 1
    /\ UNCHANGED <<format, pc, reg, t, t_new, called>>
--------------------------------------------------------------------------------
(* The driver *)

\* RtcTime::default() and a century of 0
NoTime == [r \in {Registers[i] : i \in 1 .. 7} |-> 0]

Init ==
    /\ time \in Dates
    /\ next = NextSecond(time)
    /\ updating \in BOOLEAN
    /\ unix = CountedSeconds(time)
    /\ updates = 0
    /\ format \in [bcd : BOOLEAN, half : BOOLEAN, century_reg : BOOLEAN]
    /\ ~format.century_reg => time.year \in 2000 .. 2099
    /\ pc = "wait" /\ reg = 1
    /\ t = NoTime /\ t_new = NoTime
    /\ called = unix

\* Leave "while self.is_updating() {}".
is_updating ==
    /\ pc = "wait"
    /\ ~updating
    /\ pc' = "read" /\ reg' = 1 /\ t_new' = t
    /\ UNCHANGED <<time, next, updating, unix, updates, format, t, called>>

Rounds == IF format.century_reg THEN 7 ELSE 6

read_register ==
    /\ pc = "read" /\ reg <= Rounds
    /\ \E d \in IF updating THEN {time, next} ELSE {time} :
            t_new' = [t_new EXCEPT ![Registers[reg]] = RegisterOf(Registers[reg], d)]
    /\ reg' = reg + 1
    /\ UNCHANGED <<time, next, updating, unix, updates, format, pc, t, called>>

\* The end of a round: done when it is equal to the one before.
CompareRounds_Once ==
    /\ pc = "read" /\ reg > Rounds
    /\ pc' = "done"
    /\ t' = t_new
    /\ UNCHANGED <<time, next, updating, unix, updates, format, reg, t_new, called>>

CompareRounds ==
    /\ pc = "read" /\ reg > Rounds
    /\ pc' = IF t_new = t THEN "done" ELSE "wait"
    /\ t' = t_new
    /\ UNCHANGED <<time, next, updating, unix, updates, format, reg, t_new, called>>

Next == StartUpdate \/ FinishUpdate \/ is_updating \/ read_register \/ CompareRounds
Spec == Init /\ [][Next]_vars
--------------------------------------------------------------------------------
FromBcd(n) == (n % 16) + (n \div 16) * 10
Pm(h) == h >= 128

\* The decoding in get_time; the bit for the afternoon is kept while the digits
\* are decoded.
get_time(raw) ==
    LET Decode(n) == IF format.bcd THEN FromBcd(n) ELSE n
        h == Decode(raw.hours % 128)
    IN  [seconds |-> Decode(raw.seconds),
         minutes |-> Decode(raw.minutes),
         hours |-> IF Pm(raw.hours) THEN (h + 12) % 24 ELSE h,
         day_of_month |-> Decode(raw.day_of_month),
         month |-> Decode(raw.month),
         year |-> Decode(raw.year)
                    + 100 * (IF format.century_reg THEN Decode(raw.century) ELSE 20)]

DAYS_PER_MONTH_ARRAY == <<0, 31, 59, 90, 120, 151, 181, 212, 243, 273, 304, 334>>
UNIX_EPOCH_IN_DAYS == 719162    \* UNIX_EPOCH_IN_SECONDS / SECONDS_PER_DAY

\* The code adds up seconds in a u64 and subtracts the epoch at the end; the days
\* of the epoch are subtracted first here.
seconds_since_unix_epoch(d) ==
    LET is_year_leap == d.month > 2 /\ d.year % 4 = 0 /\ (d.year % 100 # 0 \/ d.year % 400 = 0)
        last_year == d.year - 1
        days_in_last_years ==
            last_year * 365 + last_year \div 4 - last_year \div 100 + last_year \div 400
        this_year_days ==
            DAYS_PER_MONTH_ARRAY[d.month] + d.day_of_month - (IF is_year_leap THEN 0 ELSE 1)
    IN  (days_in_last_years + this_year_days - UNIX_EPOCH_IN_DAYS) * 86400
            + d.hours * 3600 + d.minutes * 60 + d.seconds
--------------------------------------------------------------------------------
\* A 12-hour clock shows 12 for the hour after midnight and the hour after noon;
\* get_time takes the one for the other.
TwelveOClock(raw) == format.half /\ (IF format.bcd THEN FromBcd(raw.hours % 128)
                                     ELSE raw.hours % 128) = 12

\* The time the kernel starts from is one the chip had during the call, to the
\* second, whatever update falls between two register reads: no mixture of old
\* and new registers is accepted, and the date arithmetic agrees with counting
\* days across ends of months, leap days, years and centuries.
RtcIsRight ==
    pc = "done" /\ ~TwelveOClock(t) =>
        seconds_since_unix_epoch(get_time(t)) \in called .. unix
================================================================================
