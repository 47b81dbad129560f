--------------------------------- MODULE Clock ---------------------------------
(***************************************************************************)
(* The system time (kernel/src/devices/clock): a hardware timer, HPET or   *)
(* PIT, the time stamp counter calibrated against it, and SystemTime, which *)
(* adds up the differences between readings of the best of them.           *)
(*                                                                         *)
(* "now" is the real time in ticks of the hardware timer.  The processor   *)
(* reaches the code through the APIC timer (tick_system_time), the time    *)
(* system calls, which tick too, and the interrupt of the PIT.             *)
(***************************************************************************)
EXTENDS Integers, Sequences

CONSTANTS NANOS_PER_SEC,
          TicksPerSec,      \* FEMTOS_PER_SEC / femtos_per_tick
          PitSize,          \* values of the 16-bit counter of the PIT
          CyclesPerTick,    \* time stamp counter cycles in a tick
          NS_SCALE,         \* 1 << NS_SCALE_SHIFT
          SleepNanos,       \* sleep_time of calibrate
          ApicPeriod,       \* longest time between two APIC timer interrupts
          StartTimes,       \* real time at boot
          MaxNow            \* bound: end of the modelled time

ClockAssumptions ==
    /\ {NANOS_PER_SEC, TicksPerSec, CyclesPerTick, NS_SCALE, SleepNanos} \subseteq Nat \ {0}
    /\ NANOS_PER_SEC >= TicksPerSec
    /\ StartTimes \subseteq Nat /\ MaxNow \in Nat
    \* a period of the PIT is 55 ms, the APIC timer is faster
    /\ ApicPeriod \in 1 .. PitSize - 1

NANOS_PER_TICK == NANOS_PER_SEC \div TicksPerSec

VARIABLES now,
          phase,    \* HPET: value of the counter at time 0
          hw,       \* "hpet" or "pit": the HardwareTimer
          pit,      \* the Pit: total_counter, last_counter; when it was started
          served,   \* interrupts of the PIT that have been served
          tsc,      \* the Tsc: start_time, nanos_per_cycle_scaled
          devices,  \* Clock.devices, best first
          system_time,
          panicked,
          sampled,  \* time of the last tick
          epoch,    \* history: when SystemTime was aligned with the RTC
          crossed   \* history: the timer began a second during the calibration

vars == <<now, phase, hw, pit, served, tsc, devices, system_time, panicked,
          sampled, epoch, crossed>>
--------------------------------------------------------------------------------
ClockTime(s, n) == [seconds |-> s, nanoseconds |-> n]
as_nanos(t) == t.seconds * NANOS_PER_SEC + t.nanoseconds
Time(nanos) == ClockTime(nanos \div NANOS_PER_SEC, nanos % NANOS_PER_SEC)

Borrow(t, u) == IF t.nanoseconds < u.nanoseconds THEN 1 ELSE 0

\* Sub for ClockTime; the subtraction of the seconds is checked in a debug build.
Sub(t, u) ==
    ClockTime(t.seconds - u.seconds - Borrow(t, u),
              t.nanoseconds + Borrow(t, u) * NANOS_PER_SEC - u.nanoseconds)
Underflows(t, u) == t.seconds < u.seconds + Borrow(t, u)

\* Add for ClockTime
Add(t, u) ==
    LET n == t.nanoseconds + u.nanoseconds
    IN  ClockTime(t.seconds + u.seconds + n \div NANOS_PER_SEC, n % NANOS_PER_SEC)

\* get_time of the HPET and of the PIT: a second is a whole number of ticks, the
\* rest is counted in ticks of whole nanoseconds.
TicksToTime(counter) ==
    ClockTime(counter \div TicksPerSec, (counter % TicksPerSec) * NANOS_PER_TICK)

\* The counter of the PIT counts down from PitSize and wraps.
read_counter(at) == (pit.start - at) % PitSize
get_elapsed(at) == (pit.last_counter - read_counter(at)) % PitSize
tick_total_counter(at) ==
    [pit EXCEPT !.total_counter = @ + get_elapsed(at), !.last_counter = read_counter(at)]

cycles_to_ns(cycles, scaled) == (cycles * scaled) \div NS_SCALE

HardwareTime(at) ==
    IF hw = "hpet" THEN TicksToTime(at + phase)
    ELSE TicksToTime(tick_total_counter(at).total_counter)
TscTime(t, at) ==
    Time(t.start_time + cycles_to_ns(at * CyclesPerTick, t.nanos_per_cycle_scaled))

get_time(dev, at) == IF dev = "tsc" THEN TscTime(tsc, at) ELSE HardwareTime(at)

\* A reading of the PIT updates its counters.
PitRead(dev, at) == IF dev = "pit" THEN tick_total_counter(at) ELSE pit

rating(dev) == CASE dev = "hpet" -> 50 [] dev = "pit" -> 40 [] dev = "tsc" -> 100
--------------------------------------------------------------------------------
Zero == ClockTime(0, 0)
NoDevice == "none"
NoTsc == [start_time |-> 0, nanos_per_cycle_scaled |-> 0]

\* Before clock::init: the counter of the HPET has any value.
Init ==
    /\ now \in StartTimes
    /\ phase \in 0 .. TicksPerSec - 1
    /\ hw = NoDevice
    /\ pit = [start |-> 0, total_counter |-> 0, last_counter |-> 0]
    /\ served = 0
    /\ tsc = NoTsc
    /\ devices = <<>>
    /\ system_time = [start_unix |-> 0, last_tick |-> Zero,
                      startup_offset |-> Zero, device |-> NoDevice]
    /\ panicked = FALSE /\ crossed = FALSE
    /\ sampled = 0 /\ epoch = 0

Up == Len(devices) = 2 \/ (Len(devices) = 1 /\ tsc # NoTsc)

\* add_device of the first device.  update_device waits with interrupts off for
\* the RTC to start a second and begins to count there.  A new Pit starts its
\* counter at the reload value.
AddHardwareTimer(dev) ==
    LET aligned == (now \div TicksPerSec + 1) * TicksPerSec
        first == IF dev = "hpet" THEN TicksToTime(aligned + phase)
                 ELSE TicksToTime((aligned - now) % PitSize)
    IN  /\ devices = <<>>
        /\ hw' = dev
        /\ devices' = <<dev>>
        /\ pit' = IF dev = "hpet" THEN pit
                  ELSE [start |-> now,
                        total_counter |-> (aligned - now) % PitSize,
                        last_counter |-> (now - aligned) % PitSize]
        /\ served' = IF dev = "hpet" THEN 0 ELSE (aligned - now) \div PitSize
        /\ system_time' = [start_unix |-> aligned \div TicksPerSec, last_tick |-> first,
                           startup_offset |-> Zero, device |-> dev]
        /\ now' = aligned /\ sampled' = aligned /\ epoch' = aligned
        /\ UNCHANGED <<phase, tsc, panicked, crossed>>

\* tick, at the time "at" and with the counters a reading leaves.
Ticked_KeepsLast(st, time) ==
    [st EXCEPT !.startup_offset = Add(@, Sub(time, st.last_tick))]

Ticked(st, time) ==
    [st EXCEPT !.startup_offset = Add(@, Sub(time, st.last_tick)), !.last_tick = time]

\* The other half of update_device: count up to the switch with the old device
\* and from there on with the new one.
update_device(st, time, dev, new_time) ==
    [Ticked(st, time) EXCEPT !.last_tick = new_time, !.device = dev]

\* calibrate: reads of both clocks before and after a sleep that polls the timer.
\* The latencies of the reads are below a tick.
CalibrationEnd ==
    LET Slept(at) == as_nanos(HardwareTime(at)) - as_nanos(HardwareTime(now)) >= SleepNanos
        Sleeps == {d \in 1 .. PitSize - 1 : Slept(now + d)}
    IN  now + (CHOOSE d \in Sleeps : \A e \in Sleeps : d <= e)

calibrate(end) ==
    LET ns_diff == as_nanos(HardwareTime(end)) - as_nanos(HardwareTime(now))
        scaled == (ns_diff * NS_SCALE) \div ((end - now) * CyclesPerTick)
    IN  [start_time |-> as_nanos(HardwareTime(now)) - cycles_to_ns(now * CyclesPerTick, scaled),
         nanos_per_cycle_scaled |-> scaled]

\* Tsc::new and add_device.  sort_unstable_by_key puts the best rating first.
AddTsc ==
    LET end == CalibrationEnd
        new == calibrate(end)
        sorted == IF rating("tsc") > rating(hw) THEN <<"tsc", hw>> ELSE <<hw, "tsc">>
    IN  /\ Len(devices) = 1 /\ tsc = NoTsc
        /\ tsc' = new
        /\ devices' = sorted
        /\ system_time' = IF sorted[1] = hw THEN system_time
                          ELSE update_device(system_time, HardwareTime(end), "tsc", TscTime(new, end))
        /\ pit' = PitRead(hw, end)
        /\ now' = end /\ sampled' = end
        /\ crossed' = (HardwareTime(now).seconds # HardwareTime(end).seconds)
        /\ UNCHANGED <<phase, hw, served, panicked, epoch>>

\* A processor without the counter keeps the hardware timer.
NoTscFound ==
    /\ Len(devices) = 1 /\ tsc = NoTsc
    /\ tsc' = [NoTsc EXCEPT !.start_time = -1]
    /\ UNCHANGED <<now, phase, hw, pit, served, devices, system_time, panicked,
                   sampled, epoch, crossed>>

\* tick_system_time, time_since_startup, time_since_unix_epoch
Tick ==
    LET dev == system_time.device
        time == get_time(dev, now)
    IN  /\ Up /\ ~panicked
        /\ IF Underflows(time, system_time.last_tick)
           THEN panicked' = TRUE /\ UNCHANGED system_time
           ELSE system_time' = Ticked(system_time, time) /\ UNCHANGED panicked
        /\ pit' = PitRead(dev, now)
        /\ sampled' = now
        /\ UNCHANGED <<now, phase, hw, served, tsc, devices, epoch, crossed>>

\* pit_interrupt, once for every wrap of the counter, at any later time
PitInterrupt ==
    /\ Up /\ hw = "pit"
    /\ served < (now - pit.start) \div PitSize
    /\ served' = served + 1
    /\ pit' = tick_total_counter(now)
    /\ UNCHANGED <<now, phase, hw, tsc, devices, system_time, panicked, sampled, epoch, crossed>>

\* Real time passes; the APIC timer interrupts at least every ApicPeriod.
Pass ==
    /\ Up
    /\ now < MaxNow
    /\ now < sampled + ApicPeriod
    /\ now' = now + 1
    /\ UNCHANGED <<phase, hw, pit, served, tsc, devices, system_time, panicked,
                   sampled, epoch, crossed>>

Next ==
    \/ \E dev \in {"hpet", "pit"} : AddHardwareTimer(dev)
    \/ AddTsc \/ NoTscFound
    \/ Tick \/ PitInterrupt \/ Pass

Spec == Init /\ [][Next]_vars
--------------------------------------------------------------------------------
\* nanoseconds a second has more than its ticks
Rest == NANOS_PER_SEC - TicksPerSec * NANOS_PER_TICK

\* Every reading of the system time gives the real time since the alignment: over
\* readings at any distance, wraps of the PIT, ends of seconds and the switch to
\* the time stamp counter it is never more than the rest of a second ahead, and
\* behind only by the fractions of the tick and of the scaled cycle that are cut
\* off.  Excepted is a calibration that met the end of a second of a timer with a
\* rest.  The subtraction in tick never underflows.  "The time is always
\* increasing" (book/src/kernel/clocks/index.md): neither a reading nor a change of
\* the device takes the system time back.
ClockIsRight ==
    [][LET e == now - epoch
           m == as_nanos(system_time'.startup_offset)
       IN  /\ m >= as_nanos(system_time.startup_offset)
           /\ Tick =>
               /\ ~panicked'
               /\ ~(crossed /\ Rest # 0) =>
                   /\ (m - Rest - 1) * TicksPerSec <= e * NANOS_PER_SEC
                   /\ m + 2 >= e * NANOS_PER_TICK - (e * CyclesPerTick) \div NS_SCALE]_vars
================================================================================
