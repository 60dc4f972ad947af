---------------------------- MODULE ManualTime ----------------------------
(***************************************************************************)
(* ManualTimeProvider (manual_time_provider.rs): the virtual clock of the   *)
(* simulated networks.  Sleepers register a wake time in a heap; a driver   *)
(* jumps the clock to the earliest one and wakes whoever is due.  The       *)
(* integration tests run it on several threads, so that a poll, which reads *)
(* the clock and then registers under another lock, and a jump of the       *)
(* driver, interleave.                                                      *)
(***************************************************************************)
EXTENDS Naturals, FiniteSets

CONSTANTS Sleepers,     \* tasks that sleep
          Durations,    \* how long a sleep lasts
          MaxSleeps,    \* bound: sleeps of a task
          MaxJumps,     \* bound: explicit set_time calls
          ClockEnd      \* bound: the latest explicit time

ASSUME ManualTimeAssumption == Durations \subseteq Nat /\ ClockEnd \in Nat

VARIABLES
    clock,      \* current_time
    wakeTimes,  \* the heap: [time, waker] entries
    permit,     \* new_sleepers_notify holds a permit
    sleeper,    \* task -> [at, wake, slept]
    driver,     \* where run_all_sleepers_till_done is
    jumps

clockVars == <<clock, wakeTimes, permit, sleeper, driver, jumps>>

ManualTimeInit ==
    /\ clock = 0
    /\ wakeTimes = {}
    /\ permit = FALSE
    /\ sleeper = [s \in Sleepers |-> [at |-> "awake", wake |-> 0, slept |-> 0]]
    /\ driver = "look"
    /\ jumps = 0

\* sleep(duration): the wake time is fixed when the future is made; it is then polled.
Sleep(s, d) ==
    /\ sleeper[s].at = "awake"
    /\ sleeper[s].slept < MaxSleeps
    /\ sleeper' = [sleeper EXCEPT ![s] = [at |-> "poll", wake |-> clock + d, slept |-> @.slept + 1]]
    /\ UNCHANGED <<clock, wakeTimes, permit, driver, jumps>>

\* poll, first half: the clock is read.
Poll(s) ==
    /\ sleeper[s].at = "poll"
    /\ sleeper' = [sleeper EXCEPT ![s].at = IF clock >= sleeper[s].wake THEN "awake" ELSE "register"]
    /\ UNCHANGED <<clock, wakeTimes, permit, driver, jumps>>

\* MUTANT: a new sleeper does not tell the driver.
NotifyOneSilent == UNCHANGED permit

\* new_sleepers_notify.notify_one().
NotifyOne == permit' = TRUE

\* poll, second half: register_wake_time, whatever the clock shows by now.
RegisterWakeTime(s) ==
    /\ sleeper[s].at = "register"
    /\ wakeTimes' = wakeTimes \cup {[time |-> sleeper[s].wake, waker |-> s]}
    /\ NotifyOne
    /\ sleeper' = [sleeper EXCEPT ![s].at = "asleep"]
    /\ UNCHANGED <<clock, driver, jumps>>

\* waker.wake(): the task is polled again.
Woken(wakers) ==
    [s \in Sleepers |-> IF s \in wakers /\ sleeper[s].at = "asleep" THEN [sleeper[s] EXCEPT !.at = "poll"] ELSE sleeper[s]]

\* The entries that are due at a time, and their wakers.
DueAt(t) == {e \in wakeTimes : e.time <= t}

\* The driver's loop: with no sleepers it waits for a permit, else it yields and jumps.
DriverLooks ==
    /\ \/ driver = "look" /\ driver' = (IF wakeTimes = {} THEN "wait" ELSE "jump") /\ UNCHANGED permit
       \/ driver = "wait" /\ permit /\ permit' = FALSE /\ driver' = "jump"
    /\ UNCHANGED <<clock, wakeTimes, sleeper, jumps>>

\* MUTANT: the heap gives the latest entry (its order is not reversed).
NextWakeLatest == CHOOSE t \in {e.time : e \in wakeTimes} : \A e \in wakeTimes : e.time <= t

\* wake_times.peek() of the min-heap.
NextWake == CHOOSE t \in {e.time : e \in wakeTimes} : \A e \in wakeTimes : e.time >= t

\* advance_time_until_next_sleeper, under both locks.
AdvanceTimeUntilNextSleeper ==
    /\ driver = "jump"
    /\ driver' = "look"
    /\ \/ wakeTimes = {} /\ UNCHANGED <<clock, wakeTimes, sleeper>>
       \/ /\ wakeTimes # {}
          /\ clock' = NextWake
          /\ wakeTimes' = wakeTimes \ DueAt(NextWake)
          /\ sleeper' = Woken({e.waker : e \in DueAt(NextWake)})
    /\ UNCHANGED <<permit, jumps>>

\* set_time: an explicit jump.
SetTime(t) ==
    /\ jumps < MaxJumps
    /\ jumps' = jumps + 1
    /\ clock' = t
    /\ wakeTimes' = wakeTimes \ DueAt(t)
    /\ sleeper' = Woken({e.waker : e \in DueAt(t)})
    /\ UNCHANGED <<permit, driver>>

\* The driver waits and no task is being polled: the process sits there.
ClockRests ==
    /\ driver = "wait" /\ ~permit
    /\ \A s \in Sleepers : sleeper[s].at \in {"awake", "asleep"}
    /\ UNCHANGED clockVars

SleeperStep(s) == Poll(s) \/ RegisterWakeTime(s)

DriverStep == DriverLooks \/ AdvanceTimeUntilNextSleeper

ManualTimeNext ==
    \/ \E s \in Sleepers : SleeperStep(s) \/ \E d \in Durations : Sleep(s, d)
    \/ DriverStep
    \/ \E t \in 0 .. ClockEnd : SetTime(t)
    \/ ClockRests

ManualTimeFairness == WF_clockVars(DriverStep) /\ \A s \in Sleepers : WF_clockVars(SleeperStep(s))

ManualTimeSpec == ManualTimeInit /\ [][ManualTimeNext]_clockVars /\ ManualTimeFairness

---------------------------------------------------------------------------
\* Every sleep ends: no wake-up is lost between the poll's look at the clock, its
\* registration, the driver's look at the heap and its wait, nor by set_time.
SleepsEnd == []<>(\A s \in Sleepers : sleeper[s].at = "awake")

\* A jump of the driver passes over nobody: whoever it wakes was due exactly at the time
\* it jumped to, even a sleeper that registered after the clock had gone past.
WokenAtTheirTime ==
    [][driver = "jump" /\ driver' = "look"
         => \A e \in wakeTimes \ wakeTimes' : e.time = clock']_clockVars
===========================================================================
