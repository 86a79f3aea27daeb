----------------------------- MODULE DevicePoll -----------------------------
(***************************************************************************)
(* The device-code login: poll_device_code_flow() and abortable_sleep() of *)
(* auth/device_code.py with the poll() of auth/openai_codex_oauth.py.      *)
(* Time is counted in ticks, Milli of them to a millisecond, because       *)
(* delays are cut to whole milliseconds and the clock is not.  Intervals   *)
(* are finite: _start_device_auth() refuses the others; and there is a     *)
(* deadline: _login_device_code() always names one.                        *)
(***************************************************************************)
EXTENDS Integers

CONSTANTS
    Milli,      \* ticks per millisecond
    Minimum,    \* MINIMUM_INTERVAL_SECONDS, in ticks
    Increment,  \* SLOW_DOWN_INCREMENT_SECONDS, in ticks
    Intervals,  \* the intervals the caller and the server may name
    Expiries,   \* the values of expires_in_seconds
    Slice,      \* poll_interval_seconds of abortable_sleep()
    MaxDelay,   \* bound on what a sleep or a request takes longer
    MaxSlow     \* bound on the slow_down answers

VARIABLES
    pc,       \* "auth", "start", "loop", "polling", "sleeping" or "done"
    result,   \* how the flow ended
    now,      \* the clock
    deadline,
    interval,
    left,     \* what abortable_sleep() has still to sleep
    slow,     \* slow_down_responses
    signal,   \* is the login aborted?
    begun,    \* auxiliary: when the last poll began, -1 before the first
    ended     \* auxiliary: when the last poll ended

vars == <<pc, result, now, deadline, interval, left, slow, signal, begun, ended>>

\* _floor_to_whole_milliseconds()
Floor(delay) == (delay \div Milli) * Milli

Larger(a, b) == IF a > b THEN a ELSE b
Smaller(a, b) == IF a < b THEN a ELSE b

\* abortable_sleep() never sleeps less than a millisecond.
Scheduled(delay) == IF delay < Milli THEN Milli ELSE Floor(delay)

Init ==
    /\ pc = "auth" /\ result = "none" /\ now = 0
    /\ deadline = 0 /\ interval = Minimum /\ left = 0 /\ slow = 0
    /\ signal \in BOOLEAN /\ begun = -1 /\ ended = -1

Done(outcome) == pc' = "done" /\ result' = outcome

\* _start_device_auth(): a refusal, or an answer without the identifiers or
\* with an interval that is no finite number from 0 up, ends the login.
Authorize ==
    /\ pc = "auth"
    /\ \/ Done(IF signal THEN "cancelled" ELSE "failed")
       \/ pc' = "start" /\ UNCHANGED result
    /\ UNCHANGED <<now, deadline, interval, left, slow, signal, begun, ended>>

\* Mutant: the sleep uses the interval from before the answer.
SleepStale(time, pause) ==
    IF signal THEN Done("cancelled") /\ UNCHANGED left
    ELSE /\ pc' = "sleeping" /\ UNCHANGED result
         /\ left' = Scheduled(Smaller(interval, deadline' - time))

\* Sleep for the interval or until the deadline; the signal is looked at first.
Sleep(time, pause) ==
    IF signal THEN Done("cancelled") /\ UNCHANGED left
    ELSE /\ pc' = "sleeping" /\ UNCHANGED result
         /\ left' = Scheduled(Smaller(pause, deadline' - time))

\* The deadline and the first interval; the first poll may have to wait.
Start ==
    /\ pc = "start"
    /\ \E expires \in Expiries, named \in Intervals, wait \in BOOLEAN :
          /\ deadline' = now + expires
          /\ interval' = Larger(Minimum, Floor(named))
          /\ IF wait /\ expires > 0 THEN Sleep(now, interval')
             ELSE pc' = "loop" /\ UNCHANGED <<result, left>>
    /\ UNCHANGED <<now, slow, signal, begun, ended>>

\* The head of the while loop.
Loop ==
    /\ pc = "loop"
    /\ IF now >= deadline THEN Done("timed_out") /\ UNCHANGED begun
       ELSE IF signal THEN Done("cancelled") /\ UNCHANGED begun
       ELSE pc' = "polling" /\ begun' = now /\ UNCHANGED result
    /\ UNCHANGED <<now, deadline, interval, left, slow, signal, ended>>

\* What slow_down does to the interval; 0 when the server names none.
NextInterval(answer, named) ==
    IF answer # "slow_down" THEN interval
    ELSE IF named > 0 THEN Larger(Minimum, Floor(named))
    ELSE interval + Increment

\* The answer of the server, or a request that failed.
PollEnds ==
    /\ pc = "polling"
    /\ \E answer \in {"complete", "failed", "raised", "pending", "slow_down"},
          named \in Intervals \cup {0}, delay \in 0..MaxDelay :
          /\ answer = "slow_down" => slow < MaxSlow
          /\ now' = now + delay /\ ended' = now'
          /\ interval' = NextInterval(answer, named)
          /\ slow' = IF answer = "slow_down" THEN slow + 1 ELSE slow
          /\ deadline' = deadline
          /\ IF answer \in {"complete", "failed"} THEN Done(answer) /\ UNCHANGED left
             ELSE IF answer = "raised" THEN Done(IF signal THEN "cancelled" ELSE "failed") /\ UNCHANGED left
             ELSE IF now' >= deadline THEN Done("timed_out") /\ UNCHANGED left
             ELSE Sleep(now', interval')
    /\ UNCHANGED <<signal, begun>>

\* One slice of abortable_sleep(): at least as long as asked for.
SleepStep ==
    /\ pc = "sleeping"
    /\ LET step == Smaller(Slice, left)
       IN  \E delay \in 0..MaxDelay :
              /\ now' = now + step + delay
              /\ left' = left - step
              /\ IF signal THEN Done("cancelled")
                 ELSE pc' = (IF left' > 0 THEN "sleeping" ELSE "loop") /\ UNCHANGED result
    /\ UNCHANGED <<deadline, interval, slow, signal, begun, ended>>

Abort ==
    /\ ~signal /\ pc # "done"
    /\ signal' = TRUE
    /\ UNCHANGED <<pc, result, now, deadline, interval, left, slow, begun, ended>>

Step == Authorize \/ Start \/ Loop \/ PollEnds \/ SleepStep

Next == Step \/ Abort

Spec == Init /\ [][Next]_vars

-----------------------------------------------------------------------------

\* The types; the interval is never below the minimum, and no poll begins at
\* the deadline or later.
TypeOK ==
    /\ pc \in {"auth", "start", "loop", "polling", "sleeping", "done"}
    /\ result \in {"none", "complete", "failed", "cancelled", "timed_out"}
    /\ now \in Nat /\ deadline \in Nat
    /\ interval \in Nat /\ interval >= Minimum /\ left \in Nat /\ slow \in 0..MaxSlow
    /\ signal \in BOOLEAN /\ begun \in -1..(deadline - 1) /\ ended \in -1..now

\* RFC 8628: a poll begins no sooner than the interval after the last one ended,
\* slow_down included; only the last millisecond before the deadline, to which
\* sleeps are cut, may see an early one.
PolitePolls ==
    [][pc = "loop" /\ pc' = "polling" /\ begun >= 0 =>
          now - ended >= interval \/ deadline - now < Milli]_vars

\* At most one poll is made after the login was aborted: the one under way.
AbortStopsPolling == [][signal /\ pc # "polling" => begun' = begun]_vars

=============================================================================
