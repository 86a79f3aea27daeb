----------------------------- MODULE AuthProofs -----------------------------
(***************************************************************************)
(* Safety of logins and of outbound requests, for any number of            *)
(* connections to the callback server and any intervals, expiries and      *)
(* delays of the device flow.  The parts share nothing but the signal, so  *)
(* each has an inductive invariant of its own: what is true at each await  *)
(* of the browser flow (BrowserInv), what a sleep still owes to the        *)
(* interval (PauseInv), and what a request holds in each phase (HttpInv).  *)
(***************************************************************************)
EXTENDS Auth, TLAPS

-----------------------------------------------------------------------------
(* The browser flow. *)

\* A code is used once, after the future is settled, and the prompt's only when
\* the callback brought none; from the announcement to the finally clause the
\* server is listening, or was never bound.
BrowserInv ==
    /\ main \in {"off", "select", "bind"} => manual = "off"
    /\ main \in {"off", "select", "bind", "wait", "manual"} => used = "none"
    /\ main = "manual" => future = "absent"
    /\ main \in {"request", "body"} => used # "none"
    /\ main \in {"wait", "manual", "request", "body"} => server \in {"listening", "unbound"}
    /\ main = "closing" => server \in {"closing", "unbound"} /\ watcher # "polling" /\ promptSignal
    /\ manual \in {"off", "prompting"} => input = Browser!NoInput
    /\ used = "manual" => future = "absent" /\ manual \notin {"off", "prompting"}
    /\ result = "credential" => main \in {"closing", "done"}

BrowserSafe == Browser!TypeOK /\ Browser!RightCode /\ Browser!CleanedUp /\ BrowserInv

\* A login that has not begun, or never will, is safe.
LEMMA BrowserBegins ==
  ASSUME NEW where \in {"select", "off"}, Browser!InitAt(where)
  PROVE  BrowserSafe
<1> QED BY DEF BrowserSafe, BrowserInv, Browser!InitAt, Browser!TypeOK, Browser!RightCode,
               Browser!CleanedUp, Browser!NoInput, Browser!ParsedInputs

\* A step elsewhere may change the signal.
LEMMA BrowserRests ==
  ASSUME BrowserSafe, UNCHANGED browserVars, signal' \in BOOLEAN
  PROVE  BrowserSafe'
BY DEF browserVars, BrowserSafe, BrowserInv, Browser!TypeOK, Browser!RightCode,
       Browser!CleanedUp, Browser!NoInput, Browser!ParsedInputs

\* Every step of the browser flow keeps it safe.
LEMMA BrowserSteps ==
  ASSUME BrowserSafe, Browser!Next
  PROVE  BrowserSafe'
<1> USE DEF BrowserSafe, BrowserInv, Browser!TypeOK, Browser!RightCode, Browser!CleanedUp
<1>1. CASE Browser!Select
  BY <1>1 DEF Browser!Select
<1>2. CASE Browser!Bind
  BY <1>2 DEF Browser!Bind
<1>3. CASE Browser!WaitEnds
  <2> USE <1>3 DEF Browser!WaitEnds
  <2>1. CASE manual = "raised"
    BY <2>1 DEF Browser!Finish
  <2>2. CASE manual # "raised" /\ future = "code"
    BY <2>2 DEF Browser!Exchange, Browser!Finish
  <2>3. CASE manual # "raised" /\ future = "absent" /\ ~(input.code \/ input.state = "other")
    BY <2>3
  <2>4. CASE manual # "raised" /\ future = "absent" /\ (input.code \/ input.state = "other")
    <3>1. manual \notin {"off", "prompting"} /\ Browser!UseInput
      BY <2>4 DEF Browser!NoInput
    <3>2. CASE input.state = "other"
      BY <3>1, <3>2, <2>4 DEF Browser!UseInput, Browser!Finish
    <3>3. CASE input.state # "other" /\ input.code /\ signal
      BY <3>1, <3>3, <2>4 DEF Browser!UseInput, Browser!Exchange, Browser!Finish
    <3>4. CASE input.state # "other" /\ input.code /\ ~signal
      BY <3>1, <3>4, <2>4 DEF Browser!UseInput, Browser!Exchange
    <3> QED BY <2>4, <3>2, <3>3, <3>4
  <2> QED BY <2>1, <2>2, <2>3, <2>4
<1>4. CASE Browser!ManualEnds
  BY <1>4 DEF Browser!ManualEnds, Browser!Exchange, Browser!UseInput, Browser!Finish
<1>5. CASE Browser!RequestEnds
  BY <1>5 DEF Browser!RequestEnds, Browser!Finish
<1>6. CASE Browser!BodyEnds
  BY <1>6 DEF Browser!BodyEnds, Browser!Finish
<1>7. CASE Browser!CloseEnds
  BY <1>7 DEF Browser!CloseEnds
<1>8. CASE Browser!CancelLogin
  <2>1. CASE main = "closing"
    BY <1>8, <2>1 DEF Browser!CancelLogin
  <2>2. CASE main \in {"wait", "manual", "request", "body"}
    <3>1. /\ main' = "closing" /\ result' = "task_cancelled" /\ promptSignal' = TRUE
          /\ watcher' = IF watcher = "polling" THEN "cancelled" ELSE watcher
          /\ server' = IF server = "listening" THEN "closing" ELSE server
          /\ future' = IF main = "wait" /\ future = "open" THEN "cancelled" ELSE future
          /\ manual' = IF main = "manual" /\ manual = "prompting" THEN "raised" ELSE manual
          /\ UNCHANGED <<signal, conn, input, used>>
      BY <1>8, <2>2 DEF Browser!CancelLogin, Browser!Finish
    <3>2. Browser!TypeOK' /\ Browser!CleanedUp'
      BY <2>2, <3>1
    <3>3. Browser!RightCode' /\ BrowserInv'
      BY <2>2, <3>1
    <3> QED BY <3>2, <3>3
  <2> QED BY <1>8, <2>1, <2>2 DEF Browser!CancelLogin
<1>9. CASE Browser!WatcherFires
  BY <1>9 DEF Browser!WatcherFires, Browser!Settle
<1>10. CASE Browser!PromptEnds
  BY <1>10 DEF Browser!PromptEnds, Browser!Settle
<1>11. CASE Browser!Abort
  BY <1>11 DEF Browser!Abort
<1>12. ASSUME NEW c \in Conns, Browser!Connect(c) \/ Browser!Request(c) \/ Browser!Answered(c)
       PROVE  BrowserSafe'
  BY <1>12 DEF Browser!Connect, Browser!Request, Browser!Answered, Browser!Settle
<1> QED BY <1>1, <1>2, <1>3, <1>4, <1>5, <1>6, <1>7, <1>8, <1>9, <1>10, <1>11, <1>12
           DEF Browser!Next

-----------------------------------------------------------------------------
(* The device flow.  Sleeps are cut to whole milliseconds, of which every   *)
(* interval has a whole number.                                             *)

Whole(d) == Device!Floor(d) = d

\* A sleep that follows a poll lasts until the interval has passed since that
\* poll ended, or until less than a millisecond is left before the deadline.
PauseInv ==
    /\ poll \in {"auth", "start"} => begun = -1
    /\ poll = "loop" /\ begun >= 0 => now - ended >= interval \/ deadline - now < Milli
    /\ poll = "sleeping" /\ begun >= 0 =>
          now + left - ended >= interval \/ deadline - (now + left) < Milli

DeviceSafe == Device!TypeOK /\ Whole(interval) /\ PauseInv

\* Cutting takes off less than a millisecond, and nothing the second time.
LEMMA FloorIs ==
  ASSUME NEW d \in Nat
  PROVE  /\ Device!Floor(d) \in Nat /\ Device!Floor(d) <= d /\ d - Device!Floor(d) < Milli
         /\ Whole(Device!Floor(d))
<1>1. Milli \in Nat \ {0}
  BY LoginAssumption
<1> DEFINE k == d \div Milli
<1>2. k \in Nat /\ d = k * Milli + (d % Milli) /\ d % Milli \in 0..(Milli - 1)
  BY <1>1
<1>3. k * Milli \in Nat /\ (k * Milli) \div Milli = k
  BY <1>1, <1>2
<1> QED BY <1>1, <1>2, <1>3 DEF Device!Floor, Whole

\* Whole numbers of milliseconds are whole, and so are their sums.
LEMMA WholeIs ==
  ASSUME NEW d \in Nat, Whole(d)
  PROVE  Whole(d + Increment) /\ Whole(Minimum)
<1>1. Milli \in Nat \ {0} /\ Increment \in Nat /\ Minimum \in Nat
      /\ Increment % Milli = 0 /\ Minimum % Milli = 0
  BY LoginAssumption
<1> DEFINE j == Increment \div Milli
           k == d \div Milli
           n == Minimum \div Milli
<1>2. j \in Nat /\ Increment = j * Milli /\ n \in Nat /\ Minimum = n * Milli
  BY <1>1
<1>3. k \in Nat /\ d = k * Milli
  BY <1>1 DEF Whole, Device!Floor
<1>4. d + Increment = (k + j) * Milli
  BY <1>1, <1>2, <1>3
<1>5. ((k + j) * Milli) \div Milli = k + j /\ (n * Milli) \div Milli = n
  BY <1>1, <1>2, <1>3
<1> QED BY <1>1, <1>2, <1>3, <1>4, <1>5 DEF Whole, Device!Floor

\* What a sleep of d lasts.
LEMMA ScheduledIs ==
  ASSUME NEW d \in Nat
  PROVE  /\ Device!Scheduled(d) \in Nat /\ d - Device!Scheduled(d) < Milli
         /\ Whole(d) => Device!Scheduled(d) >= d
<1>1. Milli \in Nat \ {0}
  BY LoginAssumption
<1> QED BY <1>1, FloorIs DEF Device!Scheduled, Whole

\* An interval that is named is whole and not below the minimum.
LEMMA NamedInterval ==
  ASSUME NEW d \in Nat
  PROVE  LET i == Device!Larger(Minimum, Device!Floor(d))
         IN  i \in Nat /\ i >= Minimum /\ Whole(i)
<1>1. Minimum \in Nat /\ Milli \in Nat \ {0} /\ Whole(0)
  BY LoginAssumption DEF Whole, Device!Floor
<1>2. Whole(Minimum)
  BY <1>1, WholeIs
<1> QED BY <1>1, <1>2, FloorIs DEF Device!Larger

\* The device flow as it is before it is chosen.
LEMMA DeviceBegins ==
  ASSUME Device!Init
  PROVE  DeviceSafe
<1>1. /\ Minimum \in Nat /\ Milli \in Nat \ {0} /\ MaxSlow \in Nat /\ Whole(0)
  BY LoginAssumption DEF Whole, Device!Floor
<1>2. Whole(Minimum)
  BY <1>1, WholeIs
<1> QED BY <1>1, <1>2 DEF Device!Init, DeviceSafe, PauseInv, Device!TypeOK

\* A step elsewhere may change the signal.
LEMMA DeviceRests ==
  ASSUME DeviceSafe, UNCHANGED deviceVars, signal' \in BOOLEAN
  PROVE  DeviceSafe'
BY DEF deviceVars, DeviceSafe, PauseInv, Device!TypeOK, Whole, Device!Floor

\* Going to sleep after a poll that ended at `time', which is before the
\* deadline, or before the first poll.
LEMMA SleepSafe ==
  ASSUME NEW time \in Nat, NEW pause \in Nat, deadline' \in Nat, time < deadline', Whole(pause),
         Device!Sleep(time, pause), left \in Nat
  PROVE  /\ poll' \in {"sleeping", "done"} /\ left' \in Nat
         /\ answer' \in {answer, "cancelled"}
         /\ poll' = "sleeping" => \/ left' >= pause
                                  \/ deadline' - (time + left') < Milli
<1>1. Milli \in Nat \ {0}
  BY LoginAssumption
<1>2. CASE signal
  BY <1>2 DEF Device!Sleep, Device!Done
<1>3. CASE ~signal
  <2> DEFINE d == Device!Smaller(pause, deadline' - time)
  <2>1. PICK e \in Nat : e = deadline' - time
    <3>1. PICK end \in Nat : end = deadline'
      OBVIOUS
    <3>2. time < end
      BY <3>1
    <3>3. end - time \in Nat
      BY <3>2
    <3> QED BY <3>1, <3>3
  <2>2. d \in Nat /\ (d = pause \/ d = e)
    BY <2>1 DEF Device!Smaller
  <2>3. poll' = "sleeping" /\ answer' = answer /\ left' = Device!Scheduled(d)
    BY <1>3 DEF Device!Sleep
  <2> HIDE DEF d
  <2>4. /\ Device!Scheduled(d) \in Nat /\ d - Device!Scheduled(d) < Milli
        /\ Whole(d) => Device!Scheduled(d) >= d
    BY <2>2, ScheduledIs
  <2>5. CASE d = pause
    BY <2>3, <2>4, <2>5
  <2>6. CASE d = e
    <3>1. deadline' - (time + left') = d - left'
      BY <2>1, <2>3, <2>4, <2>6
    <3> QED BY <2>3, <2>4, <3>1
  <2> QED BY <2>2, <2>5, <2>6
<1> QED BY <1>2, <1>3

\* Every step of the device flow keeps it safe.
LEMMA DeviceSteps ==
  ASSUME DeviceSafe, Device!Next
  PROVE  DeviceSafe'
<1>1. /\ {Milli, Minimum, Increment, Slice} \subseteq Nat \ {0}
      /\ Intervals \subseteq Nat /\ Expiries \subseteq Nat
      /\ MaxDelay \in Nat /\ MaxSlow \in Nat
  BY LoginAssumption
<1>2. CASE Device!Authorize
  BY <1>2 DEF Device!Authorize, Device!Done, DeviceSafe, PauseInv, Device!TypeOK, Whole, Device!Floor
<1>3. CASE Device!Start
  <2>1. PICK expires \in Expiries, named \in Intervals, wait \in BOOLEAN :
           /\ deadline' = now + expires
           /\ interval' = Device!Larger(Minimum, Device!Floor(named))
           /\ IF wait /\ expires > 0 THEN Device!Sleep(now, interval')
              ELSE poll' = "loop" /\ UNCHANGED <<answer, left>>
    BY <1>3, Zenon DEF Device!Start
  <2>2. poll = "start" /\ UNCHANGED <<now, slow, signal, begun, ended>>
    BY <1>3 DEF Device!Start
  <2>3. interval' \in Nat /\ interval' >= Minimum /\ Whole(interval')
    BY <1>1, <2>1, NamedInterval
  <2>4. /\ now \in Nat /\ left \in Nat /\ begun = -1 /\ deadline' \in Nat
        /\ expires > 0 => now < deadline'
    BY <1>1, <2>1, <2>2 DEF DeviceSafe, PauseInv, Device!TypeOK
  <2>5. /\ poll' \in {"loop", "sleeping", "done"} /\ left' \in Nat
        /\ answer' \in {answer, "cancelled"}
    BY <2>1, <2>3, <2>4, SleepSafe
  <2>6. begun' \in -1..(deadline' - 1)
    <3>1. PICK end \in Nat : end = deadline'
      BY <2>4
    <3>2. -1 \in -1..(end - 1)
      OBVIOUS
    <3> QED BY <2>2, <2>4, <3>1, <3>2
  <2>7. Device!TypeOK'
    BY <2>2, <2>3, <2>4, <2>5, <2>6 DEF DeviceSafe, Device!TypeOK
  <2>8. PauseInv'
    BY <2>2, <2>4, <2>5 DEF PauseInv
  <2>9. Whole(interval)'
    BY <2>3 DEF Whole, Device!Floor
  <2> QED BY <2>7, <2>8, <2>9 DEF DeviceSafe
<1>4. CASE Device!Loop
  BY <1>1, <1>4 DEF Device!Loop, Device!Done, DeviceSafe, PauseInv, Device!TypeOK, Whole, Device!Floor
<1>5. CASE Device!PollEnds
  <2>1. PICK reply \in {"complete", "failed", "raised", "pending", "slow_down"},
             named \in Intervals \cup {0}, delay \in 0..MaxDelay :
           /\ reply = "slow_down" => slow < MaxSlow
           /\ now' = now + delay /\ ended' = now'
           /\ interval' = Device!NextInterval(reply, named)
           /\ slow' = IF reply = "slow_down" THEN slow + 1 ELSE slow
           /\ deadline' = deadline
           /\ IF reply \in {"complete", "failed"} THEN Device!Done(reply) /\ UNCHANGED left
              ELSE IF reply = "raised" THEN Device!Done(IF signal THEN "cancelled" ELSE "failed") /\ UNCHANGED left
              ELSE IF now' >= deadline THEN Device!Done("timed_out") /\ UNCHANGED left
              ELSE Device!Sleep(now', interval')
    BY <1>5, Zenon DEF Device!PollEnds
  <2>2. poll = "polling" /\ UNCHANGED <<signal, begun>>
    BY <1>5 DEF Device!PollEnds
  <2>3. interval' \in Nat /\ interval' >= Minimum /\ Whole(interval')
    <3>1. CASE reply = "slow_down" /\ named > 0
      BY <1>1, <2>1, <3>1, NamedInterval DEF Device!NextInterval
    <3>2. CASE reply = "slow_down" /\ ~(named > 0)
      <4>1. interval' = interval + Increment
        BY <2>1, <3>2 DEF Device!NextInterval
      <4> QED BY <1>1, <4>1, WholeIs DEF DeviceSafe, PauseInv, Device!TypeOK
    <3>3. CASE reply # "slow_down"
      BY <2>1, <3>3 DEF Device!NextInterval, DeviceSafe, PauseInv, Device!TypeOK
    <3> QED BY <3>1, <3>2, <3>3
  <2>4. /\ now \in Nat /\ now' \in Nat /\ left \in Nat /\ deadline' = deadline /\ deadline \in Nat
        /\ slow' \in 0..MaxSlow /\ ended' = now'
    BY <1>1, <2>1 DEF DeviceSafe, Device!TypeOK
  <2>5. /\ poll' \in {"sleeping", "done"} /\ left' \in Nat
        /\ answer' \in {answer, "cancelled", "complete", "failed", "timed_out"}
        /\ poll' = "sleeping" => left' >= interval' \/ deadline - (now' + left') < Milli
    <3>1. CASE reply \in {"complete", "failed", "raised"} \/ now' >= deadline
      BY <2>1, <2>4, <3>1 DEF Device!Done
    <3>2. CASE ~(reply \in {"complete", "failed", "raised"} \/ now' >= deadline)
      <4>1. Device!Sleep(now', interval') /\ now' < deadline'
        BY <2>1, <2>4, <3>2
      <4> QED BY <2>3, <2>4, <4>1, SleepSafe
    <3> QED BY <3>1, <3>2
  <2>6. Device!TypeOK'
    BY <2>2, <2>3, <2>4, <2>5 DEF DeviceSafe, Device!TypeOK
  <2>7. PauseInv'
    <3>1. PICK n \in Nat, l \in Nat, i \in Nat : n = now' /\ l = left' /\ i = interval'
      BY <2>3, <2>4, <2>5
    <3>2. l >= i => n + l - n >= i
      OBVIOUS
    <3>3. poll' = "sleeping" => n + l - ended' >= i \/ deadline' - (n + l) < Milli
      BY <2>4, <2>5, <3>1, <3>2
    <3> QED BY <2>5, <3>1, <3>3 DEF PauseInv
  <2>8. Whole(interval)'
    BY <2>3 DEF Whole, Device!Floor
  <2> QED BY <2>6, <2>7, <2>8 DEF DeviceSafe
<1>6. CASE Device!SleepStep
  <2>1. PICK delay \in 0..MaxDelay :
           /\ now' = now + Device!Smaller(Slice, left) + delay
           /\ left' = left - Device!Smaller(Slice, left)
           /\ IF signal THEN Device!Done("cancelled")
              ELSE poll' = (IF left' > 0 THEN "sleeping" ELSE "loop") /\ UNCHANGED answer
    BY <1>6, Zenon DEF Device!SleepStep
  <2>2. poll = "sleeping" /\ UNCHANGED <<deadline, interval, slow, signal, begun, ended>>
    BY <1>6 DEF Device!SleepStep
  <2>3. /\ now \in Nat /\ left \in Nat /\ deadline \in Nat /\ interval \in Nat
        /\ ended \in Int /\ ended <= now /\ ended >= -1 /\ Milli \in Nat
    BY <1>1 DEF DeviceSafe, Device!TypeOK
  <2>4. PICK n \in Nat, l \in Nat :
           now' = n /\ left' = l /\ n >= now /\ n + l >= now + left
    <3>1. PICK step \in Nat : step = Device!Smaller(Slice, left) /\ step <= left
      BY <1>1, <2>3 DEF Device!Smaller
    <3>2. /\ now + step + delay \in Nat /\ left - step \in Nat /\ now + step + delay >= now
          /\ (now + step + delay) + (left - step) >= now + left
      BY <1>1, <2>3, <3>1
    <3> QED BY <2>1, <3>1, <3>2
  <2>5. /\ poll' \in {"loop", "sleeping", "done"} /\ answer' \in {answer, "cancelled"}
        /\ poll' = "loop" => l = 0
    BY <2>1, <2>4 DEF Device!Done
  <2>6. Device!TypeOK'
    BY <2>2, <2>3, <2>4, <2>5 DEF DeviceSafe, Device!TypeOK
  <2>7. PauseInv'
    <3>1. begun >= 0 => now + left - ended >= interval \/ deadline - (now + left) < Milli
      BY <2>2 DEF DeviceSafe, PauseInv
    <3>2. begun >= 0 => n + l - ended >= interval \/ deadline - (n + l) < Milli
      BY <2>3, <2>4, <3>1
    <3>3. CASE poll' = "loop"
      <4>1. n + l = n
        BY <2>5, <3>3
      <4>2. begun >= 0 => n - ended >= interval \/ deadline - n < Milli
        BY <2>3, <3>2, <4>1
      <4> QED BY <2>2, <2>4, <3>3, <4>2 DEF PauseInv
    <3>4. CASE poll' # "loop"
      BY <2>2, <2>4, <2>5, <3>2, <3>4 DEF PauseInv
    <3> QED BY <3>3, <3>4
  <2>8. Whole(interval)'
    BY <2>2 DEF DeviceSafe, Whole, Device!Floor
  <2> QED BY <2>6, <2>7, <2>8 DEF DeviceSafe
<1>7. CASE Device!Abort
  BY <1>7 DEF Device!Abort, DeviceSafe, PauseInv, Device!TypeOK, Whole, Device!Floor
<1> QED BY <1>2, <1>3, <1>4, <1>5, <1>6, <1>7 DEF Device!Next, Device!Step

-----------------------------------------------------------------------------
(* Outbound requests. *)

\* What a request holds in each phase, and what its fate says of it.  A task
\* runs only while somebody waits for it; a response that nobody took is there
\* only for a caller that was cancelled.
HttpInv ==
    /\ wrapper \in {"login", "refresh"} /\ owned \in BOOLEAN /\ success \in BOOLEAN /\ abort \in BOOLEAN
    /\ phase # "over" => client = 0
    /\ request = "running" => phase = "sending"
    /\ body = "running" => phase = "reading"
    /\ phase \in {"off", "start"} => request = "off" /\ response = "none"
    /\ phase \in {"off", "start", "sending", "failing", "open"} => body = "off"
    /\ phase = "sending" => request \in {"running", "ended", "failed"}
    /\ phase \in {"open", "reading", "closing", "closing client"} => request = "ended"
    /\ phase = "failing" =>
          /\ fate \in {"aborted", "failed", "cancelled"}
          /\ request = "off" => fate = "aborted"
          /\ fate = "aborted" => abort
          /\ fate = "failed" => request = "failed"
    /\ request = "ended" /\ phase = "failing" => fate = "cancelled"
    /\ response = "open" => request = "ended"
    /\ phase \in {"closing", "closing client"} =>
          /\ fate \in {"aborted", "failed", "cancelled", "discarded", "text", "empty"}
          /\ fate = "aborted" => abort
          /\ fate = "text" => body = "ended"
          /\ fate = "empty" => body = "failed" /\ ~success
          /\ fate = "failed" => body = "failed"
    /\ phase = "closing client" => response = "closed"

HttpSafe == Http!HttpTypeOK /\ Http!ConnectionReleased /\ Http!OutcomeTrue /\ HttpInv

\* Before it is made, a request is safe.
LEMMA HttpBegins ==
  ASSUME NEW where \in {"start", "off"}, Http!InitAt(where)
  PROVE  HttpSafe
<1> USE DEF Http!InitAt
<1>1. Http!HttpTypeOK
  <2>1. phase \in {"start", "off"} /\ client \in 0..1
    OBVIOUS
  <2> QED BY <2>1 DEF Http!HttpTypeOK
<1>2. Http!ConnectionReleased
  BY DEF Http!ConnectionReleased
<1>3. Http!OutcomeTrue
  BY DEF Http!OutcomeTrue
<1>4. HttpInv
  BY DEF HttpInv
<1> QED BY <1>1, <1>2, <1>3, <1>4 DEF HttpSafe

\* It rests while the others move.
LEMMA HttpRests ==
  ASSUME HttpSafe, UNCHANGED requestVars
  PROVE  HttpSafe'
<1> USE DEF HttpSafe, requestVars
<1>1. Http!HttpTypeOK'
  BY DEF Http!HttpTypeOK
<1>2. Http!ConnectionReleased'
  BY DEF Http!ConnectionReleased
<1>3. Http!OutcomeTrue'
  BY DEF Http!OutcomeTrue
<1>4. HttpInv'
  BY DEF HttpInv
<1> QED BY <1>1, <1>2, <1>3, <1>4

\* Closing the client that post() made, and only that one.
LEMMA ClosedOnce ==
  ASSUME client = 0, client' = IF owned THEN client + 1 ELSE client
  PROVE  client' \in 0..1 /\ (owned => client' = 1) /\ (~owned => client' = 0)
<1>1. CASE owned
  BY <1>1
<1>2. CASE ~owned
  BY <1>2
<1> QED BY <1>1, <1>2

\* Every step of a request keeps it safe.
LEMMA HttpSteps ==
  ASSUME HttpSafe, Http!Next
  PROVE  HttpSafe'
<1> USE DEF HttpSafe, HttpInv, Http!HttpTypeOK, Http!ConnectionReleased, Http!OutcomeTrue
<1>1. CASE Http!Post
  BY <1>1 DEF Http!Post
<1>2. CASE Http!Sent
  BY <1>2 DEF Http!Sent
<1>3. CASE Http!SendFails
  BY <1>3 DEF Http!SendFails
<1>4. CASE Http!FailingCloses
  <2>1. /\ phase = "failing" /\ phase' = "over" /\ client = 0 /\ client \in 0..1
        /\ client' = IF owned THEN client + 1 ELSE client
        /\ UNCHANGED <<wrapper, owned, success, request, body, response, fate, abort>>
    BY <1>4 DEF Http!FailingCloses
  <2>2. Http!HttpTypeOK' /\ Http!ConnectionReleased' /\ HttpInv'
    BY <2>1
  <2>3. Http!OutcomeTrue'
    <3>1. outcome' \in {Http!Wrapped(fate), "cancelled"}
      BY <1>4 DEF Http!FailingCloses
    <3>2. CASE fate = "cancelled"
      BY <2>1, <3>1, <3>2 DEF Http!Wrapped
    <3>3. CASE fate # "cancelled" /\ wrapper = "refresh"
      BY <2>1, <3>1, <3>3 DEF Http!Wrapped
    <3>4. CASE fate # "cancelled" /\ wrapper = "login"
      BY <2>1, <3>1, <3>4 DEF Http!Wrapped
    <3> QED BY <3>2, <3>3, <3>4
  <2> QED BY <2>2, <2>3
<1>5. CASE Http!Text
  BY <1>5 DEF Http!Text
<1>6. CASE Http!Discard
  BY <1>6 DEF Http!Discard
<1>7. CASE Http!ReadEnds
  BY <1>7 DEF Http!ReadEnds
<1>8. CASE Http!CloseResponse
  BY <1>8 DEF Http!CloseResponse
<1>9. CASE Http!CloseClient
  <2>1. /\ phase = "closing client" /\ phase' = "over" /\ client = 0 /\ client \in 0..1
        /\ client' = IF owned THEN client + 1 ELSE client
        /\ outcome' \in {fate, "cancelled"}
        /\ UNCHANGED <<wrapper, owned, success, request, body, response, fate, abort>>
    BY <1>9 DEF Http!CloseClient
  <2>2. client' \in 0..1 /\ (owned => client' = 1) /\ (~owned => client' = 0)
    BY <2>1, ClosedOnce
  <2>3. Http!HttpTypeOK' /\ Http!ConnectionReleased'
    BY <2>1, <2>2
  <2>4. HttpInv'
    BY <2>1
  <2>5. Http!OutcomeTrue'
    BY <2>1
  <2> QED BY <2>3, <2>4, <2>5
<1>10. CASE Http!RequestEnds
  BY <1>10 DEF Http!RequestEnds
<1>11. CASE Http!BodyEnds
  BY <1>11 DEF Http!BodyEnds
<1>12. CASE Http!Abort
  <2>1. /\ abort' = TRUE
        /\ UNCHANGED <<phase, wrapper, owned, success, request, body, client, response, fate, outcome>>
    BY <1>12 DEF Http!Abort
  <2>2. Http!HttpTypeOK' /\ Http!ConnectionReleased'
    BY <2>1
  <2>3. Http!OutcomeTrue'
    BY <2>1
  <2>4. HttpInv'
    BY <2>1
  <2> QED BY <2>2, <2>3, <2>4
<1> QED BY <1>1, <1>2, <1>3, <1>4, <1>5, <1>6, <1>7, <1>8, <1>9, <1>10, <1>11, <1>12
           DEF Http!Next

-----------------------------------------------------------------------------
(* The parts together. *)

AuthInv == BrowserSafe /\ DeviceSafe /\ HttpSafe

\* Whichever part moves, all stay safe.
LEMMA AuthStep == AuthInv /\ [MCNext]_<<part, vars, storeVars, requestVars>> => AuthInv'
<1> SUFFICES ASSUME AuthInv, [MCNext]_<<part, vars, storeVars, requestVars>> PROVE AuthInv'
  OBVIOUS
<1>1. signal \in BOOLEAN
  BY DEF AuthInv, DeviceSafe, Device!TypeOK
<1>2. CASE UNCHANGED <<vars, requestVars>>
  BY <1>1, <1>2, BrowserRests, DeviceRests, HttpRests DEF AuthInv, vars
<1>3. CASE Http!Next /\ UNCHANGED vars
  BY <1>1, <1>3, BrowserRests, DeviceRests, HttpSteps DEF AuthInv, vars
<1>4. CASE Browser!Next /\ UNCHANGED deviceVars /\ UNCHANGED requestVars
  <2>1. BrowserSafe'
    BY <1>4, BrowserSteps DEF AuthInv
  <2>2. signal' \in BOOLEAN
    BY <2>1 DEF BrowserSafe, Browser!TypeOK
  <2> QED BY <1>4, <2>1, <2>2, DeviceRests, HttpRests DEF AuthInv
<1>5. CASE Device!Next /\ UNCHANGED browserVars /\ UNCHANGED requestVars
  <2>1. DeviceSafe'
    BY <1>5, DeviceSteps DEF AuthInv
  <2>2. signal' \in BOOLEAN
    BY <2>1 DEF DeviceSafe, Device!TypeOK
  <2> QED BY <1>5, <2>1, <2>2, BrowserRests, HttpRests DEF AuthInv
<1> QED BY <1>2, <1>3, <1>4, <1>5 DEF MCNext, Next

\* The invariants of all parts hold in every state.
LEMMA AuthInvariant == MCSpec => []AuthInv
<1>1. MCInit => AuthInv
  <2> SUFFICES ASSUME MCInit PROVE AuthInv
    OBVIOUS
  <2>1. BrowserSafe /\ DeviceSafe
    BY BrowserBegins, DeviceBegins DEF MCInit, Init, InitAt
  <2>2. HttpSafe
    BY HttpBegins DEF MCInit, Http!Init
  <2> QED BY <2>1, <2>2 DEF AuthInv
<1> QED BY <1>1, AuthStep, PTL DEF MCSpec

\* For any number of connections and any timing: the code a login exchanges is
\* the one of its own callback, or one pasted without a foreign state; nothing
\* of a login or of an outbound request is left once it is over (the finally
\* clauses of _login_browser and http_transport.py); and what is reported is
\* what happened.
THEOREM AuthIsSafe == MCSpec => []AuthSafe
<1>1. AuthInv => AuthSafe
  BY DEF AuthInv, BrowserSafe, DeviceSafe, HttpSafe, AuthSafe, LoginSafe
<1> QED BY <1>1, AuthInvariant, PTL

\* For any intervals, slow_down answers and delays the device flow polls no
\* sooner than the interval after the last poll ended, the millisecond before
\* the deadline excepted (poll_device_code_flow), and begins no poll once the
\* login was aborted.
THEOREM PollsArePolite == MCSpec => PolitePolls
<1>1. AuthInv /\ [MCNext]_<<part, vars, storeVars, requestVars>> =>
         /\ [poll = "loop" /\ poll' = "polling" /\ begun >= 0 =>
                now - ended >= interval \/ deadline - now < Milli]_(Device!vars)
         /\ [signal /\ poll # "polling" => begun' = begun]_(Device!vars)
  <2> SUFFICES ASSUME AuthInv, [MCNext]_<<part, vars, storeVars, requestVars>>
               PROVE  /\ poll = "loop" /\ begun >= 0 =>
                            now - ended >= interval \/ deadline - now < Milli
                      /\ signal /\ poll # "polling" => begun' = begun
    OBVIOUS
  <2>1. poll = "loop" /\ begun >= 0 => now - ended >= interval \/ deadline - now < Milli
    BY DEF AuthInv, DeviceSafe, PauseInv
  <2>2. Device!Next \/ UNCHANGED begun
    BY DEF MCNext, Next, vars, deviceVars
  <2>3. Device!Next /\ signal /\ poll # "polling" => begun' = begun
    BY DEF Device!Next, Device!Step, Device!Authorize, Device!Start, Device!Loop, Device!PollEnds,
           Device!SleepStep, Device!Abort, Device!Done
  <2> QED BY <2>1, <2>2, <2>3
<1> QED BY <1>1, AuthInvariant, PTL DEF MCSpec, PolitePolls, Device!PolitePolls, Device!AbortStopsPolling
=============================================================================
