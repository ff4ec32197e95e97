--------------------------- MODULE DevicePollProofs ---------------------------
(***************************************************************************)
(* Proofs about DevicePoll, for every interval, expiry, timeout and        *)
(* lateness: everything but its termination, and for that how long it may  *)
(* take.                                                                   *)
(***************************************************************************)
EXTENDS DevicePoll, TLAPS

\* The interval never falls below what the backend has asked for, and a sleep
\* lasts it.  At the head of the loop no time has passed since the last answer.
IntervalInv ==
  /\ PollTypeOK
  /\ interval >= MinInterval
  /\ interval >= first + slow * SlowDown
  /\ interval >= retry
  /\ pc = "top" => now = heard
  /\ pc = "sleep" => wake >= heard + interval

\* Each request so far took an interval, and so will the next one.
CountInv ==
  /\ PollsBounded
  /\ pc = "sleep" => polls * MinInterval + MinInterval <= wake

\* Only a sleep that ends before the deadline is followed by a request.
DeadlineInv ==
  /\ NoLateToken
  /\ InTime
  /\ pc = "sleep" => wake < deadline /\ now <= wake + Lateness
  /\ pc = "last" => wake = deadline /\ now <= wake + Lateness
  /\ pc \in {"request", "body"} => now <= wake

\* The product of slow_down's increment, one more time.
LEMMA OneMore ==
  ASSUME NEW m \in Nat, NEW n \in Nat
  PROVE  (m + 1) * n = m * n + n /\ m * n \in Nat
  OBVIOUS

LEMMA IntervalInit == PollInit => IntervalInv
  <1> SUFFICES ASSUME PollInit PROVE IntervalInv
    OBVIOUS
  <1>1. first \in Nat /\ deadline \in Nat /\ interval \in Nat
        /\ interval >= first /\ interval >= MinInterval
    BY DevicePollAssumption DEF PollInit, Larger
  <1>2. slow * SlowDown = 0
    BY DevicePollAssumption DEF PollInit
  <1> QED BY <1>1, <1>2, DevicePollAssumption
          DEF PollInit, IntervalInv, PollTypeOK, Return

LEMMA IntervalStep == IntervalInv /\ [PollNext]_pollVars => IntervalInv'
  <1> SUFFICES ASSUME IntervalInv, [PollNext]_pollVars PROVE IntervalInv'
    OBVIOUS
  <1> USE DevicePollAssumption DEF IntervalInv, PollTypeOK
  <1>1. CASE Top
    BY <1>1 DEF Top, Return
  <1>2. CASE LastSleepEnds
    BY <1>2 DEF LastSleepEnds, Return
  <1>3. CASE Send
    BY <1>3 DEF Send
  <1>4. CASE RequestFails
    BY <1>4 DEF RequestFails, Return
  <1>5. CASE TooManyRequests
    <2>1. CASE UNCHANGED <<interval, retry>>
      BY <1>5, <2>1 DEF TooManyRequests
    <2>2. ASSUME NEW r \in RetryAfters,
                 interval' = Larger(Larger(r, interval), MinInterval),
                 retry' = Larger(retry, r)
          PROVE  IntervalInv'
      <3>1. interval' \in Nat /\ retry' \in Nat /\ interval' >= interval
            /\ interval' >= retry'
        <4>1. r \in Nat
          OBVIOUS
        <4>2. Larger(r, interval) \in Nat /\ Larger(r, interval) >= r
              /\ Larger(r, interval) >= interval
          BY <4>1 DEF Larger
        <4>3. interval' \in Nat /\ interval' >= Larger(r, interval)
          BY <2>2, <4>2 DEF Larger
        <4>4. retry' \in Nat /\ (retry' = r \/ retry' = retry)
          BY <2>2, <4>1 DEF Larger
        <4> QED BY <4>1, <4>2, <4>3, <4>4
      <3>2. slow * SlowDown \in Nat
        BY OneMore
      <3> QED BY <1>5, <3>1, <3>2 DEF TooManyRequests
    <2> QED BY <1>5, <2>1, <2>2 DEF TooManyRequests
  <1>6. CASE Headers
    BY <1>6 DEF Headers
  <1>7. CASE Body
    BY <1>7 DEF Body, Return
  <1>8. CASE Pending
    <2>1. CASE UNCHANGED <<interval, slow>>
      BY <1>8, <2>1 DEF Pending
    <2>2. CASE interval' = interval + SlowDown /\ slow' = slow + 1
      <3>1. slow' * SlowDown = slow * SlowDown + SlowDown /\ slow * SlowDown \in Nat
        BY <2>2, OneMore
      <3> QED BY <1>8, <2>2, <3>1 DEF Pending
    <2> QED BY <1>8, <2>1, <2>2 DEF Pending
  <1>9. CASE Tick
    BY <1>9 DEF Tick
  <1>10. CASE UNCHANGED pollVars
    BY <1>10 DEF pollVars
  <1> QED BY <1>1, <1>2, <1>3, <1>4, <1>5, <1>6, <1>7, <1>8, <1>9, <1>10
          DEF PollNext

\* The loop's times and counters stay natural numbers, and it has a result
\* exactly when it has returned (poll_with_sleep).
THEOREM PollTypeCorrect == PollSpec => []PollTypeOK
  <1>1. IntervalInv => PollTypeOK
    BY DEF IntervalInv
  <1> QED BY IntervalInit, IntervalStep, <1>1, PTL DEF PollSpec

\* Between two requests lies every interval the backend has asked for.
THEOREM AlwaysPolite == PollSpec => Polite
  <1>1. IntervalInv /\ [PollNext]_pollVars =>
          [pc = "sleep" /\ pc' = "request" =>
             /\ now >= heard + MinInterval
             /\ now >= heard + first + slow * SlowDown
             /\ now >= heard + retry]_pollVars
    <2> SUFFICES ASSUME IntervalInv, [PollNext]_pollVars,
                        pc = "sleep", pc' = "request"
                 PROVE  /\ now >= heard + MinInterval
                        /\ now >= heard + first + slow * SlowDown
                        /\ now >= heard + retry
      OBVIOUS
    <2>1. now >= wake
      BY DEF PollNext, Top, LastSleepEnds, Send, RequestFails, TooManyRequests,
             Headers, Body, Pending, Tick, pollVars, Return
    <2>2. slow * SlowDown \in Nat
      BY OneMore, DevicePollAssumption DEF IntervalInv, PollTypeOK
    <2> QED BY <2>1, <2>2, DevicePollAssumption DEF IntervalInv, PollTypeOK
  <1> QED BY IntervalInit, IntervalStep, <1>1, PTL DEF PollSpec, Polite

-----------------------------------------------------------------------------
\* At most one request is sent per minimum interval.
THEOREM PollsStayBounded == PollSpec => []PollsBounded
  <1>1. PollInit => CountInv
    BY DevicePollAssumption DEF PollInit, CountInv, PollsBounded, Return
  <1>2. IntervalInv /\ CountInv /\ [PollNext]_pollVars => CountInv'
    <2> SUFFICES ASSUME IntervalInv, CountInv, [PollNext]_pollVars
                 PROVE  CountInv'
      OBVIOUS
    <2>1. polls * MinInterval \in Nat /\ MinInterval \in Nat
      BY OneMore, DevicePollAssumption DEF IntervalInv, PollTypeOK
    <2>2. CASE Send
      <3>1. (polls + 1) * MinInterval = polls * MinInterval + MinInterval
        BY OneMore, DevicePollAssumption DEF IntervalInv, PollTypeOK
      <3>2. polls * MinInterval + MinInterval <= now
        BY <2>1, <2>2 DEF Send, IntervalInv, PollTypeOK, CountInv
      <3>3. polls' * MinInterval <= now
        BY <2>1, <2>2, <3>1, <3>2 DEF Send, IntervalInv, PollTypeOK
      <3> QED BY <2>2, <3>3 DEF Send, CountInv, PollsBounded
    <2>3. CASE Top
      BY <2>1, <2>3 DEF Top, Return, IntervalInv, PollTypeOK, CountInv, PollsBounded
    <2>4. CASE Tick
      BY <2>1, <2>4 DEF Tick, IntervalInv, PollTypeOK, CountInv, PollsBounded
    <2>5. CASE UNCHANGED pollVars
      BY <2>5 DEF pollVars, CountInv, PollsBounded
    <2>6. CASE \/ LastSleepEnds \/ RequestFails \/ TooManyRequests \/ Headers
               \/ Body \/ Pending
      BY <2>6 DEF LastSleepEnds, RequestFails, TooManyRequests, Headers, Body,
                  Pending, Return, CountInv, PollsBounded
    <2> QED BY <2>2, <2>3, <2>4, <2>5, <2>6 DEF PollNext
  <1>3. CountInv => PollsBounded
    BY DEF CountInv
  <1> QED BY IntervalInit, IntervalStep, <1>1, <1>2, <1>3, PTL DEF PollSpec

LEMMA DeadlineInit == PollInit => DeadlineInv
  BY DevicePollAssumption
     DEF PollInit, Return, DeadlineInv, NoLateToken, InTime

LEMMA DeadlineStep ==
  IntervalInv /\ DeadlineInv /\ [PollNext]_pollVars => DeadlineInv'
  <1> SUFFICES ASSUME IntervalInv, DeadlineInv, [PollNext]_pollVars
               PROVE  DeadlineInv'
    OBVIOUS
  <1> USE DevicePollAssumption
      DEF IntervalInv, PollTypeOK, DeadlineInv, NoLateToken, InTime
  <1>1. CASE Top
    BY <1>1 DEF Top, Return
  <1>2. CASE LastSleepEnds
    BY <1>2 DEF LastSleepEnds, Return
  <1>3. CASE Send
    BY <1>3 DEF Send
  <1>4. CASE RequestFails \/ TooManyRequests \/ Headers
    BY <1>4 DEF RequestFails, TooManyRequests, Headers, Return
  <1>5. CASE Body \/ Pending
    BY <1>5 DEF Body, Pending, Return
  <1>6. CASE Tick
    BY <1>6 DEF Tick
  <1>7. CASE UNCHANGED pollVars
    BY <1>7 DEF pollVars
  <1> QED BY <1>1, <1>2, <1>3, <1>4, <1>5, <1>6, <1>7 DEF PollNext

\* A token whose answer took until after the deadline is not used, and no
\* request is sent past it but by a late wake-up.
THEOREM TokensInTime == PollSpec => []NoLateToken
  <1>1. DeadlineInv => NoLateToken
    BY DEF DeadlineInv
  <1> QED BY IntervalInit, IntervalStep, DeadlineInit, DeadlineStep, <1>1, PTL
          DEF PollSpec

\* The loop is never at work later than one request past an overslept
\* deadline, whatever intervals it was given.  The safety half of PollEnds.
THEOREM ReturnsInTime == PollSpec => []InTime
  <1>1. DeadlineInv => InTime
    BY DEF DeadlineInv
  <1> QED BY IntervalInit, IntervalStep, DeadlineInit, DeadlineStep, <1>1, PTL
          DEF PollSpec
=============================================================================
