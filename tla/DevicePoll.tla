------------------------------ MODULE DevicePoll ------------------------------
(***************************************************************************)
(* The polling of a login for its token (AuthClient::poll in auth.rs): a   *)
(* loop of sleeps and requests between an interval, which the backend may  *)
(* raise in two ways, and the deadline of the device code.                 *)
(*                                                                         *)
(* Time is counted in units.  It passes while the loop sleeps, which may   *)
(* last Lateness too long, and while a request is on its way, at most the  *)
(* client's timeout; the loop itself takes none.                           *)
(***************************************************************************)
EXTENDS Naturals

CONSTANTS MinInterval,     \* MIN_POLL_INTERVAL
          SlowDown,        \* SLOW_DOWN_INCREMENT
          RequestTimeout,  \* the timeout of the HTTP client
          Lateness,
          LastInstant,     \* later times overflow Instant
          Expiries,        \* values of expires_in
          Intervals,       \* values of interval
          RetryAfters,     \* values of Retry-After
          PollCap          \* polls are counted up to here

ASSUME DevicePollAssumption ==
  /\ MinInterval \in Nat \ {0}
  /\ SlowDown \in Nat
  /\ RequestTimeout \in Nat
  /\ Lateness \in Nat
  /\ LastInstant \in Nat
  /\ Expiries \subseteq Nat \ {0}      \* validate_device_code
  /\ Intervals \subseteq Nat
  /\ RetryAfters \subseteq Nat
  /\ PollCap \in Nat

VARIABLES
  now,
  deadline,
  interval,
  pc,       \* where the loop is
  wake,     \* when the sleep or the request is over, Lateness aside
  result,   \* what poll returned
  first,    \* history: the interval of the device code
  slow,     \* history: how often slow_down was answered
  retry,    \* history: the largest Retry-After
  heard,    \* history: when the last request ended, or poll began
  polls     \* history: requests sent

pollVars == <<now, deadline, interval, pc, wake, result, first, slow, retry,
              heard, polls>>

PollTypeOK ==
  /\ {now, deadline, interval, wake, first, slow, retry, heard, polls} \subseteq Nat
  /\ pc \in {"top", "sleep", "last", "request", "body", "done"}
  /\ result \in {"none", "token", "expired", "denied", "rejected", "error"}
  /\ (result = "none") <=> (pc # "done")

Larger(m, n) == IF m < n THEN n ELSE m

\* A deadline beyond the last instant is an expired code.
PollInit ==
  /\ now = 0
  /\ deadline \in Expiries
  /\ first \in Intervals
  /\ interval = Larger(first, MinInterval)
  /\ IF deadline <= LastInstant THEN pc = "top" /\ result = "none"
     ELSE pc = "done" /\ result = "expired"
  /\ wake = 0
  /\ slow = 0
  /\ retry = 0
  /\ heard = 0
  /\ polls = 0

Return(r) ==
  /\ pc' = "done"
  /\ result' = r

-----------------------------------------------------------------------------
(* Sleeping *)

\* Bug: the interval is slept even when the deadline comes first.
TopSleepsOn ==
  /\ pc = "top"
  /\ IF now >= deadline THEN Return("expired") /\ UNCHANGED wake
     ELSE /\ pc' = "sleep"
          /\ wake' = now + interval
          /\ UNCHANGED result
  /\ UNCHANGED <<now, deadline, interval, first, slow, retry, heard, polls>>

\* The head of the loop: give up, sleep out the deadline, or sleep the interval.
Top ==
  /\ pc = "top"
  /\ IF now >= deadline THEN Return("expired") /\ UNCHANGED wake
     ELSE /\ IF now + interval >= deadline
             THEN pc' = "last" /\ wake' = deadline
             ELSE pc' = "sleep" /\ wake' = now + interval
          /\ UNCHANGED result
  /\ UNCHANGED <<now, deadline, interval, first, slow, retry, heard, polls>>

\* Bug: the loop ends without saying why.
LastSleepSilent ==
  /\ pc = "last" /\ now >= wake
  /\ pc' = "done"
  /\ UNCHANGED <<now, deadline, interval, wake, result, first, slow, retry,
                 heard, polls>>

\* The deadline has been slept out.
LastSleepEnds ==
  /\ pc = "last" /\ now >= wake
  /\ Return("expired")
  /\ UNCHANGED <<now, deadline, interval, wake, first, slow, retry, heard, polls>>

\* The interval has been slept, or more: the request is sent.
Send ==
  /\ pc = "sleep" /\ now >= wake
  /\ pc' = "request"
  /\ wake' = now + RequestTimeout
  /\ polls' = IF polls < PollCap THEN polls + 1 ELSE polls
  /\ UNCHANGED <<now, deadline, interval, result, first, slow, retry, heard>>

-----------------------------------------------------------------------------
(* Answers *)

\* No connection, or the timeout of the client.
RequestFails ==
  /\ pc = "request"
  /\ Return("error")
  /\ heard' = now
  /\ UNCHANGED <<now, deadline, interval, wake, first, slow, retry, polls>>

\* Bug: Retry-After replaces the interval.
TooManyTrusting ==
  /\ pc = "request"
  /\ \/ \E r \in RetryAfters :
          interval' = r /\ retry' = Larger(retry, r)
     \/ UNCHANGED <<interval, retry>>
  /\ pc' = "top"
  /\ heard' = now
  /\ UNCHANGED <<now, deadline, wake, result, first, slow, polls>>

\* 429 Too Many Requests, with or without Retry-After, in seconds or as a
\* date: it can only raise the interval.
TooManyRequests ==
  /\ pc = "request"
  /\ \/ \E r \in RetryAfters :
          /\ interval' = Larger(Larger(r, interval), MinInterval)
          /\ retry' = Larger(retry, r)
     \/ UNCHANGED <<interval, retry>>
  /\ pc' = "top"
  /\ heard' = now
  /\ UNCHANGED <<now, deadline, wake, result, first, slow, polls>>

\* Any other status: the body is read before anything is decided.
Headers ==
  /\ pc = "request"
  /\ pc' = "body"
  /\ UNCHANGED <<now, deadline, interval, wake, result, first, slow, retry,
                 heard, polls>>

\* The body is there, or could not be read.  After the deadline it no longer
\* matters; before it, success, a rejection or an error ends the loop.
Body ==
  /\ pc = "body"
  /\ heard' = now
  /\ IF now >= deadline THEN Return("expired")
     ELSE \E r \in {"token", "expired", "denied", "rejected", "error"} : Return(r)
  /\ UNCHANGED <<now, deadline, interval, wake, first, slow, retry, polls>>

\* Bug: slow_down sets the interval and forgets what was asked before.
PendingSetsInterval ==
  /\ pc = "body" /\ now < deadline
  /\ pc' = "top"
  /\ heard' = now
  /\ \/ UNCHANGED <<interval, slow>>
     \/ interval' = MinInterval + SlowDown /\ slow' = slow + 1
  /\ UNCHANGED <<now, deadline, wake, result, first, retry, polls>>

\* 400 authorization_pending or slow_down before the deadline.
Pending ==
  /\ pc = "body" /\ now < deadline
  /\ pc' = "top"
  /\ heard' = now
  /\ \/ UNCHANGED <<interval, slow>>
     \/ interval' = interval + SlowDown /\ slow' = slow + 1
  /\ UNCHANGED <<now, deadline, wake, result, first, retry, polls>>

-----------------------------------------------------------------------------
Tick ==
  /\ \/ pc \in {"sleep", "last"} /\ now < wake + Lateness
     \/ pc \in {"request", "body"} /\ now < wake
  /\ now' = now + 1
  /\ UNCHANGED <<deadline, interval, pc, wake, result, first, slow, retry,
                 heard, polls>>

PollNext ==
  \/ Top \/ LastSleepEnds \/ Send
  \/ RequestFails \/ TooManyRequests \/ Headers \/ Body \/ Pending
  \/ Tick

PollSpec == PollInit /\ [][PollNext]_pollVars

\* The runtime polls the task, time goes on, and a request ends by its timeout.
PollFairSpec == PollSpec /\ WF_pollVars(PollNext)

-----------------------------------------------------------------------------
(* Properties *)

\* Between two requests, and before the first, lies every interval the
\* backend has asked for so far - its first one and all slow_downs together,
\* the largest Retry-After - and never less than the minimum (poll_with_sleep).
Polite ==
  [][pc = "sleep" /\ pc' = "request" =>
       /\ now >= heard + MinInterval
       /\ now >= heard + first + slow * SlowDown
       /\ now >= heard + retry]_pollVars

\* However the answers mix, at most one request is sent per minimum interval.
PollsBounded == polls * MinInterval <= now

\* A token whose answer took until after the deadline is not used, nor is any
\* request sent that could not have been answered in time, but for a late
\* wake-up (poll_with_sleep).
NoLateToken ==
  /\ result = "token" => now < deadline
  /\ pc \in {"request", "body"} =>
       wake <= deadline + Lateness + RequestTimeout - 1

\* Not later than one request after a deadline that was overslept.
InTime == now <= deadline + Lateness + RequestTimeout

\* A login never waits for ever: poll returns, and however long the intervals
\* and Retry-Afters it was given, no later than its deadline, but for a late
\* wake-up and the one request it may have out (poll_with_sleep).
PollEnds == <>(pc = "done" /\ InTime)
=============================================================================
