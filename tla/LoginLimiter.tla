---------------------------- MODULE LoginLimiter ----------------------------
(* Login (controllers/auth_controller.go) with its limiter                   *)
(* (services/auth/login_limiter.go): the counters of one address and of one  *)
(* account in Redis, each incremented by one call and given its expiry by    *)
(* another, and the lock of the account.                                     *)
EXTENDS Naturals, FiniteSets

CONSTANTS
  Attempts,     \* POST /api/auth/login requests of one account and address
  PerMinute,    \* 10: calls of an address before it is refused
  Enough,       \* 5: failures of an account before it is locked
  Minute, Quarter,                        \* expiry of the counter, of the lock
  MaxTime, MaxCalls, MaxFaults            \* bounds

VARIABLES
  now,
  address,    \* "ratelimit:login:ip:..."
  failures,   \* "login:fail:..."
  lock,       \* "lockout:..."
  attempt,    \* the requests
  counted,    \* times at which the address was counted
  inARow,     \* failures counted since the account last logged in
  overtaken,  \* the lock stems from a failure that a login overtook
  faults

vars == <<now, address, failures, lock, attempt, counted, inARow, overtaken, faults>>

\* A key of Redis: its number and when it expires (Never without an expiry).
Never == MaxTime + Quarter + 1
Absent == [n |-> 0, until |-> Never]
Incr(key) == [key EXCEPT !.n = @ + 1]
Expire(key, t) == IF key.n = 0 THEN key ELSE [key EXCEPT !.until = now + t]
Idle == [stage |-> "idle", count |-> 0, stale |-> FALSE, refused |-> "no"]

Init ==
  /\ now = 0 /\ address = Absent /\ failures = Absent /\ lock = Absent
  /\ attempt = [a \in Attempts |-> Idle]
  /\ counted = <<>> /\ inARow = 0 /\ overtaken = FALSE /\ faults = 0

At(a, stage) == attempt[a].stage = stage
To(a, stage) == attempt' = [attempt EXCEPT ![a].stage = stage]

\* CheckIP: the count ...
CountAddress(a) ==
  /\ At(a, "idle") /\ Cardinality(DOMAIN counted) < MaxCalls
  /\ address' = Incr(address)
  /\ counted' = [i \in 1..Cardinality(DOMAIN counted) + 1 |->
                   IF i \in DOMAIN counted THEN counted[i] ELSE now]
  /\ attempt' = [attempt EXCEPT ![a] =
       [Idle EXCEPT !.stage = "expire", !.count = address.n + 1]]
  /\ UNCHANGED <<now, failures, lock, inARow, overtaken, faults>>

\* ... the expiry, given by the first call only and lost when that call fails ...
EveryCall(a) == TRUE
GivesExpiry(a) == attempt[a].count = 1
ExpireAddress(a) ==
  /\ At(a, "expire")
  /\ \/ /\ address' = IF GivesExpiry(a) THEN Expire(address, Minute) ELSE address
        /\ UNCHANGED faults
     \/ /\ GivesExpiry(a) /\ faults < MaxFaults
        /\ faults' = faults + 1 /\ UNCHANGED address
  /\ IF attempt[a].count > PerMinute
     THEN attempt' = [attempt EXCEPT ![a] = [Idle EXCEPT !.refused = "address"]]
     ELSE To(a, "locked?")
  /\ UNCHANGED <<now, failures, lock, counted, inARow, overtaken>>

\* ... and the lock of the account.
CheckLock(a) ==
  /\ At(a, "locked?")
  /\ IF lock.n > 0
     THEN attempt' = [attempt EXCEPT ![a] = [Idle EXCEPT !.refused = "account"]]
     ELSE To(a, "verify")
  /\ UNCHANGED <<now, address, failures, lock, counted, inARow, overtaken, faults>>

\* The password is right: ClearFailures deletes both keys in one call.
LockOnly == UNCHANGED failures /\ lock' = Absent
Cleared == failures' = Absent /\ lock' = Absent
Succeed(a) ==
  /\ At(a, "verify") /\ Cleared
  /\ attempt' = [x \in Attempts |->
       IF x = a THEN Idle
       ELSE IF attempt[x].stage \in {"expireFail", "lock"}
            THEN [attempt[x] EXCEPT !.stale = TRUE] ELSE attempt[x]]
  /\ inARow' = 0 /\ overtaken' = FALSE
  /\ UNCHANGED <<now, address, counted, faults>>

\* It is wrong, or the account unknown: RecordFailure counts, renews the expiry
\* and locks the account.
Fail(a) ==
  /\ At(a, "verify")
  /\ failures' = Incr(failures)
  /\ attempt' = [attempt EXCEPT ![a].stage = "expireFail", ![a].count = failures.n + 1]
  /\ inARow' = inARow + 1
  /\ UNCHANGED <<now, address, lock, counted, overtaken, faults>>
ExpireFail(a) ==
  /\ At(a, "expireFail")
  /\ failures' = Expire(failures, Quarter)
  /\ To(a, "lock")
  /\ UNCHANGED <<now, address, lock, counted, inARow, overtaken, faults>>
OneLate(n) == n > Enough
Locks(n) == n >= Enough
Lock(a) ==
  /\ At(a, "lock")
  /\ IF Locks(attempt[a].count)
     THEN /\ lock' = [n |-> 1, until |-> now + Quarter]
          /\ overtaken' = attempt[a].stale
     ELSE UNCHANGED <<lock, overtaken>>
  /\ attempt' = [attempt EXCEPT ![a] = Idle]
  /\ UNCHANGED <<now, address, failures, counted, inARow, faults>>

\* The account is disabled: the request ends, nothing is counted.
Disabled(a) ==
  /\ At(a, "verify") /\ attempt' = [attempt EXCEPT ![a] = Idle]
  /\ UNCHANGED <<now, address, failures, lock, counted, inARow, overtaken, faults>>

\* Time passes in minutes, the calls of one request take milliseconds.
Tick ==
  /\ now < MaxTime /\ \A a \in Attempts : attempt[a].stage \in {"idle", "verify"}
  /\ now' = now + 1
  /\ LET Left(key) == IF key.until <= now' THEN Absent ELSE key IN
     /\ address' = Left(address) /\ failures' = Left(failures) /\ lock' = Left(lock)
     /\ inARow' = IF failures'.n = 0 THEN 0 ELSE inARow
  /\ attempt' = [a \in Attempts |-> [attempt[a] EXCEPT !.refused = "no"]]
  /\ UNCHANGED <<counted, overtaken, faults>>

Next ==
  \/ \E a \in Attempts :
       \/ CountAddress(a) \/ ExpireAddress(a) \/ CheckLock(a)
       \/ Succeed(a) \/ Fail(a) \/ ExpireFail(a) \/ Lock(a) \/ Disabled(a)
  \/ Tick

Spec == Init /\ [][Next]_vars

-----------------------------------------------------------------------------
\* An address is refused only for what it did in the last minute: more than
\* PerMinute calls were counted within it. Refused calls count too but do not
\* prolong the window (CheckIP sets the expiry once). Without the one call that
\* sets it the key never expires, which is the fault the property leaves out.
RefusedForThisMinute ==
  (faults = 0 /\ \E a \in Attempts : attempt[a].refused = "address") =>
    Cardinality({i \in DOMAIN counted : counted[i] + Minute > now}) > PerMinute

\* Enough failures lock the account: when no request is between its count and
\* its lock, a counter at the limit goes with a lock, in every interleaving of
\* the requests' separate calls.
EnoughFailuresLock ==
  (failures.n >= Enough /\ \A a \in Attempts : ~At(a, "expireFail") /\ ~At(a, "lock")) =>
    lock.n > 0

\* A login starts afresh: an account is locked only after Enough failures since
\* the last one, unless that login came between the count and the lock of the
\* last failure (the lock is set by a call of its own).
LockedForFailures ==
  (lock.n > 0 /\ ~overtaken) => inARow >= Enough
=============================================================================
