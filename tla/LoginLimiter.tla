---------------------------- MODULE LoginLimiter ----------------------------
(***************************************************************************)
(* The throttling of admin logins: src/http/login-limiter.ts and the guard *)
(* requireAdmin of src/http/admin.ts that every admin request passes.      *)
(*                                                                         *)
(* The guard runs without an await, so a request is one step: it is        *)
(* refused and changes nothing, or its key is compared and the outcome     *)
(* recorded.  The clock moves between requests, not inside one.            *)
(*                                                                         *)
(* `log` is every wrong key ever compared, in order.  The lists of         *)
(* timestamps the code keeps are sets of positions in it: the code only    *)
(* appends the current time, so their order is the order of the log.       *)
(***************************************************************************)
EXTENDS Integers, Sequences, FiniteSets

CONSTANTS
  IPs,            \* client addresses
  MaxFailures,    \* limits.maxFailures
  Window,         \* limits.windowMs
  Lockout,        \* limits.lockoutMs
  GlobalMax,      \* limits.globalMaxFailures, 0 = off
  MaxTracked,     \* MAX_TRACKED_IPS
  PruneInterval,  \* PRUNE_INTERVAL_MS
  MaxTime,        \* bound on the clock
  MaxLog          \* bound on the wrong keys tried

\* What loadConfig accepts, and the two literals of the limiter.
ASSUME Limits ==
  /\ MaxFailures \in Nat \ {0}
  /\ Window \in Nat \ {0}
  /\ Lockout \in Nat \ {0}
  /\ GlobalMax \in Nat
  /\ MaxTracked \in Nat \ {0}
  /\ PruneInterval \in Nat \ {0}

ASSUME Bounds == MaxTime \in Nat /\ MaxLog \in Nat /\ IsFiniteSet(IPs)

VARIABLES
  now,          \* Date.now()
  tracked,      \* the keys of the map ips
  failures,     \* per IP: its record's failures, {} without a record
  lockedUntil,  \* per IP: its record's lockedUntil, 0 without a record
  global,       \* the failures of all IPs that are still counted
  lastPrune,    \* when the table was last pruned
  log,          \* history: every failure, as [ip, at]
  forgiven,     \* history, per IP: Len(log) at its last success or eviction
  lockedAt      \* history, per IP: Len(log) at its last lockout

limiterVars == <<tracked, failures, lockedUntil, global, lastPrune>>
historyVars == <<log, forgiven, lockedAt>>
vars == <<now, limiterVars, historyVars>>

TypeOK ==
  /\ now \in Nat
  /\ tracked \in SUBSET IPs
  /\ failures \in [IPs -> SUBSET (DOMAIN log)]
  /\ lockedUntil \in [IPs -> Nat]
  /\ global \in SUBSET (DOMAIN log)
  /\ lastPrune \in Nat
  /\ log \in Seq([ip : IPs, at : Nat])
  /\ forgiven \in [IPs -> Nat]
  /\ lockedAt \in [IPs -> Nat]

\* Date.now() starts long past 0, the initial lastPrune.
Init ==
  /\ now = PruneInterval
  /\ tracked = {}
  /\ failures = [ip \in IPs |-> {}]
  /\ lockedUntil = [ip \in IPs |-> 0]
  /\ global = {}
  /\ lastPrune = 0
  /\ log = <<>>
  /\ forgiven = [ip \in IPs |-> 0]
  /\ lockedAt = [ip \in IPs |-> 0]

-----------------------------------------------------------------------------
(* check, at a time t. *)

live(S, t) == {i \in S : log[i].at > t - Window}

locked(ip, t) == lockedUntil[ip] > t

newestOf(S, n) == {i \in S : Cardinality({j \in S : j >= i}) <= n}

\* Mutated form: the wait is counted from the newest failure.
MutGlobalWait(t) ==
  LET counted == live(global, t) IN
  IF GlobalMax = 0 \/ Cardinality(counted) < GlobalMax
    THEN 0
    ELSE LET newest == CHOOSE i \in counted : \A j \in counted : j <= i
         IN log[newest].at + Window - t

\* Mutated form: one failure more is let through.
MutGlobalOffByOne(t) ==
  LET counted == live(global, t) IN
  IF GlobalMax = 0 \/ Cardinality(counted) <= GlobalMax
    THEN 0
    ELSE LET oldest == CHOOSE i \in newestOf(counted, GlobalMax) :
                         \A j \in newestOf(counted, GlobalMax) : i <= j
         IN log[oldest].at + Window - t

\* Until the oldest of the GlobalMax newest failures ages out.
globalWait(t) ==
  LET counted == live(global, t) IN
  IF GlobalMax = 0 \/ Cardinality(counted) < GlobalMax
    THEN 0
    ELSE LET oldest == CHOOSE i \in newestOf(counted, GlobalMax) :
                         \A j \in newestOf(counted, GlobalMax) : i <= j
         IN log[oldest].at + Window - t

blocked(ip, t) == locked(ip, t) \/ globalWait(t) > 0

retryAfter(ip, t) == IF locked(ip, t) THEN lockedUntil[ip] - t ELSE globalWait(t)

remaining(ip, t) == MaxFailures - Cardinality(live(failures[ip], t))

-----------------------------------------------------------------------------
(* recordFailure: prune, count globally, count for the IP, store. *)

\* Mutated form: a lockout does not keep a record from being pruned.
MutStale(ip) == live(failures[ip], now) = {}

stale(ip) == ~locked(ip, now) /\ live(failures[ip], now) = {}

pruneDue ==
  now - lastPrune >= PruneInterval \/ Cardinality(tracked) >= MaxTracked

\* The map's entries once prune is through.
pruned == IF pruneDue THEN {ip \in tracked : ~stale(ip)} ELSE tracked

\* A failure deletes and re-inserts the record: Map order is failure order.
lastFailure(ip) == CHOOSE i \in DOMAIN log :
  log[i].ip = ip /\ \A j \in DOMAIN log : log[j].ip = ip => j <= i

\* Mutated form: the table is not capped.
MutEvicted(others) == {}

\* The record that store drops to make room beside `others`.
evicted(others) ==
  IF Cardinality(others) >= MaxTracked
    THEN {ip \in others : \A x \in others : lastFailure(ip) <= lastFailure(x)}
    ELSE {}

\* Mutated form: the limit is passed before the lock trips.
MutTripsLockout(recent) == Cardinality(recent) > MaxFailures

tripsLockout(recent) == Cardinality(recent) >= MaxFailures

recordFailure(ip) ==
  LET new    == Len(log) + 1
      kept   == pruned
      recent == live(failures[ip], now) \cup {new}
      lock   == tripsLockout(recent)
      out    == evicted(kept \ {ip})
      others == (kept \ {ip}) \ out
  IN
  /\ log' = Append(log, [ip |-> ip, at |-> now])
  /\ lastPrune' = IF pruneDue THEN now ELSE lastPrune
  /\ global' = IF GlobalMax = 0 THEN global
               ELSE newestOf(live(global, now) \cup {new}, GlobalMax)
  /\ tracked' = others \cup {ip}
  /\ failures' = [x \in IPs |->
       IF x = ip THEN IF lock THEN {} ELSE recent
       ELSE IF x \in others THEN failures[x] ELSE {}]
  /\ lockedUntil' = [x \in IPs |->
       IF x = ip
         THEN IF lock THEN now + Lockout
              ELSE IF ip \in kept THEN lockedUntil[ip] ELSE 0
         ELSE IF x \in others THEN lockedUntil[x] ELSE 0]
  /\ forgiven' = [x \in IPs |-> IF x \in out THEN Len(log) ELSE forgiven[x]]
  /\ lockedAt' = IF lock THEN [lockedAt EXCEPT ![ip] = new] ELSE lockedAt

\* Mutated form: the record stays, with its lock dated back.
MutRecordSuccess(ip) ==
  /\ lockedUntil' = [lockedUntil EXCEPT ![ip] = now - Lockout]
  /\ forgiven' = [forgiven EXCEPT ![ip] = Len(log)]
  /\ UNCHANGED <<tracked, failures>>

recordSuccess(ip) ==
  /\ tracked' = tracked \ {ip}
  /\ failures' = [failures EXCEPT ![ip] = {}]
  /\ lockedUntil' = [lockedUntil EXCEPT ![ip] = 0]
  /\ forgiven' = [forgiven EXCEPT ![ip] = Len(log)]

-----------------------------------------------------------------------------
(* requireAdmin: a blocked request and one without a key change nothing. *)

LoginFails(ip) ==
  /\ ~blocked(ip, now)
  /\ Len(log) < MaxLog
  /\ recordFailure(ip)
  /\ UNCHANGED now

LoginSucceeds(ip) ==
  /\ ~blocked(ip, now)
  /\ recordSuccess(ip)
  /\ UNCHANGED <<now, global, lastPrune, log, lockedAt>>

Tick ==
  /\ now < MaxTime
  /\ now' = now + 1
  /\ UNCHANGED <<limiterVars, historyVars>>

Next ==
  \/ \E ip \in IPs : LoginFails(ip) \/ LoginSucceeds(ip)
  \/ Tick

Spec == Init /\ [][Next]_vars

-----------------------------------------------------------------------------
InWindow(i) == log[i].at > now - Window

\* "Globally: globalMaxFailures failures across all IPs inside windowMs block
\* every attempt": no window ever sees more wrong keys than that, from however
\* many addresses, whatever was forgiven, locked, pruned or evicted meanwhile.
GlobalBudget ==
  GlobalMax > 0 =>
    Cardinality({i \in DOMAIN log : InWindow(i)}) <= GlobalMax

\* "maxFailures failures inside a sliding windowMs lock that IP out": when a
\* lockout lasts a window, no address tries more than maxFailures wrong keys in
\* any window, unless a right key or the cap on the table cleared its record.
PerIpBudget ==
  Lockout >= Window =>
    \A ip \in IPs :
      Cardinality({i \in DOMAIN log :
                     log[i].ip = ip /\ i > forgiven[ip] /\ InWindow(i)})
        <= MaxFailures

\* The login page's "remaining" is exact: what the pruned, capped table answers
\* is what the whole history of the address gives, and there is at least one.
RemainingIsExact ==
  \A ip \in IPs :
    ~blocked(ip, now) =>
      /\ remaining(ip, now) =
           MaxFailures - Cardinality({i \in DOMAIN log :
             /\ log[i].ip = ip
             /\ i > forgiven[ip] /\ i > lockedAt[ip]
             /\ InWindow(i)})
      /\ remaining(ip, now) >= 1

\* Retry-After is never too long nor cut short by the passing of time: until
\* then the address is refused, and then it is let in unless the global cap is
\* what stands in the way.
RetryAfterIsExact ==
  \A ip \in IPs :
    blocked(ip, now) =>
      LET then == now + retryAfter(ip, now) IN
      /\ \A t \in now .. then - 1 : blocked(ip, t)
      /\ blocked(ip, then) => locked(ip, now) /\ globalWait(then) > 0

\* "Memory is bounded: stale records are pruned and the table capped", also
\* when every record still counts.
TableIsBounded == Cardinality(tracked) <= MaxTracked

\* A lockout holds for all its length: no key of that address is compared
\* before it ends, and it ends early only when the table is full of records
\* that all still count.
LockoutHolds ==
  [][\A ip \in IPs :
       locked(ip, now) =>
         /\ ~(\E i \in DOMAIN log' \ DOMAIN log : log'[i].ip = ip)
         /\ lockedUntil'[ip] # lockedUntil[ip] =>
              /\ Cardinality(tracked) = MaxTracked
              /\ \A x \in tracked : ~stale(x)]_vars

\* With the global cap on and below the size of the table, and lockouts no
\* longer than the window, wrong keys from other addresses cannot push a
\* locked-out address off the table.
NoLockoutEvicted ==
  [][(0 < GlobalMax /\ GlobalMax < MaxTracked /\ Lockout <= Window) =>
       \A ip \in IPs : locked(ip, now) => lockedUntil'[ip] = lockedUntil[ip]]_vars

=============================================================================
