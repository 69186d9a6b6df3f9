-------------------------- MODULE Admission_proofs --------------------------
(***************************************************************************)
(* Who is let in.  The admin pages: what the limiter guarantees for any    *)
(* limits, table size and number of addresses.  The endpoint of the tools, *)
(* in the last part: no server is built for a request without a            *)
(* credential, for any number of requests to /mcp.                         *)
(***************************************************************************)
EXTENDS LoginLimiter, McpEndpoint, FiniteSetTheorems, SequenceTheorems, WellFoundedInduction, TLAPS

-----------------------------------------------------------------------------
(* Least and greatest elements. *)

LEMMA LeastExists ==
  ASSUME NEW S, S \subseteq Nat, S # {}
  PROVE  \E i \in S : \A j \in S : i <= j
<1> DEFINE R == OpToRel(<, Nat)
<1>1. \E i \in S : \A j \in S : ~(<<j, i>> \in R)
  <2> HIDE DEF R
  <2> QED BY NatLessThanWellFounded, WFMin DEF R
<1>2. ASSUME NEW i \in S, NEW j \in S, ~(<<j, i>> \in R)
      PROVE  i <= j
  BY <1>2 DEF OpToRel
<1> QED BY <1>1, <1>2

\* By the least distance from the bound.
LEMMA GreatestExists ==
  ASSUME NEW S, NEW n \in Nat, S \subseteq 0 .. n, S # {}
  PROVE  \E i \in S : \A j \in S : j <= i
<1> DEFINE D == {n - i : i \in S}
<1>1. D \subseteq Nat
  <2> SUFFICES ASSUME NEW i \in S PROVE n - i \in Nat
    OBVIOUS
  <2> QED OBVIOUS
<1>2. D # {}
  OBVIOUS
<1>3. PICK d \in D : \A c \in D : d <= c
  <2> HIDE DEF D
  <2> QED BY <1>1, <1>2, LeastExists
<1>4. PICK i \in S : d = n - i
  BY <1>3
<1>5. ASSUME NEW j \in S PROVE j <= i
  <2>1. n - j \in D
    OBVIOUS
  <2>2. d <= n - j
    BY <1>3, <2>1
  <2> QED BY <1>4, <2>2
<1> QED BY <1>5

-----------------------------------------------------------------------------
(* Types. *)

LEMMA NewestType ==
  ASSUME NEW S, NEW n PROVE newestOf(S, n) \subseteq S
BY DEF newestOf

LEMMA LiveType ==
  ASSUME NEW S, NEW t PROVE live(S, t) \subseteq S
BY DEF live

LEMMA LogType ==
  ASSUME TypeOK
  PROVE  /\ Len(log) \in Nat
         /\ DOMAIN log = 1 .. Len(log) /\ DOMAIN log \subseteq Nat
         /\ \A i \in DOMAIN log : log[i] \in [ip : IPs, at : Nat]
         /\ \A i \in DOMAIN log : log[i].ip \in IPs /\ log[i].at \in Nat
<1> DEFINE R == [ip : IPs, at : Nat]
<1>1. log \in Seq(R)
  BY DEF TypeOK
<1>2. \A i \in 1 .. Len(log) : log[i] \in R
  <2> HIDE DEF R
  <2> QED BY <1>1, ElementOfSeq
<1>3. DOMAIN log = 1 .. Len(log) /\ Len(log) \in Nat
  BY <1>1
<1> QED BY <1>2, <1>3

LEMMA LogGrows ==
  ASSUME TypeOK, NEW r, log' = Append(log, r)
  PROVE  /\ DOMAIN log' = DOMAIN log \cup {Len(log) + 1}
         /\ Len(log') = Len(log) + 1
         /\ log'[Len(log) + 1] = r
         /\ \A i \in DOMAIN log : log'[i] = log[i]
BY DEF TypeOK

LEMMA TypeStep == TypeOK /\ [Next]_vars => TypeOK'
<1> SUFFICES ASSUME TypeOK, [Next]_vars PROVE TypeOK'
  OBVIOUS
<1> USE Limits
<1>1. ASSUME NEW ip \in IPs, LoginFails(ip) PROVE TypeOK'
  <2> DEFINE new == Len(log) + 1
             recent == live(failures[ip], now) \cup {new}
  <2>1. /\ log' = Append(log, [ip |-> ip, at |-> now])
        /\ now' = now
    BY <1>1 DEF LoginFails, recordFailure
  <2>2. /\ log' \in Seq([ip : IPs, at : Nat])
        /\ DOMAIN log' = DOMAIN log \cup {new}
        /\ new \in DOMAIN log' /\ Len(log) \in Nat /\ new \in Nat
    BY <2>1 DEF TypeOK
  <2>3. tracked' \subseteq IPs
    BY <1>1 DEF LoginFails, recordFailure, TypeOK, pruned
  <2>4. lastPrune' \in Nat
    BY <1>1 DEF LoginFails, recordFailure, TypeOK
  <2>5. recent \subseteq DOMAIN log'
    BY <2>2, LiveType DEF TypeOK
  <2>6. failures' \in [IPs -> SUBSET (DOMAIN log')]
    <3>1. \A x \in IPs : failures[x] \subseteq DOMAIN log'
      BY <2>2 DEF TypeOK
    <3> HIDE DEF new
    <3> QED BY <1>1, <2>5, <3>1 DEF LoginFails, recordFailure, new
  <2>7. global' \subseteq DOMAIN log'
    <3>1. global \subseteq DOMAIN log'
      BY <2>2 DEF TypeOK
    <3>2. newestOf(live(global, now) \cup {new}, GlobalMax) \subseteq DOMAIN log'
      BY <2>2, <3>1, NewestType, LiveType
    <3> QED BY <1>1, <3>1, <3>2 DEF LoginFails, recordFailure
  <2>8. lockedUntil' \in [IPs -> Nat]
    BY <1>1 DEF LoginFails, recordFailure, TypeOK
  <2>9. forgiven' \in [IPs -> Nat]
    BY <1>1, <2>2 DEF LoginFails, recordFailure, TypeOK
  <2>10. lockedAt' \in [IPs -> Nat]
    BY <1>1, <2>2 DEF LoginFails, recordFailure, TypeOK
  <2> QED
    BY <2>1, <2>2, <2>3, <2>4, <2>6, <2>7, <2>8, <2>9, <2>10 DEF TypeOK
<1>2. ASSUME NEW ip \in IPs, LoginSucceeds(ip) PROVE TypeOK'
  BY <1>2 DEF LoginSucceeds, recordSuccess, TypeOK
<1>3. CASE Tick \/ UNCHANGED vars
  BY <1>3 DEF Tick, vars, limiterVars, historyVars, TypeOK
<1> QED BY <1>1, <1>2, <1>3 DEF Next

LEMMA TypeInit == Init => TypeOK
BY Limits DEF Init, TypeOK

\* The limiter's state keeps the types of its fields.
THEOREM TypeCorrect == Spec => []TypeOK
BY TypeInit, TypeStep, PTL DEF Spec

-----------------------------------------------------------------------------
(* Subsets and their newest entries. *)

LEMMA SubsetBound ==
  ASSUME NEW S, IsFiniteSet(S), NEW T, T \subseteq S
  PROVE  /\ IsFiniteSet(T)
         /\ Cardinality(T) \in Nat /\ Cardinality(S) \in Nat
         /\ Cardinality(T) <= Cardinality(S)
<1>1. T \in SUBSET S
  OBVIOUS
<1> QED BY <1>1, FS_Subset, FS_CardinalityType

\* Nothing is cut from a list no longer than the limit.
LEMMA NewestAll ==
  ASSUME NEW S, IsFiniteSet(S), NEW n \in Nat, Cardinality(S) <= n
  PROVE  newestOf(S, n) = S
<1>1. ASSUME NEW i PROVE Cardinality({j \in S : j >= i}) <= n
  <2>1. {j \in S : j >= i} \subseteq S
    OBVIOUS
  <2>2. /\ Cardinality({j \in S : j >= i}) <= Cardinality(S)
        /\ Cardinality({j \in S : j >= i}) \in Nat /\ Cardinality(S) \in Nat
    BY <2>1, SubsetBound
  <2> QED BY <2>2
<1> QED BY <1>1 DEF newestOf

-----------------------------------------------------------------------------
(* The global budget.  The array `global` has at most GlobalMax entries,   *)
(* and every failure of the window is one of them: when it is cut to       *)
(* GlobalMax entries nothing is lost, since a full array blocks.           *)

GlobalIsComplete ==
  GlobalMax > 0 =>
    /\ IsFiniteSet(global) /\ Cardinality(global) <= GlobalMax
    /\ \A i \in DOMAIN log : InWindow(i) => i \in global

\* A full window blocks every address.
LEMMA FullWindowBlocks ==
  ASSUME TypeOK, GlobalIsComplete, GlobalMax > 0,
         Cardinality(live(global, now)) >= GlobalMax
  PROVE  globalWait(now) > 0
<1> DEFINE counted == live(global, now)
           oldest == CHOOSE i \in newestOf(counted, GlobalMax) :
                       \A j \in newestOf(counted, GlobalMax) : i <= j
<1>1. IsFiniteSet(counted) /\ Cardinality(counted) = GlobalMax
  <2>1. counted \subseteq global
    BY LiveType
  <2>2. /\ IsFiniteSet(counted) /\ Cardinality(counted) \in Nat
        /\ Cardinality(global) \in Nat /\ Cardinality(counted) <= Cardinality(global)
    <3> HIDE DEF counted
    <3> QED BY <2>1, SubsetBound DEF GlobalIsComplete
  <2> QED BY <2>2, Limits DEF GlobalIsComplete
<1>2. newestOf(counted, GlobalMax) = counted
  <2> HIDE DEF counted
  <2> QED BY <1>1, NewestAll, Limits
<1>3. counted # {} /\ counted \subseteq Nat
  <2>1. counted \subseteq global /\ global \subseteq DOMAIN log
    BY LiveType DEF TypeOK
  <2>2. counted \subseteq Nat
    BY <2>1, LogType
  <2> HIDE DEF counted
  <2> QED BY <1>1, <2>2, FS_EmptySet, Limits
<1>4. oldest \in counted
  <2> HIDE DEF counted
  <2>1. \E i \in counted : \A j \in counted : i <= j
    BY <1>3, LeastExists
  <2> QED BY <1>2, <2>1
<1>5. globalWait(now) = log[oldest].at + Window - now
  <2>1. ~(GlobalMax = 0 \/ Cardinality(counted) < GlobalMax)
    BY <1>1, Limits
  <2> QED BY <2>1, Zenon DEF globalWait
<1>6. log[oldest].at > now - Window /\ log[oldest].at \in Nat /\ now \in Nat
  <2>1. oldest \in global /\ global \subseteq DOMAIN log
    BY <1>4, LiveType DEF TypeOK
  <2>2. log[oldest].at > now - Window
    <3> HIDE DEF oldest
    <3> QED BY <1>4 DEF live
  <2> HIDE DEF oldest
  <2> QED BY <2>1, <2>2, LogType DEF TypeOK
<1> QED BY <1>5, <1>6, Limits

LEMMA GlobalStep ==
  TypeOK /\ TypeOK' /\ GlobalIsComplete /\ [Next]_vars => GlobalIsComplete'
<1> SUFFICES ASSUME TypeOK, TypeOK', GlobalIsComplete, [Next]_vars, GlobalMax > 0
             PROVE  /\ IsFiniteSet(global') /\ Cardinality(global') <= GlobalMax
                    /\ \A i \in DOMAIN log' : InWindow(i)' => i \in global'
  BY DEF GlobalIsComplete
<1> USE Limits
<1>1. ASSUME NEW ip \in IPs, LoginFails(ip)
      PROVE  /\ IsFiniteSet(global') /\ Cardinality(global') <= GlobalMax
             /\ \A i \in DOMAIN log' : InWindow(i)' => i \in global'
  <2> DEFINE new == Len(log) + 1
             counted == live(global, now)
             grown == counted \cup {new}
  <2>1. /\ log' = Append(log, [ip |-> ip, at |-> now])
        /\ now' = now
        /\ global' = newestOf(grown, GlobalMax)
    BY <1>1 DEF LoginFails, recordFailure
  <2>2. IsFiniteSet(counted) /\ Cardinality(counted) \in Nat
    <3>1. counted \subseteq global
      BY LiveType
    <3> HIDE DEF counted
    <3> QED BY <3>1, SubsetBound DEF GlobalIsComplete
  <2>3. Cardinality(counted) < GlobalMax
    <3>1. ~(globalWait(now) > 0)
      BY <1>1 DEF LoginFails, blocked
    <3> QED BY <2>2, <3>1, FullWindowBlocks
  <2>4. IsFiniteSet(grown) /\ Cardinality(grown) \in Nat /\ Cardinality(grown) <= GlobalMax
    <3>1. IsFiniteSet(grown) /\ Cardinality(grown) \in Nat
          /\ Cardinality(grown) <= Cardinality(counted) + 1
      <4> HIDE DEF counted, new
      <4>1. /\ IsFiniteSet(grown)
            /\ Cardinality(grown) = IF new \in counted THEN Cardinality(counted)
                                  ELSE Cardinality(counted) + 1
        BY <2>2, FS_AddElement
      <4> QED BY <2>2, <4>1
    <3> HIDE DEF grown, counted
    <3> QED BY <2>2, <2>3, <3>1
  <2>5. global' = grown
    <3> HIDE DEF grown
    <3> QED BY <2>1, <2>4, NewestAll
  <2>6. ASSUME NEW i \in DOMAIN log', InWindow(i)' PROVE i \in grown
    <3>1. CASE i = new
      BY <3>1
    <3>2. CASE i # new
      <4>1. i \in DOMAIN log /\ log'[i] = log[i]
        BY <2>1, <2>6, <3>2, LogGrows
      <4>2. InWindow(i)
        BY <2>1, <2>6, <4>1 DEF InWindow
      <4>3. i \in global
        BY <4>1, <4>2 DEF GlobalIsComplete
      <4> QED BY <4>2, <4>3 DEF InWindow, live
    <3> QED BY <3>1, <3>2
  <2> HIDE DEF grown
  <2> QED BY <2>4, <2>5, <2>6
<1>2. CASE \/ \E ip \in IPs : LoginSucceeds(ip)
           \/ Tick
           \/ UNCHANGED vars
  <2>1. log' = log /\ global' = global /\ now' >= now /\ now' \in Nat /\ now \in Nat
    BY <1>2 DEF LoginSucceeds, Tick, limiterVars, historyVars, vars, TypeOK
  <2>2. ASSUME NEW i \in DOMAIN log, InWindow(i)' PROVE InWindow(i)
    <3>1. log[i].at \in Nat
      BY LogType
    <3> QED BY <2>1, <2>2, <3>1 DEF InWindow
  <2> QED BY <2>1, <2>2 DEF GlobalIsComplete
<1> QED BY <1>1, <1>2 DEF Next

LEMMA GlobalInit == Init => GlobalIsComplete
BY FS_EmptySet, Limits DEF Init, GlobalIsComplete

LEMMA CompleteIsBudget == TypeOK /\ GlobalIsComplete => GlobalBudget
<1> SUFFICES ASSUME TypeOK, GlobalIsComplete, GlobalMax > 0
             PROVE  Cardinality({i \in DOMAIN log : InWindow(i)}) <= GlobalMax
  BY DEF GlobalBudget
<1> DEFINE W == {i \in DOMAIN log : InWindow(i)}
<1>1. W \in SUBSET global
  BY DEF GlobalIsComplete
<1>2. /\ Cardinality(W) <= Cardinality(global)
      /\ Cardinality(W) \in Nat /\ Cardinality(global) \in Nat
  <2> HIDE DEF W
  <2> QED BY <1>1, SubsetBound DEF GlobalIsComplete
<1> QED BY <1>2, Limits DEF GlobalIsComplete

\* No window ever sees more than globalMaxFailures wrong keys, from however
\* many addresses and for any limits the configuration accepts.
THEOREM GlobalBudgetHolds == Spec => []GlobalBudget
<1> DEFINE IInv == TypeOK /\ GlobalIsComplete
<1>1. Init => IInv
  BY TypeInit, GlobalInit
<1>2. IInv /\ [Next]_vars => IInv'
  BY TypeStep, GlobalStep
<1>3. IInv => GlobalBudget
  BY CompleteIsBudget
<1> QED BY <1>1, <1>2, <1>3, PTL DEF Spec

-----------------------------------------------------------------------------
(* The table.  Only tracked addresses have a record, and each of them got  *)
(* it by a failure, so the order of eviction is defined on all of them.    *)

Untracked ==
  \A ip \in IPs : ip \notin tracked => failures[ip] = {} /\ lockedUntil[ip] = 0

TrackedFailed == \A ip \in tracked : \E i \in DOMAIN log : log[i].ip = ip

TableInv == Untracked /\ TrackedFailed /\ TableIsBounded

LEMMA TrackedFinite ==
  ASSUME TypeOK, NEW T, T \subseteq tracked
  PROVE  /\ IsFiniteSet(T)
         /\ Cardinality(T) \in Nat /\ Cardinality(tracked) \in Nat
         /\ Cardinality(T) <= Cardinality(tracked)
<1>1. IsFiniteSet(tracked)
  BY Bounds, SubsetBound DEF TypeOK
<1> QED BY <1>1, SubsetBound

LEMMA LastFailureType ==
  ASSUME TypeOK, NEW ip, \E i \in DOMAIN log : log[i].ip = ip
  PROVE  lastFailure(ip) \in Nat
<1> DEFINE S == {i \in DOMAIN log : log[i].ip = ip}
<1>1. S \subseteq 0 .. Len(log) /\ S # {} /\ Len(log) \in Nat
  BY LogType
<1>2. \E i \in S : \A j \in S : j <= i
  <2> HIDE DEF S
  <2> QED BY <1>1, GreatestExists
<1>3. \E i \in DOMAIN log :
        log[i].ip = ip /\ \A j \in DOMAIN log : log[j].ip = ip => j <= i
  BY <1>2
<1>4. lastFailure(ip) \in DOMAIN log
  BY <1>3 DEF lastFailure
<1> QED BY <1>4, LogType

LEMMA EvictedType ==
  ASSUME NEW others PROVE evicted(others) \subseteq others
BY DEF evicted

\* When the table is full somebody is evicted.
LEMMA EvictedExists ==
  ASSUME TypeOK, TableInv, NEW others, others \subseteq tracked,
         Cardinality(others) >= MaxTracked
  PROVE  evicted(others) # {}
<1> DEFINE L == {lastFailure(ip) : ip \in others}
<1>1. others # {}
  BY FS_EmptySet, Limits
<1>2. ASSUME NEW ip \in others PROVE lastFailure(ip) \in Nat
  BY LastFailureType DEF TableInv, TrackedFailed
<1>3. L \subseteq Nat /\ L # {}
  BY <1>1, <1>2
<1>4. PICK l \in L : \A m \in L : l <= m
  <2> HIDE DEF L
  <2> QED BY <1>3, LeastExists
<1>5. PICK ip \in others : l = lastFailure(ip)
  BY <1>4
<1>6. \A x \in others : lastFailure(ip) <= lastFailure(x)
  BY <1>4, <1>5
<1> QED BY <1>6 DEF evicted

LEMMA TableStep ==
  TypeOK /\ TypeOK' /\ TableInv /\ [Next]_vars => TableInv'
<1> SUFFICES ASSUME TypeOK, TypeOK', TableInv, [Next]_vars PROVE TableInv'
  OBVIOUS
<1>1. ASSUME NEW ip \in IPs, LoginFails(ip) PROVE TableInv'
  <2> DEFINE kept == pruned \ {ip}
             others == kept \ evicted(kept)
  <2>1. log' = Append(log, [ip |-> ip, at |-> now])
    BY <1>1 DEF LoginFails, recordFailure
  <2>2. tracked' = others \cup {ip}
    BY <1>1 DEF LoginFails, recordFailure
  <2>3. /\ kept \subseteq tracked /\ others \subseteq tracked
        /\ ip \notin others
    BY DEF pruned
  <2>4. Untracked'
    <3>1. ASSUME NEW x \in IPs, x # ip, x \notin others
          PROVE  failures'[x] = {} /\ lockedUntil'[x] = 0
      BY <1>1, <3>1 DEF LoginFails, recordFailure
    <3> HIDE DEF others
    <3> QED BY <2>2, <3>1 DEF Untracked
  <2>5. TrackedFailed'
    <3> SUFFICES ASSUME NEW x \in tracked' PROVE \E i \in DOMAIN log' : log'[i].ip = x
      BY DEF TrackedFailed
    <3>1. CASE x = ip
      BY <2>1, <3>1, LogGrows
    <3>2. CASE x # ip
      <4>1. PICK i \in DOMAIN log : log[i].ip = x
        BY <2>2, <2>3, <3>2 DEF TableInv, TrackedFailed
      <4> QED BY <2>1, <4>1, LogGrows
    <3> QED BY <3>1, <3>2
  <2>6. Cardinality(others) <= MaxTracked - 1 /\ IsFiniteSet(others)
        /\ Cardinality(others) \in Nat
    <3>1. /\ IsFiniteSet(kept) /\ Cardinality(kept) \in Nat
          /\ Cardinality(kept) <= MaxTracked
      <4> HIDE DEF kept
      <4> QED BY <2>3, TrackedFinite, Limits DEF TableInv, TableIsBounded
    <3>2. CASE Cardinality(kept) < MaxTracked
      <4>1. evicted(kept) = {}
        BY <3>1, <3>2, Limits DEF evicted
      <4> HIDE DEF kept
      <4> QED BY <3>1, <3>2, <4>1, Limits
    <3>3. CASE Cardinality(kept) >= MaxTracked
      <4> HIDE DEF kept
      <4>1. PICK x \in kept : x \in evicted(kept)
        BY <2>3, <3>3, EvictedExists, EvictedType
      <4>2. /\ IsFiniteSet(kept \ {x})
            /\ Cardinality(kept \ {x}) = Cardinality(kept) - 1
        BY <3>1, FS_RemoveElement
      <4>3. others \subseteq kept \ {x}
        BY <4>1
      <4> HIDE DEF others
      <4>4. /\ IsFiniteSet(others) /\ Cardinality(others) \in Nat
            /\ Cardinality(others) <= Cardinality(kept \ {x})
        BY <4>2, <4>3, SubsetBound
      <4> QED BY <3>1, <4>2, <4>4, Limits
    <3> QED BY <3>1, <3>2, <3>3, Limits
  <2>7. TableIsBounded'
    <3> HIDE DEF others
    <3>1. Cardinality(others \cup {ip}) = Cardinality(others) + 1
      BY <2>3, <2>6, FS_AddElement
    <3> QED BY <2>2, <2>6, <3>1, Limits DEF TableIsBounded
  <2> QED BY <2>4, <2>5, <2>7 DEF TableInv
<1>2. ASSUME NEW ip \in IPs, LoginSucceeds(ip) PROVE TableInv'
  <2>1. /\ tracked' = tracked \ {ip} /\ log' = log
        /\ failures' = [failures EXCEPT ![ip] = {}]
        /\ lockedUntil' = [lockedUntil EXCEPT ![ip] = 0]
    BY <1>2 DEF LoginSucceeds, recordSuccess
  <2>2. TableIsBounded'
    <3>1. tracked' \subseteq tracked
      BY <2>1
    <3> QED BY <3>1, TrackedFinite, Limits DEF TableInv, TableIsBounded
  <2>3. Untracked' /\ TrackedFailed'
    BY <2>1 DEF TableInv, Untracked, TrackedFailed, TypeOK
  <2> QED BY <2>2, <2>3 DEF TableInv
<1>3. CASE Tick \/ UNCHANGED vars
  BY <1>3 DEF Tick, vars, limiterVars, historyVars, TableInv, Untracked,
              TrackedFailed, TableIsBounded
<1> QED BY <1>1, <1>2, <1>3 DEF Next

LEMMA TableInit == Init => TableInv
BY FS_EmptySet, Limits DEF Init, TableInv, Untracked, TrackedFailed, TableIsBounded

\* The table never grows past its cap, whatever addresses fail and in what order.
THEOREM TableBounded == Spec => []TableIsBounded
<1> DEFINE IInv == TypeOK /\ TableInv
<1>1. Init => IInv
  BY TypeInit, TableInit
<1>2. IInv /\ [Next]_vars => IInv'
  BY TypeStep, TableStep
<1>3. IInv => TableIsBounded
  BY DEF TableInv
<1> QED BY <1>1, <1>2, <1>3, PTL DEF Spec

-----------------------------------------------------------------------------
(* Lockouts. *)

\* Failures of others are all a locked-out address can see.
LEMMA FailureOfOther ==
  ASSUME TypeOK, NEW x \in IPs, LoginFails(x), NEW ip \in IPs, locked(ip, now)
  PROVE  /\ x # ip
         /\ DOMAIN log' = DOMAIN log \cup {Len(log) + 1}
         /\ log'[Len(log) + 1].ip = x
<1>1. log' = Append(log, [ip |-> x, at |-> now]) /\ ~blocked(x, now)
  BY DEF LoginFails, recordFailure
<1>2. x # ip
  BY <1>1 DEF blocked
<1> QED BY <1>1, <1>2, LogGrows

LEMMA LockoutStep ==
  ASSUME TypeOK, TableInv, [Next]_vars, NEW ip \in IPs, locked(ip, now)
  PROVE  /\ ~(\E i \in DOMAIN log' \ DOMAIN log : log'[i].ip = ip)
         /\ lockedUntil'[ip] # lockedUntil[ip] =>
              /\ Cardinality(tracked) = MaxTracked
              /\ \A x \in tracked : ~stale(x)
<1>t. ip \in tracked
  <2>1. lockedUntil[ip] # 0
    BY DEF locked, TypeOK
  <2> QED BY <2>1 DEF TableInv, Untracked
<1>1. ASSUME NEW x \in IPs, LoginFails(x)
      PROVE  /\ ~(\E i \in DOMAIN log' \ DOMAIN log : log'[i].ip = ip)
             /\ lockedUntil'[ip] # lockedUntil[ip] =>
                  /\ Cardinality(tracked) = MaxTracked
                  /\ \A y \in tracked : ~stale(y)
  <2> DEFINE kept == pruned \ {x}
  <2>1. /\ x # ip
        /\ ~(\E i \in DOMAIN log' \ DOMAIN log : log'[i].ip = ip)
    BY <1>1, FailureOfOther
  <2>2. ip \in kept
    BY <1>t, <2>1 DEF pruned, stale
  <2>3. ASSUME lockedUntil'[ip] # lockedUntil[ip]
        PROVE  /\ Cardinality(tracked) = MaxTracked
               /\ \A y \in tracked : ~stale(y)
    <3>1. ip \notin kept \ evicted(kept)
      <4>1. CASE ip \in kept \ evicted(kept)
        BY <1>1, <2>1, <2>3, <4>1 DEF LoginFails, recordFailure
      <4> QED BY <4>1
    <3>2. Cardinality(kept) >= MaxTracked
      BY <2>2, <3>1 DEF evicted
    <3>3. Cardinality(tracked) = MaxTracked
      <4>1. kept \subseteq tracked
        BY DEF pruned
      <4> HIDE DEF kept
      <4> QED BY <3>2, <4>1, TrackedFinite, Limits DEF TableInv, TableIsBounded
    <3>4. kept = tracked
      <4>1. kept \in SUBSET tracked
        BY DEF pruned
      <4>2. IsFiniteSet(tracked) /\ Cardinality(tracked) <= MaxTracked
        BY TrackedFinite DEF TableInv, TableIsBounded
      <4> HIDE DEF kept
      <4>3. Cardinality(kept) <= Cardinality(tracked) /\ Cardinality(kept) \in Nat
        BY <4>1, TrackedFinite
      <4>4. Cardinality(kept) = Cardinality(tracked)
        BY <3>2, <3>3, <4>3, Limits
      <4> QED BY <4>1, <4>2, <4>4, FS_Subset
    <3>5. pruneDue
      BY <3>3, Limits DEF pruneDue
    <3> QED BY <3>3, <3>4, <3>5 DEF pruned
  <2> QED BY <2>1, <2>3
<1>2. ASSUME NEW x \in IPs, LoginSucceeds(x)
      PROVE  log' = log /\ lockedUntil'[ip] = lockedUntil[ip]
  <2>1. x # ip
    BY <1>2 DEF LoginSucceeds, blocked
  <2> QED BY <1>2, <2>1 DEF LoginSucceeds, recordSuccess, TypeOK
<1>3. CASE Tick \/ UNCHANGED vars
  BY <1>3 DEF Tick, vars, limiterVars, historyVars
<1> QED BY <1>1, <1>2, <1>3 DEF Next

\* A lockout keeps every key of its address from being compared and ends early
\* only when the table is full of records that still count.
THEOREM LockoutsHold == Spec => LockoutHolds
<1> DEFINE IInv == TypeOK /\ TableInv
<1>1. Init => IInv
  BY TypeInit, TableInit
<1>2. IInv /\ [Next]_vars => IInv'
  BY TypeStep, TableStep
<1>3. IInv /\ [Next]_vars =>
        [\A ip \in IPs :
           locked(ip, now) =>
             /\ ~(\E i \in DOMAIN log' \ DOMAIN log : log'[i].ip = ip)
             /\ lockedUntil'[ip] # lockedUntil[ip] =>
                  /\ Cardinality(tracked) = MaxTracked
                  /\ \A x \in tracked : ~stale(x)]_vars
  BY LockoutStep
<1> QED BY <1>1, <1>2, <1>3, PTL DEF Spec, LockoutHolds

-----------------------------------------------------------------------------
(* The per-address lists.  Counted(ip) is what the history says the list   *)
(* of an address should hold; Tried(ip) is what it tried in this window.   *)

Counted(ip) == {i \in DOMAIN log :
  log[i].ip = ip /\ i > forgiven[ip] /\ i > lockedAt[ip] /\ InWindow(i)}

Tried(ip) == {i \in DOMAIN log :
  log[i].ip = ip /\ i > forgiven[ip] /\ InWindow(i)}

\* The list is exact.
ListExact(ip) == live(failures[ip], now) = Counted(ip)

\* It has not tripped the lockout.
ListShort(ip) == Cardinality(failures[ip]) < MaxFailures

ListInv == \A ip \in IPs : ListExact(ip) /\ ListShort(ip)

\* No failure lies in the future.
LogPast == \A i \in DOMAIN log : log[i].at <= now

\* What lies before the last lockout has left the window when it ends.
Served(ip) ==
  \A i \in DOMAIN log :
    log[i].ip = ip /\ i > forgiven[ip] /\ InWindow(i) =>
      i \in failures[ip] \/ log[i].at + Lockout <= lockedUntil[ip]

WithinBudget(ip) == Cardinality(Tried(ip)) <= MaxFailures

BudgetInv == Lockout >= Window => \A ip \in IPs : Served(ip) /\ WithinBudget(ip)

LEMMA LogPastStep == TypeOK /\ LogPast /\ [Next]_vars => LogPast'
<1> SUFFICES ASSUME TypeOK, LogPast, [Next]_vars PROVE LogPast'
  OBVIOUS
<1>1. ASSUME NEW ip \in IPs, LoginFails(ip) PROVE LogPast'
  <2>1. log' = Append(log, [ip |-> ip, at |-> now]) /\ now' = now
    BY <1>1 DEF LoginFails, recordFailure
  <2>2. now \in Nat
    BY DEF TypeOK
  <2> SUFFICES ASSUME NEW i \in DOMAIN log' PROVE log'[i].at <= now
    BY <2>1 DEF LogPast
  <2>3. CASE i \in DOMAIN log
    BY <2>1, <2>3, LogGrows DEF LogPast
  <2>4. CASE i = Len(log) + 1
    BY <2>1, <2>2, <2>4, LogGrows
  <2> QED BY <2>1, <2>3, <2>4, LogGrows
<1>2. CASE \/ \E ip \in IPs : LoginSucceeds(ip)
           \/ Tick
           \/ UNCHANGED vars
  <2>1. log' = log /\ now' >= now /\ now' \in Nat /\ now \in Nat
    BY <1>2 DEF LoginSucceeds, Tick, limiterVars, historyVars, vars, TypeOK
  <2>2. ASSUME NEW i \in DOMAIN log PROVE log[i].at <= now'
    <3>1. log[i].at \in Nat /\ log[i].at <= now
      BY LogType DEF LogPast
    <3> QED BY <2>1, <3>1
  <2> QED BY <2>1, <2>2 DEF LogPast
<1> QED BY <1>1, <1>2 DEF Next

\* The lists are finite and a live part is no longer than the whole.
LEMMA ListFinite ==
  ASSUME TypeOK, NEW ip \in IPs
  PROVE  /\ IsFiniteSet(failures[ip]) /\ Cardinality(failures[ip]) \in Nat
         /\ IsFiniteSet(live(failures[ip], now))
         /\ Cardinality(live(failures[ip], now)) \in Nat
         /\ Cardinality(live(failures[ip], now)) <= Cardinality(failures[ip])
<1>1. failures[ip] \subseteq 1 .. Len(log) /\ Len(log) \in Nat
  BY LogType DEF TypeOK
<1>2. IsFiniteSet(1 .. Len(log))
  BY <1>1, FS_Interval
<1>3. live(failures[ip], now) \subseteq failures[ip]
  BY LiveType
<1> QED BY <1>1, <1>2, <1>3, SubsetBound

\* The marks of the history lie in it.
MarksPast == \A ip \in IPs : forgiven[ip] <= Len(log) /\ lockedAt[ip] <= Len(log)

LEMMA MarksStep == TypeOK /\ MarksPast /\ [Next]_vars => MarksPast'
<1> SUFFICES ASSUME TypeOK, MarksPast, [Next]_vars PROVE MarksPast'
  OBVIOUS
<1>1. ASSUME NEW ip \in IPs, LoginFails(ip) PROVE MarksPast'
  <2>1. /\ log' = Append(log, [ip |-> ip, at |-> now])
        /\ \A x \in IPs : forgiven'[x] \in {forgiven[x], Len(log)}
        /\ \A x \in IPs : lockedAt'[x] \in {lockedAt[x], Len(log) + 1}
    BY <1>1 DEF LoginFails, recordFailure, TypeOK
  <2>2. Len(log) \in Nat /\ Len(log') = Len(log) + 1
    BY <2>1, LogType, LogGrows
  <2>3. \A x \in IPs : forgiven[x] \in Nat /\ lockedAt[x] \in Nat
    BY DEF TypeOK
  <2> QED BY <2>1, <2>2, <2>3 DEF MarksPast
<1>2. ASSUME NEW ip \in IPs, LoginSucceeds(ip) PROVE MarksPast'
  BY <1>2, LogType DEF LoginSucceeds, recordSuccess, MarksPast, TypeOK
<1>3. CASE Tick \/ UNCHANGED vars
  BY <1>3 DEF Tick, vars, limiterVars, historyVars, MarksPast
<1> QED BY <1>1, <1>2, <1>3 DEF Next

\* What a wrong key does to the record of its address.
LEMMA FailureOwn ==
  ASSUME TypeOK, MarksPast, NEW ip \in IPs, LoginFails(ip)
  PROVE  LET new == Len(log) + 1
             recent == live(failures[ip], now) \cup {new}
         IN  /\ log' = Append(log, [ip |-> ip, at |-> now]) /\ now' = now
             /\ forgiven'[ip] = forgiven[ip] /\ forgiven[ip] < new
             /\ \/ /\ Cardinality(recent) >= MaxFailures
                   /\ failures'[ip] = {} /\ lockedAt'[ip] = new
                   /\ lockedUntil'[ip] = now + Lockout
                \/ /\ ~(Cardinality(recent) >= MaxFailures)
                   /\ failures'[ip] = recent
                   /\ lockedAt'[ip] = lockedAt[ip] /\ lockedAt[ip] < new
<1> DEFINE new == Len(log) + 1
           recent == live(failures[ip], now) \cup {new}
<1>1. /\ log' = Append(log, [ip |-> ip, at |-> now]) /\ now' = now
      /\ forgiven' = [x \in IPs |-> IF x \in evicted(pruned \ {ip})
                                    THEN Len(log) ELSE forgiven[x]]
  BY DEF LoginFails, recordFailure
<1>2. forgiven'[ip] = forgiven[ip]
  BY <1>1, EvictedType
<1>3. forgiven[ip] < new /\ lockedAt[ip] < new
  BY LogType DEF MarksPast, TypeOK
<1>4. CASE tripsLockout(recent)
  <2>1. failures'[ip] = {} /\ lockedUntil'[ip] = now + Lockout
    BY <1>4 DEF LoginFails, recordFailure
  <2>2. lockedAt'[ip] = new
    BY <1>4 DEF LoginFails, recordFailure, TypeOK
  <2> QED BY <1>1, <1>2, <1>3, <1>4, <2>1, <2>2 DEF tripsLockout
<1>5. CASE ~tripsLockout(recent)
  <2>1. failures'[ip] = recent /\ lockedAt'[ip] = lockedAt[ip]
    BY <1>5 DEF LoginFails, recordFailure
  <2> QED BY <1>1, <1>2, <1>3, <1>5, <2>1 DEF tripsLockout
<1> QED BY <1>4, <1>5

\* And to the others: the record stays, or it was stale and goes, or it is
\* evicted.
LEMMA FailureOthers ==
  ASSUME TypeOK, TableInv, NEW ip \in IPs, LoginFails(ip), NEW x \in IPs, x # ip
  PROVE  /\ lockedAt'[x] = lockedAt[x]
         /\ \/ /\ failures'[x] = failures[x] /\ lockedUntil'[x] = lockedUntil[x]
               /\ forgiven'[x] = forgiven[x]
            \/ /\ stale(x) /\ failures'[x] = {} /\ lockedUntil'[x] = 0
               /\ forgiven'[x] = forgiven[x]
            \/ /\ failures'[x] = {} /\ lockedUntil'[x] = 0
               /\ forgiven'[x] = Len(log)
<1> DEFINE kept == pruned \ {ip}
           others == kept \ evicted(kept)
<1>1. /\ failures'[x] = IF x \in others THEN failures[x] ELSE {}
      /\ lockedUntil'[x] = IF x \in others THEN lockedUntil[x] ELSE 0
      /\ forgiven'[x] = IF x \in evicted(kept) THEN Len(log) ELSE forgiven[x]
  BY DEF LoginFails, recordFailure
<1>2. lockedAt'[x] = lockedAt[x]
  BY DEF LoginFails, recordFailure, TypeOK
<1>3. CASE x \in others
  BY <1>1, <1>2, <1>3
<1>4. CASE x \in evicted(kept)
  BY <1>1, <1>2, <1>4
<1>5. CASE x \notin others /\ x \notin evicted(kept)
  <2>1. x \notin pruned
    BY <1>5
  <2>2. CASE x \in tracked
    <3>1. stale(x)
      BY <2>1, <2>2 DEF pruned
    <3> QED BY <1>1, <1>2, <1>5, <3>1
  <2>3. CASE x \notin tracked
    <3>1. failures[x] = {} /\ lockedUntil[x] = 0
      BY <2>3 DEF TableInv, Untracked
    <3> QED BY <1>1, <1>2, <1>5, <3>1
  <2> QED BY <2>2, <2>3
<1> QED BY <1>3, <1>4, <1>5

LEMMA ListStep ==
  TypeOK /\ TypeOK' /\ TableInv /\ MarksPast /\ ListInv /\ [Next]_vars => ListInv'
<1> SUFFICES ASSUME TypeOK, TypeOK', TableInv, MarksPast, ListInv, [Next]_vars,
                    NEW x \in IPs
             PROVE  ListExact(x)' /\ ListShort(x)'
  BY DEF ListInv
<1>0. ListExact(x) /\ ListShort(x)
  BY DEF ListInv
<1>n. now \in Nat /\ Window \in Nat \ {0} /\ \A i \in DOMAIN log : log[i].at \in Nat
  BY LogType, Limits DEF TypeOK
<1>e. Cardinality({}) < MaxFailures
  BY FS_EmptySet, Limits
<1>1. ASSUME NEW ip \in IPs, LoginFails(ip) PROVE ListExact(x)' /\ ListShort(x)'
  <2> DEFINE new == Len(log) + 1
             recent == live(failures[ip], now) \cup {new}
  <2>1. /\ log' = Append(log, [ip |-> ip, at |-> now]) /\ now' = now
    BY <1>1 DEF LoginFails, recordFailure
  <2>2. /\ DOMAIN log' = DOMAIN log \cup {new} /\ new \notin DOMAIN log
        /\ log'[new].ip = ip /\ log'[new].at = now
        /\ \A i \in DOMAIN log : log'[i] = log[i] /\ i < new /\ i <= Len(log)
    BY <2>1, LogGrows, LogType
  <2>3. \A i \in DOMAIN log : InWindow(i)' <=> InWindow(i)
    BY <2>1, <2>2 DEF InWindow
  <2>4. CASE x = ip
    <3>1. CASE /\ failures'[ip] = {} /\ lockedAt'[ip] = new
      <4>1. Counted(x)' = {}
        BY <2>2, <2>4, <3>1, LogType DEF Counted
      <4>2. live(failures[x], now)' = {}
        BY <2>4, <3>1 DEF live
      <4> QED BY <1>e, <2>4, <3>1, <4>1, <4>2 DEF ListExact, ListShort
    <3>2. CASE /\ ~(Cardinality(recent) >= MaxFailures)
               /\ failures'[ip] = recent
               /\ lockedAt'[ip] = lockedAt[ip] /\ lockedAt[ip] < new
      <4>1. forgiven'[ip] = forgiven[ip] /\ forgiven[ip] < new
        BY <1>1, FailureOwn
      <4>2. log'[new].at > now' - Window
        BY <1>n, <2>1, <2>2
      <4>3. Counted(x)' = Counted(x) \cup {new}
        BY <2>2, <2>3, <2>4, <3>2, <4>1, <4>2 DEF Counted, InWindow
      <4>4. live(failures[x], now)' = recent
        <5>1. \A i \in live(failures[ip], now) : i \in DOMAIN log /\ InWindow(i)
          BY DEF live, InWindow, TypeOK
        <5>2. \A i \in recent : log'[i].at > now' - Window
          BY <2>3, <4>2, <5>1 DEF InWindow
        <5> QED BY <2>4, <3>2, <5>2 DEF live
      <4>5. Cardinality(recent) \in Nat /\ MaxFailures \in Nat
        <5>1. IsFiniteSet(live(failures[ip], now))
          BY ListFinite
        <5> QED BY <5>1, FS_AddElement, FS_CardinalityType, Limits
      <4>6. ListShort(x)'
        BY <2>4, <3>2, <4>5 DEF ListShort
      <4> QED BY <1>0, <2>4, <4>3, <4>4, <4>6 DEF ListExact
    <3> QED BY <1>1, <3>1, <3>2, FailureOwn
  <2>5. CASE x # ip
    <3>1. ASSUME NEW i \in DOMAIN log', log'[i].ip = x PROVE i \in DOMAIN log /\ i # new
      BY <2>2, <2>5, <3>1
    <3>2. lockedAt'[x] = lockedAt[x]
      BY <1>1, <2>5, FailureOthers
    <3>3. ASSUME forgiven'[x] = forgiven[x] PROVE Counted(x)' = Counted(x)
      BY <2>2, <2>3, <3>1, <3>2, <3>3 DEF Counted
    <3>4. CASE failures'[x] = failures[x] /\ forgiven'[x] = forgiven[x]
      <4>1. live(failures[x], now)' = live(failures[x], now)
        BY <2>1, <2>2, <3>4 DEF live, TypeOK
      <4> QED BY <1>0, <3>3, <3>4, <4>1 DEF ListExact, ListShort
    <3>5. CASE stale(x) /\ failures'[x] = {} /\ forgiven'[x] = forgiven[x]
      <4>1. live(failures[x], now)' = {} /\ live(failures[x], now) = {}
        BY <3>5 DEF live, stale
      <4> QED BY <1>0, <1>e, <3>3, <3>5, <4>1 DEF ListExact, ListShort
    <3>6. CASE failures'[x] = {} /\ forgiven'[x] = Len(log)
      <4>1. live(failures[x], now)' = {}
        BY <3>6 DEF live
      <4>2. Counted(x)' = {}
        <5>1. ASSUME NEW i \in Counted(x)' PROVE FALSE
          <6>1. i \in DOMAIN log /\ i > Len(log)
            BY <3>1, <3>6, <5>1 DEF Counted
          <6> QED BY <6>1, LogType
        <5> QED BY <5>1
      <4> QED BY <1>e, <3>6, <4>1, <4>2 DEF ListExact, ListShort
    <3> QED BY <1>1, <2>5, <3>4, <3>5, <3>6, FailureOthers
  <2> QED BY <2>4, <2>5
<1>2. ASSUME NEW ip \in IPs, LoginSucceeds(ip) PROVE ListExact(x)' /\ ListShort(x)'
  <2>1. /\ log' = log /\ now' = now /\ lockedAt' = lockedAt
        /\ failures' = [failures EXCEPT ![ip] = {}]
        /\ forgiven' = [forgiven EXCEPT ![ip] = Len(log)]
    BY <1>2 DEF LoginSucceeds, recordSuccess
  <2>2. CASE x = ip
    <3>1. failures'[x] = {} /\ forgiven'[x] = Len(log)
      BY <2>1, <2>2 DEF TypeOK
    <3>2. Counted(x)' = {}
      BY <2>1, <3>1, LogType DEF Counted
    <3> QED BY <1>e, <3>1, <3>2 DEF ListExact, ListShort, live
  <2>3. CASE x # ip
    <3>1. failures'[x] = failures[x] /\ forgiven'[x] = forgiven[x]
      BY <2>1, <2>3 DEF TypeOK
    <3> QED BY <1>0, <2>1, <3>1 DEF ListExact, ListShort, Counted, InWindow, live
  <2> QED BY <2>2, <2>3
<1>3. CASE Tick \/ UNCHANGED vars
  <2>1. /\ log' = log /\ lockedAt' = lockedAt /\ failures' = failures /\ forgiven' = forgiven
        /\ now' >= now /\ now' \in Nat
    BY <1>3, <1>n DEF Tick, limiterVars, historyVars, vars
  <2>2. \A i \in DOMAIN log : log[i].at > now' - Window => log[i].at > now - Window
    BY <1>n, <2>1
  <2>3. failures[x] \subseteq DOMAIN log
    BY DEF TypeOK
  <2>4. \A i \in DOMAIN log : log[i].at > now - Window =>
          (i \in failures[x] <=> log[i].ip = x /\ i > forgiven[x] /\ i > lockedAt[x])
    BY <1>0, <2>3 DEF ListExact, live, Counted, InWindow
  <2>5. live(failures[x], now)' = Counted(x)'
    BY <2>1, <2>2, <2>3, <2>4 DEF live, Counted, InWindow
  <2> QED BY <1>0, <2>1, <2>5 DEF ListExact, ListShort
<1> QED BY <1>1, <1>2, <1>3 DEF Next

LEMMA ListInit == Init => ListInv /\ MarksPast /\ LogPast
BY FS_EmptySet, Limits
DEF Init, ListInv, ListExact, ListShort, MarksPast, LogPast, live, Counted

LEMMA ListIsRemaining == TypeOK /\ ListInv => RemainingIsExact
<1> SUFFICES ASSUME TypeOK, ListInv, NEW ip \in IPs
             PROVE  /\ remaining(ip, now) = MaxFailures - Cardinality(Counted(ip))
                    /\ remaining(ip, now) >= 1
  BY DEF RemainingIsExact, Counted
<1>1. live(failures[ip], now) = Counted(ip)
  BY DEF ListInv, ListExact
<1>2. Cardinality(failures[ip]) < MaxFailures
  BY DEF ListInv, ListShort
<1>3. remaining(ip, now) >= 1
  BY <1>2, ListFinite, Limits DEF remaining
<1> QED BY <1>1, <1>3 DEF remaining

\* The number of attempts the login page announces is what the whole history
\* of the address leaves it, and never 0 while it is let in.
THEOREM RemainingExact == Spec => []RemainingIsExact
<1> DEFINE IInv == TypeOK /\ TableInv /\ MarksPast /\ ListInv
<1>1. Init => IInv
  BY TypeInit, TableInit, ListInit
<1>2. IInv /\ [Next]_vars => IInv'
  BY TypeStep, TableStep, MarksStep, ListStep
<1>3. IInv => RemainingIsExact
  BY ListIsRemaining
<1> QED BY <1>1, <1>2, <1>3, PTL DEF Spec

-----------------------------------------------------------------------------
(* The budget of one address.                                              *)

\* While an address is let in, its list holds all it tried in the window.
LEMMA OpenListComplete ==
  ASSUME TypeOK, Lockout >= Window, NEW ip \in IPs, Served(ip), ~locked(ip, now)
  PROVE  Tried(ip) \subseteq live(failures[ip], now)
<1> SUFFICES ASSUME NEW i \in Tried(ip) PROVE i \in live(failures[ip], now)
  OBVIOUS
<1>1. /\ i \in DOMAIN log /\ InWindow(i)
      /\ i \in failures[ip] \/ log[i].at + Lockout <= lockedUntil[ip]
  BY DEF Tried, Served
<1>2. log[i].at \in Nat /\ now \in Nat /\ lockedUntil[ip] \in Nat
  BY <1>1, LogType DEF TypeOK
<1>3. ~(log[i].at + Lockout <= lockedUntil[ip])
  BY <1>1, <1>2, Limits DEF locked, InWindow
<1> QED BY <1>1, <1>3 DEF live, InWindow

LEMMA TriedFinite ==
  ASSUME TypeOK, NEW ip \in IPs
  PROVE  IsFiniteSet(Tried(ip)) /\ Cardinality(Tried(ip)) \in Nat
<1>1. Tried(ip) \subseteq 1 .. Len(log) /\ Len(log) \in Nat
  BY LogType DEF Tried
<1>2. IsFiniteSet(1 .. Len(log))
  BY <1>1, FS_Interval
<1> QED BY <1>1, <1>2, SubsetBound

LEMMA FewerTried ==
  ASSUME TypeOK, NEW ip \in IPs, WithinBudget(ip), NEW T, T \subseteq Tried(ip)
  PROVE  Cardinality(T) <= MaxFailures
BY TriedFinite, SubsetBound, Limits DEF WithinBudget

LEMMA BudgetStep ==
  TypeOK /\ TypeOK' /\ TableInv /\ MarksPast /\ LogPast /\ LogPast' /\ ListInv
    /\ BudgetInv /\ [Next]_vars
    => BudgetInv'
<1> SUFFICES ASSUME TypeOK, TypeOK', TableInv, MarksPast, LogPast, LogPast', ListInv,
                    BudgetInv, [Next]_vars, Lockout >= Window, NEW x \in IPs
             PROVE  Served(x)' /\ WithinBudget(x)'
  BY DEF BudgetInv
<1>0. Served(x) /\ WithinBudget(x)
  BY DEF BudgetInv
<1>n. now \in Nat /\ \A i \in DOMAIN log : log[i].at \in Nat
  BY LogType DEF TypeOK
<1>e. ASSUME Tried(x)' = {} PROVE Served(x)' /\ WithinBudget(x)'
  <2>1. WithinBudget(x)'
    BY <1>e, FS_EmptySet, Limits DEF WithinBudget
  <2>2. Served(x)'
    BY <1>e DEF Served, Tried
  <2> QED BY <2>1, <2>2
<1>s. ASSUME Tried(x)' \subseteq Tried(x), failures'[x] = failures[x],
             lockedUntil'[x] = lockedUntil[x],
             \A i \in DOMAIN log : log'[i] = log[i]
      PROVE  Served(x)' /\ WithinBudget(x)'
  <2>1. WithinBudget(x)'
    BY <1>0, <1>s, FewerTried DEF WithinBudget
  <2>2. \A i \in Tried(x) :
          i \in DOMAIN log
          /\ (i \in failures[x] \/ log[i].at + Lockout <= lockedUntil[x])
    BY <1>0 DEF Served, Tried
  <2>3. \A i \in Tried(x)' : i \in failures'[x] \/ log'[i].at + Lockout <= lockedUntil'[x]
    BY <1>s, <2>2
  <2>4. Served(x)'
    BY <2>3 DEF Served, Tried
  <2> QED BY <2>1, <2>4
<1>1. ASSUME NEW ip \in IPs, LoginFails(ip) PROVE Served(x)' /\ WithinBudget(x)'
  <2> DEFINE new == Len(log) + 1
             recent == live(failures[ip], now) \cup {new}
  <2>1. log' = Append(log, [ip |-> ip, at |-> now]) /\ now' = now /\ ~locked(ip, now)
    BY <1>1 DEF LoginFails, recordFailure, blocked
  <2>2. /\ DOMAIN log' = DOMAIN log \cup {new} /\ new \notin DOMAIN log
        /\ log'[new].ip = ip /\ log'[new].at = now
        /\ \A i \in DOMAIN log : log'[i] = log[i] /\ i < new /\ i <= Len(log)
    BY <2>1, LogGrows, LogType
  <2>3. \A i \in DOMAIN log : InWindow(i)' <=> InWindow(i)
    BY <2>1, <2>2 DEF InWindow
  <2>4. ASSUME forgiven'[x] = forgiven[x], NEW i \in Tried(x)', i # new \/ x # ip
        PROVE  i \in Tried(x)
    <3>1. i \in DOMAIN log' /\ log'[i].ip = x /\ i > forgiven[x] /\ InWindow(i)'
      BY <2>4 DEF Tried
    <3>2. i \in DOMAIN log /\ log[i].ip = x
      BY <2>2, <2>4, <3>1
    <3> QED BY <2>3, <3>1, <3>2 DEF Tried
  <2>5. CASE x = ip
    <3>1. Tried(x)' \subseteq recent
      <4>1. forgiven'[x] = forgiven[x]
        BY <1>1, <2>5, FailureOwn
      <4>2. Tried(x) \subseteq live(failures[ip], now)
        BY <1>0, <2>1, <2>5, OpenListComplete
      <4> QED BY <2>4, <4>1, <4>2
    <3>2. IsFiniteSet(recent) /\ Cardinality(recent) \in Nat
          /\ Cardinality(recent) <= MaxFailures
      <4> DEFINE counted == live(failures[ip], now)
      <4>1. /\ IsFiniteSet(counted) /\ Cardinality(counted) \in Nat
            /\ Cardinality(counted) <= Cardinality(failures[ip])
            /\ Cardinality(failures[ip]) \in Nat
            /\ Cardinality(failures[ip]) < MaxFailures
        BY ListFinite DEF ListInv, ListShort
      <4> HIDE DEF counted, new
      <4>2. /\ IsFiniteSet(recent)
            /\ Cardinality(recent) = IF new \in counted THEN Cardinality(counted)
                                     ELSE Cardinality(counted) + 1
        BY <4>1, FS_AddElement DEF counted
      <4> QED BY <4>1, <4>2, Limits
    <3>3. WithinBudget(x)'
      <4> HIDE DEF recent
      <4>1. Cardinality(Tried(x)') <= Cardinality(recent) /\ Cardinality(Tried(x)') \in Nat
        BY <3>1, <3>2, SubsetBound
      <4> QED BY <3>2, <4>1, Limits DEF WithinBudget
    <3>4. CASE failures'[ip] = recent
      BY <2>5, <3>1, <3>3, <3>4 DEF Served, Tried
    <3>5. CASE lockedUntil'[ip] = now + Lockout
      <4>1. \A i \in DOMAIN log' : log'[i].at \in Nat /\ log'[i].at <= now
        BY <1>n, <2>1, <2>2 DEF LogPast
      <4>2. \A i \in DOMAIN log' : log'[i].at + Lockout <= lockedUntil'[x]
        BY <1>n, <2>5, <3>5, <4>1, Limits
      <4> QED BY <3>3, <4>2 DEF Served
    <3> QED BY <1>1, <3>4, <3>5, FailureOwn
  <2>6. CASE x # ip
    <3>1. CASE /\ failures'[x] = failures[x] /\ lockedUntil'[x] = lockedUntil[x]
               /\ forgiven'[x] = forgiven[x]
      BY <1>s, <2>2, <2>4, <2>6, <3>1
    <3>2. CASE stale(x) /\ forgiven'[x] = forgiven[x]
      <4>1. Tried(x) = {}
        BY <1>0, <3>2, OpenListComplete DEF stale
      <4>2. Tried(x)' = {}
        BY <2>4, <2>6, <3>2, <4>1
      <4> QED BY <1>e, <4>2
    <3>3. CASE forgiven'[x] = Len(log)
      <4>1. ASSUME NEW i \in Tried(x)' PROVE FALSE
        <5>1. i \in DOMAIN log /\ i > Len(log)
          BY <2>2, <2>6, <3>3, <4>1 DEF Tried
        <5> QED BY <5>1, LogType
      <4> QED BY <1>e, <4>1
    <3> QED BY <1>1, <2>6, <3>1, <3>2, <3>3, FailureOthers
  <2> QED BY <2>5, <2>6
<1>2. ASSUME NEW ip \in IPs, LoginSucceeds(ip) PROVE Served(x)' /\ WithinBudget(x)'
  <2>1. /\ log' = log /\ now' = now
        /\ failures' = [failures EXCEPT ![ip] = {}]
        /\ lockedUntil' = [lockedUntil EXCEPT ![ip] = 0]
        /\ forgiven' = [forgiven EXCEPT ![ip] = Len(log)]
    BY <1>2 DEF LoginSucceeds, recordSuccess
  <2>2. CASE x = ip
    <3>1. forgiven'[x] = Len(log)
      BY <2>1, <2>2 DEF TypeOK
    <3>2. Tried(x)' = {}
      BY <2>1, <3>1, LogType DEF Tried
    <3> QED BY <1>e, <3>2
  <2>3. CASE x # ip
    <3>1. /\ failures'[x] = failures[x] /\ lockedUntil'[x] = lockedUntil[x]
          /\ forgiven'[x] = forgiven[x]
      BY <2>1, <2>3 DEF TypeOK
    <3>2. Tried(x)' = Tried(x)
      BY <2>1, <3>1 DEF Tried, InWindow
    <3> QED BY <1>s, <2>1, <3>1, <3>2
  <2> QED BY <2>2, <2>3
<1>3. CASE Tick \/ UNCHANGED vars
  <2>1. /\ log' = log /\ failures' = failures /\ forgiven' = forgiven
        /\ lockedUntil' = lockedUntil /\ now' >= now /\ now' \in Nat
    BY <1>3, <1>n DEF Tick, limiterVars, historyVars, vars
  <2>2. \A i \in DOMAIN log : log[i].at > now' - Window => log[i].at > now - Window
    BY <1>n, <2>1, Limits
  <2>3. Tried(x)' \subseteq Tried(x)
    BY <2>1, <2>2 DEF Tried, InWindow
  <2> QED BY <1>s, <2>1, <2>3
<1> QED BY <1>1, <1>2, <1>3 DEF Next

LEMMA BudgetInit == Init => BudgetInv
BY FS_EmptySet, Limits DEF Init, BudgetInv, Served, WithinBudget, Tried

\* When a lockout lasts a window, no address gets more than maxFailures wrong
\* keys compared in any window, except for what a right key or an eviction
\* forgave.
THEOREM PerIpBudgetHolds == Spec => []PerIpBudget
<1> DEFINE IInv == /\ TypeOK /\ TableInv /\ MarksPast /\ LogPast /\ ListInv
                   /\ BudgetInv
<1>1. Init => IInv
  BY TypeInit, TableInit, ListInit, BudgetInit
<1>2. IInv /\ [Next]_vars => IInv'
  BY TypeStep, TableStep, MarksStep, LogPastStep, ListStep, BudgetStep
<1>3. IInv => PerIpBudget
  BY DEF BudgetInv, WithinBudget, Tried, PerIpBudget
<1> QED BY <1>1, <1>2, <1>3, PTL DEF Spec

-----------------------------------------------------------------------------
(* Retry-After.                                                            *)

\* A full array with nothing aged out at t blocks at t; one with an entry
\* aged out does not.
LEMMA WaitAt ==
  ASSUME TypeOK, GlobalIsComplete, GlobalMax > 0, NEW t \in Nat,
         NEW first \in global, \A j \in global : log[first].at <= log[j].at,
         Cardinality(global) = GlobalMax
  PROVE  /\ log[first].at > t - Window => globalWait(t) > 0
         /\ log[first].at <= t - Window => globalWait(t) = 0
<1> USE Limits
<1>g. /\ IsFiniteSet(global) /\ global \subseteq DOMAIN log /\ global \subseteq Nat
      /\ \A j \in global : log[j].at \in Nat
  BY LogType DEF GlobalIsComplete, TypeOK
<1>1. ASSUME log[first].at > t - Window PROVE globalWait(t) > 0
  <2> DEFINE oldest == CHOOSE i \in newestOf(global, GlobalMax) :
                         \A j \in newestOf(global, GlobalMax) : i <= j
  <2>1. live(global, t) = global
    BY <1>1, <1>g DEF live
  <2>2. newestOf(global, GlobalMax) = global
    BY <1>g, NewestAll
  <2>3. \E i \in global : \A j \in global : i <= j
    BY <1>g, LeastExists
  <2>4. oldest \in global
    BY <2>2, <2>3
  <2>5. globalWait(t) = log[oldest].at + Window - t
    <3>1. ~(GlobalMax = 0 \/ Cardinality(global) < GlobalMax)
      OBVIOUS
    <3> QED BY <2>1, <3>1, Zenon DEF globalWait
  <2>6. log[oldest].at \in Nat /\ log[first].at \in Nat /\ log[first].at <= log[oldest].at
    BY <1>g, <2>4
  <2> HIDE DEF oldest
  <2> QED BY <1>1, <2>5, <2>6
<1>2. ASSUME log[first].at <= t - Window PROVE globalWait(t) = 0
  <2>1. first \notin live(global, t)
    BY <1>2, <1>g DEF live
  <2>2. live(global, t) \subseteq global \ {first}
    BY <2>1, LiveType
  <2>3. /\ IsFiniteSet(global \ {first})
        /\ Cardinality(global \ {first}) = GlobalMax - 1
    BY <1>g, FS_RemoveElement
  <2>4. /\ Cardinality(live(global, t)) <= GlobalMax - 1
        /\ Cardinality(live(global, t)) \in Nat
    BY <2>2, <2>3, SubsetBound
  <2>5. Cardinality(live(global, t)) < GlobalMax
    BY <2>4
  <2> QED BY <2>5 DEF globalWait
<1> QED BY <1>1, <1>2

\* The log is in the order of time.
LogOrdered == \A i, j \in DOMAIN log : i <= j => log[i].at <= log[j].at

LEMMA LogOrderedStep ==
  TypeOK /\ LogPast /\ LogOrdered /\ [Next]_vars => LogOrdered'
<1> SUFFICES ASSUME TypeOK, LogPast, LogOrdered, [Next]_vars PROVE LogOrdered'
  OBVIOUS
<1>1. ASSUME NEW ip \in IPs, LoginFails(ip) PROVE LogOrdered'
  <2> DEFINE new == Len(log) + 1
  <2>1. log' = Append(log, [ip |-> ip, at |-> now])
    BY <1>1 DEF LoginFails, recordFailure
  <2>2. /\ DOMAIN log' = DOMAIN log \cup {new}
        /\ log'[new].at = now /\ now \in Nat
        /\ \A i \in DOMAIN log : log'[i] = log[i] /\ i < new /\ i \in Nat
    <3>1. now \in Nat
      BY DEF TypeOK
    <3> QED BY <2>1, <3>1, LogGrows, LogType
  <2> SUFFICES ASSUME NEW i \in DOMAIN log', NEW j \in DOMAIN log', i <= j
               PROVE  log'[i].at <= log'[j].at
    BY DEF LogOrdered
  <2>3. CASE j = new
    <3>1. CASE i = new
      BY <2>2, <2>3, <3>1
    <3>2. CASE i # new
      BY <2>2, <2>3, <3>2 DEF LogPast
    <3> QED BY <3>1, <3>2
  <2>4. CASE j # new
    <3>1. j \in DOMAIN log /\ j < new /\ j \in Nat
      BY <2>2, <2>4
    <3>2. i # new
      BY <3>1, LogType
    <3> QED BY <2>2, <3>1, <3>2 DEF LogOrdered
  <2> QED BY <2>3, <2>4
<1>2. CASE \/ \E ip \in IPs : LoginSucceeds(ip)
           \/ Tick
           \/ UNCHANGED vars
  BY <1>2 DEF LoginSucceeds, Tick, limiterVars, historyVars, vars, LogOrdered
<1> QED BY <1>1, <1>2 DEF Next

\* If the cap blocks now, the array is full, and it blocks exactly until
\* globalWait(now) has passed.
LEMMA GlobalWaitExact ==
  ASSUME TypeOK, GlobalIsComplete, LogOrdered, globalWait(now) > 0
  PROVE  /\ globalWait(now) \in Nat
         /\ \A t \in Nat : now <= t /\ t < now + globalWait(now) => globalWait(t) > 0
         /\ \A t \in Nat : t >= now + globalWait(now) => globalWait(t) = 0
<1> DEFINE oldest == CHOOSE i \in newestOf(live(global, now), GlobalMax) :
                       \A j \in newestOf(live(global, now), GlobalMax) : i <= j
<1>1. ~(GlobalMax = 0 \/ Cardinality(live(global, now)) < GlobalMax)
  <2>1. CASE GlobalMax = 0 \/ Cardinality(live(global, now)) < GlobalMax
    <3>1. globalWait(now) = 0
      BY <2>1 DEF globalWait
    <3> QED BY <3>1
  <2> QED BY <2>1
<1>2. globalWait(now) = log[oldest].at + Window - now
  BY <1>1, Zenon DEF globalWait
<1>3. /\ live(global, now) = global /\ Cardinality(global) = GlobalMax
      /\ IsFiniteSet(global) /\ GlobalMax > 0
  <2>1. live(global, now) \in SUBSET global
    BY LiveType
  <2>2. GlobalMax > 0 /\ IsFiniteSet(global) /\ Cardinality(global) <= GlobalMax
    BY <1>1, Limits DEF GlobalIsComplete
  <2>3. /\ Cardinality(live(global, now)) <= Cardinality(global)
        /\ Cardinality(live(global, now)) \in Nat /\ Cardinality(global) \in Nat
    BY <2>1, <2>2, SubsetBound
  <2>4. /\ Cardinality(live(global, now)) = Cardinality(global)
        /\ Cardinality(global) = GlobalMax
    BY <1>1, <2>2, <2>3, Limits
  <2> QED BY <2>1, <2>2, <2>4, FS_Subset
<1>4. newestOf(live(global, now), GlobalMax) = global
  BY <1>3, NewestAll, Limits
<1>5. \E i \in global : \A j \in global : i <= j
  <2>1. global # {}
    BY <1>3, FS_EmptySet, Limits
  <2>2. global \subseteq Nat
    BY LogType DEF TypeOK
  <2> QED BY <2>1, <2>2, LeastExists
<1>6. oldest \in global /\ \A j \in global : oldest <= j
  BY <1>4, <1>5
<1>7. /\ \A j \in global : log[oldest].at <= log[j].at
      /\ log[oldest].at \in Nat /\ now \in Nat
  <2> HIDE DEF oldest
  <2> QED BY <1>6, LogType DEF LogOrdered, TypeOK
<1>8. ASSUME NEW t \in Nat
      PROVE  /\ log[oldest].at > t - Window => globalWait(t) > 0
             /\ log[oldest].at <= t - Window => globalWait(t) = 0
  <2> HIDE DEF oldest
  <2> QED BY <1>3, <1>6, <1>7, WaitAt
<1> DEFINE wait == globalWait(now)
           at == log[oldest].at
<1>9. at \in Nat /\ wait = at + Window - now /\ wait > 0
  BY <1>2, <1>7
<1>10. \A t \in Nat : /\ at > t - Window => globalWait(t) > 0
                      /\ at <= t - Window => globalWait(t) = 0
  BY <1>8
<1> HIDE DEF wait, at
<1>11. wait \in Nat
  BY <1>7, <1>9, Limits
<1>12. \A t \in Nat : now <= t /\ t < now + wait => globalWait(t) > 0
  BY <1>7, <1>9, <1>10, <1>11, Limits
<1>13. \A t \in Nat : t >= now + wait => globalWait(t) = 0
  BY <1>7, <1>9, <1>10, <1>11, Limits
<1> QED BY <1>11, <1>12, <1>13 DEF wait

LEMMA WaitIsRetryAfter ==
  TypeOK /\ GlobalIsComplete /\ LogOrdered => RetryAfterIsExact
<1> SUFFICES ASSUME TypeOK, GlobalIsComplete, LogOrdered,
                    NEW ip \in IPs, blocked(ip, now)
             PROVE  LET then == now + retryAfter(ip, now) IN
                    /\ \A t \in now .. then - 1 : blocked(ip, t)
                    /\ blocked(ip, then) => locked(ip, now) /\ globalWait(then) > 0
  BY DEF RetryAfterIsExact
<1>t. now \in Nat /\ lockedUntil[ip] \in Nat
  BY DEF TypeOK
<1>1. CASE locked(ip, now)
  <2>1. now + retryAfter(ip, now) = lockedUntil[ip]
    BY <1>t, <1>1 DEF retryAfter
  <2>2. \A t \in now .. lockedUntil[ip] - 1 : blocked(ip, t)
    BY <1>t DEF blocked, locked
  <2>3. ~locked(ip, lockedUntil[ip])
    BY <1>t DEF locked
  <2> QED BY <1>1, <2>1, <2>2, <2>3 DEF blocked
<1>2. CASE ~locked(ip, now)
  <2>1. globalWait(now) > 0 /\ retryAfter(ip, now) = globalWait(now)
    BY <1>2 DEF blocked, retryAfter
  <2>2. /\ globalWait(now) \in Nat
        /\ \A t \in Nat : now <= t /\ t < now + globalWait(now) => globalWait(t) > 0
        /\ \A t \in Nat : t >= now + globalWait(now) => globalWait(t) = 0
    BY <2>1, GlobalWaitExact
  <2>3. PICK then \in Nat : then = now + globalWait(now) /\ then >= now
    BY <1>t, <2>2
  <2>4. ~blocked(ip, then)
    <3>1. globalWait(then) = 0
      BY <2>2, <2>3
    <3>2. ~locked(ip, then)
      BY <1>t, <1>2, <2>3 DEF locked
    <3> QED BY <3>1, <3>2 DEF blocked
  <2>5. \A t \in now .. then - 1 : blocked(ip, t)
    BY <1>t, <2>2, <2>3 DEF blocked
  <2> QED BY <2>1, <2>3, <2>4, <2>5
<1> QED BY <1>1, <1>2

\* A refused address is told how long it stays refused, to the millisecond.
THEOREM RetryAfterExact == Spec => []RetryAfterIsExact
<1> DEFINE IInv == TypeOK /\ GlobalIsComplete /\ LogPast /\ LogOrdered
<1>1. Init => IInv
  BY TypeInit, GlobalInit, ListInit DEF Init, LogOrdered
<1>2. IInv /\ [Next]_vars => IInv'
  BY TypeStep, GlobalStep, LogPastStep, LogOrderedStep
<1>3. IInv => RetryAfterIsExact
  BY WaitIsRetryAfter
<1> QED BY <1>1, <1>2, <1>3, PTL DEF Spec

-----------------------------------------------------------------------------
(* Eviction of lockouts.                                                   *)

\* Every lockout began with a failure of its address.
LockedByFailure ==
  \A x \in IPs : lockedUntil[x] # 0 =>
    \E i \in DOMAIN log : log[i].ip = x /\ log[i].at + Lockout = lockedUntil[x]

LEMMA LockedByFailureStep ==
  TypeOK /\ TableInv /\ MarksPast /\ LockedByFailure /\ [Next]_vars => LockedByFailure'
<1> SUFFICES ASSUME TypeOK, TableInv, MarksPast, LockedByFailure, [Next]_vars,
                    NEW x \in IPs, lockedUntil'[x] # 0
             PROVE  \E i \in DOMAIN log' :
                      log'[i].ip = x /\ log'[i].at + Lockout = lockedUntil'[x]
  BY DEF LockedByFailure
<1>1. ASSUME NEW ip \in IPs, LoginFails(ip)
      PROVE  \E i \in DOMAIN log' :
               log'[i].ip = x /\ log'[i].at + Lockout = lockedUntil'[x]
  <2> DEFINE new == Len(log) + 1
  <2>1. log' = Append(log, [ip |-> ip, at |-> now])
    BY <1>1 DEF LoginFails, recordFailure
  <2>2. /\ new \in DOMAIN log' /\ log'[new].ip = ip /\ log'[new].at = now
        /\ \A i \in DOMAIN log : i \in DOMAIN log' /\ log'[i] = log[i]
    BY <2>1, LogGrows
  <2>3. CASE lockedUntil'[x] = lockedUntil[x]
    <3>1. PICK i \in DOMAIN log : log[i].ip = x /\ log[i].at + Lockout = lockedUntil[x]
      BY <2>3 DEF LockedByFailure
    <3> QED BY <2>2, <2>3, <3>1
  <2>4. CASE x = ip /\ lockedUntil'[x] = now + Lockout
    BY <2>2, <2>4
  <2>5. lockedUntil'[x] = lockedUntil[x] \/ (x = ip /\ lockedUntil'[x] = now + Lockout)
    <3>1. CASE x = ip
      <4> DEFINE recent == live(failures[ip], now) \cup {new}
      <4>1. CASE tripsLockout(recent)
        BY <1>1, <3>1, <4>1 DEF LoginFails, recordFailure
      <4>2. CASE ~tripsLockout(recent)
        <5>1. lockedUntil'[ip] = IF ip \in pruned THEN lockedUntil[ip] ELSE 0
          BY <1>1, <4>2 DEF LoginFails, recordFailure
        <5> QED BY <3>1, <5>1
      <4> QED BY <4>1, <4>2
    <3>2. CASE x # ip
      <4>1. lockedUntil'[x] = lockedUntil[x] \/ lockedUntil'[x] = 0
        BY <1>1, <3>2, FailureOthers
      <4> QED BY <4>1
    <3> QED BY <3>1, <3>2
  <2> QED BY <2>3, <2>4, <2>5
<1>2. ASSUME NEW ip \in IPs, LoginSucceeds(ip)
      PROVE  log' = log /\ lockedUntil'[x] = lockedUntil[x]
  BY <1>2 DEF LoginSucceeds, recordSuccess, TypeOK
<1>3. CASE Tick \/ UNCHANGED vars
  BY <1>3 DEF Tick, vars, limiterVars, historyVars, LockedByFailure
<1> QED BY <1>1, <1>2, <1>3 DEF Next, LockedByFailure

\* A record that still counts has a failure in the window.
LEMMA CountsInWindow ==
  ASSUME TypeOK, ListInv, LockedByFailure, Lockout <= Window,
         NEW x \in IPs, ~stale(x)
  PROVE  \E i \in DOMAIN log : log[i].ip = x /\ InWindow(i)
<1>n. now \in Nat /\ lockedUntil[x] \in Nat /\ \A i \in DOMAIN log : log[i].at \in Nat
  BY LogType DEF TypeOK
<1>1. CASE locked(x, now)
  <2>1. lockedUntil[x] > now /\ lockedUntil[x] # 0
    BY <1>n, <1>1 DEF locked
  <2>2. PICK i \in DOMAIN log : log[i].ip = x /\ log[i].at + Lockout = lockedUntil[x]
    BY <2>1 DEF LockedByFailure
  <2> QED BY <1>n, <2>1, <2>2, Limits DEF InWindow
<1>2. CASE ~locked(x, now)
  <2>1. PICK i : i \in live(failures[x], now)
    BY <1>2 DEF stale
  <2>2. i \in Counted(x)
    BY <2>1 DEF ListInv, ListExact
  <2> QED BY <2>2 DEF Counted
<1> QED BY <1>1, <1>2

LEMMA NoEvictionStep ==
  ASSUME TypeOK, GlobalIsComplete, TableInv, ListInv, LockedByFailure, [Next]_vars,
         0 < GlobalMax, GlobalMax < MaxTracked, Lockout <= Window,
         NEW ip \in IPs, locked(ip, now)
  PROVE  lockedUntil'[ip] = lockedUntil[ip]
<1> SUFFICES ASSUME lockedUntil'[ip] # lockedUntil[ip] PROVE FALSE
  OBVIOUS
<1> DEFINE W == {i \in DOMAIN log : InWindow(i)}
           f == [x \in tracked |-> CHOOSE i \in W : log[i].ip = x]
<1>1. Cardinality(tracked) = MaxTracked /\ \A x \in tracked : ~stale(x)
  BY LockoutStep
<1>2. \A x \in tracked : \E i \in W : log[i].ip = x
  <2> SUFFICES ASSUME NEW x \in tracked PROVE \E i \in W : log[i].ip = x
    OBVIOUS
  <2>1. x \in IPs
    BY DEF TypeOK
  <2> QED BY <1>1, <2>1, CountsInWindow
<1>3. f \in Injection(tracked, W)
  <2>1. \A x \in tracked : f[x] \in W /\ log[f[x]].ip = x
    <3> HIDE DEF W
    <3> QED BY <1>2
  <2>2. f \in [tracked -> W]
    BY <2>1
  <2> HIDE DEF f, W
  <2> QED BY <2>1, <2>2 DEF Injection, IsInjective
<1>4. IsFiniteSet(W) /\ Cardinality(W) \in Nat /\ Cardinality(W) <= GlobalMax
  <2>1. W \subseteq global /\ IsFiniteSet(global) /\ Cardinality(global) <= GlobalMax
    BY DEF GlobalIsComplete
  <2> HIDE DEF W
  <2> QED BY <2>1, SubsetBound, Limits
<1>5. Cardinality(tracked) <= Cardinality(W)
  <2> HIDE DEF f, W
  <2> QED BY <1>3, <1>4, FS_Injection
<1> HIDE DEF W
<1> QED BY <1>1, <1>4, <1>5, Limits

\* With the cap of all addresses together below the size of the table, as it is
\* shipped, failures of others never push a lockout off the table.
THEOREM LockoutsStay == Spec => NoLockoutEvicted
<1> DEFINE IInv == /\ TypeOK /\ GlobalIsComplete /\ TableInv /\ MarksPast /\ ListInv
                   /\ LockedByFailure
<1>1. Init => IInv
  BY TypeInit, GlobalInit, TableInit, ListInit DEF Init, LockedByFailure
<1>2. IInv /\ [Next]_vars => IInv'
  BY TypeStep, GlobalStep, TableStep, MarksStep, ListStep, LockedByFailureStep
<1>3. IInv /\ [Next]_vars =>
        [(0 < GlobalMax /\ GlobalMax < MaxTracked /\ Lockout <= Window) =>
           \A ip \in IPs : locked(ip, now) => lockedUntil'[ip] = lockedUntil[ip]]_vars
  BY NoEvictionStep
<1> QED BY <1>1, <1>2, <1>3, PTL DEF Spec, NoLockoutEvicted

-----------------------------------------------------------------------------
(* The endpoint of the tools: McpEndpoint, whatever discoveries of the      *)
(* issuer are interleaved.                                                  *)

LEMMA EndpointTypeInit == EndpointInit => EndpointTypeOK
BY DEF EndpointInit, EndpointTypeOK

LEMMA EndpointTypeStep == EndpointTypeOK /\ [EndpointNext]_endpointVars => EndpointTypeOK'
<1> SUFFICES ASSUME EndpointTypeOK, [EndpointNext]_endpointVars PROVE EndpointTypeOK'
  OBVIOUS
<1> USE DEF EndpointTypeOK, Goto
<1>1. CASE UNCHANGED endpointVars
  BY <1>1 DEF endpointVars
<1>2. ASSUME NEW r \in Requests, RequestArrives(r) PROVE EndpointTypeOK'
  BY <1>2 DEF RequestArrives, firstCheck, next, reject
<1>3. ASSUME NEW r \in Requests, init(r) PROVE EndpointTypeOK'
  BY <1>3 DEF init, discover
<1>4. ASSUME NEW r \in Requests, verify(r) PROVE EndpointTypeOK'
  BY <1>4 DEF verify, next, reject
<1>6. ASSUME NEW r \in Requests, HandlerFails(r) \/ HandleRequestReturns(r) PROVE EndpointTypeOK'
  BY <1>6 DEF HandlerFails, HandleRequestReturns
<1>7. ASSUME NEW r \in Requests, ResponseCloses(r) PROVE EndpointTypeOK'
  BY <1>7 DEF ResponseCloses
<1>8. CASE OutageEnds
  BY <1>8 DEF OutageEnds
<1> QED BY <1>1, <1>2, <1>3, <1>4, <1>6, <1>7, <1>8 DEF EndpointNext

\* Type correctness.
THEOREM EndpointTypeCorrect == EndpointSpec => []EndpointTypeOK
BY EndpointTypeInit, EndpointTypeStep, PTL DEF EndpointSpec

-----------------------------------------------------------------------------
(* Admission.  What is admitted is decided at two places: before any await, *)
(* and after jwtVerify, which is reached only where AuthKit is configured.  *)

credential(r) == authless \/ matchesKey(r) \/ (AuthKit /\ token[r] = "jwt")

CheckedOn(r) ==
  /\ req[r] \in {"discovery", "verify"} => AuthKit
  /\ req[r] = "handling" \/ server[r] # "none" \/ r \in listening =>
       credential(r)

AdmissionInv == \A r \in Requests : CheckedOn(r)

LEMMA SameCredential ==
  ASSUME UNCHANGED <<config, token>>, NEW r
  PROVE  credential(r)' = credential(r) /\ AuthKit' = AuthKit
BY DEF credential, authless, matchesKey, ApiKey, AuthKit

\* A step of one request disturbs no other one.
LEMMA OneRequest ==
  ASSUME AdmissionInv, UNCHANGED <<config, token>>, NEW r \in Requests,
         \A q \in Requests \ {r} :
           /\ req'[q] = req[q] /\ server'[q] = server[q]
           /\ q \in listening' => q \in listening,
         CheckedOn(r)'
  PROVE  AdmissionInv'
<1>1. ASSUME NEW q \in Requests, q # r PROVE CheckedOn(q)'
  BY <1>1, SameCredential DEF AdmissionInv, CheckedOn
<1> QED BY <1>1 DEF AdmissionInv

LEMMA AdmissionStep == EndpointTypeOK /\ AdmissionInv /\ [EndpointNext]_endpointVars => AdmissionInv'
<1> SUFFICES ASSUME EndpointTypeOK, AdmissionInv, [EndpointNext]_endpointVars PROVE AdmissionInv'
  OBVIOUS
<1>t. /\ req \in [Requests -> {"new", "discovery", "verify", "handling",
                            "unauthorized", "returned", "failed"}]
      /\ server \in [Requests -> {"none", "built", "closed"}]
  BY DEF EndpointTypeOK
<1>1. CASE UNCHANGED <<config, token, req, server, listening>>
  BY <1>1, SameCredential DEF AdmissionInv, CheckedOn
<1>2. ASSUME NEW r \in Requests, RequestArrives(r) PROVE AdmissionInv'
  <2>1. /\ \/ /\ authless \/ matchesKey(r)
              /\ req' = [req EXCEPT ![r] = "handling"] /\ server' = [server EXCEPT ![r] = "built"]
           \/ AuthKit /\ req' = [req EXCEPT ![r] = "discovery"] /\ server' = server
           \/ req' = [req EXCEPT ![r] = "unauthorized"] /\ server' = server
        /\ UNCHANGED <<config, token, listening>> /\ req[r] = "new"
    BY <1>2 DEF RequestArrives, firstCheck, next, reject, Goto
  <2>2. CheckedOn(r)'
    BY <1>t, <2>1, SameCredential DEF AdmissionInv, CheckedOn, credential
  <2> QED BY <1>t, <2>1, <2>2, OneRequest
<1>3. ASSUME NEW r \in Requests, init(r) PROVE AdmissionInv'
  <2>1. /\ req' \in {[req EXCEPT ![r] = "verify"], [req EXCEPT ![r] = "unauthorized"]}
        /\ UNCHANGED <<config, token, server, listening>> /\ req[r] = "discovery"
    BY <1>3 DEF init, discover, Goto
  <2>2. CheckedOn(r)'
    BY <1>t, <2>1, SameCredential DEF AdmissionInv, CheckedOn
  <2> QED BY <1>t, <2>1, <2>2, OneRequest
<1>4. ASSUME NEW r \in Requests, verify(r) PROVE AdmissionInv'
  <2>1. /\ \/ /\ token[r] = "jwt"
              /\ req' = [req EXCEPT ![r] = "handling"] /\ server' = [server EXCEPT ![r] = "built"]
           \/ req' = [req EXCEPT ![r] = "unauthorized"] /\ server' = server
        /\ UNCHANGED <<config, token, listening>> /\ req[r] = "verify"
    BY <1>4 DEF verify, next, reject, Goto
  <2>2. CheckedOn(r)'
    BY <1>t, <2>1, SameCredential DEF AdmissionInv, CheckedOn, credential
  <2> QED BY <1>t, <2>1, <2>2, OneRequest
<1>6. ASSUME NEW r \in Requests, HandlerFails(r) \/ HandleRequestReturns(r)
      PROVE  AdmissionInv'
  <2>1. /\ req' \in {[req EXCEPT ![r] = "failed"], [req EXCEPT ![r] = "returned"]}
        /\ UNCHANGED <<config, token, server>> /\ req[r] = "handling"
        /\ listening' \subseteq listening \cup {r}
    BY <1>6 DEF HandlerFails, HandleRequestReturns, Goto
  <2>2. CheckedOn(r)'
    BY <1>t, <2>1, SameCredential DEF AdmissionInv, CheckedOn
  <2> QED BY <1>t, <2>1, <2>2, OneRequest
<1>7. ASSUME NEW r \in Requests, ResponseCloses(r) PROVE AdmissionInv'
  <2>1. /\ \/ server' = server
           \/ r \in listening /\ server' = [server EXCEPT ![r] = "closed"]
        /\ UNCHANGED <<config, token, req, listening>>
    BY <1>7 DEF ResponseCloses
  <2>2. CheckedOn(r)'
    BY <1>t, <2>1, SameCredential DEF AdmissionInv, CheckedOn
  <2> QED BY <1>t, <2>1, <2>2, OneRequest
<1> QED BY <1>1, <1>2, <1>3, <1>4, <1>6, <1>7 DEF EndpointNext, endpointVars, OutageEnds

\* A server is built only for a request with a credential, or where none is
\* configured, for any number of requests that discover the issuer at once.
THEOREM AdmissionNeedsCredential == EndpointSpec => []AdmittedWithCredential
<1>1. EndpointInit => AdmissionInv
  BY DEF EndpointInit, AdmissionInv, CheckedOn
<1>2. AdmissionInv => AdmittedWithCredential
  BY DEF AdmissionInv, CheckedOn, credential, AdmittedWithCredential
<1> QED BY <1>1, <1>2, EndpointTypeInit, EndpointTypeStep, AdmissionStep, PTL DEF EndpointSpec

=============================================================================
