------------------------- MODULE CircuitBreakerProofs -------------------------
(***************************************************************************)
(* What holds of the breaker for any number of threads and any thresholds. *)
(***************************************************************************)
EXTENDS CircuitBreaker, TLAPS

(* The two halves of the type invariant: flags and counters. *)
Flags == cooled \in BOOLEAN /\ healthy \in BOOLEAN /\ resting \in BOOLEAN

Counters ==
    /\ state \in {"closed", "open", "half_open"}
    /\ failures \in Nat
    /\ successes \in 0 .. SuccessThreshold - 1
    /\ pc \in [Thread -> {"idle", "derive", "allow", "recheck", "run", "open", "stamp"}]

(* A fresh breaker: no failure is on record. *)
LEMMA InitInv == Init => TypeOK /\ NoTripLost
<1> SUFFICES ASSUME Init PROVE TypeOK /\ NoTripLost
    OBVIOUS
<1>1. Flags
    BY DEF Init, Flags
<1>2. Counters /\ NoTripLost
    BY ThresholdAssumption, SMT DEF Init, Counters, NoTripLost, ThresholdAssumption
<1>3. QED
    BY <1>1, <1>2 DEF Flags, Counters, TypeOK

(* The flags stay Boolean: every step sets them to a constant, to a        *)
(* predicate or not at all.                                                *)
LEMMA NextFlags == Flags /\ [Next]_vars => Flags'
<1> SUFFICES ASSUME Flags, [Next]_vars PROVE Flags'
    OBVIOUS
<1> USE DEF Flags, breaker
<1>1. ASSUME NEW t \in Thread, Call(t) PROVE Flags'
    BY <1>1 DEF Call
<1>2. ASSUME NEW t \in Thread, Derive(t) PROVE Flags'
    BY <1>2 DEF Derive
<1>3. ASSUME NEW t \in Thread, Allow(t) PROVE Flags'
    BY <1>3 DEF Allow
<1>4. ASSUME NEW t \in Thread, Recheck(t) PROVE Flags'
    BY <1>4 DEF Recheck
<1>5. ASSUME NEW t \in Thread, Succeed(t) PROVE Flags'
    BY <1>5 DEF Succeed
<1>6. ASSUME NEW t \in Thread, Fail(t) PROVE Flags'
    BY <1>6 DEF Fail
<1>7. ASSUME NEW t \in Thread, Open(t) PROVE Flags'
    BY <1>7 DEF Open
<1>8. ASSUME NEW t \in Thread, Stamp(t) PROVE Flags'
    BY <1>8 DEF Stamp
<1>9. CASE Reset
    BY <1>9 DEF Reset
<1>10. CASE CooldownEnds
    BY <1>10 DEF CooldownEnds
<1>11. CASE Recover
    BY <1>11 DEF Recover
<1>12. CASE UNCHANGED vars
    BY <1>12 DEF vars
<1>13. QED
    BY <1>1, <1>2, <1>3, <1>4, <1>5, <1>6, <1>7, <1>8, <1>9, <1>10, <1>11,
       <1>12 DEF Next, Step

(* Every stretch of call(), whichever thread runs it, keeps the count of   *)
(* failures below the threshold unless a thread is about to open.  The     *)
(* only step that takes a thread off its way to the opening is Stamp, and  *)
(* it clears the count.                                                    *)
LEMMA NextCounters == Counters /\ NoTripLost /\ [Next]_vars => Counters' /\ NoTripLost'
<1> SUFFICES ASSUME Counters, NoTripLost, [Next]_vars PROVE Counters' /\ NoTripLost'
    OBVIOUS
<1> USE ThresholdAssumption DEF ThresholdAssumption, Counters, NoTripLost, Goto, breaker
<1>1. ASSUME NEW t \in Thread, Call(t) PROVE Counters' /\ NoTripLost'
    BY <1>1, SMT DEF Call
<1>2. ASSUME NEW t \in Thread, Derive(t) PROVE Counters' /\ NoTripLost'
    BY <1>2, SMT DEF Derive
<1>3. ASSUME NEW t \in Thread, Allow(t) PROVE Counters' /\ NoTripLost'
    BY <1>3, SMT DEF Allow
<1>4. ASSUME NEW t \in Thread, Recheck(t) PROVE Counters' /\ NoTripLost'
    BY <1>4, SMT DEF Recheck
<1>5. ASSUME NEW t \in Thread, Succeed(t) PROVE Counters' /\ NoTripLost'
    BY <1>5, SMT DEF Succeed, CountSuccess, Closes
<1>6. ASSUME NEW t \in Thread, Fail(t) PROVE Counters' /\ NoTripLost'
    BY <1>6, SMT DEF Fail, Trips
<1>7. ASSUME NEW t \in Thread, Open(t) PROVE Counters' /\ NoTripLost'
    BY <1>7, SMT DEF Open
<1>8. ASSUME NEW t \in Thread, Stamp(t) PROVE Counters' /\ NoTripLost'
    BY <1>8, SMT DEF Stamp
<1>9. CASE Reset
    BY <1>9, SMT DEF Reset
<1>10. CASE CooldownEnds
    BY <1>10, SMT DEF CooldownEnds
<1>11. CASE Recover
    BY <1>11, SMT DEF Recover
<1>12. CASE UNCHANGED vars
    BY <1>12, SMT DEF vars
<1>13. QED
    BY <1>1, <1>2, <1>3, <1>4, <1>5, <1>6, <1>7, <1>8, <1>9, <1>10, <1>11,
       <1>12 DEF Next, Step

(* Type correctness and the bookkeeping of trips, in one induction. *)
LEMMA InductiveInvariant == Spec => [](TypeOK /\ NoTripLost)
<1>1. TypeOK <=> Flags /\ Counters
    BY DEF TypeOK, Flags, Counters
<1>2. TypeOK /\ NoTripLost /\ [Next]_vars => (TypeOK /\ NoTripLost)'
    <2>1. TypeOK' <=> Flags' /\ Counters'
        BY DEF TypeOK, Flags, Counters
    <2>2. QED
        BY <1>1, <2>1, NextFlags, NextCounters
<1>3. QED
    BY InitInv, <1>2, PTL DEF Spec

(* Type correctness of the breaker, for any threads and thresholds. *)
THEOREM TypeCorrect == Spec => []TypeOK
BY InductiveInvariant, PTL

(* No trip is lost: a count of failures that has reached the threshold     *)
(* always has a thread on its way to open the circuit, however the         *)
(* unlocked updates of the threads interleave.                             *)
THEOREM NoTripEverLost == Spec => []NoTripLost
BY InductiveInvariant, PTL
=============================================================================
