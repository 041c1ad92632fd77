---------------------------- MODULE CircuitBreaker ----------------------------
(***************************************************************************)
(* One circuit breaker, packages/bizatlas/tools/circuit.py, shared by the  *)
(* threads that call a tool through ToolRegistry.call.                     *)
(*                                                                         *)
(* The object has no lock.  A thread may be switched out at every call it  *)
(* makes: between the reading of the state and of the clock, around the    *)
(* tool itself, and in _open between the state and its time stamp.  Each   *)
(* stretch between two calls is one action.  Time is the one fact the code *)
(* takes from the clock: whether the cooldown since _opened_at is over.    *)
(***************************************************************************)
EXTENDS Naturals

CONSTANTS Thread, FailureThreshold, SuccessThreshold

ASSUME ThresholdAssumption ==
    /\ FailureThreshold \in Nat \ {0}
    /\ SuccessThreshold \in Nat \ {0}

VARIABLES
    state,                  \* _state, before the property derives half_open
    cooled,                 \* monotonic() - _opened_at >= cooldown
    failures, successes,    \* _consecutive_failures, _consecutive_successes
    pc,                     \* where each thread is in call()
    healthy,                \* the tool's backend has recovered for good
    resting                 \* the cooldown since the latest opening is not over

breaker == <<state, cooled, failures, successes>>
vars    == <<breaker, pc, healthy, resting>>

Goto(t, p) == pc' = [pc EXCEPT ![t] = p]

Init ==
    /\ state = "closed"
    /\ cooled = TRUE
    /\ failures = 0
    /\ successes = 0
    /\ pc = [t \in Thread |-> "idle"]
    /\ healthy = FALSE
    /\ resting = FALSE
-----------------------------------------------------------------------------
(* call(), line by line.  The first look at the state. *)
Call(t) ==
    /\ pc[t] = "idle"
    /\ Goto(t, IF state = "open" THEN "derive" ELSE "allow")
    /\ UNCHANGED <<breaker, healthy, resting>>

(* The cooldown is over: half_open becomes the real state. *)
Derive_Unsaved(t) ==                                                 \* mutant
    /\ pc[t] = "derive"
    /\ Goto(t, "allow")
    /\ UNCHANGED <<breaker, healthy, resting>>

Derive(t) ==
    /\ pc[t] = "derive"
    /\ IF cooled
       THEN state' = "half_open" /\ successes' = 0
       ELSE UNCHANGED <<state, successes>>
    /\ Goto(t, "allow")
    /\ UNCHANGED <<cooled, failures, healthy, resting>>

(* allow() derives the state once more. *)
Allow(t) ==
    /\ pc[t] = "allow"
    /\ Goto(t, IF state = "open" THEN "recheck" ELSE "run")
    /\ UNCHANGED <<breaker, healthy, resting>>

Recheck(t) ==
    /\ pc[t] = "recheck"
    /\ Goto(t, IF cooled THEN "run" ELSE "idle")
    /\ UNCHANGED <<breaker, healthy, resting>>

(* The tool returns; _on_success has no call in it. *)
Closes(count) == count >= SuccessThreshold

CountSuccess ==
    IF state = "half_open"
    THEN IF Closes(successes + 1)
         THEN /\ state' = "closed"
              /\ failures' = 0
              /\ successes' = 0
         ELSE /\ successes' = successes + 1
              /\ UNCHANGED <<state, failures>>
    ELSE /\ failures' = 0
         /\ UNCHANGED <<state, successes>>

Succeed(t) ==
    /\ pc[t] = "run"
    /\ CountSuccess
    /\ Goto(t, "idle")
    /\ UNCHANGED <<cooled, healthy, resting>>

(* The tool raises; _on_failure may call _open. *)
Trips(count) == count >= FailureThreshold

Fail(t) ==
    /\ pc[t] = "run"
    /\ ~healthy
    /\ failures' = IF state = "half_open" THEN failures ELSE failures + 1
    /\ Goto(t, IF state = "half_open" \/ Trips(failures') THEN "open" ELSE "idle")
    /\ UNCHANGED <<state, cooled, successes, healthy, resting>>

Open(t) ==
    /\ pc[t] = "open"
    /\ state' = "open"
    /\ resting' = TRUE
    /\ Goto(t, "stamp")
    /\ UNCHANGED <<cooled, failures, successes, healthy>>

Stamp_Kept(t) ==                                                     \* mutant
    /\ pc[t] = "stamp"
    /\ cooled' = FALSE
    /\ successes' = 0
    /\ Goto(t, "idle")
    /\ UNCHANGED <<state, failures, healthy, resting>>

Stamp(t) ==
    /\ pc[t] = "stamp"
    /\ cooled' = FALSE
    /\ failures' = 0
    /\ successes' = 0
    /\ Goto(t, "idle")
    /\ UNCHANGED <<state, healthy, resting>>

(* reset(): _opened_at becomes 0, long past. *)
Reset ==
    /\ state' = "closed"
    /\ cooled' = TRUE
    /\ failures' = 0
    /\ successes' = 0
    /\ resting' = FALSE
    /\ UNCHANGED <<pc, healthy>>

CooldownEnds ==
    /\ ~cooled
    /\ cooled' = TRUE
    /\ resting' = \E t \in Thread : pc[t] = "stamp"
    /\ UNCHANGED <<state, failures, successes, pc, healthy>>

Recover ==
    /\ healthy' = TRUE
    /\ UNCHANGED <<breaker, pc, resting>>

Step(t) ==
    \/ Call(t) \/ Derive(t) \/ Allow(t) \/ Recheck(t)
    \/ Succeed(t) \/ Fail(t) \/ Open(t) \/ Stamp(t)

Next == (\E t \in Thread : Step(t)) \/ Reset \/ CooldownEnds \/ Recover

(* Threads run, time passes, and the tool keeps being called. *)
Fairness == (\A t \in Thread : WF_vars(Step(t))) /\ WF_vars(CooldownEnds)

Spec == Init /\ [][Next]_vars /\ Fairness
-----------------------------------------------------------------------------
TypeOK ==
    /\ state \in {"closed", "open", "half_open"}
    /\ cooled \in BOOLEAN
    /\ failures \in Nat
    /\ successes \in 0 .. SuccessThreshold - 1
    /\ pc \in [Thread -> {"idle", "derive", "allow", "recheck", "run", "open", "stamp"}]
    /\ healthy \in BOOLEAN
    /\ resting \in BOOLEAN

(* No trip is lost between threads: when the count has reached the         *)
(* threshold, some thread is on its way to open the circuit.               *)
NoTripLost ==
    failures >= FailureThreshold => \E t \in Thread : pc[t] \in {"open", "stamp"}

(* A backend that has recovered is not cut off for ever: whatever stale    *)
(* decisions the threads still carry, the circuit ends up closed for good. *)
Recovers == healthy ~> [](state = "closed")
-----------------------------------------------------------------------------
(* What the code says of itself and does not keep. *)

(* "After the cooldown one probe is let through."  While the circuit is    *)
(* half open, a call is let through only if no other one is running.       *)
Admitted(t) == pc[t] # "run" /\ pc'[t] = "run"

OneProbe ==
    [][\A t \in Thread : state = "half_open" /\ Admitted(t)
          => \A other \in Thread : pc[other] # "run"]_vars

(* "open: calls are rejected at once", by a breaker that is "thread-safe": *)
(* no call is let through until the cooldown since the opening is over.    *)
OpenRejects ==
    [][resting => \A t \in Thread : ~Admitted(t)]_vars
=============================================================================
