----------------------------- MODULE RateLimiter -----------------------------
(***************************************************************************)
(* The sliding window that limits the attempts to log in and to refresh.   *)
(* A call reads the clock before it takes the limiter's lock, so calls may *)
(* be decided in another order than that of their times.  One key: the     *)
(* counters of different keys are independent.                             *)
(***************************************************************************)
EXTENDS Integers, FiniteSets

CONSTANTS
  Requests,   \* the calls, each of which makes one attempt
  Limits,     \* values rate_limit_max may be given
  Window,     \* rate_limit_window_seconds
  MaxTime     \* bound of the clock

ASSUME LimiterAssumption ==
  /\ Limits \subseteq Nat
  /\ Window \in Nat
  /\ MaxTime \in Nat
  /\ IsFiniteSet(Requests)

VARIABLES
  clock,      \* time.monotonic
  limit,      \* max_calls of the limiter in force
  hits,       \* attempts remembered by it
  stamp,      \* the time each call has read
  verdict,    \* what each call was told
  decided,    \* history: calls decided by the limiter in force
  overtaken   \* history: calls decided after one of a later time

rvars == <<clock, limit, hits, stamp, verdict, decided, overtaken>>

Verdicts == {"none", "waiting", "accepted", "refused", "error", "lost"}

RInit ==
  /\ clock = 0
  /\ limit \in Limits
  /\ hits = {}
  /\ stamp = [r \in Requests |-> 0]
  /\ verdict = [r \in Requests |-> "none"]
  /\ decided = {}
  /\ overtaken = {}

Tick ==
  /\ clock < MaxTime
  /\ clock' = clock + 1
  /\ UNCHANGED <<limit, hits, stamp, verdict, decided, overtaken>>

Arrive(r) ==
  /\ verdict[r] = "none"
  /\ verdict' = [verdict EXCEPT ![r] = "waiting"]
  /\ stamp' = [stamp EXCEPT ![r] = clock]
  /\ UNCHANGED <<clock, limit, hits, decided, overtaken>>

(* The attempts of the window that ends at the time of r.                  *)
Kept_AtWindow(r) == {q \in hits : stamp[r] - stamp[q] < Window - 1}
Kept(r) == {q \in hits : stamp[r] - stamp[q] < Window}

(* A refusal tells how long the oldest attempt kept remains: with a limit  *)
(* of zero there may be none, which is an error.                           *)
Allow(r) ==
  /\ verdict[r] = "waiting"
  /\ LET full == Cardinality(Kept(r)) >= limit
     IN /\ hits' = IF full THEN Kept(r) ELSE Kept(r) \cup {r}
        /\ verdict' = [verdict EXCEPT ![r] = IF ~full THEN "accepted"
                                             ELSE IF Kept(r) = {} THEN "error"
                                             ELSE "refused"]
  /\ decided' = decided \cup {r}
  /\ overtaken' = overtaken \cup {q \in {r} : \E d \in decided : stamp[d] > stamp[q]}
  /\ UNCHANGED <<clock, limit, stamp>>

(* The process restarts, or the limit is given another value: a new,       *)
(* empty limiter.  Calls still waiting for the old one are not the new     *)
(* one's, whatever they are told.                                          *)
Rebuilt(max) ==
  /\ limit' = max
  /\ hits' = {}
  /\ decided' = {}
  /\ overtaken' = {}
  /\ verdict' = [r \in Requests |-> IF verdict[r] = "waiting" THEN "lost" ELSE verdict[r]]
  /\ UNCHANGED <<clock, stamp>>

RNext ==
  \/ Tick
  \/ \E r \in Requests : Arrive(r) \/ Allow(r)
  \/ \E max \in Limits : Rebuilt(max)

RSpec == RInit /\ [][RNext]_rvars

(* The types of the limiter's variables.                                   *)
RTypeOK ==
  /\ clock \in Nat
  /\ limit \in Limits
  /\ hits \subseteq decided
  /\ decided \subseteq Requests
  /\ overtaken \subseteq decided
  /\ stamp \in [Requests -> Nat]
  /\ verdict \in [Requests -> Verdicts]

(* Accepted, and not late for the lock.                                    *)
Timely == {q \in decided : verdict[q] = "accepted" /\ q \notin overtaken}

InWindow(s) == {q \in Timely : s <= stamp[q] /\ stamp[q] < s + Window}

(* In every interval as long as the window, the limiter in force accepts   *)
(* at most max_calls attempts, leaving out those that another of a later   *)
(* time overtook on the way to the lock; and calls end in an error only    *)
(* when no attempt at all is allowed.  About SlidingWindowLimiter.allow,   *)
(* which reads the clock outside its lock.                                 *)
WindowBound ==
  /\ \A s \in 0..MaxTime : Cardinality(InWindow(s)) <= limit
  /\ \A r \in decided : verdict[r] = "error" => limit = 0
=============================================================================
