---------------------------- MODULE RateLimiter ----------------------------
(***************************************************************************)
(* The HTTP rate limiter (RateLimiterGuard, RateLimiterService and the Lua *)
(* script in Redis) on one endpoint of the gateway that is forwarded to    *)
(* auth-service, with rules by IP and by e-mail address in both services:  *)
(* register has the IP rules, login and resend-code have all four.  A      *)
(* request asks its rules in order, each in an eval of its own, and is     *)
(* counted by those it passes.                                             *)
(*                                                                         *)
(* The names of the specification begin with Limiter, so that this module  *)
(* and Permissions can be extended by one module of theorems.              *)
(***************************************************************************)
EXTENDS Integers, FiniteSets

CONSTANTS
  Requests,   \* each used once
  Ips,        \* addresses of clients
  Emails,     \* normalised e-mail addresses in the bodies
  Endpoint,   \* the rules of the endpoint, out of Ip, Email, AuthIp, AuthEmail
  GatewayIp,  \* the address the gateway calls auth-service from
  IpLimit, EmailLimit,  \* limits of the rules, the same in both services
  Window,     \* length of a window, in clock ticks
  MaxClock,   \* bound on the clock
  MaxFailures,\* bound on the evals that Redis does not answer
  Unset       \* null / undefined

VARIABLES
  clock,
  count,      \* the counter under a key; meaningless once the key expired
  expires,    \* when the key expires: it exists while clock < expires
  rule,       \* the rule a request is to pass next; 0 before it arrives
  ip, email,  \* what is in a request
  passed,     \* when a rule counted a request
  refused     \* when the request was answered 429

limiterVars == <<clock, count, expires, rule, ip, email, passed, refused>>

ASSUME RateLimiterAssumption ==
  /\ IpLimit \in Nat \ {0} /\ EmailLimit \in Nat \ {0}
  /\ Window \in Nat \ {0} /\ MaxClock \in Nat /\ MaxFailures \in Nat
  /\ Unset \notin Nat /\ Unset \notin Ips \cup {GatewayIp} /\ Unset \notin Emails

\* The rules in the order a request meets them, then its handler.
Ip == 1
Email == 2
AuthIp == 3
AuthEmail == 4
Handler == 5

Rules == 1..4
After(i) == CHOOSE j \in Endpoint \cup {Handler} :
  j > i /\ \A k \in Endpoint \cup {Handler} : k > i => j <= k
Limit(i) == IF i \in {Ip, AuthIp} THEN IpLimit ELSE EmailLimit

ASSUME EndpointAssumption == Endpoint \subseteq Rules

Key == [rule : Endpoint, id : Ips \cup Emails \cup {GatewayIp}]

\* buildKey.  The gateway does not send x-forwarded-for on, so auth-service
\* sees the gateway's own address in every request.
KeyOf(r, i) == [rule |-> i, id |->
  CASE i = Ip -> ip[r] [] i = AuthIp -> GatewayIp [] OTHER -> email[r]]

LimiterTypeOK ==
  /\ clock \in Nat
  /\ count \in [Key -> Nat] /\ \A k \in Key : count[k] <= Limit(k.rule)
  /\ expires \in [Key -> Nat]
  /\ rule \in [Requests -> {0, Handler} \cup Endpoint]
  /\ ip \in [Requests -> Ips \cup {Unset}]
  /\ email \in [Requests -> Emails \cup {Unset}]
  /\ passed \in [Requests -> [Endpoint -> Nat \cup {Unset}]]
  /\ refused \in [Requests -> Nat \cup {Unset}]

LimiterInit ==
  /\ clock = 0
  /\ count = [k \in Key |-> 0] /\ expires = [k \in Key |-> 0]
  /\ rule = [r \in Requests |-> 0]
  /\ ip = [r \in Requests |-> Unset] /\ email = [r \in Requests |-> Unset]
  /\ passed = [r \in Requests |-> [i \in Endpoint |-> Unset]]
  /\ refused = [r \in Requests |-> Unset]

-----------------------------------------------------------------------------

Open(k) == clock < expires[k]

\* Mutated Counted: a key made without an expiry.
CountedForEver(k) == count[k]

\* GET key or '0'.
Counted(k) == IF Open(k) THEN count[k] ELSE 0

\* Mutated Exhausted: compared as in `current > limit`.
ExhaustedOffByOne(k) == Counted(k) > Limit(k.rule)

Exhausted(k) == Counted(k) >= Limit(k.rule)

\* Mutated Incr: PEXPIRE is given seconds for milliseconds.
IncrSeconds(k) ==
  /\ count' = [count EXCEPT ![k] = Counted(k) + 1]
  /\ expires' = IF Open(k) THEN expires ELSE [expires EXCEPT ![k] = clock + 1]

\* INCR, and PEXPIRE when that made the key.
Incr(k) ==
  /\ count' = [count EXCEPT ![k] = Counted(k) + 1]
  /\ expires' = IF Open(k) THEN expires ELSE [expires EXCEPT ![k] = clock + Window]

-----------------------------------------------------------------------------

Arrive(r, a, e) ==
  /\ rule[r] = 0
  /\ ip' = [ip EXCEPT ![r] = a] /\ email' = [email EXCEPT ![r] = e]
  /\ rule' = [rule EXCEPT ![r] = After(0)]
  /\ UNCHANGED <<clock, count, expires, passed, refused>>

Asking(r, i) == rule[r] = i /\ refused[r] = Unset

\* The script lets the request pass rule i and counts it there.
Pass(r, i) ==
  /\ Asking(r, i)
  /\ ~Exhausted(KeyOf(r, i))
  /\ Incr(KeyOf(r, i))
  /\ passed' = [passed EXCEPT ![r][i] = clock]
  /\ rule' = [rule EXCEPT ![r] = After(i)]
  /\ UNCHANGED <<clock, ip, email, refused>>

\* The script refuses it: 429.  What earlier rules counted stays counted.
Refuse(r, i) ==
  /\ Asking(r, i)
  /\ Exhausted(KeyOf(r, i))
  /\ refused' = [refused EXCEPT ![r] = clock]
  /\ UNCHANGED <<clock, count, expires, rule, ip, email, passed>>

\* The rules that were passed without being counted.
Skipped == {p \in Requests \X Endpoint : p[2] < rule[p[1]] /\ passed[p[1]][p[2]] = Unset}

\* Redis does not answer: the guard fails open.
FailOpen(r, i) ==
  /\ Asking(r, i)
  /\ Cardinality(Skipped) < MaxFailures
  /\ rule' = [rule EXCEPT ![r] = After(i)]
  /\ UNCHANGED <<clock, count, expires, ip, email, passed, refused>>

Tick ==
  /\ clock < MaxClock
  /\ clock' = clock + 1
  /\ UNCHANGED <<count, expires, rule, ip, email, passed, refused>>

LimiterNext ==
  \/ \E r \in Requests, a \in Ips, e \in Emails : Arrive(r, a, e)
  \/ \E r \in Requests, i \in Endpoint : Pass(r, i) \/ Refuse(r, i) \/ FailOpen(r, i)
  \/ Tick

LimiterSpec == LimiterInit /\ [][LimiterNext]_limiterVars

-----------------------------------------------------------------------------
(* Properties.                                                             *)

\* The requests a key has counted in the n ticks from t on.
CountedIn(k, t, n) ==
  {r \in Requests : /\ passed[r][k.rule] # Unset /\ KeyOf(r, k.rule) = k
                    /\ passed[r][k.rule] \in t..(t + n - 1)}

\* A fixed window lets a burst straddle two windows, but no more than that: in
\* any span of a window's length a key counts fewer than twice its limit.  (What
\* is let through while Redis does not answer is counted by nobody.)
BurstBound ==
  \A k \in Key, t \in 0..clock :
    Cardinality(CountedIn(k, t, Window)) <= 2 * Limit(k.rule) - 1

\* Nobody is refused by a key that has not counted its limit within the last
\* window: counters do not outlive their windows and never count a refusal.
RefusedHadLimit ==
  \A r \in Requests : refused[r] # Unset =>
    Cardinality(CountedIn(KeyOf(r, rule[r]), refused[r] - Window + 1, Window))
      >= Limit(rule[r])
=============================================================================
