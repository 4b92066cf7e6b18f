---------------------------- MODULE RateLimiter ----------------------------
(***************************************************************************)
(* internal/middleware/rate_limiter.go: a token bucket per address, made   *)
(* at its first request and forgotten when it has not been seen for a      *)
(* while.  Time is counted in ticks in which a bucket gains Rate tokens.   *)
(*                                                                         *)
(* level is history: the requests admitted for an address, leaking Rate    *)
(* per tick.  In every stretch of d ticks at most Burst + Rate * d         *)
(* requests are admitted if and only if the level never exceeds Burst.     *)
(***************************************************************************)
EXTENDS Integers

CONSTANTS
  Addresses,   \* what getIP returns
  Rate,        \* requestsPerSecond, per tick
  Burst,       \* burstSize
  IdleLimit    \* ticks in the three minutes after which a visitor is forgotten

ASSUME LimiterAssumption ==
  /\ Rate \in Nat \ {0} /\ Burst \in Nat \ {0} /\ IdleLimit \in Nat \ {0}
  \* 10 <= 5 * 180
  /\ Burst <= Rate * IdleLimit

VARIABLES
  visitors,  \* the addresses with an entry
  tokens,    \* tokens[ip]: in the bucket of a visitor
  idle,      \* idle[ip]: ticks since lastSeen, up to IdleLimit + 1
  level

limiter == <<visitors, tokens, idle, level>>

AtLeast(a, b) == IF a < b THEN b ELSE a
AtMost(a, b) == IF a > b THEN b ELSE a

LimiterTypeOK ==
  /\ visitors \subseteq Addresses
  /\ tokens \in [Addresses -> 0..Burst]
  /\ idle \in [Addresses -> 0..(IdleLimit + 1)]
  /\ level \in [Addresses -> Nat]

LimiterInit ==
  /\ visitors = {}
  /\ tokens = [ip \in Addresses |-> Burst]
  /\ idle = [ip \in Addresses |-> 0]
  /\ level = [ip \in Addresses |-> 0]

\* The tokens Allow finds: those of a new bucket if the address has no entry.
Available(ip) == IF ip \in visitors THEN tokens[ip] ELSE Burst

\* Slip: an entry is never marked as seen again.
SeenOnce(ip) ==
  idle' = IF ip \in visitors THEN idle ELSE [idle EXCEPT ![ip] = 0]

Seen(ip) == idle' = [idle EXCEPT ![ip] = 0]

\* getVisitor holds the mutex, Allow that of the bucket; a goroutine that
\* sleeps three minutes between the two is not modelled.
GetVisitor(ip) == visitors' = visitors \union {ip} /\ Seen(ip)
Allow(ip) ==
  /\ Available(ip) > 0
  /\ GetVisitor(ip)
  /\ tokens' = [tokens EXCEPT ![ip] = Available(ip) - 1]
  /\ level' = [level EXCEPT ![ip] = @ + 1]
Deny(ip) ==
  /\ Available(ip) = 0
  /\ GetVisitor(ip)
  /\ UNCHANGED <<tokens, level>>

\* cleanupVisitors
Forget ==
  /\ \E ip \in visitors : idle[ip] > IdleLimit
  /\ visitors' = {ip \in visitors : idle[ip] <= IdleLimit}
  /\ UNCHANGED <<tokens, idle, level>>

\* Slip: the bucket is filled without a limit.
PassTickUncapped ==
  /\ tokens' = [ip \in Addresses |-> tokens[ip] + Rate]
  /\ idle' = [ip \in Addresses |-> AtMost(idle[ip] + 1, IdleLimit + 1)]
  /\ level' = [ip \in Addresses |-> AtLeast(level[ip] - Rate, 0)]
  /\ UNCHANGED visitors

PassTick ==
  /\ tokens' = [ip \in Addresses |-> AtMost(tokens[ip] + Rate, Burst)]
  /\ idle' = [ip \in Addresses |-> AtMost(idle[ip] + 1, IdleLimit + 1)]
  /\ level' = [ip \in Addresses |-> AtLeast(level[ip] - Rate, 0)]
  /\ UNCHANGED visitors

LimiterNext ==
  \/ \E ip \in Addresses : Allow(ip) \/ Deny(ip)
  \/ Forget \/ PassTick
LimiterSpec == LimiterInit /\ [][LimiterNext]_limiter

(* No address is admitted above its rate and burst, in any stretch of       *)
(* time, although entries are forgotten and start again with a full bucket. *)
WithinRate == \A ip \in Addresses : level[ip] <= Burst
=============================================================================
