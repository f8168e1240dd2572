----------------------------- MODULE RateLimit -----------------------------
(***************************************************************************)
(* The distributed rate limiter (app/access/rate_limit).  Every public     *)
(* request walks the rules of its category in priority order; each rule    *)
(* consumes from its own token bucket in one atomic Redis script, and the  *)
(* script is told the time: the moment the request was received, stamped   *)
(* by its replica.  Requests overtake each other between two rules, Redis  *)
(* may be unreachable, and a script whose reply timed out may still run.   *)
(*                                                                         *)
(* One category is modelled.  Its rules are 1..NumRules in priority order. *)
(* Tokens are counted in parts of 1/Period, so that refilling is exact.    *)
(***************************************************************************)
EXTENDS Integers, FiniteSets

CONSTANTS
  Requests,         \* calls of RateLimitService.enforce
  Clients,          \* client addresses; NoClient: none could be extracted
  NoClient,
  Platform,         \* the identity every request shares (global, credential, ...)
  NumRules,         \* the enabled rules of the category
  PerClient,        \* the rules with dimension "ip"
  FailOpen,         \* the rules with fail mode constrained_fail_open
  Capacity,         \* of each rule
  Refill,           \* refill_tokens of each rule, per Period
  Period,           \* refill_period_seconds of each rule
  Cost,             \* tokens a request takes
  FallbackEnabled,  \* RATE_LIMIT_LOCAL_FALLBACK_ENABLED
  Skew,             \* bound: a replica's clock is at most Skew off
  MaxLate,          \* bound: a script runs at most MaxLate after its request arrived
  MaxTime           \* bound: the clock stops here

Rules == 1..NumRules

ASSUME RulesAssumption ==
  /\ NumRules \in Nat \ {0} /\ PerClient \subseteq Rules /\ FailOpen \subseteq Rules
  /\ Capacity \in [Rules -> Nat \ {0}] /\ Refill \in [Rules -> Nat \ {0}]
  /\ Period \in [Rules -> Nat \ {0}]
  /\ Cost \in Nat \ {0} /\ FallbackEnabled \in BOOLEAN
  /\ Skew \in Nat /\ MaxLate \in Nat /\ MaxTime \in Nat
ASSUME ClientsAssumption == NoClient \notin Clients
\* Every rule of policies.py refills its whole capacity in one period, and its
\* period (60 s, 3600 s) is longer than any request and any clock error.
ASSUME PolicyAssumption ==
  \A i \in Rules : Capacity[i] <= Refill[i] /\ MaxLate + 2 * Skew <= Period[i]

VARIABLES
  clock,    \* the true time, which is Redis's
  bucket,   \* the two Redis keys of each bucket, and when they expire
  req,      \* what each request has done
  \* What has happened to each bucket, for the properties:
  spent,    \* the tokens it has granted
  first,    \* the time the first script on it was told
  rewound   \* how far the times it was told went backwards, in total
vars == <<clock, bucket, req, spent, first, rewound>>
history == <<spent, first, rewound>>

Identities(i) == IF i \in PerClient THEN Clients ELSE {Platform}
Buckets == {b \in Rules \X (Clients \union {Platform}) : b[2] \in Identities(b[1])}

Full(i) == Capacity[i] * Period[i]
Price(i) == Cost * Period[i]

Phases == {"new", "checking", "done"}
Codes == {"none", "allowed", "degraded", "rate_limited", "unavailable"}
NewRequest ==
  [phase |-> "new", client |-> NoClient, arrived |-> 0, stamp |-> 0, rule |-> 1,
   passed |-> {}, adrift |-> FALSE, code |-> "none", retry |-> 0]
RequestState ==
  [phase : Phases, client : Clients \union {NoClient}, arrived : Nat, stamp : Nat,
   rule : Rules, passed : SUBSET Rules, adrift : BOOLEAN, code : Codes, retry : Nat]

\* until = 0: the keys have never been written.
Init ==
  /\ clock = Skew
  /\ bucket = [b \in Buckets |-> [tokens |-> Full(b[1]), updated |-> 0, until |-> 0]]
  /\ req = [r \in Requests |-> NewRequest]
  /\ spent = [b \in Buckets |-> 0]
  /\ first = [b \in Buckets |-> 0]
  /\ rewound = [b \in Buckets |-> 0]

-----------------------------------------------------------------------------
(* The token bucket: the script token_bucket_v1.                           *)

\* A key set with EX ttl is gone ttl later, whatever it held.
TimeToLive(i) == 2 * Period[i]
Kept(b) == bucket[b].until > clock

ElapsedEitherWay(row, now) ==
  IF now >= row.updated THEN now - row.updated ELSE row.updated - now
Elapsed(row, now) == IF now >= row.updated THEN now - row.updated ELSE 0

Topped(i, row, now) ==
  LET tokens == row.tokens + Elapsed(row, now) * Refill[i] IN
  IF tokens <= Full(i) THEN tokens ELSE Full(i)
Available(b, now) == IF Kept(b) THEN Topped(b[1], bucket[b], now) ELSE Full(b[1])
Enough(b, now) == Available(b, now) >= Price(b[1])
Charge(b, now) == IF Enough(b, now) THEN Price(b[1]) ELSE 0

\* math.ceil(missing / refill_per_second)
RetryAfterFloor(b, now) == (Price(b[1]) - Available(b, now)) \div Refill[b[1]]
RetryAfter(b, now) ==
  (Price(b[1]) - Available(b, now) + Refill[b[1]] - 1) \div Refill[b[1]]

\* The script as a whole, run at the present clock for a request stamped now.
RunScript(b, now) ==
  /\ bucket' = [bucket EXCEPT ![b] = [tokens |-> Available(b, now) - Charge(b, now),
                                      updated |-> now,
                                      until |-> clock + TimeToLive(b[1])]]
  /\ spent' = [spent EXCEPT ![b] = @ + Charge(b, now)]
  /\ first' = [first EXCEPT ![b] = IF bucket[b].until = 0 THEN now ELSE @]
  /\ rewound' = [rewound EXCEPT ![b] =
                   IF bucket[b].until # 0 /\ bucket[b].updated > now
                   THEN @ + (bucket[b].updated - now) ELSE @]

-----------------------------------------------------------------------------
(* RateLimitService.check                                                  *)

BucketOf(r) ==
  <<req[r].rule, IF req[r].rule \in PerClient THEN req[r].client ELSE Platform>>
Identified(r) == req[r].rule \in PerClient => req[r].client # NoClient
IsChecking(r) == req[r].phase = "checking"

\* The request is stamped (PublicAccessRequest.received_at) when it is parsed.
Arrive(r) ==
  /\ req[r].phase = "new"
  /\ \E c \in Clients \union {NoClient}, t \in clock - Skew .. clock + Skew :
       req' = [req EXCEPT ![r] = [@ EXCEPT !.phase = "checking", !.client = c,
                                           !.arrived = clock, !.stamp = t]]
  /\ UNCHANGED <<clock, bucket, history>>

Answered(r, code) == [req[r] EXCEPT !.phase = "done", !.code = code]

NextRuleSkipping(r) == IF req[r].rule + 2 <= NumRules THEN req[r].rule + 2 ELSE 0
\* The rule to consume from next; 0: all have been.
NextRule(r) == IF req[r].rule + 1 <= NumRules THEN req[r].rule + 1 ELSE 0

AfterPass(r) ==
  LET passed == [req[r] EXCEPT !.passed = @ \union {req[r].rule}] IN
  IF NextRule(r) = 0 THEN [passed EXCEPT !.phase = "done", !.code = "allowed"]
                     ELSE [passed EXCEPT !.rule = NextRule(r)]

\* The rule's bucket grants the tokens.  A refusal by a later rule does not
\* give them back.
Pass(r) ==
  /\ IsChecking(r) /\ Identified(r)
  /\ Enough(BucketOf(r), req[r].stamp)
  /\ RunScript(BucketOf(r), req[r].stamp)
  /\ req' = [req EXCEPT ![r] = AfterPass(r)]
  /\ UNCHANGED clock

Refuse(r) ==
  /\ IsChecking(r) /\ Identified(r)
  /\ ~Enough(BucketOf(r), req[r].stamp)
  /\ RunScript(BucketOf(r), req[r].stamp)
  /\ req' = [req EXCEPT ![r] = [Answered(r, "rate_limited") EXCEPT
                                  !.retry = RetryAfter(BucketOf(r), req[r].stamp)]]
  /\ UNCHANGED clock

\* A rule whose identity the request does not have refuses it.
RefuseUnidentified(r) ==
  /\ IsChecking(r) /\ ~Identified(r)
  /\ req' = [req EXCEPT ![r] = Answered(r, "rate_limited")]
  /\ UNCHANGED <<clock, bucket, history>>

\* The conservative rule of the local fallback.  The limiter is built for the
\* request and thrown away with it, so its bucket is always full.
LocalCapacity(i) == IF Capacity[i] <= 10 THEN Capacity[i] ELSE 10
LocalAnswer(i) == IF LocalCapacity(i) >= Cost THEN "degraded" ELSE "rate_limited"

FailureAnswer(r) ==
  IF req[r].rule \in FailOpen /\ FallbackEnabled
  THEN LocalAnswer(req[r].rule) ELSE "unavailable"

\* The store fails or times out: the request is answered at once, without the
\* remaining rules, and the script it sent may be lost or adrift.
LoseStore(r) ==
  /\ IsChecking(r) /\ Identified(r)
  /\ \E adrift \in BOOLEAN :
       req' = [req EXCEPT ![r] = [Answered(r, FailureAnswer(r)) EXCEPT !.adrift = adrift]]
  /\ UNCHANGED <<clock, bucket, history>>

\* Redis runs a script whose caller has given up.
RunAdrift(r) ==
  /\ req[r].adrift
  /\ RunScript(BucketOf(r), req[r].stamp)
  /\ req' = [req EXCEPT ![r] = [@ EXCEPT !.adrift = FALSE]]
  /\ UNCHANGED clock

Tick ==
  /\ clock < MaxTime
  /\ \A r \in Requests :
       IsChecking(r) \/ req[r].adrift => clock < req[r].arrived + MaxLate
  /\ clock' = clock + 1
  /\ UNCHANGED <<bucket, req, history>>

\* Everything is over: the model stops here, not the system.
Finished ==
  /\ \A r \in Requests : req[r].phase = "done" /\ ~req[r].adrift
  /\ UNCHANGED vars

Next ==
  \/ Tick \/ Finished
  \/ \E r \in Requests :
       Arrive(r) \/ Pass(r) \/ Refuse(r) \/ RefuseUnidentified(r)
       \/ LoseStore(r) \/ RunAdrift(r)

Spec == Init /\ [][Next]_vars

-----------------------------------------------------------------------------
(* Properties.                                                             *)

\* Every variable keeps its shape, and no bucket holds more than its capacity
\* (redis_store.py: tokens and updated are written together).
TypeOK ==
  /\ clock \in Nat
  /\ bucket \in [Buckets -> [tokens : Nat, updated : Nat, until : Nat]]
  /\ req \in [Requests -> RequestState]
  /\ spent \in [Buckets -> Nat]
  /\ first \in [Buckets -> Nat]
  /\ rewound \in [Buckets -> Nat]
  /\ \A b \in Buckets : bucket[b].tokens <= Full(b[1])

\* Whatever overtakes what, a bucket never grants more than its capacity and
\* what it was refilled with since its first use.  A script told an earlier
\* time than the one before it lets the bucket refill for that time again, and
\* that is all an overtaking request or a replica's wrong clock can gain.
SpentWasRefilled ==
  \A b \in Buckets :
    bucket[b].until # 0 =>
      spent[b] + bucket[b].tokens
        <= Full(b[1]) + Refill[b[1]] * (bucket[b].updated - first[b] + rewound[b])

\* The expiry of a bucket's keys forgets nothing: whoever may still run a
\* script on an expired bucket would have found it full anyway
\* (ttl = 2 * refill_period_seconds, RedisRateLimitStore.consume).
ExpiryForgetsNothing ==
  \A b \in Buckets, t \in clock - MaxLate - Skew .. clock + Skew :
    (bucket[b].until # 0 /\ ~Kept(b)) => Topped(b[1], bucket[b], t) = Full(b[1])

\* A bucket's books balance over its whole life, expiries included: overtaking
\* requests, late scripts and skewed clocks are accounted for, and nothing is
\* gained by waiting for the keys to expire.
BucketsBalance == SpentWasRefilled /\ ExpiryForgetsNothing

\* A request is admitted only when every rule of its category has charged it,
\* or as degraded by the first rule whose store failed, if that rule's fail
\* mode and the configuration permit it, with all rules before it charged.
AdmittedByRules ==
  \A r \in Requests :
    /\ req[r].code = "allowed" => req[r].passed = Rules
    /\ req[r].code = "degraded" =>
         /\ FallbackEnabled /\ req[r].rule \in FailOpen
         /\ req[r].passed = 1 .. req[r].rule - 1

\* Retry-After is exact: if nobody else uses the refusing bucket, the rule lets
\* the client pass after that many seconds, and not one second earlier.
RetryAfterIsExact ==
  [][\A r \in Requests :
       (Refuse(r) /\ Cost <= Capacity[req[r].rule])
       => LET i == req[r].rule
              row == bucket'[BucketOf(r)]
              t == req[r].stamp + req'[r].retry
          IN /\ Topped(i, row, t) >= Price(i)
             /\ Topped(i, row, t - 1) < Price(i)]_vars

=============================================================================
