--------------------------- MODULE GatewayProofs ----------------------------
(***************************************************************************)
(* Theorems about the two halves of the public gateway: RateLimit, with its*)
(* inductive invariant IInv, and PublicWidget, with PInv.                  *)
(***************************************************************************)
EXTENDS Gateway, Sequences, SequenceTheorems, TLAPS

(***************************************************************************)
(* Rate limiting, for any number of requests, clients and rules, any       *)
(* capacities and periods the policies allow, and any bounded lateness and *)
(* clock error.                                                            *)
(***************************************************************************)
\* What is known of a bucket: when it was last written, that what it granted
\* and holds was refilled, and that its expiry came late enough.
BucketHolds(b) ==
  /\ bucket[b].tokens <= Full(b[1])
  /\ bucket[b].until = 0 => spent[b] = 0 /\ rewound[b] = 0
  /\ bucket[b].until # 0 =>
       /\ bucket[b].until <= clock + 2 * Period[b[1]]
       /\ bucket[b].updated + 2 * Period[b[1]] <= bucket[b].until + Skew
       /\ spent[b] + bucket[b].tokens
            <= Full(b[1]) + Refill[b[1]] * (bucket[b].updated - first[b] + rewound[b])

\* What is known of a request: its script runs with a stamp of the recent past,
\* and the rules before the one it is at have charged it.
RequestHolds(r) ==
  /\ IsChecking(r) \/ req[r].adrift =>
       /\ clock <= req[r].arrived + MaxLate
       /\ req[r].arrived <= clock
       /\ req[r].arrived <= req[r].stamp + Skew
       /\ req[r].stamp <= req[r].arrived + Skew
       /\ Identified(r) => BucketOf(r) \in Buckets
  /\ req[r].adrift => Identified(r)
  /\ req[r].phase = "new" => req[r] = NewRequest
  /\ IsChecking(r) => /\ req[r].passed = 1 .. req[r].rule - 1
                      /\ req[r].code = "none" /\ ~req[r].adrift
  /\ req[r].code = "allowed" => req[r].passed = Rules
  /\ req[r].code = "degraded" =>
       FallbackEnabled /\ req[r].rule \in FailOpen /\ req[r].passed = 1 .. req[r].rule - 1

Shape ==
  /\ clock \in Nat /\ Skew <= clock
  /\ bucket \in [Buckets -> [tokens : Nat, updated : Nat, until : Nat]]
  /\ req \in [Requests -> RequestState]
  /\ spent \in [Buckets -> Nat]
  /\ first \in [Buckets -> Nat]
  /\ rewound \in [Buckets -> Nat]

IInv ==
  /\ Shape
  /\ \A b \in Buckets : BucketHolds(b)
  /\ \A r \in Requests : RequestHolds(r)

-----------------------------------------------------------------------------
(* Arithmetic.                                                             *)

\* Products of naturals are monotone in both factors.
LEMMA ProductsGrow ==
  ASSUME NEW a \in Nat, NEW x \in Nat, NEW c \in Nat, NEW y \in Nat, a <= x, c <= y
  PROVE  a * c <= x * y
<1>1. PICK d \in Nat : x = a + d
  BY SMT
<1>2. PICK e \in Nat : y = c + e
  BY SMT
<1>3. x * y = a * c + a * e + d * c + d * e
  BY <1>1, <1>2, SMT
<1>4. a * e \in Nat /\ d * c \in Nat /\ d * e \in Nat /\ a * c \in Nat
  BY SMT
<1> QED
  BY <1>3, <1>4, SMT

\* Rounding a quotient of naturals gives a natural.
LEMMA QuotientNat ==
  ASSUME NEW n \in Nat, NEW d \in Nat \ {0}
  PROVE  n \div d \in Nat
BY SMT

\* Rounding up gives the first multiple of the divisor that is large enough.
LEMMA CeilingIsLeast ==
  ASSUME NEW m \in Nat \ {0}, NEW d \in Nat \ {0}, NEW w, w = (m + d - 1) \div d
  PROVE  w \in Nat \ {0} /\ m <= w * d /\ (w - 1) * d < m
<1>1. w \in Nat /\ w * d <= m + d - 1 /\ m + d - 1 < w * d + d
  BY SMT
<1>2. w # 0
  BY <1>1, SMT
<1>3. (w - 1) * d = w * d - d /\ w * d \in Nat
  BY <1>1, SMT
<1> QED
  BY <1>1, <1>2, <1>3, SMT

\* The capacity, the price and the parameters of a bucket's rule are naturals.
LEMMA RuleFacts ==
  ASSUME NEW b \in Buckets
  PROVE  /\ b[1] \in Rules
         /\ Capacity[b[1]] \in Nat \ {0} /\ Refill[b[1]] \in Nat \ {0}
         /\ Period[b[1]] \in Nat \ {0}
         /\ Full(b[1]) \in Nat /\ Price(b[1]) \in Nat
         /\ Capacity[b[1]] <= Refill[b[1]]
         /\ MaxLate + 2 * Skew <= Period[b[1]]
         /\ Skew \in Nat /\ MaxLate \in Nat
<1>1. b[1] \in Rules
  BY DEF Buckets
<1>2. /\ Capacity[b[1]] \in Nat \ {0} /\ Refill[b[1]] \in Nat \ {0}
      /\ Period[b[1]] \in Nat \ {0} /\ Cost \in Nat
  BY <1>1, RulesAssumption
<1>3. Full(b[1]) \in Nat /\ Price(b[1]) \in Nat
  BY <1>2, SMT DEF Full, Price
<1> QED
  BY <1>1, <1>2, <1>3, RulesAssumption, PolicyAssumption

\* The row of a bucket is made of naturals.
LEMMA RowFacts ==
  ASSUME Shape, NEW b \in Buckets
  PROVE  /\ bucket[b] \in [tokens : Nat, updated : Nat, until : Nat]
         /\ bucket[b].tokens \in Nat /\ bucket[b].updated \in Nat /\ bucket[b].until \in Nat
         /\ spent[b] \in Nat /\ first[b] \in Nat /\ rewound[b] \in Nat /\ clock \in Nat
BY DEF Shape

-----------------------------------------------------------------------------
(* The token bucket.                                                       *)

\* Topping up gives a natural below the capacity and below the refill.
LEMMA ToppedBounds ==
  ASSUME Shape, NEW b \in Buckets, NEW t \in Int
  PROVE  /\ Elapsed(bucket[b], t) \in Nat
         /\ Topped(b[1], bucket[b], t) \in Nat
         /\ Topped(b[1], bucket[b], t) <= Full(b[1])
         /\ Topped(b[1], bucket[b], t)
              <= bucket[b].tokens + Elapsed(bucket[b], t) * Refill[b[1]]
<1> DEFINE e == Elapsed(bucket[b], t)
<1>1. e \in Nat
  BY RowFacts, SMT DEF Elapsed
<1>2. e * Refill[b[1]] \in Nat
  BY <1>1, RuleFacts, SMT
<1> HIDE DEF e
<1>3. /\ Topped(b[1], bucket[b], t) \in Nat
      /\ Topped(b[1], bucket[b], t) <= Full(b[1])
      /\ Topped(b[1], bucket[b], t) <= bucket[b].tokens + e * Refill[b[1]]
  <2>1. Topped(b[1], bucket[b], t)
          = IF bucket[b].tokens + e * Refill[b[1]] <= Full(b[1])
            THEN bucket[b].tokens + e * Refill[b[1]] ELSE Full(b[1])
    BY DEF Topped, e
  <2> QED
    BY <2>1, <1>2, RuleFacts, RowFacts, SMT
<1> QED
  BY <1>1, <1>3 DEF e

\* A bucket whose keys have expired has had a whole period to refill, for any
\* stamp that a late request or a wrong clock can still present.
LEMMA ExpiredIsFull ==
  ASSUME Shape, NEW b \in Buckets, BucketHolds(b), bucket[b].until # 0, ~Kept(b),
         NEW t \in Int, clock - MaxLate - Skew <= t
  PROVE  Topped(b[1], bucket[b], t) = Full(b[1])
<1> DEFINE e == Elapsed(bucket[b], t)
<1>1. e \in Nat /\ Period[b[1]] <= e
  <2>1. bucket[b].updated + 2 * Period[b[1]] <= bucket[b].until + Skew
    BY DEF BucketHolds
  <2>2. bucket[b].until <= clock
    BY RowFacts, SMT DEF Kept
  <2>3. bucket[b].updated + Period[b[1]] <= t
    BY <2>1, <2>2, RowFacts, RuleFacts, SMT
  <2> QED
    BY <2>3, RowFacts, RuleFacts, SMT DEF Elapsed
<1>2. Full(b[1]) <= e * Refill[b[1]]
  <2>1. Capacity[b[1]] * Period[b[1]] <= Refill[b[1]] * e
    BY <1>1, RuleFacts, ProductsGrow
  <2>2. Refill[b[1]] * e = e * Refill[b[1]]
    BY <1>1, RuleFacts, SMT
  <2> QED
    BY <2>1, <2>2 DEF Full
<1>3. e * Refill[b[1]] \in Nat
  BY <1>1, RuleFacts, SMT
<1>4. Topped(b[1], bucket[b], t)
        = IF bucket[b].tokens + e * Refill[b[1]] <= Full(b[1])
          THEN bucket[b].tokens + e * Refill[b[1]] ELSE Full(b[1])
  BY DEF Topped, e
<1>5. ASSUME NEW m \in Nat, Full(b[1]) <= m
      PROVE  (IF bucket[b].tokens + m <= Full(b[1]) THEN bucket[b].tokens + m ELSE Full(b[1]))
               = Full(b[1])
  BY <1>5, RowFacts, RuleFacts, SMT
<1> HIDE DEF e
<1> QED
  BY <1>2, <1>3, <1>4, <1>5

\* What a script finds available, and what it charges.
LEMMA AvailableBounds ==
  ASSUME Shape, NEW b \in Buckets, BucketHolds(b),
         NEW t \in Nat, clock - MaxLate - Skew <= t
  PROVE  /\ Available(b, t) \in Nat /\ Available(b, t) <= Full(b[1])
         /\ Charge(b, t) \in Nat /\ Charge(b, t) <= Available(b, t)
         /\ bucket[b].until # 0 =>
              Available(b, t) <= bucket[b].tokens + Elapsed(bucket[b], t) * Refill[b[1]]
<1>1. t \in Int
  OBVIOUS
<1>2. Available(b, t) \in Nat /\ Available(b, t) <= Full(b[1])
  BY <1>1, ToppedBounds, RuleFacts, SMT DEF Available
<1>3. Charge(b, t) \in Nat /\ Charge(b, t) <= Available(b, t)
  BY <1>2, RuleFacts, SMT DEF Charge, Enough
<1>4. ASSUME bucket[b].until # 0
      PROVE  Available(b, t) = Topped(b[1], bucket[b], t)
  BY <1>1, <1>4, ExpiredIsFull DEF Available
<1> QED
  BY <1>1, <1>2, <1>3, <1>4, ToppedBounds

\* A script leaves every bucket's books balanced.
LEMMA ScriptKeeps ==
  ASSUME Shape, \A b \in Buckets : BucketHolds(b),
         NEW c \in Buckets, NEW t \in Nat, clock - MaxLate - Skew <= t, t <= clock + Skew,
         RunScript(c, t), clock' = clock
  PROVE  /\ bucket' \in [Buckets -> [tokens : Nat, updated : Nat, until : Nat]]
         /\ spent' \in [Buckets -> Nat]
         /\ first' \in [Buckets -> Nat]
         /\ rewound' \in [Buckets -> Nat]
         /\ \A b \in Buckets : BucketHolds(b)'
<1> DEFINE a == Available(c, t)
           g == Charge(c, t)
           e == Elapsed(bucket[c], t)
           p == Period[c[1]]
           f == Refill[c[1]]
           row == bucket[c]
           new == [tokens |-> a - g, updated |-> t, until |-> clock + TimeToLive(c[1])]
           w == IF row.until # 0 /\ row.updated > t THEN rewound[c] + (row.updated - t)
                ELSE rewound[c]
           o == IF row.until = 0 THEN t ELSE first[c]
<1>1. /\ bucket' = [bucket EXCEPT ![c] = new]
      /\ spent' = [spent EXCEPT ![c] = @ + g]
      /\ first' = [first EXCEPT ![c] = o]
      /\ rewound' = [rewound EXCEPT ![c] = w]
  BY DEF RunScript
<1>2. /\ a \in Nat /\ a <= Full(c[1]) /\ g \in Nat /\ g <= a
      /\ row.until # 0 => a <= row.tokens + e * f
  BY AvailableBounds
<1>3. e \in Nat /\ (row.updated <= t => e = t - row.updated) /\ (row.updated > t => e = 0)
  BY RowFacts, SMT DEF Elapsed
<1>4. p \in Nat \ {0} /\ f \in Nat \ {0} /\ Skew \in Nat /\ clock \in Nat /\ Full(c[1]) \in Nat
  BY RuleFacts, RowFacts
<1>5. w \in Nat /\ o \in Nat /\ spent[c] \in Nat /\ rewound[c] \in Nat /\ first[c] \in Nat
      /\ row.tokens \in Nat /\ row.updated \in Nat /\ row.until \in Nat
  BY RowFacts, SMT
<1>6. TimeToLive(c[1]) = 2 * p
  BY DEF TimeToLive
<1>7. new \in [tokens : Nat, updated : Nat, until : Nat]
      /\ new.tokens = a - g /\ new.updated = t /\ new.until = clock + 2 * p
  BY <1>2, <1>4, <1>6, SMT
<1>8. BucketHolds(c)
  OBVIOUS
<1>9. spent[c] + a <= Full(c[1]) + f * (t - o + w)
  <2>1. CASE row.until = 0
    <3>1. spent[c] = 0 /\ rewound[c] = 0
      BY <1>8, <2>1 DEF BucketHolds
    <3>2. t - o + w = 0
      BY <2>1, <3>1, SMT
    <3>3. f * (t - o + w) = 0
      BY <3>2, <1>4, SMT
    <3> QED
      BY <3>1, <3>3, <1>2, <1>4, SMT
  <2>2. CASE row.until # 0
    <3>1. spent[c] + row.tokens <= Full(c[1]) + f * (row.updated - first[c] + rewound[c])
      BY <1>8, <2>2 DEF BucketHolds
    <3>2. t - o + w = (row.updated - first[c] + rewound[c]) + e
      BY <2>2, <1>3, <1>5, SMT
    <3>3. f * (t - o + w) = f * (row.updated - first[c] + rewound[c]) + e * f
      BY <3>2, <1>3, <1>4, <1>5, SMT
    <3>4. /\ f * (row.updated - first[c] + rewound[c]) \in Int /\ e * f \in Int
      BY <1>3, <1>4, <1>5, SMT
    <3>5. a <= row.tokens + e * f
      BY <1>2, <2>2
    <3> HIDE DEF a, g, e, f, p, w, o, row
    <3> QED
      BY <3>1, <3>3, <3>4, <3>5, <1>2, <1>4, <1>5, SMT
  <2> QED
    BY <2>1, <2>2
<1> HIDE DEF a, g, e, f, p, w, o, row, new
<1>10. BucketHolds(c)'
  <2>1. bucket[c]' = new /\ spent[c]' = spent[c] + g /\ first[c]' = o /\ rewound[c]' = w
    BY <1>1, RowFacts DEF Shape
  <2>2. f * (t - o + w) \in Int
    BY <1>4, <1>5, SMT
  <2>3. (spent[c] + g) + (a - g) <= Full(c[1]) + f * (t - o + w)
    BY <1>9, <2>2, <1>2, <1>4, <1>5, SMT
  <2>4. a - g <= Full(c[1])
    BY <1>2, <1>4, SMT
  <2>5. /\ clock + 2 * p <= clock + 2 * p /\ t + 2 * p <= clock + 2 * p + Skew
        /\ clock + 2 * p # 0
    BY <1>4, SMT
  <2> QED
    BY <2>1, <2>3, <2>4, <2>5, <1>7 DEF BucketHolds, p, f
<1>11. ASSUME NEW b \in Buckets, b # c PROVE BucketHolds(b)'
  <2>1. /\ bucket[b]' = bucket[b] /\ spent[b]' = spent[b] /\ first[b]' = first[b]
        /\ rewound[b]' = rewound[b]
    BY <1>1, <1>11 DEF Shape
  <2>2. BucketHolds(b)
    OBVIOUS
  <2> QED
    BY <2>1, <2>2 DEF BucketHolds
<1>12. /\ bucket' \in [Buckets -> [tokens : Nat, updated : Nat, until : Nat]]
       /\ spent' \in [Buckets -> Nat]
       /\ first' \in [Buckets -> Nat]
       /\ rewound' \in [Buckets -> Nat]
  <2>1. spent[c] + g \in Nat
    BY <1>2, <1>5, SMT
  <2> QED
    BY <1>1, <1>5, <1>7, <2>1 DEF Shape
<1> QED
  BY <1>10, <1>11, <1>12

-----------------------------------------------------------------------------
(* The requests.                                                           *)

\* A request is typed and holds a rule; the bucket it is at exists.
LEMMA RequestFacts ==
  ASSUME Shape, NEW r \in Requests
  PROVE  /\ req[r] \in RequestState
         /\ req[r].rule \in Rules /\ req[r].stamp \in Nat /\ req[r].arrived \in Nat
         /\ req[r].client \in Clients \union {NoClient} /\ req[r].passed \subseteq Rules
         /\ req[r].adrift \in BOOLEAN
BY DEF Shape, RequestState

LEMMA BucketOfExists ==
  ASSUME NEW i \in Rules, NEW c \in Clients \union {NoClient}, i \in PerClient => c # NoClient
  PROVE  <<i, IF i \in PerClient THEN c ELSE Platform>> \in Buckets
BY SMT DEF Buckets, Identities

\* The initial state.
LEMMA InitHolds == Init => IInv
<1> SUFFICES ASSUME Init PROVE IInv
  OBVIOUS
<1>1. Skew \in Nat /\ MaxLate \in Nat /\ 1 \in Rules
  BY RulesAssumption, SMT DEF Rules
<1>2. \A b \in Buckets : Full(b[1]) \in Nat
  BY RuleFacts
<1>3. NewRequest \in RequestState
  BY <1>1, SMT DEF NewRequest, RequestState, Phases, Codes
<1>4. Shape
  BY <1>1, <1>2, <1>3, SMT DEF Init, Shape
<1>5. ASSUME NEW b \in Buckets PROVE BucketHolds(b)
  BY <1>2, <1>5, SMT DEF Init, BucketHolds
<1>6. ASSUME NEW r \in Requests PROVE RequestHolds(r)
  BY <1>6, SMT DEF Init, RequestHolds, NewRequest, IsChecking
<1> QED
  BY <1>4, <1>5, <1>6 DEF IInv

\* What a request alone does is right for it if its new record is; the others'
\* records and the clock stay.
LEMMA OneRequest ==
  ASSUME IInv, NEW r \in Requests, NEW q \in RequestState,
         req' = [req EXCEPT ![r] = q], clock' = clock, RequestHolds(r)'
  PROVE  /\ req' \in [Requests -> RequestState]
         /\ \A s \in Requests : RequestHolds(s)'
<1>1. req' \in [Requests -> RequestState]
  BY DEF IInv, Shape
<1>2. ASSUME NEW s \in Requests, s # r PROVE RequestHolds(s)'
  <2>1. req'[s] = req[s] /\ RequestHolds(s)
    BY <1>2 DEF IInv, Shape
  <2> QED
    BY <2>1 DEF RequestHolds, IsChecking, BucketOf, Identified
<1> QED
  BY <1>1, <1>2

\* A request that runs its script now.
LEMMA ScriptInTime ==
  ASSUME IInv, NEW r \in Requests, IsChecking(r) \/ req[r].adrift, Identified(r),
         RunScript(BucketOf(r), req[r].stamp), clock' = clock
  PROVE  /\ bucket' \in [Buckets -> [tokens : Nat, updated : Nat, until : Nat]]
         /\ spent' \in [Buckets -> Nat]
         /\ first' \in [Buckets -> Nat]
         /\ rewound' \in [Buckets -> Nat]
         /\ \A b \in Buckets : BucketHolds(b)'
<1>1. Shape /\ RequestHolds(r) /\ \A b \in Buckets : BucketHolds(b)
  BY DEF IInv
<1>2. BucketOf(r) \in Buckets
  BY <1>1 DEF RequestHolds
<1>3. req[r].stamp \in Nat /\ req[r].arrived \in Nat /\ clock \in Nat
  BY <1>1, RequestFacts DEF Shape
<1>4. /\ clock <= req[r].arrived + MaxLate /\ req[r].arrived <= clock
      /\ req[r].arrived <= req[r].stamp + Skew /\ req[r].stamp <= req[r].arrived + Skew
  BY <1>1 DEF RequestHolds
<1>5. clock - MaxLate - Skew <= req[r].stamp /\ req[r].stamp <= clock + Skew
  BY <1>3, <1>4, RulesAssumption, SMT
<1> QED
  BY <1>1, <1>2, <1>3, <1>5, ScriptKeeps

\* A request that leaves the buckets alone.
LEMMA BucketsStay ==
  ASSUME IInv, UNCHANGED <<clock, bucket, history>>
  PROVE  /\ clock' \in Nat /\ Skew <= clock'
         /\ bucket' \in [Buckets -> [tokens : Nat, updated : Nat, until : Nat]]
         /\ spent' \in [Buckets -> Nat]
         /\ first' \in [Buckets -> Nat]
         /\ rewound' \in [Buckets -> Nat]
         /\ \A b \in Buckets : BucketHolds(b)'
BY DEF IInv, Shape, BucketHolds, history

-----------------------------------------------------------------------------
(* Every step keeps the invariant.                                         *)

LEMMA ArriveKeeps ==
  ASSUME IInv, NEW r \in Requests, Arrive(r)
  PROVE  IInv'
<1>1. PICK c \in Clients \union {NoClient}, t \in clock - Skew .. clock + Skew :
        req' = [req EXCEPT ![r] = [@ EXCEPT !.phase = "checking", !.client = c,
                                            !.arrived = clock, !.stamp = t]]
  BY DEF Arrive
<1>2. Shape /\ RequestHolds(r) /\ req[r].phase = "new" /\ clock' = clock
  BY DEF IInv, Arrive
<1>3. req[r] = NewRequest
  BY <1>2 DEF RequestHolds
<1>4. clock \in Nat /\ Skew <= clock /\ Skew \in Nat /\ MaxLate \in Nat /\ 1 \in Rules
  BY <1>2, RulesAssumption, SMT DEF Shape, Rules
<1>5. t \in Nat /\ clock <= t + Skew /\ t <= clock + Skew
  BY <1>4, SMT
<1> DEFINE q == [NewRequest EXCEPT !.phase = "checking", !.client = c, !.arrived = clock, !.stamp = t]
<1>6. req' = [req EXCEPT ![r] = q]
  BY <1>1, <1>3
<1>7. q \in RequestState
  <2>1. NewRequest \in RequestState
    BY <1>4, SMT DEF NewRequest, RequestState, Phases, Codes
  <2> QED
    BY <2>1, <1>4, <1>5 DEF RequestState, Phases
<1>8. /\ req'[r] = q /\ q.phase = "checking" /\ q.client = c /\ q.arrived = clock /\ q.stamp = t
      /\ q.rule = 1 /\ q.passed = {} /\ ~q.adrift /\ q.code = "none"
  BY <1>2, <1>6 DEF Shape, NewRequest
<1>9. RequestHolds(r)'
  <2>1. Identified(r)' => BucketOf(r)' \in Buckets
    BY <1>4, <1>8, BucketOfExists DEF Identified, BucketOf
  <2>2. {} = 1 .. 1 - 1
    BY SMT
  <2> HIDE DEF q
  <2> QED
    BY <1>2, <1>4, <1>5, <1>8, <2>1, <2>2, SMT DEF RequestHolds, IsChecking
<1>10. /\ req' \in [Requests -> RequestState]
       /\ \A s \in Requests : RequestHolds(s)'
  <2> HIDE DEF q
  <2> QED
    BY <1>2, <1>6, <1>7, <1>9, OneRequest
<1>11. UNCHANGED <<clock, bucket, history>>
  BY DEF Arrive
<1> QED
  BY <1>10, <1>11, BucketsStay DEF IInv, Shape

\* What a request knows while it checks a rule that identifies it.
LEMMA CheckingFacts ==
  ASSUME IInv, NEW r \in Requests, IsChecking(r)
  PROVE  /\ Shape /\ req[r] \in RequestState /\ req[r].rule \in Rules
         /\ req[r].passed = 1 .. req[r].rule - 1 /\ req[r].code = "none"
         /\ ~req[r].adrift
         /\ clock <= req[r].arrived + MaxLate /\ req[r].arrived <= clock
         /\ req[r].arrived <= req[r].stamp + Skew /\ req[r].stamp <= req[r].arrived + Skew
         /\ Identified(r) => BucketOf(r) \in Buckets
BY RequestFacts DEF IInv, RequestHolds

LEMMA PassKeeps ==
  ASSUME IInv, NEW r \in Requests, Pass(r)
  PROVE  IInv'
<1>1. /\ IsChecking(r) /\ Identified(r) /\ clock' = clock
      /\ RunScript(BucketOf(r), req[r].stamp)
      /\ req' = [req EXCEPT ![r] = AfterPass(r)]
  BY DEF Pass
<1>2. /\ Shape /\ req[r] \in RequestState /\ req[r].rule \in Rules
      /\ req[r].passed = 1 .. req[r].rule - 1 /\ req[r].code = "none"
      /\ clock <= req[r].arrived + MaxLate /\ req[r].arrived <= clock
      /\ req[r].arrived <= req[r].stamp + Skew /\ req[r].stamp <= req[r].arrived + Skew
      /\ BucketOf(r) \in Buckets /\ ~req[r].adrift
  BY <1>1, CheckingFacts
<1> DEFINE n == req[r].rule
           done == [[req[r] EXCEPT !.passed = @ \union {n}] EXCEPT !.phase = "done", !.code = "allowed"]
           next == [[req[r] EXCEPT !.passed = @ \union {n}] EXCEPT !.rule = n + 1]
<1>3. NumRules \in Nat \ {0} /\ n \in Nat /\ 1 <= n /\ n <= NumRules
  BY <1>2, RulesAssumption, SMT DEF Rules
<1>4. (1 .. n - 1) \union {n} = 1 .. n
  BY <1>3, SMT
<1>5. CASE n + 1 <= NumRules
  <2>1. req' = [req EXCEPT ![r] = next]
    <3>1. NextRule(r) = n + 1 /\ NextRule(r) # 0
      BY <1>3, <1>5, SMT DEF NextRule
    <3>2. AfterPass(r) = next
      BY <3>1 DEF AfterPass
    <3> QED
      BY <1>1, <3>2
  <2>2. n + 1 \in Rules
    BY <1>3, <1>5, SMT DEF Rules
  <2>3. next \in RequestState
    BY <1>2, <2>2 DEF RequestState
  <2>4. req'[r] = next
    BY <1>2, <2>1 DEF Shape
  <2>5. /\ next.phase = req[r].phase /\ next.client = req[r].client /\ next.stamp = req[r].stamp
        /\ next.arrived = req[r].arrived /\ next.code = "none" /\ next.rule = n + 1
        /\ next.passed = 1 .. n /\ next.adrift = req[r].adrift
    BY <1>2, <1>4 DEF RequestState
  <2>6. 1 .. n = 1 .. (n + 1) - 1
    BY <1>3, SMT
  <2> HIDE DEF next
  <2>7. RequestHolds(r)'
    <3>1. Identified(r)' => BucketOf(r)' \in Buckets
      BY <1>2, <2>2, <2>4, <2>5, BucketOfExists DEF Identified, BucketOf, RequestState
    <3>2. ~next.adrift /\ next.phase = "checking"
      BY <1>1, <1>2, <2>5 DEF IsChecking
    <3> QED
      BY <1>1, <1>2, <2>4, <2>5, <2>6, <3>1, <3>2, SMT DEF RequestHolds, IsChecking
  <2>8. /\ req' \in [Requests -> RequestState]
        /\ \A s \in Requests : RequestHolds(s)'
    BY <1>1, <2>1, <2>3, <2>7, OneRequest
  <2> QED
    BY <1>1, <1>2, <2>8, ScriptInTime DEF IInv, Shape
<1>6. CASE ~(n + 1 <= NumRules)
  <2>1. req' = [req EXCEPT ![r] = done]
    <3>1. NextRule(r) = 0
      BY <1>6, SMT DEF NextRule
    <3>2. AfterPass(r) = done
      BY <3>1 DEF AfterPass
    <3> QED
      BY <1>1, <3>2
  <2>2. done \in RequestState
    BY <1>2 DEF RequestState, Phases, Codes
  <2>3. req'[r] = done
    BY <1>2, <2>1 DEF Shape
  <2>4. /\ done.phase = "done" /\ done.client = req[r].client /\ done.stamp = req[r].stamp
        /\ done.arrived = req[r].arrived /\ done.code = "allowed" /\ done.rule = n
        /\ done.passed = Rules /\ done.adrift = req[r].adrift
    <3>1. 1 .. n = Rules
      BY <1>3, <1>6, SMT DEF Rules
    <3> QED
      BY <1>2, <1>4, <3>1 DEF RequestState
  <2> HIDE DEF done
  <2>5. RequestHolds(r)'
    <3>1. Identified(r)' = Identified(r) /\ BucketOf(r)' = BucketOf(r)
      BY <2>3, <2>4 DEF Identified, BucketOf
    <3> QED
      BY <1>1, <1>2, <2>3, <2>4, <3>1, SMT DEF RequestHolds, IsChecking
  <2>6. /\ req' \in [Requests -> RequestState]
        /\ \A s \in Requests : RequestHolds(s)'
    BY <1>1, <2>1, <2>2, <2>5, OneRequest
  <2> QED
    BY <1>1, <1>2, <2>6, ScriptInTime DEF IInv, Shape
<1> QED
  BY <1>5, <1>6

\* A refusal or a degraded answer ends the request and keeps what it charged.
LEMMA AnswerHolds ==
  ASSUME IInv, NEW r \in Requests, IsChecking(r),
         NEW q \in RequestState, req' = [req EXCEPT ![r] = q], clock' = clock,
         q.phase = "done", q.client = req[r].client, q.arrived = req[r].arrived,
         q.stamp = req[r].stamp, q.rule = req[r].rule, q.passed = req[r].passed,
         q.code # "allowed", q.adrift => Identified(r),
         q.code = "degraded" => FallbackEnabled /\ req[r].rule \in FailOpen
  PROVE  /\ req' \in [Requests -> RequestState]
         /\ \A s \in Requests : RequestHolds(s)'
<1>1. /\ Shape /\ req[r].passed = 1 .. req[r].rule - 1
      /\ clock <= req[r].arrived + MaxLate /\ req[r].arrived <= clock
      /\ req[r].arrived <= req[r].stamp + Skew /\ req[r].stamp <= req[r].arrived + Skew
      /\ Identified(r) => BucketOf(r) \in Buckets
  BY CheckingFacts
<1>2. req'[r] = q
  BY <1>1 DEF Shape
<1>3. Identified(r)' = Identified(r) /\ BucketOf(r)' = BucketOf(r) /\ Buckets' = Buckets
  BY <1>2 DEF Identified, BucketOf, Buckets, Identities
<1>4. RequestHolds(r)'
  BY <1>1, <1>2, <1>3, SMT DEF RequestHolds, IsChecking
<1> QED
  BY <1>4, OneRequest

LEMMA RefuseKeeps ==
  ASSUME IInv, NEW r \in Requests, Refuse(r)
  PROVE  IInv'
<1> DEFINE w == RetryAfter(BucketOf(r), req[r].stamp)
           q == [[req[r] EXCEPT !.phase = "done", !.code = "rate_limited"] EXCEPT !.retry = w]
<1>1. /\ IsChecking(r) /\ Identified(r) /\ clock' = clock
      /\ ~Enough(BucketOf(r), req[r].stamp) /\ RunScript(BucketOf(r), req[r].stamp)
      /\ req' = [req EXCEPT ![r] = q]
  BY DEF Refuse, Answered
<1>2. /\ Shape /\ req[r] \in RequestState /\ BucketOf(r) \in Buckets
      /\ req[r].arrived <= req[r].stamp + Skew /\ clock <= req[r].arrived + MaxLate
      /\ BucketHolds(BucketOf(r))
  BY <1>1, CheckingFacts DEF IInv
<1>3. w \in Nat
  <2> DEFINE b == BucketOf(r)
             a == Available(b, req[r].stamp)
  <2>1. req[r].stamp \in Nat /\ req[r].arrived \in Nat /\ clock \in Nat
    BY <1>2 DEF RequestState, Shape
  <2>2. clock - MaxLate - Skew <= req[r].stamp
    BY <1>2, <2>1, RulesAssumption, SMT
  <2>3. a \in Nat /\ Price(b[1]) \in Nat /\ Refill[b[1]] \in Nat \ {0}
    BY <1>2, <2>1, <2>2, AvailableBounds, RuleFacts
  <2>4. ~(a >= Price(b[1]))
    BY <1>1 DEF Enough
  <2>5. Price(b[1]) - a + Refill[b[1]] - 1 \in Nat
    <3> HIDE DEF a, b
    <3> QED
      BY <2>3, <2>4, SMT
  <2> QED
    BY <2>3, <2>5, QuotientNat DEF RetryAfter
<1> HIDE DEF w
<1>4. /\ q \in RequestState
      /\ q.phase = "done" /\ q.client = req[r].client /\ q.arrived = req[r].arrived
      /\ q.stamp = req[r].stamp /\ q.rule = req[r].rule /\ q.passed = req[r].passed
      /\ q.code = "rate_limited"
  BY <1>2, <1>3 DEF RequestState, Phases, Codes
<1> HIDE DEF q
<1>5. /\ req' \in [Requests -> RequestState]
      /\ \A s \in Requests : RequestHolds(s)'
  BY <1>1, <1>4, AnswerHolds
<1> QED
  BY <1>1, <1>2, <1>5, ScriptInTime DEF IInv, Shape

LEMMA RefuseUnidentifiedKeeps ==
  ASSUME IInv, NEW r \in Requests, RefuseUnidentified(r)
  PROVE  IInv'
<1> DEFINE q == [req[r] EXCEPT !.phase = "done", !.code = "rate_limited"]
<1>1. /\ IsChecking(r) /\ UNCHANGED <<clock, bucket, history>>
      /\ req' = [req EXCEPT ![r] = q]
  BY DEF RefuseUnidentified, Answered
<1>2. Shape /\ req[r] \in RequestState /\ ~req[r].adrift
  BY <1>1, CheckingFacts
<1>3. /\ q \in RequestState
      /\ q.phase = "done" /\ q.client = req[r].client /\ q.arrived = req[r].arrived
      /\ q.stamp = req[r].stamp /\ q.rule = req[r].rule /\ q.passed = req[r].passed
      /\ q.code = "rate_limited" /\ ~q.adrift
  BY <1>2 DEF RequestState, Phases, Codes
<1> HIDE DEF q
<1>4. /\ req' \in [Requests -> RequestState]
      /\ \A s \in Requests : RequestHolds(s)'
  BY <1>1, <1>3, AnswerHolds
<1> QED
  BY <1>1, <1>4, BucketsStay DEF IInv, Shape

LEMMA LoseStoreKeeps ==
  ASSUME IInv, NEW r \in Requests, LoseStore(r)
  PROVE  IInv'
<1> DEFINE x == FailureAnswer(r)
<1>1. PICK adrift \in BOOLEAN :
        req' = [req EXCEPT ![r] = [Answered(r, x) EXCEPT !.adrift = adrift]]
  BY DEF LoseStore
<1> DEFINE q == [[req[r] EXCEPT !.phase = "done", !.code = x] EXCEPT !.adrift = adrift]
<1>2. /\ IsChecking(r) /\ Identified(r) /\ UNCHANGED <<clock, bucket, history>>
      /\ req' = [req EXCEPT ![r] = q]
  BY <1>1 DEF LoseStore, Answered
<1>3. Shape /\ req[r] \in RequestState
  BY <1>2, CheckingFacts
<1>4. /\ x \in Codes /\ x # "allowed"
      /\ x = "degraded" => FallbackEnabled /\ req[r].rule \in FailOpen
  BY DEF FailureAnswer, LocalAnswer, Codes
<1> HIDE DEF x
<1>5. /\ q \in RequestState
      /\ q.phase = "done" /\ q.client = req[r].client /\ q.arrived = req[r].arrived
      /\ q.stamp = req[r].stamp /\ q.rule = req[r].rule /\ q.passed = req[r].passed
      /\ q.code = x
  BY <1>3, <1>4 DEF RequestState, Phases
<1> HIDE DEF q
<1>6. /\ req' \in [Requests -> RequestState]
      /\ \A s \in Requests : RequestHolds(s)'
  BY <1>2, <1>4, <1>5, AnswerHolds
<1> QED
  BY <1>2, <1>6, BucketsStay DEF IInv, Shape

LEMMA RunAdriftKeeps ==
  ASSUME IInv, NEW r \in Requests, RunAdrift(r)
  PROVE  IInv'
<1> DEFINE q == [req[r] EXCEPT !.adrift = FALSE]
<1>1. /\ req[r].adrift /\ clock' = clock /\ RunScript(BucketOf(r), req[r].stamp)
      /\ req' = [req EXCEPT ![r] = q]
  BY DEF RunAdrift
<1>2. Shape /\ RequestHolds(r) /\ Identified(r) /\ req[r] \in RequestState
  BY <1>1, RequestFacts DEF IInv, RequestHolds
<1>3. /\ q \in RequestState /\ req'[r] = q
      /\ q.phase = req[r].phase /\ q.client = req[r].client /\ q.arrived = req[r].arrived
      /\ q.stamp = req[r].stamp /\ q.rule = req[r].rule /\ q.passed = req[r].passed
      /\ q.code = req[r].code /\ q.adrift = FALSE
  BY <1>1, <1>2 DEF RequestState, Shape
<1>4. ~IsChecking(r) /\ req[r].phase # "new"
  BY <1>1, <1>2 DEF RequestHolds, NewRequest
<1> HIDE DEF q
<1>5. RequestHolds(r)'
  BY <1>2, <1>3, <1>4 DEF RequestHolds, IsChecking
<1>6. /\ req' \in [Requests -> RequestState]
      /\ \A s \in Requests : RequestHolds(s)'
  BY <1>1, <1>3, <1>5, OneRequest
<1> QED
  BY <1>1, <1>2, <1>6, ScriptInTime DEF IInv, Shape

LEMMA TickKeeps ==
  ASSUME IInv, Tick
  PROVE  IInv'
<1>1. clock \in Nat /\ clock' = clock + 1 /\ UNCHANGED <<bucket, req, spent, first, rewound>>
  BY DEF Tick, IInv, Shape, history
<1>2. Shape'
  BY <1>1, RulesAssumption, SMT DEF IInv, Shape
<1>3. ASSUME NEW b \in Buckets PROVE BucketHolds(b)'
  <2>1. Shape /\ BucketHolds(b)
    BY DEF IInv
  <2> QED
    BY <1>1, <2>1, RowFacts, RuleFacts, SMT DEF BucketHolds
<1>4. ASSUME NEW r \in Requests PROVE RequestHolds(r)'
  <2>1. RequestHolds(r) /\ (IsChecking(r) \/ req[r].adrift => clock < req[r].arrived + MaxLate)
    BY DEF IInv, Tick
  <2>2. req[r].arrived \in Nat
    BY RequestFacts DEF IInv
  <2>3. req'[r] = req[r] /\ Identified(r)' = Identified(r) /\ BucketOf(r)' = BucketOf(r)
    BY <1>1 DEF Identified, BucketOf
  <2> QED
    BY <1>1, <2>1, <2>2, <2>3, RulesAssumption, SMT DEF RequestHolds, IsChecking
<1> QED
  BY <1>2, <1>3, <1>4 DEF IInv

LEMMA StutterKeeps ==
  ASSUME IInv, UNCHANGED vars
  PROVE  IInv'
BY DEF IInv, Shape, BucketHolds, RequestHolds, IsChecking, Identified, BucketOf, vars

-----------------------------------------------------------------------------
(* The theorems.                                                           *)

\* The inductive invariant.  What a bucket has granted can only be bounded
\* together with what it holds, and its expiry only together with the ages of
\* the stamps still in flight.
THEOREM Invariance == Spec => []IInv
<1>1. ASSUME IInv, [Next]_vars PROVE IInv'
  BY <1>1, ArriveKeeps, PassKeeps, RefuseKeeps, RefuseUnidentifiedKeeps, LoseStoreKeeps,
     RunAdriftKeeps, TickKeeps, StutterKeeps DEF Next, Finished
<1> QED
  BY InitHolds, <1>1, PTL DEF Spec

\* All variables keep their shapes and no bucket holds more than its capacity.
THEOREM TypeCorrect == Spec => []TypeOK
<1>1. IInv => TypeOK
  BY DEF IInv, Shape, BucketHolds, TypeOK
<1> QED
  BY <1>1, Invariance, PTL

\* Whatever overtakes what, a bucket grants no more than its capacity, its
\* refill since its first use, and the refill of the time it was wound back.
THEOREM Conservation == Spec => []SpentWasRefilled
<1>1. IInv => SpentWasRefilled
  BY DEF IInv, BucketHolds, SpentWasRefilled
<1> QED
  BY <1>1, Invariance, PTL

\* Twice the period is long enough for the keys of a bucket to live.
THEOREM Expiry == Spec => []ExpiryForgetsNothing
<1>1. IInv => ExpiryForgetsNothing
  <2> SUFFICES ASSUME IInv, NEW b \in Buckets, NEW t \in clock - MaxLate - Skew .. clock + Skew,
                      bucket[b].until # 0, ~Kept(b)
               PROVE  Topped(b[1], bucket[b], t) = Full(b[1])
    BY DEF ExpiryForgetsNothing
  <2>1. Shape /\ BucketHolds(b) /\ clock \in Nat
    BY DEF IInv, Shape
  <2>2. t \in Int /\ clock - MaxLate - Skew <= t
    BY <2>1, RulesAssumption, SMT
  <2> QED
    BY <2>1, <2>2, ExpiredIsFull
<1> QED
  BY <1>1, Invariance, PTL

\* The script and the expiry of its keys together: a bucket's books balance over
\* its whole life.
THEOREM Balance == Spec => []BucketsBalance
<1>1. SpentWasRefilled /\ ExpiryForgetsNothing => BucketsBalance
  BY DEF BucketsBalance
<1> QED
  BY <1>1, Conservation, Expiry, PTL

\* No request is admitted without all its rules, except as degraded by a rule
\* that may fail open.
THEOREM Admission == Spec => []AdmittedByRules
<1>1. IInv => AdmittedByRules
  BY DEF IInv, RequestHolds, AdmittedByRules
<1> QED
  BY <1>1, Invariance, PTL

\* A client that waits for as long as the refusal says is let through if nobody
\* else takes from the bucket, and one that comes back a second earlier is not.
THEOREM Retry == Spec => RetryAfterIsExact
<1>1. ASSUME IInv, NEW r \in Requests, Refuse(r), Cost <= Capacity[req[r].rule]
      PROVE  LET i == req[r].rule
                 row == bucket'[BucketOf(r)]
                 t == req[r].stamp + req'[r].retry
             IN /\ Topped(i, row, t) >= Price(i)
                /\ Topped(i, row, t - 1) < Price(i)
  <2> DEFINE b == BucketOf(r)
             i == req[r].rule
             now == req[r].stamp
             a == Available(b, now)
             w == RetryAfter(b, now)
             row == bucket'[b]
  <2>1. /\ b \in Buckets /\ b[1] = i /\ BucketHolds(b) /\ Shape
        /\ now \in Nat /\ clock - MaxLate - Skew <= now
    <3>1. /\ Shape /\ b \in Buckets /\ req[r] \in RequestState
          /\ req[r].arrived <= now + Skew /\ clock <= req[r].arrived + MaxLate
      BY <1>1, CheckingFacts DEF Refuse
    <3>2. now \in Nat /\ req[r].arrived \in Nat /\ clock \in Nat
      BY <3>1 DEF RequestState, Shape
    <3>3. clock - MaxLate - Skew <= now
      BY <3>1, <3>2, RulesAssumption, SMT
    <3> QED
      BY <1>1, <3>1, <3>2, <3>3 DEF IInv, BucketOf
  <2>2. /\ a \in Nat /\ Full(i) \in Nat /\ Price(i) \in Nat /\ Refill[i] \in Nat \ {0}
        /\ Price(i) <= Full(i)
    <3>1. a \in Nat /\ Full(i) \in Nat /\ Price(i) \in Nat /\ Refill[i] \in Nat \ {0}
      BY <2>1, AvailableBounds, RuleFacts
    <3>2. Capacity[i] \in Nat /\ Period[i] \in Nat /\ Cost \in Nat
      BY <2>1, RuleFacts, RulesAssumption
    <3>3. Cost * Period[i] <= Capacity[i] * Period[i]
      BY <1>1, <3>2, ProductsGrow
    <3> QED
      BY <3>1, <3>3 DEF Full, Price
  <2>3. ~(a >= Price(i))
    BY <1>1, <2>1 DEF Refuse, Enough
  <2>4. w \in Nat \ {0} /\ Price(i) - a <= w * Refill[i] /\ (w - 1) * Refill[i] < Price(i) - a
    <3>1. w = (Price(i) - a + Refill[i] - 1) \div Refill[i]
      BY <2>1 DEF RetryAfter
    <3>2. Price(i) - a \in Nat \ {0}
      BY <2>2, <2>3, SMT
    <3> QED
      BY <2>2, <3>1, <3>2, CeilingIsLeast
  <2>5. row.tokens = a /\ row.updated = now
    <3>1. Charge(b, now) = 0
      BY <1>1 DEF Refuse, Charge
    <3>2. row = [tokens |-> a - Charge(b, now), updated |-> now,
                 until |-> clock + TimeToLive(b[1])]
      BY <1>1, <2>1 DEF Refuse, RunScript, Shape
    <3> QED
      BY <2>2, <3>1, <3>2, SMT
  <2>6. req'[r].retry = w
    BY <1>1 DEF Refuse, Answered, IInv, Shape, RequestState
  <2> HIDE DEF a, w, row, now, i, b
  <2>7. ASSUME NEW n \in Nat
        PROVE  Topped(i, row, now + n)
                 = IF a + n * Refill[i] <= Full(i) THEN a + n * Refill[i] ELSE Full(i)
    <3>1. Elapsed(row, now + n) = n
      BY <2>1, <2>5, SMT DEF Elapsed
    <3> QED
      BY <2>5, <3>1 DEF Topped
  <2>8. w - 1 \in Nat /\ (now + w) - 1 = now + (w - 1)
    BY <2>1, <2>4, SMT
  <2>9. Topped(i, row, now + w) >= Price(i)
    <3>1. a + w * Refill[i] >= Price(i)
      BY <2>2, <2>4, SMT
    <3> QED
      BY <2>2, <2>4, <2>7, <3>1, SMT
  <2>10. Topped(i, row, (now + w) - 1) < Price(i)
    <3>1. a + (w - 1) * Refill[i] < Price(i)
      BY <2>2, <2>4, SMT
    <3>2. Topped(i, row, now + (w - 1))
            = IF a + (w - 1) * Refill[i] <= Full(i) THEN a + (w - 1) * Refill[i] ELSE Full(i)
      BY <2>7, <2>8
    <3> QED
      BY <2>2, <2>8, <3>1, <3>2, SMT
  <2> QED
    BY <2>6, <2>9, <2>10 DEF b, i, now, row
<1>2. IInv => [\A r \in Requests :
                 (Refuse(r) /\ Cost <= Capacity[req[r].rule])
                 => LET i == req[r].rule
                        row == bucket'[BucketOf(r)]
                        t == req[r].stamp + req'[r].retry
                    IN /\ Topped(i, row, t) >= Price(i)
                       /\ Topped(i, row, t - 1) < Price(i)]_vars
  BY <1>1
<1> QED
  BY <1>2, Invariance, PTL DEF RetryAfterIsExact

-----------------------------------------------------------------------------
(***************************************************************************)
(* The visits of a page, for any number of requests, keys and pages.       *)
(*                                                                         *)
(* A request reads one statement at a time while the owners commit, so the *)
(* invariant says of every phase which of the facts its answer will stand  *)
(* for have held since it began (VisitHolds), and what the owners may do   *)
(* to a row that it is about to read.                                      *)
(***************************************************************************)


Windows == [held : SUBSET Page!Facts, lapsed : SUBSET Page!Facts, bodies : SUBSET Page!Bodies,
            unlisted : BOOLEAN, unobserved : BOOLEAN]

Resolving == {"controls", "credential", "organisation", "workspace"}
Reading   == {"pointer", "revision", "legacy"}
Again     == {"reorganisation", "reworkspace", "recredential"}
Observing == {"observe", "listed", "seen", "commit"}

\* The phases of a route, those past the check of the origin, and those that have a body.
PhasesOf(kind) ==
  CASE kind = "config"           -> Resolving \cup Reading \cup {"origin", "rate", "respond"} \cup Observing
    [] kind = "config_preflight" -> Resolving \cup Reading \cup {"origin", "rate", "respond"}
    [] kind = "session"          -> Resolving \cup Reading \cup {"origin", "rate"} \cup Again
    [] kind = "preflight"        -> Resolving \cup {"origin", "respond"}
PastOrigin(kind) ==
  CASE kind = "config"           -> Reading \cup {"rate", "respond"} \cup Observing
    [] kind = "config_preflight" -> Reading \cup {"rate", "respond"}
    [] kind = "session"          -> {"rate"} \cup Again
    [] kind = "preflight"        -> {"respond"}
WithBody(kind) ==
  CASE kind = "config"           -> {"respond"} \cup Observing
    [] kind = "config_preflight" -> {"respond"}
    [] kind = "session"          -> {"origin", "rate"} \cup Again
    [] kind = "preflight"        -> {}

\* What an open request has passed was true at some moment of it.
PassedHolds(q, w) ==
  /\ q.phase \in PhasesOf(q.kind)
  /\ q.phase # "controls" => "enabled" \in w.held
  /\ q.phase \notin {"controls", "credential"} => "credential" \in w.held
  /\ q.phase \notin {"controls", "credential", "organisation"} => "organisation" \in w.held
  /\ q.phase \notin Resolving => "workspace" \in w.held
  /\ q.phase \in PastOrigin(q.kind) => "origin" \in w.held
  /\ q.phase \in WithBody(q.kind) => q.body \in w.bodies

\* If the widget is live although the request fell back on the row of its key, then the
\* row was what the widget showed before.
FellBack(k, w) ==
  Page!IsLive(k) => IF legacy[k].status = "published" THEN Page!Body(legacy[k]) \in w.bodies
                                                      ELSE "published" \in w.lapsed

ReadingHolds(q, w) ==
  /\ q.phase = "revision" =>
       /\ q.pointer \in 1 .. MaxRevision /\ revisions[q.pointer].status # "absent"
       /\ IF revisions[q.pointer].status = "published" THEN Page!Body(revisions[q.pointer]) \in w.bodies
                                                       ELSE FellBack(q.key, w)
  /\ q.phase = "legacy" => FellBack(q.key, w)

\* Who served the page whose observation a request did not find.
ServedTo(k, p) == \E o \in Visits : Page!Answered(o, {"served"}) /\ request[o].key = k /\ request[o].page = p

ObservingHolds(q, w) ==
  q.phase = "commit" /\ ~q.known =>
    w.unobserved /\ (<<q.key, q.page>> \in observed => ServedTo(q.key, q.page))

VisitAnswerHolds(r) ==
  /\ Page!AdmissionIsJust(r) /\ Page!RefusalIsJust(r)
  /\ Page!Answered(r, {"not_modified"}) => request[r].tag.body \in window[r].bodies
  /\ Page!Answered(r, {"served"}) => window[r].unlisted \/ <<request[r].key, request[r].page>> \in observed

VisitHolds(r) ==
  /\ request[r].body # None => request[r].body \in window[r].bodies
  /\ window[r].bodies # {} => "published" \in window[r].held
  /\ request[r].phase = "idle" => window[r] = Page!Unseen
  /\ Page!IsOpen(r) => /\ PassedHolds(request[r], window[r])
                       /\ ReadingHolds(request[r], window[r])
                       /\ ObservingHolds(request[r], window[r])
  /\ VisitAnswerHolds(r)

PInv ==
  /\ Page!TypeOK /\ window \in [Visits -> Windows]
  /\ \A k \in Keys : legacy[k].version <= MaxRevision + changes
  /\ widget.active # 0 => revisions[widget.active].status # "absent"
  /\ \A r \in Visits : VisitHolds(r)

-----------------------------------------------------------------------------
(* Routes.                                                                 *)

LEMMA Following ==
  ASSUME NEW route, NEW n \in Nat, NEW j \in 1 .. n - 1, Len(route) = n,
         \A i \in 1 .. n - 1 : route[i] = route[j] => i = j
  PROVE  route[1 + CHOOSE i \in 1 .. Len(route) - 1 : route[i] = route[j]] = route[1 + j]
<1>1. (CHOOSE i \in 1 .. Len(route) - 1 : route[i] = route[j]) = j
  OBVIOUS
<1> QED
  BY <1>1

Names == Resolving \cup Again \cup {"pointer", "origin", "rate", "respond", "observe"}

\* A route resolves the credential first.
LEMMA Resolves ==
  ASSUME NEW rest \in Seq(Names)
  PROVE  /\ Len(Page!Resolution \o rest) = 4 + Len(rest)
         /\ (Page!Resolution \o rest)[1] = "controls" /\ (Page!Resolution \o rest)[2] = "credential"
         /\ (Page!Resolution \o rest)[3] = "organisation" /\ (Page!Resolution \o rest)[4] = "workspace"
         /\ \A i \in 1 .. Len(rest) : (Page!Resolution \o rest)[4 + i] = rest[i]
<1>1. Page!Resolution \in Seq(Names) /\ Len(Page!Resolution) = 4
  BY DEF Page!Resolution, Names, Resolving
<1>2. \A i \in 1 .. 4 + Len(rest) :
        (Page!Resolution \o rest)[i] = IF i <= 4 THEN Page!Resolution[i] ELSE rest[i - 4]
  <2>1. \A i \in 1 .. Len(Page!Resolution) + Len(rest) :
          (Page!Resolution \o rest)[i] = IF i <= Len(Page!Resolution) THEN Page!Resolution[i] ELSE rest[i - Len(Page!Resolution)]
    BY <1>1, ConcatProperties
  <2> QED
    BY <1>1, <2>1
<1>3. Len(Page!Resolution \o rest) = 4 + Len(rest) /\ Len(rest) \in Nat
  <2>1. Len(Page!Resolution \o rest) = Len(Page!Resolution) + Len(rest)
    BY <1>1, ConcatProperties
  <2> QED
    BY <1>1, <2>1
<1>4. \A i \in 1 .. 4 : (Page!Resolution \o rest)[i] = Page!Resolution[i]
  BY <1>2, <1>3
<1>5. \A i \in 1 .. Len(rest) : (Page!Resolution \o rest)[4 + i] = rest[i]
  BY <1>2, <1>3
<1>6. Page!Resolution[1] = "controls" /\ Page!Resolution[2] = "credential" /\ Page!Resolution[3] = "organisation"
       /\ Page!Resolution[4] = "workspace"
  BY DEF Page!Resolution
<1> QED
  BY <1>3, <1>4, <1>5, <1>6

\* What comes after each phase of a route.
LEMMA ReadConfigFollows ==
  ASSUME NEW r, Page!Asks(r, "config")
  PROVE  /\ Page!After(r, "controls") = "credential" /\ Page!After(r, "credential") = "organisation"
         /\ Page!After(r, "organisation") = "workspace" /\ Page!After(r, "workspace") = "origin"
         /\ Page!After(r, "origin") = "rate" /\ Page!After(r, "rate") = "pointer"
         /\ Page!After(r, "pointer") = "respond" /\ Page!After(r, "respond") = "observe"
<1> DEFINE rest  == <<"origin", "rate", "pointer", "respond", "observe">>
           route == Page!Route[request[r].kind]
<1>1. route = Page!Resolution \o rest
  BY DEF Page!Asks, Page!Route, Page!ReadConfig
<1>2. rest \in Seq(Names) /\ Len(rest) = 5
  BY DEF Names, Again
<1>3. \A i \in 1 .. 5 : route[4 + i] = rest[i]
  BY <1>1, <1>2, Resolves
<1>4. /\ Len(route) = 9 /\ route[1] = "controls" /\ route[2] = "credential"
      /\ route[3] = "organisation" /\ route[4] = "workspace"
  <2> HIDE DEF rest, route
  <2>1. Len(route) = 4 + Len(rest)
    BY <1>1, <1>2, Resolves
  <2>2. /\ route[1] = "controls" /\ route[2] = "credential"
        /\ route[3] = "organisation" /\ route[4] = "workspace"
    BY <1>1, <1>2, Resolves
  <2> QED
    BY <1>2, <2>1, <2>2
<1>5. route[5] = "origin" /\ route[6] = "rate" /\ route[7] = "pointer" /\ route[8] = "respond" /\ route[9] = "observe"
  BY <1>3
<1> HIDE DEF rest, route
<1>6. \A j \in 1 .. 8 : \A i \in 1 .. 9 - 1 : route[i] = route[j] => i = j
  BY <1>4, <1>5
<1>7. \A j \in 1 .. 8 : Page!After(r, route[j]) = route[1 + j]
  <2>1. 9 \in Nat /\ \A j \in 1 .. 8 : j \in 1 .. 9 - 1
    OBVIOUS
  <2> QED
    BY <1>4, <1>6, <2>1, Following DEF Page!After, route
<1> QED
  BY <1>4, <1>5, <1>7

LEMMA PreflightConfigFollows ==
  ASSUME NEW r, Page!Asks(r, "config_preflight")
  PROVE  /\ Page!After(r, "controls") = "credential" /\ Page!After(r, "credential") = "organisation"
         /\ Page!After(r, "organisation") = "workspace" /\ Page!After(r, "workspace") = "origin"
         /\ Page!After(r, "origin") = "rate" /\ Page!After(r, "rate") = "pointer"
         /\ Page!After(r, "pointer") = "respond"
<1> DEFINE rest  == <<"origin", "rate", "pointer", "respond">>
           route == Page!Route[request[r].kind]
<1>1. route = Page!Resolution \o rest
  BY DEF Page!Asks, Page!Route, Page!PreflightConfig
<1>2. rest \in Seq(Names) /\ Len(rest) = 4
  BY DEF Names, Again
<1>3. \A i \in 1 .. 4 : route[4 + i] = rest[i]
  BY <1>1, <1>2, Resolves
<1>4. /\ Len(route) = 8 /\ route[1] = "controls" /\ route[2] = "credential"
      /\ route[3] = "organisation" /\ route[4] = "workspace"
  <2> HIDE DEF rest, route
  <2>1. Len(route) = 4 + Len(rest)
    BY <1>1, <1>2, Resolves
  <2>2. /\ route[1] = "controls" /\ route[2] = "credential"
        /\ route[3] = "organisation" /\ route[4] = "workspace"
    BY <1>1, <1>2, Resolves
  <2> QED
    BY <1>2, <2>1, <2>2
<1>5. route[5] = "origin" /\ route[6] = "rate" /\ route[7] = "pointer" /\ route[8] = "respond"
  BY <1>3
<1> HIDE DEF rest, route
<1>6. \A j \in 1 .. 7 : \A i \in 1 .. 8 - 1 : route[i] = route[j] => i = j
  BY <1>4, <1>5
<1>7. \A j \in 1 .. 7 : Page!After(r, route[j]) = route[1 + j]
  <2>1. 8 \in Nat /\ \A j \in 1 .. 7 : j \in 1 .. 8 - 1
    OBVIOUS
  <2> QED
    BY <1>4, <1>6, <2>1, Following DEF Page!After, route
<1> QED
  BY <1>4, <1>5, <1>7

LEMMA StartSessionFollows ==
  ASSUME NEW r, Page!Asks(r, "session")
  PROVE  /\ Page!After(r, "controls") = "credential" /\ Page!After(r, "credential") = "organisation"
         /\ Page!After(r, "organisation") = "workspace" /\ Page!After(r, "workspace") = "pointer"
         /\ Page!After(r, "pointer") = "origin" /\ Page!After(r, "origin") = "rate"
         /\ Page!After(r, "rate") = "reorganisation" /\ Page!After(r, "reorganisation") = "reworkspace"
         /\ Page!After(r, "reworkspace") = "recredential"
<1> DEFINE rest  == <<"pointer", "origin", "rate", "reorganisation", "reworkspace", "recredential">>
           route == Page!Route[request[r].kind]
<1>1. route = Page!Resolution \o rest
  BY DEF Page!Asks, Page!Route, Page!StartSession
<1>2. rest \in Seq(Names) /\ Len(rest) = 6
  BY DEF Names, Again
<1>3. \A i \in 1 .. 6 : route[4 + i] = rest[i]
  BY <1>1, <1>2, Resolves
<1>4. /\ Len(route) = 10 /\ route[1] = "controls" /\ route[2] = "credential"
      /\ route[3] = "organisation" /\ route[4] = "workspace"
  <2> HIDE DEF rest, route
  <2>1. Len(route) = 4 + Len(rest)
    BY <1>1, <1>2, Resolves
  <2>2. /\ route[1] = "controls" /\ route[2] = "credential"
        /\ route[3] = "organisation" /\ route[4] = "workspace"
    BY <1>1, <1>2, Resolves
  <2> QED
    BY <1>2, <2>1, <2>2
<1>5. route[5] = "pointer" /\ route[6] = "origin" /\ route[7] = "rate" /\ route[8] = "reorganisation" /\ route[9] = "reworkspace" /\ route[10] = "recredential"
  BY <1>3
<1> HIDE DEF rest, route
<1>6. \A j \in 1 .. 9 : \A i \in 1 .. 10 - 1 : route[i] = route[j] => i = j
  BY <1>4, <1>5
<1>7. \A j \in 1 .. 9 : Page!After(r, route[j]) = route[1 + j]
  <2> TAKE j \in 1 .. 9
  <2>1. 10 \in Nat /\ j \in 1 .. 10 - 1 /\ \A i \in 1 .. 10 - 1 : route[i] = route[j] => i = j
    BY <1>6
  <2>2. route[1 + CHOOSE i \in 1 .. Len(route) - 1 : route[i] = route[j]] = route[1 + j]
    BY <1>4, <2>1, Following
  <2> QED
    BY <2>2 DEF Page!After, route
<1> QED
  BY <1>4, <1>5, <1>7

LEMMA PreflightFollows ==
  ASSUME NEW r, Page!Asks(r, "preflight")
  PROVE  /\ Page!After(r, "controls") = "credential" /\ Page!After(r, "credential") = "organisation"
         /\ Page!After(r, "organisation") = "workspace" /\ Page!After(r, "workspace") = "origin"
         /\ Page!After(r, "origin") = "respond"
<1> DEFINE rest  == <<"origin", "respond">>
           route == Page!Route[request[r].kind]
<1>1. route = Page!Resolution \o rest
  BY DEF Page!Asks, Page!Route, Page!Preflight
<1>2. rest \in Seq(Names) /\ Len(rest) = 2
  BY DEF Names, Again
<1>3. \A i \in 1 .. 2 : route[4 + i] = rest[i]
  BY <1>1, <1>2, Resolves
<1>4. /\ Len(route) = 6 /\ route[1] = "controls" /\ route[2] = "credential"
      /\ route[3] = "organisation" /\ route[4] = "workspace"
  <2> HIDE DEF rest, route
  <2>1. Len(route) = 4 + Len(rest)
    BY <1>1, <1>2, Resolves
  <2>2. /\ route[1] = "controls" /\ route[2] = "credential"
        /\ route[3] = "organisation" /\ route[4] = "workspace"
    BY <1>1, <1>2, Resolves
  <2> QED
    BY <1>2, <2>1, <2>2
<1>5. route[5] = "origin" /\ route[6] = "respond"
  BY <1>3
<1> HIDE DEF rest, route
<1>6. \A j \in 1 .. 5 : \A i \in 1 .. 6 - 1 : route[i] = route[j] => i = j
  BY <1>4, <1>5
<1>7. \A j \in 1 .. 5 : Page!After(r, route[j]) = route[1 + j]
  <2>1. 6 \in Nat /\ \A j \in 1 .. 5 : j \in 1 .. 6 - 1
    OBVIOUS
  <2> QED
    BY <1>4, <1>6, <2>1, Following DEF Page!After, route
<1> QED
  BY <1>4, <1>5, <1>7

-----------------------------------------------------------------------------
(* What a step shows to the requests that are open.                        *)

LEMMA RequestTypes ==
  ASSUME Page!TypeOK, NEW r \in Visits
  PROVE  request[r] \in Page!RequestStates
BY DEF Page!TypeOK

\* A published configuration has a body.
LEMMA LiveTypes ==
  ASSUME Page!Admissible, PInv, NEW k \in Keys
  PROVE  /\ Page!IsLive(k) => /\ widget.active \in 1 .. MaxRevision
                              /\ Page!Configuration(k) = revisions[widget.active]
         /\ ~Page!IsLive(k) => Page!Configuration(k) = legacy[k]
         /\ Page!Configuration(k) \in Page!Configurations
         /\ Page!Body(Page!Configuration(k)) \in Page!Bodies
<1>1. Page!IsLive(k) => widget.active \in 1 .. MaxRevision
  BY DEF Page!Admissible, PInv, Page!TypeOK, Page!IsLive, Page!Points
<1>2. Page!Configuration(k) \in Page!Configurations
  BY <1>1 DEF PInv, Page!TypeOK, Page!Configuration
<1>3. Page!Body(Page!Configuration(k)) \in Page!Bodies
  BY <1>2 DEF Page!Admissible, Page!Configurations, Page!Body, Page!Bodies
<1> QED
  BY <1>1, <1>2, <1>3 DEF Page!Configuration

\* What is true now, for a request of the key from the page.
LEMMA HoldingIs ==
  ASSUME NEW r
  PROVE  /\ \A f \in Page!Tenants : f \in tenant => f \in Page!Holding(r)
         /\ request[r].key \in enabled => "enabled" \in Page!Holding(r)
         /\ credential[request[r].key] = "active" => "credential" \in Page!Holding(r)
         /\ request[r].page \notin Refused /\ Page!Matches(allowed[request[r].key], request[r].page) =>
              "origin" \in Page!Holding(r)
         /\ Page!IsPublished(request[r].key) => "published" \in Page!Holding(r)
BY DEF Page!Holding

LEMMA LackingIs ==
  ASSUME Page!TypeOK, NEW r
  PROVE  /\ \A f \in Page!Tenants : f \notin tenant => f \in Page!Facts \ Page!Holding(r)
         /\ request[r].key \notin enabled => "enabled" \in Page!Facts \ Page!Holding(r)
         /\ credential[request[r].key] # "active" => "credential" \in Page!Facts \ Page!Holding(r)
         /\ request[r].page \in Refused \/ ~Page!Matches(allowed[request[r].key], request[r].page) =>
              "origin" \in Page!Facts \ Page!Holding(r)
         /\ ~Page!IsPublished(request[r].key) => "published" \in Page!Facts \ Page!Holding(r)
         /\ Page!Holding(r) \subseteq Page!Facts
BY DEF Page!Holding, Page!TypeOK, Page!Tenants, Page!Facts

\* Windows only grow, and take in what is true of the open requests.
Grows(w, v) ==
  /\ w.held \subseteq v.held /\ w.lapsed \subseteq v.lapsed /\ w.bodies \subseteq v.bodies
  /\ (w.unlisted => v.unlisted) /\ (w.unobserved => v.unobserved)

Takes(r, v) ==
  LET k == request[r].key
      p == request[r].page
  IN /\ Page!Holding(r) \subseteq v.held /\ Page!Facts \ Page!Holding(r) \subseteq v.lapsed
     /\ Page!IsPublished(k) => Page!Body(Page!Configuration(k)) \in v.bodies
     /\ p \notin allowed[k] \/ widget.key # k \/ widget.archived => v.unlisted
     /\ <<k, p>> \notin observed => v.unobserved

LEMMA Watching ==
  ASSUME Page!Admissible, PInv, window' = Page!Watched, NEW r \in Visits
  PROVE  /\ window'[r] \in Windows /\ Grows(window[r], window'[r])
         /\ Page!IsOpen(r) => Takes(r, window'[r])
         /\ ~Page!IsOpen(r) => window'[r] = window[r]
         /\ window'[r].bodies # {} => "published" \in window'[r].held
<1>1. window[r] \in Windows /\ request[r] \in Page!RequestStates /\ request[r].key \in Keys
  BY RequestTypes DEF PInv, Page!RequestStates
<1>2. window[r].bodies # {} => "published" \in window[r].held
  BY DEF PInv, VisitHolds
<1>3. CASE ~Page!IsOpen(r)
  BY <1>1, <1>2, <1>3 DEF Page!Watched, Grows
<1>4. CASE Page!IsOpen(r)
  <2> DEFINE k == request[r].key
             p == request[r].page
             now == Page!Holding(r)
             shown == IF Page!IsPublished(k) THEN {Page!Body(Page!Configuration(k))} ELSE {}
             v == [held |-> window[r].held \cup now,
                   lapsed |-> window[r].lapsed \cup (Page!Facts \ now),
                   bodies |-> window[r].bodies \cup shown,
                   unlisted |-> \/ window[r].unlisted
                                \/ p \notin allowed[k] \/ widget.key # k \/ widget.archived,
                   unobserved |-> window[r].unobserved \/ <<k, p>> \notin observed]
  <2>1. window'[r] = v
    BY <1>4 DEF Page!Watched
  <2>2. now \subseteq Page!Facts
    BY LackingIs DEF PInv
  <2>3. shown \subseteq Page!Bodies
    BY <1>1, LiveTypes
  <2>4. shown # {} => "published" \in now
    BY HoldingIs
  <2>5. widget.archived \in BOOLEAN
    BY DEF PInv, Page!TypeOK
  <2> HIDE DEF now, shown
  <2>6. v \in Windows
    BY <1>1, <2>2, <2>3, <2>5 DEF Windows
  <2>7. Grows(window[r], v)
    BY <1>1 DEF Grows, Windows
  <2>8. v.bodies # {} => "published" \in v.held
    BY <1>2, <2>4
  <2>9. Takes(r, v)
    BY DEF Takes, now, shown
  <2> HIDE DEF v
  <2> QED
    BY <1>4, <2>1, <2>6, <2>7, <2>8, <2>9
<1> QED
  BY <1>3, <1>4

\* How owners change what may be read: who writes a row does not leave it hidden, and a
\* publication that is rewritten is live no longer, nor is any other.
Evolves ==
  /\ \A k \in Keys : legacy'[k] # legacy[k] => ~Page!IsLive(k)'
  /\ \A n \in 1 .. MaxRevision : revisions[n].status # "absent" =>
       \/ revisions'[n] = revisions[n]
       \/ revisions'[n].status = "draft" /\ \A k \in Keys : ~Page!IsLive(k)'

LEMMA FellBackStays ==
  ASSUME Page!Admissible, PInv, Evolves, NEW r \in Visits, NEW k \in Keys, k = request[r].key, NEW w, NEW v,
         FellBack(k, w), Grows(w, v), Takes(r, v)
  PROVE  FellBack(k, v)'
<1>1. Page!IsLive(k)' => legacy'[k] = legacy[k]
  BY DEF Evolves
<1>2. IF legacy[k].status = "published" THEN Page!Body(legacy[k]) \in v.bodies ELSE "published" \in v.lapsed
  <2>1. CASE Page!IsLive(k)
    BY <2>1 DEF FellBack, Grows
  <2>2. CASE ~Page!IsLive(k)
    <3>1. Page!Configuration(k) = legacy[k]
      BY <2>2, LiveTypes
    <3>2. CASE Page!IsPublished(k)
      BY <3>1, <3>2 DEF Takes, Page!IsPublished
    <3>3. CASE ~Page!IsPublished(k)
      <4>1. "published" \in Page!Facts \ Page!Holding(r)
        BY <3>3, LackingIs DEF PInv
      <4> QED
        BY <3>1, <3>3, <4>1 DEF Takes, Page!IsPublished
    <3> QED
      BY <3>2, <3>3
  <2> QED
    BY <2>1, <2>2
<1>3. Page!IsLive(k)' => Page!Body(legacy[k])' = Page!Body(legacy[k])
  BY <1>1 DEF Page!Body
<1> QED
  BY <1>1, <1>2, <1>3 DEF FellBack

LEMMA ReadingStays ==
  ASSUME Page!Admissible, PInv, Evolves, NEW r \in Visits, NEW q \in Page!RequestStates, q = request[r],
         NEW w, NEW v,
         ReadingHolds(q, w), Grows(w, v), Takes(r, v)
  PROVE  ReadingHolds(q, v)'
<1>1. q.key \in Keys /\ q.key = request[r].key
  BY DEF Page!RequestStates
<1>2. ASSUME FellBack(q.key, w) PROVE FellBack(q.key, v)'
  <2>1. PICK k \in Keys : k = q.key
    BY <1>1
  <2>2. FellBack(k, v)'
    BY <1>1, <1>2, <2>1, FellBackStays
  <2> QED
    BY <2>1, <2>2
<1>3. ASSUME q.phase = "revision"
      PROVE  /\ revisions'[q.pointer].status # "absent"
             /\ IF revisions'[q.pointer].status = "published" THEN Page!Body(revisions[q.pointer])' \in v.bodies
                                                              ELSE FellBack(q.key, v)'
  <2>1. q.pointer \in 1 .. MaxRevision /\ revisions[q.pointer].status # "absent"
    BY <1>3 DEF ReadingHolds
  <2>2. CASE revisions'[q.pointer] = revisions[q.pointer]
    <3>1. Page!Body(revisions[q.pointer])' = Page!Body(revisions[q.pointer])
      BY <2>2 DEF Page!Body
    <3> QED
      BY <1>2, <1>3, <2>1, <2>2, <3>1 DEF ReadingHolds, Grows
  <2>3. CASE revisions'[q.pointer].status = "draft" /\ \A k \in Keys : ~Page!IsLive(k)'
    BY <1>1, <2>3 DEF FellBack
  <2> QED
    BY <2>1, <2>2, <2>3 DEF Evolves
<1> QED
  BY <1>2, <1>3 DEF ReadingHolds

\* What was served stays served, and what is newly observed was served by the request that did.
Serves ==
  /\ \A o \in Visits : request[o].phase = "done" => request'[o] = request[o]
  /\ observed \subseteq observed'
  /\ \A k \in Keys, p \in Pages :
       <<k, p>> \in observed' => <<k, p>> \in observed \/ ServedTo(k, p)'

LEMMA ServedStays ==
  ASSUME Serves, NEW k, NEW p, ServedTo(k, p)
  PROVE  ServedTo(k, p)'
<1>1. PICK o \in Visits : Page!Answered(o, {"served"}) /\ request[o].key = k /\ request[o].page = p
  BY DEF ServedTo
<1>2. request'[o] = request[o]
  BY <1>1 DEF Serves, Page!Answered
<1> QED
  BY <1>1, <1>2 DEF ServedTo, Page!Answered

LEMMA FailureStays ==
  ASSUME Serves, NEW r \in Visits, request'[r] = request[r], window'[r] = window[r],
         VisitAnswerHolds(r),
         request[r].phase = "done"
  PROVE  VisitAnswerHolds(r)'
<1>1. Page!AdmissionIsJust(r)'
  BY DEF VisitAnswerHolds, Page!AdmissionIsJust, Page!Answered, Page!NeededFor, Page!Asks
<1>2. Page!RefusalIsJust(r)'
  <2>1. ASSUME Page!Answered(r, {"safe_internal_error"})
        PROVE  \E q \in Visits \ {r} :
                 /\ Page!Answered(q, {"served"})'
                 /\ request'[q].key = request'[r].key /\ request'[q].page = request'[r].page
    <3>1. PICK q \in Visits \ {r} :
                 /\ Page!Answered(q, {"served"})
                 /\ request[q].key = request[r].key /\ request[q].page = request[r].page
      BY <2>1 DEF VisitAnswerHolds, Page!RefusalIsJust
    <3>2. request'[q] = request[q]
      BY <3>1 DEF Serves, Page!Answered
    <3> QED
      BY <3>1, <3>2 DEF Page!Answered
  <2>2. \A answers : Page!Answered(r, answers)' <=> Page!Answered(r, answers)
    BY DEF Page!Answered
  <2> QED
    BY <2>1, <2>2 DEF VisitAnswerHolds, Page!RefusalIsJust
<1>3. Page!Answered(r, {"not_modified"})' => request'[r].tag.body \in window'[r].bodies
  BY DEF VisitAnswerHolds, Page!Answered
<1>4. Page!Answered(r, {"served"})' => window'[r].unlisted \/ <<request'[r].key, request'[r].page>> \in observed'
  BY DEF VisitAnswerHolds, Page!Answered, Serves
<1> QED
  BY <1>1, <1>2, <1>3, <1>4 DEF VisitAnswerHolds

\* A request that does not move loses nothing by what the others and the owners do.
LEMMA RequestStays ==
  ASSUME Page!Admissible, PInv, Evolves, Serves, window' = Page!Watched, NEW r \in Visits,
         request'[r] = request[r]
  PROVE  VisitHolds(r)'
<1>1. PICK q \in Page!RequestStates, w \in Windows, v \in Windows :
        q = request[r] /\ w = window[r] /\ v = window'[r]
  BY RequestTypes, Watching DEF PInv
<1>2. /\ v \in Windows /\ Grows(w, v) /\ (Page!IsOpen(r) => Takes(r, v)) /\ (~Page!IsOpen(r) => v = w)
      /\ v.bodies # {} => "published" \in v.held
  BY <1>1, Watching
<1>3. VisitHolds(r)
  BY DEF PInv
<1>4. q.body # None => q.body \in v.bodies
  BY <1>1, <1>2, <1>3 DEF VisitHolds, Grows
<1>5. q.phase = "idle" => v = Page!Unseen
  BY <1>1, <1>2, <1>3 DEF VisitHolds, Page!IsOpen
<1>6. CASE Page!IsOpen(r)
  <2>1. PassedHolds(q, v)
    BY <1>1, <1>2, <1>3, <1>6 DEF VisitHolds, PassedHolds, Grows
  <2>2. ReadingHolds(q, v)'
    BY <1>1, <1>2, <1>3, <1>6, ReadingStays DEF VisitHolds
  <2>3. ObservingHolds(q, v)'
    <3>1. ObservingHolds(q, w)
      BY <1>1, <1>3, <1>6 DEF VisitHolds
    <3>2. PICK k \in Keys, p \in Pages : k = q.key /\ p = q.page
      BY DEF Page!RequestStates
    <3>3. <<k, p>> \in observed' => <<k, p>> \in observed \/ ServedTo(k, p)'
      BY DEF Serves
    <3>4. ServedTo(k, p) => ServedTo(k, p)'
      BY ServedStays
    <3>5. ServedTo(k, p)' => ServedTo(q.key, q.page)'
      BY <3>2
    <3> QED
      BY <1>2, <3>1, <3>2, <3>3, <3>4, <3>5 DEF ObservingHolds, Grows
  <2>4. PassedHolds(request[r], window[r])' /\ ReadingHolds(request[r], window[r])'
         /\ ObservingHolds(request[r], window[r])'
    BY <1>1, <2>1, <2>2, <2>3 DEF PassedHolds, ReadingHolds, ObservingHolds, FellBack
  <2>5. VisitAnswerHolds(r)'
    BY <1>6 DEF VisitAnswerHolds, Page!AdmissionIsJust, Page!RefusalIsJust, Page!Answered,
           Page!IsOpen
  <2> QED
    BY <1>1, <1>2, <1>4, <1>5, <2>4, <2>5 DEF VisitHolds
<1>7. CASE ~Page!IsOpen(r)
  <2>1. CASE request[r].phase = "done"
    <3>1. VisitAnswerHolds(r)'
      BY <1>1, <1>2, <1>3, <1>7, <2>1, FailureStays DEF VisitHolds
    <3> QED
      BY <1>1, <1>2, <1>4, <1>5, <1>7, <3>1 DEF VisitHolds, Page!IsOpen
  <2>2. CASE request[r].phase # "done"
    <3>1. VisitAnswerHolds(r)'
      BY <2>2 DEF VisitAnswerHolds, Page!AdmissionIsJust, Page!RefusalIsJust, Page!Answered
    <3> QED
      BY <1>1, <1>2, <1>4, <1>5, <1>7, <3>1 DEF VisitHolds, Page!IsOpen
  <2> QED
    BY <2>1, <2>2
<1> QED
  BY <1>6, <1>7

-----------------------------------------------------------------------------
(* The owners.                                                             *)

OwnersTyped ==
  /\ credential' \in [Keys -> Page!Statuses] /\ tenant' \subseteq Page!Tenants
  /\ allowed' \in [Keys -> SUBSET Page!Patterns]
  /\ widget' \in [key : Keys, active : 0 .. MaxRevision, archived : BOOLEAN]
  /\ revisions' \in [1 .. MaxRevision -> Page!Configurations]
  /\ legacy' \in [Keys -> Page!Configurations]
  /\ enabled' \subseteq Keys
  /\ \A k \in Keys : legacy'[k].version <= MaxRevision + changes'
  /\ widget'.active # 0 => revisions'[widget'.active].status # "absent"

LEMMA Numbers ==
  ASSUME Page!Admissible, PInv, Page!Change
  PROVE  /\ changes' = changes + 1 /\ changes' \in 0 .. MaxChanges /\ changes \in Nat /\ changes + 1 <= MaxChanges
         /\ Page!Fresh \in 0 .. MaxChanges + 1 /\ MaxRevision \in Nat /\ MaxChanges \in Nat
         /\ MaxRevision + MaxChanges \in Nat
         /\ \A k \in Keys : legacy[k].version <= MaxRevision + changes'
<1>1. MaxRevision \in Nat /\ MaxChanges \in Nat /\ changes \in 0 .. MaxChanges
  BY DEF Page!Admissible, PInv, Page!TypeOK
<1>2. changes' = changes + 1 /\ changes + 1 <= MaxChanges
  BY <1>1 DEF Page!Change
<1>3. Page!Fresh \in 0 .. MaxChanges + 1
  BY <1>1, <1>2 DEF Page!Fresh
<1>4. ASSUME NEW k \in Keys PROVE legacy[k].version <= MaxRevision + changes'
  <2>1. legacy[k].version \in 0 .. MaxRevision + MaxChanges
    BY DEF PInv, Page!TypeOK, Page!Configurations
  <2>2. legacy[k].version <= MaxRevision + changes
    BY DEF PInv
  <2> QED
    BY <1>1, <1>2, <2>1, <2>2
<1> QED
  BY <1>1, <1>2, <1>3, <1>4

\* Most changes leave every configuration alone.
LEMMA OtherChanges ==
  ASSUME Page!Admissible, PInv, Page!Change, UNCHANGED <<revisions, legacy>>,
         credential' \in [Keys -> Page!Statuses], tenant' \subseteq Page!Tenants, allowed' \in [Keys -> SUBSET Page!Patterns],
         enabled' \subseteq Keys,
         widget' \in [key : Keys, active : 0 .. MaxRevision, archived : BOOLEAN],
         widget'.active = widget.active
  PROVE  OwnersTyped /\ Evolves
<1>1. \A k \in Keys : legacy'[k].version <= MaxRevision + changes'
  BY Numbers
<1>2. OwnersTyped
  BY <1>1 DEF PInv, Page!TypeOK, OwnersTyped
<1> QED
  BY <1>2 DEF Evolves

LEMMA PublishEvolves ==
  ASSUME Page!Admissible, PInv, Page!Publish
  PROVE  OwnersTyped /\ Evolves
<1>1. PICK n, content :
        /\ n \in 1 .. MaxRevision
        /\ content = Page!Fresh \/ \E m \in 1 .. MaxRevision : content = revisions[m].content
        /\ revisions[n].status = "absent"
        /\ revisions' = [revisions EXCEPT ![n] = [status |-> "published", version |-> n, content |-> content]]
        /\ widget' = [widget EXCEPT !.active = n]
  <2>1. PICK n \in 1 .. MaxRevision :
          /\ revisions[n].status = "absent"
          /\ \E content \in {Page!Fresh} \cup {revisions[m].content : m \in
                              {m \in 1 .. n - 1 : revisions[m].status = "published"}} :
               revisions' = [revisions EXCEPT ![n] =
                              [status |-> "published", version |-> n, content |-> content]]
          /\ widget' = [widget EXCEPT !.active = n]
    BY Zenon DEF Page!Publish
  <2>2. PICK content \in {Page!Fresh} \cup {revisions[m].content : m \in
                              {m \in 1 .. n - 1 : revisions[m].status = "published"}} :
               revisions' = [revisions EXCEPT ![n] =
                              [status |-> "published", version |-> n, content |-> content]]
    BY <2>1, Zenon
  <2>3. MaxRevision \in Nat
    BY DEF Page!Admissible
  <2>4. 1 .. n - 1 \subseteq 1 .. MaxRevision
    BY <2>3
  <2>5. content = Page!Fresh \/ \E m \in 1 .. n - 1 : content = revisions[m].content
    BY <2>2
  <2> QED
    BY <2>1, <2>2, <2>4, <2>5
<1>2. Page!Change /\ UNCHANGED <<credential, tenant, allowed, legacy, enabled>>
  BY DEF Page!Publish, Page!Leave
<1> DEFINE new == [status |-> "published", version |-> n, content |-> content]
<1>3. content \in 0 .. MaxChanges + 1 /\ n \in 0 .. MaxRevision + MaxChanges
  <2>1. \A m \in 1 .. MaxRevision : revisions[m].content \in 0 .. MaxChanges + 1
    BY DEF PInv, Page!TypeOK, Page!Configurations
  <2> QED
    BY <1>1, <1>2, <2>1, Numbers
<1>4. new \in Page!Configurations
  BY <1>3 DEF Page!Configurations
<1> HIDE DEF new
<1>5. revisions' \in [1 .. MaxRevision -> Page!Configurations] /\ revisions'[n] = new
       /\ \A m \in 1 .. MaxRevision : m # n => revisions'[m] = revisions[m]
  BY <1>1, <1>4 DEF PInv, Page!TypeOK, new
<1>6. new.status = "published"
  BY DEF new
<1>7. widget' \in [key : Keys, active : 0 .. MaxRevision, archived : BOOLEAN] /\ widget'.active = n
  <2>1. n \in 0 .. MaxRevision
    BY <1>1, <1>2, Numbers
  <2> QED
    BY <1>1, <2>1 DEF PInv, Page!TypeOK
<1>8. \A k \in Keys : legacy'[k].version <= MaxRevision + changes'
  BY <1>2, Numbers
<1>9. OwnersTyped
  BY <1>2, <1>5, <1>6, <1>7, <1>8 DEF PInv, Page!TypeOK, OwnersTyped
<1> QED
  BY <1>1, <1>2, <1>5, <1>9 DEF Evolves

LEMMA PutEvolves ==
  ASSUME Page!Admissible, PInv, Page!PutConfiguration
  PROVE  OwnersTyped /\ Evolves
<1>1. Page!Change /\ UNCHANGED <<credential, tenant, allowed, widget, enabled>>
  BY DEF Page!PutConfiguration, Page!Leave
<1>2. PICK k \in Keys :
        \/ /\ Page!IsLive(k)
           /\ revisions' = [revisions EXCEPT ![widget.active] =
                              [revisions[widget.active] EXCEPT !.status = "draft", !.content = Page!Fresh]]
           /\ UNCHANGED legacy
        \/ /\ ~Page!IsLive(k)
           /\ legacy' = [legacy EXCEPT ![k] = [legacy[k] EXCEPT !.status = "draft", !.content = Page!Fresh]]
           /\ UNCHANGED revisions
  BY DEF Page!PutConfiguration
<1>3. CASE /\ Page!IsLive(k)
           /\ revisions' = [revisions EXCEPT ![widget.active] =
                              [revisions[widget.active] EXCEPT !.status = "draft", !.content = Page!Fresh]]
           /\ UNCHANGED legacy
  <2>1. widget.active \in 1 .. MaxRevision /\ revisions[widget.active] \in Page!Configurations
    BY <1>3, LiveTypes DEF PInv, Page!TypeOK
  <2> DEFINE new == [revisions[widget.active] EXCEPT !.status = "draft", !.content = Page!Fresh]
  <2>2. new \in Page!Configurations /\ new.status = "draft"
    BY <1>1, <2>1, Numbers DEF Page!Configurations
  <2> HIDE DEF new
  <2>3. revisions' \in [1 .. MaxRevision -> Page!Configurations] /\ revisions'[widget.active] = new
         /\ \A m \in 1 .. MaxRevision : m # widget.active => revisions'[m] = revisions[m]
    BY <1>3, <2>1, <2>2 DEF PInv, Page!TypeOK, new
  <2>4. \A j \in Keys : ~Page!IsLive(j)'
    BY <1>1, <2>2, <2>3 DEF Page!IsLive
  <2>5. \A j \in Keys : legacy'[j].version <= MaxRevision + changes'
    BY <1>1, <1>3, Numbers
  <2>6. OwnersTyped
    BY <1>1, <1>3, <2>2, <2>3, <2>5 DEF PInv, Page!TypeOK, OwnersTyped
  <2> QED
    BY <1>3, <2>2, <2>3, <2>4, <2>6 DEF Evolves
<1>4. CASE /\ ~Page!IsLive(k)
           /\ legacy' = [legacy EXCEPT ![k] = [legacy[k] EXCEPT !.status = "draft", !.content = Page!Fresh]]
           /\ UNCHANGED revisions
  <2> DEFINE new == [legacy[k] EXCEPT !.status = "draft", !.content = Page!Fresh]
  <2>1. new \in Page!Configurations /\ new.version = legacy[k].version
    <3>1. legacy[k] \in Page!Configurations
      BY <1>1 DEF PInv, Page!TypeOK
    <3>2. Page!Fresh \in 0 .. MaxChanges + 1
      BY <1>1, Numbers
    <3> QED
      BY <3>1, <3>2 DEF Page!Configurations
  <2> HIDE DEF new
  <2>2. legacy' \in [Keys -> Page!Configurations] /\ legacy'[k] = new /\ \A j \in Keys : j # k => legacy'[j] = legacy[j]
    BY <1>4, <2>1 DEF PInv, Page!TypeOK, new
  <2>3. \A j \in Keys : legacy'[j].version <= MaxRevision + changes'
    BY <1>1, <2>1, <2>2, Numbers
  <2>4. OwnersTyped
    BY <1>1, <1>4, <2>2, <2>3 DEF PInv, Page!TypeOK, OwnersTyped
  <2>5. ~Page!IsLive(k)'
    BY <1>1, <1>4 DEF Page!IsLive, Page!Points
  <2> QED
    BY <1>4, <2>2, <2>4, <2>5 DEF Evolves
<1> QED
  BY <1>2, <1>3, <1>4

LEMMA PublishConfigurationEvolves ==
  ASSUME Page!Admissible, PInv, Page!PublishConfiguration
  PROVE  OwnersTyped /\ Evolves
<1>1. Page!Change /\ UNCHANGED <<credential, tenant, allowed, widget, revisions, enabled>>
  BY DEF Page!PublishConfiguration, Page!Leave
<1>2. PICK k \in Keys :
        /\ ~Page!IsLive(k)
        /\ legacy' = [legacy EXCEPT ![k] = [legacy[k] EXCEPT !.status = "published",
                                                             !.version = legacy[k].version + 1]]
  BY DEF Page!PublishConfiguration
<1> DEFINE new == [legacy[k] EXCEPT !.status = "published", !.version = legacy[k].version + 1]
<1>3. legacy[k] \in Page!Configurations /\ legacy[k].version <= MaxRevision + changes /\ legacy[k].version \in Nat
  BY DEF Page!Admissible, PInv, Page!TypeOK, Page!Configurations
<1>4. legacy[k].version + 1 \in 0 .. MaxRevision + MaxChanges /\ legacy[k].version + 1 <= MaxRevision + changes'
  BY <1>1, <1>3, Numbers
<1>5. new \in Page!Configurations /\ new.version = legacy[k].version + 1
  BY <1>3, <1>4 DEF Page!Configurations
<1> HIDE DEF new
<1>6. legacy' \in [Keys -> Page!Configurations] /\ legacy'[k] = new /\ \A j \in Keys : j # k => legacy'[j] = legacy[j]
  BY <1>2, <1>5 DEF PInv, Page!TypeOK, new
<1>7. \A j \in Keys : legacy'[j].version <= MaxRevision + changes'
  BY <1>1, <1>4, <1>5, <1>6, Numbers
<1>8. OwnersTyped
  BY <1>1, <1>6, <1>7 DEF PInv, Page!TypeOK, OwnersTyped
<1>9. ~Page!IsLive(k)'
  BY <1>1, <1>2 DEF Page!IsLive, Page!Points
<1> QED
  BY <1>1, <1>6, <1>8, <1>9 DEF Evolves

LEMMA OwnersEvolve ==
  ASSUME Page!Admissible, PInv, Page!Owners
  PROVE  OwnersTyped /\ Evolves
<1> DEFINE Typed == /\ credential \in [Keys -> Page!Statuses] /\ tenant \subseteq Page!Tenants
                    /\ allowed \in [Keys -> SUBSET Page!Patterns] /\ enabled \subseteq Keys
                    /\ widget \in [key : Keys, active : 0 .. MaxRevision, archived : BOOLEAN]
<1>1. Typed
  BY DEF PInv, Page!TypeOK
<1>2. CASE Page!Archive
  <2>1. Typed' /\ widget'.active = widget.active
    BY <1>1, <1>2 DEF Page!Archive, Page!Leave
  <2> QED
    BY <1>2, <2>1, OtherChanges DEF Page!Archive, Page!Leave
<1>3. CASE Page!Rotate
  <2>1. PICK k \in Keys :
          /\ credential' = [credential EXCEPT ![widget.key] = "revoked", ![k] = "active"]
          /\ allowed' = [allowed EXCEPT ![k] = allowed[widget.key]]
          /\ widget' = [widget EXCEPT !.key = k]
    BY <1>3 DEF Page!Rotate
  <2>2. widget.key \in Keys /\ UNCHANGED <<tenant, revisions, legacy, enabled>> /\ Page!Change
    BY <1>1, <1>3 DEF Page!Rotate, Page!Leave
  <2>3. credential' \in [Keys -> Page!Statuses]
    BY <1>1, <2>1, <2>2 DEF Page!Statuses
  <2>4. allowed' \in [Keys -> SUBSET Page!Patterns]
    BY <1>1, <2>1, <2>2
  <2>5. widget' \in [key : Keys, active : 0 .. MaxRevision, archived : BOOLEAN] /\ widget'.active = widget.active
    BY <1>1, <2>1
  <2> QED
    BY <1>1, <2>2, <2>3, <2>4, <2>5, OtherChanges
<1>4. CASE Page!Transition
  <2>1. PICK k \in Keys, status \in Page!Statuses : credential' = [credential EXCEPT ![k] = status]
    BY <1>4 DEF Page!Transition, Page!Statuses
  <2>2. Page!Change /\ UNCHANGED <<tenant, allowed, widget, revisions, legacy, enabled>>
    BY <1>4 DEF Page!Transition, Page!Leave
  <2>3. Typed' /\ widget'.active = widget.active
    BY <1>1, <2>1, <2>2
  <2> QED
    BY <2>2, <2>3, OtherChanges
<1>5. CASE Page!EditOrigins
  <2>1. PICK k \in Keys, p \in Page!Patterns :
          allowed' = [allowed EXCEPT ![k] = IF p \in @ THEN @ \ {p} ELSE @ \cup {p}]
    BY <1>5 DEF Page!EditOrigins
  <2>2. Page!Change /\ UNCHANGED <<credential, tenant, widget, revisions, legacy, enabled>>
    BY <1>5 DEF Page!EditOrigins, Page!Leave
  <2>3. allowed' \in [Keys -> SUBSET Page!Patterns]
    BY <1>1, <2>1
  <2>4. Typed' /\ widget'.active = widget.active
    BY <1>1, <2>2, <2>3
  <2> QED
    BY <2>2, <2>4, OtherChanges
<1>6. CASE Page!Operate
  <2>1. Page!Change /\ UNCHANGED <<credential, allowed, widget, revisions, legacy>>
    BY <1>6 DEF Page!Operate, Page!Leave
  <2>2. tenant' \subseteq Page!Tenants /\ enabled' \subseteq Keys
    BY <1>1, <1>6 DEF Page!Operate
  <2> QED
    BY <1>1, <2>1, <2>2, OtherChanges
<1> QED
  BY <1>2, <1>3, <1>4, <1>5, <1>6, PublishEvolves, PutEvolves, PublishConfigurationEvolves
     DEF Page!Owners

LEMMA OwnersKeep ==
  ASSUME Page!Admissible, PInv, Page!Owners, window' = Page!Watched
  PROVE  PInv'
<1>1. OwnersTyped /\ Evolves
  BY OwnersEvolve
<1>2. UNCHANGED <<observed, cached, request>> /\ Page!Change
  BY DEF Page!Owners, Page!Publish, Page!Archive, Page!Rotate, Page!Transition, Page!EditOrigins,
         Page!PutConfiguration, Page!PublishConfiguration,
         Page!Operate, Page!Change
<1>3. Page!TypeOK'
  BY <1>1, <1>2, Numbers DEF PInv, Page!TypeOK, OwnersTyped
<1>4. window' \in [Visits -> Windows]
  <2>1. \A r \in Visits : window'[r] \in Windows
    BY Watching
  <2> QED
    BY <2>1 DEF Page!Watched
<1>5. Serves
  BY <1>2 DEF Serves
<1>6. \A r \in Visits : VisitHolds(r)'
  BY <1>1, <1>2, <1>5, RequestStays
<1> QED
  BY <1>1, <1>3, <1>4, <1>6 DEF PInv, OwnersTyped

-----------------------------------------------------------------------------
(* The requests.                                                           *)

Admitted == {"served", "not_modified", "allowed", "created"}

\* What justifies the end of a request.
EndHolds(q, v) ==
  /\ q.body # None => q.body \in v.bodies
  /\ q.answer \in Admitted =>
       (IF q.kind = "preflight" THEN Page!Facts \ {"published"} ELSE Page!Facts) \subseteq v.held
  /\ q.answer = "invalid_widget" => "enabled" \in v.lapsed
  /\ q.answer = "invalid_credential" => "credential" \in v.lapsed
  /\ q.answer \in {"disabled_credential", "invalid_session"} =>
       "credential" \in v.lapsed \/ "organisation" \in v.lapsed \/ "workspace" \in v.lapsed
  /\ q.answer = "widget_not_published" => "published" \in v.lapsed
  /\ q.answer \in {"origin_refused", "origin_not_allowed"} => "origin" \in v.lapsed
  /\ q.answer = "safe_internal_error" => v.unobserved /\ ServedTo(q.key, q.page)
  /\ q.answer = "not_modified" => q.tag.body \in v.bodies

\* One request moves, and the others stay.
LEMMA Moves ==
  ASSUME Page!Admissible, PInv, window' = Page!Watched, UNCHANGED Page!owned, NEW r \in Visits,
         NEW q \in Page!RequestStates,
         Page!Set(r, q), request[r].phase # "done", VisitHolds(r)',
         observed \subseteq observed', observed' \subseteq Keys \X Pages,
         cached' \in [Pages -> [key : Keys, body : Page!Bodies] \cup {None}],
         \A k \in Keys, p \in Pages : <<k, p>> \in observed' =>
           <<k, p>> \in observed \/ (q.phase = "done" /\ q.answer = "served" /\ q.key = k /\ q.page = p)
  PROVE  PInv'
<1>1. request' \in [Visits -> Page!RequestStates] /\ request'[r] = q
       /\ \A o \in Visits : o # r => request'[o] = request[o]
  BY DEF PInv, Page!TypeOK, Page!Set
<1>2. Page!TypeOK'
  BY <1>1 DEF PInv, Page!TypeOK, Page!owned
<1>3. window' \in [Visits -> Windows]
  <2>1. \A o \in Visits : window'[o] \in Windows
    BY Watching
  <2> QED
    BY <2>1 DEF Page!Watched
<1>4. Evolves
  BY DEF Evolves, Page!owned
<1>5. Serves
  <2>1. q.phase = "done" /\ q.answer = "served" => ServedTo(q.key, q.page)'
    BY <1>1 DEF ServedTo, Page!Answered
  <2> QED
    BY <1>1, <2>1 DEF Serves
<1>6. \A o \in Visits : VisitHolds(o)'
  BY <1>1, <1>4, <1>5, RequestStays
<1>7. /\ \A k \in Keys : legacy'[k].version <= MaxRevision + changes'
      /\ widget'.active # 0 => revisions'[widget'.active].status # "absent"
  BY DEF PInv, Page!owned
<1> QED
  BY <1>2, <1>3, <1>6, <1>7 DEF PInv

\* A request goes on.
LEMMA Proceeds ==
  ASSUME Page!Admissible, PInv, window' = Page!Watched, UNCHANGED <<Page!owned, observed, cached>>,
         NEW r \in Visits,
         NEW q \in Page!RequestStates, Page!Set(r, q), request[r].phase # "done",
         q.phase \notin {"idle", "done"},
         q.body # None => q.body \in window'[r].bodies,
         PassedHolds(q, window'[r]), ReadingHolds(q, window'[r]), ObservingHolds(q, window'[r])
  PROVE  PInv'
<1>1. request'[r] = q
  BY DEF PInv, Page!TypeOK, Page!Set
<1>2. PICK v : v = window'[r]
  OBVIOUS
<1>3. ReadingHolds(q, v)'
  BY <1>2 DEF ReadingHolds, FellBack, Page!IsLive, Page!Points, Page!Body, Page!owned
<1>4. ObservingHolds(q, v)'
  <2>1. ServedTo(q.key, q.page) => ServedTo(q.key, q.page)'
    BY DEF ServedTo, Page!Answered, PInv, Page!TypeOK, Page!Set
  <2> QED
    BY <1>2, <2>1 DEF ObservingHolds
<1>5. PassedHolds(request[r], window[r])' /\ ReadingHolds(request[r], window[r])'
       /\ ObservingHolds(request[r], window[r])'
  BY <1>1, <1>2, <1>3, <1>4 DEF PassedHolds, ReadingHolds, ObservingHolds, FellBack
<1>6. VisitAnswerHolds(r)'
  BY <1>1 DEF VisitAnswerHolds, Page!AdmissionIsJust, Page!RefusalIsJust, Page!Answered
<1>7. VisitHolds(r)'
  BY <1>1, <1>5, <1>6, Watching DEF VisitHolds
<1> QED
  BY <1>1, <1>7, Moves DEF PInv, Page!TypeOK

\* A request is answered.
LEMMA Ends ==
  ASSUME Page!Admissible, PInv, window' = Page!Watched, UNCHANGED Page!owned, NEW r \in Visits,
         NEW q \in Page!RequestStates,
         Page!Set(r, q), request[r].phase # "done", q.phase = "done", EndHolds(q, window'[r]),
         q.answer = "served" => window'[r].unlisted \/ <<q.key, q.page>> \in observed',
         observed \subseteq observed', observed' \subseteq Keys \X Pages,
         cached' \in [Pages -> [key : Keys, body : Page!Bodies] \cup {None}],
         \A k \in Keys, p \in Pages : <<k, p>> \in observed' =>
           <<k, p>> \in observed \/ (q.answer = "served" /\ q.key = k /\ q.page = p)
  PROVE  PInv'
<1>1. request'[r] = q /\ \A o \in Visits : o # r => request'[o] = request[o]
  BY DEF PInv, Page!TypeOK, Page!Set
<1>2. Page!AdmissionIsJust(r)'
  BY <1>1 DEF Page!AdmissionIsJust, Page!Answered, Page!NeededFor, Page!Asks, EndHolds, Admitted
<1>3. Page!RefusalIsJust(r)'
  <2>1. ASSUME Page!Answered(r, {"safe_internal_error"})'
        PROVE  \E o \in Visits \ {r} :
                 /\ Page!Answered(o, {"served"})'
                 /\ request'[o].key = request'[r].key /\ request'[o].page = request'[r].page
    <3>1. ServedTo(q.key, q.page)
      BY <1>1, <2>1 DEF Page!Answered, EndHolds
    <3>2. PICK o \in Visits : Page!Answered(o, {"served"}) /\ request[o].key = q.key /\ request[o].page = q.page
      BY <3>1 DEF ServedTo
    <3>3. o # r
      BY <3>2 DEF Page!Answered
    <3> QED
      BY <1>1, <3>2, <3>3 DEF Page!Answered
  <2>2. window'[r].lapsed \cap ({"credential"} \cup Page!Tenants) # {} <=>
          "credential" \in window'[r].lapsed \/ "organisation" \in window'[r].lapsed
          \/ "workspace" \in window'[r].lapsed
    BY DEF Page!Tenants
  <2> QED
    BY <1>1, <2>1, <2>2 DEF Page!RefusalIsJust, Page!Answered, EndHolds
<1>4. VisitAnswerHolds(r)'
  BY <1>1, <1>2, <1>3 DEF VisitAnswerHolds, Page!Answered, EndHolds
<1>5. VisitHolds(r)'
  BY <1>1, <1>4, Watching DEF VisitHolds, Page!IsOpen, EndHolds
<1> QED
  BY <1>5, Moves

\* What an open request has passed holds in what it has seen up to now.
LEMMA Here ==
  ASSUME Page!Admissible, PInv, window' = Page!Watched, NEW r \in Visits, Page!IsOpen(r)
  PROVE  /\ request[r] \in Page!RequestStates /\ request[r].key \in Keys /\ request[r].page \in Pages
         /\ request[r].kind \in Page!Kinds /\ request[r].phase \notin {"idle", "done"}
         /\ PassedHolds(request[r], window'[r]) /\ ReadingHolds(request[r], window'[r])
         /\ ObservingHolds(request[r], window'[r])
         /\ request[r].body # None => request[r].body \in window'[r].bodies
         /\ window'[r].bodies # {} => "published" \in window'[r].held
         /\ Takes(r, window'[r]) /\ Grows(window[r], window'[r])
<1>1. request[r] \in Page!RequestStates /\ VisitHolds(r)
  BY RequestTypes DEF PInv
<1>2. PICK q, w, v : q = request[r] /\ w = window[r] /\ v = window'[r]
  OBVIOUS
<1>3. Grows(w, v) /\ Takes(r, v) /\ (v.bodies # {} => "published" \in v.held)
  BY <1>2, Watching
<1>4. PassedHolds(q, w) /\ ReadingHolds(q, w) /\ ObservingHolds(q, w) /\ (q.body # None => q.body \in w.bodies)
  BY <1>1, <1>2 DEF VisitHolds
<1>5. PassedHolds(q, v) /\ (q.body # None => q.body \in v.bodies)
  BY <1>3, <1>4 DEF PassedHolds, Grows
<1>6. ReadingHolds(q, v)
  BY <1>3, <1>4 DEF ReadingHolds, FellBack, Grows
<1>7. ObservingHolds(q, v)
  BY <1>3, <1>4 DEF ObservingHolds, Grows
<1>8. q.key \in Keys /\ q.page \in Pages /\ q.kind \in Page!Kinds
  BY <1>1, <1>2 DEF Page!RequestStates
<1>9. q.phase \notin {"idle", "done"}
  BY <1>2 DEF Page!IsOpen
<1> QED
  BY <1>1, <1>2, <1>3, <1>5, <1>6, <1>7, <1>8, <1>9

VisitPhases == Names \cup Reading \cup Observing

LEMMA Continues ==
  ASSUME Page!Admissible, PInv, window' = Page!Watched, NEW r \in Visits, Page!Only(r), Page!IsOpen(r),
         NEW p \in VisitPhases, Page!Goto(r, p),
         p \notin {"revision", "legacy", "commit"},
         \A q : PassedHolds(request[r], window'[r]) /\ q = [request[r] EXCEPT !.phase = p] =>
                PassedHolds(q, window'[r])
  PROVE  PInv'
<1>1. PICK q : q = [request[r] EXCEPT !.phase = p]
  OBVIOUS
<1>2. q \in Page!RequestStates /\ q.phase = p /\ q.body = request[r].body
  BY <1>1, Here DEF Page!RequestStates, VisitPhases, Names, Resolving, Reading, Again, Observing
<1>3. PassedHolds(q, window'[r])
  BY <1>1, Here
<1>4. ReadingHolds(q, window'[r]) /\ ObservingHolds(q, window'[r])
  BY <1>2 DEF ReadingHolds, ObservingHolds
<1>5. q.body # None => q.body \in window'[r].bodies
  BY <1>2, Here
<1>6. q.phase \notin {"idle", "done"}
  BY <1>2 DEF VisitPhases, Names, Resolving, Reading, Again, Observing
<1>7. Page!Set(r, q) /\ UNCHANGED <<Page!owned, observed, cached>>
  BY <1>1 DEF Page!Goto, Page!Only
<1> QED
  BY <1>2, <1>3, <1>4, <1>5, <1>6, <1>7, Here, Proceeds

Answers == {"served", "not_modified", "allowed", "created",
            "invalid_widget", "invalid_credential", "disabled_credential",
            "widget_not_published", "origin_refused", "origin_not_allowed",
            "rate_limited", "invalid_session", "safe_internal_error"}

Ended(q, answer) ==
  [q EXCEPT !.phase = "done", !.answer = answer, !.pointer = 0, !.known = FALSE,
            !.tag = IF answer = "not_modified" THEN q.tag ELSE None]

LEMMA EndedIs ==
  ASSUME Page!Admissible, NEW q \in Page!RequestStates, NEW answer \in Answers
  PROVE  /\ Ended(q, answer) \in Page!RequestStates /\ Ended(q, answer).phase = "done"
         /\ Ended(q, answer).answer = answer /\ Ended(q, answer).body = q.body
         /\ Ended(q, answer).kind = q.kind /\ Ended(q, answer).key = q.key /\ Ended(q, answer).page = q.page
         /\ answer = "not_modified" => Ended(q, answer).tag = q.tag
<1> DEFINE tag == IF answer = "not_modified" THEN q.tag ELSE None
<1>1. q.tag \in [key : Keys, body : Page!Bodies] \cup {None}
  BY DEF Page!RequestStates
<1>2. tag \in [key : Keys, body : Page!Bodies] \cup {None} /\ (answer = "not_modified" => tag = q.tag)
  BY <1>1
<1>3. Ended(q, answer) = [q EXCEPT !.phase = "done", !.answer = answer, !.pointer = 0, !.known = FALSE,
                                   !.tag = tag]
  BY DEF Ended
<1> HIDE DEF tag
<1>4. 0 \in 0 .. MaxRevision
  BY DEF Page!Admissible
<1>5. PICK a : a = [q EXCEPT !.phase = "done", !.answer = answer]
  OBVIOUS
<1>6. /\ a \in Page!RequestStates /\ a.phase = "done" /\ a.answer = answer
      /\ a.body = q.body /\ a.kind = q.kind /\ a.key = q.key /\ a.page = q.page
  BY <1>5 DEF Page!RequestStates, Answers
<1>7. Ended(q, answer) = [a EXCEPT !.pointer = 0, !.known = FALSE, !.tag = tag]
  BY <1>3, <1>5 DEF Page!RequestStates
<1>8. PICK e : e = [a EXCEPT !.pointer = 0, !.known = FALSE, !.tag = tag]
  OBVIOUS
<1>9. /\ e.phase = "done" /\ e.answer = answer /\ e.tag = tag
      /\ e.body = q.body /\ e.kind = q.kind /\ e.key = q.key /\ e.page = q.page
  BY <1>6, <1>8 DEF Page!RequestStates
<1>10. e \in Page!RequestStates
  BY <1>2, <1>4, <1>6, <1>8 DEF Page!RequestStates
<1> QED
  BY <1>2, <1>7, <1>8, <1>9, <1>10

\* An answer that nothing is served with.
LEMMA Refuses ==
  ASSUME Page!Admissible, PInv, window' = Page!Watched, NEW r \in Visits, Page!Only(r), Page!IsOpen(r),
         NEW answer \in Answers \ {"served"}, Page!Answer(r, answer),
         \A q \in Page!RequestStates :
           /\ q.answer = answer /\ q.body = request[r].body /\ q.kind = request[r].kind
           /\ q.key = request[r].key /\ q.page = request[r].page
           /\ (answer = "not_modified" => q.tag = request[r].tag)
           => EndHolds(q, window'[r])
  PROVE  PInv'
<1>1. PICK q : q = Ended(request[r], answer)
  OBVIOUS
<1>2. /\ q \in Page!RequestStates /\ q.phase = "done" /\ q.answer = answer /\ q.body = request[r].body
      /\ q.kind = request[r].kind /\ q.key = request[r].key /\ q.page = request[r].page
      /\ answer = "not_modified" => q.tag = request[r].tag
  BY <1>1, Here, EndedIs
<1>3. Page!Set(r, q) /\ UNCHANGED <<Page!owned, observed, cached>>
  BY <1>1 DEF Page!Answer, Ended, Page!Only
<1>4. EndHolds(q, window'[r])
  BY <1>2
<1> QED
  BY <1>2, <1>3, <1>4, Here, Ends DEF PInv, Page!TypeOK

LEMMA AfterIs ==
  ASSUME NEW r, request[r].kind \in Page!Kinds
  PROVE  /\ Page!After(r, "controls") = "credential" /\ Page!After(r, "credential") = "organisation"
         /\ Page!After(r, "organisation") = "workspace"
         /\ Page!After(r, "workspace") = IF Page!Asks(r, "session") THEN "pointer" ELSE "origin"
         /\ Page!After(r, "origin") = IF Page!Asks(r, "preflight") THEN "respond" ELSE "rate"
         /\ ~Page!Asks(r, "preflight") =>
              /\ Page!After(r, "rate") = IF Page!Asks(r, "session") THEN "reorganisation" ELSE "pointer"
              /\ Page!After(r, "pointer") = IF Page!Asks(r, "session") THEN "origin" ELSE "respond"
         /\ Page!Asks(r, "config") => Page!After(r, "respond") = "observe"
         /\ Page!Asks(r, "session") =>
              Page!After(r, "reorganisation") = "reworkspace" /\ Page!After(r, "reworkspace") = "recredential"
<1>1. Page!Asks(r, "config") \/ Page!Asks(r, "config_preflight") \/ Page!Asks(r, "session") \/ Page!Asks(r, "preflight")
  BY DEF Page!Asks, Page!Kinds
<1>2. CASE Page!Asks(r, "config")
  BY <1>2, ReadConfigFollows DEF Page!Asks
<1>3. CASE Page!Asks(r, "config_preflight")
  BY <1>3, PreflightConfigFollows DEF Page!Asks
<1>4. CASE Page!Asks(r, "session")
  BY <1>4, StartSessionFollows DEF Page!Asks
<1>5. CASE Page!Asks(r, "preflight")
  BY <1>5, PreflightFollows DEF Page!Asks
<1> QED
  BY <1>1, <1>2, <1>3, <1>4, <1>5

LEMMA Advanced ==
  ASSUME NEW q \in Page!RequestStates, NEW p, NEW n, n = [q EXCEPT !.phase = p]
  PROVE  n.phase = p /\ n.kind = q.kind /\ n.body = q.body /\ n.key = q.key
BY DEF Page!RequestStates

\* A visit begins with nothing seen.
LEMMA VisitArriveKeeps ==
  ASSUME Page!Admissible, PInv, window' = Page!Watched, NEW r \in Visits, Page!Arrive(r)
  PROVE  PInv'
<1>1. PICK kind, k, page, tag :
        /\ kind \in Page!Kinds /\ k \in Keys /\ page \in Pages
        /\ tag = (IF kind = "config" /\ cached[page] # None /\ cached[page].key = k THEN cached[page] ELSE None)
        /\ Page!Set(r, [Page!Idle EXCEPT !.kind = kind, !.key = k, !.page = page, !.tag = tag, !.phase = "controls"])
  BY DEF Page!Arrive
<1>2. Page!At(r, "idle") /\ UNCHANGED <<Page!owned, observed, cached>>
  BY DEF Page!Arrive, Page!Only
<1>3. Page!Idle \in Page!RequestStates /\ Page!Idle.body = None
  <2>1. (CHOOSE p \in Pages : TRUE) \in Pages /\ 0 \in 0 .. MaxRevision /\ FirstKey \in Keys
    BY DEF Page!Admissible
  <2> QED
    BY <2>1 DEF Page!Idle, Page!RequestStates, Page!Kinds
<1>4. tag \in [key : Keys, body : Page!Bodies] \cup {None}
  BY <1>1 DEF PInv, Page!TypeOK
<1>5. PICK q : q = [Page!Idle EXCEPT !.kind = kind, !.key = k, !.page = page, !.tag = tag, !.phase = "controls"]
  OBVIOUS
<1>6. q \in Page!RequestStates /\ q.phase = "controls" /\ q.body = None /\ q.kind = kind
  <2>1. PICK i : i = Page!Idle
    OBVIOUS
  <2>2. i \in Page!RequestStates /\ i.body = None
    BY <1>3, <2>1
  <2>3. q = [i EXCEPT !.kind = kind, !.key = k, !.page = page, !.tag = tag, !.phase = "controls"]
    BY <1>5, <2>1
  <2>4. kind \in Page!Kinds /\ k \in Keys /\ page \in Pages
    BY <1>1
  <2> QED
    BY <1>4, <2>2, <2>3, <2>4 DEF Page!RequestStates
<1>7. PassedHolds(q, window'[r])
  BY <1>1, <1>6 DEF PassedHolds, PhasesOf, PastOrigin, WithBody, Page!Kinds, Resolving, Reading,
         Observing, Again
<1>8. ReadingHolds(q, window'[r]) /\ ObservingHolds(q, window'[r])
  BY <1>6 DEF ReadingHolds, ObservingHolds
<1>9. Page!Set(r, q) /\ request[r].phase # "done"
  BY <1>1, <1>2, <1>5 DEF Page!At
<1> QED
  BY <1>2, <1>6, <1>7, <1>8, <1>9, Proceeds

LEMMA ScreenKeeps ==
  ASSUME Page!Admissible, PInv, window' = Page!Watched, NEW r \in Visits, Page!Screen(r)
  PROVE  PInv'
<1>1. request[r].phase = "controls" /\ Page!IsOpen(r) /\ Page!Only(r)
  BY DEF Page!Screen, Page!At, Page!IsOpen
<1>2. PICK v : v = window'[r]
  OBVIOUS
<1>3. request[r] \in Page!RequestStates /\ request[r].kind \in Page!Kinds /\ PassedHolds(request[r], v) /\ Takes(r, v)
  BY <1>1, <1>2, Here
<1>4. CASE request[r].key \in enabled
  <2>1. Page!Goto(r, "credential")
    BY <1>3, <1>4, AfterIs DEF Page!Screen, Page!Continue
  <2>2. "enabled" \in v.held
    BY <1>3, <1>4, HoldingIs DEF Takes
  <2>3. ASSUME NEW q, q = [request[r] EXCEPT !.phase = "credential"] PROVE PassedHolds(q, v)
    <3>1. q.phase = "credential" /\ q.kind \in Page!Kinds
      BY <1>3, <2>3, Advanced
    <3> QED
      BY <2>2, <3>1 DEF PassedHolds, PhasesOf, PastOrigin, WithBody, Page!Kinds, Resolving,
             Reading, Observing, Again
  <2>4. "credential" \in VisitPhases
    BY DEF VisitPhases, Names, Resolving
  <2> QED
    BY <1>1, <1>2, <2>1, <2>3, <2>4, Continues
<1>5. CASE request[r].key \notin enabled
  <2>1. Page!Answer(r, "invalid_widget") /\ "invalid_widget" \in Answers \ {"served"}
    BY <1>5 DEF Page!Screen, Answers
  <2>2. "enabled" \in v.lapsed
    BY <1>3, <1>5, LackingIs DEF Takes, PInv
  <2>3. \A q : q.answer = "invalid_widget" /\ q.body = request[r].body => EndHolds(q, v)
    BY <1>1, <1>2, <2>2, Here DEF EndHolds, Admitted
  <2> QED
    BY <1>1, <1>2, <2>1, <2>3, Refuses
<1> QED
  BY <1>4, <1>5

LEMMA ResolveCredentialKeeps ==
  ASSUME Page!Admissible, PInv, window' = Page!Watched, NEW r \in Visits, Page!ResolveCredential(r)
  PROVE  PInv'
<1>1. request[r].phase = "credential" /\ Page!IsOpen(r) /\ Page!Only(r)
  BY DEF Page!ResolveCredential, Page!At, Page!IsOpen
<1>2. PICK v : v = window'[r]
  OBVIOUS
<1>3. request[r] \in Page!RequestStates /\ request[r].kind \in Page!Kinds /\ PassedHolds(request[r], v) /\ Takes(r, v)
  BY <1>1, <1>2, Here
<1> DEFINE status == credential[request[r].key]
<1>4. CASE status = "active"
  <2>1. Page!Goto(r, "organisation")
    BY <1>3, <1>4, AfterIs DEF Page!ResolveCredential, Page!Continue
  <2>2. "credential" \in v.held
    BY <1>3, <1>4, HoldingIs DEF Takes
  <2>3. ASSUME NEW q, q = [request[r] EXCEPT !.phase = "organisation"] PROVE PassedHolds(q, v)
    <3>1. q.phase = "organisation" /\ q.kind = request[r].kind
      BY <1>3, <2>3, Advanced
    <3> QED
      BY <1>1, <1>3, <2>2, <3>1
         DEF PassedHolds, PhasesOf, PastOrigin, WithBody, Page!Kinds, Resolving, Reading,
             Observing, Again
  <2>4. "organisation" \in VisitPhases
    BY DEF VisitPhases, Names, Resolving
  <2> QED
    BY <1>1, <1>2, <2>1, <2>3, <2>4, Continues
<1>5. CASE status # "active"
  <2>1. "credential" \in v.lapsed
    BY <1>3, <1>5, LackingIs DEF Takes, PInv
  <2>2. Page!Answer(r, "disabled_credential") \/ Page!Answer(r, "invalid_credential")
    BY <1>5 DEF Page!ResolveCredential
  <2>3. \A q : q.answer \in {"disabled_credential", "invalid_credential"} /\ q.body = request[r].body =>
               EndHolds(q, v)
    BY <1>1, <1>2, <2>1, Here DEF EndHolds, Admitted
  <2>4. "disabled_credential" \in Answers \ {"served"} /\ "invalid_credential" \in Answers \ {"served"}
    BY DEF Answers
  <2> QED
    BY <1>1, <1>2, <2>2, <2>3, <2>4, Refuses
<1> QED
  BY <1>4, <1>5

LEMMA ResolveTenantKeeps ==
  ASSUME Page!Admissible, PInv, window' = Page!Watched, NEW r \in Visits, Page!ResolveTenant(r)
  PROVE  PInv'
<1>1. PICK phase \in Page!Tenants :
        /\ Page!At(r, phase)
        /\ IF phase \in tenant THEN Page!Continue(r, phase) ELSE Page!Answer(r, "disabled_credential")
  BY DEF Page!ResolveTenant, Page!Tenants
<1>2. request[r].phase = phase /\ Page!IsOpen(r) /\ Page!Only(r)
  BY <1>1 DEF Page!ResolveTenant, Page!At, Page!IsOpen, Page!Tenants
<1>3. PICK v : v = window'[r]
  OBVIOUS
<1>4. request[r] \in Page!RequestStates /\ request[r].kind \in Page!Kinds /\ PassedHolds(request[r], v) /\ Takes(r, v)
  BY <1>2, <1>3, Here
<1>5. CASE phase \in tenant
  <2>1. PICK p : p = Page!After(r, phase)
    OBVIOUS
  <2>2. p = IF phase = "organisation" THEN "workspace" ELSE IF request[r].kind = "session" THEN "pointer" ELSE "origin"
    BY <1>4, <2>1, AfterIs DEF Page!Asks, Page!Tenants
  <2>3. phase \in v.held
    BY <1>4, <1>5, HoldingIs DEF Takes
  <2>4. ASSUME NEW q, q = [request[r] EXCEPT !.phase = p] PROVE PassedHolds(q, v)
    <3>1. q.phase = p /\ q.kind = request[r].kind
      BY <1>4, <2>4, Advanced
    <3>2. phase = "organisation" \/ phase = "workspace"
      BY DEF Page!Tenants
    <3> QED
      BY <1>2, <1>4, <2>2, <2>3, <3>1, <3>2
         DEF PassedHolds, PhasesOf, PastOrigin, WithBody, Page!Kinds, Resolving, Reading,
             Observing, Again
  <2>5. p \in VisitPhases /\ p \notin {"revision", "legacy", "commit"}
    BY <2>2 DEF VisitPhases, Names, Resolving
  <2>6. Page!Goto(r, p)
    BY <1>1, <1>5, <2>1 DEF Page!Continue
  <2> QED
    BY <1>2, <1>3, <2>4, <2>5, <2>6, Continues
<1>6. CASE phase \notin tenant
  <2>1. phase \in v.lapsed
    BY <1>4, <1>6, LackingIs DEF Takes, PInv
  <2>2. Page!Answer(r, "disabled_credential") /\ "disabled_credential" \in Answers \ {"served"}
    BY <1>1, <1>6 DEF Answers
  <2>3. \A q : q.answer = "disabled_credential" /\ q.body = request[r].body => EndHolds(q, v)
    BY <1>2, <1>3, <2>1, Here DEF EndHolds, Admitted, Page!Tenants
  <2> QED
    BY <1>2, <1>3, <2>2, <2>3, Refuses
<1> QED
  BY <1>5, <1>6

LEMMA CheckOriginKeeps ==
  ASSUME Page!Admissible, PInv, window' = Page!Watched, NEW r \in Visits, Page!CheckOrigin(r)
  PROVE  PInv'
<1> DEFINE k == request[r].key
           p == request[r].page
           fits == p \notin Refused /\ Page!Matches(allowed[k], p)
<1>1. request[r].phase = "origin" /\ Page!IsOpen(r) /\ Page!Only(r)
  BY DEF Page!CheckOrigin, Page!At, Page!IsOpen
<1>2. PICK v : v = window'[r]
  OBVIOUS
<1>3. request[r] \in Page!RequestStates /\ request[r].kind \in Page!Kinds /\ PassedHolds(request[r], v) /\ Takes(r, v)
  BY <1>1, <1>2, Here
<1>4. \/ fits /\ Page!Continue(r, "origin")
      \/ ~fits /\ (Page!Answer(r, "origin_refused") \/ Page!Answer(r, "origin_not_allowed"))
  BY DEF Page!CheckOrigin
<1>5. CASE fits /\ Page!Continue(r, "origin")
  <2>1. PICK next : next = Page!After(r, "origin")
    OBVIOUS
  <2>2. next = IF request[r].kind = "preflight" THEN "respond" ELSE "rate"
    BY <1>3, <2>1, AfterIs DEF Page!Asks
  <2>3. "origin" \in v.held
    BY <1>3, <1>5, HoldingIs DEF Takes
  <2>4. ASSUME NEW q, q = [request[r] EXCEPT !.phase = next] PROVE PassedHolds(q, v)
    <3>1. q.phase = next /\ q.kind = request[r].kind /\ q.body = request[r].body
      BY <1>3, <2>4, Advanced
    <3> QED
      BY <1>1, <1>3, <2>2, <2>3, <3>1
         DEF PassedHolds, PhasesOf, PastOrigin, WithBody, Page!Kinds, Resolving, Reading,
             Observing, Again
  <2>5. next \in VisitPhases /\ next \notin {"revision", "legacy", "commit"}
    BY <2>2 DEF VisitPhases, Names
  <2>6. Page!Goto(r, next)
    BY <1>5, <2>1 DEF Page!Continue
  <2> QED
    BY <1>1, <1>2, <2>4, <2>5, <2>6, Continues
<1>6. CASE ~fits /\ (Page!Answer(r, "origin_refused") \/ Page!Answer(r, "origin_not_allowed"))
  <2>1. "origin" \in v.lapsed
    BY <1>3, <1>6, LackingIs DEF Takes, PInv
  <2>2. \A q : q.answer \in {"origin_refused", "origin_not_allowed"} /\ q.body = request[r].body =>
               EndHolds(q, v)
    BY <1>1, <1>2, <2>1, Here DEF EndHolds, Admitted
  <2>3. "origin_refused" \in Answers \ {"served"} /\ "origin_not_allowed" \in Answers \ {"served"}
    BY DEF Answers
  <2> QED
    BY <1>1, <1>2, <1>6, <2>2, <2>3, Refuses
<1> QED
  BY <1>4, <1>5, <1>6

LEMMA EnforceKeeps ==
  ASSUME Page!Admissible, PInv, window' = Page!Watched, NEW r \in Visits, Page!Enforce(r)
  PROVE  PInv'
<1>1. request[r].phase = "rate" /\ Page!IsOpen(r) /\ Page!Only(r)
  BY DEF Page!Enforce, Page!At, Page!IsOpen
<1>2. PICK v : v = window'[r]
  OBVIOUS
<1>3. request[r] \in Page!RequestStates /\ request[r].kind \in Page!Kinds /\ PassedHolds(request[r], v)
  BY <1>1, <1>2, Here
<1>4. CASE Page!Continue(r, "rate")
  <2>1. PICK next : next = Page!After(r, "rate")
    OBVIOUS
  <2>2. request[r].kind # "preflight"
    BY <1>1, <1>3 DEF PassedHolds, PhasesOf, Page!Kinds, Resolving
  <2>3. next = IF request[r].kind = "session" THEN "reorganisation" ELSE "pointer"
    BY <1>3, <2>1, <2>2, AfterIs DEF Page!Asks
  <2>4. ASSUME NEW q, q = [request[r] EXCEPT !.phase = next] PROVE PassedHolds(q, v)
    <3>1. q.phase = next /\ q.kind = request[r].kind /\ q.body = request[r].body
      BY <1>3, <2>4, Advanced
    <3> QED
      BY <1>1, <1>3, <2>2, <2>3, <3>1
         DEF PassedHolds, PhasesOf, PastOrigin, WithBody, Page!Kinds, Resolving, Reading,
             Observing, Again
  <2>5. next \in VisitPhases /\ next \notin {"revision", "legacy", "commit"}
    BY <2>3 DEF VisitPhases, Names, Again
  <2>6. Page!Goto(r, next)
    BY <1>4, <2>1 DEF Page!Continue
  <2> QED
    BY <1>1, <1>2, <2>4, <2>5, <2>6, Continues
<1>5. CASE Page!Answer(r, "rate_limited")
  <2>1. \A q : q.answer = "rate_limited" /\ q.body = request[r].body => EndHolds(q, v)
    BY <1>1, <1>2, Here DEF EndHolds, Admitted
  <2>2. "rate_limited" \in Answers \ {"served"}
    BY DEF Answers
  <2> QED
    BY <1>1, <1>2, <1>5, <2>1, <2>2, Refuses
<1> QED
  BY <1>4, <1>5 DEF Page!Enforce

LEMMA CreateSessionKeeps ==
  ASSUME Page!Admissible, PInv, window' = Page!Watched, NEW r \in Visits, Page!CreateSession(r)
  PROVE  PInv'
<1>1. Page!IsOpen(r) /\ Page!Only(r) /\ request[r].phase \in Again
  BY DEF Page!CreateSession, Page!At, Page!IsOpen, Again
<1>2. PICK v : v = window'[r]
  OBVIOUS
<1>3. /\ request[r] \in Page!RequestStates /\ request[r].kind \in Page!Kinds /\ PassedHolds(request[r], v) /\ Takes(r, v)
      /\ v.bodies # {} => "published" \in v.held
  BY <1>1, <1>2, Here
<1>4. request[r].kind = "session"
  BY <1>1, <1>3 DEF PassedHolds, PhasesOf, Page!Kinds, Resolving, Reading, Observing, Again
<1>5. /\ Page!After(r, "reorganisation") = "reworkspace" /\ Page!After(r, "reworkspace") = "recredential"
  BY <1>3, <1>4, AfterIs DEF Page!Asks
<1>6. \A q : q.answer = "invalid_session" /\ q.body = request[r].body
             /\ ("credential" \in v.lapsed \/ "organisation" \in v.lapsed \/ "workspace" \in v.lapsed) =>
             EndHolds(q, v)
  BY <1>1, <1>2, Here DEF EndHolds, Admitted
<1>7. "invalid_session" \in Answers \ {"served"} /\ "created" \in Answers \ {"served"}
  BY DEF Answers
<1>8. ASSUME NEW p \in {"reworkspace", "recredential"}, Page!Goto(r, p) PROVE PInv'
  <2>1. ASSUME NEW q, q = [request[r] EXCEPT !.phase = p] PROVE PassedHolds(q, v)
    <3>1. q.phase = p /\ q.kind = request[r].kind /\ q.body = request[r].body
      BY <1>3, <2>1, Advanced
    <3> QED
      BY <1>1, <1>3, <1>4, <3>1
         DEF PassedHolds, PhasesOf, PastOrigin, WithBody, Page!Kinds, Resolving, Reading,
             Observing, Again
  <2>2. p \in VisitPhases /\ p \notin {"revision", "legacy", "commit"}
    BY DEF VisitPhases, Names, Again
  <2> QED
    BY <1>1, <1>2, <1>8, <2>1, <2>2, Continues
<1>9. CASE Page!At(r, "reorganisation")
  <2>1. CASE "organisation" \in tenant
    <3>1. Page!Goto(r, "reworkspace")
      BY <1>5, <1>9, <2>1 DEF Page!CreateSession, Page!At, Page!Continue
    <3> QED
      BY <1>8, <3>1
  <2>2. CASE "organisation" \notin tenant
    <3>1. Page!Answer(r, "invalid_session")
      BY <1>9, <2>2 DEF Page!CreateSession, Page!At
    <3>2. "organisation" \in v.lapsed
      BY <1>3, <2>2, LackingIs DEF Takes, PInv, Page!Tenants
    <3> QED
      BY <1>1, <1>2, <1>6, <1>7, <3>1, <3>2, Refuses
  <2> QED
    BY <2>1, <2>2
<1>10. CASE Page!At(r, "reworkspace")
  <2>1. CASE "workspace" \in tenant
    <3>1. Page!Goto(r, "recredential")
      BY <1>5, <1>10, <2>1 DEF Page!CreateSession, Page!At, Page!Continue
    <3> QED
      BY <1>8, <3>1
  <2>2. CASE "workspace" \notin tenant
    <3>1. Page!Answer(r, "invalid_session")
      BY <1>10, <2>2 DEF Page!CreateSession, Page!At
    <3>2. "workspace" \in v.lapsed
      BY <1>3, <2>2, LackingIs DEF Takes, PInv, Page!Tenants
    <3> QED
      BY <1>1, <1>2, <1>6, <1>7, <3>1, <3>2, Refuses
  <2> QED
    BY <2>1, <2>2
<1>11. CASE Page!At(r, "recredential")
  <2>1. CASE credential[request[r].key] = "active"
    <3>1. Page!Answer(r, "created")
      BY <1>11, <2>1 DEF Page!CreateSession, Page!At
    <3>2. Page!Facts \subseteq v.held
      BY <1>3, <1>4, <1>11
         DEF Page!At, Page!Facts, Page!Tenants, PassedHolds, PastOrigin, WithBody, Resolving,
             Reading, Observing, Again
    <3>3. \A q : q.answer = "created" /\ q.body = request[r].body => EndHolds(q, v)
      BY <1>1, <1>2, <3>2, Here DEF EndHolds
    <3> QED
      BY <1>1, <1>2, <1>7, <3>1, <3>3, Refuses
  <2>2. CASE credential[request[r].key] # "active"
    <3>1. Page!Answer(r, "invalid_session")
      BY <1>11, <2>2 DEF Page!CreateSession, Page!At
    <3>2. "credential" \in v.lapsed
      BY <1>3, <2>2, LackingIs DEF Takes, PInv
    <3> QED
      BY <1>1, <1>2, <1>6, <1>7, <3>1, <3>2, Refuses
  <2> QED
    BY <2>1, <2>2
<1> QED
  BY <1>9, <1>10, <1>11 DEF Page!CreateSession

\* What is read is the widget's when the pointer is, or the row that it shows then or showed.
LEMMA ReadWidgetKeeps ==
  ASSUME Page!Admissible, PInv, window' = Page!Watched, NEW r \in Visits, Page!ReadWidget(r)
  PROVE  PInv'
<1>1. request[r].phase = "pointer" /\ Page!IsOpen(r) /\ UNCHANGED <<Page!owned, observed, cached>>
  BY DEF Page!ReadWidget, Page!At, Page!IsOpen, Page!Only
<1>2. PICK v : v = window'[r]
  OBVIOUS
<1>3. PICK k \in Keys : k = request[r].key
  BY <1>1, Here
<1>4. /\ request[r] \in Page!RequestStates /\ request[r].kind \in Page!Kinds /\ PassedHolds(request[r], v) /\ Takes(r, v)
      /\ request[r].body # None => request[r].body \in v.bodies
  BY <1>1, <1>2, Here
<1>5. PICK q : q = [request[r] EXCEPT !.pointer = IF Page!Points(k) THEN widget.active ELSE 0,
                                      !.phase = IF Page!Points(k) THEN "revision" ELSE "legacy"]
  OBVIOUS
<1>6. widget.active \in 0 .. MaxRevision /\ 0 \in 0 .. MaxRevision /\ MaxRevision \in Nat
  BY DEF Page!Admissible, PInv, Page!TypeOK
<1>7. /\ q \in Page!RequestStates /\ q.kind = request[r].kind /\ q.key = k /\ q.body = request[r].body
      /\ Page!Points(k) => q.phase = "revision" /\ q.pointer = widget.active
      /\ ~Page!Points(k) => q.phase = "legacy"
  <2>1. CASE Page!Points(k)
    <3>1. q = [request[r] EXCEPT !.pointer = widget.active, !.phase = "revision"]
      BY <1>5, <2>1
    <3> QED
      BY <1>3, <1>4, <1>6, <2>1, <3>1 DEF Page!RequestStates
  <2>2. CASE ~Page!Points(k)
    <3>1. q = [request[r] EXCEPT !.pointer = 0, !.phase = "legacy"]
      BY <1>5, <2>2
    <3> QED
      BY <1>3, <1>4, <1>6, <2>2, <3>1 DEF Page!RequestStates
  <2> QED
    BY <2>1, <2>2
<1>8. Page!Set(r, q)
  BY <1>3, <1>5 DEF Page!ReadWidget
<1>9. PassedHolds(q, v)
  BY <1>1, <1>4, <1>7
     DEF PassedHolds, PhasesOf, PastOrigin, WithBody, Page!Kinds, Resolving, Reading, Observing,
         Again
<1>10. ReadingHolds(q, v)
  <2>1. CASE Page!Points(k)
    <3>1. widget.active \in 1 .. MaxRevision /\ revisions[widget.active].status # "absent"
      BY <1>6, <2>1 DEF Page!Points, PInv
    <3>2. CASE revisions[widget.active].status = "published"
      <4>1. Page!IsLive(k)
        BY <2>1, <3>2 DEF Page!IsLive
      <4>2. Page!Configuration(k) = revisions[widget.active] /\ Page!IsPublished(k)
        BY <3>2, <4>1 DEF Page!Configuration, Page!IsPublished
      <4>3. Page!Body(revisions[widget.active]) \in v.bodies
        BY <1>3, <1>4, <4>2 DEF Takes
      <4> QED
        BY <1>7, <2>1, <3>1, <3>2, <4>3 DEF ReadingHolds
    <3>3. CASE revisions[widget.active].status # "published"
      BY <1>7, <2>1, <3>1, <3>3 DEF ReadingHolds, FellBack, Page!IsLive
    <3> QED
      BY <3>2, <3>3
  <2>2. CASE ~Page!Points(k)
    BY <1>7, <2>2 DEF ReadingHolds, FellBack, Page!IsLive
  <2> QED
    BY <2>1, <2>2
<1>11. ObservingHolds(q, v)
  BY <1>7 DEF ObservingHolds
<1> QED
  BY <1>1, <1>2, <1>4, <1>7, <1>8, <1>9, <1>10, <1>11, Proceeds

LEMMA TakeKeeps ==
  ASSUME Page!Admissible, PInv, window' = Page!Watched, NEW r \in Visits, request[r].phase \in {"revision",
         "legacy"},
         UNCHANGED <<Page!owned, observed, cached>>, NEW c \in Page!Configurations, Page!Take(r, c),
         Page!Body(c) \in window'[r].bodies
  PROVE  PInv'
<1>1. Page!IsOpen(r)
  BY DEF Page!IsOpen
<1>2. PICK v : v = window'[r]
  OBVIOUS
<1>3. request[r] \in Page!RequestStates /\ request[r].kind \in Page!Kinds /\ PassedHolds(request[r], v)
  BY <1>1, <1>2, Here
<1>4. request[r].kind # "preflight"
  BY <1>3 DEF PassedHolds, PhasesOf, Page!Kinds, Resolving
<1>5. PICK p : p = Page!After(r, "pointer")
  OBVIOUS
<1>6. p = IF request[r].kind = "session" THEN "origin" ELSE "respond"
  BY <1>3, <1>4, <1>5, AfterIs DEF Page!Asks
<1>7. PICK q : q = [request[r] EXCEPT !.body = Page!Body(c), !.phase = p]
  OBVIOUS
<1>8. Page!Body(c) \in Page!Bodies
  BY DEF Page!Admissible, Page!Configurations, Page!Body, Page!Bodies
<1>9. q \in Page!RequestStates /\ q.phase = p /\ q.kind = request[r].kind /\ q.body = Page!Body(c)
  <2>1. p \in {"origin", "respond"}
    BY <1>6
  <2> HIDE DEF Page!Body
  <2> QED
    BY <1>3, <1>7, <1>8, <2>1 DEF Page!RequestStates
<1>10. PassedHolds(q, v)
  BY <1>2, <1>3, <1>4, <1>6, <1>9
     DEF PassedHolds, PhasesOf, PastOrigin, WithBody, Page!Kinds, Resolving, Reading, Observing,
         Again
<1>11. ReadingHolds(q, v) /\ ObservingHolds(q, v) /\ q.phase \notin {"idle", "done"}
  BY <1>6, <1>9 DEF ReadingHolds, ObservingHolds
<1>12. Page!Set(r, q)
  BY <1>5, <1>7 DEF Page!Take
<1> QED
  BY <1>2, <1>9, <1>10, <1>11, <1>12, Proceeds

LEMMA ReadRevisionKeeps ==
  ASSUME Page!Admissible, PInv, window' = Page!Watched, NEW r \in Visits, Page!ReadRevision(r)
  PROVE  PInv'
<1>1. request[r].phase = "revision" /\ Page!IsOpen(r) /\ UNCHANGED <<Page!owned, observed, cached>>
  BY DEF Page!ReadRevision, Page!At, Page!IsOpen, Page!Only
<1>2. PICK v : v = window'[r]
  OBVIOUS
<1>3. /\ request[r] \in Page!RequestStates /\ request[r].kind \in Page!Kinds
      /\ PassedHolds(request[r], v) /\ ReadingHolds(request[r], v)
      /\ request[r].body # None => request[r].body \in v.bodies
  BY <1>1, <1>2, Here
<1>4. PICK c : c = revisions[request[r].pointer]
  OBVIOUS
<1>5. c \in Page!Configurations
  BY <1>1, <1>3, <1>4 DEF ReadingHolds, PInv, Page!TypeOK
<1>6. CASE c.status = "published"
  <2>1. Page!Body(c) \in v.bodies
    BY <1>1, <1>3, <1>4, <1>6 DEF ReadingHolds
  <2>2. Page!Take(r, c)
    BY <1>4, <1>6 DEF Page!ReadRevision
  <2> QED
    BY <1>1, <1>2, <1>5, <2>1, <2>2, TakeKeeps
<1>7. CASE c.status # "published"
  <2>1. PICK q : q = [request[r] EXCEPT !.phase = "legacy"]
    OBVIOUS
  <2>2. q \in Page!RequestStates /\ q.phase = "legacy" /\ q.kind = request[r].kind /\ q.body = request[r].body
         /\ q.key = request[r].key
    BY <1>3, <2>1 DEF Page!RequestStates
  <2>3. PassedHolds(q, v)
    BY <1>1, <1>3, <2>2
       DEF PassedHolds, PhasesOf, PastOrigin, WithBody, Page!Kinds, Resolving, Reading, Observing,
           Again
  <2>4. FellBack(request[r].key, v)
    BY <1>1, <1>3, <1>4, <1>7 DEF ReadingHolds
  <2>5. ReadingHolds(q, v) /\ ObservingHolds(q, v)
    BY <2>2, <2>4 DEF ReadingHolds, ObservingHolds
  <2>6. Page!Set(r, q)
    BY <1>4, <1>7, <2>1 DEF Page!ReadRevision, Page!Goto
  <2> QED
    BY <1>1, <1>2, <1>3, <2>2, <2>3, <2>5, <2>6, Proceeds
<1> QED
  BY <1>6, <1>7

LEMMA ReadLegacyKeeps ==
  ASSUME Page!Admissible, PInv, window' = Page!Watched, NEW r \in Visits, Page!ReadLegacy(r)
  PROVE  PInv'
<1>1. request[r].phase = "legacy" /\ Page!IsOpen(r) /\ Page!Only(r) /\ UNCHANGED <<Page!owned, observed, cached>>
  BY DEF Page!ReadLegacy, Page!At, Page!IsOpen, Page!Only
<1>2. PICK v : v = window'[r]
  OBVIOUS
<1>3. PICK k \in Keys : k = request[r].key
  BY <1>1, Here
<1>4. ReadingHolds(request[r], v) /\ Takes(r, v)
  BY <1>1, <1>2, Here
<1>5. FellBack(k, v) /\ legacy[k] \in Page!Configurations
  BY <1>1, <1>3, <1>4 DEF ReadingHolds, PInv, Page!TypeOK
<1>6. ~Page!IsLive(k) => Page!Configuration(k) = legacy[k]
  BY LiveTypes
<1>7. CASE legacy[k].status = "published"
  <2>1. Page!Body(legacy[k]) \in v.bodies
    BY <1>3, <1>4, <1>5, <1>6, <1>7 DEF FellBack, Takes, Page!IsPublished
  <2>2. Page!Take(r, legacy[k])
    BY <1>3, <1>7 DEF Page!ReadLegacy
  <2>3. PICK c \in Page!Configurations : c = legacy[k]
    BY <1>5
  <2> QED
    BY <1>1, <1>2, <2>1, <2>2, <2>3, TakeKeeps
<1>8. CASE legacy[k].status # "published"
  <2>1. "published" \in v.lapsed
    <3>1. CASE Page!IsLive(k)
      BY <1>5, <1>8, <3>1 DEF FellBack
    <3>2. CASE ~Page!IsLive(k)
      <4>1. ~Page!IsPublished(k)
        BY <1>6, <1>8, <3>2 DEF Page!IsPublished
      <4> QED
        BY <1>3, <1>4, <4>1, LackingIs DEF Takes, PInv
    <3> QED
      BY <3>1, <3>2
  <2>2. Page!Answer(r, "widget_not_published") /\ "widget_not_published" \in Answers \ {"served"}
    BY <1>3, <1>8 DEF Page!ReadLegacy, Answers
  <2>3. \A q : q.answer = "widget_not_published" /\ q.body = request[r].body => EndHolds(q, v)
    BY <1>1, <1>2, <2>1, Here DEF EndHolds, Admitted
  <2> QED
    BY <1>1, <1>2, <2>2, <2>3, Refuses
<1> QED
  BY <1>7, <1>8

LEMMA RespondKeeps ==
  ASSUME Page!Admissible, PInv, window' = Page!Watched, NEW r \in Visits, Page!Respond(r)
  PROVE  PInv'
<1>1. request[r].phase = "respond" /\ Page!IsOpen(r) /\ Page!Only(r)
  BY DEF Page!Respond, Page!At, Page!IsOpen
<1>2. PICK v : v = window'[r]
  OBVIOUS
<1>3. /\ request[r] \in Page!RequestStates /\ request[r].kind \in Page!Kinds /\ PassedHolds(request[r], v)
      /\ v.bodies # {} => "published" \in v.held
  BY <1>1, <1>2, Here
<1>4. (IF request[r].kind = "preflight" THEN Page!Facts \ {"published"} ELSE Page!Facts) \subseteq v.held
  BY <1>1, <1>3
     DEF Page!Facts, Page!Tenants, PassedHolds, PhasesOf, PastOrigin, WithBody, Page!Kinds,
         Resolving, Reading, Observing, Again
<1>5. "allowed" \in Answers \ {"served"} /\ "not_modified" \in Answers \ {"served"}
  BY DEF Answers
<1>6. CASE Page!Answer(r, "allowed")
  <2>1. \A q : q.answer = "allowed" /\ q.body = request[r].body /\ q.kind = request[r].kind => EndHolds(q, v)
    BY <1>1, <1>2, <1>4, Here DEF EndHolds
  <2> QED
    BY <1>1, <1>2, <1>5, <1>6, <2>1, Refuses
<1>7. CASE /\ request[r].kind = "config" /\ Page!Answer(r, "not_modified")
           /\ Page!Etag(request[r].key, request[r].body) = Page!Etag(request[r].tag.key, request[r].tag.body)
  <2>1. request[r].body \in v.bodies /\ request[r].tag.body = request[r].body
    BY <1>1, <1>3, <1>7 DEF PassedHolds, WithBody, Page!Etag
  <2>2. \A q : q.answer = "not_modified" /\ q.body = request[r].body /\ q.kind = request[r].kind
               /\ q.tag = request[r].tag => EndHolds(q, v)
    BY <1>1, <1>2, <1>4, <2>1, Here DEF EndHolds
  <2> QED
    BY <1>1, <1>2, <1>5, <1>7, <2>2, Refuses
<1>8. CASE request[r].kind \notin {"preflight", "config_preflight"} /\ Page!Continue(r, "respond")
  <2>1. request[r].kind = "config"
    BY <1>1, <1>3, <1>8 DEF PassedHolds, PhasesOf, Page!Kinds, Resolving, Reading, Again
  <2>2. Page!Goto(r, "observe")
    BY <1>3, <1>8, <2>1, AfterIs DEF Page!Continue, Page!Asks
  <2>3. ASSUME NEW q, q = [request[r] EXCEPT !.phase = "observe"] PROVE PassedHolds(q, v)
    <3>1. q.phase = "observe" /\ q.kind = request[r].kind /\ q.body = request[r].body
      BY <1>3, <2>3, Advanced
    <3> QED
      BY <1>1, <1>3, <2>1, <3>1
         DEF PassedHolds, PhasesOf, PastOrigin, WithBody, Page!Kinds, Resolving, Reading,
             Observing, Again
  <2>4. "observe" \in VisitPhases
    BY DEF VisitPhases, Names
  <2> QED
    BY <1>1, <1>2, <2>2, <2>3, <2>4, Continues
<1> QED
  BY <1>6, <1>7, <1>8 DEF Page!Respond

\* Whoever is served has passed everything and has a body.
LEMMA ServeKeeps ==
  ASSUME Page!Admissible, PInv, window' = Page!Watched, UNCHANGED Page!owned, NEW r \in Visits,
         Page!IsOpen(r),
         request[r].phase \in Observing, Page!Serve(r),
         \/ observed' = observed
         \/ observed' = observed \cup {<<request[r].key, request[r].page>>},
         window'[r].unlisted \/ <<request[r].key, request[r].page>> \in observed'
  PROVE  PInv'
<1>1. PICK v : v = window'[r]
  OBVIOUS
<1>2. PICK k \in Keys, p \in Pages : k = request[r].key /\ p = request[r].page
  BY Here
<1>3. /\ request[r] \in Page!RequestStates /\ request[r].kind \in Page!Kinds /\ PassedHolds(request[r], v)
      /\ v.bodies # {} => "published" \in v.held
  BY <1>1, Here
<1>4. request[r].kind = "config"
  BY <1>3 DEF PassedHolds, PhasesOf, Page!Kinds, Resolving, Reading, Observing, Again
<1>5. request[r].body \in v.bodies
  BY <1>3, <1>4 DEF PassedHolds, WithBody
<1>6. Page!Facts \subseteq v.held
  BY <1>3, <1>4, <1>5
     DEF Page!Facts, Page!Tenants, PassedHolds, PastOrigin, Resolving, Reading, Observing, Again
<1>7. PICK q : q = Ended(request[r], "served")
  OBVIOUS
<1>8. /\ q \in Page!RequestStates /\ q.phase = "done" /\ q.answer = "served" /\ q.body = request[r].body
      /\ q.kind = request[r].kind /\ q.key = k /\ q.page = p
  <2>1. "served" \in Answers
    BY DEF Answers
  <2> QED
    BY <1>2, <1>3, <1>7, <2>1, EndedIs
<1>9. EndHolds(q, v)
  BY <1>5, <1>6, <1>8 DEF EndHolds
<1>10. Page!Set(r, q)
  BY <1>7 DEF Page!Serve, Page!Answer, Ended
<1>11. cached' \in [Pages -> [key : Keys, body : Page!Bodies] \cup {None}]
  <2>1. request[r].body \in Page!Bodies
    <3>1. v \in Windows
      BY <1>1, Watching
    <3> QED
      BY <1>5, <3>1 DEF Windows
  <2>2. [key |-> k, body |-> request[r].body] \in [key : Keys, body : Page!Bodies]
    BY <2>1
  <2>3. cached' = [cached EXCEPT ![p] = [key |-> k, body |-> request[r].body]]
    BY <1>2 DEF Page!Serve
  <2> HIDE DEF Page!Bodies
  <2> QED
    BY <2>2, <2>3 DEF PInv, Page!TypeOK
<1>12. observed \subseteq observed' /\ observed' \subseteq Keys \X Pages
  BY <1>2 DEF PInv, Page!TypeOK
<1>13. \A kk \in Keys, pp \in Pages : <<kk, pp>> \in observed' =>
         <<kk, pp>> \in observed \/ (q.answer = "served" /\ q.key = kk /\ q.page = pp)
  BY <1>2, <1>8
<1>14. q.answer = "served" => window'[r].unlisted \/ <<q.key, q.page>> \in observed'
  BY <1>2, <1>8
<1>15. request[r].phase # "done"
  BY DEF Page!IsOpen
<1> QED
  BY <1>1, <1>8, <1>9, <1>10, <1>11, <1>12, <1>13, <1>14, <1>15, Ends

\* A step of the recording that goes on.
LEMMA ObservingGoesOn ==
  ASSUME Page!Admissible, PInv, window' = Page!Watched, NEW r \in Visits, Page!Only(r), Page!IsOpen(r),
         request[r].phase \in Observing, NEW p \in {"listed", "seen"}, Page!Goto(r, p)
  PROVE  PInv'
<1>1. PICK v : v = window'[r]
  OBVIOUS
<1>2. request[r] \in Page!RequestStates /\ request[r].kind \in Page!Kinds /\ PassedHolds(request[r], v)
  BY <1>1, Here
<1>3. request[r].kind = "config"
  BY <1>2 DEF PassedHolds, PhasesOf, Page!Kinds, Resolving, Reading, Observing, Again
<1>4. ASSUME NEW q, q = [request[r] EXCEPT !.phase = p] PROVE PassedHolds(q, v)
  <2>1. q.phase = p /\ q.kind = request[r].kind /\ q.body = request[r].body
    BY <1>2, <1>4, Advanced
  <2> QED
    BY <1>2, <1>3, <2>1
       DEF PassedHolds, PhasesOf, PastOrigin, WithBody, Page!Kinds, Resolving, Reading, Observing,
           Again
<1>5. p \in VisitPhases /\ p \notin {"revision", "legacy", "commit"}
  BY DEF VisitPhases, Observing
<1> QED
  BY <1>1, <1>4, <1>5, Continues

LEMMA FindWidgetKeeps ==
  ASSUME Page!Admissible, PInv, window' = Page!Watched, NEW r \in Visits, Page!FindWidget(r)
  PROVE  PInv'
<1>1. /\ request[r].phase \in Observing /\ Page!IsOpen(r)
      /\ UNCHANGED Page!owned /\ observed' = observed
  BY DEF Page!FindWidget, Page!At, Page!IsOpen, Observing
<1>2. CASE widget.key = request[r].key /\ ~widget.archived
  <2>1. Page!Goto(r, "listed") /\ Page!Only(r)
    BY <1>1, <1>2 DEF Page!FindWidget, Page!Only
  <2> QED
    BY <1>1, <2>1, ObservingGoesOn
<1>3. CASE ~(widget.key = request[r].key /\ ~widget.archived)
  <2>1. window'[r].unlisted
    BY <1>1, <1>3, Here DEF Takes
  <2>2. Page!Serve(r)
    BY <1>3 DEF Page!FindWidget
  <2> QED
    BY <1>1, <2>1, <2>2, ServeKeeps
<1> QED
  BY <1>2, <1>3

LEMMA FindOriginKeeps ==
  ASSUME Page!Admissible, PInv, window' = Page!Watched, NEW r \in Visits, Page!FindOrigin(r)
  PROVE  PInv'
<1>1. /\ request[r].phase \in Observing /\ Page!IsOpen(r)
      /\ UNCHANGED Page!owned /\ observed' = observed
  BY DEF Page!FindOrigin, Page!At, Page!IsOpen, Observing
<1>2. CASE request[r].page \in allowed[request[r].key]
  <2>1. Page!Goto(r, "seen") /\ Page!Only(r)
    BY <1>1, <1>2 DEF Page!FindOrigin, Page!Only
  <2> QED
    BY <1>1, <2>1, ObservingGoesOn
<1>3. CASE request[r].page \notin allowed[request[r].key]
  <2>1. window'[r].unlisted
    BY <1>1, <1>3, Here DEF Takes
  <2>2. Page!Serve(r)
    BY <1>3 DEF Page!FindOrigin
  <2> QED
    BY <1>1, <2>1, <2>2, ServeKeeps
<1> QED
  BY <1>2, <1>3

\* Who finds no observation has seen it missing, whatever is inserted afterwards.
LEMMA FindObservationKeeps ==
  ASSUME Page!Admissible, PInv, window' = Page!Watched, NEW r \in Visits, Page!FindObservation(r)
  PROVE  PInv'
<1>1. request[r].phase = "seen" /\ Page!IsOpen(r) /\ UNCHANGED <<Page!owned, observed, cached>>
  BY DEF Page!FindObservation, Page!At, Page!IsOpen, Page!Only
<1>2. PICK v : v = window'[r]
  OBVIOUS
<1>3. /\ request[r] \in Page!RequestStates /\ request[r].kind \in Page!Kinds /\ PassedHolds(request[r], v) /\ Takes(r, v)
      /\ request[r].body # None => request[r].body \in v.bodies
  BY <1>1, <1>2, Here
<1>4. PICK known \in BOOLEAN : known = (<<request[r].key, request[r].page>> \in observed)
  <2>1. CASE <<request[r].key, request[r].page>> \in observed
    <3>1. (<<request[r].key, request[r].page>> \in observed) = TRUE
      BY <2>1
    <3> QED
      BY <3>1
  <2>2. CASE <<request[r].key, request[r].page>> \notin observed
    <3>1. (<<request[r].key, request[r].page>> \in observed) = FALSE
      BY <2>2
    <3> QED
      BY <3>1
  <2> QED
    BY <2>1, <2>2
<1>5. PICK q : q = [request[r] EXCEPT !.phase = "commit", !.known = known]
  OBVIOUS
<1>6. /\ q \in Page!RequestStates /\ q.phase = "commit" /\ q.known = known /\ q.kind = request[r].kind
      /\ q.body = request[r].body /\ q.key = request[r].key /\ q.page = request[r].page
  BY <1>3, <1>5 DEF Page!RequestStates
<1>7. PassedHolds(q, v)
  BY <1>1, <1>3, <1>6
     DEF PassedHolds, PhasesOf, PastOrigin, WithBody, Page!Kinds, Resolving, Reading, Observing,
         Again
<1>8. ReadingHolds(q, v)
  BY <1>6 DEF ReadingHolds
<1>9. ObservingHolds(q, v)
  BY <1>3, <1>4, <1>6 DEF ObservingHolds, Takes
<1>10. Page!Set(r, q)
  BY <1>4, <1>5 DEF Page!FindObservation
<1> QED
  BY <1>1, <1>2, <1>3, <1>6, <1>7, <1>8, <1>9, <1>10, Proceeds

LEMMA ObserveKeeps ==
  ASSUME Page!Admissible, PInv, window' = Page!Watched, NEW r \in Visits, Page!Observe(r)
  PROVE  PInv'
<1>1. request[r].phase = "commit" /\ request[r].phase \in Observing /\ Page!IsOpen(r) /\ UNCHANGED Page!owned
  BY DEF Page!Observe, Page!At, Page!IsOpen, Observing
<1>2. PICK seen : seen = <<request[r].key, request[r].page>>
  OBVIOUS
<1>3. CASE seen \in observed /\ ~request[r].known
  <2>1. PICK v : v = window'[r]
    OBVIOUS
  <2>2. Page!Answer(r, "safe_internal_error") /\ Page!Only(r)
    BY <1>1, <1>2, <1>3 DEF Page!Observe, Page!Only
  <2>3. v.unobserved /\ ServedTo(request[r].key, request[r].page)
    BY <1>1, <1>2, <1>3, <2>1, Here DEF ObservingHolds
  <2>4. \A q : q.answer = "safe_internal_error" /\ q.body = request[r].body
               /\ q.key = request[r].key /\ q.page = request[r].page => EndHolds(q, v)
    BY <1>1, <2>1, <2>3, Here DEF EndHolds, Admitted
  <2>5. "safe_internal_error" \in Answers \ {"served"}
    BY DEF Answers
  <2> QED
    BY <1>1, <2>1, <2>2, <2>4, <2>5, Refuses
<1>4. CASE ~(seen \in observed /\ ~request[r].known)
  <2>1. Page!Serve(r) /\ observed' = observed \cup {seen}
    BY <1>2, <1>4 DEF Page!Observe
  <2> QED
    BY <1>1, <1>2, <2>1, ServeKeeps
<1> QED
  BY <1>3, <1>4

-----------------------------------------------------------------------------

LEMMA InitPInv == ASSUME Page!Admissible, Page!Init PROVE PInv
<1>1. PICK origins \in FirstOrigins : allowed = [k \in Keys |-> IF k = FirstKey THEN origins ELSE {}]
  BY DEF Page!Init
<1>2. PICK start \in {Page!NoConfiguration, [status |-> "published", version |-> 1, content |-> 0]} :
        /\ revisions = [n \in 1 .. MaxRevision |-> IF n = 1 THEN start ELSE Page!NoConfiguration]
        /\ widget = [key |-> FirstKey, archived |-> FALSE,
                     active |-> IF start = Page!NoConfiguration THEN 0 ELSE 1]
        /\ \E row \in {start, [status |-> "draft", version |-> 0, content |-> 1]} :
             legacy = [k \in Keys |-> IF k = FirstKey THEN row ELSE Page!NoConfiguration]
  BY Zenon DEF Page!Init
<1>3. PICK row \in {start, [status |-> "draft", version |-> 0, content |-> 1]} :
        legacy = [k \in Keys |-> IF k = FirstKey THEN row ELSE Page!NoConfiguration]
  BY <1>2
<1>4. PICK visited \in SUBSET {p \in Pages : revisions[1].status = "published" /\ p \in allowed[FirstKey]} :
        /\ observed = {FirstKey} \X visited
        /\ cached = [p \in Pages |-> IF p \in visited
                                      THEN [key |-> FirstKey, body |-> Page!Body(revisions[1])]
                                      ELSE None]
  BY DEF Page!Init
<1>5. /\ origins \in FirstOrigins
      /\ allowed = [k \in Keys |-> IF k = FirstKey THEN origins ELSE {}]
      /\ start \in {Page!NoConfiguration, [status |-> "published", version |-> 1, content |-> 0]}
      /\ revisions = [n \in 1 .. MaxRevision |-> IF n = 1 THEN start ELSE Page!NoConfiguration]
      /\ widget = [key |-> FirstKey, archived |-> FALSE,
                   active |-> IF start = Page!NoConfiguration THEN 0 ELSE 1]
      /\ row \in {start, [status |-> "draft", version |-> 0, content |-> 1]}
      /\ legacy = [k \in Keys |-> IF k = FirstKey THEN row ELSE Page!NoConfiguration]
      /\ observed = {FirstKey} \X visited
      /\ cached = [p \in Pages |-> IF p \in visited
                                    THEN [key |-> FirstKey, body |-> Page!Body(revisions[1])]
                                    ELSE None]
      /\ visited \subseteq Pages
  BY <1>1, <1>2, <1>3, <1>4
<1>6. /\ credential = [k \in Keys |-> IF k = FirstKey THEN "active" ELSE "absent"]
      /\ tenant = Page!Tenants /\ enabled = Keys /\ request = [r \in Visits |-> Page!Idle]
      /\ window = [r \in Visits |-> Page!Unseen] /\ changes = 0
  BY DEF Page!Init
<1>7. MaxRevision \in Nat /\ MaxRevision >= 1 /\ MaxChanges \in Nat /\ FirstKey \in Keys
  BY DEF Page!Admissible
<1>8. 0 \in 0 .. MaxRevision /\ 1 \in 0 .. MaxRevision /\ 1 \in 1 .. MaxRevision
       /\ 0 \in 0 .. MaxRevision + MaxChanges /\ 1 \in 0 .. MaxRevision + MaxChanges
       /\ 0 \in 0 .. MaxChanges + 1 /\ 1 \in 0 .. MaxChanges + 1 /\ 0 \in 0 .. MaxChanges
  BY <1>7
<1>9. Page!NoConfiguration \in Page!Configurations /\ start \in Page!Configurations /\ row \in Page!Configurations
       /\ Page!NoConfiguration.version = 0 /\ start.version \in {0, 1} /\ row.version \in {0, 1}
       /\ (start # Page!NoConfiguration => start.status = "published")
  BY <1>5, <1>8 DEF Page!NoConfiguration, Page!Configurations
<1>10. revisions \in [1 .. MaxRevision -> Page!Configurations] /\ revisions[1] = start
  BY <1>5, <1>8, <1>9
<1>11. Page!Body(revisions[1]) \in Page!Bodies
  BY <1>7, <1>9, <1>10 DEF Page!Body, Page!Bodies, Page!Configurations
<1>12. Page!Idle \in Page!RequestStates /\ Page!Idle.phase = "idle" /\ Page!Idle.body = None
  <2>1. (CHOOSE p \in Pages : TRUE) \in Pages
    BY DEF Page!Admissible
  <2> QED
    BY <1>7, <1>8, <2>1 DEF Page!Idle, Page!RequestStates, Page!Kinds
<1>13. Page!TypeOK
  <2>1. credential \in [Keys -> Page!Statuses] /\ tenant \subseteq Page!Tenants /\ enabled \subseteq Keys
    BY <1>6 DEF Page!Statuses
  <2>2. allowed \in [Keys -> SUBSET Page!Patterns]
    BY <1>5 DEF Page!Admissible
  <2>3. widget \in [key : Keys, active : 0 .. MaxRevision, archived : BOOLEAN]
    BY <1>5, <1>7, <1>8
  <2>4. legacy \in [Keys -> Page!Configurations]
    BY <1>5, <1>9
  <2>5. observed \subseteq Keys \X Pages
    BY <1>5, <1>7
  <2>6. cached \in [Pages -> [key : Keys, body : Page!Bodies] \cup {None}]
    <3>1. PICK body \in Page!Bodies : body = Page!Body(revisions[1])
      BY <1>11
    <3>2. [key |-> FirstKey, body |-> body] \in [key : Keys, body : Page!Bodies]
      BY <1>7
    <3>3. cached = [p \in Pages |-> IF p \in visited THEN [key |-> FirstKey, body |-> body] ELSE None]
      BY <1>5, <3>1
    <3> HIDE DEF Page!Bodies
    <3> QED
      BY <3>2, <3>3
  <2>7. request \in [Visits -> Page!RequestStates] /\ changes \in 0 .. MaxChanges
    BY <1>6, <1>8, <1>12
  <2> QED
    BY <1>10, <2>1, <2>2, <2>3, <2>4, <2>5, <2>6, <2>7 DEF Page!TypeOK
<1>14. Page!Unseen \in Windows
  BY DEF Page!Unseen, Windows
<1>15. \A k \in Keys : legacy[k].version <= MaxRevision + changes
  BY <1>5, <1>6, <1>7, <1>9
<1>16. widget.active # 0 => revisions[widget.active].status # "absent"
  BY <1>5, <1>9, <1>10
<1>17. ASSUME NEW r \in Visits PROVE VisitHolds(r)
  <2>1. request[r] = Page!Idle /\ window[r] = Page!Unseen /\ Page!Unseen.bodies = {}
    BY <1>6 DEF Page!Unseen
  <2>2. VisitAnswerHolds(r)
    BY <1>12, <2>1 DEF VisitAnswerHolds, Page!AdmissionIsJust, Page!RefusalIsJust, Page!Answered
  <2> QED
    BY <1>12, <2>1, <2>2 DEF VisitHolds, Page!IsOpen
<1> QED
  BY <1>6, <1>13, <1>14, <1>15, <1>16, <1>17 DEF PInv

LEMMA NextKeeps == ASSUME Page!Admissible, PInv, [Page!Next]_(Page!vars) PROVE PInv'
<1>1. CASE Page!Owners /\ window' = Page!Watched
  BY <1>1, OwnersKeep
<1>2. ASSUME NEW r \in Visits, Page!Step(r), window' = Page!Watched PROVE PInv'
  <2>1. CASE Page!Arrive(r) \/ Page!Screen(r) \/ Page!ResolveCredential(r) \/ Page!ResolveTenant(r)
    BY <1>2, <2>1, VisitArriveKeeps, ScreenKeeps, ResolveCredentialKeeps, ResolveTenantKeeps
  <2>2. CASE Page!ReadWidget(r) \/ Page!ReadRevision(r) \/ Page!ReadLegacy(r)
    BY <1>2, <2>2, ReadWidgetKeeps, ReadRevisionKeeps, ReadLegacyKeeps
  <2>3. CASE Page!CheckOrigin(r) \/ Page!Enforce(r) \/ Page!Respond(r) \/ Page!CreateSession(r)
    BY <1>2, <2>3, CheckOriginKeeps, EnforceKeeps, RespondKeeps, CreateSessionKeeps
  <2>4. CASE Page!FindWidget(r) \/ Page!FindOrigin(r) \/ Page!FindObservation(r) \/ Page!Observe(r)
    BY <1>2, <2>4, FindWidgetKeeps, FindOriginKeeps, FindObservationKeeps, ObserveKeeps
  <2> QED
    BY <1>2, <2>1, <2>2, <2>3, <2>4 DEF Page!Step
<1>3. CASE UNCHANGED Page!vars
  <2>1. /\ UNCHANGED <<credential, tenant, allowed, widget, revisions, legacy, enabled, changes>>
        /\ UNCHANGED <<observed, cached, request, window>>
    BY <1>3 DEF Page!vars, Page!owned
  <2>2. Page!TypeOK' /\ (window \in [Visits -> Windows])'
    BY <2>1 DEF PInv, Page!TypeOK
  <2>3. ASSUME NEW r \in Visits PROVE VisitHolds(r)'
    <3>1. VisitHolds(r)
      BY DEF PInv
    <3> QED
      BY <2>1, <3>1
         DEF VisitHolds, Page!IsOpen, PassedHolds, ReadingHolds, FellBack, Page!IsLive,
             Page!Points, Page!Body, ObservingHolds,
             ServedTo, Page!Answered, VisitAnswerHolds, Page!AdmissionIsJust, Page!RefusalIsJust,
             Page!NeededFor, Page!Asks
  <2> QED
    BY <2>1, <2>2, <2>3 DEF PInv
<1> QED
  BY <1>1, <1>2, <1>3 DEF Page!Next, Page!Finished

\* Every state: what an open request has passed held at some moment of it, and what it is
\* about to read is, or was, what the widget shows.
THEOREM VisitsInvariance == Page!Spec => []PInv
<1>1. Page!Init => PInv
  BY GatewayAssumption, InitPInv
<1>2. PInv /\ [Page!Next]_(Page!vars) => PInv'
  BY GatewayAssumption, NextKeeps
<1> QED
  BY <1>1, <1>2, PTL DEF Page!Spec

\* Nobody is let in or turned away for a reason that never held during the request.
THEOREM AnswersJust == Page!Spec => []AnswersAreJust
<1>1. PInv => AnswersAreJust
  BY DEF PInv, VisitHolds, VisitAnswerHolds, AnswersAreJust, Page!AnswersAreJust
<1> QED
  BY <1>1, VisitsInvariance, PTL

\* Nothing has changed for a browser only if what it holds was the widget's during the request.
THEOREM NotModifiedTrue == Page!Spec => []NotModifiedIsTrue
<1>1. PInv => NotModifiedIsTrue
  BY DEF PInv, VisitHolds, VisitAnswerHolds, NotModifiedIsTrue, Page!NotModifiedIsTrue
<1> QED
  BY <1>1, VisitsInvariance, PTL

\* A visit under a listed origin is on record once it is served.
THEOREM VisitsObserved == Page!Spec => []VisitsAreObserved
<1>1. PInv => VisitsAreObserved
  BY DEF PInv, VisitHolds, VisitAnswerHolds, VisitsAreObserved, Page!VisitsAreObserved
<1> QED
  BY <1>1, VisitsInvariance, PTL
=============================================================================
