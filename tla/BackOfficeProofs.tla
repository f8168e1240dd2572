------------------------- MODULE BackOfficeProofs ---------------------------
(***************************************************************************)
(* Theorems about Billing, the release gate (Evaluation) and the triage    *)
(* queue (Feedback), for every value of their constants.  The three share  *)
(* nothing; each has its inductive invariant: BInv, EInv and FInv.         *)
(***************************************************************************)
EXTENDS Billing, ReleaseGate, Triage, Sequences, FiniteSetTheorems, WellFoundedInduction, TLAPS

(***************************************************************************)
(* Billing.                                                                *)
(*                                                                         *)
(* Two requests of one row meet in the columns each of them writes, so     *)
(* what matters is what a delivery may rely on between the read of the row *)
(* and its commit (WebhookHolds): the plan and the status it read are      *)
(* still there, unless another delivery was applied meanwhile, which       *)
(* disturbs the history.  The second half is the limit of a plan: what a   *)
(* creation counted was within the plan it read (AssistantHolds).          *)
(***************************************************************************)
Webhook(t)   == threads[t] # None /\ threads[t].op = "webhook"
Owner(t)     == threads[t] # None /\ threads[t].op \in Requests
Assistant(t) == threads[t] # None /\ threads[t].op = "assistant"

\* An event tells of a subscription that exists, and of nothing newer than what
\* the provider has.
Faithful(e) ==
  /\ Exists(e.sub)
  /\ e.state.n <= provider[e.sub].n
  /\ e.state.n = provider[e.sub].n => e.state = provider[e.sub]

\* What a delivery read is still there in every column that it may leave alone.
WebhookHolds(t) ==
  /\ row # None
  /\ Faithful(threads[t].event)
  /\ ~disturbed => threads[t].seen.plan = row.plan /\ threads[t].seen.status = row.status
  /\ threads[t].seen.sub # None => row.sub # None

OwnerHolds(t) ==
  /\ threads[t].op = "checkout" => threads[t].plan \in Plans /\ PriceOf[threads[t].plan] \in Prices
  /\ threads[t].at \in {"act", "called"} =>
       /\ row # None /\ threads[t].seen # None
       /\ threads[t].op \in {"cancel", "resume"} => threads[t].seen.sub # None

AssistantHolds(t) ==
  threads[t].plan # None => row # None /\ WithinLimit(threads[t].plan, threads[t].counted)

ThreadHolds(t) ==
  /\ Webhook(t) => WebhookHolds(t)
  /\ Owner(t) => OwnerHolds(t)
  /\ Assistant(t) => AssistantHolds(t)

\* Nothing is applied before it exists.
SubHolds(s) ==
  IF Exists(s) THEN applied[s] <= provider[s].n /\ provider[s].n >= 1 ELSE applied[s] = 0

Sole(s) == Exists(s) /\ \A u \in Subs \ {s} : ~Exists(u)

\* InOrderAgreement for s, with the row there at all.
Agrees(s) ==
  ~disturbed /\ Sole(s) /\ applied[s] = provider[s].n =>
    /\ row # None /\ row.sub = s /\ row.status = provider[s].status
    /\ PlanOf[provider[s].price] \in {None, row.plan}

Linking == row # None /\ row.sub # None => Exists(row.sub)

LimitHolds ==
  excused = {} => IF row = None THEN assistants = 0 ELSE NotAbove(row.plan, assistants)

BInv ==
  /\ TypeOK
  /\ \A t \in Threads : ThreadHolds(t)
  /\ \A e \in events : Faithful(e)
  /\ \A s \in Subs : SubHolds(s) /\ Agrees(s)
  /\ Linking
  /\ LimitHolds

-----------------------------------------------------------------------------
(* What the helpers return.                                                *)

\* A commit keeps every column that its session did not change.
LEMMA WrittenIs ==
  ASSUME row \in Columns, NEW new \in Columns, NEW seen \in Columns
  PROVE  /\ Written(new, seen) \in Columns
         /\ Written(new, seen).plan = IF new.plan = seen.plan THEN row.plan ELSE new.plan
         /\ Written(new, seen).status = IF new.status = seen.status THEN row.status ELSE new.status
         /\ Written(new, seen).sub = IF new.sub = seen.sub THEN row.sub ELSE new.sub
<1> DEFINE w == Written(new, seen)
           v == [plan |-> IF new.plan = seen.plan THEN row.plan ELSE new.plan,
                 status |-> IF new.status = seen.status THEN row.status ELSE new.status,
                 customer |-> IF new.customer = seen.customer THEN row.customer ELSE new.customer,
                 sub |-> IF new.sub = seen.sub THEN row.sub ELSE new.sub,
                 cancel |-> IF new.cancel = seen.cancel THEN row.cancel ELSE new.cancel]
<1>1. DOMAIN row = {"plan", "status", "customer", "sub", "cancel"}
  BY DEF Columns
<1>2. w = v
  BY <1>1 DEF Written
<1>3. v \in Columns
  BY DEF Columns
<1> QED BY <1>2, <1>3

\* What the type invariant says of a thread that is served.
LEMMA Shapes ==
  ASSUME TypeOK, NEW t \in Threads
  PROVE  /\ threads[t] # None => threads[t] \in Work
         /\ Webhook(t) => threads[t].event \in Event /\ threads[t].seen \in Columns
         /\ Owner(t) => /\ threads[t].at \in {"insert", "act", "called"}
                        /\ threads[t].plan \in Plans \cup {None}
                        /\ threads[t].seen \in Columns \cup {None}
         /\ Assistant(t) => /\ threads[t].counted \in 0 .. MaxAssistants
                            /\ threads[t].plan \in Plans \cup {None}
<1>1. threads[t] # None => threads[t] \in Work
  BY DEF TypeOK
<1> QED BY <1>1 DEF Webhook, Owner, Assistant, Work, Requests

\* The same, as memberships: what a thread may become.
LEMMA Becomes ==
  /\ \A e \in Event, c \in Columns : [op |-> "webhook", event |-> e, seen |-> c] \in Work
  /\ \A n \in 0 .. MaxAssistants, p \in Plans \cup {None} :
       [op |-> "assistant", counted |-> n, plan |-> p] \in Work
  /\ \A op \in Requests, at \in {"insert", "act", "called"}, p \in Plans \cup {None},
        c \in Columns \cup {None} : Request(op, at, p, c) \in Work
  BY DEF Work, Request, Requests

\* None is not a row, a subscription, or a request.
LEMMA NotNone ==
  /\ \A c \in Columns : c # None
  /\ \A c \in Snapshot : c # None
  /\ \A c \in Work : c # None
  BY NoneAssumption

LEMMA TrialIs == Trial \in Columns /\ Trial.sub = None /\ Trial.plan = Starter
  BY BillingAssumption DEF Trial, Columns, Statuses, Linked

-----------------------------------------------------------------------------
(* Frames: what one thread's move leaves to the others.                    *)

\* The thread t becomes work, the others stay.
Turns(t, work) ==
  /\ threads' \in [Threads -> Work \cup {None}]
  /\ threads'[t] = work
  /\ \A u \in Threads \ {t} : threads'[u] = threads[u]

LEMMA ServeTurns ==
  ASSUME TypeOK, NEW t \in Threads, NEW work \in Work \cup {None},
         Serve(t, work) \/ (Done(t) /\ work = None)
  PROVE  Turns(t, work)
  BY DEF TypeOK, Serve, Done, Turns

\* An owner's request moves on with the row it has now.
LEMMA OwnerTurns ==
  ASSUME TypeOK, NEW t \in Threads, Owner(t), NEW at \in {"act", "called"},
         NEW seen \in Columns \cup {None},
         threads' = [threads EXCEPT ![t].at = at, ![t].seen = seen]
  PROVE  Turns(t, Request(threads[t].op, at, threads[t].plan, seen))
<1> DEFINE m == Request(threads[t].op, at, threads[t].plan, threads[t].seen)
           w == [[threads[t] EXCEPT !.at = at] EXCEPT !.seen = seen]
           v == Request(threads[t].op, at, threads[t].plan, seen)
<1>1. threads[t] \in [op : {"view", "checkout", "cancel", "resume"}, at : {"insert", "act", "called"},
                      plan : Plans \cup {None}, seen : Columns \cup {None}]
  BY Shapes DEF Work, Owner, Requests
<1>2. w = v
  <2>1. [threads[t] EXCEPT !.at = at] = m
    BY <1>1 DEF Request
  <2>2. [m EXCEPT !.seen = seen] = v
    BY DEF Request
  <2> QED BY <2>1, <2>2
<1>3. v \in Work
  BY <1>1, Becomes DEF Requests
<1>4. threads' = [threads EXCEPT ![t] = w]
  BY DEF TypeOK
<1> QED BY <1>2, <1>3, <1>4 DEF TypeOK, Turns

LEMMA OwnerCalls ==
  ASSUME TypeOK, NEW t \in Threads, Owner(t),
         threads' = [threads EXCEPT ![t].at = "called"]
  PROVE  Turns(t, Request(threads[t].op, "called", threads[t].plan, threads[t].seen))
<1> DEFINE w == [threads[t] EXCEPT !.at = "called"]
           v == Request(threads[t].op, "called", threads[t].plan, threads[t].seen)
<1>1. threads[t] \in [op : {"view", "checkout", "cancel", "resume"}, at : {"insert", "act", "called"},
                      plan : Plans \cup {None}, seen : Columns \cup {None}]
  BY Shapes DEF Work, Owner, Requests
<1>2. w = v
  BY <1>1 DEF Request
<1>3. v \in Work
  BY <1>1, Becomes DEF Requests
<1> QED BY <1>2, <1>3 DEF TypeOK, Turns

\* A row stays, and keeps the subscription it is linked to or takes another.
RowGrows == row # None => row' # None /\ (row.sub # None => row'.sub # None)

\* A subscription stays, and every change of it has a number of its own.
ProviderGrows ==
  \A s \in Subs : Exists(s) =>
    /\ Exists(s)'
    /\ provider'[s] = provider[s] \/ provider'[s].n > provider[s].n

LEMMA FaithfulStays ==
  ASSUME TypeOK, TypeOK', ProviderGrows, NEW e \in Event, Faithful(e)
  PROVE  Faithful(e)'
<1>1. e.sub \in Subs /\ e.state.n \in Nat
  BY DEF Event, Snapshot
<1>2. provider[e.sub] \in Snapshot /\ provider'[e.sub] \in Snapshot
  BY <1>1 DEF TypeOK, Faithful, Exists, ProviderGrows
<1>3. provider[e.sub].n \in Nat /\ provider'[e.sub].n \in Nat
  BY <1>2 DEF Snapshot
<1> QED BY <1>1, <1>3 DEF Faithful, ProviderGrows

\* A thread that does not move keeps what it relies on.
LEMMA ThreadStays ==
  ASSUME TypeOK, TypeOK', RowGrows, ProviderGrows, disturbed => disturbed',
         NEW u \in Threads, threads'[u] = threads[u], ThreadHolds(u),
         Webhook(u) /\ row # None /\ ~disturbed' =>
           row'.plan = row.plan /\ row'.status = row.status
  PROVE  ThreadHolds(u)'
<1>1. Webhook(u) => WebhookHolds(u)'
  <2> SUFFICES ASSUME Webhook(u) PROVE WebhookHolds(u)'
    OBVIOUS
  <2>1. threads[u].event \in Event /\ WebhookHolds(u)
    BY Shapes DEF ThreadHolds
  <2>2. Faithful(threads[u].event)'
    <3>1. \A e \in Event : Faithful(e) => Faithful(e)'
      BY FaithfulStays
    <3> QED BY <2>1, <3>1 DEF WebhookHolds, Faithful, Exists
  <2> QED BY <2>1, <2>2 DEF WebhookHolds, RowGrows
<1>2. Owner(u) => OwnerHolds(u)'
  BY DEF ThreadHolds, OwnerHolds, RowGrows
<1>3. Assistant(u) => AssistantHolds(u)'
  BY DEF ThreadHolds, AssistantHolds, RowGrows
<1> QED BY <1>1, <1>2, <1>3 DEF ThreadHolds, Webhook, Owner, Assistant

\* The plan, the status and the link of the row are as they were, or a trial starts.
RowSame ==
  \/ row' = row
  \/ row = None /\ row' = Trial
  \/ /\ row # None /\ row' # None
     /\ row'.plan = row.plan /\ row'.status = row.status /\ row'.sub = row.sub

\* A step of one thread that leaves all else as it is, or starts the trial, or
\* writes none of the columns that an event brings.
LEMMA RequestStep ==
  ASSUME BInv, NEW t \in Threads, NEW work \in Work \cup {None}, Turns(t, work),
         RowSame, row' \in Columns \cup {None},
         UNCHANGED <<provider, applied, disturbed, assistants, excused>>,
         checkouts' \subseteq Checkout,
         events' \subseteq events, ThreadHolds(t)'
  PROVE  BInv'
<1>a. TypeOK /\ Trial # None
  BY TrialIs, NotNone DEF BInv
<1>1. TypeOK'
  BY <1>a DEF TypeOK, Turns
<1>2. RowGrows /\ ProviderGrows
  BY <1>a DEF RowSame, RowGrows, ProviderGrows, Exists
<1>3. ASSUME NEW u \in Threads \ {t} PROVE ThreadHolds(u)'
  <2>1. threads'[u] = threads[u] /\ ThreadHolds(u)
    BY DEF Turns, BInv
  <2>2. row # None => row'.plan = row.plan /\ row'.status = row.status
    BY DEF RowSame
  <2> QED BY <1>a, <1>1, <1>2, <2>1, <2>2, ThreadStays
<1>4. \A e \in events' : Faithful(e)'
  <2>1. \A e \in Event : Faithful(e) => Faithful(e)'
    BY <1>a, <1>1, <1>2, FaithfulStays
  <2> QED BY <2>1 DEF BInv, TypeOK
<1>5. \A s \in Subs : SubHolds(s)' /\ Agrees(s)'
  BY <1>a, TrialIs DEF BInv, SubHolds, Agrees, Sole, Exists, RowSame
<1>6. Linking'
  BY <1>a, TrialIs DEF BInv, Linking, RowSame, Exists
<1>7. LimitHolds'
  <2>1. CASE row = None /\ row' = Trial /\ excused = {}
    <3>1. assistants = 0 /\ Limit[Starter] \in Nat \cup {Unlimited}
      BY <2>1, BillingAssumption DEF BInv, LimitHolds
    <3> QED BY <1>a, <2>1, <3>1, TrialIs DEF LimitHolds, NotAbove
  <2> QED BY <2>1 DEF BInv, LimitHolds, RowSame
<1> QED BY <1>1, <1>3, <1>4, <1>5, <1>6, <1>7 DEF BInv

-----------------------------------------------------------------------------
(* The requests of the organisation.                                       *)

\* A thread that has answered relies on nothing.
LEMMA RestHolds ==
  ASSUME NEW t \in Threads, threads'[t] = None PROVE ThreadHolds(t)'
  BY DEF ThreadHolds, Webhook, Owner, Assistant

\* What an owner's request relies on, from the request it has become.
LEMMA OwnerRests ==
  ASSUME NEW t \in Threads, NEW op \in Requests, NEW at, NEW plan, NEW seen,
         threads'[t] = Request(op, at, plan, seen),
         op = "checkout" => plan \in Plans /\ PriceOf[plan] \in Prices,
         at \in {"act", "called"} =>
           row' # None /\ seen # None /\ (op \in {"cancel", "resume"} => seen.sub # None)
  PROVE  ThreadHolds(t)'
  BY DEF ThreadHolds, Webhook, Owner, Assistant, OwnerHolds, Request, Requests

LEMMA FindSubscriptionStep ==
  ASSUME BInv, NEW t \in Threads, NEW op \in Requests, NEW plan \in Plans \cup {None},
         FindSubscription(t, op, plan)
  PROVE  BInv'
<1>a. TypeOK /\ checkouts \subseteq Checkout /\ row \in Columns \cup {None}
  BY DEF BInv, TypeOK
<1>b. UNCHANGED <<row, assistants, provider, checkouts, events, applied, disturbed, excused>>
  BY DEF FindSubscription
<1>c. op = "checkout" => plan \in Plans /\ PriceOf[plan] \in Prices
  BY BillingAssumption DEF FindSubscription
<1>1. CASE row = None /\ Serve(t, Request(op, "insert", plan, None))
  <2>1. Request(op, "insert", plan, None) \in Work
    BY Becomes
  <2>2. Turns(t, Request(op, "insert", plan, None))
    BY <1>a, <1>1, <2>1, ServeTurns
  <2>3. ThreadHolds(t)'
    BY <1>c, <2>2, OwnerRests DEF Turns
  <2> QED BY <1>a, <1>b, <2>1, <2>2, <2>3, RequestStep DEF RowSame
<1>2. CASE row # None /\ Admits(op, row) /\ Serve(t, Request(op, "act", plan, row))
  <2>1. Request(op, "act", plan, row) \in Work
    BY <1>a, <1>2, Becomes
  <2>2. Turns(t, Request(op, "act", plan, row))
    BY <1>a, <1>2, <2>1, ServeTurns
  <2>3. op \in {"cancel", "resume"} => row.sub # None
    BY <1>2 DEF Admits
  <2>4. ThreadHolds(t)'
    BY <1>b, <1>c, <1>2, <2>2, <2>3, OwnerRests DEF Turns
  <2> QED BY <1>a, <1>b, <2>1, <2>2, <2>4, RequestStep DEF RowSame
<1> QED BY <1>1, <1>2 DEF FindSubscription

LEMMA StartTrialStep ==
  ASSUME BInv, NEW t \in Threads, StartTrial(t) PROVE BInv'
<1>a. /\ TypeOK /\ checkouts \subseteq Checkout /\ row \in Columns \cup {None}
      /\ Trial \in Columns /\ Trial # None
  BY TrialIs, NotNone DEF BInv, TypeOK
<1>b. /\ UNCHANGED <<assistants, provider, checkouts, events, applied, disturbed, excused>>
      /\ row' = IF row = None THEN Trial ELSE row
      /\ Owner(t)
  BY DEF StartTrial, Idle, Owner
<1>c. RowSame /\ row' \in Columns \cup {None}
  BY <1>a, <1>b DEF RowSame
<1>1. CASE Done(t)
  <2>1. Turns(t, None)
    BY <1>a, <1>1, ServeTurns
  <2>2. ThreadHolds(t)'
    BY <2>1, RestHolds DEF Turns
  <2> QED BY <1>a, <1>b, <1>c, <2>1, <2>2, RequestStep
<1>2. CASE /\ row = None /\ Admits(threads[t].op, Trial)
           /\ threads' = [threads EXCEPT ![t].at = "act", ![t].seen = Trial]
  <2> DEFINE w == Request(threads[t].op, "act", threads[t].plan, Trial)
  <2>1. Turns(t, w)
    BY <1>a, <1>b, <1>2, OwnerTurns
  <2>2. w \in Work
    BY <1>a, <1>b, Becomes, Shapes DEF Owner
  <2>3. threads[t].op \notin {"cancel", "resume"}
    BY <1>2, TrialIs DEF Admits
  <2>4. /\ threads[t].op \in Requests
        /\ threads[t].op = "checkout" => threads[t].plan \in Plans /\ PriceOf[threads[t].plan] \in Prices
    BY <1>b DEF BInv, ThreadHolds, OwnerHolds, Owner
  <2>5. threads'[t] = w /\ row' # None
    BY <1>a, <1>b, <1>2, <2>1 DEF Turns
  <2>6. ThreadHolds(t)'
    BY <1>a, <2>3, <2>4, <2>5, OwnerRests
  <2> QED BY <1>a, <1>b, <1>c, <2>1, <2>2, <2>6, RequestStep
<1> QED BY <1>1, <1>2 DEF StartTrial

\* The commit of a new customer's id writes that column alone.
LEMMA EnsureCustomerStep ==
  ASSUME BInv, NEW t \in Threads, EnsureCustomer(t) PROVE BInv'
<1> DEFINE seen == threads[t].seen
           next == [seen EXCEPT !.customer = TRUE]
           new == IF seen.customer THEN row ELSE Written(next, seen)
           kept == IF seen.customer THEN seen ELSE new
           w == Request("checkout", "called", threads[t].plan, kept)
<1>a. TypeOK /\ checkouts \subseteq Checkout
  BY DEF BInv, TypeOK
<1>b. /\ UNCHANGED <<assistants, provider, checkouts, events, applied, disturbed, excused>>
      /\ row' = new /\ Owner(t) /\ threads[t].op = "checkout" /\ threads[t].at = "act"
  BY DEF EnsureCustomer, At, Idle, Owner, Requests
<1>1. row \in Columns /\ seen \in Columns /\ row # None /\ seen # None
  BY <1>a, <1>b, Shapes DEF BInv, ThreadHolds, OwnerHolds, TypeOK
<1>2. next \in Columns /\ next.plan = seen.plan /\ next.status = seen.status /\ next.sub = seen.sub
  BY <1>1 DEF Columns
<1>3. new \in Columns /\ new.plan = row.plan /\ new.status = row.status /\ new.sub = row.sub
  <2>1. PICK after : after = next
    OBVIOUS
  <2>2. /\ Written(after, seen) \in Columns /\ Written(after, seen).plan = row.plan
        /\ Written(after, seen).status = row.status /\ Written(after, seen).sub = row.sub
    <3>1. after \in Columns /\ after.plan = seen.plan /\ after.status = seen.status /\ after.sub = seen.sub
      BY <1>2, <2>1
    <3> QED
      BY <1>1, <3>1, WrittenIs
  <2> QED
    BY <1>1, <2>1, <2>2
<1>4. RowSame /\ row' \in Columns \cup {None} /\ row' # None /\ kept \in Columns /\ kept # None
  BY <1>b, <1>1, <1>3, NotNone DEF RowSame
<1>5. threads' = [threads EXCEPT ![t].at = "called", ![t].seen = kept]
  BY <1>a DEF EnsureCustomer, TypeOK
<1> HIDE DEF kept, new
<1>6. Turns(t, w) /\ w \in Work
  BY <1>a, <1>b, <1>4, <1>5, OwnerTurns, Becomes, Shapes DEF Requests
<1>7. ThreadHolds(t)'
  <2>1. threads[t].plan \in Plans /\ PriceOf[threads[t].plan] \in Prices
    BY <1>b DEF BInv, ThreadHolds, OwnerHolds
  <2> QED BY <1>4, <1>6, <2>1, OwnerRests DEF Turns, Requests
<1> QED BY <1>a, <1>b, <1>4, <1>6, <1>7, RequestStep

LEMMA OpenCheckoutStep ==
  ASSUME BInv, NEW t \in Threads, OpenCheckout(t) PROVE BInv'
<1>a. TypeOK /\ checkouts \subseteq Checkout /\ row \in Columns \cup {None}
  BY DEF BInv, TypeOK
<1>b. /\ UNCHANGED <<row, assistants, provider, events, applied, disturbed, excused>> /\ Done(t)
      /\ Owner(t) /\ threads[t].op = "checkout"
      /\ checkouts' = checkouts \cup
           {[price |-> PriceOf[threads[t].plan], trial |-> threads[t].seen.sub = None]}
  BY DEF OpenCheckout, At, Idle, Owner, Requests
<1>1. Turns(t, None) /\ ThreadHolds(t)'
  BY <1>a, <1>b, ServeTurns, RestHolds DEF Turns
<1>2. checkouts' \subseteq Checkout
  <2>1. PriceOf[threads[t].plan] \in Prices /\ (threads[t].seen.sub = None) \in BOOLEAN
    BY <1>b DEF BInv, ThreadHolds, OwnerHolds
  <2>2. \A p \in Prices, b \in BOOLEAN : [price |-> p, trial |-> b] \in Checkout
    BY DEF Checkout
  <2>3. [price |-> PriceOf[threads[t].plan], trial |-> threads[t].seen.sub = None] \in Checkout
    BY <2>1, <2>2, Zenon
  <2> QED BY <1>a, <1>b, <2>3, Zenon
<1> QED BY <1>a, <1>b, <1>1, <1>2, RequestStep DEF RowSame

\* The provider's state changes, and the events tell of it: the row, which says
\* nothing of the new number yet, is not asked to agree.
LEMMA ProviderStep ==
  ASSUME BInv, TypeOK', NEW s \in Subs, ProviderGrows,
         UNCHANGED <<row, assistants, applied, disturbed, excused>>,
         \A u \in Subs \ {s} : provider'[u] = provider[u],
         Exists(s)', provider'[s].n > (IF Exists(s) THEN provider[s].n ELSE 0),
         provider'[s].n \in Nat,
         \A e \in events' : e \in events \/ (e.sub = s /\ e.state = provider'[s]),
         \A t \in Threads : threads'[t] = threads[t] \/ ThreadHolds(t)'
  PROVE  BInv'
<1>a. TypeOK
  BY DEF BInv
<1>1. ASSUME NEW t \in Threads PROVE ThreadHolds(t)'
  BY <1>a, ThreadStays DEF BInv, RowGrows
<1>2. ASSUME NEW e \in events' PROVE Faithful(e)'
  <2>1. CASE e \in events
    BY <1>a, <2>1, FaithfulStays DEF BInv, TypeOK
  <2>2. CASE e.sub = s /\ e.state = provider'[s]
    BY <2>2 DEF Faithful
  <2> QED BY <2>1, <2>2
<1>3. applied[s] \in Nat /\ (Exists(s) => provider[s].n \in Nat)
  <2>1. applied[s] \in 0 .. MaxEvents /\ (Exists(s) => provider[s] \in Snapshot)
    BY <1>a DEF TypeOK, Exists
  <2> QED BY <2>1 DEF Snapshot
<1>4. SubHolds(s)' /\ applied'[s] # provider'[s].n
  BY <1>3 DEF BInv, SubHolds
<1>5. ASSUME NEW u \in Subs \ {s} PROVE SubHolds(u)' /\ Agrees(u)'
  BY DEF BInv, SubHolds, Agrees, Sole, Exists
<1>6. Agrees(s)'
  BY <1>4 DEF Agrees
<1>7. Linking'
  <2>1. row # None => row.sub \in Subs \cup {None}
    BY <1>a DEF TypeOK, Columns, Linked
  <2> QED BY <2>1 DEF BInv, Linking, ProviderGrows
<1>8. LimitHolds'
  BY DEF BInv, LimitHolds
<1> QED BY <1>1, <1>2, <1>4, <1>5, <1>6, <1>7, <1>8 DEF BInv

\* A change of a running subscription takes the next number, and is told.
LEMMA ChangeFrame ==
  ASSUME TypeOK, NEW s \in Subs, NEW state \in Snapshot, Exists(s), state.n = provider[s].n,
         Change(s, state)
  PROVE  /\ provider' \in [Subs -> Snapshot \cup {None}]
         /\ \A u \in Subs \ {s} : provider'[u] = provider[u]
         /\ provider'[s] \in Snapshot /\ Exists(s)'
         /\ provider[s].n \in Nat /\ provider'[s].n = provider[s].n + 1
         /\ events' \subseteq Event
         /\ \A e \in events' : e \in events \/ (e.sub = s /\ e.state = provider'[s])
         /\ ProviderGrows
<1> DEFINE next == [state EXCEPT !.n = @ + 1]
           e0 == [kind |-> "subscription", sub |-> s, state |-> next]
<1>1. provider[s] \in Snapshot /\ provider[s].n \in Nat /\ provider[s].n < MaxEvents
  BY DEF TypeOK, Exists, Snapshot, Change
<1>2. next \in Snapshot /\ next.n = provider[s].n + 1
  BY <1>1, BillingAssumption DEF Snapshot
<1>3. provider' = [provider EXCEPT ![s] = next] /\ events' = events \cup {e0}
  BY DEF Change, Told
<1>4. e0 \in Event /\ e0.sub = s /\ e0.state = next
  BY <1>2 DEF Event
<1> HIDE DEF next, e0
<1>5. /\ provider' \in [Subs -> Snapshot \cup {None}] /\ provider'[s] = next
      /\ \A u \in Subs \ {s} : provider'[u] = provider[u]
  BY <1>2, <1>3 DEF TypeOK
<1>6. Exists(s)'
  BY <1>2, <1>5, NotNone DEF Exists
<1>7. events' \subseteq Event /\ \A e \in events' : e \in events \/ (e.sub = s /\ e.state = provider'[s])
  BY <1>3, <1>4, <1>5 DEF TypeOK
<1>8. ProviderGrows
  BY <1>1, <1>2, <1>5, <1>6 DEF ProviderGrows, Exists
<1> QED BY <1>1, <1>2, <1>5, <1>6, <1>7, <1>8

LEMMA ChangeSubscriptionStep ==
  ASSUME BInv, NEW s \in Subs, ChangeSubscription(s) PROVE BInv'
<1>a. TypeOK /\ Exists(s) /\ provider[s] \in Snapshot
  BY DEF BInv, TypeOK, ChangeSubscription, Runs, Exists
<1>b. UNCHANGED <<row, assistants, checkouts, threads, applied, disturbed, excused>>
  BY DEF ChangeSubscription
<1>1. PICK state \in Snapshot : Change(s, state) /\ state.n = provider[s].n
  <2>1. CASE \E price \in Prices : Change(s, [provider[s] EXCEPT !.price = price])
    <3>1. PICK price \in Prices : Change(s, [provider[s] EXCEPT !.price = price])
      BY <2>1
    <3>2. /\ [provider[s] EXCEPT !.price = price] \in Snapshot
          /\ [provider[s] EXCEPT !.price = price].n = provider[s].n
      BY <1>a DEF Snapshot
    <3> QED BY <3>1, <3>2
  <2>2. CASE \E status \in Statuses : Change(s, [provider[s] EXCEPT !.status = status])
    <3>1. PICK status \in Statuses : Change(s, [provider[s] EXCEPT !.status = status])
      BY <2>2
    <3>2. /\ [provider[s] EXCEPT !.status = status] \in Snapshot
          /\ [provider[s] EXCEPT !.status = status].n = provider[s].n
      BY <1>a DEF Snapshot
    <3> QED BY <3>1, <3>2
  <2>3. CASE \E cancel \in BOOLEAN : Change(s, [provider[s] EXCEPT !.cancel = cancel])
    <3>1. PICK cancel \in BOOLEAN : Change(s, [provider[s] EXCEPT !.cancel = cancel])
      BY <2>3
    <3>2. /\ [provider[s] EXCEPT !.cancel = cancel] \in Snapshot
          /\ [provider[s] EXCEPT !.cancel = cancel].n = provider[s].n
      BY <1>a DEF Snapshot
    <3> QED BY <3>1, <3>2
  <2> QED BY <2>1, <2>2, <2>3 DEF ChangeSubscription
<1>2. /\ provider' \in [Subs -> Snapshot \cup {None}]
      /\ \A u \in Subs \ {s} : provider'[u] = provider[u]
      /\ provider'[s] \in Snapshot /\ Exists(s)'
      /\ provider[s].n \in Nat /\ provider'[s].n = provider[s].n + 1
      /\ events' \subseteq Event
      /\ \A e \in events' : e \in events \/ (e.sub = s /\ e.state = provider'[s])
      /\ ProviderGrows
  BY <1>a, <1>1, ChangeFrame
<1>3. TypeOK'
  BY <1>a, <1>b, <1>2 DEF TypeOK
<1> QED BY <1>a, <1>b, <1>2, <1>3, ProviderStep

\* The provider modifies the subscription that the request has read, or refuses.
LEMMA CallProviderStep ==
  ASSUME BInv, NEW t \in Threads, NEW op \in {"cancel", "resume"}, NEW cancel \in BOOLEAN,
         CallProvider(t, op, cancel)
  PROVE  BInv'
<1> DEFINE w == Request(op, "called", threads[t].plan, threads[t].seen)
<1>a. /\ TypeOK /\ row \in Columns \cup {None}
      /\ UNCHANGED <<row, assistants, checkouts, applied, disturbed, excused>>
      /\ checkouts \subseteq Checkout
  BY DEF BInv, TypeOK, CallProvider
<1>b. Owner(t) /\ threads[t].op = op /\ threads[t].at = "act"
  BY DEF CallProvider, At, Idle, Owner, Requests
<1>c. row # None /\ threads[t].seen # None /\ threads[t].seen.sub # None
  BY <1>b DEF BInv, ThreadHolds, OwnerHolds
<1>d. PICK s \in Subs : s = threads[t].seen.sub
  BY <1>a, <1>b, <1>c, Shapes DEF Columns, Linked
<1>1. CASE Done(t) /\ UNCHANGED <<provider, events>>
  <2>1. Turns(t, None) /\ ThreadHolds(t)'
    BY <1>a, <1>1, ServeTurns, RestHolds DEF Turns
  <2> QED BY <1>a, <1>1, <2>1, RequestStep DEF RowSame
<1>2. CASE /\ Runs(s) /\ Change(s, [provider[s] EXCEPT !.cancel = cancel])
           /\ threads' = [threads EXCEPT ![t].at = "called"]
  <2> DEFINE state == [provider[s] EXCEPT !.cancel = cancel]
  <2>1. Exists(s) /\ provider[s] \in Snapshot
    BY <1>a, <1>d, <1>2 DEF Runs, Exists, TypeOK
  <2>2. state \in Snapshot /\ state.n = provider[s].n
    BY <2>1 DEF Snapshot
  <2>3. /\ provider' \in [Subs -> Snapshot \cup {None}]
        /\ \A u \in Subs \ {s} : provider'[u] = provider[u]
        /\ provider'[s] \in Snapshot /\ Exists(s)'
        /\ provider[s].n \in Nat /\ provider'[s].n = provider[s].n + 1
        /\ events' \subseteq Event
        /\ \A e \in events' : e \in events \/ (e.sub = s /\ e.state = provider'[s])
        /\ ProviderGrows
    BY <1>a, <1>d, <1>2, <2>1, <2>2, ChangeFrame
  <2>4. Turns(t, w)
    BY <1>a, <1>b, <1>2, OwnerCalls
  <2>5. ThreadHolds(t)'
    BY <1>a, <1>b, <1>c, <2>4, <1>d, OwnerRests DEF Turns, Requests
  <2>6. TypeOK'
    BY <1>a, <2>3, <2>4 DEF TypeOK, Turns
  <2> QED BY <1>a, <1>d, <2>1, <2>3, <2>4, <2>5, <2>6, ProviderStep DEF Turns
<1> QED BY <1>d, <1>1, <1>2 DEF CallProvider

\* The commit after the provider's answer writes whether the plan ends, alone.
LEMMA CommitCancellationStep ==
  ASSUME BInv, NEW t \in Threads, NEW op \in {"cancel", "resume"}, NEW cancel \in BOOLEAN,
         CommitCancellation(t, op, cancel)
  PROVE  BInv'
<1> DEFINE seen == threads[t].seen
           next == [seen EXCEPT !.cancel = cancel]
<1>a. /\ TypeOK /\ Done(t) /\ checkouts \subseteq Checkout
      /\ UNCHANGED <<assistants, provider, checkouts, events, applied, disturbed, excused>>
      /\ Owner(t) /\ threads[t].at = "called" /\ row' = Written(next, seen)
  BY DEF BInv, TypeOK, CommitCancellation, At, Idle, Owner, Requests
<1>1. row \in Columns /\ row # None /\ seen \in Columns
  BY <1>a, Shapes DEF BInv, ThreadHolds, OwnerHolds, TypeOK
<1>2. next \in Columns /\ next.plan = seen.plan /\ next.status = seen.status /\ next.sub = seen.sub
  BY <1>1 DEF Columns
<1>3. RowSame /\ row' \in Columns
  BY <1>a, <1>1, <1>2, WrittenIs, NotNone DEF RowSame
<1>4. Turns(t, None) /\ ThreadHolds(t)'
  BY <1>a, ServeTurns, RestHolds DEF Turns
<1> QED BY <1>a, <1>3, <1>4, RequestStep

\* A completed checkout is a new subscription, told in two events.
LEMMA CompleteCheckoutStep ==
  ASSUME BInv, NEW s \in Subs, CompleteCheckout(s) PROVE BInv'
<1>a. /\ TypeOK /\ ~Exists(s)
      /\ UNCHANGED <<row, assistants, threads, applied, disturbed, excused>>
  BY DEF BInv, CompleteCheckout
<1>1. PICK c \in checkouts :
        LET made == [price |-> c.price, status |-> IF c.trial THEN "trialing" ELSE "active",
                     cancel |-> FALSE, n |-> 1] IN
        /\ checkouts' = checkouts \ {c}
        /\ provider' = [provider EXCEPT ![s] = made]
        /\ events' = events \cup {[kind |-> kind, sub |-> s, state |-> made] :
                                    kind \in {"checkout", "subscription"}}
  BY DEF CompleteCheckout
<1> DEFINE made == [price |-> c.price, status |-> IF c.trial THEN "trialing" ELSE "active",
                    cancel |-> FALSE, n |-> 1]
<1>2. made \in Snapshot /\ made.n = 1
  BY <1>a, BillingAssumption DEF Snapshot, Statuses, Checkout, TypeOK
<1> HIDE DEF made
<1>3. /\ provider' \in [Subs -> Snapshot \cup {None}] /\ provider'[s] = made
      /\ \A u \in Subs \ {s} : provider'[u] = provider[u]
  BY <1>a, <1>1, <1>2 DEF TypeOK, made
<1>4. \A e \in events' : e \in events \/ (e \in Event /\ e.sub = s /\ e.state = provider'[s])
  <2>1. ASSUME NEW kind \in {"checkout", "subscription"}
        PROVE  LET e == [kind |-> kind, sub |-> s, state |-> made] IN
               e \in Event /\ e.sub = s /\ e.state = made
    BY <1>2 DEF Event
  <2>2. events' = events \cup {[kind |-> kind, sub |-> s, state |-> made] :
                                 kind \in {"checkout", "subscription"}}
    BY <1>1 DEF made
  <2> QED BY <1>3, <2>1, <2>2
<1>5. TypeOK'
  <2>1. events' \subseteq Event
    BY <1>a, <1>4 DEF TypeOK
  <2>2. checkouts' \subseteq Checkout
    BY <1>a, <1>1 DEF TypeOK
  <2> QED BY <1>a, <1>3, <2>1, <2>2 DEF TypeOK
<1>6. Exists(s)'
  BY <1>2, <1>3, NotNone DEF Exists
<1>7. ProviderGrows
  BY <1>a, <1>3 DEF ProviderGrows, Exists
<1> QED BY <1>a, <1>2, <1>3, <1>4, <1>5, <1>6, <1>7, ProviderStep

-----------------------------------------------------------------------------
(* The webhook.                                                            *)

\* A delivery reads the row as it is now.
LEMMA ReceiveStep ==
  ASSUME BInv, NEW t \in Threads, NEW e \in events, Receive(t, e) PROVE BInv'
<1> DEFINE w == [op |-> "webhook", event |-> e, seen |-> row]
<1>a. /\ TypeOK /\ row # None /\ row \in Columns /\ Serve(t, w) /\ e \in Event /\ Faithful(e)
      /\ checkouts \subseteq Checkout
      /\ UNCHANGED <<row, assistants, provider, checkouts, events, applied, disturbed, excused>>
  BY DEF BInv, TypeOK, Receive
<1>1. w \in Work
  BY <1>a, Becomes
<1>2. Turns(t, w)
  BY <1>a, <1>1, ServeTurns
<1>3. ThreadHolds(t)'
  <2>1. threads'[t] = w /\ w.op = "webhook" /\ w.event = e /\ w.seen = row
    BY <1>2 DEF Turns
  <2>2. WebhookHolds(t)'
    BY <1>a, <2>1 DEF WebhookHolds, Faithful, Exists
  <2> QED BY <2>1, <2>2 DEF ThreadHolds, Owner, Assistant, Requests
<1> QED BY <1>a, <1>1, <1>2, <1>3, RequestStep DEF RowSame

\* What an event makes of the row, whatever its delivery had read.
LEMMA Applies ==
  ASSUME BInv, NEW t \in Threads, ApplyEvent(t)
  PROVE  /\ row \in Columns /\ row' \in Columns
         /\ threads[t].event \in Event
         /\ row'.sub = threads[t].event.sub \/ (row'.sub = row.sub /\ row.sub # None)
         /\ threads[t].event.kind = "checkout" => row'.plan = row.plan /\ row'.status = row.status
         /\ threads[t].event.kind = "subscription" /\ ~disturbed =>
              /\ PlanOf[threads[t].event.state.price] \in {None, row'.plan}
              /\ row'.status = threads[t].event.state.status
<1> DEFINE e == threads[t].event
           seen == threads[t].seen
           next == Effect(e, seen)
<1>1. /\ TypeOK /\ Webhook(t) /\ WebhookHolds(t) /\ row' = Written(next, seen)
      /\ row \in Columns /\ seen \in Columns /\ e \in Event
  BY Shapes DEF BInv, ThreadHolds, WebhookHolds, Webhook, ApplyEvent, Idle, TypeOK
<1>2. /\ next \in Columns /\ next.sub = e.sub
      /\ e.kind = "checkout" => next.plan = seen.plan /\ next.status = seen.status
      /\ e.kind = "subscription" =>
           PlanOf[e.state.price] \in {None, next.plan} /\ next.status = e.state.status
  BY <1>1, BillingAssumption DEF Effect, PlanAfter, Columns, Event, Snapshot, Linked
<1> HIDE DEF next
<1>3. e.sub # None
  BY <1>1, BillingAssumption DEF Event
<1> QED BY <1>1, <1>2, <1>3, WrittenIs DEF WebhookHolds

LEMMA ApplyEventStep ==
  ASSUME BInv, NEW t \in Threads, ApplyEvent(t) PROVE BInv'
<1>a. /\ TypeOK /\ Webhook(t) /\ Done(t)
      /\ UNCHANGED <<assistants, provider, checkouts>> /\ events' \subseteq events
      /\ excused' = IF row'.plan = row.plan THEN excused ELSE excused \cup {"replanned"}
  BY DEF BInv, ApplyEvent, Webhook, Idle
<1>b. PICK e \in Event : e = threads[t].event
  BY Applies
<1>c. /\ row \in Columns /\ row' \in Columns /\ row # None /\ row' # None
      /\ row'.sub = e.sub \/ (row'.sub = row.sub /\ row.sub # None)
      /\ e.kind = "checkout" => row'.plan = row.plan /\ row'.status = row.status
      /\ e.kind = "subscription" /\ ~disturbed =>
           PlanOf[e.state.price] \in {None, row'.plan} /\ row'.status = e.state.status
  BY <1>b, Applies, NotNone
<1>d. Faithful(e) /\ e.sub \in Subs /\ e.state.n \in 0 .. MaxEvents /\ e.kind \in {"checkout", "subscription"}
  BY <1>a, <1>b DEF BInv, ThreadHolds, WebhookHolds, Event, Snapshot
<1>e. IF e.kind = "subscription"
        THEN /\ disturbed' = (disturbed \/ e.state.n < applied[e.sub]
                                \/ \E u \in Threads \ {t} : ~Idle(u) /\ threads[u].op = "webhook")
             /\ applied' = [applied EXCEPT ![e.sub] = IF e.state.n > @ THEN e.state.n ELSE @]
        ELSE UNCHANGED <<disturbed, applied>>
  BY <1>b DEF ApplyEvent
<1>f. e.sub # None
  BY <1>d, BillingAssumption
<1>1. Turns(t, None) /\ ThreadHolds(t)'
  BY <1>a, ServeTurns, RestHolds DEF Turns
<1>2. disturbed' \in BOOLEAN /\ (disturbed => disturbed')
  <2>1. CASE e.kind = "subscription"
    BY <1>e, <2>1
  <2>2. CASE e.kind # "subscription"
    BY <1>a, <1>e, <2>2 DEF TypeOK
  <2> QED BY <2>1, <2>2
<1>3. /\ applied' \in [Subs -> 0 .. MaxEvents]
      /\ \A s \in Subs \ {e.sub} : applied'[s] = applied[s]
      /\ e.kind # "subscription" => applied'[e.sub] = applied[e.sub]
      /\ e.kind = "subscription" =>
           applied'[e.sub] = IF e.state.n > applied[e.sub] THEN e.state.n ELSE applied[e.sub]
  BY <1>a, <1>d, <1>e DEF TypeOK
<1>4. TypeOK'
  <2>1. excused' \subseteq Excuses
    BY <1>a DEF TypeOK, Excuses
  <2> QED BY <1>a, <1>c, <1>1, <1>2, <1>3, <2>1 DEF TypeOK, Turns
<1>5. RowGrows /\ ProviderGrows
  BY <1>a, <1>c, <1>f DEF RowGrows, ProviderGrows, Exists
<1>6. ASSUME NEW u \in Threads \ {t} PROVE ThreadHolds(u)'
  <2>1. threads'[u] = threads[u] /\ ThreadHolds(u)
    BY <1>1 DEF Turns, BInv
  <2>2. Webhook(u) /\ ~disturbed' => row'.plan = row.plan /\ row'.status = row.status
    BY <1>c, <1>d, <1>e DEF Webhook, Idle
  <2> QED BY <1>a, <1>2, <1>4, <1>5, <2>1, <2>2, ThreadStays
<1>7. ASSUME NEW x \in events' PROVE Faithful(x)'
  BY <1>a, <1>4, <1>5, FaithfulStays DEF BInv, TypeOK
<1>8. ASSUME NEW s \in Subs PROVE SubHolds(s)'
  <2>1. SubHolds(s) /\ applied[s] \in Nat /\ (Exists(s)' <=> Exists(s)) /\ provider' = provider
    BY <1>a DEF BInv, TypeOK, Exists
  <2>2. e.state.n <= provider[e.sub].n /\ Exists(e.sub)
    BY <1>d DEF Faithful
  <2> QED BY <1>3, <1>d, <2>1, <2>2 DEF SubHolds
<1>9. ASSUME NEW s \in Subs, ~disturbed', Sole(s)', applied'[s] = provider'[s].n
      PROVE  /\ row'.sub = s /\ row'.status = provider'[s].status
             /\ PlanOf[provider'[s].price] \in {None, row'.plan}
  <2>1. Sole(s) /\ e.sub = s /\ provider' = provider /\ ~disturbed
    BY <1>a, <1>d, <1>2, <1>9 DEF Sole, Exists, Faithful
  <2>2. row'.sub = s
    <3>1. row.sub # None => row.sub = s
      <4>1. row.sub \in Subs \cup {None}
        BY <1>c DEF Columns, Linked
      <4> QED BY <1>c, <2>1, <4>1 DEF BInv, Linking, Sole
    <3> QED BY <1>c, <2>1, <3>1
  <2>3. CASE e.kind = "checkout"
    BY <1>3, <1>9, <1>c, <2>1, <2>2, <2>3 DEF BInv, Agrees
  <2>4. CASE e.kind = "subscription"
    <3>1. ~(e.state.n < applied[s])
      BY <1>e, <1>9, <2>1, <2>4
    <3>a. applied[s] \in Nat /\ e.state.n \in Nat
      BY <1>a, <1>d DEF TypeOK
    <3>2. applied'[s] = e.state.n
      BY <1>3, <2>1, <2>4, <3>1, <3>a
    <3>3. e.state = provider[s]
      BY <1>d, <1>9, <2>1, <3>2 DEF Faithful
    <3> QED BY <1>c, <2>1, <2>2, <2>4, <3>3
  <2> QED BY <1>d, <2>3, <2>4
<1>10. Linking'
  BY <1>a, <1>c, <1>d DEF BInv, Linking, Faithful, Exists
<1>11. LimitHolds'
  BY <1>a, <1>c DEF BInv, LimitHolds
<1>12. \A u \in Threads : ThreadHolds(u)'
  BY <1>1, <1>6
<1>13. \A s \in Subs : Agrees(s)'
  BY <1>9, <1>c DEF Agrees
<1> QED BY <1>4, <1>7, <1>8, <1>10, <1>11, <1>12, <1>13 DEF BInv

\* A lost event is rolled back, answered, and disturbs the history.
LEMMA LoseEventStep ==
  ASSUME BInv, NEW t \in Threads, LoseEvent(t) PROVE BInv'
<1>a. /\ TypeOK /\ Done(t) /\ disturbed' /\ disturbed' \in BOOLEAN /\ events' \subseteq events
      /\ UNCHANGED <<row, assistants, provider, checkouts, applied, excused>>
  BY DEF BInv, LoseEvent
<1>1. Turns(t, None) /\ ThreadHolds(t)'
  BY <1>a, ServeTurns, RestHolds DEF Turns
<1>2. TypeOK'
  BY <1>a, <1>1 DEF TypeOK, Turns
<1>3. RowGrows /\ ProviderGrows
  BY <1>a DEF RowGrows, ProviderGrows, Exists
<1>4. ASSUME NEW u \in Threads \ {t} PROVE ThreadHolds(u)'
  BY <1>a, <1>1, <1>2, <1>3, ThreadStays DEF Turns, BInv
<1>5. \A e \in events' : Faithful(e)'
  BY <1>a DEF BInv, Faithful, Exists
<1>6. \A s \in Subs : SubHolds(s)' /\ Agrees(s)'
  BY <1>a DEF BInv, SubHolds, Agrees, Exists
<1>7. Linking' /\ LimitHolds'
  BY <1>a DEF BInv, Linking, LimitHolds, Exists
<1> QED BY <1>1, <1>2, <1>4, <1>5, <1>6, <1>7 DEF BInv

-----------------------------------------------------------------------------
(* Assistants.                                                             *)

\* A creation counts the assistants and reads the plan at one moment.
LEMMA AskAssistantStep ==
  ASSUME BInv, NEW t \in Threads, AskAssistant(t) PROVE BInv'
<1> DEFINE plan == IF row = None THEN None ELSE row.plan
           w == [op |-> "assistant", counted |-> assistants, plan |-> plan]
<1>a. /\ TypeOK /\ Serve(t, w) /\ row \in Columns \cup {None} /\ assistants \in 0 .. MaxAssistants
      /\ checkouts \subseteq Checkout
      /\ UNCHANGED <<row, assistants, provider, checkouts, events, applied, disturbed, excused>>
      /\ row # None => WithinLimit(row.plan, assistants)
  BY DEF BInv, TypeOK, AskAssistant
<1>1. plan \in Plans \cup {None} /\ (plan # None => row # None /\ WithinLimit(plan, assistants))
  BY <1>a DEF Columns
<1> HIDE DEF plan
<1>2. w \in Work
  BY <1>a, <1>1, Becomes
<1>3. Turns(t, w)
  BY <1>a, <1>2, ServeTurns
<1>4. ThreadHolds(t)'
  <2>1. threads'[t] = w /\ w.op = "assistant" /\ w.plan = plan /\ w.counted = assistants
    BY <1>3 DEF Turns
  <2>2. AssistantHolds(t)'
    BY <1>a, <1>1, <2>1 DEF AssistantHolds
  <2> QED BY <2>1, <2>2 DEF ThreadHolds, Webhook, Owner, Requests
<1> QED BY <1>a, <1>2, <1>3, <1>4, RequestStep DEF RowSame

\* A step that changes the number of assistants, and perhaps what excuses it.
LEMMA CountStep ==
  ASSUME BInv, assistants' \in 0 .. MaxAssistants, excused' \subseteq Excuses,
         UNCHANGED <<row, provider, checkouts, events, applied, disturbed>>, LimitHolds',
         threads' \in [Threads -> Work \cup {None}],
         \A u \in Threads : threads'[u] \in {threads[u], None}
  PROVE  BInv'
<1>a. TypeOK
  BY DEF BInv
<1>1. TypeOK'
  BY <1>a DEF TypeOK
<1>2. RowGrows /\ ProviderGrows
  BY <1>a DEF RowGrows, ProviderGrows, Exists
<1>3. ASSUME NEW u \in Threads PROVE ThreadHolds(u)'
  <2>1. CASE threads'[u] = None
    BY <2>1, RestHolds
  <2>2. CASE threads'[u] = threads[u]
    BY <1>a, <1>1, <1>2, <2>2, ThreadStays DEF BInv
  <2> QED BY <2>1, <2>2
<1>4. \A e \in events' : Faithful(e)'
  BY DEF BInv, Faithful, Exists
<1>5. \A s \in Subs : SubHolds(s)' /\ Agrees(s)'
  BY DEF BInv, SubHolds, Agrees, Sole, Exists
<1>6. Linking'
  BY DEF BInv, Linking, Exists
<1> QED BY <1>1, <1>3, <1>4, <1>5, <1>6 DEF BInv

\* Without an excuse, what the creation counted is what there is, and its plan
\* the row's.
LEMMA CreateAssistantStep ==
  ASSUME BInv, NEW t \in Threads, CreateAssistant(t) PROVE BInv'
<1>a. /\ TypeOK /\ Assistant(t) /\ Done(t)
      /\ assistants \in Nat /\ assistants' \in 0 .. MaxAssistants /\ assistants' = assistants + 1
      /\ UNCHANGED <<row, provider, checkouts, events, applied, disturbed>>
  BY BillingAssumption DEF BInv, TypeOK, CreateAssistant, Idle, Assistant
<1>b. excused' = excused \cup {x \in {"overlapped"} : threads[t].counted # assistants}
                         \cup {x \in {"unbilled"} : threads[t].plan = None}
                         \cup {x \in {"replanned"} : row # None /\ threads[t].plan # row.plan}
  BY DEF CreateAssistant
<1>1. excused' \subseteq Excuses
  BY <1>a, <1>b DEF TypeOK, Excuses
<1>2. LimitHolds'
  <2> SUFFICES ASSUME excused' = {}
               PROVE  row # None /\ NotAbove(row.plan, assistants + 1)
    BY <1>a DEF LimitHolds
  <2>1. threads[t].counted = assistants /\ threads[t].plan # None
        /\ (row # None => threads[t].plan = row.plan)
    BY <1>b
  <2>2. row # None /\ WithinLimit(row.plan, assistants)
    BY <1>a, <2>1 DEF BInv, ThreadHolds, AssistantHolds
  <2>3. row.plan \in Plans
    BY <1>a, <2>2 DEF TypeOK, Columns
  <2>4. Limit[row.plan] # Unlimited => Limit[row.plan] \in Nat
    BY <2>3, BillingAssumption
  <2> QED BY <1>a, <2>2, <2>4 DEF WithinLimit, NotAbove
<1>3. Turns(t, None)
  BY <1>a, ServeTurns
<1> QED BY <1>a, <1>1, <1>2, <1>3, CountStep DEF Turns

\* A copy is made without a look at the limit, and says so.
LEMMA DuplicateAssistantStep ==
  ASSUME BInv, DuplicateAssistant PROVE BInv'
<1>1. /\ assistants' \in 0 .. MaxAssistants /\ excused' \subseteq Excuses /\ excused' # {}
      /\ UNCHANGED <<row, provider, checkouts, events, threads, applied, disturbed>>
      /\ threads \in [Threads -> Work \cup {None}]
  BY BillingAssumption DEF BInv, TypeOK, DuplicateAssistant, Excuses
<1>2. LimitHolds'
  BY <1>1 DEF LimitHolds
<1> QED BY <1>1, <1>2, CountStep

LEMMA ArchiveAssistantStep ==
  ASSUME BInv, ArchiveAssistant PROVE BInv'
<1>1. /\ assistants \in Nat /\ assistants' = assistants - 1 /\ assistants > 0
      /\ assistants' \in 0 .. MaxAssistants /\ excused' = excused /\ excused' \subseteq Excuses
      /\ UNCHANGED <<row, provider, checkouts, events, threads, applied, disturbed>>
      /\ threads \in [Threads -> Work \cup {None}]
  BY BillingAssumption DEF BInv, TypeOK, ArchiveAssistant
<1>2. LimitHolds'
  <2> SUFFICES ASSUME excused = {}, row # None PROVE NotAbove(row.plan, assistants - 1)
    BY <1>1 DEF BInv, LimitHolds
  <2>1. NotAbove(row.plan, assistants) /\ row.plan \in Plans
    BY DEF BInv, LimitHolds, TypeOK, Columns
  <2>2. Limit[row.plan] # Unlimited => Limit[row.plan] \in Nat
    BY <2>1, BillingAssumption
  <2> QED BY <1>1, <2>1, <2>2 DEF NotAbove
<1> QED BY <1>1, <1>2, CountStep

\* A process that dies leaves the row as it is.
LEMMA DieStep ==
  ASSUME BInv, NEW t \in Threads, Die(t) PROVE BInv'
<1>1. /\ TypeOK /\ Done(t) /\ row \in Columns \cup {None}
      /\ checkouts \subseteq Checkout
      /\ UNCHANGED <<row, assistants, provider, checkouts, events, applied, disturbed, excused>>
  BY DEF BInv, TypeOK, Die
<1>2. Turns(t, None) /\ ThreadHolds(t)'
  BY <1>1, ServeTurns, RestHolds DEF Turns
<1> QED BY <1>1, <1>2, RequestStep DEF RowSame

-----------------------------------------------------------------------------
(* The theorems.                                                           *)

LEMMA InitBInv == Init => BInv
<1> SUFFICES ASSUME Init PROVE BInv
  OBVIOUS
<1>1. TypeOK
  <2>1. row \in Columns \cup {None} /\ assistants \in 0 .. MaxAssistants
    BY BillingAssumption, TrialIs DEF Init
  <2>2. provider \in [Subs -> Snapshot \cup {None}] /\ threads \in [Threads -> Work \cup {None}]
    BY DEF Init
  <2>3. applied \in [Subs -> 0 .. MaxEvents]
    BY BillingAssumption DEF Init
  <2> QED BY <2>1, <2>2, <2>3 DEF Init, TypeOK
<1>2. \A t \in Threads : ThreadHolds(t)
  BY DEF Init, ThreadHolds, Webhook, Owner, Assistant
<1>3. \A s \in Subs : SubHolds(s) /\ Agrees(s)
  BY DEF Init, SubHolds, Agrees, Sole, Exists
<1>4. (\A e \in events : Faithful(e)) /\ Linking
  BY TrialIs DEF Init, Linking
<1>5. LimitHolds
  <2>1. Limit[Starter] # Unlimited => Limit[Starter] \in Nat
    BY BillingAssumption
  <2> QED BY <2>1, TrialIs DEF Init, LimitHolds, NotAbove
<1> QED BY <1>1, <1>2, <1>3, <1>4, <1>5 DEF BInv

LEMMA NextBInv == ASSUME BInv, [Next]_vars PROVE BInv'
<1>1. CASE UNCHANGED vars
  BY <1>1 DEF BInv, TypeOK, ThreadHolds, Webhook, Owner, Assistant, WebhookHolds, OwnerHolds,
     AssistantHolds, Faithful, SubHolds, Agrees, Sole, Linking, LimitHolds, Exists, vars
<1>2. ASSUME NEW t \in Threads, NEW op \in Requests, NEW plan \in Plans \cup {None},
             FindSubscription(t, op, plan)
      PROVE  BInv'
  BY <1>2, FindSubscriptionStep
<1>3. ASSUME NEW t \in Threads,
             \/ StartTrial(t) \/ EnsureCustomer(t) \/ OpenCheckout(t)
             \/ CallProvider(t, "cancel", TRUE) \/ CommitCancellation(t, "cancel", TRUE)
             \/ CallProvider(t, "resume", FALSE) \/ CommitCancellation(t, "resume", FALSE)
      PROVE  BInv'
  BY <1>3, StartTrialStep, EnsureCustomerStep, OpenCheckoutStep, CallProviderStep, CommitCancellationStep
<1>4. ASSUME NEW t \in Threads,
             \/ \E e \in events : Receive(t, e)
             \/ ApplyEvent(t) \/ LoseEvent(t)
      PROVE  BInv'
  BY <1>4, ReceiveStep, ApplyEventStep, LoseEventStep
<1>5. ASSUME NEW t \in Threads, AskAssistant(t) \/ CreateAssistant(t) \/ Die(t) PROVE BInv'
  BY <1>5, AskAssistantStep, CreateAssistantStep, DieStep
<1>6. ASSUME NEW s \in Subs, CompleteCheckout(s) \/ ChangeSubscription(s) PROVE BInv'
  BY <1>6, CompleteCheckoutStep, ChangeSubscriptionStep
<1> QED BY <1>1, <1>2, <1>3, <1>4, <1>5, <1>6, DuplicateAssistantStep, ArchiveAssistantStep DEF Next

\* What the row, the provider, the deliveries and the requests under way rely on of
\* one another holds in every state.
THEOREM BillingInvariance == Spec => []BInv
  BY InitBInv, NextBInv, PTL DEF Spec

\* The shapes of the row, of the events and of the requests under way.
THEOREM BillingTypes == Spec => []TypeOK
<1>1. BInv => TypeOK
  BY DEF BInv
<1> QED BY <1>1, BillingInvariance, PTL

\* The row agrees with the provider once all is told in order: no request of the
\* owner undoes the plan or the status that an event brought.
THEOREM InOrder == Spec => []InOrderAgreement
<1>1. BInv => InOrderAgreement
  BY DEF BInv, Agrees, Sole, InOrderAgreement
<1> QED BY <1>1, BillingInvariance, PTL

\* Every excess over a plan's limit has one of the four reasons.
THEOREM Excess == Spec => []ExcessIsExplained
<1>1. BInv => ExcessIsExplained
  BY DEF BInv, LimitHolds, ExcessIsExplained
<1> QED BY <1>1, BillingInvariance, PTL

-----------------------------------------------------------------------------
(***************************************************************************)
(* The release gate.                                                       *)
(*                                                                         *)
(* The gate reads the run, the candidates, the latest bump and the latest  *)
(* report in four statements, and promotions commit between them.  What it *)
(* has read stays true of what it was read from (WorkHolds): what the gate *)
(* owes is the case of a candidate whose acceptance stands, since no two   *)
(* candidates have one case (Owed), bumps are only appended, and a run     *)
(* labelled with a version covers it, since versions are read before cases *)
(* and promotions commit the case with the bump (Covers).                  *)
(***************************************************************************)
\* A version that the dataset has had.
Known(v) == v = 1 \/ \E i \in DOMAIN bumps : bumps[i].to = v

\* The cases promoted up to the first bump to the version are among these.
Covers(v, cases) ==
  \A i, first \in DOMAIN bumps :
    /\ bumps[first].to = v
    /\ \A j \in 1 .. first - 1 : bumps[j].to # v
    /\ i <= first
    => bumps[i].case \in cases

\* Whoever has one of these cases is accepted.
Owed(required) ==
  \A c \in Candidates : cands[c].case # GateNone /\ cands[c].case \in required => cands[c].accepted

Required(required, passed) ==
  \A c \in Candidates : Gate!Promoted(c) /\ cands[c].case \in required => cands[c].case \in passed

\* What a process has read is still true of what it was read from.
WorkHolds(w) ==
  /\ w.op = "promote" /\ w.version # GateNone => w.version <= 1 + dataset.size
  /\ w.op = "run" => Known(w.version) /\ (w.full => Covers(w.version, w.todo))
  /\ w.op = "gate" =>
       /\ w.required \subseteq 1 .. dataset.size /\ Owed(w.required)
       /\ w.at \in {"event", "report"} => Required(w.required, w.run.passed)

DatasetHolds ==
  /\ dataset.version <= 1 + dataset.size
  /\ IF bumps = <<>> THEN dataset.version = 1 ELSE dataset.version = bumps[Len(bumps)].to
  /\ \A i \in DOMAIN bumps : bumps[i].to >= 2 /\ bumps[i].case <= dataset.size
  /\ \A c \in Candidates : cands[c].case # GateNone => cands[c].case <= dataset.size
  /\ \A c, d \in Candidates : cands[c].case # GateNone /\ cands[c].case = cands[d].case => c = d

EInv ==
  /\ Gate!TypeOK
  /\ DatasetHolds
  /\ \A t \in Workers : ~Gate!Idle(t) => WorkHolds(workers[t])
  /\ latest # GateNone => Known(latest.label) /\ (latest.full => Covers(latest.label, latest.cases))
  /\ slipped = {}

-----------------------------------------------------------------------------
\* What the types say.
LEMMA WorkerTypes ==
  ASSUME Gate!TypeOK, NEW t \in Workers
  PROVE  /\ Gate!Does(t, "promote") =>
              workers[t] \in [op : {"promote"}, candidate : Candidates, began : Gate!Times,
                              version : Gate!Versions \cup {GateNone}]
         /\ Gate!Does(t, "run") =>
              workers[t] \in [op : {"run"}, version : Gate!Versions, todo : SUBSET Gate!Cases, full : BOOLEAN]
         /\ Gate!Does(t, "report") => workers[t] \in [op : {"report"}, began : Gate!Times]
         /\ Gate!Does(t, "gate") =>
              workers[t] \in [op : {"gate"}, at : {"run", "candidates", "event", "report"},
                              version : Gate!Versions, required : SUBSET Gate!Cases, run : Gate!Run \cup {GateNone},
                              since : Gate!Times]
BY DEF Gate!TypeOK, Gate!Does, Gate!Idle, Gate!Work

LEMMA EventTypes ==
  ASSUME Gate!TypeOK
  PROVE  \A i \in DOMAIN bumps : bumps[i] \in Gate!Event
BY DEF Gate!TypeOK

\* The events have a latest.
LEMMA LatestBumpType ==
  ASSUME Gate!Admissible, Gate!TypeOK
  PROVE  Gate!LatestBump \in Gate!Times
<1> DEFINE S == {bumps[i].createdAt : i \in DOMAIN bumps}
<1>1. S \subseteq 0 .. MaxTicks /\ MaxTicks \in Nat
  BY EventTypes DEF Gate!Admissible, Gate!Event, Gate!Times
<1>2. CASE bumps = <<>>
  BY <1>1, <1>2 DEF Gate!LatestBump, Gate!Times
<1>3. CASE bumps # <<>>
  <2>1. 1 \in DOMAIN bumps
    BY <1>3 DEF Gate!TypeOK
  <2>2. S # {}
    BY <2>1
  <2> DEFINE Left == {n \in Nat : MaxTicks - n \in S}
  <2>3. Left # {}
    <3>1. PICK n \in S : TRUE
      BY <2>2
    <3>2. n \in Nat /\ n <= MaxTicks
      BY <1>1
    <3>3. MaxTicks - n \in Nat /\ MaxTicks - (MaxTicks - n) = n
      BY <1>1, <3>2
    <3> QED
      BY <3>1, <3>3
  <2>4. PICK l \in Left : \A m \in Left : l <= m
    <3>1. PICK l \in Left : \A m \in Left : <<m, l>> \notin OpToRel(<, Nat)
      <4> HIDE DEF Left
      <4>1. Left \subseteq Nat
        BY DEF Left
      <4> QED
        BY <2>3, <4>1, NatLessThanWellFounded, WFMin
    <3>2. ASSUME NEW m \in Left PROVE l <= m
      <4>1. l \in Nat /\ m \in Nat
        OBVIOUS
      <4>2. ~(m < l)
        BY <3>1, <4>1, Zenon DEF OpToRel
      <4> QED
        BY <4>1, <4>2
    <3> QED
      BY <3>1, <3>2
  <2>5. MaxTicks - l \in S /\ \A n \in S : n <= MaxTicks - l
    <3>1. ASSUME NEW n \in S PROVE n <= MaxTicks - l
      <4>1. n \in Nat /\ n <= MaxTicks
        BY <1>1
      <4>2. MaxTicks - n \in Nat /\ MaxTicks - (MaxTicks - n) = n
        BY <1>1, <4>1
      <4>3. l <= MaxTicks - n
        BY <2>4, <4>2
      <4> QED
        BY <1>1, <4>1, <4>3
    <3> QED
      BY <3>1
  <2>6. \A i \in DOMAIN bumps : bumps[i].createdAt <= MaxTicks - l
    BY <2>5
  <2>7. Gate!LatestBump \in S
    BY <1>3, <2>5, <2>6 DEF Gate!LatestBump
  <2> QED
    BY <1>1, <2>7 DEF Gate!Times
<1> QED
  BY <1>2, <1>3

-----------------------------------------------------------------------------
(* The steps.                                                              *)

\* A process goes on to other work and nothing it or the others rely on changes.
LEMMA TurnKeeps ==
  ASSUME EInv, NEW t \in Workers, NEW w \in Gate!Work \cup {GateNone}, Gate!Turn(t, w),
         w # GateNone => WorkHolds(w),
         clock' \in Gate!Times, reported' \in Gate!Times, UNCHANGED <<dataset, cands, bumps, latest, slipped>>
  PROVE  EInv'
<1>1. Gate!TypeOK'
  BY DEF EInv, Gate!TypeOK, Gate!Turn
<1>2. DatasetHolds'
  BY DEF EInv, DatasetHolds
<1>3. ASSUME NEW q \in Workers, ~Gate!Idle(q)' PROVE WorkHolds(workers[q])'
  <2>1. workers'[q] = IF q = t THEN w ELSE workers[q]
    BY DEF EInv, Gate!TypeOK, Gate!Turn
  <2>2. workers'[q] # GateNone /\ WorkHolds(workers'[q])
    BY <1>3, <2>1 DEF EInv, Gate!Idle
  <2> QED
    BY <2>2 DEF WorkHolds, Known, Covers, Owed, Required, Gate!Promoted
<1>4. (latest # GateNone => Known(latest.label) /\ (latest.full => Covers(latest.label, latest.cases)))'
  BY DEF EInv, Known, Covers
<1> QED
  BY <1>1, <1>2, <1>3, <1>4 DEF EInv

\* The time goes on within its bound.
LEMMA TickType ==
  ASSUME Gate!Admissible, Gate!TypeOK, Gate!Tick
  PROVE  clock' \in Gate!Times
BY DEF Gate!Admissible, Gate!TypeOK, Gate!Tick, Gate!Times

\* A withdrawn candidate's case is owed no more, and a gate's other work stays.
LEMMA WithdrawKeeps ==
  ASSUME EInv, NEW c \in Candidates, Gate!Withdraw(c)
  PROVE  EInv'
<1>1. /\ \A d \in Candidates : cands'[d].case = cands[d].case /\ (d # c => cands'[d].accepted = cands[d].accepted)
      /\ \A d \in Candidates : cands'[d].accepted => cands[d].accepted
      /\ UNCHANGED <<dataset, bumps, latest, reported, clock, slipped>>
  BY DEF EInv, Gate!TypeOK, Gate!Withdraw
<1>2. ASSUME NEW t \in Workers
      PROVE  \/ Gate!Does(t, "gate") /\ workers'[t] = [workers[t] EXCEPT !.required = @ \ {cands[c].case}]
             \/ ~Gate!Does(t, "gate") /\ workers'[t] = workers[t]
  BY DEF EInv, Gate!Withdraw
<1>3. Gate!TypeOK'
  <2>1. cands' \in [Candidates -> [accepted : BOOLEAN, case : Gate!Cases \cup {GateNone}]]
    BY DEF EInv, Gate!TypeOK, Gate!Withdraw
  <2>2. ASSUME NEW t \in Workers PROVE workers'[t] \in Gate!Work \cup {GateNone}
    <3>1. CASE Gate!Does(t, "gate")
      <4>1. workers[t] \in [op : {"gate"}, at : {"run", "candidates", "event", "report"},
                            version : Gate!Versions, required : SUBSET Gate!Cases,
                            run : Gate!Run \cup {GateNone}, since : Gate!Times]
        BY <3>1, WorkerTypes DEF EInv
      <4>2. workers'[t] = [workers[t] EXCEPT !.required = @ \ {cands[c].case}]
        BY <1>2, <3>1
      <4>3. workers'[t] \in [op : {"gate"}, at : {"run", "candidates", "event", "report"},
                            version : Gate!Versions, required : SUBSET Gate!Cases,
                            run : Gate!Run \cup {GateNone}, since : Gate!Times]
        BY <4>1, <4>2
      <4> QED
        BY <4>3 DEF Gate!Work
    <3>2. CASE ~Gate!Does(t, "gate")
      BY <1>2, <3>2 DEF EInv, Gate!TypeOK
    <3> QED
      BY <3>1, <3>2
  <2>3. workers' \in [Workers -> Gate!Work \cup {GateNone}]
    BY <2>2 DEF Gate!Withdraw
  <2> QED
    BY <1>1, <2>1, <2>3 DEF EInv, Gate!TypeOK
<1>4. DatasetHolds'
  BY <1>1 DEF EInv, DatasetHolds
<1>5. ASSUME NEW t \in Workers, ~Gate!Idle(t)' PROVE WorkHolds(workers[t])'
  <2>1. CASE Gate!Does(t, "gate")
    <3>1. workers[t] \in [op : {"gate"}, at : {"run", "candidates", "event", "report"},
                          version : Gate!Versions, required : SUBSET Gate!Cases,
                          run : Gate!Run \cup {GateNone}, since : Gate!Times]
      BY <2>1, WorkerTypes DEF EInv
    <3>2. /\ workers'[t].op = "gate" /\ workers'[t].at = workers[t].at /\ workers'[t].run = workers[t].run
          /\ workers'[t].required = workers[t].required \ {cands[c].case}
      BY <1>2, <2>1, <3>1
    <3>3. WorkHolds(workers[t]) /\ workers[t].op = "gate"
      BY <2>1, <3>1 DEF EInv, Gate!Does
    <3>4. ASSUME NEW required, NEW left, NEW passed, left = required \ {cands[c].case}
          PROVE  /\ Owed(required) => Owed(left)'
                 /\ Required(required, passed) => Required(left, passed)'
      BY <1>1, <3>4 DEF Owed, Required, Gate!Promoted
    <3>5. PICK left, passed : left = workers'[t].required /\ passed = workers'[t].run.passed
      OBVIOUS
    <3>6. Owed(left)' /\ (workers'[t].at \in {"event", "report"} => Required(left, passed)')
      BY <3>2, <3>3, <3>4, <3>5 DEF WorkHolds
    <3> QED
      BY <1>1, <3>2, <3>3, <3>5, <3>6 DEF WorkHolds
  <2>2. CASE ~Gate!Does(t, "gate")
    <3>1. workers'[t] = workers[t] /\ ~Gate!Idle(t) /\ workers[t].op # "gate"
      BY <1>2, <1>5, <2>2 DEF Gate!Does, Gate!Idle
    <3>2. WorkHolds(workers[t])
      BY <3>1 DEF EInv
    <3> QED
      BY <1>1, <3>1, <3>2 DEF WorkHolds, Known, Covers
  <2> QED
    BY <2>1, <2>2
<1>6. (latest # GateNone => Known(latest.label) /\ (latest.full => Covers(latest.label, latest.cases)))'
  BY <1>1 DEF EInv, Known, Covers
<1> QED
  BY <1>1, <1>3, <1>4, <1>5, <1>6 DEF EInv

\* Nobody owes the case of a candidate that was not accepted, so that its acceptance
\* changes nothing for the gates under way.
LEMMA AcceptKeeps ==
  ASSUME EInv, NEW c \in Candidates, Gate!Accept(c)
  PROVE  EInv'
<1>1. /\ \A d \in Candidates : cands'[d].case = cands[d].case /\ (cands[d].accepted => cands'[d].accepted)
      /\ UNCHANGED <<dataset, bumps, latest, reported, workers, clock, slipped>>
  BY DEF EInv, Gate!TypeOK, Gate!Accept
<1>2. Gate!TypeOK'
  BY DEF EInv, Gate!TypeOK, Gate!Accept
<1>3. DatasetHolds'
  BY <1>1 DEF EInv, DatasetHolds
<1>4. ASSUME NEW t \in Workers, ~Gate!Idle(t)' PROVE WorkHolds(workers[t])'
  <2>1. WorkHolds(workers[t])
    BY <1>1, <1>4 DEF EInv, Gate!Idle
  <2> QED
    BY <1>1, <2>1 DEF WorkHolds, Known, Covers, Owed, Required, Gate!Promoted
<1>5. (latest # GateNone => Known(latest.label) /\ (latest.full => Covers(latest.label, latest.cases)))'
  BY <1>1 DEF EInv, Known, Covers
<1> QED
  BY <1>1, <1>2, <1>3, <1>4, <1>5 DEF EInv

LEMMA CreateCaseKeeps ==
  ASSUME Gate!Admissible, EInv, Gate!CreateCase
  PROVE  EInv'
<1>1. /\ dataset.size \in Nat /\ dataset.version \in Nat
      /\ dataset' \in [version : Gate!Versions, size : 0 .. MaxCases]
      /\ dataset'.version = dataset.version /\ dataset'.size = dataset.size + 1
  BY DEF Gate!Admissible, EInv, Gate!TypeOK, Gate!CreateCase, Gate!Versions
<1>2. Gate!TypeOK'
  BY <1>1 DEF EInv, Gate!TypeOK, Gate!CreateCase
<1>3. DatasetHolds'
  <2>1. \A i \in DOMAIN bumps : bumps[i].case \in Nat
    BY EventTypes DEF EInv, Gate!Event, Gate!Cases
  <2>2. \A c \in Candidates : cands[c].case # GateNone => cands[c].case \in Nat
    BY DEF EInv, Gate!TypeOK, Gate!Cases
  <2> QED
    BY <1>1, <2>1, <2>2 DEF EInv, DatasetHolds, Gate!CreateCase
<1>4. ASSUME NEW t \in Workers, ~Gate!Idle(t)' PROVE WorkHolds(workers[t])'
  <2>1. WorkHolds(workers[t]) /\ ~Gate!Idle(t) /\ UNCHANGED <<workers, bumps, cands>>
    BY <1>4 DEF EInv, Gate!CreateCase, Gate!Idle
  <2>2. workers[t].op = "promote" /\ workers[t].version # GateNone => workers[t].version \in Nat
    BY <2>1, WorkerTypes DEF EInv, Gate!Does, Gate!Versions
  <2> QED
    BY <1>1, <2>1, <2>2 DEF WorkHolds, Known, Covers, Owed, Required, Gate!Promoted
<1>5. (latest # GateNone => Known(latest.label) /\ (latest.full => Covers(latest.label, latest.cases)))'
  BY DEF EInv, Gate!CreateCase, Known, Covers
<1> QED
  BY <1>2, <1>3, <1>4, <1>5 DEF EInv, Gate!CreateCase


\* A promotion adds an event behind the others and a case that nobody has required.
LEMMA CommitPromotionKeeps ==
  ASSUME Gate!Admissible, EInv, NEW t \in Workers, Gate!CommitPromotion(t)
  PROVE  EInv'
<1> DEFINE w == workers[t]
           new == [from |-> w.version, to |-> w.version + 1, case |-> dataset.size + 1,
                   createdAt |-> w.began]
<1>1. /\ w \in [op : {"promote"}, candidate : Candidates, began : Gate!Times,
                version : Gate!Versions \cup {GateNone}]
      /\ w.version \in Gate!Versions /\ w.version <= 1 + dataset.size
      /\ dataset.size \in Nat /\ dataset.size < MaxCases /\ MaxCases \in Nat
  <2>1. Gate!Does(t, "promote") /\ w.version # GateNone /\ Gate!TypeOK /\ ~Gate!Idle(t)
    BY DEF Gate!CommitPromotion, EInv, Gate!Does
  <2>2. w \in [op : {"promote"}, candidate : Candidates, began : Gate!Times,
               version : Gate!Versions \cup {GateNone}]
    BY <2>1, WorkerTypes
  <2> QED
    BY <2>1, <2>2 DEF EInv, WorkHolds, Gate!CommitPromotion, Gate!Admissible, Gate!TypeOK
<1>2. /\ dataset' = [version |-> w.version + 1, size |-> dataset.size + 1]
      /\ bumps' = Append(bumps, new)
      /\ cands' = [cands EXCEPT ![w.candidate].case = dataset.size + 1]
      /\ workers' = [workers EXCEPT ![t] = GateNone]
      /\ UNCHANGED <<latest, reported, clock, slipped>>
  BY DEF Gate!CommitPromotion, Gate!Done, Gate!Turn
<1>3. new \in Gate!Event /\ w.version + 1 \in Gate!Versions /\ dataset.size + 1 \in Gate!Cases
  BY <1>1 DEF Gate!Event, Gate!Versions, Gate!Cases
<1>4. /\ bumps \in Seq(Gate!Event) /\ Len(bumps) \in Nat /\ bumps' \in Seq(Gate!Event)
      /\ Len(bumps') = Len(bumps) + 1 /\ bumps'[Len(bumps) + 1] = new
      /\ \A j \in 1 .. Len(bumps) : bumps'[j] = bumps[j]
      /\ DOMAIN bumps = 1 .. Len(bumps) /\ DOMAIN bumps' = 1 .. Len(bumps) + 1
  <2> HIDE DEF new
  <2> QED
    BY <1>2, <1>3 DEF EInv, Gate!TypeOK
<1>5. \A c \in Candidates :
        /\ cands'[c].case = IF c = w.candidate THEN dataset.size + 1 ELSE cands[c].case
        /\ cands'[c].accepted = cands[c].accepted
  BY <1>1, <1>2 DEF EInv, Gate!TypeOK
<1>6. Gate!TypeOK'
  <2>1. dataset' \in [version : Gate!Versions, size : 0 .. MaxCases]
    <3>1. dataset.size + 1 \in 0 .. MaxCases
      BY <1>1
    <3> QED
      BY <1>2, <1>3, <3>1
  <2>2. cands' \in [Candidates -> [accepted : BOOLEAN, case : Gate!Cases \cup {GateNone}]]
    <3>1. cands \in [Candidates -> [accepted : BOOLEAN, case : Gate!Cases \cup {GateNone}]]
      BY DEF EInv, Gate!TypeOK
    <3>2. PICK c \in Candidates, n \in Gate!Cases : c = w.candidate /\ n = dataset.size + 1
      BY <1>1, <1>3
    <3>3. cands' = [cands EXCEPT ![c].case = n]
      BY <1>2, <3>2
    <3> QED
      BY <3>1, <3>3
  <2> QED
    BY <1>2, <1>4, <2>1, <2>2 DEF EInv, Gate!TypeOK
<1>7. DatasetHolds'
  <2>1. dataset'.version = w.version + 1 /\ dataset'.size = dataset.size + 1
    BY <1>2
  <2>2. w.version \in Nat /\ w.version >= 1
    BY <1>1, SMT DEF Gate!Versions
  <2>3. dataset'.version <= 1 + dataset'.size
    BY <1>1, <2>1, <2>2
  <2>4. bumps' # <<>> /\ dataset'.version = bumps'[Len(bumps')].to
    BY <1>4, <2>1
  <2>5. ASSUME NEW i \in DOMAIN bumps' PROVE bumps'[i].to >= 2 /\ bumps'[i].case <= dataset'.size
    <3>1. CASE i = Len(bumps) + 1
      BY <1>1, <1>4, <2>1, <2>2, <3>1
    <3>2. CASE i \in DOMAIN bumps
      <4>1. bumps[i].case \in Nat /\ bumps[i].case <= dataset.size /\ bumps[i].to >= 2
        BY <3>2, EventTypes DEF EInv, DatasetHolds, Gate!Event, Gate!Cases
      <4> QED
        BY <1>1, <1>4, <2>1, <3>2, <4>1
    <3> QED
      BY <1>4, <3>1, <3>2
  <2>6. ASSUME NEW c \in Candidates, cands'[c].case # GateNone PROVE cands'[c].case <= dataset'.size
    <3>1. cands[c].case # GateNone => cands[c].case \in Nat /\ cands[c].case <= dataset.size
      BY DEF EInv, Gate!TypeOK, DatasetHolds, Gate!Cases
    <3> QED
      BY <1>1, <1>5, <2>1, <2>6, <3>1
  <2>7. ASSUME NEW c \in Candidates, NEW d \in Candidates, cands'[c].case # GateNone, cands'[c].case = cands'[d].case
        PROVE  c = d
    <3>1. ASSUME NEW e \in Candidates PROVE cands[e].case # dataset.size + 1 \/ cands[e].case = GateNone
      <4>1. cands[e].case # GateNone => cands[e].case \in Nat /\ cands[e].case <= dataset.size
        BY DEF EInv, Gate!TypeOK, DatasetHolds, Gate!Cases
      <4> QED
        BY <1>1, <4>1
    <3> QED
      BY <1>5, <2>7, <3>1 DEF EInv, DatasetHolds
  <2> QED
    BY <2>3, <2>4, <2>5, <2>6, <2>7 DEF DatasetHolds
<1>8. ASSUME NEW v, Known(v) PROVE Known(v)'
  BY <1>4, <1>8 DEF Known
<1>9. ASSUME NEW v \in Gate!Versions, NEW cases, Known(v), Covers(v, cases) PROVE Covers(v, cases)'
  <2> SUFFICES ASSUME NEW i \in DOMAIN bumps', NEW first \in DOMAIN bumps',
                      bumps'[first].to = v, \A j \in 1 .. first - 1 : bumps'[j].to # v, i <= first
               PROVE  bumps'[i].case \in cases
    BY DEF Covers
  <2>1. first \in DOMAIN bumps
    <3>1. CASE v = 1
      <4>1. bumps'[first].to >= 2
        BY <1>7 DEF DatasetHolds
      <4> QED
        BY <3>1, <4>1
    <3>2. CASE v # 1
      <4>1. PICK n \in DOMAIN bumps : bumps[n].to = v
        BY <1>9, <3>2 DEF Known
      <4>2. ~(n \in 1 .. first - 1)
        BY <1>4, <4>1
      <4> QED
        BY <1>4, <4>1, <4>2
    <3> QED
      BY <3>1, <3>2
  <2>2. i \in DOMAIN bumps
    BY <1>4, <2>1
  <2>3. \A j \in 1 .. first - 1 : bumps[j].to # v
    BY <1>4, <2>1
  <2> QED
    BY <1>4, <1>9, <2>1, <2>2, <2>3 DEF Covers
<1>10. ASSUME NEW required, NEW passed, required \subseteq 1 .. dataset.size
       PROVE  /\ Required(required, passed) => Required(required, passed)'
              /\ Owed(required) => Owed(required)' /\ required \subseteq 1 .. dataset'.size
  <2>1. dataset'.size = dataset.size + 1 /\ dataset.size + 1 \notin required
    BY <1>1, <1>2, <1>10
  <2>2. required \subseteq 1 .. dataset'.size
    BY <1>1, <1>10, <2>1
  <2>3. \A c \in Candidates :
          cands'[c].case \in required => cands'[c].case = cands[c].case /\ cands'[c].accepted = cands[c].accepted
    BY <1>5, <2>1
  <2> QED
    BY <2>2, <2>3 DEF Owed, Required, Gate!Promoted
<1>11. ASSUME NEW q \in Workers, ~Gate!Idle(q)' PROVE WorkHolds(workers[q])'
  <2>1. q # t /\ workers'[q] = workers[q] /\ ~Gate!Idle(q) /\ WorkHolds(workers[q])
    BY <1>2, <1>11 DEF EInv, Gate!TypeOK, Gate!Idle
  <2>2. CASE workers[q].op = "promote"
    <3>1. workers[q].version # GateNone => workers[q].version \in Nat
      BY <2>1, <2>2, WorkerTypes DEF EInv, Gate!Does, Gate!Versions
    <3>2. workers[q].version # GateNone => workers[q].version <= 1 + dataset'.size
      BY <1>1, <1>2, <2>1, <2>2, <3>1 DEF WorkHolds
    <3> QED
      BY <2>1, <2>2, <3>2 DEF WorkHolds
  <2>3. CASE workers[q].op = "run"
    <3>1. workers[q].version \in Gate!Versions
      BY <2>1, <2>3, WorkerTypes DEF EInv, Gate!Does
    <3> QED
      BY <1>8, <1>9, <2>1, <2>3, <3>1 DEF WorkHolds
  <2>4. CASE workers[q].op = "gate"
    <3>1. workers[q].required \subseteq 1 .. dataset.size /\ Owed(workers[q].required)
      BY <2>1, <2>4 DEF WorkHolds
    <3> QED
      BY <1>10, <2>1, <2>4, <3>1 DEF WorkHolds
  <2> QED
    BY <2>1, <2>2, <2>3, <2>4 DEF WorkHolds
<1>12. (latest # GateNone => Known(latest.label) /\ (latest.full => Covers(latest.label, latest.cases)))'
  <2>1. latest # GateNone => latest.label \in Gate!Versions
    BY DEF EInv, Gate!TypeOK, Gate!Run
  <2> QED
    BY <1>2, <1>8, <1>9, <2>1 DEF EInv
<1> QED
  BY <1>2, <1>6, <1>7, <1>11, <1>12 DEF EInv


LEMMA PromotionStarts ==
  ASSUME Gate!Admissible, EInv, NEW t \in Workers,
         Gate!FindDataset(t) \/ \E c \in Candidates : Gate!FindCandidate(t, c)
  PROVE  EInv'
<1>1. CASE Gate!FindDataset(t)
  <2> DEFINE w == [workers[t] EXCEPT !.version = dataset.version]
  <2>1. /\ workers[t] \in [op : {"promote"}, candidate : Candidates, began : Gate!Times,
                           version : Gate!Versions \cup {GateNone}]
        /\ Gate!Turn(t, w) /\ UNCHANGED <<dataset, cands, bumps, latest, reported, clock, slipped>>
    BY <1>1, WorkerTypes DEF Gate!FindDataset, EInv
  <2>2. w \in Gate!Work /\ w.op = "promote" /\ w.version = dataset.version
    BY <2>1 DEF EInv, Gate!TypeOK, Gate!Work
  <2> HIDE DEF w
  <2>3. WorkHolds(w)
    BY <2>2 DEF EInv, DatasetHolds, WorkHolds
  <2> QED
    BY <2>1, <2>2, <2>3, TurnKeeps DEF EInv, Gate!TypeOK
<1>2. ASSUME NEW c \in Candidates, Gate!FindCandidate(t, c) PROVE EInv'
  <2> DEFINE w == [op |-> "promote", candidate |-> c, began |-> clock', version |-> GateNone]
  <2>1. /\ clock' \in Gate!Times /\ Gate!Turn(t, w)
        /\ UNCHANGED <<dataset, cands, bumps, latest, reported, slipped>>
    BY <1>2, TickType DEF Gate!FindCandidate, EInv
  <2>2. w \in Gate!Work /\ WorkHolds(w)
    BY <2>1 DEF Gate!Work, WorkHolds
  <2> HIDE DEF w
  <2> QED
    BY <2>1, <2>2, TurnKeeps DEF EInv, Gate!TypeOK
<1> QED
  BY <1>1, <1>2

\* A run takes the version first and the cases later: there can only be more of them.
LEMMA RunKeeps ==
  ASSUME Gate!Admissible, EInv, NEW t \in Workers,
         Gate!StartRun(t) \/ Gate!ListCases(t) \/ Gate!CompleteRun(t)
  PROVE  EInv'
<1>1. dataset.size \in Nat /\ dataset.version \in Gate!Versions /\ 1 .. dataset.size \subseteq Gate!Cases
  BY DEF Gate!Admissible, EInv, Gate!TypeOK, Gate!Cases
<1>2. CASE Gate!StartRun(t)
  <2> DEFINE w == [op |-> "run", version |-> dataset.version, todo |-> {}, full |-> FALSE]
  <2>1. w \in Gate!Work /\ Gate!Turn(t, w) /\ UNCHANGED <<dataset, cands, bumps, latest, reported, clock, slipped>>
    BY <1>1, <1>2 DEF Gate!StartRun, Gate!Work
  <2>2. Known(dataset.version)
    <3>1. CASE bumps = <<>>
      BY <3>1 DEF EInv, DatasetHolds, Known
    <3>2. CASE bumps # <<>>
      <4>1. Len(bumps) \in DOMAIN bumps
        BY <3>2 DEF EInv, Gate!TypeOK
      <4> QED
        BY <3>2, <4>1 DEF EInv, DatasetHolds, Known
    <3> QED
      BY <3>1, <3>2
  <2>3. WorkHolds(w)
    BY <2>2 DEF WorkHolds
  <2> HIDE DEF w
  <2> QED
    BY <2>1, <2>3, TurnKeeps DEF EInv, Gate!TypeOK
<1>3. CASE Gate!ListCases(t)
  <2>1. PICK todo \in SUBSET (1 .. dataset.size) \ {{}} :
          Gate!Turn(t, [workers[t] EXCEPT !.todo = todo, !.full = todo = 1 .. dataset.size])
    BY <1>3 DEF Gate!ListCases
  <2> DEFINE w == [workers[t] EXCEPT !.todo = todo, !.full = todo = 1 .. dataset.size]
  <2>2. /\ workers[t] \in [op : {"run"}, version : Gate!Versions, todo : SUBSET Gate!Cases, full : BOOLEAN]
        /\ ~Gate!Idle(t) /\ WorkHolds(workers[t])
        /\ UNCHANGED <<dataset, cands, bumps, latest, reported, clock, slipped>>
    BY <1>3, WorkerTypes DEF Gate!ListCases, EInv, Gate!Does
  <2>3. /\ w \in Gate!Work /\ w.op = "run" /\ w.version = workers[t].version /\ w.todo = todo
        /\ w.full => todo = 1 .. dataset.size
    BY <1>1, <2>2 DEF Gate!Work
  <2>4. \A i \in DOMAIN bumps : bumps[i].case \in 1 .. dataset.size
    BY <1>1, EventTypes DEF EInv, DatasetHolds, Gate!Event, Gate!Cases
  <2> HIDE DEF w
  <2>5. WorkHolds(w)
    BY <2>2, <2>3, <2>4 DEF WorkHolds, Covers
  <2> QED
    BY <2>1, <2>2, <2>3, <2>5, TurnKeeps DEF EInv, Gate!TypeOK, w
<1>4. CASE Gate!CompleteRun(t)
  <2>1. /\ workers[t] \in [op : {"run"}, version : Gate!Versions, todo : SUBSET Gate!Cases, full : BOOLEAN]
        /\ WorkHolds(workers[t]) /\ workers' = [workers EXCEPT ![t] = GateNone]
        /\ UNCHANGED <<dataset, cands, bumps, reported, clock, slipped>>
    BY <1>4, WorkerTypes DEF Gate!CompleteRun, EInv, Gate!Does, Gate!Done, Gate!Turn
  <2>2. PICK passed \in SUBSET workers[t].todo, hard \in BOOLEAN :
          latest' = [label |-> workers[t].version, cases |-> workers[t].todo,
                     full |-> workers[t].full, passed |-> passed, hard |-> hard]
    BY <1>4 DEF Gate!CompleteRun
  <2>3. latest' \in Gate!Run
    BY <2>1, <2>2 DEF Gate!Run
  <2>4. Gate!TypeOK'
    BY <2>1, <2>3 DEF EInv, Gate!TypeOK
  <2>5. DatasetHolds'
    BY <2>1 DEF EInv, DatasetHolds
  <2>6. ASSUME NEW q \in Workers, ~Gate!Idle(q)' PROVE WorkHolds(workers[q])'
    <3>1. workers'[q] = workers[q] /\ WorkHolds(workers[q])
      BY <2>1, <2>6 DEF EInv, Gate!TypeOK, Gate!Idle
    <3> QED
      BY <2>1, <3>1 DEF WorkHolds, Known, Covers, Owed, Required, Gate!Promoted
  <2>7. (latest # GateNone => Known(latest.label) /\ (latest.full => Covers(latest.label, latest.cases)))'
    BY <2>1, <2>2 DEF WorkHolds, Known, Covers
  <2> QED
    BY <2>1, <2>4, <2>5, <2>6, <2>7 DEF EInv
<1> QED
  BY <1>2, <1>3, <1>4

LEMMA ReportKeeps ==
  ASSUME Gate!Admissible, EInv, NEW t \in Workers, Gate!StartReport(t) \/ Gate!CommitReport(t)
  PROVE  EInv'
<1>1. CASE Gate!StartReport(t)
  <2> DEFINE w == [op |-> "report", began |-> clock']
  <2>1. /\ clock' \in Gate!Times /\ Gate!Turn(t, w)
        /\ UNCHANGED <<dataset, cands, bumps, latest, reported, slipped>>
    BY <1>1, TickType DEF Gate!StartReport, EInv
  <2>2. w \in Gate!Work /\ WorkHolds(w)
    BY <2>1 DEF Gate!Work, WorkHolds
  <2> HIDE DEF w
  <2> QED
    BY <2>1, <2>2, TurnKeeps DEF EInv, Gate!TypeOK
<1>2. CASE Gate!CommitReport(t)
  <2>1. workers[t].began \in Gate!Times
    BY <1>2, WorkerTypes DEF Gate!CommitReport, EInv
  <2>2. reported' \in Gate!Times
    BY <1>2, <2>1 DEF Gate!CommitReport, EInv, Gate!TypeOK
  <2> QED
    BY <1>2, <2>2, TurnKeeps DEF Gate!CommitReport, Gate!Done, EInv, Gate!TypeOK
<1> QED
  BY <1>1, <1>2

\* The gate: it requires what had been promoted when it began, and goes on only if
\* all of that has passed.
LEMMA GateKeeps ==
  ASSUME Gate!Admissible, EInv, NEW t \in Workers,
         Gate!StartGate(t) \/ Gate!ReadLatestRun(t) \/ Gate!ReadCandidates(t) \/ Gate!ReadLatestEvent(t)
  PROVE  EInv'
<1> DEFINE GateWork == [op : {"gate"}, at : {"run", "candidates", "event", "report"}, version : Gate!Versions,
                        required : SUBSET Gate!Cases, run : Gate!Run \cup {GateNone}, since : Gate!Times]
<1>1. UNCHANGED <<dataset, cands, bumps, latest, reported, clock, slipped>>
  BY DEF Gate!StartGate, Gate!ReadLatestRun, Gate!ReadCandidates, Gate!ReadLatestEvent
<1>2. Gate!Does(t, "gate") => workers[t] \in GateWork /\ WorkHolds(workers[t])
  BY WorkerTypes DEF EInv, Gate!Does
<1>3. GateWork \subseteq Gate!Work
  BY DEF Gate!Work
<1>4. ASSUME NEW w \in GateWork, Gate!Turn(t, w), w.required \subseteq 1 .. dataset.size, Owed(w.required),
             w.at \in {"event", "report"} => Required(w.required, w.run.passed)
      PROVE  EInv'
  <2>1. WorkHolds(w)
    BY <1>4 DEF WorkHolds
  <2> QED
    BY <1>1, <1>3, <1>4, <2>1, TurnKeeps DEF EInv, Gate!TypeOK
<1>5. CASE Gate!StartGate(t)
  <2> DEFINE required == {cands[c].case : c \in {d \in Candidates : Gate!Promoted(d)}}
             w == [op |-> "gate", at |-> "run", version |-> dataset.version, run |-> GateNone,
                   since |-> 0, required |-> required]
  <2>1. required \subseteq Gate!Cases /\ required \subseteq 1 .. dataset.size
    BY DEF EInv, Gate!TypeOK, DatasetHolds, Gate!Promoted, Gate!Cases
  <2>2. 0 \in Gate!Times /\ dataset.version \in Gate!Versions
    BY DEF Gate!Admissible, EInv, Gate!TypeOK, Gate!Times
  <2>5. Owed(required)
    BY DEF EInv, DatasetHolds, Owed, Gate!Promoted
  <2> HIDE DEF required
  <2>3. w \in GateWork /\ w.required = required /\ w.at = "run"
    BY <2>1, <2>2
  <2>4. Gate!Turn(t, w)
    BY <1>5 DEF Gate!StartGate, required
  <2> QED
    BY <1>4, <2>1, <2>3, <2>4, <2>5
<1>6. CASE Gate!ReadLatestRun(t)
  <2> DEFINE w == [workers[t] EXCEPT !.at = "candidates", !.run = latest]
  <2>1. workers[t] \in GateWork /\ WorkHolds(workers[t]) /\ Gate!Turn(t, w)
    BY <1>2, <1>6 DEF Gate!ReadLatestRun, Gate!Gates
  <2>2. w \in GateWork /\ w.at = "candidates" /\ w.required = workers[t].required
    BY <2>1 DEF EInv, Gate!TypeOK
  <2> QED
    BY <1>4, <2>1, <2>2 DEF WorkHolds
<1>7. CASE Gate!ReadCandidates(t)
  <2> DEFINE w == [workers[t] EXCEPT !.at = "event"]
  <2>1. workers[t] \in GateWork /\ WorkHolds(workers[t]) /\ Gate!Turn(t, w) /\ Gate!Fixed(t)
    BY <1>2, <1>7 DEF Gate!ReadCandidates, Gate!Gates
  <2>2. w \in GateWork /\ w.required = workers[t].required /\ w.run = workers[t].run
    BY <2>1
  <2>3. Required(w.required, w.run.passed)
    BY <2>1, <2>2 DEF Gate!Fixed, Required
  <2> HIDE DEF w
  <2> QED
    BY <1>4, <2>1, <2>2, <2>3 DEF WorkHolds
<1>8. CASE Gate!ReadLatestEvent(t)
  <2> DEFINE w == [workers[t] EXCEPT !.at = "report", !.since = Gate!LatestBump]
  <2>1. workers[t] \in GateWork /\ WorkHolds(workers[t]) /\ Gate!Turn(t, w) /\ workers[t].at = "event"
    BY <1>2, <1>8 DEF Gate!ReadLatestEvent, Gate!Gates
  <2>2. Gate!LatestBump \in Gate!Times
    BY LatestBumpType DEF EInv
  <2>3. w \in GateWork /\ w.required = workers[t].required /\ w.run = workers[t].run
    BY <2>1, <2>2
  <2> HIDE DEF w
  <2> QED
    BY <1>4, <2>1, <2>3 DEF WorkHolds
<1> QED
  BY <1>5, <1>6, <1>7, <1>8

LEMMA PassKeeps ==
  ASSUME EInv, NEW t \in Workers, Gate!Pass(t) \/ Gate!GiveUp(t)
  PROVE  EInv'
<1>1. slipped' = slipped
  <2>1. CASE Gate!Pass(t)
    <3>1. WorkHolds(workers[t]) /\ workers[t].op = "gate" /\ workers[t].at = "report"
      BY <2>1 DEF Gate!Pass, Gate!Gates, Gate!Does, EInv
    <3>2. \A c \in Candidates :
            Gate!Promoted(c) => ~(cands[c].case \in workers[t].required \ workers[t].run.passed)
      BY <3>1 DEF WorkHolds, Required
    <3> QED
      BY <2>1, <3>2 DEF Gate!Pass
  <2> QED
    BY <2>1 DEF Gate!GiveUp
<1>2. Gate!Turn(t, GateNone) /\ UNCHANGED <<dataset, cands, bumps, latest, reported, clock>>
  BY DEF Gate!Pass, Gate!GiveUp, Gate!Done
<1> QED
  BY <1>1, <1>2, TurnKeeps DEF EInv, Gate!TypeOK

LEMMA InitEInv ==
  ASSUME Gate!Admissible, Gate!Init
  PROVE  EInv
<1>1. Gate!TypeOK
  BY DEF Gate!Admissible, Gate!Init, Gate!TypeOK, Gate!Versions, Gate!Times
<1>2. DatasetHolds
  BY DEF Gate!Admissible, Gate!Init, DatasetHolds
<1> QED
  BY <1>1, <1>2 DEF Gate!Init, EInv, Gate!Idle

LEMMA NextEInv ==
  ASSUME Gate!Admissible, EInv, [Gate!Next]_(Gate!vars)
  PROVE  EInv'
<1>1. CASE UNCHANGED Gate!vars
  BY <1>1 DEF Gate!vars, EInv, Gate!TypeOK, DatasetHolds, WorkHolds, Known, Covers, Owed, Required,
         Gate!Promoted, Gate!Idle
<1>2. ASSUME NEW t \in Workers, Gate!Step(t) PROVE EInv'
  BY <1>2, PromotionStarts, CommitPromotionKeeps, RunKeeps, ReportKeeps, GateKeeps, PassKeeps
     DEF Gate!Step
<1> QED
  BY <1>1, <1>2, WithdrawKeeps, AcceptKeeps, CreateCaseKeeps DEF Gate!Next

\* The inductive invariant of the dataset and its gate.
THEOREM EvaluationInvariance == ReleaseGateSpec => []EInv
BY ReleaseGateAssumption, InitEInv, NextEInv, PTL DEF ReleaseGateSpec, Gate!Spec

\* Whatever is promoted, withdrawn, accepted again, run and reported while the gate
\* reads, it passes with no failure unfixed that had been promoted when it began and
\* whose acceptance stood until it passed.
THEOREM GateIsRight == ReleaseGateSpec => []PassMeansFixed
<1>1. EInv => PassMeansFixed
  BY DEF EInv, PassMeansFixed, Gate!PassMeansFixed
<1> QED
  BY <1>1, EvaluationInvariance, PTL

\* A run of the whole dataset holds what was promoted up to the version it is labelled
\* with, although it reads the version first and the cases later.
THEOREM Coverage == ReleaseGateSpec => []RunCoversItsVersion
<1>1. EInv => RunCoversItsVersion
  BY DEF EInv, Covers, RunCoversItsVersion, Gate!RunCoversItsVersion
<1> QED
  BY <1>1, EvaluationInvariance, PTL

-----------------------------------------------------------------------------
(***************************************************************************)
(* The triage queue.                                                       *)
(*                                                                         *)
(* A commit writes back what the session has read, so what a scan knows of *)
(* a row is its past (RowHolds).  While no two scans have overlapped, at   *)
(* most one candidate of a key is open (Orderly), and the count on it is   *)
(* exact (CandidateHolds), but for the sighting a scan is about to commit. *)
(***************************************************************************)
Seen(id) == story[id].sightings + (IF story[id].byHand THEN 1 ELSE 0)

\* The row of a session is of a candidate that there is, and counts no more than
\* was seen of it; where it is written from, it is stale only if scans overlapped.
RowHolds(entry, fresh) ==
  /\ entry.id \in DOMAIN queue
  /\ entry.count <= Seen(entry.id)
  /\ ~crowded /\ fresh => entry.count = queue[entry.id].count

ScanHolds(scan) ==
  /\ scan.at # "look" => scan.key \in Keys
  /\ scan.at \in {"bump", "refresh"} => scan.row \in Queue!Row /\ RowHolds(scan.row, scan.at = "bump")
  /\ scan.at = "look" /\ scan.row # TriageNone => RowHolds(scan.row, TRUE)

ReviewHolds(work) == work.id \in DOMAIN queue /\ (work.at = "link" => work.target \in Queue!Ids)

\* Nothing but a scan has opened candidates of the key, and never two scans at once.
Orderly(key) == ~crowded /\ \A id \in Queue!Of(key) : ~story[id].byHand /\ ~story[id].revived

Filing(s, key) == Queue!Scanning(s) /\ scanners[s].at \in {"back", "create"} /\ scanners[s].key = key

\* One open candidate, and none while a scan is about to file one.
KeyHolds(key) ==
  Orderly(key) =>
    /\ \A i, j \in Queue!Matches(key) : i = j
    /\ (\E s \in Scanners : Filing(s, key)) => Queue!Matches(key) = {}

CandidateHolds(id) ==
  /\ queue[id].count <= Seen(id) /\ (~crowded => queue[id].count = Seen(id))
  /\ \/ queue[id].severity = Queue!Low \/ queue[id].key \in Severe \/ queue[id].reopen
     \/ story[id].byHand \/ story[id].graded \/ story[id].sightings >= Queue!Recurrence

Alone == ~crowded => \A s, other \in Scanners : Queue!Scanning(s) /\ Queue!Scanning(other) => s = other

FInv ==
  /\ Queue!TypeOK
  /\ Len(raised) <= MaxSignals /\ Len(queue) <= MaxCandidates
  /\ Alone
  /\ \A s \in Scanners : Queue!Scanning(s) => ScanHolds(scanners[s])
  /\ \A r \in Reviewers : Queue!Reviewing(r) => ReviewHolds(reviewers[r])
  /\ \A id \in DOMAIN queue : CandidateHolds(id)
  /\ \A key \in Keys : KeyHolds(key)

-----------------------------------------------------------------------------
\* What the types say.
LEMMA RowTypes ==
  ASSUME Queue!TypeOK
  PROVE  /\ \A id \in DOMAIN queue : queue[id] \in Queue!Candidate /\ story[id] \in Queue!Story
         /\ DOMAIN queue = 1 .. Len(queue) /\ DOMAIN story = 1 .. Len(queue) /\ Len(queue) \in Nat
         /\ \A i \in DOMAIN raised : raised[i] \in Keys
         /\ DOMAIN raised = 1 .. Len(raised) /\ Len(raised) \in Nat
BY DEF Queue!TypeOK

LEMMA WorkTypes ==
  ASSUME Queue!TypeOK
  PROVE  /\ \A s \in Scanners : Queue!Scanning(s) => scanners[s] \in Queue!Scan
         /\ \A r \in Reviewers : Queue!Reviewing(r) => reviewers[r] \in Queue!Review
BY DEF Queue!TypeOK, Queue!Scanning, Queue!Reviewing

\* What a scan holds of its row it holds while counts and histories only grow, and
\* the counts do not change unless scans overlap.
LEMMA RowStays ==
  ASSUME Queue!TypeOK, Queue!TypeOK', NEW entry \in Queue!Row, NEW fresh \in BOOLEAN,
         RowHolds(entry, fresh),
         DOMAIN queue \subseteq DOMAIN queue', crowded => crowded',
         \A id \in DOMAIN queue : Seen(id) <= Seen(id)',
         \A id \in DOMAIN queue : ~crowded' => queue'[id].count = queue[id].count
  PROVE  RowHolds(entry, fresh)'
<1>1. entry.id \in DOMAIN queue /\ entry.count \in Nat /\ entry.id \in DOMAIN queue'
  BY DEF RowHolds, Queue!Row
<1>2. story[entry.id] \in Queue!Story /\ story'[entry.id] \in Queue!Story
  BY <1>1 DEF Queue!TypeOK
<1>3. Seen(entry.id) \in Nat /\ Seen(entry.id)' \in Nat
  BY <1>2 DEF Seen, Queue!Story
<1>4. Seen(entry.id) <= Seen(entry.id)'
  BY <1>1
<1> QED
  BY <1>1, <1>3, <1>4 DEF RowHolds

\* A process's work changes, and the candidates do not.
LEMMA ScanTurns ==
  ASSUME FInv, NEW s \in Scanners, NEW scan \in Queue!Scan \cup {TriageNone}, Queue!Go(s, scan),
         scan # TriageNone => ScanHolds(scan) /\ Queue!Scanning(s),
         scan # TriageNone => \/ scan.at \notin {"back", "create"}
                              \/ scanners[s].at = "back" /\ scan.key = scanners[s].key
                              \/ Queue!Matches(scan.key) = {},
         UNCHANGED <<raised, queue, reviewers, begun, story, crowded>>
  PROVE  FInv'
<1>1. Queue!TypeOK'
  BY DEF FInv, Queue!TypeOK, Queue!Go
<1>2. \A q \in Scanners : scanners'[q] = IF q = s THEN scan ELSE scanners[q]
  BY DEF FInv, Queue!TypeOK, Queue!Go
<1>3. \A q \in Scanners : Queue!Scanning(q)' => Queue!Scanning(q)
  BY <1>2 DEF Queue!Scanning
<1>4. Alone'
  BY <1>3 DEF FInv, Alone
<1>5. ASSUME NEW q \in Scanners, Queue!Scanning(q)' PROVE ScanHolds(scanners[q])'
  <2>1. ScanHolds(scanners'[q])
    BY <1>2, <1>3, <1>5 DEF FInv, Queue!Scanning
  <2> QED
    BY <2>1 DEF ScanHolds, RowHolds, Seen
<1>6. ASSUME NEW r \in Reviewers, Queue!Reviewing(r)' PROVE ReviewHolds(reviewers[r])'
  BY <1>6 DEF FInv, Queue!Reviewing, ReviewHolds
<1>7. ASSUME NEW id \in DOMAIN queue' PROVE CandidateHolds(id)'
  BY DEF FInv, CandidateHolds, Seen
<1>8. ASSUME NEW key \in Keys PROVE KeyHolds(key)'
  <2>1. Queue!Matches(key)' = Queue!Matches(key) /\ (Orderly(key)' <=> Orderly(key))
    BY DEF Queue!Matches, Queue!Of, Queue!Open, Orderly
  <2>2. ASSUME NEW q \in Scanners, Filing(q, key)', Orderly(key) PROVE Queue!Matches(key) = {}
    <3>1. CASE q = s
      BY <1>2, <1>8, <2>2, <3>1 DEF Filing, Queue!Scanning, FInv, KeyHolds
    <3>2. CASE q # s
      BY <1>2, <1>8, <2>2, <3>2 DEF Filing, Queue!Scanning, FInv, KeyHolds
    <3> QED
      BY <3>1, <3>2
  <2> QED
    BY <1>8, <2>1, <2>2 DEF FInv, KeyHolds
<1> QED
  BY <1>1, <1>4, <1>5, <1>6, <1>7, <1>8 DEF FInv

LEMMA ReviewTurns ==
  ASSUME FInv, NEW r \in Reviewers, NEW work \in Queue!Review \cup {TriageNone}, Queue!Answer(r,
         work),
         work # TriageNone => ReviewHolds(work),
         begun' \in [scans : 0 .. MaxScans, reviews : 0 .. MaxReviews],
         UNCHANGED <<raised, queue, scanners, story, crowded>>
  PROVE  FInv'
<1>1. Queue!TypeOK'
  BY DEF FInv, Queue!TypeOK, Queue!Answer
<1>2. \A q \in Reviewers : reviewers'[q] = IF q = r THEN work ELSE reviewers[q]
  BY DEF FInv, Queue!TypeOK, Queue!Answer
<1>3. Alone'
  BY DEF FInv, Alone, Queue!Scanning
<1>4. ASSUME NEW q \in Scanners, Queue!Scanning(q)' PROVE ScanHolds(scanners[q])'
  BY <1>4 DEF FInv, Queue!Scanning, ScanHolds, RowHolds, Seen
<1>5. ASSUME NEW q \in Reviewers, Queue!Reviewing(q)' PROVE ReviewHolds(reviewers[q])'
  BY <1>2, <1>5 DEF FInv, Queue!Reviewing, ReviewHolds
<1>6. ASSUME NEW id \in DOMAIN queue' PROVE CandidateHolds(id)'
  BY DEF FInv, CandidateHolds, Seen
<1>7. ASSUME NEW key \in Keys PROVE KeyHolds(key)'
  BY <1>7 DEF FInv, KeyHolds, Queue!Matches, Queue!Of, Queue!Open, Orderly, Filing, Queue!Scanning
<1> QED
  BY <1>1, <1>3, <1>4, <1>5, <1>6, <1>7 DEF FInv

-----------------------------------------------------------------------------
(* The steps.                                                              *)

LEMMA RaiseKeeps ==
  ASSUME Queue!Admissible, FInv, NEW key \in Keys, Queue!Raise(key)
  PROVE  FInv'
<1>1. Queue!TypeOK' /\ Len(raised') <= MaxSignals
  BY DEF FInv, Queue!TypeOK, Queue!Raise, Queue!Admissible
<1>2. UNCHANGED <<queue, scanners, reviewers, begun, story, crowded>>
  BY DEF Queue!Raise
<1>3. Alone' /\ \A s \in Scanners : Queue!Scanning(s)' => ScanHolds(scanners[s])'
  BY <1>2 DEF FInv, Alone, Queue!Scanning, ScanHolds, RowHolds, Seen
<1>4. \A r \in Reviewers : Queue!Reviewing(r)' => ReviewHolds(reviewers[r])'
  BY <1>2 DEF FInv, Queue!Reviewing, ReviewHolds
<1>5. \A id \in DOMAIN queue' : CandidateHolds(id)'
  BY <1>2 DEF FInv, CandidateHolds, Seen
<1>6. \A k \in Keys : KeyHolds(k)'
  BY <1>2 DEF FInv, KeyHolds, Queue!Matches, Queue!Of, Queue!Open, Orderly, Filing, Queue!Scanning
<1> QED
  BY <1>1, <1>2, <1>3, <1>4, <1>5, <1>6 DEF FInv

LEMMA StartScanKeeps ==
  ASSUME Queue!Admissible, FInv, NEW s \in Scanners, Queue!StartScan(s)
  PROVE  FInv'
<1>1. PICK oldest \in DOMAIN raised :
        Queue!Go(s, [todo |-> oldest .. Len(raised), at |-> "look", key |-> TriageNone, row |-> TriageNone, reopen |-> FALSE])
  BY DEF Queue!StartScan
<1> DEFINE scan == [todo |-> oldest .. Len(raised), at |-> "look", key |-> TriageNone, row |-> TriageNone, reopen |-> FALSE]
<1>2. scan \in Queue!Scan
  <2>1. oldest \in 1 .. Len(raised) /\ Len(raised) \in Nat /\ MaxSignals \in Nat /\ Len(raised) <= MaxSignals
    BY RowTypes DEF FInv, Queue!Admissible
  <2>2. oldest .. Len(raised) \subseteq 1 .. MaxSignals
    BY <2>1
  <2> QED
    BY <2>2 DEF Queue!Scan
<1>3. \A q \in Scanners : scanners'[q] = IF q = s THEN scan ELSE scanners[q]
  BY <1>1 DEF FInv, Queue!TypeOK, Queue!Go
<1>4. ~Queue!Scanning(s) /\ crowded' = (crowded \/ \E other \in Scanners : Queue!Scanning(other))
       /\ begun' = [begun EXCEPT !.scans = @ + 1] /\ begun.scans < MaxScans
       /\ UNCHANGED <<raised, queue, reviewers, story>>
  BY DEF Queue!StartScan
<1>5. Queue!TypeOK'
  <2>1. scanners' \in [Scanners -> Queue!Scan \cup {TriageNone}]
    BY <1>1, <1>2 DEF FInv, Queue!TypeOK, Queue!Go
  <2>2. begun' \in [scans : 0 .. MaxScans, reviews : 0 .. MaxReviews]
    <3>1. begun \in [scans : 0 .. MaxScans, reviews : 0 .. MaxReviews] /\ MaxScans \in Nat
      BY DEF FInv, Queue!TypeOK, Queue!Admissible
    <3>2. begun.scans + 1 \in 0 .. MaxScans
      BY <1>4, <3>1
    <3> QED
      BY <1>4, <3>1, <3>2
  <2>3. crowded' \in BOOLEAN
    BY <1>4 DEF FInv, Queue!TypeOK
  <2> QED
    BY <1>4, <2>1, <2>2, <2>3 DEF FInv, Queue!TypeOK
<1>6. Alone'
  BY <1>3, <1>4 DEF Alone, Queue!Scanning
<1>7. ASSUME NEW q \in Scanners, Queue!Scanning(q)' PROVE ScanHolds(scanners[q])'
  <2>1. CASE q = s
    <3>1. scanners'[q].at = "look" /\ scanners'[q].row = TriageNone
      BY <1>3, <2>1
    <3> QED
      BY <3>1 DEF ScanHolds
  <2>2. CASE q # s
    <3>1. ScanHolds(scanners'[q]) /\ crowded => crowded'
      BY <1>3, <1>4, <1>7, <2>2 DEF FInv, Queue!Scanning
    <3> QED
      BY <1>3, <1>4, <1>7, <2>2 DEF FInv, Queue!Scanning, ScanHolds, RowHolds, Seen
  <2> QED
    BY <2>1, <2>2
<1>8. \A r \in Reviewers : Queue!Reviewing(r)' => ReviewHolds(reviewers[r])'
  BY <1>4 DEF FInv, Queue!Reviewing, ReviewHolds
<1>9. \A id \in DOMAIN queue' : CandidateHolds(id)'
  BY <1>4 DEF FInv, CandidateHolds, Seen
<1>10. ASSUME NEW key \in Keys PROVE KeyHolds(key)'
  <2>1. Queue!Matches(key)' = Queue!Matches(key) /\ (Orderly(key)' => Orderly(key))
    BY <1>4 DEF Queue!Matches, Queue!Of, Queue!Open, Orderly
  <2>2. ASSUME NEW q \in Scanners, Filing(q, key)' PROVE Filing(q, key)
    BY <1>3, <2>2 DEF Filing, Queue!Scanning
  <2> QED
    BY <1>10, <2>1, <2>2 DEF FInv, KeyHolds
<1> QED
  BY <1>4, <1>5, <1>6, <1>7, <1>8, <1>9, <1>10 DEF FInv

LEMMA LookKeeps ==
  ASSUME Queue!Admissible, FInv, NEW s \in Scanners, NEW i \in DOMAIN raised, Queue!Look(s, i)
  PROVE  FInv'
<1> DEFINE scan  == scanners[s]
           key   == raised[i]
           found == Queue!Matches(key)
           next  == [scan EXCEPT !.todo = @ \ {i}, !.key = raised[i]]
           entry   == CHOOSE id \in found : found = {id}
           kept(id) == IF scan.row # TriageNone /\ scan.row.id = id THEN scan.row ELSE Queue!Loaded(id)
<1>1. scan \in Queue!Scan /\ scan.at = "look" /\ Queue!Scanning(s) /\ key \in Keys /\ i \in scan.todo
  BY WorkTypes, RowTypes DEF FInv, Queue!Look, Queue!ScanAt
<1>2. next \in Queue!Scan /\ next.key = key
  BY <1>1 DEF Queue!Scan
<1>3. UNCHANGED <<raised, queue, reviewers, begun, story, crowded>>
  BY DEF Queue!Look
<1>4. CASE found = {} /\ Queue!Go(s, [next EXCEPT !.at = "back", !.row = TriageNone])
  <2> DEFINE back == [next EXCEPT !.at = "back", !.row = TriageNone]
  <2>1. back \in Queue!Scan /\ back.key = key /\ back.at = "back"
    BY <1>2 DEF Queue!Scan
  <2>2. ScanHolds(back)
    BY <1>1, <2>1 DEF ScanHolds
  <2> HIDE DEF back
  <2> QED
    BY <1>1, <1>3, <1>4, <2>1, <2>2, ScanTurns DEF back
<1>5. CASE Queue!Go(s, TriageNone)
  BY <1>3, <1>5, ScanTurns
<1>6. ASSUME NEW id \in found, Queue!Go(s, [next EXCEPT !.at = "bump", !.row = kept(id)])
      PROVE  FInv'
  <2> DEFINE bump == [next EXCEPT !.at = "bump", !.row = kept(id)]
  <2>1. id \in DOMAIN queue /\ queue[id] \in Queue!Candidate /\ id \in Queue!Ids /\ CandidateHolds(id)
    <3>1. id \in DOMAIN queue /\ Len(queue) <= MaxCandidates
      BY <1>6 DEF Queue!Matches, Queue!Of, FInv
    <3> QED
      BY <3>1, RowTypes DEF FInv, Queue!Ids, Queue!Admissible
  <2>2. Queue!Loaded(id) \in Queue!Row /\ RowHolds(Queue!Loaded(id), TRUE)
    BY <2>1 DEF Queue!Loaded, Queue!Row, Queue!Candidate, RowHolds, CandidateHolds
  <2>3. kept(id) \in Queue!Row /\ RowHolds(kept(id), TRUE)
    <3>1. CASE scan.row # TriageNone /\ scan.row.id = id
      BY <1>1, <3>1 DEF FInv, Queue!Scan, ScanHolds
    <3> QED
      BY <2>2, <3>1
  <2>4. bump \in Queue!Scan /\ bump.key = key /\ bump.at = "bump" /\ bump.row = kept(id)
    BY <1>2, <2>3 DEF Queue!Scan
  <2>5. ScanHolds(bump)
    BY <1>1, <2>3, <2>4 DEF ScanHolds
  <2> HIDE DEF bump
  <2> QED
    BY <1>1, <1>3, <1>6, <2>4, <2>5, ScanTurns DEF bump
<1> QED
  BY <1>4, <1>5, <1>6 DEF Queue!Look

LEMMA LookBackKeeps ==
  ASSUME FInv, NEW s \in Scanners, Queue!LookBack(s)
  PROVE  FInv'
<1> DEFINE scan == [scanners[s] EXCEPT !.at = "create", !.reopen = Queue!HasResolved(scanners[s].key)]
<1>1. scanners[s] \in Queue!Scan /\ scanners[s].at = "back" /\ Queue!Scanning(s) /\ ScanHolds(scanners[s])
  BY WorkTypes DEF FInv, Queue!LookBack, Queue!ScanAt
<1>2. Queue!HasResolved(scanners[s].key) \in BOOLEAN
  BY DEF Queue!HasResolved
<1>3. scan \in Queue!Scan /\ scan.key = scanners[s].key /\ scan.at = "create"
  BY <1>1, <1>2 DEF Queue!Scan
<1>4. ScanHolds(scan)
  BY <1>1, <1>3 DEF ScanHolds
<1>5. Queue!Go(s, scan) /\ UNCHANGED <<raised, queue, reviewers, begun, story, crowded>>
  BY DEF Queue!LookBack
<1> HIDE DEF scan
<1> QED
  BY <1>1, <1>3, <1>4, <1>5, ScanTurns

LEMMA RefreshKeeps ==
  ASSUME FInv, NEW s \in Scanners, Queue!Refresh(s)
  PROVE  FInv'
<1> DEFINE scan == scanners[s]
           next == [scan EXCEPT !.at = "look", !.key = TriageNone, !.row = Queue!Loaded(scan.row.id)]
<1>1. scan \in Queue!Scan /\ scan.at = "refresh" /\ Queue!Scanning(s) /\ ScanHolds(scan)
  BY WorkTypes DEF FInv, Queue!Refresh, Queue!ScanAt
<1>2. UNCHANGED <<raised, queue, reviewers, begun, story, crowded>>
  BY DEF Queue!Refresh
<1>3. CASE Queue!Go(s, TriageNone)
  BY <1>2, <1>3, ScanTurns
<1>4. CASE Queue!Go(s, next)
  <2>1. scan.row.id \in DOMAIN queue /\ scan.row.id \in Queue!Ids
    BY <1>1 DEF ScanHolds, RowHolds, Queue!Row
  <2>2. Queue!Loaded(scan.row.id) \in Queue!Row /\ RowHolds(Queue!Loaded(scan.row.id), TRUE)
    <3>1. queue[scan.row.id] \in Queue!Candidate /\ CandidateHolds(scan.row.id)
      BY <2>1, RowTypes DEF FInv
    <3> QED
      BY <2>1, <3>1 DEF Queue!Loaded, Queue!Row, Queue!Candidate, RowHolds, CandidateHolds
  <2>3. next \in Queue!Scan /\ next.at = "look" /\ next.row = Queue!Loaded(scan.row.id)
    BY <1>1, <2>2 DEF Queue!Scan
  <2>4. ScanHolds(next)
    BY <2>2, <2>3 DEF ScanHolds
  <2> HIDE DEF next
  <2> QED
    BY <1>1, <1>2, <1>4, <2>3, <2>4, ScanTurns
<1> QED
  BY <1>3, <1>4 DEF Queue!Refresh

LEMMA CrashScanKeeps ==
  ASSUME FInv, NEW s \in Scanners, Queue!CrashScan(s)
  PROVE  FInv'
BY ScanTurns DEF Queue!CrashScan

LEMMA ReadKeeps ==
  ASSUME Queue!Admissible, FInv, NEW r \in Reviewers, NEW id \in DOMAIN queue,
         NEW target \in (DOMAIN queue) \cup {TriageNone},
         NEW verdict \in Queue!Statuses \cup {TriageNone},
         NEW grade \in Queue!Severities \cup {TriageNone}, Queue!Read(r, id, target, verdict, grade)
  PROVE  FInv'
<1> DEFINE work == [at |-> "commit", id |-> id, target |-> target, verdict |-> verdict, grade |-> grade,
                    seen |-> [status |-> queue[id].status, severity |-> queue[id].severity]]
<1>1. DOMAIN queue \subseteq Queue!Ids /\ queue[id] \in Queue!Candidate
  BY RowTypes DEF FInv, Queue!Ids, Queue!Admissible
<1>2. work \in Queue!Review
  BY <1>1 DEF Queue!Review, Queue!Candidate
<1>3. ReviewHolds(work)
  BY DEF ReviewHolds
<1>4. begun' \in [scans : 0 .. MaxScans, reviews : 0 .. MaxReviews]
  <2>1. begun' = [begun EXCEPT !.reviews = @ + 1] /\ begun.reviews < MaxReviews
    BY DEF Queue!Read
  <2> QED
    BY <2>1 DEF FInv, Queue!TypeOK, Queue!Admissible
<1>5. Queue!Answer(r, work) /\ UNCHANGED <<raised, queue, scanners, story, crowded>>
  BY DEF Queue!Read
<1> HIDE DEF work
<1> QED
  BY <1>2, <1>3, <1>4, <1>5, ReviewTurns

LEMMA CrashReviewKeeps ==
  ASSUME FInv, NEW r \in Reviewers, Queue!CrashReview(r)
  PROVE  FInv'
<1>1. begun' \in [scans : 0 .. MaxScans, reviews : 0 .. MaxReviews]
  BY DEF FInv, Queue!TypeOK, Queue!CrashReview
<1> QED
  BY <1>1, ReviewTurns DEF Queue!CrashReview

\* A new row is the last one, and the others stay.
LEMMA FileAdds ==
  ASSUME Queue!Admissible, FInv, NEW key \in Keys, NEW severity \in Queue!Severities,
         NEW reopen \in BOOLEAN,
         NEW byHand \in BOOLEAN, Queue!File(key, severity, reopen, byHand), UNCHANGED crowded,
         byHand \/ severity = Queue!Low \/ key \in Severe \/ reopen
  PROVE  /\ queue' \in Seq(Queue!Candidate) /\ story' \in Seq(Queue!Story)
         /\ Len(queue') = Len(queue) + 1 /\ Len(story') = Len(queue') /\ Len(queue') <= MaxCandidates
         /\ \A id \in DOMAIN queue : id \in DOMAIN queue' /\ queue'[id] = queue[id] /\ story'[id] = story[id]
         /\ \A id \in DOMAIN queue' : id \in DOMAIN queue \/ id = Len(queue) + 1
         /\ Len(queue) + 1 \in DOMAIN queue'
         /\ queue'[Len(queue) + 1].key = key /\ queue'[Len(queue) + 1].status = "new"
         /\ queue'[Len(queue) + 1].count = 1 /\ story'[Len(queue) + 1].byHand = byHand
         /\ story'[Len(queue) + 1].sightings + (IF story'[Len(queue) + 1].byHand THEN 1 ELSE 0) = 1
         /\ \A id \in DOMAIN queue' : CandidateHolds(id)'
<1> DEFINE entry  == [key |-> key, severity |-> severity, status |-> "new", count |-> 1,
                      reopen |-> reopen, duplicateOf |-> TriageNone]
           told == [sightings |-> IF byHand THEN 0 ELSE 1, byHand |-> byHand, graded |-> FALSE, revived |-> FALSE]
           new  == Len(queue) + 1
<1>1. entry \in Queue!Candidate /\ told \in Queue!Story
  BY DEF Queue!Candidate, Queue!Story, Queue!Statuses
<1>2. Len(queue) < MaxCandidates /\ queue' = Append(queue, entry) /\ story' = Append(story, told)
  BY DEF Queue!File
<1> HIDE DEF entry, told
<1>3. queue' \in Seq(Queue!Candidate) /\ story' \in Seq(Queue!Story)
  BY <1>1, <1>2 DEF FInv, Queue!TypeOK
<1>4. Len(queue') = Len(queue) + 1 /\ Len(story') = Len(queue') /\ Len(queue') <= MaxCandidates
  BY <1>1, <1>2 DEF FInv, Queue!TypeOK, Queue!Admissible
<1>5. /\ \A id \in DOMAIN queue : id \in DOMAIN queue' /\ queue'[id] = queue[id]
      /\ \A id \in DOMAIN queue' : id \in DOMAIN queue \/ id = new
      /\ new \in DOMAIN queue' /\ queue'[new] = entry
  BY <1>1, <1>2 DEF FInv, Queue!TypeOK
<1>6. (\A id \in DOMAIN queue : story'[id] = story[id]) /\ story'[new] = told
  BY <1>1, <1>2 DEF FInv, Queue!TypeOK
<1>7. ASSUME NEW id \in DOMAIN queue' PROVE CandidateHolds(id)'
  <2>1. CASE id \in DOMAIN queue
    BY <1>5, <1>6, <2>1 DEF FInv, CandidateHolds, Seen
  <2>2. CASE id = new
    <3>1. entry.count = 1 /\ entry.severity = severity /\ entry.key = key /\ entry.reopen = reopen
           /\ told.sightings + (IF told.byHand THEN 1 ELSE 0) = 1 /\ told.byHand = byHand
      BY DEF entry, told
    <3>2. queue'[id] = entry /\ story'[id] = told
      BY <1>5, <1>6, <2>2
    <3>3. Seen(id)' = 1 /\ queue'[id].count = 1
      BY <3>1, <3>2 DEF Seen
    <3>4. queue'[id].severity = Queue!Low \/ queue'[id].key \in Severe \/ queue'[id].reopen \/ story'[id].byHand
      BY <3>1, <3>2
    <3> QED
      BY <3>3, <3>4 DEF CandidateHolds
  <2> QED
    BY <1>5, <2>1, <2>2
<1>8. /\ entry.key = key /\ entry.status = "new" /\ entry.count = 1 /\ told.byHand = byHand
      /\ told.sightings + (IF told.byHand THEN 1 ELSE 0) = 1
  BY DEF entry, told
<1> QED
  BY <1>3, <1>4, <1>5, <1>6, <1>7, <1>8

\* What the others have read of their candidates survives a new row.
LEMMA FileLeaves ==
  ASSUME Queue!Admissible, FInv, NEW key \in Keys, NEW severity \in Queue!Severities,
         NEW reopen \in BOOLEAN,
         NEW byHand \in BOOLEAN, Queue!File(key, severity, reopen, byHand), UNCHANGED crowded,
         byHand \/ severity = Queue!Low \/ key \in Severe \/ reopen
  PROVE  /\ \A scan \in Queue!Scan : ScanHolds(scan) => ScanHolds(scan)'
         /\ \A work \in Queue!Review : ReviewHolds(work) => ReviewHolds(work)'
         /\ \A k \in Keys : Queue!Matches(k)' = IF k = key THEN Queue!Matches(k) \cup {Len(queue) + 1} ELSE Queue!Matches(k)
         /\ \A k \in Keys : Orderly(k)' => Orderly(k) /\ (k = key => ~byHand)
<1> DEFINE new == Len(queue) + 1
<1>1. /\ \A id \in DOMAIN queue : id \in DOMAIN queue' /\ queue'[id] = queue[id] /\ story'[id] = story[id]
      /\ \A id \in DOMAIN queue' : id \in DOMAIN queue \/ id = new
      /\ new \in DOMAIN queue'
      /\ queue'[new].key = key /\ queue'[new].status = "new" /\ story'[new].byHand = byHand
  BY FileAdds
<1>2. ASSUME NEW entry, NEW fresh \in BOOLEAN, RowHolds(entry, fresh) PROVE RowHolds(entry, fresh)'
  BY <1>1, <1>2 DEF RowHolds, Seen
<1>3. ASSUME NEW scan \in Queue!Scan, ScanHolds(scan) PROVE ScanHolds(scan)'
  <2>1. (scan.at = "bump") \in BOOLEAN
    OBVIOUS
  <2> QED
    BY <1>2, <1>3, <2>1 DEF ScanHolds
<1>4. \A work \in Queue!Review : ReviewHolds(work) => ReviewHolds(work)'
  BY <1>1 DEF ReviewHolds
<1>5. ASSUME NEW k \in Keys
      PROVE  Queue!Matches(k)' = IF k = key THEN Queue!Matches(k) \cup {new} ELSE Queue!Matches(k)
  <2>1. \A id \in DOMAIN queue' : id \in Queue!Matches(k)' <=> queue'[id].key = k /\ queue'[id].status \notin Queue!Terminal
    BY DEF Queue!Matches, Queue!Of, Queue!Open
  <2>2. \A id \in DOMAIN queue : id \in Queue!Matches(k) <=> queue[id].key = k /\ queue[id].status \notin Queue!Terminal
    BY DEF Queue!Matches, Queue!Of, Queue!Open
  <2>3. Queue!Matches(k) \subseteq DOMAIN queue /\ Queue!Matches(k)' \subseteq DOMAIN queue'
    BY DEF Queue!Matches, Queue!Of
  <2>4. new \in Queue!Matches(k)' <=> k = key
    BY <1>1, <2>1 DEF Queue!Terminal
  <2>5. \A id \in DOMAIN queue : id \in Queue!Matches(k)' <=> id \in Queue!Matches(k)
    BY <1>1, <2>1, <2>2
  <2>7. CASE k = key
    BY <1>1, <2>3, <2>4, <2>5, <2>7
  <2>8. CASE k # key
    <3>1. \A id : id \in Queue!Matches(k)' <=> id \in Queue!Matches(k)
      BY <1>1, <2>3, <2>4, <2>5, <2>8
    <3> QED
      BY <3>1, <2>8
  <2> QED
    BY <2>7, <2>8
<1>6. ASSUME NEW k \in Keys, Orderly(k)' PROVE Orderly(k) /\ (k = key => ~byHand)
  <2>1. \A id \in Queue!Of(k) : id \in Queue!Of(k)'
    BY <1>1 DEF Queue!Of
  <2>2. k = key => new \in Queue!Of(k)'
    BY <1>1 DEF Queue!Of
  <2>3. \A id \in Queue!Of(k) : story'[id] = story[id]
    BY <1>1 DEF Queue!Of
  <2> QED
    BY <1>1, <1>6, <2>1, <2>2, <2>3 DEF Orderly
<1> QED
  BY <1>3, <1>4, <1>5, <1>6

LEMMA CreateByHandKeeps ==
  ASSUME Queue!Admissible, FInv, NEW key \in Keys, NEW severity \in Grades, Queue!CreateByHand(key,
         severity)
  PROVE  FInv'
<1>1. /\ severity \in Queue!Severities /\ Queue!File(key, severity, FALSE, TRUE) /\ UNCHANGED crowded
      /\ UNCHANGED <<raised, scanners, reviewers, begun>>
  BY DEF Queue!CreateByHand, Queue!Admissible
<1>2. Queue!TypeOK' /\ Len(queue') <= MaxCandidates
  BY <1>1, FileAdds DEF FInv, Queue!TypeOK
<1>3. Alone'
  BY <1>1 DEF FInv, Alone, Queue!Scanning
<1>4. ASSUME NEW s \in Scanners, Queue!Scanning(s)' PROVE ScanHolds(scanners[s])'
  <2>1. scanners[s] \in Queue!Scan /\ ScanHolds(scanners[s])
    BY <1>1, <1>4, WorkTypes DEF FInv, Queue!Scanning
  <2>2. \A scan \in Queue!Scan : ScanHolds(scan) => ScanHolds(scan)'
    BY <1>1, FileLeaves
  <2>3. scanners'[s] = scanners[s]
    BY <1>1
  <2> QED
    BY <2>1, <2>2, <2>3 DEF ScanHolds, RowHolds, Seen
<1>5. ASSUME NEW r \in Reviewers, Queue!Reviewing(r)' PROVE ReviewHolds(reviewers[r])'
  <2>1. reviewers[r] \in Queue!Review /\ ReviewHolds(reviewers[r])
    BY <1>1, <1>5, WorkTypes DEF FInv, Queue!Reviewing
  <2>2. \A work \in Queue!Review : ReviewHolds(work) => ReviewHolds(work)'
    BY <1>1, FileLeaves
  <2>3. reviewers'[r] = reviewers[r]
    BY <1>1
  <2> QED
    BY <2>1, <2>2, <2>3 DEF ReviewHolds
<1>6. \A id \in DOMAIN queue' : CandidateHolds(id)'
  BY <1>1, FileAdds
<1>7. ASSUME NEW k \in Keys PROVE KeyHolds(k)'
  <2>1. Queue!Matches(k)' = (IF k = key THEN Queue!Matches(k) \cup {Len(queue) + 1} ELSE Queue!Matches(k))
         /\ (Orderly(k)' => Orderly(k) /\ k # key)
    BY <1>1, FileLeaves
  <2>2. \A s \in Scanners : Filing(s, k)' => Filing(s, k)
    BY <1>1 DEF Filing, Queue!Scanning
  <2> QED
    BY <1>7, <2>1, <2>2 DEF FInv, KeyHolds
<1> QED
  BY <1>1, <1>2, <1>3, <1>4, <1>5, <1>6, <1>7 DEF FInv

LEMMA CreateKeeps ==
  ASSUME Queue!Admissible, FInv, NEW s \in Scanners, Queue!Create(s)
  PROVE  FInv'
<1> DEFINE scan     == scanners[s]
           severity == Queue!InitialSeverity(scan.key, scan.reopen)
<1>1. scan \in Queue!Scan /\ scan.at = "create" /\ Queue!Scanning(s) /\ ScanHolds(scan) /\ scan.key \in Keys
       /\ scan.reopen \in BOOLEAN
  BY WorkTypes DEF FInv, Queue!Create, Queue!ScanAt, ScanHolds, Queue!Scan
<1>2. severity \in Queue!Severities /\ (severity = Queue!Low \/ scan.key \in Severe \/ scan.reopen)
  BY <1>1 DEF Queue!InitialSeverity, Queue!Escalated, Queue!Admissible, Queue!Severities, Queue!Low
<1>3. PICK new : new = Len(queue) + 1
  OBVIOUS
<1>4. PICK next : next = [scan EXCEPT !.at = "refresh", !.reopen = FALSE,
                                      !.row = [id |-> new, count |-> 1, severity |-> severity]]
  OBVIOUS
<1>5. /\ Queue!File(scan.key, severity, scan.reopen, FALSE) /\ UNCHANGED crowded /\ Queue!Go(s, next)
      /\ UNCHANGED <<raised, reviewers, begun>>
  BY <1>3, <1>4 DEF Queue!Create
<1> HIDE DEF severity
<1>6. /\ queue' \in Seq(Queue!Candidate) /\ story' \in Seq(Queue!Story)
      /\ Len(queue') = Len(queue) + 1 /\ Len(story') = Len(queue') /\ Len(queue') <= MaxCandidates
      /\ new \in DOMAIN queue' /\ queue'[new].count = 1
      /\ story'[new].sightings + (IF story'[new].byHand THEN 1 ELSE 0) = 1
      /\ \A id \in DOMAIN queue' : CandidateHolds(id)'
  <2>1. /\ queue' \in Seq(Queue!Candidate) /\ story' \in Seq(Queue!Story)
        /\ Len(queue') = Len(queue) + 1 /\ Len(story') = Len(queue') /\ Len(queue') <= MaxCandidates
        /\ \A id \in DOMAIN queue' : CandidateHolds(id)'
    BY <1>1, <1>2, <1>5, FileAdds
  <2>2. queue'[Len(queue) + 1].count = 1
    BY <1>1, <1>2, <1>5, FileAdds
  <2>4. Len(queue) + 1 \in DOMAIN queue'
    BY <2>1 DEF FInv, Queue!TypeOK
  <2>3. story'[Len(queue) + 1].sightings + (IF story'[Len(queue) + 1].byHand THEN 1 ELSE 0) = 1
    BY <1>1, <1>2, <1>5, FileAdds
  <2> QED
    BY <1>3, <2>1, <2>2, <2>3, <2>4
<1>7. /\ next \in Queue!Scan /\ next.at = "refresh" /\ next.row \in Queue!Row /\ next.key = scan.key
      /\ next.row.id = new /\ next.row.count = 1
  <2>1. Len(queue) \in Nat /\ MaxCandidates \in Nat
    BY DEF FInv, Queue!TypeOK, Queue!Admissible
  <2>2. new \in Queue!Ids
    BY <1>3, <1>6, <2>1 DEF Queue!Ids
  <2>3. [id |-> new, count |-> 1, severity |-> severity] \in Queue!Row
    BY <1>2, <2>2 DEF Queue!Row
  <2> QED
    BY <1>1, <1>4, <2>3 DEF Queue!Scan
<1>8. ScanHolds(next)'
  <2>1. RowHolds(next.row, FALSE)'
    <3>1. Seen(new)' = 1
      BY <1>6 DEF Seen
    <3> QED
      BY <1>6, <1>7, <3>1 DEF RowHolds
  <2> QED
    BY <1>1, <1>7, <2>1 DEF ScanHolds
<1>9. \A q \in Scanners : scanners'[q] = IF q = s THEN next ELSE scanners[q]
  BY <1>5 DEF FInv, Queue!TypeOK, Queue!Go
<1>10. Queue!TypeOK'
  BY <1>5, <1>6, <1>7 DEF FInv, Queue!TypeOK, Queue!Go
<1>11. Alone'
  BY <1>1, <1>5, <1>9 DEF FInv, Alone, Queue!Scanning
<1>12. ASSUME NEW q \in Scanners, Queue!Scanning(q)' PROVE ScanHolds(scanners[q])'
  <2>1. CASE q = s
    <3>1. scanners'[q] = next
      BY <1>9, <2>1
    <3> QED
      BY <1>8, <3>1 DEF ScanHolds, RowHolds, Seen
  <2>2. CASE q # s
    <3>1. scanners[q] \in Queue!Scan /\ ScanHolds(scanners[q]) /\ scanners'[q] = scanners[q]
      BY <1>9, <1>12, <2>2, WorkTypes DEF FInv, Queue!Scanning
    <3>2. \A w \in Queue!Scan : ScanHolds(w) => ScanHolds(w)'
      BY <1>1, <1>2, <1>5, FileLeaves
    <3> QED
      BY <3>1, <3>2 DEF ScanHolds, RowHolds, Seen
  <2> QED
    BY <2>1, <2>2
<1>13. ASSUME NEW r \in Reviewers, Queue!Reviewing(r)' PROVE ReviewHolds(reviewers[r])'
  <2>1. reviewers[r] \in Queue!Review /\ ReviewHolds(reviewers[r])
    BY <1>5, <1>13, WorkTypes DEF FInv, Queue!Reviewing
  <2>2. \A work \in Queue!Review : ReviewHolds(work) => ReviewHolds(work)'
    BY <1>1, <1>2, <1>5, FileLeaves
  <2>3. reviewers'[r] = reviewers[r]
    BY <1>5
  <2> QED
    BY <2>1, <2>2, <2>3 DEF ReviewHolds
<1>14. ASSUME NEW k \in Keys PROVE KeyHolds(k)'
  <2>1. Queue!Matches(k)' = (IF k = scan.key THEN Queue!Matches(k) \cup {new} ELSE Queue!Matches(k))
         /\ (Orderly(k)' => Orderly(k))
    <3>1. Queue!Matches(k)' = (IF k = scan.key THEN Queue!Matches(k) \cup {Len(queue) + 1} ELSE Queue!Matches(k))
           /\ (Orderly(k)' => Orderly(k))
      BY <1>1, <1>2, <1>5, FileLeaves
    <3> QED
      BY <1>3, <3>1
  <2>2. \A q \in Scanners : Filing(q, k)' => q # s /\ Filing(q, k)
    BY <1>7, <1>9 DEF Filing, Queue!Scanning
  <2>3. k = scan.key => Filing(s, k)
    BY <1>1 DEF Filing
  <2>4. ~crowded => \A q \in Scanners : q # s => ~Queue!Scanning(q)
    BY <1>1 DEF FInv, Alone
  <2>5. Orderly(k)' => \A q \in Scanners : ~Filing(q, k)'
    BY <2>1, <2>2, <2>4 DEF Orderly, Filing
  <2>6. Orderly(k) => \A i, j \in Queue!Matches(k) : i = j
    BY <1>14 DEF FInv, KeyHolds
  <2>7. Orderly(k) /\ k = scan.key => Queue!Matches(k) = {}
    BY <1>14, <2>3 DEF FInv, KeyHolds
  <2> QED
    BY <2>1, <2>5, <2>6, <2>7 DEF KeyHolds
<1> QED
  BY <1>5, <1>6, <1>10, <1>11, <1>12, <1>13, <1>14 DEF FInv

\* The open candidates of a key grow by nothing but a revival.
LEMMA KeyStays ==
  ASSUME FInv, DOMAIN queue' = DOMAIN queue, UNCHANGED crowded, NEW key \in Keys,
         \A id \in DOMAIN queue :
           /\ queue'[id].key = queue[id].key
           /\ story[id].byHand => story'[id].byHand
           /\ story[id].revived => story'[id].revived
           /\ Queue!Open(id)' => Queue!Open(id) \/ story'[id].revived,
         \A s \in Scanners : Filing(s, key)' => Filing(s, key)
  PROVE  KeyHolds(key)'
<1>1. \A id : id \in Queue!Of(key)' <=> id \in Queue!Of(key)
  BY DEF Queue!Of
<1>2. Orderly(key)' => Orderly(key)
  BY <1>1 DEF Orderly, Queue!Of
<1>3. Orderly(key)' => \A id \in Queue!Matches(key)' : id \in Queue!Matches(key)
  BY <1>1 DEF Orderly, Queue!Matches, Queue!Of
<1> QED
  BY <1>2, <1>3 DEF FInv, KeyHolds

LEMMA BumpKeeps ==
  ASSUME Queue!Admissible, FInv, NEW s \in Scanners, Queue!Bump(s)
  PROVE  FInv'
<1> DEFINE scan == scanners[s]
<1>1. scan \in Queue!Scan /\ scan.at = "bump" /\ Queue!Scanning(s) /\ ScanHolds(scan)
  BY WorkTypes DEF FInv, Queue!Bump, Queue!ScanAt
<1>2. PICK id, count, severity : id = scan.row.id /\ count = scan.row.count + 1
                                 /\ severity = Queue!Recurred(count, scan.row.severity, scan.key)
  OBVIOUS
<1>3. scan.row \in Queue!Row /\ id \in DOMAIN queue /\ scan.row.count <= Seen(id)
       /\ (~crowded => scan.row.count = queue[id].count) /\ scan.key \in Keys
  BY <1>1, <1>2 DEF ScanHolds, RowHolds
<1>4. count \in Nat /\ severity \in Queue!Severities
  BY <1>2, <1>3 DEF Queue!Row, Queue!Recurred, Queue!Admissible, Queue!Severities, Queue!Low,
         Queue!Medium
<1>5. PICK grade : grade = IF severity = scan.row.severity THEN queue[id].severity ELSE severity
  OBVIOUS
<1>6. queue[id] \in Queue!Candidate /\ story[id] \in Queue!Story /\ DOMAIN story = DOMAIN queue /\ CandidateHolds(id)
  BY <1>3, RowTypes DEF FInv
<1>7. queue' = [queue EXCEPT ![id] = [queue[id] EXCEPT !.count = count, !.severity = grade]]
  <2>1. queue' = [queue EXCEPT ![id].count = count,
                               ![id].severity = IF severity = scan.row.severity THEN @ ELSE severity]
    BY <1>2 DEF Queue!Bump
  <2>2. CASE severity = scan.row.severity
    <3>1. queue' = [queue EXCEPT ![id].count = count, ![id].severity = @]
      BY <2>1, <2>2
    <3> QED
      BY <1>3, <1>5, <1>6, <2>2, <3>1 DEF Queue!Candidate
  <2>3. CASE severity # scan.row.severity
    <3>1. queue' = [queue EXCEPT ![id].count = count, ![id].severity = severity]
      BY <2>1, <2>3
    <3> QED
      BY <1>3, <1>5, <1>6, <2>3, <3>1 DEF Queue!Candidate
  <2> QED
    BY <2>2, <2>3
<1>8. story' = [story EXCEPT ![id].sightings = story[id].sightings + 1]
  BY <1>2 DEF Queue!Bump
<1>9. Queue!Go(s, [scan EXCEPT !.at = "refresh"]) /\ UNCHANGED <<raised, reviewers, begun, crowded>>
  BY DEF Queue!Bump
<1>10. PICK next : next = [scan EXCEPT !.at = "refresh"]
  OBVIOUS
<1>11. next \in Queue!Scan /\ next.at = "refresh" /\ next.row = scan.row /\ next.key = scan.key
  BY <1>1, <1>10 DEF Queue!Scan
<1>12. grade \in Queue!Severities
  BY <1>4, <1>5, <1>6 DEF Queue!Candidate
<1>13. /\ DOMAIN queue' = DOMAIN queue
       /\ \A d \in DOMAIN queue : d # id => queue'[d] = queue[d] /\ story'[d] = story[d]
  BY <1>6, <1>7, <1>8
<1>14. /\ queue'[id] = [queue[id] EXCEPT !.count = count, !.severity = grade] /\ queue'[id] \in Queue!Candidate
       /\ story'[id] = [story[id] EXCEPT !.sightings = story[id].sightings + 1] /\ story'[id] \in Queue!Story
  <2>1. queue'[id] = [queue[id] EXCEPT !.count = count, !.severity = grade]
    BY <1>3, <1>7
  <2>2. story'[id] = [story[id] EXCEPT !.sightings = story[id].sightings + 1]
    BY <1>3, <1>6, <1>8
  <2>3. queue'[id] \in Queue!Candidate
    BY <1>4, <1>6, <1>12, <2>1 DEF Queue!Candidate
  <2>4. story'[id] \in Queue!Story
    BY <1>6, <2>2 DEF Queue!Story
  <2> QED
    BY <2>1, <2>2, <2>3, <2>4
<1>15. /\ queue'[id].count = count /\ queue'[id].severity = grade /\ queue'[id].key = queue[id].key
       /\ queue'[id].reopen = queue[id].reopen /\ queue'[id].status = queue[id].status
       /\ story'[id].sightings = story[id].sightings + 1 /\ story'[id].byHand = story[id].byHand
       /\ story'[id].graded = story[id].graded /\ story'[id].revived = story[id].revived
  BY <1>6, <1>14 DEF Queue!Candidate, Queue!Story
<1>16. Seen(id)' = Seen(id) + 1 /\ Seen(id) \in Nat
  BY <1>6, <1>15 DEF Seen, Queue!Story
<1>17. Queue!TypeOK'
  <2>1. queue' \in Seq(Queue!Candidate) /\ story' \in Seq(Queue!Story) /\ Len(story') = Len(queue')
    BY <1>3, <1>4, <1>6, <1>7, <1>8, <1>14 DEF FInv, Queue!TypeOK
  <2>2. scanners' \in [Scanners -> Queue!Scan \cup {TriageNone}]
    BY <1>9, <1>10, <1>11 DEF FInv, Queue!TypeOK, Queue!Go
  <2> QED
    BY <1>9, <2>1, <2>2 DEF FInv, Queue!TypeOK
<1>18. Len(raised') <= MaxSignals /\ Len(queue') <= MaxCandidates
  BY <1>3, <1>7, <1>9 DEF FInv, Queue!TypeOK
<1>19. \A q \in Scanners : scanners'[q] = IF q = s THEN next ELSE scanners[q]
  BY <1>9, <1>10 DEF FInv, Queue!TypeOK, Queue!Go
<1>20. Alone'
  BY <1>1, <1>9, <1>19 DEF FInv, Alone, Queue!Scanning
<1>21. ASSUME NEW q \in Scanners, Queue!Scanning(q)' PROVE ScanHolds(scanners[q])'
  <2>1. CASE q = s
    <3>1. Seen(id)' >= next.row.count /\ next.row.id = id /\ id \in DOMAIN queue'
      BY <1>2, <1>3, <1>11, <1>13, <1>16 DEF Queue!Row
    <3>2. RowHolds(next.row, FALSE)'
      BY <1>3, <1>11, <1>16, <3>1 DEF RowHolds, Queue!Row
    <3>3. scanners'[q] = next
      BY <1>19, <2>1
    <3>4. scanners'[q].row \in Queue!Row /\ scanners'[q].at = "refresh" /\ scanners'[q].key \in Keys
           /\ RowHolds(scanners[q].row, FALSE)'
      BY <1>3, <1>11, <3>2, <3>3 DEF RowHolds, Seen
    <3> QED
      BY <3>4 DEF ScanHolds
  <2>2. CASE q # s
    <3>1. scanners[q] \in Queue!Scan /\ ScanHolds(scanners[q]) /\ scanners'[q] = scanners[q] /\ Queue!Scanning(q)
      BY <1>19, <1>21, <2>2, WorkTypes DEF FInv, Queue!Scanning
    <3>2. crowded
      BY <1>1, <2>2, <3>1 DEF FInv, Alone
    <3>3. ASSUME NEW entry, entry.id \in DOMAIN queue, entry \in Queue!Row, entry.count <= Seen(entry.id)
          PROVE  RowHolds(entry, TRUE)' /\ RowHolds(entry, FALSE)'
      <4>1. Seen(entry.id)' >= Seen(entry.id) /\ Seen(entry.id) \in Nat /\ Seen(entry.id)' \in Nat
        <5>1. CASE entry.id = id
          BY <1>16, <5>1
        <5>2. CASE entry.id # id
          BY <1>13, <3>3, <5>2, RowTypes DEF FInv, Seen, Queue!Story
        <5> QED
          BY <5>1, <5>2
      <4> QED
        BY <1>9, <1>13, <3>2, <3>3, <4>1 DEF RowHolds, Queue!Row
    <3>4. PICK work : work = scanners[q]
      OBVIOUS
    <3>5. ScanHolds(work)'
      BY <3>1, <3>3, <3>4 DEF ScanHolds, RowHolds, Queue!Scan
    <3> QED
      BY <3>1, <3>4, <3>5 DEF ScanHolds, RowHolds, Seen
  <2> QED
    BY <2>1, <2>2
<1>22. ASSUME NEW r \in Reviewers, Queue!Reviewing(r)' PROVE ReviewHolds(reviewers[r])'
  BY <1>9, <1>13, <1>22 DEF FInv, Queue!Reviewing, ReviewHolds
<1>23. ASSUME NEW d \in DOMAIN queue' PROVE CandidateHolds(d)'
  <2>1. CASE d = id
    <3>1. count <= Seen(id)' /\ (~crowded => count = Seen(id)')
      BY <1>2, <1>3, <1>6, <1>16 DEF CandidateHolds, Queue!Row
    <3>2. \/ grade = Queue!Low \/ queue[id].key \in Severe \/ queue[id].reopen
          \/ story[id].byHand \/ story[id].graded \/ story[id].sightings + 1 >= Queue!Recurrence
      <4>1. CASE severity = scan.row.severity
        BY <1>5, <1>6, <4>1 DEF CandidateHolds, Queue!Recurrence, Queue!Story
      <4>2. CASE severity # scan.row.severity
        <5>1. count >= Queue!Recurrence
          BY <1>2, <4>2 DEF Queue!Recurred
        <5> QED
          BY <1>4, <1>6, <1>16, <3>1, <5>1 DEF Seen, Queue!Recurrence, Queue!Story
      <4> QED
        BY <4>1, <4>2
    <3> QED
      BY <1>9, <1>15, <2>1, <3>1, <3>2 DEF CandidateHolds
  <2>2. CASE d # id
    BY <1>9, <1>13, <2>2 DEF FInv, CandidateHolds, Seen
  <2> QED
    BY <2>1, <2>2
<1>24. ASSUME NEW key \in Keys PROVE KeyHolds(key)'
  <2>1. \A d \in DOMAIN queue :
           /\ queue'[d].key = queue[d].key
           /\ story[d].byHand => story'[d].byHand
           /\ story[d].revived => story'[d].revived
           /\ Queue!Open(d)' => Queue!Open(d)
    BY <1>13, <1>15 DEF Queue!Open
  <2>2. \A q \in Scanners : Filing(q, key)' => Filing(q, key)
    BY <1>11, <1>19 DEF Filing, Queue!Scanning
  <2> QED
    BY <1>9, <1>13, <2>1, <2>2, KeyStays
<1> QED
  BY <1>17, <1>18, <1>20, <1>21, <1>22, <1>23, <1>24 DEF FInv

\* A scan loses nothing by a step that leaves the counts and the sightings alone.
LEMMA ScanStays ==
  ASSUME FInv, DOMAIN queue' = DOMAIN queue, UNCHANGED <<scanners, crowded>>,
         \A id \in DOMAIN queue : queue'[id].count = queue[id].count /\ Seen(id)' = Seen(id)
  PROVE  Alone' /\ \A s \in Scanners : Queue!Scanning(s)' => ScanHolds(scanners[s])'
<1>1. Alone'
  BY DEF FInv, Alone, Queue!Scanning
<1>2. ASSUME NEW s \in Scanners, Queue!Scanning(s)' PROVE ScanHolds(scanners[s])'
  <2>1. ScanHolds(scanners[s]) /\ scanners'[s] = scanners[s]
    BY <1>2 DEF FInv, Queue!Scanning
  <2>2. PICK work : work = scanners[s]
    OBVIOUS
  <2>3. ASSUME NEW entry, NEW fresh, RowHolds(entry, fresh) PROVE RowHolds(entry, fresh)'
    BY <2>3 DEF RowHolds
  <2>4. ScanHolds(work)'
    BY <2>1, <2>2, <2>3 DEF ScanHolds
  <2> QED
    BY <2>1, <2>2, <2>4 DEF ScanHolds, RowHolds, Seen
<1> QED
  BY <1>1, <1>2

LEMMA CommitTriageKeeps ==
  ASSUME Queue!Admissible, FInv, NEW r \in Reviewers, Queue!CommitTriage(r)
  PROVE  FInv'
<1>1. reviewers[r] \in Queue!Review /\ reviewers[r].at = "commit" /\ Queue!Reviewing(r) /\ ReviewHolds(reviewers[r])
  BY WorkTypes DEF FInv, Queue!CommitTriage, Queue!ReviewAt
<1>2. PICK work, id : work = reviewers[r] /\ id = work.id
  OBVIOUS
<1>3. PICK status : status = IF Queue!Changes(r) THEN work.verdict ELSE queue[id].status
  OBVIOUS
<1>4. PICK grades \in BOOLEAN : grades = (work.grade \notin {TriageNone, work.seen.severity})
  OBVIOUS
<1>5. PICK grade : grade = IF grades THEN work.grade ELSE queue[id].severity
  OBVIOUS
<1>6. PICK revives \in BOOLEAN : revives = (~Queue!Open(id) /\ status \notin Queue!Terminal)
  OBVIOUS
<1>7. id \in DOMAIN queue /\ queue[id] \in Queue!Candidate /\ story[id] \in Queue!Story /\ DOMAIN story = DOMAIN queue
       /\ CandidateHolds(id) /\ work \in Queue!Review
  BY <1>1, <1>2, RowTypes DEF FInv, ReviewHolds
<1>8. status \in Queue!Statuses
  BY <1>2, <1>3, <1>4, <1>5, <1>7 DEF Queue!Changes, Queue!Review, Queue!Candidate
<1>9. grade \in Queue!Severities /\ (~grades => grade = queue[id].severity)
  BY <1>3, <1>4, <1>5, <1>7 DEF Queue!Review, Queue!Candidate
<1>10. queue' = [queue EXCEPT ![id] = [queue[id] EXCEPT !.status = status, !.severity = grade]]
  <2>1. queue' = [queue EXCEPT ![id].status = status, ![id].severity = IF grades THEN work.grade ELSE @]
    BY <1>2, <1>3, <1>4, <1>5 DEF Queue!CommitTriage
  <2>2. CASE grades
    <3>1. queue' = [queue EXCEPT ![id].status = status, ![id].severity = work.grade]
      BY <2>1, <2>2
    <3> QED
      BY <1>3, <1>4, <1>5, <1>7, <2>2, <3>1 DEF Queue!Candidate
  <2>3. CASE ~grades
    <3>1. queue' = [queue EXCEPT ![id].status = status, ![id].severity = @]
      BY <2>1, <2>3
    <3> QED
      BY <1>3, <1>4, <1>5, <1>7, <2>3, <3>1 DEF Queue!Candidate
  <2> QED
    BY <2>2, <2>3
<1>11. story' = [story EXCEPT ![id].graded = @ \/ grades, ![id].revived = @ \/ revives]
  BY <1>2, <1>3, <1>4, <1>5, <1>6 DEF Queue!CommitTriage
<1>12. /\ queue'[id] = [queue[id] EXCEPT !.status = status, !.severity = grade]
       /\ story'[id] = [story[id] EXCEPT !.graded = story[id].graded \/ grades,
                                         !.revived = story[id].revived \/ revives]
  BY <1>7, <1>10, <1>11 DEF Queue!Story
<1>13. /\ DOMAIN queue' = DOMAIN queue
       /\ \A d \in DOMAIN queue : d # id => queue'[d] = queue[d] /\ story'[d] = story[d]
  BY <1>7, <1>10, <1>11
<1>14. queue'[id] \in Queue!Candidate /\ story'[id] \in Queue!Story
  <2>1. queue'[id] \in Queue!Candidate
    BY <1>7, <1>8, <1>9, <1>12 DEF Queue!Candidate
  <2>2. story'[id] \in Queue!Story
    BY <1>7, <1>12 DEF Queue!Story
  <2> QED
    BY <2>1, <2>2
<1>15. /\ queue'[id].status = status /\ queue'[id].severity = grade /\ queue'[id].key = queue[id].key
       /\ queue'[id].reopen = queue[id].reopen /\ queue'[id].count = queue[id].count
  BY <1>7, <1>12 DEF Queue!Candidate
<1>16. /\ story'[id].sightings = story[id].sightings /\ story'[id].byHand = story[id].byHand
       /\ story'[id].graded = (story[id].graded \/ grades)
       /\ story'[id].revived = (story[id].revived \/ revives)
  BY <1>7, <1>12 DEF Queue!Story
<1>17. UNCHANGED <<raised, scanners, begun, crowded>>
  BY DEF Queue!CommitTriage
<1>18. PICK left : /\ left = IF work.target = TriageNone THEN TriageNone ELSE [work EXCEPT !.at = "link"]
                   /\ reviewers' = [reviewers EXCEPT ![r] = left]
  BY <1>2 DEF Queue!CommitTriage, Queue!Answer
<1>19. left # TriageNone => left \in Queue!Review /\ ReviewHolds(left)
  <2>1. CASE work.target # TriageNone
    <3>1. left = [work EXCEPT !.at = "link"]
      BY <1>18, <2>1, Zenon
    <3>2. left \in Queue!Review /\ left.id = id /\ left.target \in Queue!Ids
      BY <1>2, <1>7, <2>1, <3>1 DEF Queue!Review
    <3> QED
      BY <1>7, <3>2 DEF ReviewHolds
  <2> QED
    BY <1>18, <2>1
<1>20. Queue!TypeOK'
  <2>1. queue' \in Seq(Queue!Candidate) /\ Len(queue') = Len(queue)
    BY <1>7, <1>10, <1>12, <1>14 DEF FInv, Queue!TypeOK
  <2>2. story' \in Seq(Queue!Story) /\ Len(story') = Len(story)
    <3>1. PICK told : told = story'[id]
      OBVIOUS
    <3>2. story' = [story EXCEPT ![id] = told]
      BY <1>7, <1>11, <1>13, <3>1
    <3> QED
      BY <1>7, <1>14, <3>1, <3>2 DEF FInv, Queue!TypeOK
  <2>3. reviewers' \in [Reviewers -> Queue!Review \cup {TriageNone}]
    BY <1>18, <1>19 DEF FInv, Queue!TypeOK
  <2> QED
    BY <1>17, <2>1, <2>2, <2>3 DEF FInv, Queue!TypeOK
<1>21. Len(raised') <= MaxSignals /\ Len(queue') <= MaxCandidates
  BY <1>7, <1>10, <1>17 DEF FInv, Queue!TypeOK
<1>22. \A d \in DOMAIN queue : queue'[d].count = queue[d].count /\ Seen(d)' = Seen(d)
  BY <1>13, <1>15, <1>16 DEF Seen
<1>23. Alone' /\ \A s \in Scanners : Queue!Scanning(s)' => ScanHolds(scanners[s])'
  BY <1>13, <1>17, <1>22, ScanStays
<1>24. ASSUME NEW q \in Reviewers, Queue!Reviewing(q)' PROVE ReviewHolds(reviewers[q])'
  <2>1. reviewers'[q] = IF q = r THEN left ELSE reviewers[q]
    BY <1>18 DEF FInv, Queue!TypeOK
  <2>2. ReviewHolds(reviewers'[q])
    BY <1>19, <1>24, <2>1 DEF FInv, Queue!Reviewing
  <2> QED
    BY <1>13, <2>2 DEF ReviewHolds
<1>25. ASSUME NEW d \in DOMAIN queue' PROVE CandidateHolds(d)'
  <2>1. CASE d = id
    <3>1. queue[id].count <= Seen(id) /\ (~crowded => queue[id].count = Seen(id))
      BY <1>7 DEF CandidateHolds
    <3>2. queue'[id].count <= Seen(id)' /\ (~crowded' => queue'[id].count = Seen(id)')
      BY <1>7, <1>15, <1>17, <1>22, <3>1
    <3>3. CASE grades
      BY <1>16, <2>1, <3>2, <3>3 DEF CandidateHolds
    <3>4. CASE ~grades
      <4>1. queue'[id].severity = queue[id].severity
        BY <1>9, <1>15, <3>4
      <4> QED
        BY <1>7, <1>15, <1>16, <2>1, <3>2, <4>1 DEF CandidateHolds
    <3> QED
      BY <3>3, <3>4
  <2>2. CASE d # id
    BY <1>13, <1>17, <1>22, <2>2 DEF FInv, CandidateHolds, Seen
  <2> QED
    BY <2>1, <2>2
<1>26. ASSUME NEW key \in Keys PROVE KeyHolds(key)'
  <2>1. Queue!Open(id)' => Queue!Open(id) \/ story'[id].revived
    BY <1>6, <1>15, <1>16 DEF Queue!Open
  <2>2. \A d \in DOMAIN queue :
           /\ queue'[d].key = queue[d].key
           /\ story[d].byHand => story'[d].byHand
           /\ story[d].revived => story'[d].revived
           /\ Queue!Open(d)' => Queue!Open(d) \/ story'[d].revived
    BY <1>13, <1>15, <1>16, <2>1 DEF Queue!Open
  <2>3. \A q \in Scanners : Filing(q, key)' => Filing(q, key)
    BY <1>17 DEF Filing, Queue!Scanning
  <2> QED
    BY <1>13, <1>17, <2>2, <2>3, KeyStays
<1> QED
  BY <1>20, <1>21, <1>23, <1>24, <1>25, <1>26 DEF FInv

LEMMA LinkDuplicateKeeps ==
  ASSUME FInv, NEW r \in Reviewers, Queue!LinkDuplicate(r)
  PROVE  FInv'
<1>1. reviewers[r] \in Queue!Review /\ reviewers[r].at = "link" /\ Queue!Reviewing(r) /\ ReviewHolds(reviewers[r])
  BY WorkTypes DEF FInv, Queue!LinkDuplicate, Queue!ReviewAt
<1>2. PICK id, target : id = reviewers[r].id /\ target = reviewers[r].target
  OBVIOUS
<1>3. id \in DOMAIN queue /\ target \in Queue!Ids /\ queue[id] \in Queue!Candidate
  BY <1>1, <1>2, RowTypes DEF FInv, ReviewHolds
<1>4. queue' = [queue EXCEPT ![id] = [queue[id] EXCEPT !.duplicateOf = target]]
  BY <1>2 DEF Queue!LinkDuplicate
<1>5. reviewers' = [reviewers EXCEPT ![r] = TriageNone] /\ UNCHANGED <<raised, scanners, begun, story, crowded>>
  BY DEF Queue!LinkDuplicate, Queue!Answer
<1>6. queue'[id] = [queue[id] EXCEPT !.duplicateOf = target] /\ queue'[id] \in Queue!Candidate
  BY <1>3, <1>4 DEF Queue!Candidate
<1>7. /\ DOMAIN queue' = DOMAIN queue /\ Len(queue') = Len(queue) /\ queue' \in Seq(Queue!Candidate)
      /\ \A d \in DOMAIN queue : d # id => queue'[d] = queue[d]
  BY <1>3, <1>4, <1>6 DEF FInv, Queue!TypeOK
<1>8. \A d \in DOMAIN queue :
        /\ queue'[d].count = queue[d].count /\ queue'[d].key = queue[d].key
        /\ queue'[d].severity = queue[d].severity /\ queue'[d].status = queue[d].status
        /\ queue'[d].reopen = queue[d].reopen
  BY <1>3, <1>6, <1>7 DEF Queue!Candidate
<1>9. Queue!TypeOK' /\ Len(raised') <= MaxSignals /\ Len(queue') <= MaxCandidates
  BY <1>5, <1>7 DEF FInv, Queue!TypeOK
<1>10. Alone' /\ \A s \in Scanners : Queue!Scanning(s)' => ScanHolds(scanners[s])'
  BY <1>5, <1>7, <1>8, ScanStays DEF Seen
<1>11. ASSUME NEW q \in Reviewers, Queue!Reviewing(q)' PROVE ReviewHolds(reviewers[q])'
  <2>1. reviewers'[q] = IF q = r THEN TriageNone ELSE reviewers[q]
    BY <1>5 DEF FInv, Queue!TypeOK
  <2> QED
    BY <1>7, <1>11, <2>1 DEF FInv, Queue!Reviewing, ReviewHolds
<1>12. \A d \in DOMAIN queue' : CandidateHolds(d)'
  BY <1>5, <1>7, <1>8 DEF FInv, CandidateHolds, Seen
<1>13. ASSUME NEW key \in Keys PROVE KeyHolds(key)'
  <2>1. \A q \in Scanners : Filing(q, key)' => Filing(q, key)
    BY <1>5 DEF Filing, Queue!Scanning
  <2>2. \A d \in DOMAIN queue : Queue!Open(d)' => Queue!Open(d)
    BY <1>8 DEF Queue!Open
  <2> QED
    BY <1>5, <1>7, <1>8, <2>1, <2>2, KeyStays
<1> QED
  BY <1>9, <1>10, <1>11, <1>12, <1>13 DEF FInv

LEMMA InitFInv ==
  ASSUME Queue!Admissible, Queue!Init
  PROVE  FInv
<1>1. Queue!TypeOK /\ Len(raised) <= MaxSignals /\ Len(queue) <= MaxCandidates
  <2>1. \A S : <<>> \in Seq(S)
    OBVIOUS
  <2>2. MaxSignals \in Nat /\ MaxCandidates \in Nat /\ MaxScans \in Nat /\ MaxReviews \in Nat
    BY DEF Queue!Admissible
  <2>3. raised = <<>> /\ queue = <<>> /\ story = <<>> /\ Len(raised) = 0 /\ Len(queue) = 0 /\ Len(story) = 0
    BY DEF Queue!Init
  <2>4. begun \in [scans : 0 .. MaxScans, reviews : 0 .. MaxReviews] /\ crowded \in BOOLEAN
    <3>1. begun = [scans |-> 0, reviews |-> 0] /\ crowded = FALSE
      BY DEF Queue!Init
    <3>2. 0 \in 0 .. MaxScans /\ 0 \in 0 .. MaxReviews
      BY <2>2
    <3> QED
      BY <3>1, <3>2
  <2>5. scanners \in [Scanners -> Queue!Scan \cup {TriageNone}] /\ reviewers \in [Reviewers -> Queue!Review \cup {TriageNone}]
    <3>1. scanners = [s \in Scanners |-> TriageNone] /\ reviewers = [r \in Reviewers |-> TriageNone]
      BY DEF Queue!Init
    <3> QED
      BY <3>1, Zenon
  <2>6. raised \in Seq(Keys) /\ queue \in Seq(Queue!Candidate) /\ story \in Seq(Queue!Story)
    BY <2>1, <2>3, Zenon
  <2> QED
    BY <2>2, <2>3, <2>4, <2>5, <2>6 DEF Queue!TypeOK
<1>2. DOMAIN queue = {} /\ (\A s \in Scanners : ~Queue!Scanning(s)) /\ (\A r \in Reviewers : ~Queue!Reviewing(r))
  BY DEF Queue!Init, Queue!Scanning, Queue!Reviewing
<1> QED
  BY <1>1, <1>2 DEF FInv, Alone, KeyHolds, Queue!Matches, Queue!Of, Filing

LEMMA NextFInv ==
  ASSUME Queue!Admissible, FInv, [Queue!Next]_(Queue!vars)
  PROVE  FInv'
<1>1. CASE UNCHANGED Queue!vars
  <2>1. Queue!TypeOK' /\ Len(raised') <= MaxSignals /\ Len(queue') <= MaxCandidates /\ Alone'
    BY <1>1 DEF Queue!vars, FInv, Queue!TypeOK, Alone, Queue!Scanning
  <2>2. \A s \in Scanners : Queue!Scanning(s)' => ScanHolds(scanners[s])'
    BY <1>1 DEF Queue!vars, FInv, Queue!Scanning, ScanHolds, RowHolds, Seen
  <2>3. \A r \in Reviewers : Queue!Reviewing(r)' => ReviewHolds(reviewers[r])'
    BY <1>1 DEF Queue!vars, FInv, Queue!Reviewing, ReviewHolds
  <2>4. \A id \in DOMAIN queue' : CandidateHolds(id)'
    BY <1>1 DEF Queue!vars, FInv, CandidateHolds, Seen
  <2>5. \A key \in Keys : KeyHolds(key)'
    BY <1>1 DEF Queue!vars, FInv, KeyHolds, Queue!Matches, Queue!Of, Queue!Open, Orderly, Filing,
           Queue!Scanning
  <2> QED
    BY <2>1, <2>2, <2>3, <2>4, <2>5 DEF FInv
<1>2. ASSUME NEW s \in Scanners, Queue!ScannerStep(s) PROVE FInv'
  BY <1>2, StartScanKeeps, LookKeeps, LookBackKeeps, CreateKeeps, BumpKeeps, RefreshKeeps,
     CrashScanKeeps
     DEF Queue!ScannerStep
<1>3. ASSUME NEW r \in Reviewers, Queue!ReviewerStep(r) PROVE FInv'
  <2>1. CASE Queue!StartTriage(r)
    <3>1. PICK id \in DOMAIN queue, verdict \in Verdicts \cup {TriageNone}, grade \in Grades \cup {TriageNone} :
            Queue!Read(r, id, TriageNone, verdict, grade)
      BY <2>1 DEF Queue!StartTriage
    <3>2. verdict \in Queue!Statuses \cup {TriageNone} /\ grade \in Queue!Severities \cup {TriageNone}
      BY DEF Queue!Admissible
    <3> QED
      BY <3>1, <3>2, ReadKeeps
  <2>2. CASE Queue!StartMarkDuplicate(r)
    <3>1. PICK id, target \in DOMAIN queue : Queue!Read(r, id, target, "duplicate", TriageNone)
      BY <2>2 DEF Queue!StartMarkDuplicate
    <3>2. "duplicate" \in Queue!Statuses \cup {TriageNone}
      BY DEF Queue!Statuses
    <3> QED
      BY <3>1, <3>2, ReadKeeps
  <2> QED
    BY <1>3, <2>1, <2>2, CommitTriageKeeps, LinkDuplicateKeeps, CrashReviewKeeps
       DEF Queue!ReviewerStep
<1> QED
  BY <1>1, <1>2, <1>3, RaiseKeeps, CreateByHandKeeps DEF Queue!Next

\* The inductive invariant of the queue, its scans and its reviews.
THEOREM FeedbackInvariance == TriageSpec => []FInv
BY TriageAssumption, InitFInv, NextFInv, PTL DEF TriageSpec, Queue!Spec

\* A count is of sightings that there were, of all of them while scans do not overlap,
\* and what a scan calls worse than low recurred, whatever reviewers write meanwhile.
THEOREM CountsAreTrue == TriageSpec => []SightingsAreTrue
<1>1. FInv => SightingsAreTrue
  BY DEF FInv, CandidateHolds, Seen, SightingsAreTrue, Queue!SightingsAreTrue
<1> QED
  BY <1>1, FeedbackInvariance, PTL

\* The instance's Cardinality is the library's.
LEMMA SameCount == \A S : Queue!Cardinality(S) = Cardinality(S)
BY DEF Queue!Cardinality, Cardinality

LEMMA AtMostOne ==
  ASSUME NEW S, \A i, j \in S : i = j
  PROVE  ~(Cardinality(S) > 1)
<1>1. CASE S = {}
  BY <1>1, FS_EmptySet
<1>2. CASE S # {}
  <2>1. PICK i : S = {i}
    BY <1>2
  <2> QED
    BY <2>1, FS_Singleton
<1> QED
  BY <1>1, <1>2

\* A second open candidate of a key is the work of overlapping scans, of a reviewer who
\* filed one, or of a verdict that reopened one.
THEOREM TwinsHaveACause == TriageSpec => []TwinsAreExplained
<1>1. ASSUME FInv, NEW key \in Keys, Cardinality({id \in Queue!Of(key) : Queue!Open(id)}) > 1
      PROVE  crowded \/ \E id \in Queue!Of(key) : story[id].byHand \/ story[id].revived
  <2>1. ~(\A i, j \in Queue!Matches(key) : i = j)
    BY <1>1, AtMostOne DEF Queue!Matches
  <2>2. ~Orderly(key)
    BY <1>1, <2>1 DEF FInv, KeyHolds
  <2> QED
    BY <2>2 DEF Orderly
<1>2. FInv => TwinsAreExplained
  BY <1>1, SameCount DEF TwinsAreExplained, Queue!TwinsAreExplained
<1> QED
  BY <1>2, FeedbackInvariance, PTL
=============================================================================
