------------------------------- MODULE Billing -------------------------------
(***************************************************************************)
(* One organisation's subscription: the trial it starts with, checkout,    *)
(* cancellation and resumption through the payment provider, the           *)
(* provider's webhook, and the limit a plan sets on assistants.            *)
(*                                                                         *)
(* The provider keeps the truth and tells of every change in an event      *)
(* that holds a snapshot; it delivers events at least once and in any      *)
(* order, and never again once answered, which the webhook does with 200   *)
(* whether or not it could apply them.  Requests and deliveries interleave *)
(* at their database statements and at their calls of the provider; a      *)
(* commit writes the columns that were changed since the row was loaded.   *)
(***************************************************************************)
EXTENDS Integers, FiniteSets

CONSTANTS
  Threads,
  Plans, Starter,   \* the catalog, and the plan a trial starts on
  Prices,           \* the provider's prices a subscription may have
  PriceOf, PlanOf,  \* the prices configured: of a plan, and back; None where there is none
  Limit,            \* max_assistants of a plan, or Unlimited
  Unlimited,
  Subs,             \* subscriptions the provider may create
  MaxEvents,        \* bound: changes of a subscription at the provider
  MaxCheckouts,     \* bound: open checkout sessions
  MaxAssistants,    \* bound: assistants of the organisation
  None

ASSUME BillingAssumption ==
  /\ Starter \in Plans
  /\ PriceOf \in [Plans -> Prices \cup {None}] /\ PlanOf \in [Prices -> Plans \cup {None}]
  /\ Limit \in [Plans -> Nat \cup {Unlimited}] /\ Unlimited \notin Nat
  /\ MaxEvents \in Nat \ {0} /\ MaxCheckouts \in Nat /\ MaxAssistants \in Nat
  /\ None \notin Subs \cup Threads \cup Plans \cup Prices

VARIABLES
  row,         \* subscriptions: the organisation's row
  assistants,  \* number of widgets not archived
  provider,    \* external: the provider's subscriptions
  checkouts,   \* external: open checkout sessions
  events,      \* external: events the provider has yet to deliver, or may deliver again
  threads,     \* the requests and deliveries being served
  applied,     \* history: number of the newest event applied, by subscription
  disturbed,   \* history: an event was lost, or applied after a newer one
  excused      \* history: why more assistants than the plan's may exist

vars == <<row, assistants, provider, checkouts, events, threads, applied, disturbed, excused>>

Statuses == {"trialing", "active", "past_due", "canceled"}
Linked   == Subs \cup {None}
Columns  == [plan : Plans, status : Statuses, customer : BOOLEAN, sub : Linked, cancel : BOOLEAN]
Snapshot == [price : Prices, status : Statuses, cancel : BOOLEAN, n : 0 .. MaxEvents]
Checkout == [price : Prices, trial : BOOLEAN]
Event    == [kind : {"checkout", "subscription"}, sub : Subs, state : Snapshot]
Excuses  == {"unbilled", "duplicated", "overlapped", "replanned"}
Work     ==
  [op : {"view", "checkout", "cancel", "resume"}, at : {"insert", "act", "called"},
   plan : Plans \cup {None}, seen : Columns \cup {None}]
    \cup [op : {"webhook"}, event : Event, seen : Columns]
    \cup [op : {"assistant"}, counted : 0 .. MaxAssistants, plan : Plans \cup {None}]

\* No row, no request, no subscription yet: None is none of them.
ASSUME NoneAssumption == None \notin Columns \cup Snapshot \cup Work

TypeOK ==
  /\ row \in Columns \cup {None}
  /\ assistants \in 0 .. MaxAssistants
  /\ provider \in [Subs -> Snapshot \cup {None}]
  /\ checkouts \subseteq Checkout
  /\ events \subseteq Event
  /\ threads \in [Threads -> Work \cup {None}]
  /\ applied \in [Subs -> 0 .. MaxEvents]
  /\ disturbed \in BOOLEAN /\ excused \subseteq Excuses

-----------------------------------------------------------------------------
(* Requests, and columns written only when they have changed.              *)

Idle(t)           == threads[t] = None
At(t, op, at)     == ~Idle(t) /\ threads[t].op = op /\ threads[t].at = at
Serve(t, request) == threads' = [threads EXCEPT ![t] = request]
Done(t)           == threads' = [threads EXCEPT ![t] = None]

\* The row after a commit of new by a session that had loaded seen.
Written(new, seen) == [c \in DOMAIN row |-> IF new[c] = seen[c] THEN row[c] ELSE new[c]]

Trial == [plan |-> Starter, status |-> "trialing", customer |-> FALSE, sub |-> None, cancel |-> FALSE]

-----------------------------------------------------------------------------
(* The provider: a change, and the event that tells of it.                 *)

Exists(s)  == provider[s] # None
Runs(s)    == Exists(s) /\ provider[s].status # "canceled"
Told(s, kind, state) == events' = events \cup {[kind |-> kind, sub |-> s, state |-> state]}

Change(s, state) ==
  LET next == [state EXCEPT !.n = @ + 1] IN
  /\ provider[s].n < MaxEvents
  /\ provider' = [provider EXCEPT ![s] = next]
  /\ Told(s, "subscription", next)

\* The visitor pays: the session's completion and the subscription are both told.
CompleteCheckout(s) ==
  /\ ~Exists(s)
  /\ \E c \in checkouts :
       LET made == [price |-> c.price, status |-> IF c.trial THEN "trialing" ELSE "active",
                    cancel |-> FALSE, n |-> 1] IN
       /\ checkouts' = checkouts \ {c}
       /\ provider' = [provider EXCEPT ![s] = made]
       /\ events' = events \cup {[kind |-> kind, sub |-> s, state |-> made] :
                                   kind \in {"checkout", "subscription"}}
  /\ UNCHANGED <<row, assistants, threads, applied, disturbed, excused>>

\* Payments, the end of a period, and what the owner does in the provider's portal.
ChangeSubscription(s) ==
  /\ Runs(s)
  /\ \/ \E price \in Prices \ {provider[s].price} : Change(s, [provider[s] EXCEPT !.price = price])
     \/ \E status \in Statuses \ {provider[s].status, "trialing"} :
          Change(s, [provider[s] EXCEPT !.status = status])
     \/ \E cancel \in BOOLEAN \ {provider[s].cancel} :
          Change(s, [provider[s] EXCEPT !.cancel = cancel])
  /\ UNCHANGED <<row, assistants, checkouts, threads, applied, disturbed, excused>>

-----------------------------------------------------------------------------
(* The organisation's requests.                                            *)

Requests == {"view", "checkout", "cancel", "resume"}

\* Whether the request may go on with the row it has.
Admits(op, seen) ==
  CASE op = "view" -> FALSE
    [] op = "checkout" -> TRUE
    [] op = "cancel" -> seen.sub # None
    [] op = "resume" -> seen.sub # None /\ seen.cancel

Request(op, at, plan, seen) == [op |-> op, at |-> at, plan |-> plan, seen |-> seen]

\* A checkout names a plan, and is refused at once when the plan has no price.
FindSubscription(t, op, plan) ==
  /\ Idle(t)
  /\ plan # None <=> op = "checkout"
  /\ plan # None => PriceOf[plan] # None
  /\ IF row = None
       THEN Serve(t, Request(op, "insert", plan, None))
       ELSE Admits(op, row) /\ Serve(t, Request(op, "act", plan, row))
  /\ UNCHANGED <<row, assistants, provider, checkouts, events, applied, disturbed, excused>>

\* One row per organisation: the second of two trials is refused.
StartTrial(t) ==
  /\ ~Idle(t) /\ threads[t].op \in Requests /\ threads[t].at = "insert"
  /\ row' = IF row = None THEN Trial ELSE row
  /\ IF row = None /\ Admits(threads[t].op, Trial)
       THEN threads' = [threads EXCEPT ![t].at = "act", ![t].seen = Trial]
       ELSE Done(t)
  /\ UNCHANGED <<assistants, provider, checkouts, events, applied, disturbed, excused>>

\* ensure_customer, and the commit of a new customer's id.
EnsureCustomer(t) ==
  LET new == IF threads[t].seen.customer THEN row
             ELSE Written([threads[t].seen EXCEPT !.customer = TRUE], threads[t].seen) IN
  /\ At(t, "checkout", "act")
  /\ row' = new
  /\ threads' = [threads EXCEPT ![t].at = "called",
       ![t].seen = IF threads[t].seen.customer THEN @ ELSE new]
  /\ UNCHANGED <<assistants, provider, checkouts, events, applied, disturbed, excused>>

\* The trial of the provider is offered as long as no subscription is linked.
OpenCheckout(t) ==
  /\ At(t, "checkout", "called") /\ Cardinality(checkouts) < MaxCheckouts
  /\ checkouts' = checkouts \cup 
       {[price |-> PriceOf[threads[t].plan], trial |-> threads[t].seen.sub = None]}
  /\ Done(t)
  /\ UNCHANGED <<row, assistants, provider, events, applied, disturbed, excused>>

\* The provider refuses to modify a subscription that has ended, which fails the request.
CallProvider(t, op, cancel) ==
  LET s == threads[t].seen.sub IN
  /\ At(t, op, "act")
  /\ \/ /\ Runs(s)
        /\ Change(s, [provider[s] EXCEPT !.cancel = cancel])
        /\ threads' = [threads EXCEPT ![t].at = "called"]
     \/ /\ ~Runs(s)
        /\ Done(t) /\ UNCHANGED <<provider, events>>
  /\ UNCHANGED <<row, assistants, checkouts, applied, disturbed, excused>>

CommitCancellationWhole(t, op, cancel) ==
  /\ At(t, op, "called")
  /\ row' = [threads[t].seen EXCEPT !.cancel = cancel]
  /\ Done(t)
  /\ UNCHANGED <<assistants, provider, checkouts, events, applied, disturbed, excused>>

CommitCancellation(t, op, cancel) ==
  /\ At(t, op, "called")
  /\ row' = Written([threads[t].seen EXCEPT !.cancel = cancel], threads[t].seen)
  /\ Done(t)
  /\ UNCHANGED <<assistants, provider, checkouts, events, applied, disturbed, excused>>

-----------------------------------------------------------------------------
(* The webhook.                                                            *)

\* The row is found by its subscription, its customer or the organisation that
\* every checkout names, of which the last always finds it.
Receive(t, e) ==
  /\ Idle(t) /\ row # None /\ e \in events
  /\ Serve(t, [op |-> "webhook", event |-> e, seen |-> row])
  /\ UNCHANGED <<row, assistants, provider, checkouts, events, applied, disturbed, excused>>

\* A price that is not configured leaves the row the plan it has.
PlanAfter(price, plan) == IF PlanOf[price] = None THEN plan ELSE PlanOf[price]

Effect(e, seen) ==
  IF e.kind = "checkout"
    THEN [seen EXCEPT !.sub = e.sub, !.customer = TRUE]
    ELSE [seen EXCEPT !.sub = e.sub, !.customer = TRUE, !.plan = PlanAfter(e.state.price, @),
                      !.status = e.state.status, !.cancel = e.state.cancel]

\* An answer that does not reach the provider leaves the event to be delivered again.
ApplyEvent(t) ==
  LET e == threads[t].event IN
  /\ ~Idle(t) /\ threads[t].op = "webhook"
  /\ row' = Written(Effect(e, threads[t].seen), threads[t].seen)
  /\ \E again \in BOOLEAN : events' = IF again THEN events ELSE events \ {e}
  /\ IF e.kind = "subscription"
       THEN /\ disturbed' = (disturbed \/ e.state.n < applied[e.sub]
                               \/ \E u \in Threads \ {t} : ~Idle(u) /\ threads[u].op = "webhook")
            /\ applied' = [applied EXCEPT ![e.sub] = IF e.state.n > @ THEN e.state.n ELSE @]
       ELSE UNCHANGED <<disturbed, applied>>
  /\ excused' = IF row'.plan = row.plan THEN excused ELSE excused \cup {"replanned"}
  /\ Done(t)
  /\ UNCHANGED <<assistants, provider, checkouts>>

\* The processing raises and is rolled back; the event is answered all the same.
LoseEvent(t) ==
  /\ ~Idle(t) /\ threads[t].op = "webhook"
  /\ events' = events \ {threads[t].event}
  /\ disturbed' = TRUE
  /\ Done(t)
  /\ UNCHANGED <<row, assistants, provider, checkouts, applied, excused>>

-----------------------------------------------------------------------------
(* Assistants.                                                             *)

NotAbove(plan, count) == Limit[plan] # Unlimited => count <= Limit[plan]

WithinLimit(plan, count) == Limit[plan] # Unlimited => count < Limit[plan]

AskAssistant(t) ==
  /\ Idle(t)
  /\ row # None => WithinLimit(row.plan, assistants)
  /\ Serve(t, [op |-> "assistant", counted |-> assistants, plan |-> IF row = None THEN None ELSE row.plan])
  /\ UNCHANGED <<row, assistants, provider, checkouts, events, applied, disturbed, excused>>

CreateAssistant(t) ==
  LET r == threads[t] IN
  /\ ~Idle(t) /\ r.op = "assistant"
  /\ assistants < MaxAssistants
  /\ assistants' = assistants + 1
  /\ excused' = excused
       \cup {x \in {"overlapped"} : r.counted # assistants}
       \cup {x \in {"unbilled"} : r.plan = None}
       \cup {x \in {"replanned"} : row # None /\ r.plan # row.plan}
  /\ Done(t)
  /\ UNCHANGED <<row, provider, checkouts, events, applied, disturbed>>

\* The limit is not looked at.
DuplicateAssistant ==
  /\ assistants \in 1 .. MaxAssistants - 1
  /\ assistants' = assistants + 1
  /\ excused' = excused \cup {"duplicated"}
  /\ UNCHANGED <<row, provider, checkouts, events, threads, applied, disturbed>>

ArchiveAssistant ==
  /\ assistants > 0
  /\ assistants' = assistants - 1
  /\ UNCHANGED <<row, provider, checkouts, events, threads, applied, disturbed, excused>>

\* A process dies: what was not committed is lost, an event is delivered again.
Die(t) ==
  /\ ~Idle(t)
  /\ Done(t)
  /\ UNCHANGED <<row, assistants, provider, checkouts, events, applied, disturbed, excused>>

\* A registration starts the trial; an organisation that predates billing has none.
Init ==
  /\ row \in {None, Trial}
  /\ assistants = 0
  /\ provider = [s \in Subs |-> None]
  /\ checkouts = {} /\ events = {}
  /\ threads = [t \in Threads |-> None]
  /\ applied = [s \in Subs |-> 0]
  /\ disturbed = FALSE /\ excused = {}

Next ==
  \/ \E t \in Threads :
       \/ \E op \in Requests, plan \in Plans \cup {None} : FindSubscription(t, op, plan)
       \/ StartTrial(t)
       \/ EnsureCustomer(t) \/ OpenCheckout(t)
       \/ CallProvider(t, "cancel", TRUE) \/ CommitCancellation(t, "cancel", TRUE)
       \/ CallProvider(t, "resume", FALSE) \/ CommitCancellation(t, "resume", FALSE)
       \/ \E e \in events : Receive(t, e)
       \/ ApplyEvent(t) \/ LoseEvent(t)
       \/ AskAssistant(t) \/ CreateAssistant(t)
       \/ Die(t)
  \/ \E s \in Subs : CompleteCheckout(s) \/ ChangeSubscription(s)
  \/ DuplicateAssistant \/ ArchiveAssistant

Spec == Init /\ [][Next]_vars

-----------------------------------------------------------------------------
(* Properties.                                                             *)

\* As long as no event is lost, overtaken or processed next to another, the row
\* says what the provider says once it has told all: its subscription, its status
\* and, if the price is configured, the plan of its price.  No request of the
\* owner, however it overlaps a delivery, undoes the plan or the status an event
\* brought (api/v1/billing.py:140, billing/service.py:134).  With a price that is
\* not configured the row keeps the plan of an earlier one: nothing is claimed.
InOrderAgreement ==
  \A s \in Subs :
    /\ ~disturbed /\ Exists(s) /\ \A u \in Subs \ {s} : ~Exists(u)
    /\ applied[s] = provider[s].n
    => /\ row.sub = s /\ row.status = provider[s].status
       /\ PlanOf[provider[s].price] \in {None, row.plan}

\* A plan's limit is exceeded only by a duplicated assistant, by creations that
\* overlap, by a change of plan and by what was created before the organisation
\* had a billing record (billing/service.py:59).
ExcessIsExplained ==
  row # None /\ excused = {} => NotAbove(row.plan, assistants)
=============================================================================
