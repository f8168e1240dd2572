------------------------------ MODULE Gateway ------------------------------
(***************************************************************************)
(* The public gateway: what it looks up for a request (PublicWidget) and   *)
(* whether the request may be made now (RateLimit, of which PublicWidget's *)
(* Enforce has the outcome).                                               *)
(***************************************************************************)
EXTENDS RateLimit

CONSTANTS
  Visits,           \* PublicWidget's Requests
  Keys, FirstKey, Pages, Refused, Wildcard, Covered, FirstOrigins,
  MaxRevision, MaxChanges, MaxWork, None

VARIABLES
  credential, tenant, allowed, widget, revisions, legacy, enabled,
  observed, cached, request, window, changes

Page == INSTANCE PublicWidget WITH Requests <- Visits

ASSUME GatewayAssumption == Page!Admissible

\* Nobody is let in or turned away for a reason that was never true while the
\* request ran: PublicWidget's property of the gateway's look-ups.
AnswersAreJust == Page!AnswersAreJust
\* A 304 is answered only to the holder of a configuration that was the
\* widget's during the request: PublicWidget's property of the entity tag.
NotModifiedIsTrue == Page!NotModifiedIsTrue
\* A page served under a listed origin has its installation observed:
\* PublicWidget's property of record_installation_observation.
VisitsAreObserved == Page!VisitsAreObserved
=============================================================================
