----------------------------- MODULE MCGateway -----------------------------
(* Small instances of the two halves of the public gateway, one after the  *)
(* other in one run.  The half a behaviour is about moves, the other rests *)
(* in one initial state.                                                   *)
EXTENDS Gateway, TLC

VARIABLE half

\* A rule everybody shares that may fail open, then a rule per client that may
\* not; the second one refills faster than a request takes.
Capacities == <<2, 1>>
Refills == <<2, 2>>
Periods == <<2, 3>>

\* The two clients and the two visits, exchanged together: only one half moves.
Other(x) == IF x \in Clients THEN CHOOSE c \in Clients \ {x} : TRUE ELSE CHOOSE v \in Visits \ {x} : TRUE

Interchangeable == Permutations(Requests) \union {[x \in Clients \union Visits |-> Other(x)]}

GatewayInit ==
  /\ half \in {"limiter", "page"}
  /\ Init /\ Page!Init
  /\ half = "limiter" => allowed["k1"] = {"page"} /\ legacy["k1"] = Page!NoConfiguration
                         /\ widget.active = 0

pageVars == <<credential, tenant, allowed, widget, revisions, legacy, enabled,
              observed, cached, request, window, changes>>

LimiterMoves == half = "limiter" /\ Next /\ UNCHANGED <<half, pageVars>>
PageMoves == half = "page" /\ Page!Next /\ UNCHANGED <<half, vars>>
GatewayNext == LimiterMoves \/ PageMoves

GatewaySpec == GatewayInit /\ [][GatewayNext]_<<half, vars, pageVars>>
=============================================================================
