--------------------------- MODULE MCPublicWidget ---------------------------
(* The instance of PublicWidget in which an owner rewrites what is live.   *)
EXTENDS PublicWidget

MCFirstOrigins == {{"page"}}
=============================================================================
