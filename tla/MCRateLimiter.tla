--------------------------- MODULE MCRateLimiter ---------------------------
(***************************************************************************)
(* RateLimiter with two clients, three requests per window and a window    *)
(* of three ticks: requests fall before, on and after every boundary.      *)
(***************************************************************************)
EXTENDS RateLimiter

CONSTANTS ip1, ip2

MCKeys == {ip1, ip2}
=============================================================================
