------------------------------ MODULE MCServer ------------------------------
(***************************************************************************)
(* Server with two requests and an upstream that answers well or fails.    *)
(***************************************************************************)
EXTENDS Server

CONSTANTS r1, r2, id1, id2

MCRequests == {r1, r2}
MCIds == {id1, id2}

MCReplies == {[status |-> 200, json |-> TRUE, choices |-> TRUE, retryAfter |-> FALSE],
              [status |-> 503, json |-> TRUE, choices |-> FALSE, retryAfter |-> FALSE]}
=============================================================================
