-------------------------- MODULE MCMessageHandler --------------------------
(***************************************************************************)
(* MessageHandler with two concurrent requests and one upstream answer of  *)
(* each sort the code tells apart.                                         *)
(***************************************************************************)
EXTENDS MessageHandler

CONSTANTS r1, r2, id1, id2

MCRequests == {r1, r2}
MCIds == {id1, id2}

Answer(status, json, choices, retryAfter) ==
    [status |-> status, json |-> json, choices |-> choices, retryAfter |-> retryAfter]

MCReplies == {Answer(200, TRUE, TRUE, FALSE), Answer(200, TRUE, FALSE, FALSE),
              Answer(200, FALSE, FALSE, FALSE), Answer(429, TRUE, FALSE, TRUE),
              Answer(429, FALSE, FALSE, TRUE), Answer(503, TRUE, FALSE, FALSE)}
=============================================================================
