---------------------------- MODULE MCRateLimiter ----------------------------
(* Small instances for TLC.  A file upload is limited by its type. *)
EXTENDS RateLimiter

CONSTANTS c1, c2, c3, text, image

MCLimit == [t \in {text, image} |-> IF t = text THEN 1 ELSE 2]
MCKeys == {<<"planet", "file_upload">>, <<"planet", "typing_indicator">>}
=============================================================================
