--------------------------- MODULE MCAwsIngestion ---------------------------
(* Small price lists for AwsIngestion: three SKUs, two prices of one, a row *)
(* that overwrites another, one the filter drops, and lists that end in     *)
(* each of the ways a list can be bad.  A run of BadPrice and one of Full   *)
(* use up the three ids before the row of s2.                               *)
EXTENDS AwsIngestion

CONSTANTS s1, s2, s3, here, there, f1, f2, a1, a2, h1, h2, v1, v2

R(sku, hash, value) ==
    [parses |-> "good", kept |-> TRUE, iso |-> TRUE, sku |-> sku,
     location |-> IF sku = s1 THEN here ELSE there, family |-> f1,
     attributes |-> a1, hash |-> hash, value |-> value]

List(rows) == [labels |-> TRUE, rows |-> rows]

Full     == List(<<R(s1, h1, v1), R(s2, h2, v1), R(s1, h2, v2), R(s1, h1, v2)>>)
Dropped  == List(<<[R(s1, h1, v2) EXCEPT !.kept = FALSE],
                   [R(s1, h2, v1) EXCEPT !.family = f2, !.attributes = a2]>>)
BadPrice == List(<<R(s2, h1, v2), R(s3, h1, v2), [R(s1, h1, v2) EXCEPT !.parses = "badPrice"], R(s2, h2, v2)>>)
Short    == List(<<R(s2, h2, v1), [R(s1, h1, v2) EXCEPT !.parses = "short"]>>)
Foreign  == List(<<R(s2, h1, v1), [R(s2, h2, v2) EXCEPT !.iso = FALSE], R(s1, h1, v1)>>)
NoList   == [labels |-> FALSE, rows |-> <<>>]

MCFeeds == {Full, Dropped, BadPrice, Short, Foreign, NoList}
=============================================================================
