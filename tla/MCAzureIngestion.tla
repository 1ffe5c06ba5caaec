-------------------------- MODULE MCAzureIngestion --------------------------
(* Small price lists for AzureIngestion: pages of any size over six rows,  *)
(* one of them dropped by the filter, an item that does not decode, a price *)
(* in a currency the tables reject, and a SKU in two locations.             *)
EXTENDS AzureIngestion

CONSTANTS s1, s2, here, there, f1, a1, h1, v1, v2

R(sku) == [parses |-> "good", kept |-> TRUE, iso |-> TRUE, sku |-> sku,
           location |-> here, family |-> f1, attributes |-> a1,
           hash |-> h1, value |-> IF sku = s1 THEN v1 ELSE v2]

Full   == [rows |-> <<R(s1), R(s2), R(s1), R(s2), R(s2), R(s1)>>]
Mixed  == [rows |-> <<R(s1), [R(s2) EXCEPT !.kept = FALSE], R(s2)>>]
Broken == [rows |-> <<R(s1), [R(s2) EXCEPT !.parses = "badPrice"]>>]
Foreign == [rows |-> <<R(s1), [R(s2) EXCEPT !.iso = FALSE]>>]
Zoned == [rows |-> <<R(s1), [R(s1) EXCEPT !.location = there, !.value = v2], R(s2)>>]

MCFeeds == {Full, Mixed, Broken, Foreign, Zoned}
=============================================================================
