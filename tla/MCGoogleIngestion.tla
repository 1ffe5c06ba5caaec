-------------------------- MODULE MCGoogleIngestion --------------------------
(* Small lists for GoogleIngestion: a family whose core is priced twice, a   *)
(* global SKU next to a regional one, SKUs and machine types left out, a    *)
(* machine type below a GiB, and prices in two currencies.                  *)
EXTENDS GoogleIngestion

CONSTANTS e2, usd, eur

Sku(id, group, value) ==
    [id |-> id, pricing |-> "rated", regions |-> <<"ours">>, group |-> group,
     family |-> IF group = "other" THEN Unknown ELSE e2,
     unit |-> IF group = "RAM" THEN "GiBy.h" ELSE "h",
     currency |-> usd, value |-> value, kept |-> TRUE]

Machine(id, cpus, mb) ==
    [id |-> id, family |-> e2, guestCpus |-> cpus, memoryMb |-> mb, kept |-> TRUE]

Standard == [skus |-> <<Sku(1, "RAM", 3), Sku(2, "CPU", 7), Sku(3, "CPU", 5)>>,
             machineTypes |-> <<Machine(9, 2, 8192), Machine(8, 1, 614)>>]
Regions  == [skus |-> <<[Sku(1, "RAM", 3) EXCEPT !.regions = <<"other">>],
                        [Sku(2, "CPU", 7) EXCEPT !.regions = <<"global", "other", "ours">>],
                        [Sku(4, "other", 1) EXCEPT !.pricing = "none"]>>,
             machineTypes |-> <<Machine(9, 2, 8192)>>]
Dropped  == [skus |-> <<[Sku(1, "RAM", 3) EXCEPT !.kept = FALSE], Sku(2, "CPU", 7),
                        [Sku(3, "CPU", 5) EXCEPT !.pricing = "noRates"]>>,
             machineTypes |-> <<[Machine(9, 1, 1000) EXCEPT !.family = Unknown],
                                Machine(8, 1, 2000)>>]
Mixed    == [skus |-> <<Sku(1, "RAM", 3), [Sku(2, "CPU", 7) EXCEPT !.currency = eur]>>,
             machineTypes |-> <<Machine(9, 2, 8192)>>]

MCLists == {Standard, Regions, Dropped, Mixed}
=============================================================================
