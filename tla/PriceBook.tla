------------------------------ MODULE PriceBook ------------------------------
(***************************************************************************)
(* What the ingestion of a price list promises, whatever the provider and  *)
(* however many goroutines, channels and statements it takes: the book of  *)
(* prices, one for each product and hash, takes over the entries of the    *)
(* list one at a time and in order.  A run may stop anywhere, and the last *)
(* entry it reached may or may not have been written; it succeeds only at  *)
(* the end of the list.  The next run starts over the book it left.  Once  *)
(* the ids of products are used up, an entry may be filed under any one.   *)
(***************************************************************************)
EXTENDS Integers, Sequences

CONSTANTS Products, PriceHashes,
          NoPrice,      \* what the book has where nothing was written
          Lists         \* price lists: sequences of [key, hash, value]

VARIABLES book, list,
          written,      \* entries of the list the run has written
          status,
          idsLeft

bookVars == <<book, list, written, status, idsLeft>>

Init ==
    /\ book = [e \in Products \X PriceHashes |-> NoPrice]
    /\ list \in Lists
    /\ written = 0
    /\ status = "running"
    /\ idsLeft = TRUE

(* The n-th entry is written, under its own product while there are ids.  *)
Enter(n) == \E p \in Products :
    /\ idsLeft => p = list[n].key
    /\ book' = [book EXCEPT ![<<p, list[n].hash>>] = list[n].value]

(* The next entry is written, and known to be. *)
Write ==
    /\ status = "running"
    /\ written < Len(list)
    /\ Enter(written + 1)
    /\ written' = written + 1
    /\ UNCHANGED <<list, status, idsLeft>>

(* The run stops, the next entry written or not. *)
Stop ==
    /\ status = "running"
    /\ \/ UNCHANGED book
       \/ written < Len(list) /\ Enter(written + 1)
    /\ status' = "stopped"
    /\ UNCHANGED <<list, written, idsLeft>>

(* The last id is given to a product; the run may stop in that. *)
UseUpIDs ==
    /\ status = "running"
    /\ idsLeft /\ ~idsLeft'
    /\ status' \in {"running", "stopped"}
    /\ UNCHANGED <<book, list, written>>

(* The run reports success. *)
Succeed ==
    /\ status = "running"
    /\ written = Len(list)
    /\ status' = "ok"
    /\ UNCHANGED <<book, list, written, idsLeft>>

(* Another run, over a list published since. *)
Restart ==
    /\ status # "running"
    /\ list' \in Lists
    /\ written' = 0
    /\ status' = "running"
    /\ UNCHANGED <<book, idsLeft>>

Next == Write \/ Stop \/ UseUpIDs \/ Succeed \/ Restart

Spec == Init /\ [][Next]_bookVars
=============================================================================
