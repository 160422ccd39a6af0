--------------------------- MODULE SingleFlight ---------------------------
(***************************************************************************)
(* What cache_refresh_helpers.py promises of each key: a refresh that was  *)
(* accepted is carried out, one refresh of a key at a time.                *)
(***************************************************************************)
CONSTANT Keys
VARIABLE flight   \* flight[k]: "idle", "queued" or "running"

Init == flight = [k \in Keys |-> "idle"]

Moves(k, from, to) == flight[k] = from /\ flight' = [flight EXCEPT ![k] = to]

Accept(k) == Moves(k, "idle", "queued")
Begin(k) == Moves(k, "queued", "running")
Finish(k) == Moves(k, "running", "idle")

Next == \E k \in Keys : Accept(k) \/ Begin(k) \/ Finish(k)

Spec == Init /\ [][Next]_flight
=============================================================================
