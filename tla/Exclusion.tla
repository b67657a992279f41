------------------------------ MODULE Exclusion ------------------------------
(***************************************************************************)
(* What the lock of web/dist promises: builds run one at a time.           *)
(***************************************************************************)
CONSTANT Builders

VARIABLE running   \* the builders whose build is running

Init == running = {}

Begin(b) == running = {} /\ running' = {b}
End(b) == b \in running /\ running' = running \ {b}

Next == \E b \in Builders : Begin(b) \/ End(b)

Spec == Init /\ [][Next]_running
=============================================================================
