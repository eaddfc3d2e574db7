----------------------------- MODULE AtMostOnce -----------------------------
(***************************************************************************)
(* What an idempotency key promises: the operation of a key is started at  *)
(* most once, by one execution, and never again after that ended.          *)
(***************************************************************************)
CONSTANT Key

VARIABLE phase   \* of each key's operation

Init == phase = [k \in Key |-> "never"]

Start(k) ==
    /\ phase[k] = "never"
    /\ phase' = [phase EXCEPT ![k] = "running"]

End(k) ==
    /\ phase[k] = "running"
    /\ phase' = [phase EXCEPT ![k] = "ended"]

Next == \E k \in Key : Start(k) \/ End(k)

Spec == Init /\ [][Next]_phase
=============================================================================
