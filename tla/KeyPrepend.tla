----------------------------- MODULE KeyPrepend -----------------------------
(***************************************************************************)
(* KeyRotation with the operator that crypto.py describes: a new key is    *)
(* put in front of the others, whoever is running.                         *)
(***************************************************************************)
EXTENDS KeyRotation

Prepend(k) ==
    /\ k \notin env.keys
    /\ env' = [primary |-> k, keys |-> env.keys \cup {k}]
    /\ UNCHANGED <<cipher, token, listed, stored>>

PrependNext ==
    \/ \E p \in Processes :
          \/ Start(p) \/ Stop(p) \/ List(p)
          \/ \E m \in Magazines : Rotate(p, m) \/ \E v \in Values : Store(p, m, v)
    \/ \E k \in Keys : Prepend(k)

PrependSpec == Init /\ [][PrependNext]_vars

(* "rotating keys is a config change (prepend the new key) -- no downtime"
   (crypto.py:9): no list_for_user ends in a CryptoError. *)
NoDowntime == \A p \in Processes : listed[p] # "crypto_error"

=============================================================================
