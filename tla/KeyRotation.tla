----------------------------- MODULE KeyRotation -----------------------------
(***************************************************************************)
(* Encrypted tokens of the magazines table while FERNET_KEYS changes.  The *)
(* processes (bots, worker, admin API) share the table; each takes the     *)
(* keys from its environment when it starts and keeps the cipher it builds *)
(* from them (lru_cache) until it stops.  The operator edits the setting   *)
(* and restarts one process after another.                                 *)
(*                                                                         *)
(* A tuple of keys is its first one, which encrypts, and the set of all of *)
(* them, which are tried on decryption.  Here the operator stages a new    *)
(* key: append, restart, promote, restart, re-encrypt, drop the old ones.  *)
(***************************************************************************)

CONSTANTS
    Processes,
    Magazines,  \* the rows of one user
    Keys,
    FirstKey,   \* the key of the first deployment
    Values      \* plaintexts of a token

Down == [primary |-> "down", keys |-> {}]
NoToken == [key |-> "null", plain |-> "null"]

ASSUME RotationAssumption ==
    /\ FirstKey \in Keys
    /\ "down" \notin Keys
    /\ "null" \notin Keys

VARIABLES
    env,     \* FERNET_KEYS as configured
    cipher,  \* the cipher of each process, Down if it is not running
    token,   \* the ciphertext in each row: its key and what it says
    listed,  \* how the latest list_for_user of each process ended
    stored   \* observation: the plaintext stored last in each row

vars == <<env, cipher, token, listed, stored>>

Tuples == {t \in [primary : Keys, keys : SUBSET Keys] : t.primary \in t.keys}
Ciphertexts == [key : Keys, plain : Values]

TypeOK ==
    /\ env \in Tuples
    /\ cipher \in [Processes -> Tuples \cup {Down}]
    /\ token \in [Magazines -> Ciphertexts \cup {NoToken}]
    /\ listed \in [Processes -> {"none", "ok", "crypto_error"}]
    /\ stored \in [Magazines -> Values \cup {"null"}]

Init ==
    /\ env = [primary |-> FirstKey, keys |-> {FirstKey}]
    /\ cipher = [p \in Processes |-> Down]
    /\ token = [m \in Magazines |-> NoToken]
    /\ listed = [p \in Processes |-> "none"]
    /\ stored = [m \in Magazines |-> "null"]

Running == {p \in Processes : cipher[p] # Down}
Filled == {m \in Magazines : token[m] # NoToken}

-----------------------------------------------------------------------------
(* FernetCipher. *)

Encrypt(c, v) == [key |-> c.primary, plain |-> v]

CanDecrypt(c, t) == t.key \in c.keys

\* Variant: every key is tried.
Faulty_NeedsReencryption(c, t) == t.key \notin c.keys

NeedsReencryption(c, t) == t.key # c.primary

-----------------------------------------------------------------------------
(* The processes. *)

\* Variant: only the fallback keys are tried.
Faulty_Start(p) ==
    /\ p \notin Running
    /\ cipher' = [cipher EXCEPT ![p] = [env EXCEPT !.keys = @ \ {env.primary}]]
    /\ UNCHANGED <<env, token, listed, stored>>

Start(p) ==
    /\ p \notin Running
    /\ cipher' = [cipher EXCEPT ![p] = env]
    /\ UNCHANGED <<env, token, listed, stored>>

Stop(p) ==
    /\ p \in Running
    /\ cipher' = [cipher EXCEPT ![p] = Down]
    /\ listed' = [listed EXCEPT ![p] = "none"]
    /\ UNCHANGED <<env, token, stored>>

\* A row is added, or loaded and given another token.  A row that cannot be
\* decrypted cannot be loaded; an unchanged token is not written.
Store(p, m, v) ==
    /\ p \in Running
    /\ m \in Filled => CanDecrypt(cipher[p], token[m]) /\ v # token[m].plain
    /\ token' = [token EXCEPT ![m] = Encrypt(cipher[p], v)]
    /\ stored' = [stored EXCEPT ![m] = v]
    /\ UNCHANGED <<env, cipher, listed>>

\* list_for_user decrypts every row: one that it cannot fails them all.
List(p) ==
    /\ p \in Running
    /\ listed' = [listed EXCEPT ![p] =
                    IF \A m \in Filled : CanDecrypt(cipher[p], token[m])
                    THEN "ok" ELSE "crypto_error"]
    /\ UNCHANGED <<env, cipher, token, stored>>

\* rotate, for a row that needs_reencryption: the job of the operator that
\* crypto.py provides it for, which locks the row it is at.
Rotate(p, m) ==
    /\ p \in Running
    /\ m \in Filled
    /\ CanDecrypt(cipher[p], token[m])
    /\ NeedsReencryption(cipher[p], token[m])
    /\ token' = [token EXCEPT ![m] = Encrypt(cipher[p], token[m].plain)]
    /\ UNCHANGED <<env, cipher, listed, stored>>

-----------------------------------------------------------------------------
(* The operator. *)

\* A new key is put behind the others ...
Stage(k) ==
    /\ k \notin env.keys
    /\ env' = [env EXCEPT !.keys = @ \cup {k}]
    /\ UNCHANGED <<cipher, token, listed, stored>>

\* ... goes to the front when every running process has it ...
Promote(k) ==
    /\ k \in env.keys
    /\ \A p \in Running : k \in cipher[p].keys
    /\ env' = [env EXCEPT !.primary = k]
    /\ UNCHANGED <<cipher, token, listed, stored>>

\* ... and replaces the others when every running process encrypts with it and
\* no row needs_reencryption.
Drop ==
    /\ \A p \in Running : cipher[p].primary = env.primary
    /\ \A m \in Filled : ~NeedsReencryption(env, token[m])
    /\ env' = [env EXCEPT !.keys = {env.primary}]
    /\ UNCHANGED <<cipher, token, listed, stored>>

-----------------------------------------------------------------------------

Next ==
    \/ \E p \in Processes :
          \/ Start(p) \/ Stop(p) \/ List(p)
          \/ \E m \in Magazines : Rotate(p, m) \/ \E v \in Values : Store(p, m, v)
    \/ \E k \in Keys : Stage(k) \/ Promote(k)
    \/ Drop

Spec == Init /\ [][Next]_vars

-----------------------------------------------------------------------------

(* Every process, whatever keys it was started with, reads in every row the
   token that was stored last: no rotation, restart or dropped key changes or
   hides one. *)
ReadsBack ==
    \A p \in Running, m \in Filled :
        CanDecrypt(cipher[p], token[m]) /\ token[m].plain = stored[m]

=============================================================================
