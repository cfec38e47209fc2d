---------------------------- MODULE DatabaseProofs --------------------------
(***************************************************************************)
(* The two components whose processes meet in rows of Postgres.            *)
(* KeyRotation, for every set of processes, rows and keys: its types, and  *)
(* that every running process reads back what was stored.                  *)
(* UnitsOfWork, for every set of units and size of the pool: its types,    *)
(* the pool's bound among them, and that a set that returns took effect.   *)
(***************************************************************************)
EXTENDS KeyRotation, UnitsOfWork, FiniteSetTheorems, TLAPS

-----------------------------------------------------------------------------
(* KeyRotation. *)

\* Whatever a running process, or one that starts now, encrypts with is known
\* to all the others, and the operator still has it in the setting.
KeysShared ==
    \A p \in Running :
        /\ env.primary \in cipher[p].keys
        /\ cipher[p].primary \in env.keys
        /\ \A q \in Running : cipher[p].primary \in cipher[q].keys

\* So is the key of every row.
TokensShared ==
    \A m \in Filled :
        /\ token[m].key \in env.keys
        /\ \A p \in Running : token[m].key \in cipher[p].keys
        /\ token[m].plain = stored[m]

\* Inductive: ReadsBack speaks of the processes that run now, TokensShared also
\* of those that start later, and KeysShared of what they will write.
RotationInv == TypeOK /\ KeysShared /\ TokensShared

-----------------------------------------------------------------------------

LEMMA CipherFacts ==
    ASSUME TypeOK
    PROVE  /\ Down \notin Tuples
           /\ NoToken \notin Ciphertexts
           /\ \A p \in Running : cipher[p] \in Tuples
           /\ \A m \in Filled : token[m] \in Ciphertexts
  <1>1. Down \notin Tuples /\ NoToken \notin Ciphertexts
    BY RotationAssumption DEF Down, NoToken, Tuples, Ciphertexts
  <1> QED
    BY <1>1 DEF TypeOK, Running, Filled

LEMMA Encrypted ==
    ASSUME NEW c \in Tuples, NEW v \in Values
    PROVE  /\ Encrypt(c, v) \in Ciphertexts
           /\ Encrypt(c, v).key = c.primary
           /\ Encrypt(c, v).plain = v
  <1> QED
    BY DEF Encrypt, Tuples, Ciphertexts

\* A row written by a running process.
LEMMA Written ==
    ASSUME RotationInv, NEW p \in Running, NEW m \in Magazines, NEW v \in Values,
           token' = [token EXCEPT ![m] = Encrypt(cipher[p], v)],
           stored' = [stored EXCEPT ![m] = v],
           UNCHANGED <<env, cipher, listed>>
    PROVE  RotationInv'
  <1>1. cipher[p] \in Tuples
    BY CipherFacts DEF RotationInv
  <1>2. TypeOK'
    BY <1>1, Encrypted DEF RotationInv, TypeOK
  <1>3. Running' = Running
    BY DEF Running
  <1>4. KeysShared'
    BY <1>3 DEF RotationInv, KeysShared
  <1>5. ASSUME NEW n \in Filled'
        PROVE  /\ token'[n].key \in env.keys
               /\ \A q \in Running : token'[n].key \in cipher[q].keys
               /\ token'[n].plain = stored'[n]
    <2>1. n \in Magazines /\ token'[n] # NoToken
      BY DEF Filled
    <2>2. CASE n = m
      <3>1. token'[n] = Encrypt(cipher[p], v) /\ stored'[n] = v
        BY <2>1, <2>2 DEF RotationInv, TypeOK
      <3> QED
        BY <1>1, <3>1, Encrypted DEF RotationInv, KeysShared
    <2>3. CASE n # m
      BY <2>1, <2>3 DEF RotationInv, TypeOK, TokensShared, Filled
    <2> QED
      BY <2>2, <2>3
  <1> QED
    BY <1>2, <1>3, <1>4, <1>5 DEF RotationInv, TokensShared

LEMMA RotationStep ==
    ASSUME RotationInv, Next
    PROVE  RotationInv'
  <1> USE DEF RotationInv
  <1>1. ASSUME NEW p \in Processes, Start(p)  PROVE RotationInv'
    <2>1. TypeOK'
      BY <1>1 DEF Start, TypeOK
    <2>2. env \in Tuples /\ env.primary \in env.keys
      BY DEF TypeOK, Tuples
    <2>3. \A q \in Running' :
            \/ q = p /\ cipher'[q] = env
            \/ q \in Running /\ cipher'[q] = cipher[q]
      BY <1>1 DEF Start, Running, TypeOK
    <2>4. KeysShared'
      BY <1>1, <2>2, <2>3 DEF Start, KeysShared
    <2>5. TokensShared'
      BY <1>1, <2>3 DEF Start, TokensShared, Filled
    <2> QED
      BY <2>1, <2>4, <2>5
  <1>2. ASSUME NEW p \in Processes, Stop(p)  PROVE RotationInv'
    <2>1. TypeOK'
      BY <1>2 DEF Stop, TypeOK
    <2>2. \A q \in Running' : q \in Running /\ cipher'[q] = cipher[q]
      BY <1>2 DEF Stop, Running, TypeOK
    <2>3. KeysShared' /\ TokensShared'
      BY <1>2, <2>2 DEF Stop, KeysShared, TokensShared, Filled
    <2> QED
      BY <2>1, <2>3
  <1>3. ASSUME NEW p \in Processes, List(p)  PROVE RotationInv'
    BY <1>3 DEF List, TypeOK, KeysShared, TokensShared, Running, Filled
  <1>4. ASSUME NEW p \in Processes, NEW m \in Magazines, NEW v \in Values, Store(p, m, v)
        PROVE  RotationInv'
    BY <1>4, Written DEF Store
  <1>5. ASSUME NEW p \in Processes, NEW m \in Magazines, Rotate(p, m)  PROVE RotationInv'
    <2>1. m \in Filled /\ token[m].plain \in Values /\ token[m].plain = stored[m]
      BY <1>5, CipherFacts DEF Rotate, TokensShared, Ciphertexts
    <2>2. stored' = [stored EXCEPT ![m] = token[m].plain]
      BY <1>5, <2>1 DEF Rotate, TypeOK
    <2> QED
      BY <1>5, <2>1, <2>2, Written DEF Rotate
  <1>6. ASSUME NEW k \in Keys, Stage(k)  PROVE RotationInv'
    <2>1. env' \in Tuples /\ env'.primary = env.primary /\ env.keys \subseteq env'.keys
      BY <1>6 DEF Stage, TypeOK, Tuples
    <2>2. UNCHANGED <<Running, Filled, cipher, token, stored>>
      BY <1>6 DEF Stage, Running, Filled
    <2> QED
      BY <1>6, <2>1, <2>2 DEF Stage, TypeOK, KeysShared, TokensShared
  <1>7. ASSUME NEW k \in Keys, Promote(k)  PROVE RotationInv'
    <2>1. env' \in Tuples /\ env'.primary = k /\ env'.keys = env.keys
      BY <1>7 DEF Promote, TypeOK, Tuples
    <2>2. UNCHANGED <<Running, Filled, cipher, token, stored>>
      BY <1>7 DEF Promote, Running, Filled
    <2> QED
      BY <1>7, <2>1, <2>2 DEF Promote, TypeOK, KeysShared, TokensShared
  <1>8. CASE Drop
    <2>1. env' \in Tuples /\ env'.primary = env.primary /\ env'.keys = {env.primary}
      BY <1>8 DEF Drop, TypeOK, Tuples
    <2>2. UNCHANGED <<Running, Filled, cipher, token, stored>>
      BY <1>8 DEF Drop, Running, Filled
    <2> QED
      BY <1>8, <2>1, <2>2 DEF Drop, NeedsReencryption, TypeOK, KeysShared, TokensShared
  <1> QED
    BY <1>1, <1>2, <1>3, <1>4, <1>5, <1>6, <1>7, <1>8 DEF Next

LEMMA RotationInvariant == Spec => []RotationInv
  <1>1. Init => RotationInv
    BY RotationAssumption
    DEF Init, RotationInv, TypeOK, KeysShared, TokensShared, Running, Filled, Tuples
  <1>2. RotationInv /\ [Next]_vars => RotationInv'
    BY RotationStep DEF vars, RotationInv, TypeOK, KeysShared, TokensShared, Running, Filled
  <1> QED
    BY <1>1, <1>2, PTL DEF Spec

(* The setting and every cipher have a primary key among their keys, and the
   rows hold ciphertexts. *)
THEOREM RotationTypeCorrect == Spec => []TypeOK
  <1>1. RotationInv => TypeOK
    BY DEF RotationInv
  <1> QED
    BY <1>1, RotationInvariant, PTL

(* With staged keys, every process reads in every row what was stored last,
   for any number of processes, rows, keys, restarts and rotations. *)
THEOREM AlwaysReadsBack == Spec => []ReadsBack
  <1>1. RotationInv => ReadsBack
    BY DEF RotationInv, TokensShared, ReadsBack, CanDecrypt
  <1> QED
    BY <1>1, RotationInvariant, PTL

-----------------------------------------------------------------------------
(* UnitsOfWork. *)

\* A set that finds or has found its balance committed has noticed it.
Witnessed ==
    \A u \in Units :
        phase[u] # "idle" /\ KindOf[u] = "set" /\ balance = Want[u] => u \in seen

\* A set comes to its end because it found its balance, or has written it.
EndsWell ==
    \A u \in Units :
        phase[u] = "ending" /\ KindOf[u] = "set" => u \in seen \/ writer = u

\* Only sets write and only probes ping.
Roles ==
    \A u \in Units :
        /\ phase[u] \in {"inserting", "updating"} => KindOf[u] = "set"
        /\ phase[u] = "pinging" => KindOf[u] = "probe"

\* Inductive; `out` can be counted because the pool is finite, though the units
\* need not be.
UnitsInv ==
    /\ UnitsTypeOK
    /\ IsFiniteSet(out)
    /\ Roles
    /\ Witnessed /\ EndsWell /\ SetTakesEffect

\* The types without the pool.
UnitsDataOK ==
    /\ server \in {"serving", "draining", "down"}
    /\ redis \in {"answers", "silent"}
    /\ phase \in [Units -> {"idle", "waiting"} \cup Connected]
    /\ out = {u \in Units : phase[u] \in Connected}
    /\ succeeded \subseteq {u \in Units : KindOf[u] = "set"}
    /\ balance \in {Want[u] : u \in Units} \cup {Absent}
    /\ writer \in {Nobody} \cup {u \in out : KindOf[u] = "set"}
    /\ seen \subseteq {u \in Units : KindOf[u] = "set"}

PoolOK == IsFiniteSet(out) /\ Cardinality(out) <= Capacity

EffectInv == Witnessed /\ EndsWell /\ SetTakesEffect

LEMMA UnitsInvParts ==
    UnitsInv <=> UnitsDataOK /\ Roles /\ PoolOK /\ EffectInv
  BY DEF UnitsInv, UnitsTypeOK, UnitsDataOK, PoolOK, EffectInv

(* A unit that is over. *)
LEMMA EndsStep ==
    ASSUME UnitsDataOK, Roles, NEW u \in Units, NEW well \in BOOLEAN, Ends(u, well),
           UNCHANGED <<server, redis>>,
           balance' \in {Want[v] : v \in Units} \cup {Absent},
           seen' \subseteq {v \in Units : KindOf[v] = "set"}
    PROVE  UnitsDataOK' /\ Roles'
  <1>1. /\ phase' = [phase EXCEPT ![u] = "idle"]
        /\ out' = out \ {u}
        /\ writer' = IF writer = u THEN Nobody ELSE writer
        /\ succeeded' \subseteq succeeded \cup {v \in {u} : KindOf[v] = "set"}
    BY DEF Ends, Goes
  <1>2. phase' \in [Units -> {"idle", "waiting"} \cup Connected]
    BY <1>1 DEF UnitsDataOK
  <1>3. out' = {v \in Units : phase'[v] \in Connected}
    BY <1>1 DEF UnitsDataOK, Connected
  <1>4. writer' \in {Nobody} \cup {v \in out' : KindOf[v] = "set"}
    BY <1>1 DEF UnitsDataOK
  <1>5. succeeded' \subseteq {v \in Units : KindOf[v] = "set"}
    BY <1>1 DEF UnitsDataOK
  <1>6. Roles'
    BY <1>1 DEF UnitsDataOK, Roles
  <1> QED
    BY <1>2, <1>3, <1>4, <1>5, <1>6 DEF UnitsDataOK

LEMMA CommittedType ==
    ASSUME UnitsDataOK, NEW u \in Units, Committed(u)
    PROVE  /\ balance' \in {Want[v] : v \in Units} \cup {Absent}
           /\ seen' \subseteq {v \in Units : KindOf[v] = "set"}
           /\ seen \subseteq seen'
  BY DEF Committed, UnitsDataOK

LEMMA UnitsDataStep ==
    ASSUME UnitsDataOK, Roles, UnitsNext
    PROVE  UnitsDataOK' /\ Roles'
  <1>1. ASSUME NEW u \in Units, RolledBack(u), UNCHANGED <<server, redis>>
        PROVE  UnitsDataOK' /\ Roles'
    BY <1>1, EndsStep DEF RolledBack, UnitsDataOK
  <1>2. ASSUME NEW u \in Units, NEW well \in BOOLEAN, Committed(u), Ends(u, well),
               UNCHANGED <<server, redis>>
        PROVE  UnitsDataOK' /\ Roles'
    BY <1>2, EndsStep, CommittedType
  <1>3. ASSUME NEW u \in Units, Commit(u) \/ Fail(u)  PROVE UnitsDataOK' /\ Roles'
    BY <1>1, <1>2, <1>3 DEF Commit, Fail
  <1>4. ASSUME NEW u \in Units, Begin(u)  PROVE UnitsDataOK' /\ Roles'
    BY <1>4 DEF Begin, Goes, UnitsDataOK, Roles, Connected
  <1>5. ASSUME NEW u \in Units, Acquire(u)  PROVE UnitsDataOK' /\ Roles'
    BY <1>5 DEF Acquire, Goes, UnitsDataOK, Roles, Connected
  <1>6. ASSUME NEW u \in Units, TimesOut(u)  PROVE UnitsDataOK' /\ Roles'
    BY <1>1, <1>6 DEF TimesOut
  <1>7. ASSUME NEW u \in Units, Lookup(u)  PROVE UnitsDataOK' /\ Roles'
    <2>1. CASE RolledBack(u)
      BY <1>1, <1>7, <2>1 DEF Lookup
    <2>2. CASE Goes(u, "ending") /\ UNCHANGED <<out, succeeded, balance, writer, seen>>
      BY <1>7, <2>2 DEF Lookup, Goes, UnitsDataOK, Roles, Connected
    <2> QED
      BY <1>7, <2>1, <2>2 DEF Lookup
  <1>8. ASSUME NEW u \in Units, Probe(u) \/ Ping(u)  PROVE UnitsDataOK' /\ Roles'
    BY <1>8 DEF Probe, Ping, Goes, UnitsDataOK, Roles, Connected
  <1>9. ASSUME NEW u \in Units, ReadBalance(u)  PROVE UnitsDataOK' /\ Roles'
    BY <1>9 DEF ReadBalance, Goes, UnitsDataOK, Roles, Connected
  <1>10. ASSUME NEW u \in Units, Insert(u)  PROVE UnitsDataOK' /\ Roles'
    <2>1. CASE balance = Absent
      BY <1>10, <2>1 DEF Insert, Goes, UnitsDataOK, Roles, Connected
    <2>2. CASE balance # Absent
      BY <1>1, <1>10, <2>2 DEF Insert
    <2> QED
      BY <2>1, <2>2
  <1>11. ASSUME NEW u \in Units, Update(u)  PROVE UnitsDataOK' /\ Roles'
    BY <1>11 DEF Update, Goes, UnitsDataOK, Roles, Connected
  <1>12. ASSUME RedisFalters \/ Terminate \/ Shutdown \/ Boot
         PROVE  UnitsDataOK' /\ Roles'
    BY <1>12 DEF RedisFalters, Terminate, Shutdown, Boot, UnitsDataOK, Roles
  <1> QED
    BY <1>3, <1>4, <1>5, <1>6, <1>7, <1>8, <1>9, <1>10, <1>11, <1>12
    DEF UnitsNext, Statement

(* The pool. *)
LEMMA PoolStep ==
    ASSUME PoolOK, UnitsNext
    PROVE  PoolOK'
  <1>1. ASSUME NEW u \in Units, Acquire(u)  PROVE PoolOK'
    <2>1. Cardinality(out) \in Nat
      BY FS_CardinalityType DEF PoolOK
    <2>2. /\ IsFiniteSet(out')
          /\ Cardinality(out') = Cardinality(out) \/ Cardinality(out') = Cardinality(out) + 1
      BY <1>1, FS_AddElement DEF PoolOK, Acquire
    <2> QED
      BY <1>1, <2>1, <2>2, UnitsOfWorkAssumption DEF PoolOK, Acquire
  <1>2. ASSUME out' \subseteq out  PROVE PoolOK'
    <2>1. /\ IsFiniteSet(out') /\ Cardinality(out') <= Cardinality(out)
          /\ Cardinality(out) \in Nat /\ Cardinality(out') \in Nat
      BY <1>2, FS_Subset, FS_CardinalityType DEF PoolOK
    <2> QED
      BY <2>1, UnitsOfWorkAssumption DEF PoolOK
  <1>3. ASSUME NEW u \in Units, NEW well \in BOOLEAN, Ends(u, well)  PROVE out' \subseteq out
    BY <1>3 DEF Ends
  <1>4. ASSUME NEW u \in Units, TimesOut(u) \/ Commit(u) \/ Fail(u)  PROVE out' \subseteq out
    BY <1>3, <1>4 DEF TimesOut, Commit, Fail, RolledBack
  <1>5. ASSUME NEW u \in Units, Statement(u)  PROVE out' \subseteq out
    BY <1>3, <1>5
    DEF Statement, Lookup, Probe, Ping, ReadBalance, Insert, Update, RolledBack
  <1>6. ASSUME NEW u \in Units, Begin(u)  PROVE out' \subseteq out
    BY <1>6 DEF Begin
  <1>7. ASSUME RedisFalters \/ Terminate \/ Shutdown \/ Boot  PROVE out' \subseteq out
    BY <1>7 DEF RedisFalters, Terminate, Shutdown, Boot
  <1> QED
    BY <1>1, <1>2, <1>4, <1>5, <1>6, <1>7 DEF UnitsNext

(* A unit that is over leaves the others' claims as they are; its own is new
   if it has ended well, and then the balance was its own at the end or before. *)
LEMMA EndsEffect ==
    ASSUME UnitsDataOK, EffectInv, NEW u \in Units, NEW well \in BOOLEAN, Ends(u, well),
           \/ ~well /\ UNCHANGED <<balance, seen>>
           \/ phase[u] = "ending" /\ Committed(u)
    PROVE  EffectInv'
  <1>1. /\ phase' = [phase EXCEPT ![u] = "idle"]
        /\ \A v \in Units : v # u => phase'[v] = phase[v]
        /\ phase'[u] = "idle"
    BY DEF Ends, Goes, UnitsDataOK
  <1>2. seen \subseteq seen'
    BY DEF Committed
  <1>3. Witnessed'
    BY <1>1, <1>2 DEF EffectInv, Witnessed, Committed
  <1>4. EndsWell'
    BY <1>1, <1>2 DEF EffectInv, EndsWell, Ends
  <1>5. ASSUME well, KindOf[u] = "set"  PROVE u \in seen'
    <2>1. phase[u] = "ending" /\ Committed(u)
      BY <1>5
    <2>2. u \in seen \/ writer = u
      BY <1>5, <2>1 DEF EffectInv, EndsWell
    <2> QED
      BY <1>2, <1>5, <2>1, <2>2 DEF Committed
  <1>6. SetTakesEffect'
    BY <1>2, <1>5 DEF EffectInv, SetTakesEffect, Ends
  <1> QED
    BY <1>3, <1>4, <1>6 DEF EffectInv

(* A unit that goes on, and does not write. *)
LEMMA GoesEffect ==
    ASSUME UnitsDataOK, EffectInv, NEW u \in Units, NEW p,
           p # "ending" \/ KindOf[u] # "set" \/ balance = Want[u],
           phase[u] # "idle", Goes(u, p), UNCHANGED <<succeeded, balance, writer, seen>>
    PROVE  EffectInv'
  <1>1. \A v \in Units : phase'[v] = phase[v] \/ (v = u /\ phase'[u] = p)
    BY DEF Goes, UnitsDataOK
  <1>2. balance = Want[u] /\ KindOf[u] = "set" => u \in seen
    BY DEF EffectInv, Witnessed
  <1>3. Witnessed'
    BY <1>1, <1>2 DEF EffectInv, Witnessed
  <1>4. EndsWell'
    BY <1>1, <1>2 DEF EffectInv, EndsWell
  <1> QED
    BY <1>3, <1>4 DEF EffectInv, SetTakesEffect

(* A unit that writes. *)
LEMMA WritesEffect ==
    ASSUME UnitsDataOK, EffectInv, NEW u \in Units, phase[u] # "idle", writer = Nobody,
           Goes(u, "ending"), writer' = u, UNCHANGED <<succeeded, balance, seen>>
    PROVE  EffectInv'
  <1>1. \A v \in Units : phase'[v] = phase[v] \/ (v = u /\ phase'[u] = "ending")
    BY DEF Goes, UnitsDataOK
  <1>2. Witnessed'
    BY <1>1 DEF EffectInv, Witnessed
  <1>3. EndsWell'
    BY <1>1, UnitsOfWorkAssumption DEF EffectInv, EndsWell
  <1> QED
    BY <1>2, <1>3 DEF EffectInv, SetTakesEffect

LEMMA EffectStep ==
    ASSUME UnitsDataOK, Roles, EffectInv, UnitsNext
    PROVE  EffectInv'
  <1>1. ASSUME NEW u \in Units, RolledBack(u)  PROVE EffectInv'
    BY <1>1, EndsEffect DEF RolledBack
  <1>2. ASSUME NEW u \in Units, Commit(u)  PROVE EffectInv'
    BY <1>2, EndsEffect DEF Commit
  <1>3. ASSUME NEW u \in Units, Fail(u)  PROVE EffectInv'
    BY <1>1, <1>3, EndsEffect DEF Fail
  <1>4. ASSUME NEW u \in Units, Begin(u)  PROVE EffectInv'
    <2>1. /\ \A v \in Units : v # u => phase'[v] = phase[v]
          /\ \A v \in Units : v # u => (v \in seen' <=> v \in seen)
          /\ phase'[u] = "waiting"
          /\ KindOf[u] = "set" /\ balance = Want[u] => u \in seen'
      BY <1>4 DEF Begin, Goes, UnitsDataOK
    <2>2. Witnessed'
      BY <1>4, <2>1 DEF EffectInv, Witnessed, Begin
    <2>3. EndsWell'
      BY <1>4, <2>1 DEF EffectInv, EndsWell, Begin
    <2>4. SetTakesEffect'
      BY <1>4, <2>1 DEF EffectInv, SetTakesEffect, Begin, UnitsDataOK
    <2> QED
      BY <2>2, <2>3, <2>4 DEF EffectInv
  <1>5. ASSUME NEW u \in Units, Acquire(u) \/ TimesOut(u)  PROVE EffectInv'
    BY <1>1, <1>5, GoesEffect DEF Acquire, TimesOut
  <1>6. ASSUME NEW u \in Units, Lookup(u)  PROVE EffectInv'
    <2>1. CASE RolledBack(u)
      BY <1>1, <2>1
    <2>2. CASE Goes(u, "ending") /\ UNCHANGED <<out, succeeded, balance, writer, seen>>
      BY <1>6, <2>2, GoesEffect DEF Lookup
    <2> QED
      BY <1>6, <2>1, <2>2 DEF Lookup
  <1>7. ASSUME NEW u \in Units, Probe(u)  PROVE EffectInv'
    BY <1>7, GoesEffect DEF Probe
  <1>8. ASSUME NEW u \in Units, Ping(u)  PROVE EffectInv'
    BY <1>8, GoesEffect DEF Ping, Roles
  <1>9. ASSUME NEW u \in Units, ReadBalance(u)  PROVE EffectInv'
    <2> DEFINE p == IF balance = Absent THEN "inserting"
                    ELSE IF balance = Want[u] THEN "ending" ELSE "updating"
    <2>1. p # "ending" \/ balance = Want[u]
      OBVIOUS
    <2>2. /\ phase[u] # "idle" /\ Goes(u, p)
          /\ UNCHANGED <<succeeded, balance, writer, seen>>
      BY <1>9 DEF ReadBalance
    <2> HIDE DEF p
    <2> QED
      BY <2>1, <2>2, GoesEffect
  <1>10. ASSUME NEW u \in Units, Insert(u)  PROVE EffectInv'
    <2>1. CASE balance = Absent
      BY <1>10, <2>1, WritesEffect DEF Insert
    <2>2. CASE balance # Absent
      BY <1>1, <1>10, <2>2 DEF Insert
    <2> QED
      BY <2>1, <2>2
  <1>11. ASSUME NEW u \in Units, Update(u)  PROVE EffectInv'
    BY <1>11, WritesEffect DEF Update
  <1>12. ASSUME RedisFalters \/ Terminate \/ Shutdown \/ Boot  PROVE EffectInv'
    BY <1>12
    DEF RedisFalters, Terminate, Shutdown, Boot, EffectInv, Witnessed, EndsWell, SetTakesEffect
  <1> QED
    BY <1>2, <1>3, <1>4, <1>5, <1>6, <1>7, <1>8, <1>9, <1>10, <1>11, <1>12
    DEF UnitsNext, Statement

LEMMA UnitsInvariant == UnitsSpec => []UnitsInv
  <1>1. UnitsInit => UnitsInv
    <2>1. ASSUME UnitsInit  PROVE IsFiniteSet(out) /\ Cardinality(out) <= Capacity
      BY <2>1, FS_EmptySet, UnitsOfWorkAssumption DEF UnitsInit
    <2>2. ASSUME UnitsInit  PROVE UnitsDataOK /\ Roles /\ EffectInv
      BY <2>2 DEF UnitsInit, UnitsDataOK, Connected, Roles, EffectInv, Witnessed, EndsWell,
                  SetTakesEffect
    <2> QED
      BY <2>1, <2>2, UnitsInvParts DEF PoolOK
  <1>2. UnitsInv /\ [UnitsNext]_unitsVars => UnitsInv'
    <2>1. ASSUME UnitsInv, UnitsNext  PROVE UnitsInv'
      <3>1. UnitsDataOK' /\ Roles' /\ PoolOK' /\ EffectInv'
        BY <2>1, UnitsInvParts, UnitsDataStep, PoolStep, EffectStep
      <3> QED
        BY <3>1 DEF UnitsInv, UnitsTypeOK, UnitsDataOK, PoolOK, EffectInv
    <2>2. ASSUME UnitsInv, UNCHANGED unitsVars  PROVE UnitsInv'
      BY <2>2 DEF unitsVars, UnitsInv, UnitsTypeOK, Roles, Witnessed, EndsWell,
                  SetTakesEffect
    <2> QED
      BY <2>1, <2>2
  <1> QED
    BY <1>1, <1>2, PTL DEF UnitsSpec

(* Units hold connections in the phases in which their code does, and never
   more than the pool has, for any number of units and any size of the pool. *)
THEOREM UnitsTypeCorrect == UnitsSpec => []UnitsTypeOK
  <1>1. UnitsInv => UnitsTypeOK
    BY DEF UnitsInv
  <1> QED
    BY <1>1, UnitsInvariant, PTL

(* set_balance that returns has taken effect, whatever the interleaving of any
   number of sets, probes and lookups, failures and restarts. *)
THEOREM SetsTakeEffect == UnitsSpec => []SetTakesEffect
  <1>1. UnitsInv => SetTakesEffect
    BY DEF UnitsInv
  <1> QED
    BY <1>1, UnitsInvariant, PTL

=============================================================================
