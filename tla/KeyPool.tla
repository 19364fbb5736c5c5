------------------------------ MODULE KeyPool ------------------------------
(***************************************************************************)
(* The pool of API keys of each provider (core/reliability/key_pool.py):   *)
(* handed out in turn, unless revoked, cooling down after a 429 or over    *)
(* the hourly quota; changed in the admin interface, which also writes     *)
(* them to keys.json; put together again at every start from the settings  *)
(* and the environment first and the file second.  Every operation holds   *)
(* the pool's lock across no suspension point.                             *)
(*                                                                         *)
(* Clocks are abstracted: a cooldown is on until it is over, and a use of  *)
(* a key counts until it is an hour old.                                   *)
(***************************************************************************)
EXTENDS Naturals, Sequences, SequencesExt

CONSTANTS Pool,      \* ids of the providers whose keys are pooled
          Key,       \* key strings
          EnvKeys,   \* keys of the settings and the environment, in order
          Quota,     \* the quotas an administrator gives; 0 is no limit
          UseMax,    \* bound: uses of a key in an hour, at least every quota
          AdminMax,  \* bound: changes in the admin interface
          StartMax   \* bound: restarts of the process

ASSUME PoolAssumption ==
    /\ EnvKeys \in [Pool -> Seq(Key)]
    /\ Quota \subseteq Nat
    /\ UseMax \in Nat

VARIABLES
    keys,     \* _key_db: per provider the entries, in order
    index,    \* _indices: where the next search begins
    file,     \* keys.json
    admin,    \* number of changes so far
    starts,   \* number of restarts so far
    unsaved,  \* history: the last write of the file failed
    revoked,  \* history: keys the administrator revoked and did not put back;
              \* a revocation whose write failed ends with the process
    waiting   \* history: per key, the others that could have been handed out
              \* ever since it last was

poolVars == <<keys, index, file, admin, starts, unsaved, revoked, waiting>>

KeyEntry == [key: Key, revoked: BOOLEAN, quota: Quota \cup {0}, uses: 0..UseMax, cooling: BOOLEAN]

New(k, q, r) == [key |-> k, revoked |-> r, quota |-> q, uses |-> 0, cooling |-> FALSE]

Position(s, k) == {i \in DOMAIN s : s[i].key = k}

\* _add_key_in_memory: a key that is there takes over quota and revocation,
\* and keeps its uses and its cooldown.
Added(s, k, q, r) ==
    IF Position(s, k) = {}
    THEN Append(s, New(k, q, r))
    ELSE [i \in DOMAIN s |->
             IF s[i].key # k THEN s[i]
             ELSE [s[i] EXCEPT !.revoked = r, !.quota = IF q = 0 THEN @ ELSE q]]

\* One after the other, whatever is there already.
AddedAll(s, list) ==
    LET first[i \in 0..Len(list)] ==
            IF i = 0 THEN s
            ELSE Added(first[i - 1], list[i].key, list[i].quota, list[i].revoked)
    IN  first[Len(list)]

\* _scan_env_keys and the keys of the settings.
FromEnvironment(p) ==
    AddedAll(<<>>, [i \in DOMAIN EnvKeys[p] |-> [key |-> EnvKeys[p][i], quota |-> 0, revoked |-> FALSE]])

\* _load_persisted_keys.
Loaded(s, saved) == AddedAll(s, saved)

\* What the file has of an entry.
Saved(s) == [i \in DOMAIN s |-> [key |-> s[i].key, quota |-> s[i].quota, revoked |-> s[i].revoked]]

PoolInit ==
    /\ keys = [p \in Pool |-> FromEnvironment(p)]
    /\ index = [p \in Pool |-> 0]
    /\ file = [p \in Pool |-> <<>>]
    /\ admin = 0
    /\ starts = 0
    /\ unsaved = FALSE
    /\ revoked = [p \in Pool |-> {}]
    /\ waiting = [p \in Pool |-> [k \in Key |-> {}]]

PoolTypeOK ==
    /\ keys \in [Pool -> Seq(KeyEntry)]
    /\ \A p \in Pool : \A i, j \in DOMAIN keys[p] : keys[p][i].key = keys[p][j].key => i = j
    /\ index \in [Pool -> Nat]
    /\ revoked \in [Pool -> SUBSET Key]

-----------------------------------------------------------------------------
(* What requests do. *)

\* has_keys: a provider without keys that are not revoked is asked without one.
HasKeys(s) == \E i \in DOMAIN s : ~s[i].revoked

Usable(e) == ~e.revoked /\ ~e.cooling /\ (e.quota > 0 => e.uses < e.quota)

UsableKeys(s) == {s[i].key : i \in {i \in DOMAIN s : Usable(s[i])}}

\* The position of the first usable key from index i on, 0 when there is none.
Pick(s, i) ==
    LET usable == {n \in 0..Len(s) - 1 : Usable(s[((i + n) % Len(s)) + 1])}
    IN IF usable = {} THEN 0 ELSE ((i + Min(usable)) % Len(s)) + 1

NextIndex_Same(s, i) == i - 1

\* i is counted from 1, the index from 0.
NextIndex(s, i) == i % Len(s)

\* The use counts for an hour; uses that could not matter are not counted.
Used(e) == [e EXCEPT !.uses = IF @ < UseMax THEN @ + 1 ELSE @]

\* Who waits: those that may be used since then.
StillWaiting ==
    [p \in Pool |-> [k \in Key |-> waiting[p][k] \cap UsableKeys(keys'[p])]]

\* get_key of the key at position i.
GetKey(p, i) ==
    /\ i = Pick(keys[p], index[p]) /\ i > 0
    /\ keys' = [keys EXCEPT ![p][i] = Used(@)]
    /\ index' = [index EXCEPT ![p] = NextIndex(keys[p], i)]
    /\ LET k == keys[p][i].key
           others == UsableKeys(keys'[p]) \ {k}
       IN waiting' = [StillWaiting EXCEPT
             ![p] = [l \in Key |-> IF l = k THEN others ELSE @[l] \ {k}]]
    /\ UNCHANGED <<file, admin, starts, unsaved, revoked>>

SetCooling(p, k, c) ==
    /\ keys' = [keys EXCEPT ![p] = [i \in DOMAIN @ |->
                   IF @[i].key = k THEN [@[i] EXCEPT !.cooling = c] ELSE @[i]]]
    /\ waiting' = StillWaiting
    /\ UNCHANGED <<index, file, admin, starts, unsaved, revoked>>

Report429(p, k) == SetCooling(p, k, TRUE)

\* Also when the 429 came to a later use of the key than the success.
ReportSuccess(p, k) == SetCooling(p, k, FALSE)

\* The cooldown ends.
CoolDown(p, k) ==
    /\ \E i \in Position(keys[p], k) : keys[p][i].cooling
    /\ SetCooling(p, k, FALSE)

\* The oldest use of a key is an hour old.
Forget(p, i) ==
    /\ i \in DOMAIN keys[p]
    /\ keys[p][i].uses > 0
    /\ keys' = [keys EXCEPT ![p][i].uses = @ - 1]
    /\ waiting' = StillWaiting
    /\ UNCHANGED <<index, file, admin, starts, unsaved, revoked>>

-----------------------------------------------------------------------------
(* What an administrator does.  Each change writes the file. *)

\* _save_persisted_keys.  When it fails, before or after the file was opened
\* and thereby emptied, that is logged and the change stands in memory.
Written ==
    \/ /\ file' = [q \in Pool |-> Saved(keys'[q])]
       /\ unsaved' = FALSE
    \/ /\ file' \in {file, [q \in Pool |-> <<>>]}
       /\ unsaved' = TRUE

Change(p, s) ==
    /\ admin < AdminMax
    /\ admin' = admin + 1
    /\ keys' = [keys EXCEPT ![p] = s]
    /\ Written
    /\ UNCHANGED starts

\* add_key, also of a key that is there: it is no longer revoked.
AddKey(p, k, q) ==
    /\ Change(p, Added(keys[p], k, q, FALSE))
    /\ revoked' = [revoked EXCEPT ![p] = @ \ {k}]
    /\ waiting' = StillWaiting
    /\ UNCHANGED index

ToggleRevoke(p, i) ==
    /\ i \in DOMAIN keys[p]
    /\ Change(p, [keys[p] EXCEPT ![i].revoked = ~@])
    /\ revoked' = [revoked EXCEPT ![p] =
          IF keys[p][i].revoked THEN @ \ {keys[p][i].key} ELSE @ \cup {keys[p][i].key}]
    /\ waiting' = StillWaiting
    /\ UNCHANGED index

UpdateMeta(p, i, q) ==
    /\ i \in DOMAIN keys[p]
    /\ Change(p, [keys[p] EXCEPT ![i].quota = q])
    /\ waiting' = StillWaiting
    /\ UNCHANGED <<index, revoked>>

\* remove_key_by_hash: the index stays, so that the search may begin anywhere
\* afterwards; with the last key it goes as well.
RemoveKey(p, i) ==
    /\ i \in DOMAIN keys[p]
    /\ Change(p, RemoveAt(keys[p], i))
    /\ index' = [index EXCEPT ![p] = IF Len(keys[p]) = 1 THEN 0 ELSE @]
    /\ revoked' = [revoked EXCEPT ![p] = @ \ {keys[p][i].key}]
    /\ waiting' = [waiting EXCEPT ![p] = [k \in Key |-> {}]]

\* The process ends and starts again.
Start ==
    /\ starts < StartMax
    /\ starts' = starts + 1
    /\ keys' = [p \in Pool |-> Loaded(FromEnvironment(p), file[p])]
    /\ index' = [p \in Pool |-> 0]
    /\ waiting' = [p \in Pool |-> [k \in Key |-> {}]]
    /\ revoked' = IF unsaved THEN [p \in Pool |-> {}] ELSE revoked
    /\ UNCHANGED <<file, admin, unsaved>>

PoolNext ==
    \/ \E p \in Pool :
        \/ \E i \in DOMAIN keys[p] :
            \/ GetKey(p, i) \/ Forget(p, i)
            \/ ToggleRevoke(p, i) \/ RemoveKey(p, i)
            \/ \E q \in Quota \cup {0} : UpdateMeta(p, i, q)
        \/ \E k \in Key :
            \/ Report429(p, k) \/ ReportSuccess(p, k) \/ CoolDown(p, k)
            \/ \E q \in Quota \cup {0} : AddKey(p, k, q)
    \/ Start

PoolSpec == PoolInit /\ [][PoolNext]_poolVars

-----------------------------------------------------------------------------
\* Every key has its turn: a key is not handed out again while another could
\* have been ever since (key_pool.py:204-236), whatever cools down, is revoked,
\* is added or is over quota meanwhile.
EveryKeyHasItsTurn ==
    [][\A p \in Pool : \A i \in DOMAIN keys[p] :
          GetKey(p, i) => waiting[p][keys[p][i].key] = {}]_poolVars

\* A key that the administrator revoked is never handed out, nor does the
\* environment bring it back at the next start (key_pool.py:58, 131-149).
RevokedStaysOut ==
    [][\A p \in Pool : \A i \in DOMAIN keys[p] :
          GetKey(p, i) => keys[p][i].key \notin revoked[p]]_poolVars

\* Keys are handed out in turn, and one that was revoked never again
\* (key_pool.py: get_key, toggle_revoke_key, _load_persisted_keys).
KeysTakeTurns == EveryKeyHasItsTurn /\ RevokedStaysOut
=============================================================================
