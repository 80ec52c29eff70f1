---------------------------- MODULE SigningKeys ----------------------------
(***************************************************************************)
(* Validation of bearer tokens against the signing keys of the identity    *)
(* provider (auth.py, middleware/auth_middleware.py).                      *)
(*                                                                         *)
(* The keys are fetched from the IdP and kept for a while in a cache of one*)
(* entry that all threads share.  The cache is used under a lock, but the  *)
(* fetch is made outside of it, so lookups, fetches and stores of several  *)
(* validations interleave, and the IdP changes its keys in between.        *)
(***************************************************************************)
EXTENDS Naturals, FiniteSets

CONSTANTS
  Validators,      \* threads that validate a token
  Keys,            \* signing keys the IdP may publish
  NoKeys,
  TTL,             \* config.OIDC_JWKS_CACHE_TTL_SECONDS, in ticks of the clock
  MaxRotations,    \* bound: changes of the published keys
  MaxFetchFaults   \* bound: failing fetches

VARIABLES
  published,   \* the keys at the IdP
  cache,       \* the entry of _jwks_cache: a copy of the keys and its age, or NoKeys
  val,         \* the validations
  rotations,
  fetchFaults,
  since        \* history: how long ago each key was published or withdrawn, up to TTL

keysVars == <<published, cache, val, rotations, fetchFaults, since>>

-----------------------------------------------------------------------------
ASSUME KeysAssumption ==
  /\ \A keys \in SUBSET Keys : NoKeys # keys
  /\ NoKeys \notin [copy : (SUBSET Keys) \cup {NoKeys}, age : Nat, was : SUBSET Keys]
  /\ TTL \in Nat \ {0} /\ MaxRotations \in Nat /\ MaxFetchFaults \in Nat

(* What a fetch brings: a set of keys, or NoKeys, JSON that is no key set. *)
(* was is history: the IdP's keys when the copy was stored.                *)
Copies == (SUBSET Keys) \cup {NoKeys}
Entries == [copy : Copies, age : 0 .. (TTL - 1), was : SUBSET Keys]

(* A validation of a token signed with key, which may name its key; tried  *)
(* after its forced refresh.  The rest is history: whether since the       *)
(* validation began its key was published or withdrawn all the time, and   *)
(* for TTL before that (long); whether its copy came from the cache, and   *)
(* the IdP's keys when that was stored.                                    *)
ValidationPhases == {"look", "fetch", "store", "decode", "accepted", "rejected", "raised"}

Validations ==
  [pc : ValidationPhases, key : Keys, named : BOOLEAN, tried : BOOLEAN, copy : Copies,
   keyWas : {"published", "withdrawn", "changed"}, long : BOOLEAN, cached : BOOLEAN,
   was : SUBSET Keys]

NoValidation == [pc |-> "idle"]

KeysInit ==
  /\ published \in (SUBSET Keys) \ {{}}
  /\ cache = NoKeys
  /\ val = [v \in Validators |-> NoValidation]
  /\ rotations = 0 /\ fetchFaults = 0
  /\ since = [k \in Keys |-> TTL]

-----------------------------------------------------------------------------
(* validate_token(token) begins: _get_oidc_jwks()                          *)
Begin(v, key, named) ==
  /\ val[v] = NoValidation
  /\ val' = [val EXCEPT ![v] =
       [pc |-> "look", key |-> key, named |-> named, tried |-> FALSE, copy |-> NoKeys,
        keyWas |-> IF key \in published THEN "published" ELSE "withdrawn",
        long |-> since[key] = TTL, cached |-> FALSE, was |-> {}]]
  /\ UNCHANGED <<published, cache, rotations, fetchFaults, since>>

Reach(v, pc) == val' = [val EXCEPT ![v].pc = pc]

FromCache(r) ==
  [r EXCEPT !.pc = "decode", !.copy = cache.copy, !.cached = TRUE, !.was = cache.was]

(* Mistake: a forced refresh makes do with what another thread has stored. *)
LookUpOrTrustOthers(v) ==
  /\ val[v].pc = "look"
  /\ IF cache # NoKeys /\ (val[v].tried => cache.age = 0)
     THEN val' = [val EXCEPT ![v] = FromCache(@)]
     ELSE Reach(v, "fetch")
  /\ UNCHANGED <<published, cache, rotations, fetchFaults, since>>

(* Mistake: using the entry renews it.                                     *)
LookUpAndRenew(v) ==
  /\ val[v].pc = "look"
  /\ cache' = IF cache = NoKeys \/ val[v].tried THEN NoKeys ELSE [cache EXCEPT !.age = 0]
  /\ IF cache # NoKeys /\ ~val[v].tried THEN val' = [val EXCEPT ![v] = FromCache(@)]
     ELSE Reach(v, "fetch")
  /\ UNCHANGED <<published, rotations, fetchFaults, since>>

(* Under the lock: a forced refresh drops the entry, else it is used.      *)
LookUp(v) ==
  /\ val[v].pc = "look"
  /\ cache' = IF val[v].tried THEN NoKeys ELSE cache
  /\ IF cache # NoKeys /\ ~val[v].tried THEN val' = [val EXCEPT ![v] = FromCache(@)]
     ELSE Reach(v, "fetch")
  /\ UNCHANGED <<published, rotations, fetchFaults, since>>

(* Outside of the lock: the IdP answers with the keys of that moment.      *)
Fetched(v, copy) ==
  val' = [val EXCEPT ![v].pc = "store", ![v].copy = copy, ![v].cached = FALSE, ![v].was = published]

FetchKeys(v) ==
  /\ val[v].pc = "fetch"
  /\ Fetched(v, published)
  /\ UNCHANGED <<published, cache, rotations, fetchFaults, since>>

(* The discovery document names no address, or a request fails: raised.    *)
FetchFails(v) ==
  /\ val[v].pc = "fetch"
  /\ fetchFaults < MaxFetchFaults /\ fetchFaults' = fetchFaults + 1
  /\ Reach(v, "raised")
  /\ UNCHANGED <<published, cache, rotations, since>>

(* The status of the answer is not looked at: an error in JSON is kept.    *)
FetchUnusable(v) ==
  /\ val[v].pc = "fetch"
  /\ fetchFaults < MaxFetchFaults /\ fetchFaults' = fetchFaults + 1
  /\ Fetched(v, NoKeys)
  /\ UNCHANGED <<published, cache, rotations, since>>

(* Under the lock again; the last fetch to get here stays.                 *)
StoreKeys(v) ==
  /\ val[v].pc = "store"
  /\ cache' = [copy |-> val[v].copy, age |-> 0, was |-> published]
  /\ Reach(v, "decode")
  /\ UNCHANGED <<published, rotations, fetchFaults, since>>

-----------------------------------------------------------------------------
(* jwt.decode takes the key the token names or, if it names none, the only *)
(* key of the set.  Without such a key, or without a set, it raises another*)
(* error than a bad signature.                                             *)
Candidate(r) ==
  IF r.copy = NoKeys THEN {}
  ELSE IF r.named THEN r.copy \cap {r.key}
  ELSE IF \E k \in r.copy : r.copy = {k} THEN r.copy ELSE {}

Verified(r) == Candidate(r) = {r.key}
BadSignature(r) == Candidate(r) # {} /\ ~Verified(r)

Accept(v) ==
  /\ val[v].pc = "decode" /\ Verified(val[v])
  /\ Reach(v, "accepted")
  /\ UNCHANGED <<published, cache, rotations, fetchFaults, since>>

(* BadSignatureError at the first attempt: once more with fresh keys.      *)
Retry(v) ==
  /\ val[v].pc = "decode" /\ BadSignature(val[v]) /\ ~val[v].tried
  /\ val' = [val EXCEPT ![v].pc = "look", ![v].tried = TRUE]
  /\ UNCHANGED <<published, cache, rotations, fetchFaults, since>>

(* Everything else is raised: the request is not authenticated.            *)
Reject(v) ==
  /\ val[v].pc = "decode" /\ ~Verified(val[v]) /\ (BadSignature(val[v]) => val[v].tried)
  /\ Reach(v, "rejected")
  /\ UNCHANGED <<published, cache, rotations, fetchFaults, since>>

Finish(v) ==
  /\ val[v].pc \in {"accepted", "rejected", "raised"}
  /\ val' = [val EXCEPT ![v] = NoValidation]
  /\ UNCHANGED <<published, cache, rotations, fetchFaults, since>>

Validate(v) ==
  \/ LookUp(v) \/ FetchKeys(v) \/ FetchFails(v) \/ FetchUnusable(v) \/ StoreKeys(v)
  \/ Accept(v) \/ Retry(v) \/ Reject(v) \/ Finish(v)

-----------------------------------------------------------------------------
(* The IdP replaces its keys, and time passes                              *)

ChangeKeys(keys) ==
  /\ rotations < MaxRotations /\ rotations' = rotations + 1
  /\ keys # published /\ published' = keys
  /\ since' = [k \in Keys |-> IF (k \in published) # (k \in keys) THEN 0 ELSE since[k]]
  /\ val' = [v \in Validators |->
               IF val[v] # NoValidation /\ (val[v].key \in keys) # (val[v].key \in published)
               THEN [val[v] EXCEPT !.keyWas = "changed"] ELSE val[v]]
  /\ UNCHANGED <<cache, fetchFaults>>

(* Mistake: the entry never expires.                                       *)
AgedForever(e) == IF e = NoKeys \/ e.age = TTL - 1 THEN e ELSE [e EXCEPT !.age = @ + 1]

(* TTLCache drops an entry once it is TTL old.                             *)
Aged(e) == IF e = NoKeys \/ e.age = TTL - 1 THEN NoKeys ELSE [e EXCEPT !.age = @ + 1]

TimePasses ==
  /\ cache' = Aged(cache)
  /\ since' = [k \in Keys |-> IF since[k] = TTL THEN TTL ELSE since[k] + 1]
  /\ UNCHANGED <<published, val, rotations, fetchFaults>>

KeysNext ==
  \/ \E v \in Validators : Validate(v) \/ \E k \in Keys, named \in BOOLEAN : Begin(v, k, named)
  \/ \E keys \in (SUBSET Keys) \ {{}} : ChangeKeys(keys)
  \/ TimePasses

KeysSpec == KeysInit /\ [][KeysNext]_keysVars

(* A validation that has begun goes on (a fetch that hangs would not: the  *)
(* requests have no timeout), and the clock does not stop.                 *)
FairSpec == KeysSpec /\ WF_keysVars(TimePasses) /\ \A v \in Validators : WF_keysVars(Validate(v))

-----------------------------------------------------------------------------
(* The variables' types: an entry in the cache is younger than the TTL.    *)
KeysTypeOK ==
  /\ published \subseteq Keys
  /\ cache \in Entries \cup {NoKeys}
  /\ val \in [Validators -> {NoValidation} \cup Validations]
  /\ rotations \in 0 .. MaxRotations /\ fetchFaults \in 0 .. MaxFetchFaults
  /\ since \in [Keys -> 0 .. TTL]

(* The copy was out of date about the key already when it was stored: the  *)
(* fetch that brought it overlapped a rotation.                            *)
Late(r) == (r.key \in r.copy) # (r.key \in r.was)

(* "Handles key rotation by retrying with a fresh JWKS on signature        *)
(* failure": what a rotation can do to a token whose key is published from *)
(* the beginning to the end of its validation, whatever other validations  *)
(* fetch, drop and store meanwhile.  A token that names no key is refused  *)
(* only while the set it is checked with has several, for a stale single   *)
(* key is retried.  A token that names its key is not retried; but once its*)
(* key has been published for the TTL it is refused only on account of a   *)
(* late fetch.  (Or the IdP's answer was unusable.)                        *)
RotationHandled ==
  \A v \in Validators :
    LET r == val[v] IN
    r.pc = "rejected" /\ r.keyWas = "published" /\ r.copy # NoKeys =>
      \/ ~r.named /\ ~\E k \in r.copy : r.copy = {k}
      \/ r.named /\ r.cached /\ (r.long => Late(r))

(* The cache keeps withdrawn keys in use for its TTL at most: a token whose*)
(* key had been withdrawn for that long when its validation began is not   *)
(* accepted, unless by a copy that was late.                               *)
WithdrawnKeysGoOut ==
  \A v \in Validators :
    LET r == val[v] IN r.pc = "accepted" /\ r.keyWas = "withdrawn" /\ r.long => Late(r)

(* Once the IdP leaves its keys alone and answers, the cache holds nothing *)
(* but those keys: neither an unusable answer nor a late store stays.      *)
EventuallyCurrent == <>[](cache = NoKeys \/ cache.copy = published)

-----------------------------------------------------------------------------
(* What the documentation says and the code does not keep.                 *)

(* "Handles key rotation by retrying with a fresh JWKS": a token is not    *)
(* refused while its key is published and the IdP answers.                 *)
RotationAlwaysHandled ==
  \A v \in Validators :
    val[v].pc = "rejected" /\ val[v].keyWas = "published" => val[v].copy = NoKeys
=============================================================================
