------------------------ MODULE Authentication_proofs ------------------------
(***************************************************************************)
(* Proofs about the two ways to be authenticated: the bearer tokens of     *)
(* SigningKeys, for any number of threads, keys and rotations and any TTL, *)
(* and the sessions of Session, for any number of tabs, users, tokens and  *)
(* logins.  The two share no state and no step.                            *)
(***************************************************************************)
EXTENDS SigningKeys, Session, TLAPS

-----------------------------------------------------------------------------
(* SigningKeys                                                             *)

Got == {"store", "decode", "accepted", "rejected"}

(* A validation knows what became of its key ...                           *)
KeyKnown(r) ==
  /\ r.keyWas = "published" => r.key \in published
  /\ r.keyWas = "withdrawn" => r.key \notin published
  /\ r.keyWas # "changed" /\ r.long => since[r.key] = TTL

(* ... whether keys show its key as it was from the beginning ...          *)
Shows(r, keys) ==
  /\ r.keyWas = "published" => r.key \in keys
  /\ r.keyWas = "withdrawn" => r.key \notin keys

(* ... and its copy is its own fetch, made meanwhile, or the cache's, which*)
(* was stored less than TTL before.                                        *)
CopyKnown(r) ==
  /\ r.pc = "store" \/ (r.tried /\ r.pc \in Got) => ~r.cached
  /\ r.pc \in Got /\ (~r.cached \/ r.long) => Shows(r, r.was)
  /\ r.pc \in Got /\ ~r.cached => r.copy = NoKeys \/ r.copy = r.was
  /\ r.pc = "rejected" /\ r.copy # NoKeys =>
       \/ r.key \notin r.copy /\ (r.named \/ r.tried)
       \/ ~r.named /\ ~\E k \in r.copy : r.copy = {k}
  /\ r.pc = "accepted" => r.copy # NoKeys /\ r.key \in r.copy

(* A key that changed since the entry was stored did so in the entry's age.*)
EntryAge ==
  cache # NoKeys =>
    \A k \in Keys : (k \in published) # (k \in cache.was) => since[k] <= cache.age

KeysInv ==
  /\ KeysTypeOK
  /\ \A v \in Validators : val[v] # NoValidation => KeyKnown(val[v]) /\ CopyKnown(val[v])
  /\ EntryAge

-----------------------------------------------------------------------------
(* A step of one validation leaves the others, the keys and the clock be.  *)

LEMMA Validating ==
  ASSUME KeysTypeOK, NEW v \in Validators, val[v] # NoValidation
  PROVE  val[v] \in Validations
BY DEF KeysTypeOK

LEMMA OneValidates ==
  ASSUME KeysInv, NEW v \in Validators, NEW r \in Validations,
         val' = [val EXCEPT ![v] = r], UNCHANGED <<published, since, rotations>>,
         fetchFaults' \in 0 .. MaxFetchFaults, cache' \in Entries \cup {NoKeys},
         KeyKnown(r), CopyKnown(r), EntryAge'
  PROVE  KeysInv'
<1>1. KeysTypeOK'
  BY DEF KeysInv, KeysTypeOK
<1>2. ASSUME NEW w \in Validators, val'[w] # NoValidation
      PROVE  KeyKnown(val[w])' /\ CopyKnown(val[w])'
  <2>1. val'[w] = IF w = v THEN r ELSE val[w]
    BY DEF KeysInv, KeysTypeOK
  <2>2. KeyKnown(val'[w]) /\ CopyKnown(val'[w])
    BY <1>2, <2>1 DEF KeysInv
  <2> QED
    BY <2>2 DEF KeyKnown, CopyKnown
<1> QED
  BY <1>1, <1>2 DEF KeysInv

LEMMA InitKeysInv == KeysInit => KeysInv
<1> SUFFICES ASSUME KeysInit PROVE KeysInv
  OBVIOUS
<1>1. KeysTypeOK
  BY KeysAssumption DEF KeysInit, KeysTypeOK
<1> QED
  BY <1>1 DEF KeysInit, KeysInv, EntryAge

LEMMA BeginKeeps ==
  ASSUME KeysInv, NEW v \in Validators, NEW key \in Keys, NEW named \in BOOLEAN,
         Begin(v, key, named)
  PROVE  KeysInv'
<1> DEFINE r == [pc |-> "look", key |-> key, named |-> named, tried |-> FALSE, copy |-> NoKeys,
                 keyWas |-> IF key \in published THEN "published" ELSE "withdrawn",
                 long |-> since[key] = TTL, cached |-> FALSE, was |-> {}]
<1>1. r \in Validations
  BY DEF Validations, ValidationPhases, Copies
<1>2. KeyKnown(r) /\ CopyKnown(r)
  BY DEF KeyKnown, CopyKnown, Got
<1>3. fetchFaults' \in 0 .. MaxFetchFaults /\ cache' \in Entries \cup {NoKeys} /\ EntryAge'
  BY DEF Begin, KeysInv, KeysTypeOK, EntryAge
<1>4. val' = [val EXCEPT ![v] = r] /\ UNCHANGED <<published, since, rotations>>
  BY DEF Begin
<1> HIDE DEF r
<1> QED
  BY <1>1, <1>2, <1>3, <1>4, OneValidates

LEMMA LookUpKeeps ==
  ASSUME KeysInv, NEW v \in Validators, LookUp(v)
  PROVE  KeysInv'
<1> DEFINE hit == cache # NoKeys /\ ~val[v].tried
           r == IF hit THEN FromCache(val[v]) ELSE [val[v] EXCEPT !.pc = "fetch"]
<1>1. val[v] \in Validations /\ KeyKnown(val[v]) /\ CopyKnown(val[v]) /\ val[v].pc = "look"
  BY Validating DEF KeysInv, LookUp, NoValidation
<1>2. hit => cache \in Entries /\ (val[v].long => Shows(val[v], cache.was))
  <2> SUFFICES ASSUME hit
               PROVE  cache \in Entries /\ (val[v].long => Shows(val[v], cache.was))
    OBVIOUS
  <2>1. cache \in Entries
    BY DEF KeysInv, KeysTypeOK
  <2>2. cache.age <= TTL - 1 /\ cache.age \in Nat
    BY <2>1, KeysAssumption DEF Entries
  <2> QED
    BY <1>1, <2>1, <2>2, KeysAssumption DEF KeysInv, EntryAge, KeyKnown, Validations, Shows
<1>3. r \in Validations
  BY <1>1, <1>2 DEF Validations, ValidationPhases, FromCache, Entries
<1>4. KeyKnown(r) /\ CopyKnown(r)
  BY <1>1, <1>2 DEF KeyKnown, CopyKnown, FromCache, Validations, Got, Entries, Shows
<1>5. fetchFaults' \in 0 .. MaxFetchFaults /\ cache' \in Entries \cup {NoKeys} /\ EntryAge'
  BY DEF LookUp, KeysInv, KeysTypeOK, EntryAge
<1>6. val' = [val EXCEPT ![v] = r] /\ UNCHANGED <<published, since, rotations>>
  BY DEF LookUp, Reach
<1> HIDE DEF r
<1> QED
  BY <1>3, <1>4, <1>5, <1>6, OneValidates

LEMMA FetchedKeeps ==
  ASSUME KeysInv, NEW v \in Validators, val[v].pc = "fetch", NEW copy \in {published, NoKeys},
         Fetched(v, copy), UNCHANGED <<published, cache, since, rotations>>,
         fetchFaults' \in 0 .. MaxFetchFaults
  PROVE  KeysInv'
<1> DEFINE r == [val[v] EXCEPT !.pc = "store", !.copy = copy, !.cached = FALSE, !.was = published]
<1>1. val[v] \in Validations /\ KeyKnown(val[v])
  BY Validating DEF KeysInv, NoValidation
<1>2. r \in Validations
  BY <1>1 DEF Validations, ValidationPhases, Copies, KeysInv, KeysTypeOK
<1>3. KeyKnown(r) /\ CopyKnown(r)
  BY <1>1 DEF KeyKnown, CopyKnown, Validations, Got, Shows
<1>4. val' = [val EXCEPT ![v] = r]
  BY DEF Fetched
<1>5. cache' \in Entries \cup {NoKeys} /\ EntryAge'
  BY DEF KeysInv, KeysTypeOK, EntryAge
<1> HIDE DEF r
<1> QED
  BY <1>2, <1>3, <1>4, <1>5, OneValidates

LEMMA StoreKeeps ==
  ASSUME KeysInv, NEW v \in Validators, StoreKeys(v)
  PROVE  KeysInv'
<1> DEFINE r == [val[v] EXCEPT !.pc = "decode"]
<1>1. val[v] \in Validations /\ KeyKnown(val[v]) /\ CopyKnown(val[v]) /\ val[v].pc = "store"
  BY Validating DEF KeysInv, StoreKeys, NoValidation
<1>2. r \in Validations /\ KeyKnown(r) /\ CopyKnown(r)
  BY <1>1 DEF KeyKnown, CopyKnown, Validations, Got, ValidationPhases, Shows
<1>3. val' = [val EXCEPT ![v] = r] /\ UNCHANGED <<published, since, rotations, fetchFaults>>
  BY DEF StoreKeys, Reach
<1>4. cache' \in Entries /\ fetchFaults' \in 0 .. MaxFetchFaults
  BY <1>1, KeysAssumption DEF StoreKeys, Entries, Validations, KeysInv, KeysTypeOK
<1>5. EntryAge'
  BY DEF StoreKeys, EntryAge
<1> HIDE DEF r
<1> QED
  BY <1>2, <1>3, <1>4, <1>5, OneValidates

(* The steps that only move on: raising, accepting, retrying, rejecting.   *)
LEMMA MovesKeep ==
  ASSUME KeysInv, NEW v \in Validators,
         FetchFails(v) \/ Accept(v) \/ Retry(v) \/ Reject(v)
  PROVE  KeysInv'
<1>1. val[v] \in Validations /\ KeyKnown(val[v]) /\ CopyKnown(val[v])
  BY Validating DEF KeysInv, NoValidation, FetchFails, Accept, Retry, Reject
<1>2. PICK r \in Validations :
        val' = [val EXCEPT ![v] = r] /\ KeyKnown(r) /\ CopyKnown(r)
  <2>1. CASE FetchFails(v)
    <3> DEFINE r == [val[v] EXCEPT !.pc = "raised"]
    <3>1. r \in Validations /\ KeyKnown(r) /\ CopyKnown(r)
      BY <1>1 DEF KeyKnown, CopyKnown, Validations, Got, ValidationPhases, Shows
    <3> QED
      BY <2>1, <3>1 DEF FetchFails, Reach
  <2>2. CASE Accept(v)
    <3> DEFINE r == [val[v] EXCEPT !.pc = "accepted"]
    <3>1. r \in Validations /\ KeyKnown(r) /\ CopyKnown(r)
      BY <1>1, <2>2 DEF KeyKnown, CopyKnown, Validations, Got, ValidationPhases, Accept,
                       Verified, Candidate, Shows
    <3> QED
      BY <2>2, <3>1 DEF Accept, Reach
  <2>3. CASE Retry(v)
    <3> DEFINE r == [val[v] EXCEPT !.pc = "look", !.tried = TRUE]
    <3>1. r \in Validations /\ KeyKnown(r) /\ CopyKnown(r)
      BY <1>1 DEF KeyKnown, CopyKnown, Validations, Got, ValidationPhases, Shows
    <3> QED
      BY <2>3, <3>1 DEF Retry
  <2>4. CASE Reject(v)
    <3> DEFINE r == [val[v] EXCEPT !.pc = "rejected"]
    <3>1. r \in Validations /\ KeyKnown(r) /\ CopyKnown(r)
      BY <1>1, <2>4 DEF KeyKnown, CopyKnown, Validations, Got, ValidationPhases, Reject,
                       Verified, BadSignature, Candidate, Shows
    <3> QED
      BY <2>4, <3>1 DEF Reject, Reach
  <2> QED
    BY <2>1, <2>2, <2>3, <2>4
<1>3. /\ UNCHANGED <<published, since, rotations, cache>>
      /\ fetchFaults' \in 0 .. MaxFetchFaults /\ cache' \in Entries \cup {NoKeys}
  BY KeysAssumption DEF FetchFails, Accept, Retry, Reject, KeysInv, KeysTypeOK
<1>4. EntryAge'
  BY <1>3 DEF EntryAge, KeysInv
<1> QED
  BY <1>2, <1>3, <1>4, OneValidates

LEMMA FinishKeeps ==
  ASSUME KeysInv, NEW v \in Validators, Finish(v)
  PROVE  KeysInv'
<1>1. KeysTypeOK'
  BY DEF Finish, KeysInv, KeysTypeOK
<1>2. \A w \in Validators : val'[w] # NoValidation => val'[w] = val[w]
  BY DEF Finish, KeysInv, KeysTypeOK
<1> QED
  BY <1>1, <1>2 DEF KeysInv, Finish, KeyKnown, CopyKnown, Shows, EntryAge

LEMMA ChangeKeeps ==
  ASSUME KeysInv, NEW keys \in (SUBSET Keys) \ {{}}, ChangeKeys(keys)
  PROVE  KeysInv'
<1> DEFINE Hit(v) == val[v] # NoValidation /\ (val[v].key \in keys) # (val[v].key \in published)
           r(v) == IF Hit(v) THEN [val[v] EXCEPT !.keyWas = "changed"] ELSE val[v]
<1>1. val' = [v \in Validators |-> r(v)] /\ published' = keys /\ cache' = cache
  BY DEF ChangeKeys
<1>2. since' = [k \in Keys |-> IF (k \in published) # (k \in keys) THEN 0 ELSE since[k]]
  BY DEF ChangeKeys
<1>3. ASSUME NEW v \in Validators, val[v] # NoValidation
      PROVE  /\ r(v) \in Validations /\ CopyKnown(r(v))
             /\ r(v).keyWas = "published" => r(v).key \in keys
             /\ r(v).keyWas = "withdrawn" => r(v).key \notin keys
             /\ r(v).keyWas # "changed" /\ r(v).long => since'[r(v).key] = TTL
  <2>1. val[v] \in Validations /\ KeyKnown(val[v]) /\ CopyKnown(val[v])
    BY <1>3, Validating DEF KeysInv
  <2>2. r(v) \in Validations /\ CopyKnown(r(v))
    BY <2>1 DEF Validations, CopyKnown, Shows
  <2>3. r(v).key = val[v].key /\ val[v].key \in Keys /\ r(v).long = val[v].long
    BY <2>1 DEF Validations
  <2>4. r(v).keyWas # "changed" => ~Hit(v) /\ r(v).keyWas = val[v].keyWas
    BY <2>1 DEF Validations
  <2> QED
    BY <1>2, <1>3, <2>1, <2>2, <2>3, <2>4 DEF KeyKnown
<1>4. KeysTypeOK'
  <2>1. val' \in [Validators -> {NoValidation} \cup Validations]
    BY <1>1, <1>3
  <2>2. rotations' \in 0 .. MaxRotations /\ fetchFaults' \in 0 .. MaxFetchFaults
    BY KeysAssumption DEF ChangeKeys, KeysInv, KeysTypeOK
  <2>3. since' \in [Keys -> 0 .. TTL]
    BY <1>2, KeysAssumption DEF KeysInv, KeysTypeOK
  <2> QED
    BY <1>1, <2>1, <2>2, <2>3 DEF KeysInv, KeysTypeOK
<1>5. ASSUME NEW v \in Validators, val'[v] # NoValidation
      PROVE  KeyKnown(val[v])' /\ CopyKnown(val[v])'
  <2>1. val'[v] = r(v) /\ val[v] # NoValidation
    BY <1>1, <1>5
  <2> HIDE DEF r
  <2> QED
    BY <1>1, <1>3, <2>1 DEF KeyKnown, CopyKnown
<1>6. EntryAge'
  <2> SUFFICES ASSUME cache # NoKeys, NEW k \in Keys, (k \in keys) # (k \in cache.was)
               PROVE  since'[k] <= cache.age
    BY <1>1 DEF EntryAge
  <2>1. cache.age \in Nat
    BY DEF KeysInv, KeysTypeOK, Entries
  <2>2. (k \in published) # (k \in cache.was) => since[k] <= cache.age
    BY DEF KeysInv, EntryAge
  <2> QED
    BY <1>2, <2>1, <2>2
<1> QED
  BY <1>4, <1>5, <1>6 DEF KeysInv

LEMMA TickKeeps ==
  ASSUME KeysInv, TimePasses
  PROVE  KeysInv'
<1>1. since' = [k \in Keys |-> IF since[k] = TTL THEN TTL ELSE since[k] + 1]
  BY DEF TimePasses
<1>2. since' \in [Keys -> 0 .. TTL]
  BY <1>1, KeysAssumption DEF KeysInv, KeysTypeOK
<1>3. cache' # NoKeys => /\ cache # NoKeys /\ cache' = [cache EXCEPT !.age = cache.age + 1]
                       /\ cache \in Entries /\ cache.age # TTL - 1
  BY DEF TimePasses, Aged, KeysInv, KeysTypeOK
<1>4. cache' \in Entries \cup {NoKeys}
  <2> SUFFICES ASSUME cache' # NoKeys PROVE cache' \in Entries
    OBVIOUS
  <2>1. cache.age + 1 \in 0 .. (TTL - 1)
    BY <1>3, KeysAssumption DEF Entries
  <2> QED
    BY <1>3, <2>1 DEF Entries
<1>5. KeysTypeOK'
  BY <1>2, <1>4 DEF TimePasses, KeysInv, KeysTypeOK
<1>6. ASSUME NEW v \in Validators, val'[v] # NoValidation
      PROVE  KeyKnown(val[v])' /\ CopyKnown(val[v])'
  <2>1. val' = val /\ published' = published
    BY DEF TimePasses
  <2>2. val[v] \in Validations /\ KeyKnown(val[v]) /\ CopyKnown(val[v])
    BY <1>6, <2>1, Validating DEF KeysInv
  <2> QED
    BY <1>1, <2>1, <2>2 DEF KeyKnown, CopyKnown, Shows, Validations
<1>7. EntryAge'
  <2> SUFFICES ASSUME cache' # NoKeys, NEW k \in Keys, (k \in published) # (k \in cache'.was)
               PROVE  since'[k] <= cache'.age
    BY DEF EntryAge, TimePasses
  <2>1. cache'.was = cache.was /\ cache'.age = cache.age + 1 /\ cache.age \in Nat
    BY <1>3 DEF Entries
  <2>2. since[k] <= cache.age
    BY <1>3, <2>1 DEF KeysInv, EntryAge
  <2>3. since[k] \in Nat
    BY DEF KeysInv, KeysTypeOK
  <2> QED
    BY <1>1, <2>1, <2>2, <2>3
<1> QED
  BY <1>5, <1>6, <1>7 DEF KeysInv

-----------------------------------------------------------------------------
LEMMA NextKeysInv == KeysInv /\ [KeysNext]_keysVars => KeysInv'
<1> SUFFICES ASSUME KeysInv, [KeysNext]_keysVars PROVE KeysInv'
  OBVIOUS
<1>1. CASE UNCHANGED keysVars
  BY <1>1 DEF keysVars, KeysInv, KeysTypeOK, KeyKnown, CopyKnown, Shows, EntryAge
<1>2. ASSUME NEW v \in Validators, Validate(v)
      PROVE  KeysInv'
  <2>1. CASE FetchKeys(v)
    BY <2>1, FetchedKeeps DEF FetchKeys, KeysInv, KeysTypeOK
  <2>2. CASE FetchUnusable(v)
    <3>1. fetchFaults' \in 0 .. MaxFetchFaults
      BY <2>2, KeysAssumption DEF FetchUnusable, KeysInv, KeysTypeOK
    <3> QED
      BY <2>2, <3>1, FetchedKeeps DEF FetchUnusable
  <2> QED
    BY <1>2, <2>1, <2>2, LookUpKeeps, StoreKeeps, MovesKeep, FinishKeeps DEF Validate
<1>3. ASSUME NEW v \in Validators, NEW k \in Keys, NEW named \in BOOLEAN, Begin(v, k, named)
      PROVE  KeysInv'
  BY <1>3, BeginKeeps
<1>4. ASSUME NEW keys \in (SUBSET Keys) \ {{}}, ChangeKeys(keys)
      PROVE  KeysInv'
  BY <1>4, ChangeKeeps
<1>5. CASE TimePasses
  BY <1>5, TickKeeps
<1> QED
  BY <1>1, <1>2, <1>3, <1>4, <1>5 DEF KeysNext

LEMMA KeysInvariance == KeysSpec => []KeysInv
<1> QED
  BY InitKeysInv, NextKeysInv, PTL DEF KeysSpec

(* The cache and the validations are well typed: an entry in the cache is  *)
(* younger than the TTL.                                                   *)
THEOREM KeysTypeCorrect == KeysSpec => []KeysTypeOK
<1>1. KeysInv => KeysTypeOK
  BY DEF KeysInv
<1> QED
  BY <1>1, KeysInvariance, PTL

(* A key rotation at the IdP fails a validation of a token whose key is    *)
(* there all the time in two ways only: the token names no key while the   *)
(* set has several, or it names a key that the cache lacks, for less than  *)
(* the TTL or after a late fetch.                                          *)
THEOREM RotationIsHandled == KeysSpec => []RotationHandled
<1>1. KeysInv => RotationHandled
  <2> SUFFICES ASSUME KeysInv, NEW v \in Validators, val[v].pc = "rejected",
                      val[v].keyWas = "published", val[v].copy # NoKeys
               PROVE  \/ ~val[v].named /\ ~\E k \in val[v].copy : val[v].copy = {k}
                      \/ val[v].named /\ val[v].cached /\ (val[v].long => Late(val[v]))
    BY DEF RotationHandled
  <2>1. val[v] \in Validations /\ CopyKnown(val[v])
    BY Validating DEF KeysInv, NoValidation
  <2>2. CASE ~val[v].named /\ ~\E k \in val[v].copy : val[v].copy = {k}
    BY <2>2
  <2>3. CASE val[v].key \notin val[v].copy /\ (val[v].named \/ val[v].tried)
    <3>1. val[v].cached
      BY <2>1, <2>3 DEF CopyKnown, Shows, Got
    <3>2. val[v].named
      BY <2>1, <2>3, <3>1 DEF CopyKnown, Got
    <3>3. val[v].long => val[v].key \in val[v].was
      BY <2>1 DEF CopyKnown, Shows, Got
    <3> QED
      BY <2>3, <3>1, <3>2, <3>3 DEF Late
  <2> QED
    BY <2>1, <2>2, <2>3 DEF CopyKnown
<1> QED
  BY <1>1, KeysInvariance, PTL

(* A key withdrawn for the TTL is not accepted any more, unless a late     *)
(* fetch has brought it back.                                              *)
THEOREM WithdrawnKeysAreOut == KeysSpec => []WithdrawnKeysGoOut
<1>1. KeysInv => WithdrawnKeysGoOut
  <2> SUFFICES ASSUME KeysInv, NEW v \in Validators, val[v].pc = "accepted",
                      val[v].keyWas = "withdrawn", val[v].long
               PROVE  Late(val[v])
    BY DEF WithdrawnKeysGoOut
  <2>1. val[v] \in Validations /\ CopyKnown(val[v])
    BY Validating DEF KeysInv, NoValidation
  <2> QED
    BY <2>1 DEF CopyKnown, Shows, Got, Late
<1> QED
  BY <1>1, KeysInvariance, PTL

-----------------------------------------------------------------------------
(* Session: types, and what a step of one request can be                   *)

SignedIn == {"decide", "look", "create", "update", "sync", "persist"}

(* A request is one of the browser's, and a callback names a user.         *)
WhoKnown(q) == q.pc \in SignedIn \cup {"callback", "exchange"} => q.who \in Users

TInv == TypeOK /\ \A r \in Requests : req[r] \in Active => WhoKnown(req[r])

OthersTyped ==
  /\ cookie \in Sessions /\ db \in [Users -> Account \cup {None}]
  /\ role \in [Users -> Roles]
  /\ owner \in [Tokens -> Users \cup {None}] /\ live \subseteq Tokens /\ ended \subseteq Tokens
  /\ states \in 0 .. MaxLogins /\ now \in 0 .. MaxTime
  /\ events \in Nat /\ faults \in Nat
  /\ changedAt \in [Users -> 0 .. MaxTime]
  /\ endedAt \in [Users -> (0 .. MaxTime) \cup {None}]
  /\ loggedOut \in BOOLEAN /\ stragglers \subseteq Requests /\ floor \in 0 .. MaxLogins
  /\ shared \subseteq Tokens /\ inherited \subseteq Tokens

(* What a request keeps when it goes on from p to q or is answered.        *)
Follows(p, q) ==
  /\ q.sent = p.sent /\ q.had = p.had
  /\ q.pc \in Phases =>
       q \in Active /\ q.path = p.path /\ q.who = p.who /\ q.expires = p.expires /\ q.token = p.token
  /\ q.pc \in Answers => q \in Answered

-----------------------------------------------------------------------------
LEMMA Constant ==
  /\ None \notin Users /\ None \notin Nat /\ None \notin Account
  /\ {UseRefresh, AlwaysToken, Rotates, Dated} \subseteq BOOLEAN
  /\ Lifetime \in Nat /\ MaxTime \in Nat /\ MaxLogins \in Nat /\ MaxTokens \in Nat
  /\ Leeway \in Nat /\ Asks \in [Requests -> SUBSET Paths]
BY ConstantsAssumption

LEMMA PhasesDiffer ==
  /\ Phases \cap Answers = {} /\ SignedIn \subseteq Phases
  /\ "idle" \notin Phases \cup Answers
BY DEF Phases, Answers, SignedIn

LEMMA SessionFields ==
  ASSUME NEW s \in Sessions
  PROVE  /\ s.state \in 0 .. MaxLogins /\ s.user \in Users \cup {None}
         /\ s.expires \in Times \cup {None} /\ s.token \in Tokens \cup {None}
         /\ \A n \in 0 .. MaxLogins : [s EXCEPT !.state = n] \in Sessions
         /\ \A u \in Users : [s EXCEPT !.user = u] \in Sessions
         /\ \A x \in Times \cup {None}, k \in Tokens \cup {None} : Persisted(s, x, k) \in Sessions
BY DEF Sessions, Persisted

LEMMA EmptySession ==
  /\ Empty \in Sessions /\ Empty.state = 0
  /\ Empty.user = None /\ Empty.expires = None /\ Empty.token = None
BY Constant DEF Empty, Sessions, Times

LEMMA ActiveFields ==
  ASSUME NEW q \in Active
  PROVE  /\ q.pc \in Phases /\ q.s \in Sessions /\ q.had \in BOOLEAN
         /\ q.path \in Paths /\ q.sent \in Tokens \cup {None}
         /\ q.state \in 0 .. MaxLogins /\ q.who \in Users \cup {None} /\ q.role \in Roles
         /\ q.expires \in Times \cup {None} /\ q.token \in Tokens \cup {None}
         /\ q.tried \in BOOLEAN
BY DEF Active

LEMMA AnsweredFields ==
  ASSUME NEW q \in Answered
  PROVE  q.pc \in Answers /\ q.s \in Sessions /\ q.had \in BOOLEAN /\ q.sent \in Tokens \cup {None}
BY DEF Answered

LEMMA Standing ==
  ASSUME TypeOK, NEW r \in Requests
  PROVE  /\ req[r] = Idle \/ req[r] \in Active \/ req[r] \in Answered
         /\ req[r].pc \in Phases => req[r] \in Active
         /\ req[r].pc \in Answers => req[r] \in Answered
         /\ UnderWay(r) => req[r].s \in Sessions /\ req[r].sent \in Tokens \cup {None}
                           /\ req[r].pc \in Phases \cup Answers
         /\ UnderWay(r) <=> req[r] \in Active \cup Answered
<1>1. req[r] \in {Idle} \cup Active \cup Answered
  BY DEF TypeOK
<1>2. Idle.pc = "idle"
  BY DEF Idle
<1> QED
  BY <1>1, <1>2, ActiveFields, AnsweredFields, PhasesDiffer DEF UnderWay

LEMMA TokensAreNumbers == Tokens \subseteq Nat /\ None \notin Tokens
BY Constant DEF Tokens

LEMMA FreshTokens ==
  ASSUME NEW k \in Fresh
  PROVE  k \in Tokens /\ k # None /\ owner[k] = None
BY TokensAreNumbers DEF Fresh

LEMMA AtLoginIs ==
  ASSUME NEW k \in AtLogin \cup AtRefresh, k # None
  PROVE  k \in Tokens /\ owner[k] = None
BY FreshTokens DEF AtLogin, AtRefresh

LEMMA ExpiryIsTime ==
  TypeOK => Expiry \in Times \cup {None} /\ (Dated => Expiry = now + Lifetime /\ Expiry # None)
<1> SUFFICES ASSUME TypeOK PROVE Expiry \in Times \cup {None}
                                 /\ (Dated => Expiry = now + Lifetime /\ Expiry # None)
  OBVIOUS
<1>1. now \in 0 .. MaxTime /\ Lifetime \in Nat /\ MaxTime \in Nat /\ None \notin Nat
  BY Constant DEF TypeOK
<1>2. now + Lifetime \in Times /\ now + Lifetime \in Nat
  BY <1>1 DEF Times
<1> QED
  BY <1>1, <1>2 DEF Expiry

LEMMA TypesOfOthers == TypeOK <=> OthersTyped /\ req \in [Requests -> {Idle} \cup Active \cup Answered]
BY DEF TypeOK, OthersTyped

-----------------------------------------------------------------------------
LEMMA InitTInv == Init => TInv
<1> SUFFICES ASSUME Init PROVE TInv
  OBVIOUS
<1>1. cookie \in Sessions
  BY EmptySession DEF Init
<1>2. Idle \notin Active
  BY ActiveFields, PhasesDiffer DEF Idle
<1> QED
  BY <1>1, <1>2, Constant DEF Init, TInv, TypeOK, Roles

(* A step of one request is correct if what becomes of it is.              *)
LEMMA OneMoves ==
  ASSUME TInv, NEW r \in Requests, NEW q \in Active \cup Answered \cup {Idle},
         req' = [req EXCEPT ![r] = q], q \in Active => WhoKnown(q), OthersTyped'
  PROVE  TInv'
<1>1. req' \in [Requests -> {Idle} \cup Active \cup Answered]
  BY DEF TInv, TypeOK
<1>2. TypeOK'
  BY <1>1 DEF TypeOK, OthersTyped
<1>3. ASSUME NEW p \in Requests, req'[p] \in Active
      PROVE  WhoKnown(req'[p])
  BY <1>3 DEF TInv, TypeOK
<1> QED
  BY <1>2, <1>3 DEF TInv, WhoKnown

LEMMA SendKeepsTypes ==
  ASSUME TInv, NEW r \in Requests, NEW path \in Paths,
         NEW state \in 0 .. MaxLogins, NEW who \in Users \cup {None},
         path = "callback" => who \in Users, Send(r, path, state, who)
  PROVE  TInv'
<1> DEFINE q == New(path, state, who)
<1>1. FirstPhase(path) \in Phases /\ FirstPhase(path) \notin SignedIn \cup {"exchange"}
      /\ (FirstPhase(path) = "callback" => path = "callback")
  BY DEF FirstPhase, Phases, SignedIn
<1>2. cookie \in Sessions /\ cookie.token \in Tokens \cup {None}
  BY SessionFields DEF TInv, TypeOK
<1>3. q \in Active
  BY <1>1, <1>2 DEF New, Active, Roles
<1>4. WhoKnown(q)
  BY <1>1 DEF WhoKnown, New
<1>5. shared' \subseteq Tokens
  BY <1>2 DEF Send, TInv, TypeOK
<1>6. OthersTyped'
  BY <1>5 DEF Send, TInv, TypeOK, OthersTyped, idp, clocks, logouts
<1>7. req' = [req EXCEPT ![r] = q]
  BY DEF Send
<1> HIDE DEF q
<1> QED
  BY <1>3, <1>4, <1>6, <1>7, OneMoves

LEMMA RespondKeepsTypes ==
  ASSUME TInv, NEW r \in Requests, Respond(r)
  PROVE  TInv'
<1>1. req[r] \in Answered /\ req[r].s \in Sessions
  BY Standing, AnsweredFields DEF TInv, Respond
<1>2. cookie' \in Sessions
  BY <1>1 DEF Respond, TInv, TypeOK
<1>3. stragglers' \subseteq Requests /\ floor' \in 0 .. MaxLogins /\ loggedOut' \in BOOLEAN
  BY Constant DEF Respond, TInv, TypeOK
<1>4. OthersTyped'
  BY <1>2, <1>3 DEF Respond, TInv, TypeOK, OthersTyped, idp, clocks
<1>5. req' = [req EXCEPT ![r] = Idle] /\ Idle \notin Active
  BY ActiveFields, PhasesDiffer DEF Respond, Idle
<1> QED
  BY <1>4, <1>5, OneMoves

(* A request that goes on or is answered.                                  *)
LEMMA GotoWithIs ==
  ASSUME TypeOK, NEW r \in Requests, req[r] \in Active,
         NEW pc \in Phases \cup Answers, NEW s \in Sessions, GotoWith(r, pc, s)
  PROVE  \E q \in Active \cup Answered :
           req' = [req EXCEPT ![r] = q] /\ q.pc = pc /\ q.s = s /\ Follows(req[r], q)
<1> DEFINE p == req[r]
<1>1. CASE pc \in Answers
  <2> DEFINE q == [pc |-> pc, s |-> s, had |-> p.had, sent |-> p.sent]
  <2>1. q \in Answered
    BY <1>1, ActiveFields DEF Answered
  <2>2. req' = [req EXCEPT ![r] = q]
    BY <1>1 DEF GotoWith, TypeOK
  <2>3. q.pc \notin Phases
    BY <1>1, PhasesDiffer
  <2>4. Follows(p, q)
    BY <2>1, <2>3 DEF Follows
  <2> QED
    BY <2>1, <2>2, <2>4
<1>2. CASE pc \in Phases
  <2> DEFINE q == [p EXCEPT !.pc = pc, !.s = s]
  <2>1. pc \notin Answers
    BY <1>2, PhasesDiffer
  <2>2. q \in Active
    BY <1>2 DEF Active
  <2>3. req' = [req EXCEPT ![r] = q]
    BY <2>1 DEF GotoWith, TypeOK
  <2>4. Follows(p, q) /\ q.pc = pc /\ q.s = s
    BY <2>1, <2>2 DEF Follows, Active
  <2> QED
    BY <2>2, <2>3, <2>4
<1> QED
  BY <1>1, <1>2

LEMMA Moves ==
  ASSUME TInv, NEW r \in Requests, req[r] \in Active,
         NEW pc \in Phases \cup Answers, NEW s \in Sessions, GotoWith(r, pc, s),
         pc \in SignedIn \cup {"callback", "exchange"} => req[r].who \in Users, OthersTyped'
  PROVE  TInv'
<1>1. PICK q \in Active \cup Answered :
        req' = [req EXCEPT ![r] = q] /\ q.pc = pc /\ q.s = s /\ Follows(req[r], q)
  BY GotoWithIs DEF TInv
<1>2. q \in Active => WhoKnown(q)
  BY <1>1, ActiveFields DEF Follows, WhoKnown
<1> QED
  BY <1>1, <1>2, OneMoves

-----------------------------------------------------------------------------
(* The steps of a request, by what they do to sessions and tokens: most go *)
(* on with the session as it was, without its state or without anything.   *)
Quiet(r) ==
  /\ req[r] \in Active
  /\ \E q \in Active \cup Answered :
       /\ req' = [req EXCEPT ![r] = q] /\ Follows(req[r], q)
       /\ q.s \in {req[r].s, [req[r].s EXCEPT !.state = 0], Empty}
       /\ q.pc \notin {"check", "in"}
       /\ q.pc \in SignedIn => req[r].pc \in SignedIn
       /\ q.pc = "refresh" =>
            /\ UseRefresh /\ req[r].pc = "check"
            /\ q.s = req[r].s /\ q.s.token # None /\ q.s.user # None
       /\ q.pc = "logout" => req[r].pc = "check" /\ req[r].s # Empty
       /\ q.pc = "out" => req[r].pc = "logout" /\ q.s = Empty
  /\ UNCHANGED <<cookie, role, owner, live, ended, states, now, history>>

(* /login adds a state ...                                                 *)
Starts(r) ==
  /\ req[r] \in Active
  /\ \E q \in Active \cup Answered :
       /\ req' = [req EXCEPT ![r] = q] /\ Follows(req[r], q)
       /\ q.pc = "redirected" /\ q.s = [req[r].s EXCEPT !.state = states + 1]
  /\ states' = states + 1 /\ states + 1 \in 0 .. MaxLogins
  /\ UNCHANGED <<cookie, role, owner, live, ended, now, history>>

(* ... a code brings tokens ...                                            *)
SignsIn(r) ==
  /\ req[r] \in Active /\ req[r].who \in Users
  /\ \E k \in AtLogin, q \in Active :
       /\ Issue(req[r].who, k, {})
       /\ req' = [req EXCEPT ![r] = q]
       /\ q.sent = req[r].sent /\ q.had = req[r].had /\ q.s = req[r].s /\ q.who = req[r].who
       /\ q.pc = "decide" /\ q.expires = Expiry /\ q.token = k
  /\ endedAt' = [endedAt EXCEPT ![req[r].who] = None]
  /\ UNCHANGED <<cookie, role, states, now, changedAt, logouts, shared, inherited>>

(* ... the callback writes them to the session ...                         *)
Persists(r) ==
  /\ req[r] \in Active /\ req[r].who \in Users /\ req[r].pc = "persist"
  /\ \E q \in Active \cup Answered :
       /\ req' = [req EXCEPT ![r] = q] /\ Follows(req[r], q)
       /\ q.pc = "in" /\ q.s.state = req[r].s.state /\ q.s.user = req[r].who
       /\ q.s.expires = req[r].expires
       /\ q.s.token = IF ~UseRefresh THEN None
                      ELSE IF req[r].token # None THEN req[r].token ELSE req[r].s.token
  /\ inherited' = IF Inherits(r) THEN inherited \cup {req[r].s.token} ELSE inherited
  /\ UNCHANGED <<cookie, role, owner, live, ended, states, now, changedAt, endedAt, logouts, shared>>

(* ... and a refresh renews it.                                            *)
Renews(r) ==
  /\ req[r] \in Active /\ req[r].pc = "refresh" /\ req[r].s.token \in live
  /\ \E k \in AtRefresh, q \in Active \cup Answered :
       /\ Issue(owner[req[r].s.token], k, IF k # None THEN {req[r].s.token} ELSE {})
       /\ req' = [req EXCEPT ![r] = q] /\ Follows(req[r], q)
       /\ q.pc \in {"served", "logout"} /\ q.s.state = req[r].s.state /\ q.s.user = req[r].s.user
       /\ q.s.expires = Expiry
       /\ q.s.token = IF ~UseRefresh THEN None ELSE IF k # None THEN k ELSE req[r].s.token
       /\ inherited' = inherited \cup IF req[r].s.token \in inherited THEN {k} \ {None} ELSE {}
  /\ UNCHANGED <<cookie, role, states, now, changedAt, endedAt, logouts, shared>>

-----------------------------------------------------------------------------
LEMMA IsQuiet ==
  ASSUME TInv, NEW r \in Requests, req[r] \in Active,
         NEW pc \in Phases \cup Answers, NEW s \in Sessions, GotoWith(r, pc, s),
         pc \in SignedIn \cup {"callback", "exchange"} => req[r].who \in Users,
         s \in {req[r].s, [req[r].s EXCEPT !.state = 0], Empty},
         pc \notin {"check", "in"}, pc \in SignedIn => req[r].pc \in SignedIn,
         pc = "refresh" => /\ UseRefresh /\ req[r].pc = "check"
                           /\ s = req[r].s /\ s.token # None /\ s.user # None,
         pc = "logout" => req[r].pc = "check" /\ req[r].s # Empty,
         pc = "out" => req[r].pc = "logout" /\ s = Empty,
         UNCHANGED <<cookie, role, owner, live, ended, states, now, history>>,
         db' \in [Users -> Account \cup {None}], events' \in Nat, faults' \in Nat
  PROVE  TInv' /\ Quiet(r)
<1>1. OthersTyped'
  BY DEF TInv, TypeOK, OthersTyped, history, logouts
<1>2. TInv'
  BY <1>1, Moves
<1>3. PICK q \in Active \cup Answered :
        req' = [req EXCEPT ![r] = q] /\ q.pc = pc /\ q.s = s /\ Follows(req[r], q)
  BY GotoWithIs DEF TInv
<1>4. Quiet(r)
  BY <1>3 DEF Quiet
<1> QED
  BY <1>2, <1>4

(* Steps that only look at the session.                                    *)
LEMMA SessionSteps ==
  ASSUME TInv, NEW r \in Requests, Logout(r) \/ CheckState(r) \/ CheckSession(r)
  PROVE  TInv' /\ Quiet(r)
<1> DEFINE p == req[r]
<1>1. p \in Active /\ WhoKnown(p)
  BY Standing DEF TInv, Logout, CheckState, CheckSession, Phases
<1>2. p.s \in Sessions /\ [p.s EXCEPT !.state = 0] \in Sessions
  BY <1>1, ActiveFields, SessionFields, Constant
<1>3. UNCHANGED <<cookie, role, owner, live, ended, states, now, history>>
      /\ db' \in [Users -> Account \cup {None}] /\ events' \in Nat /\ faults' \in Nat
  BY DEF Logout, CheckState, CheckSession, TInv, TypeOK, idp, clocks
<1>4. CASE Logout(r)
  BY <1>1, <1>3, <1>4, EmptySession, IsQuiet DEF Logout, Answers, SignedIn
<1>5. CASE CheckState(r)
  <2>1. GotoWith(r, "rejected", p.s) \/ GotoWith(r, "exchange", [p.s EXCEPT !.state = 0])
    BY <1>5 DEF CheckState, Goto
  <2>2. p.who \in Users
    BY <1>1, <1>5 DEF CheckState, WhoKnown
  <2> QED
    BY <1>1, <1>2, <1>3, <2>1, <2>2, IsQuiet DEF Answers, Phases, SignedIn
<1>6. CASE CheckSession(r)
  <2>1. p.pc = "check"
    BY <1>6 DEF CheckSession
  <2>2. \/ GotoWith(r, "rejected", p.s)
        \/ GotoWith(r, "served", p.s)
        \/ GotoWith(r, "logout", p.s) /\ p.s.user # None
        \/ GotoWith(r, "refresh", p.s) /\ p.s.token # None /\ p.s.user # None /\ UseRefresh
        \/ GotoWith(r, "expired", Empty)
    BY <1>6 DEF CheckSession, Goto, Authenticated
  <2>3. p.s.user # None => p.s # Empty
    BY EmptySession
  <2>4. CASE GotoWith(r, "rejected", p.s) \/ GotoWith(r, "served", p.s)
             \/ GotoWith(r, "expired", Empty)
    BY <1>1, <1>2, <1>3, <2>4, EmptySession, IsQuiet DEF Answers, SignedIn
  <2>5. CASE GotoWith(r, "logout", p.s) /\ p.s.user # None
    BY <1>1, <1>2, <1>3, <2>1, <2>3, <2>5, IsQuiet DEF Phases, SignedIn
  <2>6. CASE GotoWith(r, "refresh", p.s) /\ p.s.token # None /\ p.s.user # None /\ UseRefresh
    BY <1>1, <1>2, <1>3, <2>1, <2>6, IsQuiet DEF Phases, SignedIn
  <2> QED
    BY <2>2, <2>4, <2>5, <2>6
<1> QED
  BY <1>4, <1>5, <1>6

(* Steps at the user store, or that look at it.                            *)
LEMMA StoreSteps ==
  ASSUME TInv, NEW r \in Requests,
         Decide(r) \/ LookForUser(r) \/ UpdateUser(r) \/ CreateUser(r) \/ SyncGroups(r)
  PROVE  TInv' /\ Quiet(r)
<1> DEFINE p == req[r]
           u == req[r].who
<1>1. p.pc \in SignedIn /\ p \in Active /\ WhoKnown(p) /\ p.role \in Roles /\ p.s \in Sessions
  <2>1. p.pc \in SignedIn
    BY DEF Decide, LookForUser, UpdateUser, CreateUser, SyncGroups, SignedIn
  <2> QED
    BY <2>1, Standing, ActiveFields, PhasesDiffer DEF TInv
<1>2. u \in Users
  BY <1>1 DEF WhoKnown
<1>3. \A a \in Account, g \in Roles, b \in BOOLEAN :
        [a EXCEPT !.groups = g] \in Account /\ [a EXCEPT !.admin = b] \in Account
        /\ [admin |-> b, groups |-> g] \in Account
  BY DEF Account
<1>4. "none" \in Roles /\ db[u] \in Account \cup {None}
  BY <1>2 DEF Roles, TInv, TypeOK
<1>5. db' \in [Users -> Account \cup {None}]
  <2>1. CASE Decide(r)
    <3>1. Cleared(db[u]) \in Account \cup {None}
      BY <1>3, <1>4 DEF Cleared
    <3> QED
      BY <2>1, <3>1 DEF Decide, TInv, TypeOK
  <2>2. CASE UpdateUser(r)
    BY <2>2, <1>3, <1>4 DEF UpdateUser, TInv, TypeOK
  <2>3. CASE CreateUser(r)
    <3>1. (p.role = "admin") \in BOOLEAN
          /\ [admin |-> p.role = "admin", groups |-> "none"] \in Account
      BY <1>4 DEF Account
    <3> QED
      BY <2>3, <3>1 DEF CreateUser, TInv, TypeOK
  <2>4. CASE SyncGroups(r)
    <3>1. db[u] # None => [db[u] EXCEPT !.groups = p.role] \in Account
      BY <1>1, <1>3, <1>4
    <3> QED
      BY <2>4, <3>1 DEF SyncGroups, TInv, TypeOK
  <2>5. CASE LookForUser(r)
    BY <2>5 DEF LookForUser, TInv, TypeOK
  <2> QED
    BY <2>1, <2>2, <2>3, <2>4, <2>5
<1>6. UNCHANGED <<cookie, role, owner, live, ended, states, now, history>>
      /\ events' \in Nat /\ faults' \in Nat
  BY DEF Decide, LookForUser, UpdateUser, CreateUser, SyncGroups, Fault, TInv, TypeOK, idp, clocks
<1>7. PICK pc \in {"rejected", "look", "create", "update", "sync", "persist"} :
        GotoWith(r, pc, p.s)
  BY DEF Decide, LookForUser, UpdateUser, CreateUser, SyncGroups, Goto
<1>8. pc \in Phases \cup Answers
  BY DEF Phases, Answers
<1> QED
  BY <1>1, <1>2, <1>5, <1>6, <1>7, <1>8, IsQuiet

LEMMA FailureSteps ==
  ASSUME TInv, NEW r \in Requests, ExchangeFails(r) \/ RefreshFails(r)
  PROVE  TInv' /\ Quiet(r)
<1> DEFINE p == req[r]
<1>1. p \in Active /\ WhoKnown(p) /\ p.s \in Sessions
  BY Standing, ActiveFields DEF TInv, ExchangeFails, RefreshFails, Phases
<1>2. UNCHANGED <<cookie, role, owner, live, ended, states, now, history>>
      /\ db' \in [Users -> Account \cup {None}] /\ events' \in Nat /\ faults' \in Nat
  BY DEF ExchangeFails, RefreshFails, Fault, TInv, TypeOK, idp
<1>3. CASE GotoWith(r, "rejected", p.s) \/ GotoWith(r, "expired", Empty)
  BY <1>1, <1>2, <1>3, EmptySession, IsQuiet DEF Answers, SignedIn
<1>4. CASE p.pc = "exchange" /\ req' = [req EXCEPT ![r].tried = TRUE]
  <2> DEFINE q == [p EXCEPT !.tried = TRUE]
  <2>1. q \in Active /\ Follows(p, q) /\ WhoKnown(q) /\ q.s = p.s /\ q.pc = "exchange"
    BY <1>1, <1>4 DEF Active, Follows, WhoKnown, Answers
  <2>2. req' = [req EXCEPT ![r] = q]
    BY <1>4 DEF TInv, TypeOK
  <2>3. OthersTyped'
    BY <1>2 DEF TInv, TypeOK, OthersTyped, history, logouts
  <2> HIDE DEF q
  <2>4. TInv'
    BY <2>1, <2>2, <2>3, OneMoves
  <2> QED
    BY <1>1, <1>2, <2>1, <2>2, <2>4 DEF Quiet, SignedIn
<1> QED
  BY <1>3, <1>4 DEF ExchangeFails, RefreshFails, Goto

LEMMA LoginSteps ==
  ASSUME TInv, NEW r \in Requests, Login(r)
  PROVE  TInv' /\ Starts(r)
<1> DEFINE s == [req[r].s EXCEPT !.state = states + 1]
<1>1. req[r] \in Active
  BY Standing DEF TInv, Login, Phases
<1>2. states + 1 \in 0 .. MaxLogins
  BY Constant DEF Login, TInv, TypeOK
<1>3. s \in Sessions
  BY <1>1, <1>2, ActiveFields, SessionFields
<1>4. OthersTyped'
  BY <1>2 DEF Login, TInv, TypeOK, OthersTyped, idp, clocks, history, logouts
<1>5. "redirected" \in Answers /\ "redirected" \notin SignedIn
  BY DEF Answers, SignedIn
<1>6. GotoWith(r, "redirected", s)
  BY DEF Login
<1> HIDE DEF s
<1>7. TInv'
  BY <1>1, <1>3, <1>4, <1>5, <1>6, Moves
<1>8. \E q \in Active \cup Answered :
        req' = [req EXCEPT ![r] = q] /\ q.pc = "redirected" /\ q.s = s /\ Follows(req[r], q)
  BY <1>1, <1>3, <1>5, <1>6, GotoWithIs DEF TInv
<1> QED
  BY <1>1, <1>2, <1>7, <1>8 DEF Starts, Login, idp, clocks, s

LEMMA IssueTypes ==
  ASSUME TInv, NEW u \in Users \cup {None}, NEW k \in Tokens \cup {None}, NEW old,
         Issue(u, k, old)
  PROVE  owner' \in [Tokens -> Users \cup {None}] /\ live' \subseteq Tokens /\ ended' = ended
BY TokensAreNumbers DEF Issue, TInv, TypeOK

LEMMA ExchangeSteps ==
  ASSUME TInv, NEW r \in Requests, Exchange(r)
  PROVE  TInv' /\ (Quiet(r) \/ SignsIn(r))
<1> DEFINE p == req[r]
<1>1. p.pc = "exchange" /\ p \in Active /\ WhoKnown(p) /\ p.s \in Sessions
  BY Standing, ActiveFields DEF Exchange, TInv, Phases
<1>2. p.who \in Users
  BY <1>1 DEF WhoKnown
<1>3. CASE AtLogin = {} /\ Goto(r, "rejected") /\ UNCHANGED <<owner, live, ended, endedAt>>
  <2>1. UNCHANGED <<cookie, role, owner, live, ended, states, now, history>>
        /\ db' \in [Users -> Account \cup {None}] /\ events' \in Nat /\ faults' \in Nat
    BY <1>3 DEF Exchange, TInv, TypeOK, clocks, history, logouts
  <2> QED
    BY <1>1, <1>3, <2>1, IsQuiet DEF Goto, Answers, SignedIn
<1>4. ASSUME NEW k \in AtLogin, Issue(p.who, k, {}),
             req' = [req EXCEPT ![r].pc = "decide", ![r].role = role[req[r].who],
                                ![r].expires = Expiry, ![r].token = k],
             endedAt' = [endedAt EXCEPT ![p.who] = None]
      PROVE  TInv' /\ SignsIn(r)
  <2> DEFINE q == [p EXCEPT !.pc = "decide", !.role = role[p.who], !.expires = Expiry, !.token = k]
  <2>1. k \in Tokens \cup {None}
    BY AtLoginIs
  <2>2. role[p.who] \in Roles /\ Expiry \in Times \cup {None}
    BY <1>2, ExpiryIsTime DEF TInv, TypeOK
  <2>3. q \in Active
    BY <1>1, <2>1, <2>2 DEF Active, Phases
  <2>4. /\ q.sent = p.sent /\ q.had = p.had /\ q.s = p.s /\ q.who = p.who
        /\ q.pc = "decide" /\ q.expires = Expiry /\ q.token = k
    BY <1>1 DEF Active
  <2>5. req' = [req EXCEPT ![r] = q]
    BY <1>4 DEF TInv, TypeOK
  <2>6. owner' \in [Tokens -> Users \cup {None}] /\ live' \subseteq Tokens /\ ended' = ended
    BY <1>2, <1>4, <2>1, IssueTypes
  <2>7. OthersTyped'
    BY <1>4, <2>6 DEF Exchange, TInv, TypeOK, OthersTyped, clocks, logouts
  <2> HIDE DEF q
  <2>8. TInv'
    BY <1>2, <2>3, <2>4, <2>5, <2>7, OneMoves DEF WhoKnown
  <2>9. SignsIn(r)
    BY <1>1, <1>2, <1>4, <2>3, <2>4, <2>5 DEF SignsIn, Exchange, clocks
  <2> QED
    BY <2>8, <2>9
<1> QED
  BY <1>3, <1>4 DEF Exchange

LEMMA PersistedIs ==
  ASSUME NEW s \in Sessions, NEW x, NEW k
  PROVE  /\ Persisted(s, x, k).state = s.state /\ Persisted(s, x, k).user = s.user
         /\ Persisted(s, x, k).expires = x
         /\ Persisted(s, x, k).token = IF ~UseRefresh THEN None ELSE IF k # None THEN k ELSE s.token
BY DEF Persisted, Sessions

LEMMA PersistSteps ==
  ASSUME TInv, NEW r \in Requests, Persist(r)
  PROVE  TInv' /\ Persists(r)
<1> DEFINE p == req[r]
           s == Persisted(p.s, p.expires, p.token)
           t == [s EXCEPT !.user = p.who]
<1>1. p.pc = "persist" /\ p \in Active /\ WhoKnown(p)
  BY Standing DEF Persist, TInv, Phases
<1>2. p.who \in Users /\ p.s \in Sessions /\ p.expires \in Times \cup {None}
      /\ p.token \in Tokens \cup {None}
  BY <1>1, ActiveFields DEF WhoKnown, SignedIn
<1>3. s \in Sessions
  BY <1>2, SessionFields
<1>4. /\ s.state = p.s.state /\ s.expires = p.expires
      /\ s.token = IF ~UseRefresh THEN None ELSE IF p.token # None THEN p.token ELSE p.s.token
  BY <1>2, PersistedIs
<1>5. GotoWith(r, "in", t)
  BY DEF Persist
<1> HIDE DEF s
<1>6. t \in Sessions /\ t.user = p.who /\ t.state = s.state /\ t.expires = s.expires
      /\ t.token = s.token
  BY <1>2, <1>3 DEF Sessions
<1> HIDE DEF t
<1>7. p.s.token \in Tokens \cup {None}
  BY <1>2, SessionFields
<1>8. inherited' \subseteq Tokens
  BY <1>7 DEF Persist, Inherits, TInv, TypeOK
<1>9. OthersTyped'
  BY <1>8 DEF Persist, TInv, TypeOK, OthersTyped, idp, clocks, logouts
<1>10. "in" \in Answers /\ "in" \notin SignedIn
  BY DEF Answers, SignedIn
<1>11. TInv'
  BY <1>1, <1>5, <1>6, <1>9, <1>10, Moves
<1>12. \E q \in Active \cup Answered :
         req' = [req EXCEPT ![r] = q] /\ q.pc = "in" /\ q.s = t /\ Follows(p, q)
  BY <1>1, <1>5, <1>6, <1>10, GotoWithIs DEF TInv
<1> QED
  BY <1>1, <1>2, <1>4, <1>6, <1>11, <1>12 DEF Persists, Persist, idp, clocks

LEMMA RefreshSteps ==
  ASSUME TInv, NEW r \in Requests, Refresh(r)
  PROVE  TInv' /\ (Quiet(r) \/ Renews(r))
<1> DEFINE p == req[r]
<1>1. p.pc = "refresh" /\ p \in Active /\ p.s \in Sessions
  BY Standing, ActiveFields DEF Refresh, TInv, Phases
<1>2. CASE p.s.token \notin live
  <2>1. GotoWith(r, "expired", Empty)
    BY <1>2 DEF Refresh
  <2>2. UNCHANGED <<cookie, role, owner, live, ended, states, now, history>>
        /\ db' \in [Users -> Account \cup {None}] /\ events' \in Nat /\ faults' \in Nat
    BY <1>2 DEF Refresh, TInv, TypeOK, clocks, history, logouts
  <2> QED
    BY <1>1, <2>1, <2>2, EmptySession, IsQuiet DEF Answers, SignedIn
<1>3. ASSUME p.s.token \in live, NEW k \in AtRefresh,
             Issue(owner[p.s.token], k, IF k # None THEN {p.s.token} ELSE {}),
             GotoWith(r, Authenticated(r), Persisted(p.s, Expiry, k)),
             inherited' = inherited \cup IF p.s.token \in inherited THEN {k} \ {None} ELSE {}
      PROVE  TInv' /\ Renews(r)
  <2> DEFINE s == Persisted(p.s, Expiry, k)
  <2>1. k \in Tokens \cup {None}
    BY AtLoginIs
  <2>2. owner[p.s.token] \in Users \cup {None}
    BY <1>3 DEF TInv, TypeOK
  <2>3. owner' \in [Tokens -> Users \cup {None}] /\ live' \subseteq Tokens /\ ended' = ended
    BY <1>3, <2>1, <2>2, IssueTypes
  <2>4. s \in Sessions
    BY <1>1, <2>1, ExpiryIsTime, SessionFields DEF TInv
  <2>5. s.state = p.s.state /\ s.user = p.s.user /\ s.expires = Expiry
        /\ s.token = IF ~UseRefresh THEN None ELSE IF k # None THEN k ELSE p.s.token
    BY <1>1, PersistedIs
  <2>6. inherited' \subseteq Tokens
    BY <1>3, <2>1 DEF TInv, TypeOK
  <2>7. OthersTyped'
    BY <2>3, <2>6 DEF Refresh, TInv, TypeOK, OthersTyped, clocks, logouts
  <2>8. Authenticated(r) \in {"served", "logout"}
        /\ Authenticated(r) \in (Phases \cup Answers) \ (SignedIn \cup {"callback", "exchange"})
    BY DEF Authenticated, Phases, Answers, SignedIn
  <2> HIDE DEF s
  <2>9. GotoWith(r, Authenticated(r), s)
    BY <1>3 DEF s
  <2>10. TInv'
    BY <1>1, <2>4, <2>7, <2>8, <2>9, Moves
  <2>11. \E q \in Active \cup Answered :
           req' = [req EXCEPT ![r] = q] /\ q.pc = Authenticated(r) /\ q.s = s /\ Follows(p, q)
    BY <1>1, <2>4, <2>8, <2>9, GotoWithIs DEF TInv
  <2>12. UNCHANGED <<cookie, role, states, now, changedAt, endedAt, logouts, shared>>
    BY DEF Refresh, clocks
  <2>13. Renews(r)
    BY <1>1, <1>3, <2>5, <2>8, <2>11, <2>12 DEF Renews
  <2> QED
    BY <2>10, <2>13
<1> QED
  BY <1>2, <1>3 DEF Refresh

(* Everything outside: the requests stand still.                           *)
LEMMA OutsideSteps ==
  ASSUME TInv, Outside
  PROVE  TInv' /\ req' = req
<1>1. req' = req
  BY DEF Outside, ChangeRole, EndIdpSession, DeleteUser, Tick, Event
<1>2. TypeOK'
  <2>1. ASSUME NEW u \in Users, NEW x \in Roles, ChangeRole(u, x)
        PROVE  TypeOK'
    BY <2>1 DEF ChangeRole, Event, TInv, TypeOK, logouts
  <2>2. ASSUME NEW u \in Users, EndIdpSession(u)
        PROVE  TypeOK'
    BY <2>2 DEF EndIdpSession, Event, TInv, TypeOK, logouts
  <2>3. ASSUME NEW u \in Users, DeleteUser(u)
        PROVE  TypeOK'
    BY <2>3 DEF DeleteUser, Event, TInv, TypeOK, idp, history, logouts
  <2>4. CASE Tick
    BY <2>4, Constant DEF Tick, TInv, TypeOK, idp, history, logouts
  <2> QED
    BY <2>1, <2>2, <2>3, <2>4 DEF Outside
<1> QED
  BY <1>1, <1>2 DEF TInv, WhoKnown

Sends(r) ==
  \E path \in Paths, state \in 0 .. MaxLogins, who \in Users \cup {None} :
    Send(r, path, state, who) /\ (path = "callback" => who \in Users)

LEMMA BrowseSteps ==
  ASSUME TInv, NEW r \in Requests, Browse(r)
  PROVE  TInv' /\ Sends(r)
<1>1. 0 \in 0 .. MaxLogins /\ \A n \in 1 .. states : n \in 0 .. MaxLogins
  BY Constant DEF TInv, TypeOK
<1>2. Sends(r)
  BY <1>1 DEF Browse, Sends, Paths
<1> QED
  BY <1>2, SendKeepsTypes DEF Sends

Moving(r) == Quiet(r) \/ Starts(r) \/ SignsIn(r) \/ Persists(r) \/ Renews(r)

LEMMA HandleSteps ==
  ASSUME TInv, NEW r \in Requests, Handle(r)
  PROVE  TInv' /\ (Respond(r) \/ Moving(r))
BY RespondKeepsTypes, SessionSteps, StoreSteps, FailureSteps, LoginSteps, ExchangeSteps,
   PersistSteps, RefreshSteps DEF Handle, Moving

(* A step keeps the types, and is one of these.                            *)
LEMMA Steps ==
  ASSUME TInv, [Next]_vars
  PROVE  /\ TInv'
         /\ \/ \E r \in Requests : Sends(r) \/ Respond(r) \/ Moving(r)
            \/ Outside
            \/ UNCHANGED vars
<1>1. CASE UNCHANGED vars
  BY <1>1 DEF vars, idp, clocks, history, logouts, TInv, TypeOK, WhoKnown
<1> QED
  BY <1>1, HandleSteps, BrowseSteps, OutsideSteps DEF Next

LEMMA SessionTypes == Spec => []TInv
<1>1. TInv /\ [Next]_vars => TInv'
  BY Steps
<1> QED
  BY <1>1, InitTInv, PTL DEF Spec

(* The cookie, the requests, the accounts and the IdP's tokens are well    *)
(* typed: a session is one that login, callback or refresh can have made.  *)
THEOREM SessionTypeCorrect == Spec => []TypeOK
<1>1. TInv => TypeOK
  BY DEF TInv
<1> QED
  BY <1>1, SessionTypes, PTL

-----------------------------------------------------------------------------
(* Whose refresh tokens the sessions hold: their own user's or inherited   *)
(* ones.                                                                   *)
Own(s) ==
  s.user # None /\ s.token # None => owner[s.token] = s.user \/ s.token \in inherited

(* A code brings its own user's token, if any.                             *)
Brought(q) == q.pc \in SignedIn /\ q.token # None => owner[q.token] = q.who

OwnInv ==
  /\ TInv
  /\ Own(cookie)
  /\ \A r \in Requests : UnderWay(r) => Own(req[r].s) /\ Brought(req[r])

(* Once issued, a token is its user's for ever, and once inherited it is   *)
(* for ever.                                                               *)
LEMMA TokensKept ==
  ASSUME TInv, [Next]_vars
  PROVE  /\ \A k \in Tokens : owner[k] # None => owner'[k] = owner[k]
         /\ inherited \subseteq inherited' /\ shared \subseteq shared'
<1>1. ASSUME NEW u, NEW k \in AtLogin \cup AtRefresh, NEW old, Issue(u, k, old)
      PROVE  \A j \in Tokens : owner[j] # None => owner'[j] = owner[j]
  <2>1. k # None => k \in Tokens /\ owner[k] = None
    BY AtLoginIs
  <2> QED
    BY <1>1, <2>1 DEF Issue, TInv, TypeOK
<1>2. ASSUME NEW r \in Requests, SignsIn(r)
      PROVE  /\ \A j \in Tokens : owner[j] # None => owner'[j] = owner[j]
             /\ inherited' = inherited /\ shared' = shared
  BY <1>1, <1>2 DEF SignsIn
<1>3. ASSUME NEW r \in Requests, Renews(r)
      PROVE  /\ \A j \in Tokens : owner[j] # None => owner'[j] = owner[j]
             /\ inherited \subseteq inherited' /\ shared' = shared
  BY <1>1, <1>3 DEF Renews
<1>4. ASSUME NEW r \in Requests, Quiet(r) \/ Starts(r) \/ Persists(r) \/ Respond(r)
      PROVE  owner' = owner /\ inherited \subseteq inherited' /\ shared' = shared
  BY <1>4 DEF Quiet, Starts, Persists, Respond, history, idp
<1>5. ASSUME NEW r \in Requests, Sends(r)
      PROVE  owner' = owner /\ inherited' = inherited /\ shared \subseteq shared'
  BY <1>5 DEF Sends, Send, idp
<1>6. Outside \/ UNCHANGED vars => owner' = owner /\ inherited' = inherited /\ shared' = shared
  BY DEF Outside, ChangeRole, EndIdpSession, DeleteUser, Tick, vars, idp, history
<1> QED
  BY <1>2, <1>3, <1>4, <1>5, <1>6, Steps DEF Moving

LEMMA OwnKept ==
  ASSUME TInv, [Next]_vars
  PROVE  /\ \A s \in Sessions : Own(s) => Own(s)'
         /\ \A r \in Requests : UnderWay(r) /\ req'[r] = req[r] /\ Brought(req[r]) => Brought(req[r])'
<1>1. \A k \in Tokens : owner[k] # None => owner'[k] = owner[k]
  BY TokensKept
<1>2. inherited \subseteq inherited'
  BY TokensKept
<1>3. ASSUME NEW s \in Sessions, Own(s)
      PROVE  Own(s)'
  BY <1>1, <1>2, <1>3, SessionFields DEF Own
<1>4. ASSUME NEW r \in Requests, UnderWay(r), req'[r] = req[r], Brought(req[r])
      PROVE  Brought(req[r])'
  <2>1. CASE req[r].pc \in SignedIn
    <3>1. req[r] \in Active /\ WhoKnown(req[r])
      BY <2>1, Standing, PhasesDiffer DEF TInv
    <3>2. req[r].token \in Tokens \cup {None} /\ req[r].who \in Users
      BY <2>1, <3>1, ActiveFields DEF WhoKnown
    <3> QED
      BY <1>1, <1>4, <2>1, <3>2, Constant DEF Brought
  <2>2. CASE req[r].pc \notin SignedIn
    BY <1>4, <2>2 DEF Brought
  <2> QED
    BY <2>1, <2>2
<1> QED
  BY <1>3, <1>4

(* A step of one request is correct if what becomes of it is.              *)
LEMMA OwnMoves ==
  ASSUME OwnInv, [Next]_vars, NEW r \in Requests, NEW q \in Active \cup Answered \cup {Idle},
         req' = [req EXCEPT ![r] = q], Own(cookie)',
         q # Idle => Own(req[r].s)' /\ Brought(req[r])'
  PROVE  OwnInv'
<1>1. TInv'
  BY Steps DEF OwnInv
<1>2. ASSUME NEW p \in Requests, UnderWay(p)'
      PROVE  Own(req[p].s)' /\ Brought(req[p])'
  <2>1. CASE p = r
    <3>1. req'[r] = q
      BY DEF OwnInv, TInv, TypeOK
    <3> QED
      BY <1>2, <2>1, <3>1 DEF UnderWay
  <2>2. CASE p # r
    <3>1. req'[p] = req[p] /\ UnderWay(p)
      BY <1>2, <2>2 DEF OwnInv, TInv, TypeOK, UnderWay
    <3>2. req[p].s \in Sessions
      BY <3>1, Standing DEF OwnInv, TInv
    <3> QED
      BY <3>1, <3>2, OwnKept DEF OwnInv, Own
  <2> QED
    BY <2>1, <2>2
<1> QED
  BY <1>1, <1>2 DEF OwnInv

LEMMA CookieStays ==
  ASSUME OwnInv, [Next]_vars, cookie' = cookie
  PROVE  Own(cookie)'
<1>1. TInv /\ cookie \in Sessions /\ Own(cookie)
  BY DEF OwnInv, TInv, TypeOK
<1> QED
  BY <1>1, OwnKept DEF Own

LEMMA SendOwn ==
  ASSUME OwnInv, [Next]_vars, NEW r \in Requests, Sends(r)
  PROVE  OwnInv'
<1>1. PICK path \in Paths, state \in 0 .. MaxLogins, who \in Users \cup {None} :
        Send(r, path, state, who)
  BY DEF Sends
<1> DEFINE q == New(path, state, who)
<1>2. q.s = cookie /\ q.pc \notin SignedIn
  BY DEF New, FirstPhase, SignedIn
<1>3. cookie' = cookie /\ req' = [req EXCEPT ![r] = q]
  BY <1>1 DEF Send
<1>4. TInv /\ TInv' /\ q.pc \in Phases
  BY Steps DEF OwnInv, New, FirstPhase, Phases
<1> HIDE DEF q
<1>5. req'[r] = q
  BY <1>3, <1>4 DEF TInv, TypeOK
<1>6. q \in Active
  <2>1. req' \in [Requests -> {Idle} \cup Active \cup Answered]
    BY <1>4 DEF TInv, TypeOK
  <2> QED
    BY <1>4, <1>5, <2>1, AnsweredFields, PhasesDiffer DEF Idle
<1>7. Own(cookie)'
  BY <1>3, CookieStays
<1>8. Own(req[r].s)' /\ Brought(req[r])'
  BY <1>2, <1>3, <1>5, <1>7 DEF Own, Brought
<1> QED
  BY <1>3, <1>6, <1>7, <1>8, OwnMoves

LEMMA RespondOwn ==
  ASSUME OwnInv, [Next]_vars, NEW r \in Requests, Respond(r)
  PROVE  OwnInv'
<1>1. UnderWay(r)
  BY DEF Respond, Idle, UnderWay, Answers
<1>2. Own(req[r].s) /\ Own(cookie) /\ cookie' \in {req[r].s, cookie}
      /\ req' = [req EXCEPT ![r] = Idle]
  BY <1>1 DEF OwnInv, Respond
<1>3. owner' = owner /\ inherited' = inherited
  BY DEF Respond, idp
<1>4. Own(cookie)'
  BY <1>2, <1>3 DEF Own
<1> QED
  BY <1>2, <1>4, OwnMoves

LEMMA MovingOwn ==
  ASSUME OwnInv, [Next]_vars, NEW r \in Requests, Moving(r)
  PROVE  OwnInv'
<1> DEFINE p == req[r]
<1>0. TInv /\ TypeOK
  BY DEF OwnInv, TInv
<1>1. p \in Active /\ cookie' = cookie /\ UnderWay(r)
  <2>1. p \in Active /\ cookie' = cookie
    BY DEF Moving, Quiet, Starts, SignsIn, Persists, Renews
  <2> QED
    BY <1>0, <2>1, Standing
<1>2. p.s \in Sessions /\ p.s.token \in Tokens \cup {None} /\ Own(p.s) /\ Brought(p)
      /\ p.who \in Users \cup {None} /\ p.token \in Tokens \cup {None}
  BY <1>1, ActiveFields, SessionFields DEF OwnInv
<1>3. Own(cookie)'
  BY <1>1, CookieStays
<1>4. \A k \in Tokens : owner[k] # None => owner'[k] = owner[k]
  BY <1>0, TokensKept
<1>5. inherited \subseteq inherited'
  BY <1>0, TokensKept
<1>6. ASSUME NEW q \in Active \cup Answered, req' = [req EXCEPT ![r] = q],
             q.s.user # None /\ q.s.token # None =>
               owner'[q.s.token] = q.s.user \/ q.s.token \in inherited',
             q.pc \in SignedIn /\ q.token # None => owner'[q.token] = q.who
      PROVE  OwnInv'
  <2>1. req'[r] = q
    BY <1>0, <1>6 DEF TypeOK
  <2> QED
    BY <1>3, <1>6, <2>1, OwnMoves DEF Own, Brought
<1>7. CASE Quiet(r) \/ Starts(r)
  <2>1. PICK q \in Active \cup Answered :
          /\ req' = [req EXCEPT ![r] = q] /\ Follows(p, q)
          /\ \/ q.s = p.s \/ q.s = Empty \/ (\E n \in {0, states + 1} : q.s = [p.s EXCEPT !.state = n])
          /\ q.pc \in SignedIn => p.pc \in SignedIn
    BY <1>7 DEF Quiet, Starts, SignedIn
  <2>2. owner' = owner
    BY <1>7 DEF Quiet, Starts
  <2>3. q.s.user # None => q.s.user = p.s.user /\ q.s.token = p.s.token
    <3>1. \A n : [p.s EXCEPT !.state = n].user = p.s.user
                 /\ [p.s EXCEPT !.state = n].token = p.s.token
      BY <1>2 DEF Sessions
    <3> QED
      BY <2>1, <3>1, EmptySession
  <2>4. q.s.user # None /\ q.s.token # None =>
          owner'[q.s.token] = q.s.user \/ q.s.token \in inherited'
    BY <1>2, <1>5, <2>2, <2>3 DEF Own
  <2>5. q.pc \in SignedIn => q.token = p.token /\ q.who = p.who
    BY <2>1, PhasesDiffer DEF Follows
  <2> QED
    BY <1>2, <1>6, <2>1, <2>2, <2>4, <2>5 DEF Brought
<1>8. CASE SignsIn(r)
  <2>1. PICK k \in AtLogin, q \in Active :
          /\ Issue(p.who, k, {}) /\ req' = [req EXCEPT ![r] = q]
          /\ q.s = p.s /\ q.who = p.who /\ q.token = k
    BY <1>8 DEF SignsIn
  <2>2. k # None => k \in Tokens /\ owner'[k] = p.who
    BY <1>0, <2>1, AtLoginIs DEF Issue, TypeOK
  <2>3. q.s.user # None /\ q.s.token # None =>
          owner'[q.s.token] = q.s.user \/ q.s.token \in inherited'
    <3>1. p.s.user \in Users \cup {None}
      BY <1>2, SessionFields
    <3> QED
      BY <1>2, <1>4, <1>5, <2>1, <3>1 DEF Own
  <2> QED
    BY <1>6, <2>1, <2>2, <2>3
<1>9. CASE Persists(r)
  <2>1. PICK q \in Active \cup Answered :
          /\ req' = [req EXCEPT ![r] = q] /\ q.pc = "in" /\ q.s.user = p.who
          /\ q.s.token = IF ~UseRefresh THEN None
                         ELSE IF p.token # None THEN p.token ELSE p.s.token
    BY <1>9 DEF Persists
  <2>2. owner' = owner /\ p.pc \in SignedIn
        /\ inherited' = IF Inherits(r) THEN inherited \cup {p.s.token} ELSE inherited
    BY <1>9 DEF Persists, SignedIn
  <2>3. q.s.user # None /\ q.s.token # None =>
          owner'[q.s.token] = q.s.user \/ q.s.token \in inherited'
    <3>1. CASE p.token # None
      BY <1>2, <2>1, <2>2, <3>1 DEF Brought
    <3>2. CASE p.token = None /\ p.s.user = p.who
      BY <1>2, <1>5, <2>1, <2>2, <3>2 DEF Own
    <3>3. CASE p.token = None /\ p.s.user # p.who
      BY <2>1, <2>2, <3>3 DEF Inherits
    <3> QED
      BY <3>1, <3>2, <3>3
  <2>4. q.pc \notin SignedIn
    BY <2>1 DEF SignedIn
  <2> QED
    BY <1>6, <2>1, <2>3, <2>4
<1>10. CASE Renews(r)
  <2>1. PICK k \in AtRefresh, q \in Active \cup Answered :
          /\ Issue(owner[p.s.token], k, IF k # None THEN {p.s.token} ELSE {})
          /\ req' = [req EXCEPT ![r] = q] /\ q.pc \in {"served", "logout"} /\ q.s.user = p.s.user
          /\ q.s.token = IF ~UseRefresh THEN None ELSE IF k # None THEN k ELSE p.s.token
          /\ inherited' = inherited \cup IF p.s.token \in inherited THEN {k} \ {None} ELSE {}
    BY <1>10 DEF Renews
  <2>2. p.s.token \in Tokens /\ p.s.token # None
    BY <1>0, <1>10, TokensAreNumbers DEF Renews, TypeOK
  <2>3. k # None => k \in Tokens /\ owner'[k] = owner[p.s.token]
    BY <1>0, <2>1, AtLoginIs DEF Issue, TypeOK
  <2>4. q.s.user # None /\ q.s.token # None =>
          owner'[q.s.token] = q.s.user \/ q.s.token \in inherited'
    <3>1. p.s.user # None => owner[p.s.token] = p.s.user \/ p.s.token \in inherited
      BY <1>2, <2>2 DEF Own
    <3>2. CASE k # None
      BY <2>1, <2>3, <3>1, <3>2
    <3>3. CASE k = None
      BY <1>4, <1>5, <2>1, <2>2, <3>1, <3>3
    <3> QED
      BY <3>2, <3>3
  <2>5. q.pc \notin SignedIn
    BY <2>1 DEF SignedIn
  <2> QED
    BY <1>6, <2>1, <2>4, <2>5
<1> QED
  BY <1>7, <1>8, <1>9, <1>10 DEF Moving

LEMMA OwnStep ==
  ASSUME OwnInv, [Next]_vars
  PROVE  OwnInv'
<1>1. CASE Outside \/ UNCHANGED vars
  <2>1. cookie' = cookie /\ req' = req
    BY <1>1, OutsideSteps DEF Outside, ChangeRole, EndIdpSession, DeleteUser, Tick, Event, vars, OwnInv
  <2>2. TInv' /\ TInv
    BY Steps DEF OwnInv
  <2>3. ASSUME NEW p \in Requests, UnderWay(p)'
        PROVE  Own(req[p].s)' /\ Brought(req[p])'
    <3>1. req'[p] = req[p] /\ UnderWay(p)
      BY <2>1, <2>3 DEF UnderWay
    <3>2. req[p].s \in Sessions
      BY <2>2, <3>1, Standing DEF TInv
    <3> QED
      BY <2>2, <3>1, <3>2, OwnKept DEF OwnInv, Own
  <2> QED
    BY <2>1, <2>2, <2>3, CookieStays DEF OwnInv
<1>2. TInv
  BY DEF OwnInv
<1> QED
  BY <1>1, <1>2, Steps, SendOwn, RespondOwn, MovingOwn

LEMMA OwnInvariance == Spec => []OwnInv
<1>1. Init => OwnInv
  <2> SUFFICES ASSUME Init PROVE OwnInv
    OBVIOUS
  <2>1. Own(cookie) /\ \A r \in Requests : ~UnderWay(r)
    BY EmptySession DEF Init, Own, UnderWay
  <2> QED
    BY <2>1, InitTInv DEF OwnInv
<1>2. OwnInv /\ [Next]_vars => OwnInv'
  BY OwnStep
<1> QED
  BY <1>1, <1>2, PTL DEF Spec

(* A session is refreshed with its own user's token, unless it took over   *)
(* the token of the user logged in before, however logins, logouts and     *)
(* refreshes overlap and whether or not the IdP issues tokens.             *)
THEOREM SessionsHoldTheirOwnTokens == Spec => []OwnRefreshToken
<1>1. OwnInv => OwnRefreshToken
  BY DEF OwnInv, Own, OwnRefreshToken
<1> QED
  BY <1>1, OwnInvariance, PTL

-----------------------------------------------------------------------------
(* Logging out.  A request that is asked to log out, or to refresh, came   *)
(* with a cookie.                                                          *)
CameWith(q) ==
  /\ q.pc = "check" => q.s = Empty \/ q.had
  /\ q.pc \in {"refresh", "logout", "out"} => q.had
  /\ q.pc = "out" => q.s = Empty
  /\ q.sent # None => q.had

(* A session from after the logout: no user, and no state from before.     *)
Clean(s) == s.user = None /\ (s.state = 0 \/ s.state > floor)

CleanInv ==
  /\ TInv
  /\ \A r \in Requests : UnderWay(r) => CameWith(req[r])
  /\ floor <= states
  /\ loggedOut =>
       /\ Clean(cookie)
       /\ \A r \in Requests :
            UnderWay(r) /\ r \notin stragglers /\ req[r].pc # "in" => Clean(req[r].s)

LEMMA MovingIs ==
  ASSUME TInv, NEW r \in Requests, Moving(r)
  PROVE  /\ req[r] \in Active /\ UnderWay(r) /\ req[r].s \in Sessions
         /\ UNCHANGED <<cookie, logouts, shared, role, now>>
         /\ states' \in 0 .. MaxLogins /\ states <= states' /\ states \in Nat /\ floor \in Nat
         /\ \E q \in Active \cup Answered :
              /\ req' = [req EXCEPT ![r] = q] /\ req'[r] = q /\ q # Idle
              /\ q.sent = req[r].sent /\ q.had = req[r].had
<1>1. req[r] \in Active /\ UNCHANGED <<cookie, logouts, shared, role, now>>
  BY DEF Moving, Quiet, Starts, SignsIn, Persists, Renews, history
<1>2. states' \in 0 .. MaxLogins /\ states <= states' /\ states \in Nat /\ floor \in Nat
  BY Constant DEF TInv, TypeOK, Moving, Quiet, Starts, SignsIn, Persists, Renews
<1>3. UnderWay(r) /\ req[r].s \in Sessions
  BY <1>1, Standing DEF TInv
<1>4. PICK q \in Active \cup Answered :
        req' = [req EXCEPT ![r] = q] /\ q.sent = req[r].sent /\ q.had = req[r].had
  BY DEF Moving, Quiet, Starts, SignsIn, Persists, Renews, Follows
<1>5. req'[r] = q
  BY <1>4 DEF TInv, TypeOK
<1>6. q # Idle
  BY ActiveFields, AnsweredFields, PhasesDiffer DEF Idle
<1> QED
  BY <1>1, <1>2, <1>3, <1>4, <1>5, <1>6

(* The others stand where they stood.                                      *)
LEMMA OthersStand ==
  ASSUME TInv, NEW r \in Requests, NEW q, req' = [req EXCEPT ![r] = q],
         NEW p \in Requests, p # r
  PROVE  req'[p] = req[p] /\ (UnderWay(p)' <=> UnderWay(p))
BY DEF TInv, TypeOK, UnderWay

LEMMA SendIs ==
  ASSUME TInv, NEW r \in Requests, Sends(r)
  PROVE  /\ ~UnderWay(r) /\ UnderWay(r)'
         /\ \E q : req' = [req EXCEPT ![r] = q]
         /\ req'[r].s = cookie /\ req'[r].sent = cookie.token /\ req'[r].had = (cookie # Empty)
         /\ req'[r].pc \in {"login", "callback", "check"}
         /\ req'[r].pc \in Phases /\ req'[r].token = None
         /\ shared' = IF \E q \in Requests : UnderWay(q) /\ req[q].sent = cookie.token
                      THEN shared \cup ({cookie.token} \ {None}) ELSE shared
         /\ UNCHANGED <<cookie, idp, states, now, changedAt, endedAt, logouts, inherited>>
<1>1. PICK path \in Paths, state \in 0 .. MaxLogins, who \in Users \cup {None} :
        Send(r, path, state, who)
  BY DEF Sends
<1> DEFINE q == New(path, state, who)
<1>2. req' = [req EXCEPT ![r] = q]
  BY <1>1 DEF Send
<1>3. req'[r] = q
  BY <1>2 DEF TInv, TypeOK
<1>4. q.s = cookie /\ q.sent = cookie.token /\ q.had = (cookie # Empty) /\ q.token = None
  BY DEF New
<1>5. q.pc \in {"login", "callback", "check"} /\ q.pc \in Phases
  BY DEF New, FirstPhase, Phases, Paths
<1>6. q # Idle
  BY <1>5 DEF Idle
<1> HIDE DEF q
<1> QED
  BY <1>1, <1>2, <1>3, <1>4, <1>5, <1>6 DEF Send, clocks, UnderWay

-----------------------------------------------------------------------------
LEMMA SendClean ==
  ASSUME CleanInv, TInv', NEW r \in Requests, Sends(r)
  PROVE  CleanInv'
<1>0. TInv
  BY DEF CleanInv
<1>1. PICK q : req' = [req EXCEPT ![r] = q]
  BY <1>0, SendIs
<1>2. UNCHANGED <<cookie, states, loggedOut, stragglers, floor>>
  BY <1>0, SendIs DEF logouts
<1>3. CameWith(req'[r])
  BY <1>0, SendIs, EmptySession DEF CameWith
<1>4. req'[r].s = cookie
  BY <1>0, SendIs
<1>5. ASSUME NEW p \in Requests, UnderWay(p)'
      PROVE  /\ CameWith(req'[p])
             /\ loggedOut /\ p \notin stragglers /\ req'[p].pc # "in" => Clean(req'[p].s)
  <2>1. CASE p = r
    BY <1>3, <1>4, <2>1 DEF CleanInv
  <2>2. CASE p # r
    BY <1>0, <1>1, <1>5, <2>2, OthersStand DEF CleanInv
  <2> QED
    BY <2>1, <2>2
<1> QED
  BY <1>2, <1>5 DEF CleanInv, CameWith, Clean

LEMMA RespondClean ==
  ASSUME CleanInv, TInv', NEW r \in Requests, Respond(r)
  PROVE  CleanInv'
<1> DEFINE p == req[r]
<1>0. TInv /\ TypeOK
  BY DEF CleanInv, TInv
<1>1. UnderWay(r) /\ p \in Answered /\ CameWith(p)
  BY <1>0, Standing, AnsweredFields DEF Respond, CleanInv
<1>2. states' = states /\ req' = [req EXCEPT ![r] = Idle] /\ ~UnderWay(r)'
  BY <1>0 DEF Respond, UnderWay, TypeOK
<1>3. floor' <= states' /\ states \in Nat
  BY <1>0, <1>2, Constant DEF Respond, CleanInv, TypeOK
<1>4. ASSUME NEW q \in Requests, UnderWay(q)'
      PROVE  q # r /\ req'[q] = req[q] /\ UnderWay(q) /\ CameWith(req'[q])
  <2>1. q # r
    BY <1>2, <1>4
  <2> QED
    BY <1>0, <1>2, <1>4, <2>1, OthersStand DEF CleanInv
<1>5. ASSUME loggedOut'
      PROVE  /\ Clean(cookie)'
             /\ \A q \in Requests :
                  UnderWay(q)' /\ q \notin stragglers' /\ req'[q].pc # "in" => Clean(req[q].s)'
  <2>1. CASE p.pc = "out"
    <3>1. cookie' = Empty
      BY <1>1, <2>1 DEF Respond, CameWith
    <3>2. \A q \in Requests : UnderWay(q)' => q \in stragglers'
      BY <1>4, <2>1 DEF Respond
    <3> QED
      BY <3>1, <3>2, EmptySession DEF Clean
  <2>2. CASE p.pc # "out"
    <3>1. loggedOut /\ ~Undoes(r) /\ stragglers' = stragglers \ {r} /\ floor' = floor
      BY <1>5, <2>2 DEF Respond
    <3>2. Clean(cookie) /\ p.pc # "in" /\ (r \in stragglers => p.s = Empty)
      BY <3>1 DEF CleanInv, Undoes
    <3>3. r \notin stragglers => Clean(p.s)
      BY <1>1, <3>1, <3>2 DEF CleanInv
    <3>4. Clean(cookie')
      BY <3>2, <3>3, EmptySession DEF Respond, Clean
    <3>5. ASSUME NEW q \in Requests, UnderWay(q)', q \notin stragglers', req'[q].pc # "in"
          PROVE  Clean(req'[q].s)
      BY <1>4, <3>1, <3>5 DEF CleanInv
    <3> QED
      BY <3>1, <3>4, <3>5 DEF Clean
  <2> QED
    BY <2>1, <2>2
<1> QED
  BY <1>3, <1>4, <1>5 DEF CleanInv, CameWith

LEMMA MovingClean ==
  ASSUME CleanInv, TInv', NEW r \in Requests, Moving(r)
  PROVE  CleanInv'
<1> DEFINE p == req[r]
<1>0. TInv
  BY DEF CleanInv
<1>1. /\ p \in Active /\ UnderWay(r) /\ p.s \in Sessions /\ CameWith(p)
      /\ UNCHANGED <<cookie, loggedOut, stragglers, floor>>
      /\ states' \in 0 .. MaxLogins /\ states <= states' /\ states \in Nat /\ floor \in Nat
  BY <1>0, MovingIs DEF CleanInv, logouts
<1>2. PICK q \in Active \cup Answered :
        req' = [req EXCEPT ![r] = q] /\ req'[r] = q /\ q.sent = p.sent /\ q.had = p.had
  BY <1>0, MovingIs
<1>3. p.s.state \in Nat /\ \A n : [p.s EXCEPT !.state = n].user = p.s.user
        /\ [p.s EXCEPT !.state = n].state = n
  BY <1>1, SessionFields DEF Sessions
<1>4. p.pc \in Phases /\ p.pc # "in"
  BY <1>1, ActiveFields, PhasesDiffer DEF Answers
<1>5. CameWith(q)
  <2>1. CASE Quiet(r)
    <3>1. /\ q.pc \notin {"check", "in"}
          /\ q.pc = "refresh" => p.pc = "check" /\ q.s = p.s /\ q.s.token # None
          /\ q.pc = "logout" => p.pc = "check" /\ p.s # Empty
          /\ q.pc = "out" => p.pc = "logout" /\ q.s = Empty
      BY <1>0, <2>1, <1>2 DEF Quiet, TInv, TypeOK
    <3> QED
      BY <1>1, <1>2, <3>1, EmptySession DEF CameWith
  <2>2. CASE ~Quiet(r)
    <3>1. q.pc \in {"redirected", "decide", "in", "served"} \/ (q.pc = "logout" /\ p.pc = "refresh")
      BY <1>0, <1>2, <2>2 DEF Moving, Starts, SignsIn, Persists, Renews, TInv, TypeOK
    <3> QED
      BY <1>1, <1>2, <3>1 DEF CameWith
  <2> QED
    BY <2>1, <2>2
<1>6. ASSUME Clean(p.s), q.pc # "in", floor <= states
      PROVE  Clean(q.s)
  <2>1. CASE Quiet(r)
    <3>1. q.s \in {p.s, [p.s EXCEPT !.state = 0], Empty}
      BY <1>0, <1>2, <2>1 DEF Quiet, TInv, TypeOK
    <3> QED
      BY <1>3, <1>6, <3>1, EmptySession DEF Clean
  <2>2. CASE Starts(r)
    <3>1. q.s = [p.s EXCEPT !.state = states + 1]
      BY <1>0, <1>2, <2>2 DEF Starts, TInv, TypeOK
    <3> QED
      BY <1>1, <1>3, <1>6, <3>1 DEF Clean
  <2>3. CASE SignsIn(r)
    <3>1. q.s = p.s
      BY <1>0, <1>2, <2>3 DEF SignsIn, TInv, TypeOK
    <3> QED
      BY <1>6, <3>1
  <2>4. CASE Persists(r)
    BY <1>0, <1>2, <1>6, <2>4 DEF Persists, TInv, TypeOK
  <2>5. CASE Renews(r)
    <3>1. q.s.user = p.s.user /\ q.s.state = p.s.state
      BY <1>0, <1>2, <2>5 DEF Renews, TInv, TypeOK
    <3> QED
      BY <1>6, <3>1 DEF Clean
  <2> QED
    BY <2>1, <2>2, <2>3, <2>4, <2>5 DEF Moving
<1>7. ASSUME NEW o \in Requests, UnderWay(o)'
      PROVE  /\ CameWith(req'[o])
             /\ loggedOut /\ o \notin stragglers /\ req'[o].pc # "in" => Clean(req'[o].s)
  <2>1. CASE o = r
    BY <1>1, <1>2, <1>4, <1>5, <1>6, <2>1 DEF CleanInv
  <2>2. CASE o # r
    BY <1>0, <1>2, <1>7, <2>2, OthersStand DEF CleanInv
  <2> QED
    BY <2>1, <2>2
<1>8. floor' <= states'
  BY <1>1 DEF CleanInv
<1> QED
  BY <1>1, <1>7, <1>8 DEF CleanInv, CameWith, Clean

LEMMA InitCleanInv == Init => CleanInv
<1> SUFFICES ASSUME Init PROVE CleanInv
  OBVIOUS
<1>1. Clean(cookie) /\ \A r \in Requests : ~UnderWay(r)
  BY EmptySession DEF Init, Clean, UnderWay
<1> QED
  BY <1>1, InitTInv DEF CleanInv, Init

LEMMA CleanInvariance == Spec => []CleanInv
<1>1. CleanInv /\ [Next]_vars => CleanInv'
  <2> SUFFICES ASSUME CleanInv, [Next]_vars PROVE CleanInv'
    OBVIOUS
  <2>1. TInv /\ TInv'
    BY Steps DEF CleanInv
  <2>2. CASE Outside \/ UNCHANGED vars
    <3>1. UNCHANGED <<cookie, req, states, loggedOut, stragglers, floor>>
      BY <2>2 DEF Outside, ChangeRole, EndIdpSession, DeleteUser, Tick, Event, vars, history, logouts
    <3> QED
      BY <2>1, <3>1 DEF CleanInv, CameWith, Clean, UnderWay
  <2> QED
    BY <2>1, <2>2, Steps, SendClean, RespondClean, MovingClean
<1> QED
  BY <1>1, InitCleanInv, PTL DEF Spec

(* A logout lasts: whatever is asked for in other tabs, until a login is   *)
(* answered, or a request that was under way at the logout brings its own  *)
(* session back, the browser has no user and no login can be completed that*)
(* began before.                                                           *)
THEOREM LogoutLasts == Spec => []LogoutSticks
<1>1. CleanInv => LogoutSticks
  BY DEF CleanInv, Clean, LogoutSticks
<1> QED
  BY <1>1, CleanInvariance, PTL

-----------------------------------------------------------------------------
(* Refreshing.  Which tokens a request holds: its session's, and the one   *)
(* its code brought; the first may be the one it was sent with.            *)
Holds(q, t) == t = q.s.token \/ (q.pc \in SignedIn /\ t = q.token)

(* A token a request was not sent with is in no one else's hands.          *)
Alone(r) ==
  \A t \in Tokens : Holds(req[r], t) /\ t # req[r].sent =>
    /\ cookie.token # t
    /\ \A o \in Requests \ {r} : UnderWay(o) => ~Holds(req[o], t) /\ req[o].sent # t

Known == live \cup ended \cup shared

TokenInv ==
  /\ CleanInv
  /\ cookie.token # None => owner[cookie.token] # None
  /\ \A r \in Requests : UnderWay(r) =>
       /\ req[r].sent # None => owner[req[r].sent] # None
       /\ \A t \in Tokens : Holds(req[r], t) => owner[t] # None /\ t \in Known
       /\ Alone(r)
       /\ req[r].pc = "refresh" => req[r].s.token # None
       /\ \A o \in Requests \ {r} :
            UnderWay(o) /\ req[o].sent = req[r].sent => req[r].sent \in shared \cup {None}
  /\ \/ cookie.token \in Known \cup {None}
     \/ \E r \in Requests : UnderWay(r) /\ req[r].sent = cookie.token

(* What a step of a request does with tokens: it may obtain a new one,     *)
(* which may replace its session's.                                        *)
Trades(r, k, old) ==
  /\ k \in Tokens \cup {None} /\ old \in Tokens \cup {None}
  /\ k # None => owner[k] = None /\ owner'[k] # None
  /\ old # None => Holds(req[r], old)
  /\ \A t \in Tokens : Holds(req'[r], t) => (Holds(req[r], t) /\ t # old) \/ t = k
  /\ ((live \cup ended) \ {old}) \cup ({k} \ {None}) \subseteq live' \cup ended'
  /\ req'[r].pc = "refresh" => req'[r].s.token # None

LEMMA MovingTrades ==
  ASSUME TokenInv, NEW r \in Requests, Moving(r)
  PROVE  \E k, old : Trades(r, k, old)
<1> DEFINE p == req[r]
<1>0. TInv /\ TypeOK
  BY DEF TokenInv, CleanInv, TInv
<1>1. p \in Active /\ p.s \in Sessions /\ UnderWay(r)
  BY <1>0, MovingIs
<1>2. \A n : [p.s EXCEPT !.state = n].token = p.s.token
  BY <1>1 DEF Sessions
<1>3. CASE Quiet(r) \/ Starts(r)
  <2>1. PICK q \in Active \cup Answered :
          /\ req' = [req EXCEPT ![r] = q] /\ Follows(p, q)
          /\ q.s.token \in {p.s.token, None}
          /\ q.pc \in SignedIn => p.pc \in SignedIn
          /\ q.pc = "refresh" => q.s.token # None
    <3>1. CASE Quiet(r)
      <4>1. PICK q \in Active \cup Answered :
              /\ req' = [req EXCEPT ![r] = q] /\ Follows(p, q)
              /\ q.s \in {p.s, [p.s EXCEPT !.state = 0], Empty}
              /\ q.pc \in SignedIn => p.pc \in SignedIn
              /\ q.pc = "refresh" => q.s.token # None
        BY <3>1 DEF Quiet
      <4>2. q.s.token \in {p.s.token, None}
        BY <1>2, <4>1, EmptySession
      <4> QED
        BY <4>1, <4>2
    <3>2. CASE Starts(r)
      BY <1>2, <3>2 DEF Starts, SignedIn
    <3> QED
      BY <1>3, <3>1, <3>2
  <2>2. req'[r] = q
    BY <1>0, <2>1 DEF TypeOK
  <2>3. \A t \in Tokens : Holds(q, t) => Holds(p, t)
    BY <2>1, PhasesDiffer, TokensAreNumbers DEF Holds, Follows
  <2>4. Trades(r, None, None)
    BY <1>3, <2>1, <2>2, <2>3, TokensAreNumbers DEF Trades, Quiet, Starts
  <2> QED
    BY <2>4
<1>4. CASE SignsIn(r)
  <2>1. PICK k \in AtLogin, q \in Active :
          /\ Issue(p.who, k, {}) /\ req' = [req EXCEPT ![r] = q]
          /\ q.s = p.s /\ q.token = k /\ q.pc = "decide"
    BY <1>4 DEF SignsIn
  <2>2. req'[r] = q
    BY <1>0, <2>1 DEF TypeOK
  <2>3. k \in Tokens \cup {None} /\ (k # None => owner[k] = None)
    BY AtLoginIs
  <2>4. k # None => owner'[k] # None
    BY <1>0, <1>4, <2>1, <2>3, Constant DEF Issue, TypeOK, SignsIn
  <2>5. live \cup ({k} \ {None}) \subseteq live' /\ ended' = ended
    BY <2>1 DEF Issue
  <2>6. \A t \in Tokens : Holds(q, t) => Holds(p, t) \/ t = k
    BY <2>1 DEF Holds
  <2>7. Trades(r, k, None)
    BY <2>1, <2>2, <2>3, <2>4, <2>5, <2>6, TokensAreNumbers DEF Trades
  <2> QED
    BY <2>7
<1>5. CASE Persists(r)
  <2>1. PICK q \in Active \cup Answered :
          /\ req' = [req EXCEPT ![r] = q] /\ q.pc = "in"
          /\ q.s.token = IF ~UseRefresh THEN None
                         ELSE IF p.token # None THEN p.token ELSE p.s.token
    BY <1>5 DEF Persists
  <2>2. req'[r] = q /\ p.pc \in SignedIn
    BY <1>0, <1>5, <2>1 DEF TypeOK, Persists, SignedIn
  <2>3. \A t \in Tokens : Holds(q, t) => Holds(p, t)
    BY <2>1, <2>2, TokensAreNumbers DEF Holds, SignedIn
  <2>4. Trades(r, None, None)
    BY <1>5, <2>1, <2>2, <2>3, TokensAreNumbers DEF Trades, Persists
  <2> QED
    BY <2>4
<1>6. CASE Renews(r)
  <2>1. PICK k \in AtRefresh, q \in Active \cup Answered :
          /\ Issue(owner[p.s.token], k, IF k # None THEN {p.s.token} ELSE {})
          /\ req' = [req EXCEPT ![r] = q] /\ q.pc \in {"served", "logout"}
          /\ q.s.token = IF ~UseRefresh THEN None ELSE IF k # None THEN k ELSE p.s.token
    BY <1>6 DEF Renews
  <2>2. req'[r] = q /\ q.pc \notin SignedIn
    BY <1>0, <2>1 DEF TypeOK, SignedIn
  <2>3. k \in Tokens \cup {None} /\ (k # None => owner[k] = None)
    BY AtLoginIs
  <2>4. p.s.token \in Tokens /\ Holds(p, p.s.token)
    BY <1>0, <1>6 DEF Renews, TypeOK, Holds
  <2>5. owner[p.s.token] # None
    BY <1>1, <2>4 DEF TokenInv
  <2>6. k # None => owner'[k] # None
    BY <1>0, <2>1, <2>3, <2>5 DEF Issue, TypeOK
  <2>7. CASE k # None
    <3>1. (live \ {p.s.token}) \cup {k} \subseteq live' /\ ended' = ended
      BY <2>1, <2>7 DEF Issue
    <3>2. \A t \in Tokens : Holds(q, t) => t = k
      BY <2>1, <2>2, <2>7, TokensAreNumbers DEF Holds
    <3>3. Trades(r, k, p.s.token)
      BY <2>1, <2>2, <2>3, <2>4, <2>6, <2>7, <3>1, <3>2 DEF Trades
    <3> QED
      BY <3>3
  <2>8. CASE k = None
    <3>1. live \subseteq live' /\ ended' = ended
      BY <2>1, <2>8 DEF Issue
    <3>2. \A t \in Tokens : Holds(q, t) => Holds(p, t)
      BY <2>1, <2>2, <2>8, TokensAreNumbers DEF Holds
    <3>3. Trades(r, None, None)
      BY <2>1, <2>2, <3>1, <3>2, TokensAreNumbers DEF Trades
    <3> QED
      BY <3>3
  <2> QED
    BY <2>7, <2>8
<1> QED
  BY <1>3, <1>4, <1>5, <1>6 DEF Moving

LEMMA MovingTokens ==
  ASSUME TokenInv, [Next]_vars, CleanInv', NEW r \in Requests, Moving(r)
  PROVE  TokenInv'
<1> DEFINE p == req[r]
<1>0. TInv /\ TypeOK
  BY DEF TokenInv, CleanInv, TInv
<1>1. PICK k, old : Trades(r, k, old)
  BY MovingTrades
<1>2. PICK q \in Active \cup Answered :
        req' = [req EXCEPT ![r] = q] /\ req'[r] = q /\ q # Idle /\ q.sent = p.sent
  BY <1>0, MovingIs
<1>3. UnderWay(r) /\ UnderWay(r)' /\ cookie' = cookie /\ shared' = shared
  BY <1>0, <1>2, MovingIs DEF UnderWay
<1>4. \A t \in Tokens : owner[t] # None => owner'[t] = owner[t]
  BY <1>0, TokensKept
<1>5. \A o \in Requests \ {r} : req'[o] = req[o] /\ (UnderWay(o)' <=> UnderWay(o))
  BY <1>0, <1>2, OthersStand
<1>6. \A o \in Requests : UnderWay(o) => req[o].sent \in Tokens \cup {None}
  BY <1>0, Standing
<1>7. cookie.token \in Tokens \cup {None}
  BY <1>0, SessionFields DEF TypeOK
<1>8. \A t \in Tokens : t \in Known /\ t # old => t \in Known'
  BY <1>1, <1>3 DEF Known, Trades
<1>9. old # None => Holds(p, old) /\ old \in Tokens
  BY <1>1 DEF Trades
<1>10. ASSUME NEW o \in Requests, UnderWay(o)'
       PROVE  /\ req'[o].sent # None => owner'[req'[o].sent] # None
              /\ \A t \in Tokens : Holds(req'[o], t) => owner'[t] # None /\ t \in Known'
              /\ Alone(o)'
              /\ req'[o].pc = "refresh" => req'[o].s.token # None
              /\ \A x \in Requests \ {o} :
                   UnderWay(x)' /\ req'[x].sent = req'[o].sent => req'[o].sent \in shared' \cup {None}
  <2>1. UnderWay(o) /\ req'[o].sent = req[o].sent
    BY <1>2, <1>3, <1>5, <1>10
  <2>2. req'[o].sent # None => owner'[req'[o].sent] # None
    BY <1>4, <1>6, <2>1 DEF TokenInv
  <2>3. ASSUME NEW x \in Requests \ {o}, UnderWay(x)', req'[x].sent = req'[o].sent
        PROVE  req'[o].sent \in shared' \cup {None}
    <3>1. UnderWay(x) /\ req'[x].sent = req[x].sent
      BY <1>2, <1>3, <1>5, <2>3
    <3> QED
      BY <1>3, <2>1, <2>3, <3>1 DEF TokenInv
  <2>4. CASE o = r
    <3>1. ASSUME NEW t \in Tokens, Holds(q, t)
          PROVE  /\ owner'[t] # None /\ t \in Known'
                 /\ t # q.sent => cookie.token # t /\ \A x \in Requests \ {r} :
                                    UnderWay(x) => ~Holds(req[x], t) /\ req[x].sent # t
      <4>1. CASE Holds(p, t) /\ t # old
        BY <1>2, <1>3, <1>4, <1>8, <4>1 DEF TokenInv, Alone
      <4>2. CASE t = k
        <5>1. owner[t] = None /\ owner'[t] # None /\ t \in Known'
          BY <1>1, <4>2, TokensAreNumbers DEF Trades, Known
        <5> QED
          BY <3>1, <5>1, TokensAreNumbers DEF TokenInv
      <4> QED
        BY <1>1, <1>2, <3>1, <4>1, <4>2 DEF Trades
    <3>2. Alone(r)'
      BY <1>2, <1>3, <1>5, <3>1 DEF Alone
    <3>3. q.pc = "refresh" => q.s.token # None
      BY <1>1, <1>2 DEF Trades
    <3> QED
      BY <1>2, <2>2, <2>3, <2>4, <3>1, <3>2, <3>3
  <2>5. CASE o # r
    <3>1. req'[o] = req[o]
      BY <1>5, <2>5
    <3>2. ASSUME NEW t \in Tokens, Holds(req[o], t)
          PROVE  /\ owner'[t] # None /\ t \in Known'
                 /\ t # req[o].sent => ~Holds(q, t) /\ q.sent # t
      <4>1. owner[t] # None /\ t \in Known
        BY <2>1, <3>2 DEF TokenInv
      <4>2. t = old => t \in shared
        <5>1. t = old => t = p.sent /\ t = req[o].sent
          BY <1>3, <1>9, <2>1, <2>5, <3>2, TokensAreNumbers DEF TokenInv, Alone
        <5> QED
          BY <1>3, <2>1, <2>5, <5>1, TokensAreNumbers DEF TokenInv
      <4>3. t # k
        BY <1>1, <4>1, TokensAreNumbers DEF Trades
      <4>4. t # req[o].sent => ~Holds(p, t) /\ p.sent # t
        BY <1>3, <2>1, <2>5, <3>2 DEF TokenInv, Alone
      <4> QED
        BY <1>1, <1>2, <1>3, <1>4, <1>8, <4>1, <4>2, <4>3, <4>4 DEF Trades, Known
    <3>3. Alone(o)'
      <4> SUFFICES ASSUME NEW t \in Tokens, Holds(req[o], t), t # req[o].sent
                   PROVE  /\ cookie.token # t
                          /\ \A x \in Requests \ {o} :
                               UnderWay(x)' => ~Holds(req'[x], t) /\ req'[x].sent # t
        BY <1>3, <3>1 DEF Alone, Holds
      <4>1. cookie.token # t /\ \A x \in Requests \ {o} :
              UnderWay(x) => ~Holds(req[x], t) /\ req[x].sent # t
        BY <2>1 DEF TokenInv, Alone
      <4> QED
        BY <1>2, <1>5, <3>2, <4>1
    <3> QED
      BY <2>1, <2>2, <2>3, <3>1, <3>2, <3>3 DEF TokenInv
  <2> QED
    BY <2>4, <2>5
<1>11. \/ cookie'.token \in Known' \cup {None}
       \/ \E o \in Requests : UnderWay(o)' /\ req'[o].sent = cookie'.token
  <2>1. CASE cookie.token \in Known \cup {None}
    <3>1. cookie.token = old /\ old # None => p.sent = cookie.token
      BY <1>3, <1>9 DEF TokenInv, Alone
    <3> QED
      BY <1>2, <1>3, <1>7, <1>8, <2>1, <3>1
  <2>2. CASE \E o \in Requests : UnderWay(o) /\ req[o].sent = cookie.token
    BY <1>2, <1>3, <1>5, <2>2
  <2> QED
    BY <2>1, <2>2 DEF TokenInv
<1>12. cookie'.token # None => owner'[cookie'.token] # None
  BY <1>3, <1>4, <1>7 DEF TokenInv
<1> QED
  BY <1>10, <1>11, <1>12 DEF TokenInv, Holds, Known

LEMMA SendTokens ==
  ASSUME TokenInv, CleanInv', NEW r \in Requests, Sends(r)
  PROVE  TokenInv'
<1>0. TInv /\ TypeOK
  BY DEF TokenInv, CleanInv, TInv
<1>1. PICK q : req' = [req EXCEPT ![r] = q]
  BY <1>0, SendIs
<1>2. /\ UNCHANGED <<cookie, owner, live, ended>> /\ shared \subseteq shared'
      /\ ~UnderWay(r) /\ UnderWay(r)'
  BY <1>0, SendIs DEF idp
<1>3. /\ req'[r].s = cookie /\ req'[r].sent = cookie.token
      /\ req'[r].pc \notin SignedIn \cup {"refresh"}
  BY <1>0, SendIs DEF SignedIn
<1>4. \A o \in Requests \ {r} : req'[o] = req[o] /\ (UnderWay(o)' <=> UnderWay(o))
  BY <1>0, <1>1, OthersStand
<1>5. cookie.token \in Tokens \cup {None}
  BY <1>0, SessionFields DEF TypeOK
<1>6. \A t : Holds(req'[r], t) <=> t = cookie.token
  BY <1>3 DEF Holds
<1>7. ASSUME NEW o \in Requests, UnderWay(o), req[o].sent = cookie.token
      PROVE  cookie.token \in shared' \cup {None}
  BY <1>0, <1>7, SendIs
<1>8. cookie.token \in Known' \cup {None}
  BY <1>2, <1>7 DEF TokenInv, Known
<1>9. ASSUME NEW o \in Requests, UnderWay(o)'
      PROVE  /\ req'[o].sent # None => owner'[req'[o].sent] # None
             /\ \A t \in Tokens : Holds(req'[o], t) => owner'[t] # None /\ t \in Known'
             /\ Alone(o)'
             /\ req'[o].pc = "refresh" => req'[o].s.token # None
             /\ \A x \in Requests \ {o} :
                  UnderWay(x)' /\ req'[x].sent = req'[o].sent => req'[o].sent \in shared' \cup {None}
  <2>1. CASE o = r
    <3>1. \A t \in Tokens : Holds(req'[r], t) => owner'[t] # None /\ t \in Known' /\ t = req'[r].sent
      BY <1>2, <1>3, <1>6, <1>8, TokensAreNumbers DEF TokenInv
    <3>2. Alone(r)'
      BY <3>1 DEF Alone, Holds
    <3>3. \A x \in Requests \ {r} :
            UnderWay(x)' /\ req'[x].sent = req'[r].sent => req'[r].sent \in shared' \cup {None}
      BY <1>3, <1>4, <1>7
    <3> QED
      BY <1>2, <1>3, <2>1, <3>1, <3>2, <3>3 DEF TokenInv
  <2>2. CASE o # r
    <3>1. req'[o] = req[o] /\ UnderWay(o)
      BY <1>4, <1>9, <2>2
    <3>2. \A t \in Tokens : Holds(req[o], t) => owner'[t] # None /\ t \in Known'
      BY <1>2, <3>1 DEF TokenInv, Known
    <3>3. Alone(o)'
      <4> SUFFICES ASSUME NEW t \in Tokens, Holds(req[o], t), t # req[o].sent
                   PROVE  /\ cookie.token # t
                          /\ \A x \in Requests \ {o} :
                               UnderWay(x)' => ~Holds(req'[x], t) /\ req'[x].sent # t
        BY <1>2, <3>1 DEF Alone, Holds
      <4>1. cookie.token # t /\ \A x \in Requests \ {o} :
              UnderWay(x) => ~Holds(req[x], t) /\ req[x].sent # t
        BY <3>1 DEF TokenInv, Alone
      <4> QED
        BY <1>3, <1>4, <1>6, <4>1
    <3>4. ASSUME NEW x \in Requests \ {o}, UnderWay(x)', req'[x].sent = req'[o].sent
          PROVE  req'[o].sent \in shared' \cup {None}
      <4>1. CASE x = r
        BY <1>3, <1>7, <3>1, <3>4, <4>1
      <4>2. CASE x # r
        BY <1>2, <1>4, <3>1, <3>4, <4>2 DEF TokenInv
      <4> QED
        BY <4>1, <4>2
    <3> QED
      BY <1>2, <3>1, <3>2, <3>3, <3>4 DEF TokenInv
  <2> QED
    BY <2>1, <2>2
<1> QED
  BY <1>2, <1>8, <1>9 DEF TokenInv, Holds, Known

LEMMA RespondTokens ==
  ASSUME TokenInv, CleanInv', NEW r \in Requests, Respond(r)
  PROVE  TokenInv'
<1> DEFINE p == req[r]
<1>0. TInv /\ TypeOK
  BY DEF TokenInv, CleanInv, TInv
<1>1. UnderWay(r) /\ CameWith(p) /\ p.s \in Sessions
  BY <1>0, Standing DEF Respond, TokenInv, CleanInv
<1>2. /\ UNCHANGED <<owner, live, ended, shared>> /\ req' = [req EXCEPT ![r] = Idle]
      /\ cookie' \in {p.s, cookie} /\ (p.sent # None => cookie' = p.s)
  BY <1>1 DEF Respond, idp, CameWith
<1>3. \A o \in Requests \ {r} : req'[o] = req[o] /\ (UnderWay(o)' <=> UnderWay(o))
  BY <1>0, <1>2, OthersStand
<1>4. ~UnderWay(r)'
  BY <1>0, <1>2 DEF UnderWay, TypeOK
<1>5. p.s.token \in Tokens \cup {None} /\ cookie.token \in Tokens \cup {None}
  BY <1>0, <1>1, SessionFields DEF TypeOK
<1>6. p.s.token # None => owner[p.s.token] # None /\ p.s.token \in Known
  BY <1>1, <1>5 DEF TokenInv, Holds
<1>7. ASSUME NEW o \in Requests, UnderWay(o)'
      PROVE  /\ o # r /\ req'[o] = req[o] /\ UnderWay(o)
             /\ Alone(o)'
  <2>1. o # r /\ req'[o] = req[o] /\ UnderWay(o)
    BY <1>3, <1>4, <1>7
  <2> SUFFICES ASSUME NEW t \in Tokens, Holds(req[o], t), t # req[o].sent
               PROVE  /\ cookie'.token # t
                      /\ \A x \in Requests \ {o} :
                           UnderWay(x)' => ~Holds(req'[x], t) /\ req'[x].sent # t
    BY <2>1 DEF Alone, Holds
  <2>2. cookie.token # t /\ \A x \in Requests \ {o} :
          UnderWay(x) => ~Holds(req[x], t) /\ req[x].sent # t
    BY <2>1 DEF TokenInv, Alone
  <2>3. p.s.token # t
    BY <1>1, <2>1, <2>2 DEF Holds
  <2> QED
    BY <1>2, <1>3, <1>4, <2>1, <2>2, <2>3
<1>8. \/ cookie'.token \in Known \cup {None}
      \/ \E o \in Requests : UnderWay(o)' /\ req'[o].sent = cookie'.token
  <2>1. CASE cookie' = p.s
    BY <1>6, <2>1
  <2>2. CASE cookie' # p.s
    <3>1. cookie' = cookie /\ p.sent = None
      BY <1>2, <2>2
    <3> QED
      BY <1>3, <3>1 DEF TokenInv
  <2> QED
    BY <2>1, <2>2
<1>9. cookie'.token # None => owner'[cookie'.token] # None
  BY <1>2, <1>6 DEF TokenInv
<1> QED
  BY <1>2, <1>7, <1>8, <1>9 DEF TokenInv, Holds, Known

LEMMA OutsideTokens ==
  ASSUME TokenInv, CleanInv', Outside \/ UNCHANGED vars
  PROVE  TokenInv'
<1>1. UNCHANGED <<cookie, req, owner, shared>>
  BY DEF Outside, ChangeRole, EndIdpSession, DeleteUser, Tick, Event, vars, idp, history
<1>2. live \cup ended \subseteq live' \cup ended'
  BY DEF Outside, ChangeRole, EndIdpSession, DeleteUser, Tick, vars, idp
<1> DEFINE K == Known
<1>3. K \subseteq Known'
  BY <1>1, <1>2 DEF Known
<1> HIDE DEF K
<1>4. TokenInv => \/ cookie.token \in K \cup {None}
                  \/ \E r \in Requests : UnderWay(r) /\ req[r].sent = cookie.token
  BY DEF TokenInv, K
<1>5. \A r \in Requests : UnderWay(r) =>
        \A t \in Tokens : Holds(req[r], t) => owner[t] # None /\ t \in K
  BY DEF TokenInv, K
<1> QED
  BY <1>1, <1>3, <1>4, <1>5 DEF TokenInv, Holds, Alone, UnderWay

LEMMA TokenInvariance == Spec => []TokenInv
<1>1. Init => TokenInv
  <2> SUFFICES ASSUME Init PROVE TokenInv
    OBVIOUS
  <2>1. cookie.token = None /\ \A r \in Requests : ~UnderWay(r)
    BY EmptySession DEF Init, UnderWay
  <2> QED
    BY <2>1, InitCleanInv DEF TokenInv
<1>2. TokenInv /\ [Next]_vars /\ CleanInv' => TokenInv'
  <2> SUFFICES ASSUME TokenInv, [Next]_vars, CleanInv' PROVE TokenInv'
    OBVIOUS
  <2>1. TInv
    BY DEF TokenInv, CleanInv
  <2> QED
    BY <2>1, Steps, SendTokens, RespondTokens, MovingTokens, OutsideTokens
<1> QED
  BY <1>1, <1>2, CleanInvariance, PTL DEF Spec

(* Who looks at the session of a request or refreshes it: only itself.     *)
LEMMA OwnSteps ==
  ASSUME TInv, [Next]_vars, NEW r \in Requests, req[r].pc \in {"check", "refresh"},
         req'[r].pc # req[r].pc
  PROVE  CheckSession(r) \/ Refresh(r) \/ RefreshFails(r)
<1>1. UnderWay(r) /\ req[r].pc \notin Answers
  BY DEF UnderWay, Idle, Answers
<1>2. ASSUME NEW o \in Requests, o # r, Sends(o) \/ Respond(o) \/ Moving(o)
      PROVE  req'[r] = req[r]
  <2>1. \E q : req' = [req EXCEPT ![o] = q]
    BY <1>2, SendIs, MovingIs DEF Respond
  <2> QED
    BY <1>2, <2>1, OthersStand
<1>3. ASSUME NEW o \in Requests, o # r, Browse(o) \/ Handle(o)
      PROVE  FALSE
  BY <1>2, <1>3, BrowseSteps, HandleSteps
<1>4. ~Browse(r)
  BY <1>1, BrowseSteps, SendIs
<1>5. ~Outside /\ ~UNCHANGED vars
  BY OutsideSteps DEF vars
<1>6. Handle(r)
  BY <1>3, <1>4, <1>5 DEF Next
<1> QED
  BY <1>1, <1>6 DEF Handle, Login, Logout, CheckState, Exchange, ExchangeFails, Decide, LookForUser,
     UpdateUser, CreateUser, SyncGroups, Persist, Respond

(* However requests, refreshes and rotations overlap, a refresh that no    *)
(* fault upsets is turned down only for a grant the IdP has revoked, or for*)
(* a token that two requests under way were sent with.                     *)
THEOREM RefreshesAreSilent == Spec => SilentRefresh
<1>1. ASSUME TokenInv, [Next]_vars, NEW r \in Requests,
             req[r].pc = "refresh", req'[r].pc = "expired", faults' = faults
      PROVE  req[r].s.token \in ended \cup shared
  <2>1. TInv /\ TypeOK
    BY <1>1 DEF TokenInv, CleanInv, TInv
  <2>2. UnderWay(r) /\ req[r].s \in Sessions
    BY <1>1, <2>1, Standing, PhasesDiffer DEF UnderWay, Idle
  <2>3. req[r].s.token \in Tokens
    BY <1>1, <2>2, SessionFields DEF TokenInv
  <2>4. req[r].s.token \in Known
    <3>1. Holds(req[r], req[r].s.token)
      BY DEF Holds
    <3> QED
      BY <1>1, <2>2, <2>3, <3>1 DEF TokenInv
  <2>5. ~RefreshFails(r)
    BY <1>1, <2>1 DEF RefreshFails, Fault, TypeOK
  <2>6. Refresh(r)
    BY <1>1, <2>1, <2>5, OwnSteps DEF CheckSession
  <2>7. ASSUME req[r].s.token \in live
        PROVE  FALSE
    <3>1. \E s : GotoWith(r, Authenticated(r), s)
      BY <2>6, <2>7 DEF Refresh
    <3>2. req'[r].pc = Authenticated(r)
      <4>1. req[r] \in Active
        BY <1>1, <2>1, Standing DEF Phases
      <4> QED
        BY <2>1, <3>1, <4>1 DEF GotoWith, TypeOK, Active
    <3> QED
      BY <1>1, <3>2 DEF Authenticated
  <2> QED
    BY <2>4, <2>7 DEF Known
<1>2. TokenInv /\ [Next]_vars =>
        [\A r \in Requests :
           req[r].pc = "refresh" /\ req'[r].pc = "expired" /\ faults' = faults
             => req[r].s.token \in ended \cup shared]_vars
  BY <1>1
<1> QED
  BY <1>2, TokenInvariance, PTL DEF Spec, SilentRefresh

-----------------------------------------------------------------------------
(* The end of a grant.  A session ends within a token's lifetime, counted  *)
(* from the end of the grant if that is past ...                           *)
Timely(s) ==
  Dated /\ s.user # None =>
    /\ s.expires # None /\ s.expires <= now + Lifetime
    /\ endedAt[s.user] # None /\ s.token \notin inherited =>
         s.expires <= endedAt[s.user] + Lifetime

(* ... and so does one that a login is about to make.                      *)
BringsTimely(q) ==
  Dated /\ q.pc \in SignedIn =>
    /\ q.expires # None /\ q.expires <= now + Lifetime
    /\ endedAt[q.who] # None => q.expires <= endedAt[q.who] + Lifetime

(* Only a user's session is refreshed.                                     *)
MayRefresh(q) == q.pc = "refresh" => UseRefresh /\ q.s.user # None

GrantInv ==
  /\ OwnInv
  /\ \A u \in Users : endedAt[u] # None => \A k \in live : owner[k] # u
  /\ Timely(cookie)
  /\ \A r \in Requests : UnderWay(r) =>
       Timely(req[r].s) /\ BringsTimely(req[r]) /\ MayRefresh(req[r])

(* What a step does to the grants and the clock.                           *)
LEMMA GrantsMove ==
  ASSUME TInv, [Next]_vars
  PROVE  /\ now' \in Nat /\ now <= now' /\ now \in Nat
         /\ \A u \in Users : endedAt'[u] \in {endedAt[u], None, now}
<1>1. now \in Nat /\ now' \in Nat
  BY Steps, Constant DEF TInv, TypeOK
<1>2. ASSUME NEW r \in Requests, Quiet(r) \/ Starts(r) \/ Persists(r) \/ Renews(r) \/ Respond(r)
      PROVE  now' = now /\ endedAt' = endedAt
  BY <1>2 DEF Quiet, Starts, Persists, Renews, Respond, history, clocks
<1>3. ASSUME NEW r \in Requests, Sends(r)
      PROVE  now' = now /\ endedAt' = endedAt
  BY <1>3, SendIs
<1>4. ASSUME NEW r \in Requests, SignsIn(r)
      PROVE  now' = now /\ endedAt' = [endedAt EXCEPT ![req[r].who] = None]
  BY <1>4 DEF SignsIn
<1>5. CASE Outside
  <2>1. ASSUME NEW u \in Users, EndIdpSession(u)
        PROVE  now' = now /\ endedAt' = [endedAt EXCEPT ![u] = now]
    BY <2>1 DEF EndIdpSession, Event
  <2>2. ASSUME NEW u \in Users, (\E x \in Roles : ChangeRole(u, x)) \/ DeleteUser(u)
        PROVE  now' = now /\ endedAt' = endedAt
    BY <2>2 DEF ChangeRole, DeleteUser, Event, history
  <2>3. Tick => now' = now + 1 /\ endedAt' = endedAt
    BY DEF Tick, history
  <2> QED
    BY <1>1, <1>5, <2>1, <2>2, <2>3 DEF Outside, TInv, TypeOK
<1>6. UNCHANGED vars => now' = now /\ endedAt' = endedAt
  BY DEF vars, clocks, history
<1> QED
  BY <1>1, <1>2, <1>3, <1>4, <1>5, <1>6, Steps DEF Moving, TInv, TypeOK

LEMMA TimelyKept ==
  ASSUME TInv, [Next]_vars
  PROVE  /\ \A s \in Sessions : Timely(s) => Timely(s)'
         /\ \A r \in Requests : UnderWay(r) /\ req'[r] = req[r] /\ BringsTimely(req[r])
              => BringsTimely(req[r])'
<1>1. now' \in Nat /\ now <= now' /\ now \in Nat /\ Lifetime \in Nat /\ inherited \subseteq inherited'
  BY GrantsMove, TokensKept, Constant
<1>2. \A u \in Users : endedAt'[u] \in {endedAt[u], None, now} /\ endedAt[u] \in Nat \cup {None}
  BY GrantsMove DEF TInv, TypeOK
<1>3. Times \subseteq Nat
  BY Constant DEF Times
<1>4. ASSUME NEW s \in Sessions, Timely(s)
      PROVE  Timely(s)'
  <2>1. s.user \in Users \cup {None} /\ s.expires \in Nat \cup {None}
    BY <1>3, SessionFields
  <2> QED
    BY <1>1, <1>2, <1>4, <2>1 DEF Timely
<1>5. ASSUME NEW r \in Requests, UnderWay(r), req'[r] = req[r], BringsTimely(req[r])
      PROVE  BringsTimely(req[r])'
  <2>1. CASE req[r].pc \in SignedIn
    <3>1. req[r] \in Active /\ WhoKnown(req[r])
      BY <2>1, Standing, PhasesDiffer DEF TInv
    <3>2. req[r].who \in Users /\ req[r].expires \in Nat \cup {None}
      BY <1>3, <2>1, <3>1, ActiveFields DEF WhoKnown
    <3> QED
      BY <1>1, <1>2, <1>5, <2>1, <3>2 DEF BringsTimely
  <2>2. CASE req[r].pc \notin SignedIn
    BY <1>5, <2>2 DEF BringsTimely
  <2> QED
    BY <2>1, <2>2
<1> QED
  BY <1>4, <1>5

(* Whose grant has ended has no refresh token.                             *)
LEMMA EndedStay ==
  ASSUME GrantInv, [Next]_vars
  PROVE  \A u \in Users : endedAt'[u] # None => \A k \in live' : owner'[k] # u
<1>0. TInv /\ TypeOK
  BY DEF GrantInv, OwnInv, TInv
<1>1. CASE UNCHANGED <<endedAt, owner, live>>
  BY <1>1 DEF GrantInv
<1>2. ASSUME NEW r \in Requests, SignsIn(r)
      PROVE  \A u \in Users : endedAt'[u] # None => \A k \in live' : owner'[k] # u
  <2>1. PICK k \in AtLogin : Issue(req[r].who, k, {})
    BY <1>2 DEF SignsIn
  <2>2. endedAt' = [endedAt EXCEPT ![req[r].who] = None] /\ req[r].who \in Users
    BY <1>2 DEF SignsIn
  <2>3. k # None => k \in Tokens
    BY AtLoginIs
  <2>4. live' = live \cup ({k} \ {None})
        /\ owner' = IF k = None THEN owner ELSE [owner EXCEPT ![k] = req[r].who]
    BY <2>1 DEF Issue
  <2>5. ASSUME NEW u \in Users, endedAt'[u] # None, NEW j \in live'
        PROVE  owner'[j] # u
    <3>1. u # req[r].who /\ endedAt[u] # None
      BY <1>0, <2>2, <2>5 DEF TypeOK
    <3> QED
      BY <1>0, <2>3, <2>4, <2>5, <3>1 DEF GrantInv, TypeOK
  <2> QED
    BY <2>5
<1>3. ASSUME NEW r \in Requests, Renews(r)
      PROVE  \A u \in Users : endedAt'[u] # None => \A k \in live' : owner'[k] # u
  <2> DEFINE t == req[r].s.token
  <2>1. PICK k \in AtRefresh : Issue(owner[t], k, IF k # None THEN {t} ELSE {})
    BY <1>3 DEF Renews
  <2>2. k # None => k \in Tokens
    BY AtLoginIs
  <2>3. t \in live /\ endedAt' = endedAt
    BY <1>3 DEF Renews
  <2>4. live' \subseteq live \cup ({k} \ {None})
        /\ owner' = IF k = None THEN owner ELSE [owner EXCEPT ![k] = owner[t]]
    BY <2>1 DEF Issue
  <2> HIDE DEF t
  <2> QED
    BY <1>0, <2>2, <2>3, <2>4 DEF GrantInv, TypeOK
<1>4. ASSUME NEW r \in Requests, Quiet(r) \/ Starts(r) \/ Persists(r) \/ Respond(r) \/ Sends(r)
      PROVE  UNCHANGED <<endedAt, owner, live>>
  <2>1. Sends(r) => UNCHANGED <<endedAt, owner, live>>
    BY <1>0, SendIs DEF idp
  <2> QED
    BY <1>4, <2>1 DEF Quiet, Starts, Persists, Respond, idp, history
<1>5. CASE Outside
  <2>1. ASSUME NEW u \in Users, EndIdpSession(u)
        PROVE  \A v \in Users : endedAt'[v] # None => \A k \in live' : owner'[k] # v
    <3>1. owner' = owner /\ live' = {k \in live : owner[k] # u}
          /\ endedAt' = [endedAt EXCEPT ![u] = now]
      BY <2>1 DEF EndIdpSession
    <3> QED
      BY <1>0, <3>1 DEF GrantInv, TypeOK
  <2>2. ASSUME NEW u \in Users, (\E x \in Roles : ChangeRole(u, x)) \/ DeleteUser(u)
        PROVE  UNCHANGED <<endedAt, owner, live>>
    BY <2>2 DEF ChangeRole, DeleteUser, history, idp
  <2>3. Tick => UNCHANGED <<endedAt, owner, live>>
    BY DEF Tick, history, idp
  <2> QED
    BY <1>1, <1>5, <2>1, <2>2, <2>3 DEF Outside
<1>6. UNCHANGED vars => UNCHANGED <<endedAt, owner, live>>
  BY DEF vars, history, idp
<1> QED
  BY <1>0, <1>1, <1>2, <1>3, <1>4, <1>5, <1>6, Steps DEF Moving

(* A step of one request is correct if what becomes of it is.              *)
LEMMA GrantMoves ==
  ASSUME GrantInv, [Next]_vars, OwnInv', NEW r \in Requests, NEW q,
         req' = [req EXCEPT ![r] = q], Timely(cookie)',
         UnderWay(r)' =>
           Timely(req[r].s)' /\ BringsTimely(req[r])' /\ MayRefresh(req[r])'
  PROVE  GrantInv'
<1>0. TInv
  BY DEF GrantInv, OwnInv
<1>1. ASSUME NEW p \in Requests, UnderWay(p)'
      PROVE  Timely(req[p].s)' /\ BringsTimely(req[p])' /\ MayRefresh(req[p])'
  <2>1. CASE p = r
    BY <1>1, <2>1
  <2>2. CASE p # r
    <3>1. req'[p] = req[p] /\ UnderWay(p)
      BY <1>0, <1>1, <2>2, OthersStand
    <3>2. req[p].s \in Sessions
      BY <1>0, <3>1, Standing DEF TInv
    <3> QED
      BY <1>0, <3>1, <3>2, TimelyKept DEF GrantInv, Timely, MayRefresh
  <2> QED
    BY <2>1, <2>2
<1> QED
  BY <1>1, EndedStay DEF GrantInv

LEMMA CookieTimely ==
  ASSUME GrantInv, [Next]_vars, cookie' = cookie
  PROVE  Timely(cookie)'
<1>1. TInv /\ cookie \in Sessions /\ Timely(cookie)
  BY DEF GrantInv, OwnInv, TInv, TypeOK
<1> QED
  BY <1>1, TimelyKept DEF Timely

LEMMA MovingGrant ==
  ASSUME GrantInv, [Next]_vars, OwnInv', NEW r \in Requests, Moving(r)
  PROVE  GrantInv'
<1> DEFINE p == req[r]
<1>0. TInv /\ TypeOK
  BY DEF GrantInv, OwnInv, TInv
<1>1. p \in Active /\ UnderWay(r) /\ cookie' = cookie /\ now' = now
      /\ p.s \in Sessions /\ p.who \in Users \cup {None} /\ p.expires \in Times \cup {None}
  BY <1>0, MovingIs, ActiveFields
<1>2. Timely(p.s) /\ BringsTimely(p) /\ Own(p.s)
  BY <1>1 DEF GrantInv, OwnInv
<1>3. Timely(cookie)'
  BY <1>1, CookieTimely
<1>4. now \in Nat /\ Lifetime \in Nat /\ Times \subseteq Nat /\ inherited \subseteq inherited'
      /\ \A u \in Users : endedAt[u] \in Nat \cup {None}
  BY <1>0, GrantsMove, TokensKept, Constant DEF Times, TypeOK
<1>5. p.s.user \in Users \cup {None} /\ p.s.token \in Tokens \cup {None}
  BY <1>1, SessionFields
<1>6. ASSUME NEW q, req' = [req EXCEPT ![r] = q], Timely(q.s)', BringsTimely(q)',
             MayRefresh(q)'
      PROVE  GrantInv'
  <2>1. req'[r] = q
    BY <1>0, <1>6 DEF TypeOK
  <2>2. Timely(req[r].s)' /\ BringsTimely(req[r])' /\ MayRefresh(req[r])'
    BY <1>6, <2>1 DEF Timely, BringsTimely, MayRefresh
  <2> QED
    BY <1>3, <1>6, <2>2, GrantMoves
<1>7. CASE Quiet(r) \/ Starts(r)
  <2>1. PICK q \in Active \cup Answered :
          /\ req' = [req EXCEPT ![r] = q] /\ Follows(p, q)
          /\ \/ q.s = p.s \/ q.s = Empty \/ (\E n \in {0, states + 1} : q.s = [p.s EXCEPT !.state = n])
          /\ q.pc \in SignedIn => p.pc \in SignedIn
          /\ MayRefresh(q)
    BY <1>7 DEF Quiet, Starts, SignedIn, MayRefresh
  <2>2. endedAt' = endedAt /\ inherited' = inherited
    BY <1>7 DEF Quiet, Starts, history
  <2>3. q.s.user # None =>
          q.s.user = p.s.user /\ q.s.token = p.s.token /\ q.s.expires = p.s.expires
    <3>1. \A n : [p.s EXCEPT !.state = n].user = p.s.user
                 /\ [p.s EXCEPT !.state = n].token = p.s.token
                 /\ [p.s EXCEPT !.state = n].expires = p.s.expires
      BY <1>1 DEF Sessions
    <3> QED
      BY <2>1, <3>1, EmptySession
  <2>4. q.pc \in SignedIn => q.who = p.who /\ q.expires = p.expires
    BY <2>1, PhasesDiffer DEF Follows
  <2>5. Timely(q.s)' /\ BringsTimely(q)' /\ MayRefresh(q)'
    BY <1>1, <1>2, <2>1, <2>2, <2>3, <2>4 DEF Timely, BringsTimely, MayRefresh
  <2> QED
    BY <1>6, <2>1, <2>5
<1>8. CASE SignsIn(r)
  <2>1. PICK q \in Active :
          /\ req' = [req EXCEPT ![r] = q] /\ q.s = p.s /\ q.who = p.who /\ q.expires = Expiry
          /\ q.pc = "decide"
    BY <1>8 DEF SignsIn
  <2>2. endedAt'[p.who] = None
    BY <1>0, <1>8 DEF SignsIn, TypeOK
  <2>3. Dated => Expiry = now + Lifetime /\ Expiry # None
    BY <1>0, ExpiryIsTime
  <2>4. BringsTimely(q)'
    BY <1>1, <1>4, <2>1, <2>2, <2>3 DEF BringsTimely
  <2>6. MayRefresh(q)'
    BY <2>1 DEF MayRefresh
  <2>5. Timely(q.s)'
    BY <1>0, <1>1, <1>2, <2>1, TimelyKept DEF Timely
  <2> QED
    BY <1>6, <2>1, <2>4, <2>5, <2>6
<1>9. CASE Persists(r)
  <2>1. PICK q \in Active \cup Answered :
          /\ req' = [req EXCEPT ![r] = q] /\ q.pc = "in"
          /\ q.s.user = p.who /\ q.s.expires = p.expires
    BY <1>9 DEF Persists
  <2>2. p.pc \in SignedIn /\ endedAt' = endedAt
    BY <1>9 DEF Persists, SignedIn
  <2>3. Timely(q.s)' /\ BringsTimely(q)' /\ MayRefresh(q)'
    BY <1>1, <1>2, <2>1, <2>2 DEF Timely, BringsTimely, MayRefresh, SignedIn
  <2> QED
    BY <1>6, <2>1, <2>3
<1>10. CASE Renews(r)
  <2>1. PICK k \in AtRefresh, q \in Active \cup Answered :
          /\ req' = [req EXCEPT ![r] = q] /\ q.pc \in {"served", "logout"}
          /\ q.s.user = p.s.user /\ q.s.expires = Expiry
          /\ q.s.token = IF ~UseRefresh THEN None ELSE IF k # None THEN k ELSE p.s.token
          /\ inherited' = inherited \cup IF p.s.token \in inherited THEN {k} \ {None} ELSE {}
    BY <1>10 DEF Renews
  <2>2. Dated => Expiry = now + Lifetime /\ Expiry # None
    BY <1>0, ExpiryIsTime
  <2>3. p.s.token \in live /\ p.s.token # None /\ endedAt' = endedAt
    BY <1>0, <1>10, TokensAreNumbers DEF Renews, TypeOK
  <2>4. ASSUME p.s.user # None, endedAt[p.s.user] # None, q.s.token \notin inherited',
               UseRefresh
        PROVE  FALSE
    <3>1. owner[p.s.token] # p.s.user
      BY <1>5, <2>3, <2>4 DEF GrantInv
    <3>2. p.s.token \in inherited
      BY <1>2, <2>3, <2>4, <3>1 DEF Own
    <3> QED
      BY <2>1, <2>4, <3>2
  <2>5. UseRefresh
    BY <1>1, <1>10 DEF Renews, GrantInv, MayRefresh
  <2>6. Timely(q.s)'
    BY <1>1, <1>4, <2>1, <2>2, <2>3, <2>4, <2>5 DEF Timely
  <2>7. BringsTimely(q)' /\ MayRefresh(q)'
    BY <2>1 DEF BringsTimely, MayRefresh, SignedIn
  <2> QED
    BY <1>6, <2>1, <2>6, <2>7
<1> QED
  BY <1>7, <1>8, <1>9, <1>10 DEF Moving

LEMMA GrantStep ==
  ASSUME GrantInv, [Next]_vars, OwnInv'
  PROVE  GrantInv'
<1>0. TInv /\ TypeOK
  BY DEF GrantInv, OwnInv, TInv
<1>1. ASSUME NEW r \in Requests, Sends(r)
      PROVE  GrantInv'
  <2>1. PICK q : req' = [req EXCEPT ![r] = q]
    BY <1>0, <1>1, SendIs
  <2>2. req'[r].s = cookie /\ cookie' = cookie /\ req'[r].pc \notin SignedIn \cup {"refresh"}
    BY <1>0, <1>1, SendIs DEF SignedIn
  <2>3. Timely(cookie)'
    BY <2>2, CookieTimely
  <2>4. Timely(req[r].s)' /\ BringsTimely(req[r])' /\ MayRefresh(req[r])'
    BY <2>2, <2>3 DEF Timely, BringsTimely, MayRefresh
  <2> QED
    BY <2>1, <2>2, <2>3, <2>4, GrantMoves
<1>2. ASSUME NEW r \in Requests, Respond(r)
      PROVE  GrantInv'
  <2>1. UnderWay(r)
    BY <1>2 DEF Respond, Idle, UnderWay, Answers
  <2>2. Timely(req[r].s) /\ Timely(cookie) /\ cookie' \in {req[r].s, cookie}
        /\ req' = [req EXCEPT ![r] = Idle]
    BY <1>2, <2>1 DEF GrantInv, Respond
  <2>3. now' = now /\ endedAt' = endedAt /\ inherited' = inherited /\ ~UnderWay(r)'
    BY <1>0, <1>2, <2>2 DEF Respond, clocks, UnderWay, TypeOK
  <2>4. Timely(cookie)'
    BY <2>2, <2>3 DEF Timely
  <2> QED
    BY <2>2, <2>3, <2>4, GrantMoves
<1>3. CASE Outside \/ UNCHANGED vars
  <2>1. cookie' = cookie /\ req' = req
    BY <1>0, <1>3, OutsideSteps
       DEF Outside, ChangeRole, EndIdpSession, DeleteUser, Tick, Event, vars
  <2>2. Timely(cookie)'
    BY <2>1, CookieTimely
  <2>3. ASSUME NEW p \in Requests, UnderWay(p)'
        PROVE  Timely(req[p].s)' /\ BringsTimely(req[p])' /\ MayRefresh(req[p])'
    <3>1. req'[p] = req[p] /\ UnderWay(p)
      BY <2>1, <2>3 DEF UnderWay
    <3>2. req[p].s \in Sessions
      BY <1>0, <3>1, Standing
    <3> QED
      BY <1>0, <3>1, <3>2, TimelyKept DEF GrantInv, Timely, MayRefresh
  <2> QED
    BY <2>2, <2>3, EndedStay DEF GrantInv
<1> QED
  BY <1>0, <1>1, <1>2, <1>3, Steps, MovingGrant

LEMMA GrantInvariance == Spec => []GrantInv
<1>1. Init /\ OwnInv => GrantInv
  <2> SUFFICES ASSUME Init, OwnInv PROVE GrantInv
    OBVIOUS
  <2>1. Timely(cookie) /\ (\A r \in Requests : ~UnderWay(r)) /\ \A u \in Users : endedAt[u] = None
    BY EmptySession DEF Init, Timely, UnderWay
  <2> QED
    BY <2>1 DEF GrantInv
<1>2. GrantInv /\ [Next]_vars /\ OwnInv' => GrantInv'
  BY GrantStep
<1> QED
  BY <1>1, <1>2, OwnInvariance, PTL DEF Spec

(* A session ends with the grant: once the IdP has ended it, the user is   *)
(* not let in for longer than a token lasts, whatever logins, refreshes and*)
(* logouts overlap, unless the refresh token is another user's.            *)
THEOREM SessionsEndWithTheGrant == Spec => GrantEndsSession
<1>1. ASSUME GrantInv, [Next]_vars, NEW r \in Requests, Dated, Admitted(r),
             endedAt[req[r].s.user] # None, req[r].s.token \notin inherited
      PROVE  now + Leeway < endedAt[req[r].s.user] + Lifetime
  <2> DEFINE s == req[r].s
  <2>1. TInv /\ TypeOK
    BY <1>1 DEF GrantInv, OwnInv, TInv
  <2>2. req[r] \in Active /\ UnderWay(r) /\ s \in Sessions
    BY <1>1, <2>1, Standing DEF Admitted, Phases
  <2>3. Timely(s) /\ Own(s)
    BY <1>1, <2>2 DEF GrantInv, OwnInv
  <2>4. CheckSession(r) \/ Refresh(r) \/ RefreshFails(r)
    BY <1>1, <2>1, OwnSteps DEF Admitted
  <2>5. \A pc, x : GotoWith(r, pc, x) => req'[r].pc = pc
    BY <2>1, <2>2 DEF GotoWith, TypeOK, Active
  <2>6. s.user \in Users \cup {None} /\ s.expires \in Nat \cup {None} /\ now \in Nat
        /\ s.token \in Tokens \cup {None} /\ Lifetime \in Nat /\ Leeway \in Nat
    BY <2>1, <2>2, SessionFields, Constant DEF TypeOK, Times
  <2>7. CASE CheckSession(r)
    <3>1. s.user # None /\ ~IsExpired(s)
      BY <1>1, <2>5, <2>7 DEF CheckSession, Goto, Admitted
    <3>2. endedAt[s.user] \in Nat
      BY <1>1, <2>1, <2>6, <3>1 DEF TypeOK
    <3> QED
      BY <1>1, <2>3, <2>6, <3>1, <3>2 DEF Timely, IsExpired
  <2>8. CASE Refresh(r)
    <3>1. s.token \in live
      BY <1>1, <2>5, <2>8 DEF Refresh, Admitted
    <3>2. s.token # None /\ s.user # None
      BY <1>1, <2>1, <2>2, <2>8, <3>1, TokensAreNumbers DEF TypeOK, GrantInv, MayRefresh, Refresh
    <3> QED
      BY <1>1, <2>3, <2>6, <3>1, <3>2 DEF Own, GrantInv
  <2>9. ~RefreshFails(r)
    BY <1>1, <2>5 DEF RefreshFails, Admitted
  <2> QED
    BY <2>4, <2>7, <2>8, <2>9
<1>2. GrantInv /\ [Next]_vars =>
        [\A r \in Requests :
           LET s == req[r].s
           IN  Dated /\ Admitted(r) /\ endedAt[s.user] # None /\ s.token \notin inherited
                 => now + Leeway < endedAt[s.user] + Lifetime]_vars
  BY <1>1
<1> QED
  BY <1>2, GrantInvariance, PTL DEF Spec, GrantEndsSession
=============================================================================
