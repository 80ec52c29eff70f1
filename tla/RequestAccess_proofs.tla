------------------------ MODULE RequestAccess_proofs ------------------------
(***************************************************************************)
(* Proofs about RequestAccess, for any number of users, things, operations *)
(* and overlapping requests, and any default permission and term.          *)
(***************************************************************************)
EXTENDS RequestAccess, TLAPS

(* What has been read is recorded in the phase a request is in:  the guard *)
(* it is under,                                                            *)
Guarded(q) ==
  /\ q.pc = "lookup" => q.op.by \in Hooked
  /\ q.pc = "check" => q.op.by \in {"things", "filter", "child", "name", "managed"}
  /\ q.pc = "act" => q.op.by \in Hooked \cup {"managed"}
  /\ q.pc = "act" /\ q.op.by = "admin" => q.admin
  /\ q.pc \in {"look", "write", "make"} =>
       q.op.by \in {"token", "create", "delete"} /\ (OwnToken(q) \/ q.admin)

(* what its sender is known to have been entitled to,                      *)
Trusted(q, entitled) ==
  /\ q.pc # "done" => entitled \subseteq q.had
  /\ q.pc # "sent" => Self \in q.had
  /\ q.admin => Things \cup {Administration} \subseteq q.had
  /\ q.ok \subseteq q.had

(* which things are checked, or still to be,                               *)
Asks(q, pl) ==
  CASE q.op.by \in {"things", "managed"} -> q.op.on
    [] q.op.by = "child" -> Denoted(pl[q.op.ref])
    [] OTHER -> {}

Covered(q, pl) ==
  /\ q.pc = "check" => Asks(q, pl) \subseteq q.left \cup q.ok
  /\ q.pc = "act" => q.admin \/ Asks(q, pl) \subseteq q.ok

(* that a new token's term is in its bounds, and what came of it.          *)
Bounded(q, time) ==
  q.pc \in {"look", "write", "make"} /\ q.op.by = "token" /\ q.op.until # None =>
    q.op.until <= time + MaxTerm

Answered(q) ==
  q.pc = "done" => q.did \subseteq q.had \/ (q.op.by = "name" /\ q.did \ {Self} # q.ok)

Sound(q, entitled, pl, time) ==
  Guarded(q) /\ Trusted(q, entitled) /\ Covered(q, pl) /\ Bounded(q, time) /\ Answered(q)

RequestsSound ==
  \A r \in Requests : req[r] # Idle => Sound(req[r], Entitled(req[r], acct, right), place, now)

(* The random password of a new account has no term.                       *)
UntoldLasts == \A u \in Users : acct[u] # None /\ acct[u].token = 0 => acct[u].expires = None

IInv == TypeOK /\ RequestsSound /\ UntoldLasts /\ TokensKeepTheirTerm

-----------------------------------------------------------------------------
(* Steps of one request that leave the rest of the state alone.            *)

LEMMA Busy ==
  ASSUME IInv, NEW r \in Requests, req[r].pc # "idle"
  PROVE  req[r] \in Active /\ Sound(req[r], Entitled(req[r], acct, right), place, now)
BY DEF IInv, TypeOK, RequestsSound, Idle

LEMMA SameEntitled ==
  ASSUME NEW p, NEW q, p.user = q.user, p.via = q.via, p.op = q.op
  PROVE  Entitled(p, acct, right) = Entitled(q, acct, right)
BY DEF Entitled

LEMMA StillEntitled ==
  ASSUME UNCHANGED <<acct, right, now>>, NEW r \in Requests, NEW q, req'[r] = q
  PROVE  Entitled(req[r], acct, right)' = Entitled(q, acct, right)
BY DEF Entitled, Current, IsAdmin

LEMMA AccountsKept ==
  ASSUME IInv, UNCHANGED <<acct, issued>>
  PROVE  UntoldLasts' /\ TokensKeepTheirTerm'
BY DEF IInv, UntoldLasts, TokensKeepTheirTerm

LEMMA OneMoves ==
  ASSUME IInv, NEW r \in Requests, NEW q \in Active,
         Sound(q, Entitled(q, acct, right), place, now),
         req' = [req EXCEPT ![r] = q], NoOther
  PROVE  IInv'
<1> USE DEF NoOther, budget
<1>1. TypeOK'
  BY DEF IInv, TypeOK
<1>2. ASSUME NEW s \in Requests, req'[s] # Idle
      PROVE  Sound(req'[s], Entitled(req[s], acct, right)', place', now')
  <2>1. req'[s] = IF s = r THEN q ELSE req[s]
    BY DEF IInv, TypeOK
  <2>2. Entitled(req[s], acct, right)' = Entitled(req'[s], acct, right)
    BY StillEntitled
  <2> QED
    BY <1>2, <2>1, <2>2 DEF IInv, RequestsSound
<1>3. RequestsSound'
  BY <1>2 DEF RequestsSound
<1> QED
  BY <1>1, <1>3, AccountsKept DEF IInv

LEMMA RefuseKeeps ==
  ASSUME IInv, NEW r \in Requests, Refuse(r)
  PROVE  IInv'
<1> USE DEF Refuse, NoOther, budget
<1>1. TypeOK'
  BY DEF IInv, TypeOK
<1>2. ASSUME NEW s \in Requests, req'[s] # Idle
      PROVE  Sound(req'[s], Entitled(req[s], acct, right)', place', now')
  <2>1. req'[s] = req[s]
    BY <1>2 DEF IInv, TypeOK
  <2>2. Entitled(req[s], acct, right)' = Entitled(req[s], acct, right)
    BY <2>1, StillEntitled
  <2> QED
    BY <1>2, <2>1, <2>2 DEF IInv, RequestsSound
<1>3. RequestsSound'
  BY <1>2 DEF RequestsSound
<1> QED
  BY <1>1, <1>3, AccountsKept DEF IInv

(* A request goes on with what it has read, before it touches anything.    *)
GoesOn(q, old) ==
  /\ q.user = old.user /\ q.via = old.via /\ q.op = old.op /\ q.had = old.had
  /\ q.pc \notin {"sent", "done"} /\ old.pc # "done"

LEMMA Proceeds ==
  ASSUME IInv, NEW r \in Requests, NEW q \in Active, req[r].pc # "idle", GoesOn(q, req[r]),
         Self \in q.had, q.admin => Things \cup {Administration} \subseteq q.had,
         q.ok \subseteq q.had, Guarded(q), Covered(q, place), Bounded(q, now),
         req' = [req EXCEPT ![r] = q], NoOther
  PROVE  IInv'
<1>1. Entitled(q, acct, right) = Entitled(req[r], acct, right)
  BY SameEntitled DEF GoesOn
<1>2. Entitled(req[r], acct, right) \subseteq q.had
  BY Busy DEF Sound, Trusted, GoesOn
<1>3. Sound(q, Entitled(q, acct, right), place, now)
  BY <1>1, <1>2 DEF Sound, Trusted, Answered, GoesOn
<1> QED
  BY <1>3, OneMoves

LEMMA AdminEntitled ==
  ASSUME IInv, NEW r \in Requests, req[r].pc \notin {"idle", "done"}, IsAdmin(acct, req[r].user)
  PROVE  Things \cup {Administration} \subseteq req[r].had
BY Busy DEF Sound, Trusted, Entitled

LEMMA AuthenticateKeeps ==
  ASSUME IInv, NEW r \in Requests, Authenticate(r)
  PROVE  IInv'
<1> DEFINE q == [req[r] EXCEPT !.pc = "flag"]
<1>1. req[r] \in Active /\ Sound(req[r], Entitled(req[r], acct, right), place, now)
      /\ req[r].pc = "sent"
  BY Busy DEF Authenticate
<1>2. CASE req[r].via = 0 \/ Current(acct, req[r].user, req[r].via)
  <2>1. q \in Active /\ GoesOn(q, req[r]) /\ q.pc = "flag"
    BY <1>1 DEF Active, Phases, GoesOn
  <2>2. /\ Self \in q.had /\ q.ok \subseteq q.had
        /\ q.admin => Things \cup {Administration} \subseteq q.had
    BY <1>1, <1>2 DEF Active, Sound, Trusted, Entitled
  <2>3. req' = [req EXCEPT ![r] = q] /\ NoOther
    BY <1>2 DEF Authenticate, Step
  <2> HIDE DEF q
  <2>4. Guarded(q) /\ Covered(q, place) /\ Bounded(q, now)
    BY <2>1 DEF Guarded, Covered, Bounded
  <2> QED
    BY <1>1, <2>1, <2>2, <2>3, <2>4, Proceeds
<1>3. CASE ~(req[r].via = 0 \/ Current(acct, req[r].user, req[r].via))
  BY <1>3, RefuseKeeps DEF Authenticate
<1> QED
  BY <1>2, <1>3

LEMMA ReadAdminKeeps ==
  ASSUME IInv, NEW r \in Requests, ReadAdmin(r)
  PROVE  IInv'
<1> DEFINE admin == IsAdmin(acct, req[r].user)
           pc == IF req[r].op.by \in Routed THEN "depend" ELSE IF admin THEN "act" ELSE "lookup"
           q == [[req[r] EXCEPT !.admin = admin] EXCEPT !.pc = pc]
<1>1. req[r] \in Active /\ Sound(req[r], Entitled(req[r], acct, right), place, now)
      /\ req[r].pc = "flag" /\ req[r].op \in Asked
  BY Busy, OperationsAssumption DEF ReadAdmin, Active
<1>2. admin \in BOOLEAN
  BY DEF IInv, TypeOK, IsAdmin, Accounts
<1>3. admin => Things \cup {Administration} \subseteq req[r].had
  BY <1>1, AdminEntitled
<1>4. req' = [req EXCEPT ![r] = q] /\ NoOther
  BY DEF ReadAdmin, Step
<1> HIDE DEF admin
<1>5. q \in Active /\ GoesOn(q, req[r]) /\ q.pc = pc /\ q.admin = admin /\ q.op = req[r].op
  BY <1>1, <1>2 DEF Active, Phases, GoesOn
<1>6. /\ Self \in q.had /\ q.ok \subseteq q.had
      /\ q.admin => Things \cup {Administration} \subseteq q.had
  BY <1>1, <1>3 DEF Active, Sound, Trusted
<1> HIDE DEF q
<1>7. Guarded(q) /\ Covered(q, place) /\ Bounded(q, now)
  BY <1>1, <1>5 DEF Guarded, Covered, Bounded, Asked, Hooked, Routed
<1> QED
  BY <1>1, <1>4, <1>5, <1>6, <1>7, Proceeds

-----------------------------------------------------------------------------
(* What the request is about, and the checks.                              *)

LEMMA LooksUp ==
  ASSUME IInv, NEW r \in Requests, req[r].pc = "lookup", NEW pc \in {"check", "act"},
         NEW left \in SUBSET Things, NEW q, q = [[req[r] EXCEPT !.left = left] EXCEPT !.pc = pc],
         pc = "check" => Asks(req[r], place) \subseteq left /\ req[r].op.by \notin {"path", "open", "admin"},
         pc = "act" => Asks(req[r], place) = {} /\ req[r].op.by # "admin",
         req' = [req EXCEPT ![r] = q], NoOther
  PROVE  IInv'
<1>1. req[r] \in Active /\ Sound(req[r], Entitled(req[r], acct, right), place, now)
  BY Busy
<1>2. q \in Active /\ GoesOn(q, req[r]) /\ q.pc = pc /\ q.left = left /\ q.op = req[r].op
  BY <1>1 DEF Active, Phases, GoesOn
<1>3. /\ Self \in q.had /\ q.ok \subseteq q.had
      /\ q.admin => Things \cup {Administration} \subseteq q.had
  BY <1>1 DEF Active, Sound, Trusted
<1>4. Asks(q, place) = Asks(req[r], place)
  BY <1>2 DEF Asks
<1>5. Guarded(q)
  BY <1>1, <1>2 DEF Guarded, Sound, Hooked
<1>6. Covered(q, place) /\ Bounded(q, now)
  BY <1>2, <1>4 DEF Covered, Bounded
<1> QED
  BY <1>1, <1>2, <1>3, <1>5, <1>6, Proceeds

LEMMA LookUpThingsKeeps ==
  ASSUME IInv, NEW r \in Requests, LookUpThings(r)
  PROVE  IInv'
<1> DEFINE left == req[r].op.on
           q == [[req[r] EXCEPT !.left = left] EXCEPT !.pc = "check"]
<1>1. req[r] \in Active /\ req[r].pc = "lookup"
  BY Busy DEF LookUpThings
<1>2. left \in SUBSET Things
  BY <1>1, OperationsAssumption DEF Active, Asked
<1>3. Asks(req[r], place) \subseteq left /\ req[r].op.by \notin {"path", "open", "admin"}
  BY DEF LookUpThings, Asks
<1>4. req' = [req EXCEPT ![r] = q] /\ NoOther
  BY DEF LookUpThings, Step
<1> HIDE DEF left
<1> QED
  BY <1>1, <1>2, <1>3, <1>4, LooksUp

LEMMA LookUpChildKeeps ==
  ASSUME IInv, NEW r \in Requests, LookUpChild(r)
  PROVE  IInv'
<1> DEFINE x == place[req[r].op.ref]
           q == [[req[r] EXCEPT !.left = {x}] EXCEPT !.pc = "check"]
<1>1. req[r] \in Active /\ req[r].pc = "lookup" /\ req[r].op.by = "child"
  BY Busy DEF LookUpChild
<1>2. x \in Things \cup {None}
  BY <1>1, OperationsAssumption DEF IInv, TypeOK, Active, Refs
<1>3. CASE x = None
  BY <1>3, RefuseKeeps DEF LookUpChild
<1>4. CASE x # None
  <2>1. req' = [req EXCEPT ![r] = q] /\ NoOther
    BY <1>4 DEF LookUpChild, Step
  <2>2. Asks(req[r], place) \subseteq {x}
    BY <1>1 DEF Asks, Denoted
  <2> HIDE DEF x
  <2> QED
    BY <1>1, <1>2, <1>4, <2>1, <2>2, LooksUp
<1> QED
  BY <1>3, <1>4

LEMMA LookUpNameKeeps ==
  ASSUME IInv, NEW r \in Requests, LookUpName(r)
  PROVE  IInv'
<1> DEFINE x == place[req[r].op.ref]
<1>1. req[r] \in Active /\ req[r].pc = "lookup" /\ req[r].op.by = "name"
  BY Busy DEF LookUpName
<1>2. x \in Things \cup {None}
  BY <1>1, OperationsAssumption DEF IInv, TypeOK, Active, Refs
<1>3. Asks(req[r], place) = {}
  BY <1>1 DEF Asks
<1>4. CASE x = None
  <2>1. req' = [req EXCEPT ![r] = [[req[r] EXCEPT !.left = req[r].left] EXCEPT !.pc = "act"]] /\ NoOther
    BY <1>1, <1>4 DEF LookUpName, Step, Active
  <2>2. req[r].left \in SUBSET Things
    BY <1>1 DEF Active
  <2> QED
    BY <1>1, <1>3, <2>1, <2>2, LooksUp
<1>5. CASE x # None
  <2>1. req' = [req EXCEPT ![r] = [[req[r] EXCEPT !.left = {x}] EXCEPT !.pc = "check"]] /\ NoOther
    BY <1>5 DEF LookUpName, Step
  <2> HIDE DEF x
  <2> QED
    BY <1>1, <1>2, <1>3, <1>5, <2>1, LooksUp
<1> QED
  BY <1>4, <1>5

LEMMA PassKeeps ==
  ASSUME IInv, NEW r \in Requests, LookUpPath(r) \/ LetPass(r)
  PROVE  IInv'
<1>1. req[r] \in Active /\ req[r].pc = "lookup" /\ req[r].op.by \in {"path", "open"}
  BY Busy DEF LookUpPath, LetPass
<1>2. CASE Refuse(r)
  BY <1>2, RefuseKeeps
<1>3. CASE Step(r, "act", req[r]) /\ NoOther
  <2>1. req' = [req EXCEPT ![r] = [[req[r] EXCEPT !.left = req[r].left] EXCEPT !.pc = "act"]]
    BY <1>1, <1>3 DEF Step, Active
  <2>2. req[r].left \in SUBSET Things /\ Asks(req[r], place) = {}
    BY <1>1 DEF Active, Asks
  <2> QED
    BY <1>1, <1>3, <2>1, <2>2, LooksUp
<1> QED
  BY <1>2, <1>3 DEF LookUpPath, LetPass

LEMMA CheckKeeps ==
  ASSUME IInv, NEW r \in Requests, NEW x \in Things, Check(r, x)
  PROVE  IInv'
<1>1. req[r] \in Active /\ req[r].pc = "check" /\ x \in req[r].left
      /\ Sound(req[r], Entitled(req[r], acct, right), place, now)
  BY Busy DEF Check
<1>2. Entitled(req[r], acct, right) \subseteq req[r].had
  BY <1>1 DEF Sound, Trusted
<1>3. ASSUME NEW q \in Active, q.user = req[r].user, q.via = req[r].via, q.op = req[r].op,
             q.had = req[r].had, q.admin = req[r].admin, q.pc = "check", q.ok \subseteq q.had,
             Asks(req[r], place) \subseteq q.left \cup q.ok,
             req' = [req EXCEPT ![r] = q], NoOther
      PROVE  IInv'
  <2>1. GoesOn(q, req[r])
    BY <1>1, <1>3 DEF GoesOn
  <2>2. Self \in q.had /\ (q.admin => Things \cup {Administration} \subseteq q.had)
    BY <1>1, <1>3 DEF Sound, Trusted
  <2>3. Guarded(q) /\ Bounded(q, now)
    BY <1>1, <1>3 DEF Sound, Guarded, Bounded
  <2>4. Covered(q, place)
    BY <1>1, <1>3 DEF Covered, Asks
  <2> QED
    BY <1>1, <1>3, <2>1, <2>2, <2>3, <2>4, Proceeds
<1> DEFINE rest == [req[r] EXCEPT !.left = @ \ {x}]
           more == [rest EXCEPT !.ok = @ \cup {x}]
           kept == [rest EXCEPT !.pc = "check"]
           passed == [more EXCEPT !.pc = "check"]
<1>4. CASE right[req[r].user][x] >= req[r].op.need
  <2>1. x \in Entitled(req[r], acct, right)
    BY <1>4 DEF Entitled
  <2>2. req' = [req EXCEPT ![r] = passed] /\ NoOther
    BY <1>4 DEF Check, Step
  <2>3. /\ passed \in Active /\ passed.user = req[r].user /\ passed.via = req[r].via
        /\ passed.op = req[r].op /\ passed.had = req[r].had /\ passed.admin = req[r].admin
        /\ passed.pc = "check" /\ passed.ok = req[r].ok \cup {x} /\ passed.left = req[r].left \ {x}
    BY <1>1 DEF Active, Phases
  <2> HIDE DEF passed
  <2>4. passed.ok \subseteq passed.had
    BY <1>1, <1>2, <2>1, <2>3 DEF Sound, Trusted
  <2>5. Asks(req[r], place) \subseteq passed.left \cup passed.ok
    BY <1>1, <2>3 DEF Sound, Covered
  <2> QED
    BY <1>3, <2>2, <2>3, <2>4, <2>5
<1>5. CASE ~(right[req[r].user][x] >= req[r].op.need) /\ req[r].op.by = "filter"
  <2>2. req' = [req EXCEPT ![r] = kept] /\ NoOther
    BY <1>5 DEF Check, Step
  <2>3. /\ kept \in Active /\ kept.user = req[r].user /\ kept.via = req[r].via
        /\ kept.op = req[r].op /\ kept.had = req[r].had /\ kept.admin = req[r].admin
        /\ kept.pc = "check" /\ kept.ok = req[r].ok
    BY <1>1 DEF Active, Phases
  <2> HIDE DEF kept
  <2>4. kept.ok \subseteq kept.had
    BY <1>1, <2>3 DEF Sound, Trusted
  <2>5. Asks(req[r], place) = {}
    BY <1>5 DEF Asks
  <2> QED
    BY <1>3, <2>2, <2>3, <2>4, <2>5
<1>6. CASE ~(right[req[r].user][x] >= req[r].op.need) /\ req[r].op.by # "filter"
  BY <1>6, RefuseKeeps DEF Check
<1> QED
  BY <1>4, <1>5, <1>6

LEMMA CheckedKeeps ==
  ASSUME IInv, NEW r \in Requests, Checked(r)
  PROVE  IInv'
<1> DEFINE q == [req[r] EXCEPT !.pc = "act"]
<1>1. req[r] \in Active /\ req[r].pc = "check" /\ req[r].left = {}
      /\ Sound(req[r], Entitled(req[r], acct, right), place, now)
  BY Busy DEF Checked
<1>2. CASE req[r].op.by = "filter" /\ req[r].ok = {}
  BY <1>2, RefuseKeeps DEF Checked
<1>3. CASE ~(req[r].op.by = "filter" /\ req[r].ok = {})
  <2>1. req' = [req EXCEPT ![r] = q] /\ NoOther
    BY <1>3 DEF Checked, Step
  <2>2. q \in Active /\ GoesOn(q, req[r]) /\ q.pc = "act" /\ q.ok = req[r].ok /\ q.admin = req[r].admin
    BY <1>1 DEF Active, Phases, GoesOn
  <2> HIDE DEF q
  <2>3. /\ Self \in q.had /\ q.ok \subseteq q.had
        /\ q.admin => Things \cup {Administration} \subseteq q.had
    BY <1>1, <2>2 DEF Sound, Trusted, GoesOn
  <2>4. Guarded(q) /\ Bounded(q, now)
    BY <1>1, <2>2 DEF Sound, Guarded, Bounded, Hooked, GoesOn
  <2>5. Covered(q, place)
    BY <1>1, <2>2 DEF Sound, Covered, Asks, GoesOn
  <2> QED
    BY <1>1, <2>1, <2>2, <2>3, <2>4, <2>5, Proceeds
<1> QED
  BY <1>2, <1>3

(* What a request touches is what was checked, or an admin's, or what a    *)
(* name has come to denote.                                                *)
LEMMA ActKeeps ==
  ASSUME IInv, NEW r \in Requests, Act(r)
  PROVE  IInv'
<1> DEFINE did == Touched(req[r]) \cup {Self}
           q == [[req[r] EXCEPT !.did = did] EXCEPT !.pc = "done"]
<1>1. req[r] \in Active /\ req[r].pc = "act" /\ req[r].op \in Operations
      /\ Sound(req[r], Entitled(req[r], acct, right), place, now)
  BY Busy DEF Act, Active
<1>2. /\ Self \in req[r].had /\ req[r].ok \subseteq req[r].had
      /\ req[r].admin => Things \cup {Administration} \subseteq req[r].had
      /\ req[r].admin \/ Asks(req[r], place) \subseteq req[r].ok
      /\ req[r].op.by \in Hooked \cup {"managed"} /\ (req[r].op.by = "admin" => req[r].admin)
  BY <1>1 DEF Sound, Guarded, Trusted, Covered
<1>3. req[r].op.on \subseteq Things /\ req[r].ok \subseteq Things
  BY <1>1, OperationsAssumption DEF Asked, Active
<1>4. req[r].op.by \in {"child", "name"} => Denoted(place[req[r].op.ref]) \subseteq Things
  BY <1>1, OperationsAssumption DEF IInv, TypeOK, Refs, Denoted
<1>5. Touched(req[r]) \subseteq Things \cup {Administration}
  BY <1>2, <1>3, <1>4 DEF Touched
<1>6. req[r].op.by # "name" => Touched(req[r]) \subseteq req[r].had
  <2> SUFFICES ASSUME req[r].op.by # "name" PROVE Touched(req[r]) \subseteq req[r].had
    OBVIOUS
  <2>1. CASE req[r].admin
    BY <1>2, <1>5, <2>1
  <2>2. CASE ~req[r].admin /\ req[r].op.by \in {"things", "managed"}
    BY <1>2, <2>2 DEF Touched, Asks
  <2>3. CASE ~req[r].admin /\ req[r].op.by = "child"
    BY <1>2, <2>3 DEF Touched, Asks
  <2>4. CASE ~req[r].admin /\ req[r].op.by = "filter"
    BY <1>2, <2>4 DEF Touched
  <2>5. CASE req[r].op.by \in {"path", "open"}
    BY <1>1, <2>5, OperationsAssumption DEF Touched
  <2> QED
    BY <1>2, <2>1, <2>2, <2>3, <2>4, <2>5 DEF Hooked
<1>7. req[r].op.by = "name" => did \subseteq req[r].had \/ did \ {Self} # req[r].ok
  BY <1>2, <1>3, <1>5, ConstantsAssumption
<1>8. req' = [req EXCEPT ![r] = q] /\ NoOther
  BY DEF Act, Step
<1>9. did \in SUBSET Entitlements
  BY <1>5 DEF Entitlements
<1>10. did \subseteq req[r].had \/ (req[r].op.by = "name" /\ did \ {Self} # req[r].ok)
  BY <1>2, <1>6, <1>7
<1> HIDE DEF did
<1>11. /\ q \in Active /\ q.pc = "done" /\ q.did = did /\ q.had = req[r].had /\ q.op = req[r].op
       /\ q.ok = req[r].ok /\ q.admin = req[r].admin
  BY <1>1, <1>9 DEF Active, Phases
<1> HIDE DEF q
<1>12. Guarded(q) /\ Bounded(q, now) /\ Covered(q, place)
  BY <1>11 DEF Guarded, Bounded, Covered
<1>13. Trusted(q, Entitled(q, acct, right)) /\ Answered(q)
  BY <1>2, <1>10, <1>11 DEF Trusted, Answered
<1> QED
  BY <1>8, <1>11, <1>12, <1>13, OneMoves DEF Sound

-----------------------------------------------------------------------------
(* The routers' own dependencies, and what they read before they write.    *)

LEMMA DependOnManagedKeeps ==
  ASSUME IInv, NEW r \in Requests, DependOnManaged(r)
  PROVE  IInv'
<1> DEFINE admin == IsAdmin(acct, req[r].user)
           left == IF admin THEN {} ELSE req[r].op.on
           pc == IF admin THEN "act" ELSE "check"
           q == [[req[r] EXCEPT !.admin = admin, !.left = left] EXCEPT !.pc = pc]
<1>1. req[r] \in Active /\ req[r].pc = "depend" /\ req[r].op.by = "managed"
      /\ Sound(req[r], Entitled(req[r], acct, right), place, now) /\ req[r].op \in Asked
  BY Busy, OperationsAssumption DEF DependOnManaged, Active
<1>2. admin \in BOOLEAN
  BY DEF IInv, TypeOK, IsAdmin, Accounts
<1>3. admin => Things \cup {Administration} \subseteq req[r].had
  BY <1>1, AdminEntitled
<1>4. CASE acct[req[r].user] = None
  BY <1>4, RefuseKeeps DEF DependOnManaged
<1>5. CASE acct[req[r].user] # None
  <2>1. req' = [req EXCEPT ![r] = q] /\ NoOther
    BY <1>5 DEF DependOnManaged, Step
  <2> HIDE DEF admin
  <2>2. left \in SUBSET Things /\ pc \in Phases /\ (~admin => left = req[r].op.on)
    BY <1>1 DEF Asked, Phases
  <2> HIDE DEF left
  <2>3. /\ q \in Active /\ GoesOn(q, req[r]) /\ q.pc = pc /\ q.admin = admin /\ q.left = left
        /\ q.ok = req[r].ok
    BY <1>1, <1>2, <2>2 DEF Active, Phases, GoesOn
  <2> HIDE DEF q
  <2>4. /\ Self \in q.had /\ q.ok \subseteq q.had
        /\ q.admin => Things \cup {Administration} \subseteq q.had
    BY <1>1, <1>3, <2>3 DEF Sound, Trusted, GoesOn
  <2>5. Guarded(q) /\ Bounded(q, now)
    BY <1>1, <2>3 DEF Guarded, Bounded, GoesOn
  <2>6. Covered(q, place)
    BY <1>1, <2>2, <2>3 DEF Covered, Asks, GoesOn
  <2> QED
    BY <1>1, <2>1, <2>3, <2>4, <2>5, <2>6, Proceeds
<1> QED
  BY <1>4, <1>5

LEMMA DependOnAdminKeeps ==
  ASSUME IInv, NEW r \in Requests, DependOnAdmin(r)
  PROVE  IInv'
<1> DEFINE admin == IsAdmin(acct, req[r].user)
           q == [[req[r] EXCEPT !.admin = admin] EXCEPT !.pc = "look"]
<1>1. req[r] \in Active /\ req[r].pc = "depend" /\ req[r].op \in Asked
      /\ Sound(req[r], Entitled(req[r], acct, right), place, now)
      /\ req[r].op.by \in {"token", "create", "delete"}
  BY Busy, OperationsAssumption DEF DependOnAdmin, Active
<1>2. admin \in BOOLEAN
  BY DEF IInv, TypeOK, IsAdmin, Accounts
<1>3. admin => Things \cup {Administration} \subseteq req[r].had
  BY <1>1, AdminEntitled
<1>4. CASE Refuse(r)
  BY <1>4, RefuseKeeps
<1>5. CASE /\ MayWrite(req[r], admin) /\ (req[r].op.by = "token" => InTerm(req[r].op.until))
           /\ Step(r, "look", [req[r] EXCEPT !.admin = admin]) /\ NoOther
  <2>1. req' = [req EXCEPT ![r] = q] /\ NoOther
    BY <1>5 DEF Step
  <2>2. OwnToken(req[r]) \/ admin
    BY <1>5 DEF MayWrite
  <2> HIDE DEF admin
  <2>3. /\ q \in Active /\ GoesOn(q, req[r]) /\ q.pc = "look" /\ q.admin = admin /\ q.ok = req[r].ok
    BY <1>1, <1>2 DEF Active, Phases, GoesOn
  <2> HIDE DEF q
  <2>4. /\ Self \in q.had /\ q.ok \subseteq q.had
        /\ q.admin => Things \cup {Administration} \subseteq q.had
    BY <1>1, <1>3, <2>3 DEF Sound, Trusted, GoesOn
  <2>5. Guarded(q) /\ Covered(q, place)
    BY <1>1, <2>2, <2>3 DEF Guarded, Covered, GoesOn, OwnToken
  <2>6. Bounded(q, now)
    BY <1>5, <2>3 DEF Bounded, InTerm, GoesOn
  <2> QED
    BY <1>1, <2>1, <2>3, <2>4, <2>5, <2>6, Proceeds
<1> QED
  BY <1>4, <1>5 DEF DependOnAdmin

LEMMA WillWrite ==
  ASSUME IInv, NEW r \in Requests, req[r].pc \in {"look", "write", "make"},
         NEW pc \in {"write", "make"}, Step(r, pc, req[r]), NoOther
  PROVE  IInv'
<1> DEFINE q == [req[r] EXCEPT !.pc = pc]
<1>1. req[r] \in Active /\ Sound(req[r], Entitled(req[r], acct, right), place, now)
  BY Busy
<1>2. /\ q \in Active /\ GoesOn(q, req[r]) /\ q.pc = pc /\ q.ok = req[r].ok /\ q.admin = req[r].admin
  BY <1>1 DEF Active, Phases, GoesOn
<1>3. req' = [req EXCEPT ![r] = q]
  BY DEF Step
<1> HIDE DEF q
<1>4. /\ Self \in q.had /\ q.ok \subseteq q.had
      /\ q.admin => Things \cup {Administration} \subseteq q.had
  BY <1>1, <1>2 DEF Sound, Trusted, GoesOn
<1>5. Guarded(q) /\ Covered(q, place) /\ Bounded(q, now)
  BY <1>1, <1>2 DEF Sound, Guarded, Covered, Bounded, GoesOn, OwnToken
<1> QED
  BY <1>1, <1>2, <1>3, <1>4, <1>5, Proceeds

LEMMA LookKeeps ==
  ASSUME IInv, NEW r \in Requests, Look(r) \/ WriteNoAccount(r)
  PROVE  IInv'
BY WillWrite, RefuseKeeps DEF Look, WriteNoAccount

-----------------------------------------------------------------------------
(* Steps that change accounts or rights.  Everybody's entitlements are     *)
(* recorded as they are afterwards.                                        *)

LEMMA WitnessedSound ==
  ASSUME IInv, NEW a, NEW rt, acct' = a, right' = rt, now' = now, place' = place,
         NEW s \in Requests, req[s] # Idle,
         req'[s] = [req[s] EXCEPT !.had = @ \cup Entitled(req[s], a, rt)]
  PROVE  req'[s] \in Active /\ Sound(req'[s], Entitled(req[s], acct, right)', place', now')
<1> DEFINE entitled == Entitled(req[s], a, rt)
           q == [req[s] EXCEPT !.had = @ \cup entitled]
<1>1. req[s] \in Active /\ Sound(req[s], Entitled(req[s], acct, right), place, now)
  BY Busy DEF IInv, TypeOK, RequestsSound
<1>2. entitled \in SUBSET Entitlements
  BY DEF Entitled, Entitlements
<1>3. req'[s] = q
  OBVIOUS
<1>4. q.user = req[s].user /\ q.via = req[s].via /\ q.op = req[s].op
  BY <1>1 DEF Active
<1>5. Entitled(req[s], acct, right)' = entitled
  BY <1>3, <1>4 DEF Entitled, Current, IsAdmin
<1> HIDE DEF entitled
<1>6. /\ q \in Active /\ q.pc = req[s].pc /\ q.op = req[s].op /\ q.admin = req[s].admin
      /\ q.left = req[s].left /\ q.ok = req[s].ok /\ q.did = req[s].did /\ q.user = req[s].user
      /\ q.had = req[s].had \cup entitled
  BY <1>1, <1>2 DEF Active
<1> HIDE DEF q
<1>7. Guarded(q) /\ Bounded(q, now)
  BY <1>1, <1>6 DEF Sound, Guarded, Bounded, OwnToken
<1>8. Trusted(q, entitled)
  BY <1>1, <1>6 DEF Sound, Trusted
<1>9. Covered(q, place)
  BY <1>1, <1>6 DEF Sound, Covered, Asks
<1>10. Answered(q)
  BY <1>1, <1>6 DEF Sound, Answered
<1> QED
  BY <1>3, <1>5, <1>6, <1>7, <1>8, <1>9, <1>10 DEF Sound

LEMMA WriterSound ==
  ASSUME IInv, NEW r \in Requests, req[r].pc \in {"write", "make"}, now' = now, place' = place,
         req'[r] = [req[r] EXCEPT !.pc = "done", !.did = Power(req[r]) \cup {Self}]
  PROVE  req'[r] \in Active /\ Sound(req'[r], Entitled(req[r], acct, right)', place', now')
<1> DEFINE did == Power(req[r]) \cup {Self}
           q == [req[r] EXCEPT !.pc = "done", !.did = did]
<1>1. req[r] \in Active /\ Sound(req[r], Entitled(req[r], acct, right), place, now)
  BY Busy
<1>2. did \in SUBSET Entitlements /\ did \subseteq req[r].had
  BY <1>1 DEF Power, Entitlements, Sound, Trusted, Guarded
<1> HIDE DEF did
<1>3. /\ q \in Active /\ q.pc = "done" /\ q.did = did /\ q.had = req[r].had /\ q.ok = req[r].ok
      /\ q.admin = req[r].admin
  BY <1>1, <1>2 DEF Active, Phases
<1>4. req'[r] = q
  BY DEF did
<1> HIDE DEF q
<1>5. Trusted(q, Entitled(req[r], acct, right)')
  BY <1>1, <1>3 DEF Sound, Trusted
<1>6. Guarded(q) /\ Covered(q, place) /\ Bounded(q, now) /\ Answered(q)
  BY <1>2, <1>3 DEF Guarded, Covered, Bounded, Answered
<1> QED
  BY <1>3, <1>4, <1>5, <1>6 DEF Sound

LEMMA WritesSound ==
  ASSUME IInv, NEW r \in Requests, req[r].pc \in {"write", "make"}, NEW a, NEW rt,
         acct' = a, right' = rt, now' = now, place' = place, WroteAs(r, a, rt)
  PROVE  req' \in [Requests -> {Idle} \cup Active] /\ RequestsSound'
<1> DEFINE w == Witnessed(req, a, rt)
<1>1. \A s \in Requests : w[s] = IF req[s] = Idle THEN Idle
                                 ELSE [req[s] EXCEPT !.had = @ \cup Entitled(req[s], a, rt)]
  BY DEF Witnessed
<1>2. w = [s \in Requests |-> w[s]]
  BY DEF Witnessed
<1> HIDE DEF w
<1>3. req' = [w EXCEPT ![r] = [req[r] EXCEPT !.pc = "done", !.did = Power(req[r]) \cup {Self}]]
  BY DEF WroteAs, w
<1>4. ASSUME NEW s \in Requests
      PROVE  /\ req'[s] \in {Idle} \cup Active
             /\ req'[s] # Idle => Sound(req'[s], Entitled(req[s], acct, right)', place', now')
  <2>1. CASE s = r
    <3>1. req'[r] = [req[r] EXCEPT !.pc = "done", !.did = Power(req[r]) \cup {Self}]
      BY <1>2, <1>3
    <3> QED
      BY <2>1, <3>1, WriterSound
  <2>2. CASE s # r /\ req[s] = Idle
    BY <1>1, <1>2, <1>3, <2>2
  <2>3. CASE s # r /\ req[s] # Idle
    <3>1. req'[s] = [req[s] EXCEPT !.had = @ \cup Entitled(req[s], a, rt)]
      BY <1>1, <1>2, <1>3, <2>3
    <3> QED
      BY <2>3, <3>1, WitnessedSound
  <2> QED
    BY <2>1, <2>2, <2>3
<1>5. req' = [s \in Requests |-> req'[s]]
  BY <1>2, <1>3
<1> QED
  BY <1>4, <1>5 DEF RequestsSound

(* What the invariant says of one account.                                 *)
AsAsked(u, c, tokens) ==
  c.token # 0 =>
    /\ tokens[c.token].user = u
    /\ tokens[c.token].until # None => c.expires = tokens[c.token].until
    /\ tokens[c.token].until = None =>
         \/ c.expires = None
         \/ \E i \in 1 .. c.token : tokens[i].user = u /\ tokens[i].until = c.expires

InOrder(u, c, tokens, time) ==
  /\ c.token <= Len(tokens)
  /\ c.expires # None => c.expires <= time + MaxTerm
  /\ c.token = 0 => c.expires = None
  /\ AsAsked(u, c, tokens)

Tokens == [user : Users, until : Times \cup {None}]

LEMMA AccountInOrder ==
  ASSUME IInv, NEW u \in Users, acct[u] # None
  PROVE  acct[u] \in Accounts /\ InOrder(u, acct[u], issued, now)
BY DEF IInv, TypeOK, UntoldLasts, TokensKeepTheirTerm, InOrder, AsAsked

LEMMA AccountsInOrder ==
  ASSUME NEW a, NEW is \in Seq(Tokens), NEW time,
         acct' = a, issued' = is, now' = time,
         \A u \in Users : a[u] # None => InOrder(u, a[u], is, time)
  PROVE  /\ (\A u \in Users : acct[u] # None => acct[u].token <= Len(issued))'
         /\ (\A u \in Users : acct[u] # None /\ acct[u].expires # None =>
               acct[u].expires <= now + MaxTerm)'
         /\ UntoldLasts' /\ TokensKeepTheirTerm'
BY DEF UntoldLasts, TokensKeepTheirTerm, InOrder, AsAsked

(* A request writes account u as c.                                        *)
LEMMA AccountWritten ==
  ASSUME IInv, NEW r \in Requests, req[r].pc \in {"write", "make"}, NEW u \in Users,
         NEW c \in Accounts \cup {None}, c # None => InOrder(u, c, issued, now),
         NEW rt \in [Users -> [Things -> Levels]],
         acct' = [acct EXCEPT ![u] = c], right' = rt,
         UNCHANGED <<issued, place, now, budget>>, WroteAs(r, [acct EXCEPT ![u] = c], rt)
  PROVE  IInv'
<1> DEFINE a == [acct EXCEPT ![u] = c]
<1>1. req' \in [Requests -> {Idle} \cup Active] /\ RequestsSound'
  BY WritesSound
<1>2. a \in [Users -> Accounts \cup {None}]
  BY DEF IInv, TypeOK
<1>3. \A v \in Users : a[v] = IF v = u THEN c ELSE acct[v]
  BY DEF IInv, TypeOK
<1>4. issued \in Seq(Tokens) /\ Len(issued) <= MaxTokens
  BY DEF IInv, TypeOK, Tokens
<1> HIDE DEF a
<1>5. \A v \in Users : a[v] # None => InOrder(v, a[v], issued, now)
  BY <1>3, AccountInOrder
<1>6. acct' = a /\ issued' = issued /\ now' = now
  BY DEF a
<1>7. /\ (\A v \in Users : acct[v] # None => acct[v].token <= Len(issued))'
      /\ (\A v \in Users : acct[v] # None /\ acct[v].expires # None =>
            acct[v].expires <= now + MaxTerm)'
      /\ UntoldLasts' /\ TokensKeepTheirTerm'
  BY <1>4, <1>5, <1>6, AccountsInOrder
<1>8. TypeOK'
  BY <1>1, <1>2, <1>4, <1>6, <1>7 DEF IInv, TypeOK, budget, Tokens
<1> QED
  BY <1>1, <1>7, <1>8 DEF IInv

LEMMA Writer ==
  ASSUME IInv, NEW r \in Requests, req[r].pc \in {"write", "make"}
  PROVE  /\ req[r].op \in Asked /\ req[r].op.user \in Users
         /\ req[r].op.by = "token" /\ req[r].op.until # None => req[r].op.until <= now + MaxTerm
<1>1. req[r] \in Active /\ Sound(req[r], Entitled(req[r], acct, right), place, now)
  BY Busy
<1> QED
  BY <1>1, OperationsAssumption DEF Active, Sound, Guarded, Bounded

LEMMA SetFlagsKeeps ==
  ASSUME IInv, NEW r \in Requests, SetFlags(r)
  PROVE  IInv'
<1> DEFINE u == req[r].op.user
           c == [acct[u] EXCEPT !.admin = req[r].op.flag]
<1>1. req[r].pc = "write" /\ u \in Users /\ req[r].op.flag \in BOOLEAN /\ acct[u] # None
  BY Writer DEF SetFlags, Asked
<1>2. acct[u] \in Accounts /\ InOrder(u, acct[u], issued, now)
  BY <1>1, AccountInOrder
<1>3. acct' = [acct EXCEPT ![u] = c] /\ WroteAs(r, [acct EXCEPT ![u] = c], right)
      /\ UNCHANGED <<issued, right, place, now, budget>>
  BY DEF SetFlags
<1>4. c \in Accounts /\ c.token = acct[u].token /\ c.expires = acct[u].expires
  BY <1>1, <1>2 DEF Accounts
<1>5. right \in [Users -> [Things -> Levels]]
  BY DEF IInv, TypeOK
<1> HIDE DEF u, c
<1>6. InOrder(u, c, issued, now)
  BY <1>2, <1>4 DEF InOrder, AsAsked
<1> QED
  BY <1>1, <1>3, <1>4, <1>5, <1>6, AccountWritten

LEMMA DeleteAccountKeeps ==
  ASSUME IInv, NEW r \in Requests, DeleteAccount(r)
  PROVE  IInv'
<1> DEFINE u == req[r].op.user
           rt == [right EXCEPT ![u] = [x \in Things |-> Default]]
<1>1. req[r].pc = "write" /\ u \in Users
  BY Writer DEF DeleteAccount
<1>2. acct' = [acct EXCEPT ![u] = None] /\ WroteAs(r, [acct EXCEPT ![u] = None], rt) /\ right' = rt
      /\ UNCHANGED <<issued, place, now, budget>>
  BY DEF DeleteAccount
<1>3. rt \in [Users -> [Things -> Levels]]
  BY ConstantsAssumption DEF IInv, TypeOK
<1> HIDE DEF u, rt
<1> QED
  BY <1>1, <1>2, <1>3, AccountWritten

LEMMA MakeKeeps ==
  ASSUME IInv, NEW r \in Requests, Make(r)
  PROVE  IInv'
<1> DEFINE u == req[r].op.user
           c == [admin |-> req[r].op.flag, token |-> 0, expires |-> None]
<1>1. req[r].pc = "make" /\ u \in Users /\ req[r].op.flag \in BOOLEAN
  BY Writer DEF Make, Asked
<1>2. CASE acct[u] # None
  BY <1>2, RefuseKeeps DEF Make
<1>3. CASE acct[u] = None
  <2>1. acct' = [acct EXCEPT ![u] = c] /\ WroteAs(r, [acct EXCEPT ![u] = c], right)
        /\ UNCHANGED <<issued, right, place, now, budget>>
    BY <1>3 DEF Make
  <2>2. c \in Accounts /\ c.token = 0 /\ c.expires = None
    BY <1>1, ConstantsAssumption DEF Accounts
  <2>3. right \in [Users -> [Things -> Levels]] /\ Len(issued) \in Nat
    BY DEF IInv, TypeOK
  <2> HIDE DEF u, c
  <2>4. InOrder(u, c, issued, now)
    BY <2>2, <2>3 DEF InOrder, AsAsked
  <2> QED
    BY <1>1, <2>1, <2>2, <2>3, <2>4, AccountWritten
<1> QED
  BY <1>2, <1>3

(* The tokens issued before stay what they were.                           *)
LEMMA AnotherToken ==
  ASSUME NEW is \in Seq(Tokens), NEW t \in Tokens, NEW u \in Users, NEW c \in Accounts,
         NEW time, InOrder(u, c, is, time)
  PROVE  InOrder(u, c, Append(is, t), time)
<1> DEFINE more == Append(is, t)
<1>1. Len(is) \in Nat /\ Len(more) = Len(is) + 1 /\ \A i \in 1 .. Len(is) : more[i] = is[i]
  OBVIOUS
<1>2. c.token \in Nat /\ c.token <= Len(is)
  BY ConstantsAssumption DEF Accounts, InOrder
<1>3. \A i \in 1 .. c.token : more[i] = is[i]
  BY <1>1, <1>2
<1> HIDE DEF more
<1>4. AsAsked(u, c, more)
  <2> SUFFICES ASSUME c.token # 0 PROVE AsAsked(u, c, more)
    BY DEF AsAsked
  <2>1. more[c.token] = is[c.token] /\ AsAsked(u, c, is)
    BY <1>2, <1>3 DEF InOrder
  <2> QED
    BY <1>3, <2>1 DEF AsAsked
<1>5. c.token <= Len(more)
  BY <1>1, <1>2
<1> QED
  BY <1>4, <1>5 DEF InOrder, more

(* A rotated account has the newest token, and its term or the one it had. *)
LEMMA NewestToken ==
  ASSUME NEW is \in Seq(Tokens), NEW u \in Users, NEW until \in Times \cup {None},
         NEW c \in Accounts, NEW d \in Accounts, NEW time \in Nat, InOrder(u, c, is, time),
         until # None => until <= time + MaxTerm,
         d.token = Len(is) + 1, d.expires = IF until = None THEN c.expires ELSE until
  PROVE  InOrder(u, d, Append(is, [user |-> u, until |-> until]), time)
<1> DEFINE t == [user |-> u, until |-> until]
           more == Append(is, t)
<1>1. t \in Tokens /\ t.user = u /\ t.until = until
  BY DEF Tokens
<1> HIDE DEF t
<1>2. Len(is) \in Nat /\ Len(more) = Len(is) + 1 /\ more[d.token] = t
      /\ \A i \in 1 .. Len(is) : more[i] = is[i]
  BY <1>1
<1>3. c.token \in Nat /\ c.token <= Len(is)
  BY ConstantsAssumption DEF Accounts, InOrder
<1> HIDE DEF more
<1>4. \A i \in 1 .. c.token : more[i] = is[i] /\ i \in 1 .. d.token
  BY <1>2, <1>3
<1>5. AsAsked(u, d, more)
  <2>1. CASE until # None
    BY <1>1, <1>2, <2>1 DEF AsAsked
  <2>2. CASE until = None /\ c.expires = None
    BY <1>1, <1>2, <2>2 DEF AsAsked
  <2>3. CASE until = None /\ c.expires # None
    <3>1. c.token # 0 /\ AsAsked(u, c, is)
      BY <2>3 DEF InOrder
    <3>2. PICK i \in 1 .. c.token : is[i].user = u /\ is[i].until = c.expires
      <4>1. c.token \in 1 .. c.token
        BY <1>3, <3>1
      <4> QED
        BY <2>3, <3>1, <4>1 DEF AsAsked
    <3>3. i \in 1 .. d.token /\ more[i].user = u /\ more[i].until = d.expires
      BY <1>4, <2>3, <3>2
    <3> QED
      BY <1>1, <1>2, <2>3, <3>3 DEF AsAsked
  <2> QED
    BY <2>1, <2>2, <2>3
<1>6. d.expires # None => d.expires <= time + MaxTerm
  BY DEF InOrder
<1>7. d.token # 0 /\ d.token <= Len(more)
  BY <1>2
<1>8. InOrder(u, d, more, time)
  BY <1>5, <1>6, <1>7 DEF InOrder
<1> QED
  BY <1>8 DEF more, t

LEMMA RotateKeeps ==
  ASSUME IInv, NEW r \in Requests, Rotate(r)
  PROVE  IInv'
<1> DEFINE u == req[r].op.user
           until == req[r].op.until
           term == IF until = None THEN acct[u].expires ELSE until
           d == [acct[u] EXCEPT !.token = Len(issued) + 1, !.expires = term]
           a == [acct EXCEPT ![u] = d]
           t == [user |-> u, until |-> until]
           is == Append(issued, t)
<1>1. req[r].pc = "write" /\ u \in Users /\ until \in Times \cup {None} /\ acct[u] # None
      /\ (until # None => until <= now + MaxTerm)
  BY Writer DEF Rotate, Asked
<1>2. acct[u] \in Accounts /\ InOrder(u, acct[u], issued, now)
  BY <1>1, AccountInOrder
<1>3. acct' = a /\ issued' = is /\ Len(issued) < MaxTokens /\ WroteAs(r, a, right)
      /\ UNCHANGED <<right, place, now, budget>>
  BY DEF Rotate, Issue
<1>4. issued \in Seq(Tokens) /\ Len(issued) \in Nat /\ now \in Nat
  BY DEF IInv, TypeOK, Tokens
<1>5. term \in Times \cup {None}
  BY <1>1, <1>2 DEF Accounts
<1> HIDE DEF u, until
<1>6. t \in Tokens
  BY <1>1 DEF Tokens
<1>7. Len(issued) + 1 \in 0 .. MaxTokens
  BY <1>3, <1>4, ConstantsAssumption
<1>8. d \in Accounts /\ d.token = Len(issued) + 1 /\ d.expires = term
  BY <1>2, <1>5, <1>7 DEF Accounts
<1> HIDE DEF d
<1>9. InOrder(u, d, is, now)
  BY <1>1, <1>2, <1>4, <1>8, NewestToken
<1>10. a \in [Users -> Accounts \cup {None}] /\ \A v \in Users : a[v] = IF v = u THEN d ELSE acct[v]
  BY <1>8 DEF IInv, TypeOK
<1>11. req' \in [Requests -> {Idle} \cup Active] /\ RequestsSound'
  <2>1. acct' = a /\ right' = right /\ now' = now /\ place' = place /\ WroteAs(r, a, right)
    BY <1>3
  <2> HIDE DEF a
  <2> QED
    BY <1>1, <2>1, WritesSound
<1> HIDE DEF a, t
<1>12. ASSUME NEW v \in Users, a[v] # None PROVE InOrder(v, a[v], is, now)
  <2>1. CASE v = u
    BY <1>9, <1>10, <2>1
  <2>2. CASE v # u
    <3>1. acct[v] \in Accounts /\ InOrder(v, acct[v], issued, now)
      BY <1>10, <1>12, <2>2, AccountInOrder
    <3> QED
      BY <1>4, <1>6, <1>10, <2>2, <3>1, AnotherToken
  <2> QED
    BY <2>1, <2>2
<1>13. is \in Seq(Tokens) /\ Len(is) <= MaxTokens
  BY <1>3, <1>4, <1>6, ConstantsAssumption
<1> HIDE DEF is
<1>14. /\ (\A v \in Users : acct[v] # None => acct[v].token <= Len(issued))'
       /\ (\A v \in Users : acct[v] # None /\ acct[v].expires # None =>
             acct[v].expires <= now + MaxTerm)'
       /\ UntoldLasts' /\ TokensKeepTheirTerm'
  BY <1>3, <1>12, <1>13, AccountsInOrder
<1>15. TypeOK'
  BY <1>3, <1>10, <1>11, <1>13, <1>14 DEF IInv, TypeOK, budget, Tokens
<1> QED
  BY <1>11, <1>14, <1>15 DEF IInv

-----------------------------------------------------------------------------
(* What happens meanwhile, and new requests.                               *)

LEMMA ChangeRightKeeps ==
  ASSUME IInv, NEW u \in Users, NEW x \in Things, NEW level \in Grants, ChangeRight(u, x, level)
  PROVE  IInv'
<1> DEFINE rt == [right EXCEPT ![u][x] = level]
<1>1. /\ right' = rt /\ req' = Witnessed(req, acct, rt) /\ changes < MaxChanges
      /\ changes' = changes + 1 /\ UNCHANGED <<acct, issued, place, now, sends>>
  BY DEF ChangeRight
<1>2. rt \in [Users -> [Things -> Levels]]
  BY ConstantsAssumption DEF IInv, TypeOK
<1> HIDE DEF rt
<1>3. req' = [s \in Requests |-> req'[s]]
  BY <1>1 DEF Witnessed
<1>4. ASSUME NEW s \in Requests
      PROVE  /\ req'[s] \in {Idle} \cup Active
             /\ req'[s] # Idle => Sound(req'[s], Entitled(req[s], acct, right)', place', now')
  <2>1. CASE req[s] = Idle
    BY <1>1, <2>1 DEF Witnessed
  <2>2. CASE req[s] # Idle
    <3>1. req'[s] = [req[s] EXCEPT !.had = @ \cup Entitled(req[s], acct, rt)]
      BY <1>1, <2>2 DEF Witnessed
    <3>2. acct' = acct /\ right' = rt /\ now' = now /\ place' = place
      BY <1>1
    <3> QED
      BY <2>2, <3>1, <3>2, WitnessedSound
  <2> QED
    BY <2>1, <2>2
<1>5. RequestsSound' /\ req' \in [Requests -> {Idle} \cup Active]
  BY <1>3, <1>4 DEF RequestsSound
<1>6. changes' \in 0 .. MaxChanges
  BY <1>1, ConstantsAssumption DEF IInv, TypeOK
<1>7. TypeOK'
  BY <1>1, <1>2, <1>5, <1>6 DEF IInv, TypeOK
<1> QED
  BY <1>1, <1>5, <1>7, AccountsKept DEF IInv

LEMMA MoveKeeps ==
  ASSUME IInv, NEW ref \in Refs, NEW x \in Things \cup {None}, Move(ref, x)
  PROVE  IInv'
<1>1. /\ place' = [place EXCEPT ![ref] = x] /\ (ref \in Children => x = None)
      /\ changes < MaxChanges /\ changes' = changes + 1
      /\ UNCHANGED <<acct, issued, right, req, now, sends>>
  BY DEF Move
<1>2. changes' \in 0 .. MaxChanges
  BY <1>1, ConstantsAssumption DEF IInv, TypeOK
<1>3. TypeOK'
  BY <1>1, <1>2 DEF IInv, TypeOK
<1>4. ASSUME NEW s \in Requests, req'[s] # Idle
      PROVE  Sound(req'[s], Entitled(req[s], acct, right)', place', now')
  <2>1. req'[s] = req[s] /\ Entitled(req[s], acct, right)' = Entitled(req[s], acct, right) /\ now' = now
    BY <1>1, StillEntitled
  <2>2. req[s] \in Active /\ Sound(req[s], Entitled(req[s], acct, right), place, now)
    BY <1>4, <2>1 DEF IInv, TypeOK, RequestsSound
  <2>3. Asks(req[s], place') \subseteq Asks(req[s], place)
    <3>1. CASE req[s].op.by = "child"
      <4>1. req[s].op.ref \in Children
        BY <2>2, <3>1, OperationsAssumption DEF Active
      <4>2. place'[req[s].op.ref] \in {None, place[req[s].op.ref]}
        BY <1>1, <4>1 DEF IInv, TypeOK, Refs
      <4> QED
        BY <3>1, <4>2 DEF Asks, Denoted
    <3>2. CASE req[s].op.by # "child"
      BY <3>2 DEF Asks
    <3> QED
      BY <3>1, <3>2
  <2>4. Covered(req[s], place')
    BY <2>2, <2>3 DEF Sound, Covered
  <2> QED
    BY <2>1, <2>2, <2>4 DEF Sound
<1>5. RequestsSound'
  BY <1>4 DEF RequestsSound
<1> QED
  BY <1>1, <1>3, <1>5, AccountsKept DEF IInv

(* Credentials run out: time entitles nobody.                              *)
LEMMA TickKeeps ==
  ASSUME IInv, Tick
  PROVE  IInv'
<1>1. now < MaxTime /\ now' = now + 1 /\ now \in 0 .. MaxTime
      /\ UNCHANGED <<acct, issued, right, place, req, budget>>
  BY DEF Tick, IInv, TypeOK
<1>2. now' \in 0 .. MaxTime
  BY <1>1, ConstantsAssumption
<1>3. \A u \in Users : acct[u] # None /\ acct[u].expires # None => acct[u].expires <= now' + MaxTerm
  <2> SUFFICES ASSUME NEW u \in Users, acct[u] # None, acct[u].expires # None
               PROVE  acct[u].expires <= now' + MaxTerm
    OBVIOUS
  <2>1. acct[u] \in Accounts /\ acct[u].expires <= now + MaxTerm
    BY DEF IInv, TypeOK
  <2>2. acct[u].expires \in Nat
    BY <2>1, ConstantsAssumption DEF Accounts, Times
  <2> QED
    BY <1>1, <2>1, <2>2, ConstantsAssumption
<1>4. TypeOK'
  BY <1>1, <1>2, <1>3 DEF IInv, TypeOK, budget
<1>5. ASSUME NEW s \in Requests, req'[s] # Idle
      PROVE  Sound(req'[s], Entitled(req[s], acct, right)', place', now')
  <2>1. req[s] \in Active /\ Sound(req[s], Entitled(req[s], acct, right), place, now)
    BY <1>1, <1>5 DEF IInv, TypeOK, RequestsSound
  <2>2. \A k : Current(acct, req[s].user, k)' => Current(acct, req[s].user, k)
    <3> SUFFICES ASSUME NEW k, Current(acct, req[s].user, k)'
                 PROVE  Current(acct, req[s].user, k)
      BY <1>1
    <3>1. acct[req[s].user] # None => acct[req[s].user] \in Accounts
      BY <2>1 DEF IInv, TypeOK, Active
    <3> QED
      BY <1>1, <3>1, ConstantsAssumption DEF Current, Accounts, Times
  <2>3. Entitled(req[s], acct, right)' \subseteq Entitled(req[s], acct, right)
    BY <1>1, <2>2 DEF Entitled, IsAdmin
  <2>4. Trusted(req[s], Entitled(req[s], acct, right)')
    BY <2>1, <2>3 DEF Sound, Trusted
  <2>5. Bounded(req[s], now')
    <3> SUFFICES ASSUME req[s].op.until # None, Bounded(req[s], now)
                 PROVE  Bounded(req[s], now')
      BY <2>1 DEF Bounded, Sound
    <3>1. req[s].op.until \in Nat
      BY <2>1, OperationsAssumption, ConstantsAssumption DEF Active, Asked, Times
    <3> QED
      BY <1>1, <3>1, ConstantsAssumption DEF Bounded
  <2> QED
    BY <1>1, <2>1, <2>4, <2>5 DEF Sound
<1>6. RequestsSound'
  BY <1>5 DEF RequestsSound
<1> QED
  BY <1>1, <1>4, <1>6, AccountsKept DEF IInv

LEMMA SendKeeps ==
  ASSUME IInv, NEW r \in Requests, NEW u \in Users, NEW via \in 0 .. Len(issued),
         NEW op \in Operations, Send(r, u, via, op)
  PROVE  IInv'
<1> DEFINE rec == [pc |-> "sent", user |-> u, via |-> via, op |-> op, admin |-> FALSE,
                   left |-> {}, ok |-> {}, did |-> {}, had |-> {}]
           had == Entitled(rec, acct, right)
           q == [rec EXCEPT !.had = had]
<1>1. /\ req' = [req EXCEPT ![r] = q] /\ sends < MaxSends /\ sends' = sends + 1
      /\ UNCHANGED <<acct, issued, right, place, now, changes>>
  BY DEF Send
<1>2. via \in 0 .. MaxTokens
  BY ConstantsAssumption DEF IInv, TypeOK
<1>3. had \in SUBSET Entitlements
  BY DEF Entitled, Entitlements
<1>4. /\ q \in Active /\ q.pc = "sent" /\ q.had = had /\ ~q.admin /\ q.ok = {}
      /\ q.user = rec.user /\ q.via = rec.via /\ q.op = rec.op
  <2> HIDE DEF had
  <2> QED
    BY <1>2, <1>3 DEF Active, Phases
<1>5. Entitled(q, acct, right) = had
  BY <1>4, SameEntitled
<1> HIDE DEF q, had, rec
<1>6. Sound(q, had, place, now)
  BY <1>4 DEF Sound, Guarded, Trusted, Covered, Bounded, Answered
<1>7. sends' \in 0 .. MaxSends
  BY <1>1, ConstantsAssumption DEF IInv, TypeOK
<1>8. TypeOK'
  BY <1>1, <1>4, <1>7 DEF IInv, TypeOK
<1>9. ASSUME NEW s \in Requests, req'[s] # Idle
      PROVE  Sound(req'[s], Entitled(req[s], acct, right)', place', now')
  <2>1. req'[s] = IF s = r THEN q ELSE req[s]
    BY <1>1 DEF IInv, TypeOK
  <2>2. Entitled(req[s], acct, right)' = Entitled(req'[s], acct, right)
    BY <1>1, StillEntitled
  <2> QED
    BY <1>1, <1>5, <1>6, <1>9, <2>1, <2>2 DEF IInv, RequestsSound
<1>10. RequestsSound'
  BY <1>9 DEF RequestsSound
<1> QED
  BY <1>1, <1>8, <1>10, AccountsKept DEF IInv

-----------------------------------------------------------------------------
LEMMA InitIInv == Init => IInv
<1> SUFFICES ASSUME Init PROVE IInv
  OBVIOUS
<1>1. /\ now \in 0 .. MaxTime /\ sends \in 0 .. MaxSends /\ changes \in 0 .. MaxChanges
      /\ issued \in Seq(Tokens) /\ Len(issued) = 0
  BY ConstantsAssumption DEF Init, Tokens
<1>2. acct \in [Users -> Accounts \cup {None}]
      /\ \A u \in Users : acct[u].token = 0 /\ acct[u].expires = None
  BY ConstantsAssumption DEF Init, Accounts
<1>3. TypeOK
  BY <1>1, <1>2, ConstantsAssumption DEF Init, TypeOK, Tokens
<1>4. RequestsSound /\ UntoldLasts /\ TokensKeepTheirTerm
  BY <1>2 DEF Init, RequestsSound, UntoldLasts, TokensKeepTheirTerm
<1> QED
  BY <1>3, <1>4 DEF IInv

LEMMA AnswerKeeps ==
  ASSUME IInv, NEW r \in Requests, Answer(r)
  PROVE  IInv'
<1>1. CASE Authenticate(r) \/ ReadAdmin(r)
  BY <1>1, AuthenticateKeeps, ReadAdminKeeps
<1>2. CASE LookUpThings(r) \/ LookUpChild(r) \/ LookUpName(r)
  BY <1>2, LookUpThingsKeeps, LookUpChildKeeps, LookUpNameKeeps
<1>3. CASE LookUpPath(r) \/ LetPass(r)
  BY <1>3, PassKeeps
<1>4. CASE DenyNonAdmin(r) \/ Finish(r)
  BY <1>4, RefuseKeeps DEF DenyNonAdmin, Finish
<1>5. CASE (\E x \in Things : Check(r, x)) \/ Checked(r) \/ Act(r)
  BY <1>5, CheckKeeps, CheckedKeeps, ActKeeps
<1>6. CASE DependOnManaged(r) \/ DependOnAdmin(r) \/ Look(r) \/ WriteNoAccount(r)
  BY <1>6, DependOnManagedKeeps, DependOnAdminKeeps, LookKeeps
<1>7. CASE Rotate(r) \/ SetFlags(r) \/ DeleteAccount(r) \/ Make(r)
  BY <1>7, RotateKeeps, SetFlagsKeeps, DeleteAccountKeeps, MakeKeeps
<1> QED
  BY <1>1, <1>2, <1>3, <1>4, <1>5, <1>6, <1>7 DEF Answer

LEMMA NextIInv == IInv /\ [Next]_vars => IInv'
<1> SUFFICES ASSUME IInv, [Next]_vars PROVE IInv'
  OBVIOUS
<1>1. CASE \E r \in Requests : Answer(r)
  BY <1>1, AnswerKeeps
<1>2. CASE \E r \in Requests, u \in Users, via \in 0 .. Len(issued), op \in Operations :
             Send(r, u, via, op)
  BY <1>2, SendKeeps
<1>3. CASE \E u \in Users, x \in Things, level \in Grants : ChangeRight(u, x, level)
  BY <1>3, ChangeRightKeeps
<1>4. CASE \E ref \in Refs, x \in Things \cup {None} : Move(ref, x)
  BY <1>4, MoveKeeps
<1>5. CASE Tick
  BY <1>5, TickKeeps
<1>6. CASE UNCHANGED vars
  <2>1. TypeOK'
    BY <1>6 DEF vars, budget, IInv, TypeOK
  <2>2. ASSUME NEW s \in Requests, req'[s] # Idle
        PROVE  Sound(req'[s], Entitled(req[s], acct, right)', place', now')
    BY <1>6, <2>2, StillEntitled DEF vars, budget, IInv, RequestsSound
  <2>3. RequestsSound'
    BY <2>2 DEF RequestsSound
  <2> QED
    BY <1>6, <2>1, <2>3, AccountsKept DEF vars, IInv
<1> QED
  BY <1>1, <1>2, <1>3, <1>4, <1>5, <1>6 DEF Next

LEMMA Invariance == Spec => []IInv
BY InitIInv, NextIInv, PTL DEF Spec

LEMMA SoundAnswers == IInv => ActsWithinRights
<1> SUFFICES ASSUME IInv, NEW r \in Requests, req[r].pc = "done"
             PROVE  \/ req[r].did \subseteq req[r].had
                    \/ req[r].op.by = "name" /\ req[r].did \ {Self} # req[r].ok
  BY DEF ActsWithinRights
<1> QED
  BY Busy DEF Sound, Answered

-----------------------------------------------------------------------------
(* Every reachable state of accounts, rights and requests is well typed:   *)
(* in particular no account's term is longer than MaxTerm from now, however*)
(* rotations overlap (SqlUser, create_access_token).                       *)
THEOREM TypeCorrect == Spec => []TypeOK
<1>1. IInv => TypeOK
  BY DEF IInv
<1> QED
  BY <1>1, Invariance, PTL

(* For any number of overlapping requests, what a request has touched its  *)
(* sender was entitled to at some moment since it was sent, or it asked by *)
(* a name that denotes something else by now (before_request_hook, the     *)
(* validators and the routers' dependencies).                              *)
THEOREM RequestsStayWithinRights == Spec => []ActsWithinRights
<1>1. IInv => ActsWithinRights
  BY SoundAnswers
<1> QED
  BY <1>1, Invariance, PTL

(* For any number of overlapping rotations, deletions and re-creations a   *)
(* token keeps the term it was asked for with, or one inherited from an    *)
(* earlier token of its user (UserRepository.update).                      *)
THEOREM TermsAreKept == Spec => []TokensKeepTheirTerm
<1>1. IInv => TokensKeepTheirTerm
  BY DEF IInv
<1> QED
  BY <1>1, Invariance, PTL
=============================================================================
