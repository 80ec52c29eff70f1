------------------------ MODULE PermissionCache_proofs ------------------------
(***************************************************************************)
(* Proofs about PermissionCache, for every set of users, resources,        *)
(* replicas and threads, every source order and every number of writes.    *)
(***************************************************************************)
EXTENDS PermissionCache, TLAPS

(* A request past its cache miss or hit carries a complete record.         *)
LEMMA BusyRequest ==
  ASSUME TypeOK, NEW q \in Requests, req[q].pc # "idle"
  PROVE  req[q] \in Resolving
BY DEF TypeOK, Idle

(* A writer that is clearing knows its replica and what is left to clear.  *)
LEMMA ClearingWriter ==
  ASSUME TypeOK, NEW x \in Writers, wr[x].pc = "clearing"
  PROVE  wr[x] \in Clearing
BY DEF TypeOK, Idle, Wiping

LEMMA WipingWriter ==
  ASSUME TypeOK, NEW x \in Writers, wr[x].pc = "wiping"
  PROVE  wr[x] \in Wiping
BY DEF TypeOK, Idle, Clearing

(* The state variables keep their types (resolve_permission and the store  *)
(* methods that write permissions).                                        *)
LEMMA TypeInit == Init => TypeOK
<1> SUFFICES ASSUME Init PROVE TypeOK
  OBVIOUS
<1> USE ConstantsAssumption
<1>1. /\ db \in [Users \X Resources -> [Sources -> Answer]]
      /\ wsAnswer \in [Users \X Workspaces -> Answer]
      /\ cache \in [Replicas -> [Key -> Result \cup {Miss}]]
  BY DEF Init, Answer
<1>2. req \in [Requests -> {Idle} \cup Resolving] /\ wr \in [Writers -> {Idle} \cup Clearing \cup Wiping]
  BY DEF Init
<1>3. \A q \in Requests : req[q].pc = "workspace" => req[q].workspace \in Workspaces
  BY DEF Init, Idle
<1>4. QED BY <1>1, <1>2, <1>3 DEF Init, TypeOK

LEMMA MovedType ==
  ASSUME NEW s \in Resolving, NEW phase \in {"done"} \cup InFlight,
         NEW i \in 1 .. Len(SourceOrder) + 1, NEW res \in Result
  PROVE  Moved(s, phase, i, res) \in Resolving
BY DEF Moved, Resolving

LEMMA KeyType ==
  ASSUME NEW s \in Resolving PROVE CacheKey(s.user, s.resource) \in Key
BY ConstantsAssumption DEF CacheKey, Key, Resolving

LEMMA FallbackType == Fallback \in Result /\ Deny \in Result
BY ConstantsAssumption DEF Fallback, Deny, Result, Kinds

(* A request step that leaves q idle or at a complete record, and the      *)
(* workspace phase only to requests that name one, keeps the types of req. *)
LEMMA RequestStep ==
  ASSUME TypeOK, NEW q \in Requests, NEW s \in {Idle} \cup Resolving,
         s.pc = "workspace" => s.workspace \in Workspaces,
         req' = [req EXCEPT ![q] = s]
  PROVE  /\ req' \in [Requests -> {Idle} \cup Resolving]
         /\ \A r \in Requests : req'[r].pc = "workspace" => req'[r].workspace \in Workspaces
BY DEF TypeOK

LEMMA KeysType ==
  ASSUME NEW K \in SUBSET (Users \X Resources) PROVE KeysOf(K) \subseteq Key
BY ConstantsAssumption DEF KeysOf, CacheKey, Key

(* A write that no clear serves keeps the types of what it touches itself. *)
LEMMA NothingClearedType ==
  ASSUME TypeOK, NEW K \in SUBSET (Users \X Resources), NothingCleared(K)
  PROVE  /\ overtaken' \subseteq Requests
         /\ unreached' \subseteq Replicas \X Key
         /\ UNCHANGED <<cache, req>>
<1>1. overtaken' \subseteq Requests
  BY DEF NothingCleared, TypeOK, LookingUp
<1>2. unreached' \subseteq Replicas \X Key
  BY KeysType DEF NothingCleared, TypeOK
<1>3. QED BY <1>1, <1>2 DEF NothingCleared

LEMMA UncoveredType ==
  ASSUME TypeOK, NEW K \in SUBSET (Users \X Resources), Uncovered(K)
  PROVE  /\ uncovered' \in 0 .. MaxUncovered
         /\ overtaken' \subseteq Requests
         /\ unreached' \subseteq Replicas \X Key
         /\ UNCHANGED <<cache, req>>
<1>1. uncovered' \in 0 .. MaxUncovered
  BY ConstantsAssumption DEF Uncovered, TypeOK
<1>2. QED BY <1>1, NothingClearedType DEF Uncovered

LEMMA WithoutRowsType ==
  ASSUME TypeOK, NEW r \in Resources, NEW s
  PROVE  WithoutRows(r, s) \in [Users \X Resources -> [Sources -> Answer]]
BY DEF WithoutRows, TypeOK, Answer

LEMMA TypeNext == TypeOK /\ [Next]_vars => TypeOK'
<1> SUFFICES ASSUME TypeOK, [Next]_vars PROVE TypeOK'
  OBVIOUS
<1> USE ConstantsAssumption
<1>1. ASSUME NEW q \in Requests, NEW p \in Replicas, NEW u \in Users,
             NEW r \in Resources, NEW w \in RequestWorkspace, Begin(q, p, u, r, w)
      PROVE  TypeOK'
  <2> DEFINE hit == cache[p][CacheKey(u, r)]
             s == [pc |-> IF hit = Miss THEN "sources" ELSE "done", replica |-> p,
                   user |-> u, resource |-> r, workspace |-> w, pos |-> 1,
                   result |-> IF hit = Miss THEN Fallback ELSE hit]
  <2>1. CacheKey(u, r) \in Key
    BY DEF CacheKey, Key
  <2>2. (IF hit = Miss THEN Fallback ELSE hit) \in Result
    BY <2>1, FallbackType DEF TypeOK
  <2>3. s \in Resolving
    BY <2>2 DEF Resolving, InFlight
  <2>4. req' = [req EXCEPT ![q] = s] /\ s.pc # "workspace"
    BY <1>1 DEF Begin
  <2> HIDE DEF s
  <2>5. QED BY <1>1, <2>3, <2>4, RequestStep DEF Begin, TypeOK, dbVars, history
<1>2. ASSUME NEW q \in Requests, SourceAnswers(q) PROVE TypeOK'
  <2> DEFINE i == req[q].pos
             res == [permission |-> db[<<req[q].user, req[q].resource>>][SourceOrder[i]],
                     kind |-> SourceOrder[i]]
             s == Moved(req[q], "store", i, res)
  <2>1. req[q] \in Resolving /\ SourceOrder[i] \in Sources
    BY <1>2, BusyRequest DEF SourceAnswers
  <2> DEFINE row == db[<<req[q].user, req[q].resource>>]
  <2>a. row \in [Sources -> Answer]
    BY <2>1 DEF TypeOK, Resolving
  <2>b. row[SourceOrder[i]] # NoRow
    BY <1>2 DEF SourceAnswers
  <2>c. row[SourceOrder[i]] \in Permissions
    BY <2>1, <2>a, <2>b DEF Answer
  <2>2. res \in Result
    BY <2>1, <2>c DEF Result, Kinds
  <2>3. s \in Resolving
    BY <2>1, <2>2, MovedType DEF InFlight, Resolving
  <2>4. req' = [req EXCEPT ![q] = s] /\ s.pc # "workspace"
    BY <1>2 DEF SourceAnswers, Moved, TypeOK
  <2> HIDE DEF s
  <2>5. QED BY <1>2, <2>3, <2>4, RequestStep DEF SourceAnswers, TypeOK, dbVars, history
<1>3. ASSUME NEW q \in Requests, SourceHasNoRow(q) PROVE TypeOK'
  <2> DEFINE s == Moved(req[q], "sources", req[q].pos + 1, req[q].result)
  <2>1. req[q] \in Resolving
    BY <1>3, BusyRequest DEF SourceHasNoRow
  <2>2. req[q].pos + 1 \in 1 .. Len(SourceOrder) + 1 /\ req[q].result \in Result
    BY <1>3, <2>1 DEF SourceHasNoRow, Resolving
  <2>3. s \in Resolving
    BY <2>1, <2>2, MovedType DEF InFlight
  <2>4. req' = [req EXCEPT ![q] = s] /\ s.pc # "workspace"
    BY <1>3 DEF SourceHasNoRow, Moved
  <2> HIDE DEF s
  <2>5. QED BY <1>3, <2>3, <2>4, RequestStep DEF SourceHasNoRow, TypeOK, dbVars, history
<1>4. ASSUME NEW q \in Requests, SourcesExhausted(q) PROVE TypeOK'
  <2> DEFINE phase == IF req[q].workspace = NoWorkspace THEN "store" ELSE "workspace"
             s == Moved(req[q], phase, req[q].pos, Fallback)
  <2>1. req[q] \in Resolving
    BY <1>4, BusyRequest DEF SourcesExhausted
  <2>2. s \in Resolving
    BY <2>1, MovedType, FallbackType DEF InFlight, Resolving
  <2>3. s.pc = "workspace" => s.workspace \in Workspaces
    BY <2>1 DEF Moved, Resolving, RequestWorkspace
  <2>4. req' = [req EXCEPT ![q] = s]
    BY <1>4 DEF SourcesExhausted
  <2> HIDE DEF s
  <2>5. QED BY <1>4, <2>2, <2>3, <2>4, RequestStep DEF SourcesExhausted, TypeOK, dbVars, history
<1>5. ASSUME NEW q \in Requests, ReadWorkspace(q) PROVE TypeOK'
  <2>1. req[q] \in Resolving /\ req[q].workspace \in Workspaces
    BY <1>5, BusyRequest DEF ReadWorkspace, TypeOK
  <2> DEFINE a == wsAnswer[<<req[q].user, req[q].workspace>>]
  <2>2. a \in Answer
    BY <2>1 DEF TypeOK, Resolving
  <2>3. PICK res \in WorkspaceResults(a) :
          req' = [req EXCEPT ![q] = Moved(@, "store", @.pos, res)]
    BY <1>5 DEF ReadWorkspace
  <2>4. res \in Result
    BY <2>2, <2>3, FallbackType DEF WorkspaceResults, Answer, Result, Kinds
  <2> DEFINE s == Moved(req[q], "store", req[q].pos, res)
  <2>5. s \in Resolving
    BY <2>1, <2>4, MovedType DEF InFlight, Resolving
  <2>6. req' = [req EXCEPT ![q] = s] /\ s.pc # "workspace"
    BY <2>3 DEF Moved
  <2> HIDE DEF s
  <2>7. QED BY <1>5, <2>5, <2>6, RequestStep DEF ReadWorkspace, TypeOK, dbVars, history
<1>6. ASSUME NEW q \in Requests, LookupFails(q) PROVE TypeOK'
  <2>1. Idle.pc # "workspace"
    BY DEF Idle
  <2>2. QED BY <1>6, <2>1, RequestStep DEF LookupFails, TypeOK, dbVars
<1>7. ASSUME NEW q \in Requests, Store(q) PROVE TypeOK'
  <2> DEFINE s == Moved(req[q], "done", req[q].pos, req[q].result)
             p == req[q].replica
  <2>1. req[q] \in Resolving
    BY <1>7, BusyRequest DEF Store
  <2>2. s \in Resolving
    BY <2>1, MovedType DEF Resolving
  <2>3. req' = [req EXCEPT ![q] = s] /\ s.pc # "workspace"
    BY <1>7 DEF Store, Moved
  <2>4. KeyOf(q) \in Key /\ p \in Replicas /\ req[q].result \in Result
    BY <2>1, KeyType DEF KeyOf, Resolving
  <2>5. cache' \in [Replicas -> [Key -> Result \cup {Miss}]]
    BY <1>7, <2>4 DEF Store, TypeOK
  <2>6. unreached' \subseteq Replicas \X Key
    BY <1>7, <2>4 DEF Store, TypeOK
  <2> HIDE DEF s
  <2>7. QED BY <1>7, <2>2, <2>3, <2>5, <2>6, RequestStep DEF Store, TypeOK, dbVars
<1>8. ASSUME NEW q \in Requests, Finish(q) PROVE TypeOK'
  <2>1. Idle.pc # "workspace"
    BY DEF Idle
  <2>2. QED BY <1>8, <2>1, RequestStep DEF Finish, TypeOK, dbVars, history
<1>9. ASSUME NEW x \in Writers, NEW p \in Replicas, NEW s \in Sources,
             NEW K \in SUBSET (Users \X Resources), NEW f \in [K -> Answer],
             CommitCovered(x, p, s, K, f)
      PROVE  TypeOK'
  <2>1. db' \in [Users \X Resources -> [Sources -> Answer]]
    BY <1>9 DEF CommitCovered, TypeOK
  <2>2. FlushAfter(p) \in Clearing
    BY DEF FlushAfter, FlushLeft, Clearing
  <2>3. wr' \in [Writers -> {Idle} \cup Clearing \cup Wiping]
    BY <1>9, <2>2 DEF CommitCovered, TypeOK
  <2>4. KeysOf(K) \subseteq Key
    BY KeysType
  <2>5. unreached' \subseteq Replicas \X Key /\ overtaken' \subseteq Requests
    BY <1>9, <2>4 DEF CommitCovered, TypeOK, LookingUp
  <2>6. covered' \in 0 .. MaxCovered
    BY <1>9 DEF CommitCovered, TypeOK
  <2>7. QED BY <1>9, <2>1, <2>3, <2>5, <2>6 DEF CommitCovered, TypeOK
<1>10. ASSUME NEW x \in Writers, NEW B \in SUBSET Key, ClearBatch(x, B) PROVE TypeOK'
  <2> DEFINE p == wr[x].replica
             rest == wr[x].todo \ B
  <2>1. p \in Replicas /\ wr[x].todo \in SUBSET Key
    BY <1>10, ClearingWriter DEF ClearBatch, Clearing
  <2>2. cache' \in [Replicas -> [Key -> Result \cup {Miss}]]
    BY <1>10, <2>1 DEF ClearBatch, TypeOK
  <2>3. (IF rest = {} THEN Idle ELSE FlushLeft(p, rest)) \in {Idle} \cup Clearing
    BY <2>1 DEF FlushLeft, Clearing
  <2>4. wr' \in [Writers -> {Idle} \cup Clearing \cup Wiping]
    BY <1>10, <2>3 DEF ClearBatch, TypeOK
  <2>5. unreached' \subseteq Replicas \X Key
    BY <1>10 DEF ClearBatch, TypeOK
  <2>6. QED BY <1>10, <2>2, <2>4, <2>5 DEF ClearBatch, TypeOK, dbVars
<1>11. ASSUME NEW x \in Writers, NEW r \in Resources, WipeUserRows(x, r) PROVE TypeOK'
  <2>1. Users \X {r} \in SUBSET (Users \X Resources)
    OBVIOUS
  <2>2. db' \in [Users \X Resources -> [Sources -> Answer]]
    BY <1>11, WithoutRowsType DEF WipeUserRows
  <2>3. [pc |-> "wiping", resource |-> r] \in Wiping
    BY DEF Wiping
  <2>4. wr' \in [Writers -> {Idle} \cup Clearing \cup Wiping]
    BY <1>11, <2>3 DEF WipeUserRows, TypeOK
  <2>5. QED BY <1>11, <2>1, <2>2, <2>4, UncoveredType DEF WipeUserRows, TypeOK
<1>12. ASSUME NEW x \in Writers, WipeGroupRows(x) PROVE TypeOK'
  <2>1. wr[x].resource \in Resources
    BY <1>12, WipingWriter DEF WipeGroupRows, Wiping
  <2>2. Users \X {wr[x].resource} \in SUBSET (Users \X Resources)
    BY <2>1
  <2>3. db' \in [Users \X Resources -> [Sources -> Answer]]
    BY <1>12, <2>1, WithoutRowsType DEF WipeGroupRows
  <2>4. wr' \in [Writers -> {Idle} \cup Clearing \cup Wiping]
    BY <1>12 DEF WipeGroupRows, TypeOK
  <2>5. QED BY <1>12, <2>2, <2>3, <2>4, NothingClearedType DEF WipeGroupRows, TypeOK
<1>13. ASSUME NEW u \in Users, DeleteUser(u) PROVE TypeOK'
  <2>1. {u} \X Resources \in SUBSET (Users \X Resources)
    OBVIOUS
  <2>2. db' \in [Users \X Resources -> [Sources -> Answer]]
    BY <1>13 DEF DeleteUser, TypeOK, Answer
  <2>3. wsAnswer' \in [Users \X Workspaces -> Answer]
    BY <1>13 DEF DeleteUser, TypeOK, Answer
  <2>4. QED BY <1>13, <2>1, <2>2, <2>3, UncoveredType DEF DeleteUser, TypeOK
<1>14. ASSUME NEW u \in Users, NEW v \in Users, RenameUser(u, v) PROVE TypeOK'
  <2>1. {u, v} \X Resources \in SUBSET (Users \X Resources)
    OBVIOUS
  <2>2. db' \in [Users \X Resources -> [Sources -> Answer]]
    BY <1>14 DEF RenameUser, TypeOK
  <2>3. QED BY <1>14, <2>1, <2>2, UncoveredType DEF RenameUser, TypeOK
<1>15. ASSUME NEW u \in Users, NEW w \in Workspaces, NEW a \in Answer,
              SetWorkspaceAnswer(u, w, a)
       PROVE  TypeOK'
  <2>1. {u} \X Resources \in SUBSET (Users \X Resources)
    OBVIOUS
  <2>2. wsAnswer' \in [Users \X Workspaces -> Answer]
    BY <1>15 DEF SetWorkspaceAnswer, TypeOK
  <2>3. QED BY <1>15, <2>1, <2>2, UncoveredType DEF SetWorkspaceAnswer, TypeOK
<1>16. ASSUME NEW p \in Replicas, NEW k \in Key, Expire(p, k) PROVE TypeOK'
  BY <1>16 DEF Expire, TypeOK, dbVars
<1>17. CASE UNCHANGED vars
  BY <1>17 DEF vars, TypeOK
<1>18. QED
  BY <1>1, <1>2, <1>3, <1>4, <1>5, <1>6, <1>7, <1>8, <1>9, <1>10, <1>11, <1>12, <1>13,
     <1>14, <1>15, <1>16, <1>17 DEF Next, Lookup

(* The variables always have their types.                                  *)
THEOREM TypeCorrect == Spec => []TypeOK
BY TypeInit, TypeNext, PTL DEF Spec

-----------------------------------------------------------------------------
(* Coherence.  The invariant needs what lookups in flight have read so far *)
(* (WalkHolds): Store turns that into the coherence of the entry it writes.*)

IInv == TypeOK /\ WalkHolds /\ Coherent

(* Resolution depends on the user's and resource's row and on the user's   *)
(* workspace answers, and on nothing else.                                 *)
LEMMA ResolvesDependsOn ==
  ASSUME NEW u, NEW r, NEW w, NEW res,
         db'[<<u, r>>] = db[<<u, r>>],
         w # NoWorkspace => wsAnswer'[<<u, w>>] = wsAnswer[<<u, w>>]
  PROVE  Resolves(u, r, w, res)' <=> Resolves(u, r, w, res)
BY DEF Resolves, WorkspaceAnswer

(* An entry stays current when the rows of its user for every resource     *)
(* behind its key, and the user's workspace answers, stay what they were.  *)
LEMMA EntryStaysCurrent ==
  ASSUME NEW k \in Key, NEW e, EntryCurrent(k, e),
         \A r \in Resources : SlotOf[r] = k[2] => db'[<<k[1], r>>] = db[<<k[1], r>>],
         \A w \in Workspaces : wsAnswer'[<<k[1], w>>] = wsAnswer[<<k[1], w>>]
  PROVE  EntryCurrent(k, e)'
<1>1. PICK r \in Resources, w \in RequestWorkspace :
         SlotOf[r] = k[2] /\ Resolves(k[1], r, w, e)
  BY DEF EntryCurrent
<1>2. Resolves(k[1], r, w, e)'
  BY <1>1, ResolvesDependsOn DEF RequestWorkspace
<1>3. QED BY <1>1, <1>2 DEF EntryCurrent

(* A write that changes only rows and workspace answers of K, and records  *)
(* the lookups it overtook, keeps what the other lookups have read.        *)
LEMMA WriteKeepsWalks ==
  ASSUME TypeOK, WalkHolds, NEW K \in SUBSET (Users \X Resources),
         req' = req, overtaken' = overtaken \cup LookingUp(K),
         \A ur \in (Users \X Resources) \ K :
           /\ db'[ur] = db[ur]
           /\ \A w \in Workspaces : wsAnswer'[<<ur[1], w>>] = wsAnswer[<<ur[1], w>>]
  PROVE  WalkHolds'
<1> SUFFICES ASSUME NEW q \in Requests, q \notin overtaken', req[q].pc \in InFlight
             PROVE  LET row == db'[<<req[q].user, req[q].resource>>] IN
               /\ req[q].pc = "sources" => NothingBefore(row, req[q].pos)
               /\ req[q].pc = "workspace" => NothingBefore(row, Len(SourceOrder) + 1)
               /\ req[q].pc = "store" =>
                    Resolves(req[q].user, req[q].resource, req[q].workspace, req[q].result)'
  BY DEF WalkHolds, InFlight, NothingBefore
<1> DEFINE u == req[q].user
           r == req[q].resource
<1>1. req[q] \in Resolving
  BY BusyRequest DEF InFlight
<1>2. u \in Users /\ r \in Resources /\ req[q].workspace \in RequestWorkspace
  BY <1>1 DEF Resolving
<1>3. <<u, r>> \in (Users \X Resources) \ K
  BY <1>2 DEF LookingUp
<1>4. db'[<<u, r>>] = db[<<u, r>>]
  BY <1>3
<1>5. \A w \in Workspaces : wsAnswer'[<<u, w>>] = wsAnswer[<<u, w>>]
  BY <1>3
<1>6. Resolves(u, r, req[q].workspace, req[q].result)'
        <=> Resolves(u, r, req[q].workspace, req[q].result)
  BY <1>2, <1>4, <1>5, ResolvesDependsOn DEF RequestWorkspace
<1>7. QED BY <1>4, <1>6 DEF WalkHolds

(* What a write leaves of coherence: entries of keys outside K stay        *)
(* current; those of K are either about to be cleared or recorded.         *)
LEMMA WriteKeepsCoherence ==
  ASSUME TypeOK, Coherent, NEW K \in SUBSET (Users \X Resources),
         cache' = cache, unreached \subseteq unreached',
         \A p \in Replicas, k \in Key : ClearDue(p, k) => ClearDue(p, k)',
         \A p \in Replicas, k \in KeysOf(K) : <<p, k>> \in unreached' \/ ClearDue(p, k)',
         \A ur \in (Users \X Resources) \ K :
           /\ db'[ur] = db[ur]
           /\ \A w \in Workspaces : wsAnswer'[<<ur[1], w>>] = wsAnswer[<<ur[1], w>>]
  PROVE  Coherent'
<1> SUFFICES ASSUME NEW p \in Replicas, NEW k \in Key, cache[p][k] # Miss,
                    <<p, k>> \notin unreached', ~ClearDue(p, k)'
             PROVE  EntryCurrent(k, cache[p][k])'
  BY DEF Coherent
<1>1. EntryCurrent(k, cache[p][k])
  BY DEF Coherent
<1>2. k \notin KeysOf(K) /\ k[1] \in Users /\ k = <<k[1], k[2]>>
  BY DEF Key
<1>3. ASSUME NEW r \in Resources, SlotOf[r] = k[2]
      PROVE  <<k[1], r>> \in (Users \X Resources) \ K
  BY <1>2, <1>3 DEF KeysOf, CacheKey
<1>4. \A r \in Resources : SlotOf[r] = k[2] => db'[<<k[1], r>>] = db[<<k[1], r>>]
  BY <1>3
<1>5. \A w \in Workspaces : wsAnswer'[<<k[1], w>>] = wsAnswer[<<k[1], w>>]
  BY <1>1, <1>3 DEF EntryCurrent
<1>6. EntryCurrent(k, cache[p][k])'
  BY <1>1, <1>4, <1>5, EntryStaysCurrent
<1>7. QED BY <1>6

(* A request step that touches neither the database nor the cache keeps    *)
(* coherence, and keeps the walks if the request that moves has read right.*)
LEMMA StepKeepsCoherence ==
  ASSUME Coherent, UNCHANGED <<db, wsAnswer, cache, wr, unreached>>
  PROVE  Coherent'
<1> SUFFICES ASSUME NEW p \in Replicas, NEW k \in Key, cache[p][k] # Miss,
                    <<p, k>> \notin unreached, ~ClearDue(p, k)'
             PROVE  EntryCurrent(k, cache[p][k])'
  BY DEF Coherent
<1>1. ~ClearDue(p, k)
  BY DEF ClearDue
<1>2. EntryCurrent(k, cache[p][k])
  BY <1>1 DEF Coherent
<1>3. QED BY <1>2 DEF EntryCurrent, Resolves, WorkspaceAnswer

(* What WalkHolds says of one request.                                     *)
WalkOf(q) ==
  LET row == db[<<req[q].user, req[q].resource>>] IN
  /\ req[q].pc = "sources" => NothingBefore(row, req[q].pos)
  /\ req[q].pc = "workspace" => NothingBefore(row, Len(SourceOrder) + 1)
  /\ req[q].pc = "store" =>
        Resolves(req[q].user, req[q].resource, req[q].workspace, req[q].result)

LEMMA StepKeepsWalks ==
  ASSUME TypeOK, WalkHolds, NEW q \in Requests, NEW s,
         req' = [req EXCEPT ![q] = s], UNCHANGED <<db, wsAnswer>>,
         overtaken \ {q} \subseteq overtaken',
         q \in overtaken' \/ WalkOf(q)'
  PROVE  WalkHolds'
<1> SUFFICES ASSUME NEW o \in Requests \ overtaken' PROVE WalkOf(o)'
  BY DEF WalkHolds, WalkOf
<1>1. CASE o = q
  BY <1>1
<1>2. CASE o # q
  <2>1. req'[o] = req[o]
    BY <1>2 DEF TypeOK
  <2>2. WalkOf(o)
    BY <1>2 DEF WalkHolds, WalkOf
  <2>3. QED BY <2>1, <2>2 DEF WalkOf, Resolves, WorkspaceAnswer
<1>3. QED BY <1>1, <1>2

(* A write that no clear serves keeps both invariants.                     *)
LEMMA NothingClearedKeeps ==
  ASSUME TypeOK, WalkHolds, Coherent, NEW K \in SUBSET (Users \X Resources), NothingCleared(K),
         \A p \in Replicas, k \in Key : ClearDue(p, k) => ClearDue(p, k)',
         \A ur \in (Users \X Resources) \ K :
           /\ db'[ur] = db[ur]
           /\ \A w \in Workspaces : wsAnswer'[<<ur[1], w>>] = wsAnswer[<<ur[1], w>>]
  PROVE  WalkHolds' /\ Coherent'
<1>1. cache' = cache /\ req' = req /\ overtaken' = overtaken \cup LookingUp(K)
  BY DEF NothingCleared
<1>2. unreached \subseteq unreached'
  BY DEF NothingCleared
<1>3. \A p \in Replicas, k \in KeysOf(K) : <<p, k>> \in unreached'
  BY DEF NothingCleared
<1>4. WalkHolds'
  BY <1>1, WriteKeepsWalks
<1>5. Coherent'
  BY <1>1, <1>2, <1>3, WriteKeepsCoherence
<1>6. QED BY <1>4, <1>5

LEMMA IInvInit == Init => IInv
BY TypeInit DEF Init, IInv, WalkHolds, Coherent, Idle

(* A walk goes on past a source without a row.                             *)
LEMMA OneMoreSource ==
  ASSUME NEW row, NEW n \in Nat, NothingBefore(row, n), row[SourceOrder[n]] = NoRow
  PROVE  NothingBefore(row, n + 1)
<1>1. \A j \in 1 .. (n + 1 - 1) : j = n \/ j \in 1 .. (n - 1)
  OBVIOUS
<1>2. QED BY <1>1 DEF NothingBefore

LEMMA IInvNext == IInv /\ [Next]_vars => IInv'
<1> SUFFICES ASSUME IInv, [Next]_vars PROVE WalkHolds' /\ Coherent'
  BY TypeNext DEF IInv
<1>0. TypeOK /\ WalkHolds /\ Coherent /\ TypeOK'
  BY TypeNext DEF IInv
<1> USE ConstantsAssumption
<1>1. ASSUME NEW q \in Requests, NEW p \in Replicas, NEW u \in Users,
             NEW r \in Resources, NEW w \in RequestWorkspace, Begin(q, p, u, r, w)
      PROVE  WalkHolds' /\ Coherent'
  <2> DEFINE hit == cache[p][CacheKey(u, r)]
             s == [pc |-> IF hit = Miss THEN "sources" ELSE "done", replica |-> p,
                   user |-> u, resource |-> r, workspace |-> w, pos |-> 1,
                   result |-> IF hit = Miss THEN Fallback ELSE hit]
  <2>1. req' = [req EXCEPT ![q] = s] /\ s.pc \in {"sources", "done"} /\ s.pos = 1
    BY <1>1 DEF Begin
  <2> HIDE DEF s
  <2>2. WalkOf(q)'
    BY <1>0, <2>1 DEF WalkOf, NothingBefore, TypeOK
  <2>3. QED
    BY <1>0, <1>1, <2>1, <2>2, StepKeepsWalks, StepKeepsCoherence DEF Begin, dbVars, history
<1>2. ASSUME NEW q \in Requests, SourceAnswers(q) PROVE WalkHolds' /\ Coherent'
  <2> DEFINE i == req[q].pos
             row == db[<<req[q].user, req[q].resource>>]
             res == [permission |-> row[SourceOrder[i]], kind |-> SourceOrder[i]]
             s == Moved(req[q], "store", i, res)
  <2>1. req' = [req EXCEPT ![q] = s]
    BY <1>2 DEF SourceAnswers
  <2>2. q \notin overtaken => NothingBefore(row, i)
    BY <1>0, <1>2 DEF WalkHolds, SourceAnswers
  <2>3. q \notin overtaken => Resolves(req[q].user, req[q].resource, req[q].workspace, res)
    BY <1>2, <2>2 DEF Resolves, WalkResult, SourceAnswers
  <2>4. q \notin overtaken => WalkOf(q)'
    <3>1. req'[q] = s
      BY <1>0, <2>1 DEF TypeOK
    <3>2. UNCHANGED <<db, wsAnswer>>
      BY <1>2 DEF SourceAnswers, dbVars
    <3>3. QED BY <2>3, <3>1, <3>2 DEF WalkOf, Moved, Resolves, WorkspaceAnswer
  <2>5. QED
    BY <1>0, <1>2, <2>1, <2>4, StepKeepsWalks, StepKeepsCoherence
       DEF SourceAnswers, dbVars, history
<1>3. ASSUME NEW q \in Requests, SourceHasNoRow(q) PROVE WalkHolds' /\ Coherent'
  <2> DEFINE i == req[q].pos
             row == db[<<req[q].user, req[q].resource>>]
             s == Moved(req[q], "sources", i + 1, req[q].result)
  <2>1. req' = [req EXCEPT ![q] = s]
    BY <1>3 DEF SourceHasNoRow
  <2>2. q \notin overtaken => NothingBefore(row, i + 1)
    <3>1. i \in Nat
      BY <1>3, BusyRequest DEF SourceHasNoRow, Resolving
    <3>2. row[SourceOrder[i]] = NoRow
      BY <1>3 DEF SourceHasNoRow
    <3>3. q \notin overtaken => NothingBefore(row, i)
      BY <1>0, <1>3 DEF WalkHolds, SourceHasNoRow
    <3> HIDE DEF i, row
    <3>4. QED BY <3>1, <3>2, <3>3, OneMoreSource
  <2>3. q \notin overtaken => WalkOf(q)'
    <3>1. req'[q] = s
      BY <1>0, <2>1 DEF TypeOK
    <3>2. db' = db
      BY <1>3 DEF SourceHasNoRow, dbVars
    <3>3. QED BY <2>2, <3>1, <3>2 DEF WalkOf, Moved
  <2>4. QED
    BY <1>0, <1>3, <2>1, <2>3, StepKeepsWalks, StepKeepsCoherence
       DEF SourceHasNoRow, dbVars, history
<1>4. ASSUME NEW q \in Requests, SourcesExhausted(q) PROVE WalkHolds' /\ Coherent'
  <2> DEFINE row == db[<<req[q].user, req[q].resource>>]
             phase == IF req[q].workspace = NoWorkspace THEN "store" ELSE "workspace"
             s == Moved(req[q], phase, req[q].pos, Fallback)
  <2>1. req' = [req EXCEPT ![q] = s]
    BY <1>4 DEF SourcesExhausted
  <2>2. q \notin overtaken => NothingBefore(row, Len(SourceOrder) + 1)
    BY <1>0, <1>4 DEF WalkHolds, SourcesExhausted, AllAsked
  <2>3. q \notin overtaken => WalkOf(q)'
    <3>1. req'[q] = s
      BY <1>0, <2>1 DEF TypeOK
    <3>2. UNCHANGED <<db, wsAnswer>>
      BY <1>4 DEF SourcesExhausted, dbVars
    <3>3. q \notin overtaken /\ req[q].workspace = NoWorkspace
            => Resolves(req[q].user, req[q].resource, req[q].workspace, Fallback)
      BY <2>2 DEF Resolves, WalkResult
    <3>4. QED BY <2>2, <3>1, <3>2, <3>3 DEF WalkOf, Moved, Resolves, WorkspaceAnswer
  <2>4. QED
    BY <1>0, <1>4, <2>1, <2>3, StepKeepsWalks, StepKeepsCoherence
       DEF SourcesExhausted, dbVars, history
<1>5. ASSUME NEW q \in Requests, ReadWorkspace(q) PROVE WalkHolds' /\ Coherent'
  <2> DEFINE row == db[<<req[q].user, req[q].resource>>]
             w == req[q].workspace
  <2>1. PICK res \in WorkspaceResults(wsAnswer[<<req[q].user, w>>]) :
          req' = [req EXCEPT ![q] = Moved(@, "store", @.pos, res)]
    BY <1>5 DEF ReadWorkspace
  <2> DEFINE s == Moved(req[q], "store", req[q].pos, res)
  <2>2. req' = [req EXCEPT ![q] = s]
    BY <2>1
  <2>3. q \notin overtaken => NothingBefore(row, Len(SourceOrder) + 1)
    BY <1>0, <1>5 DEF WalkHolds, ReadWorkspace
  <2>4. w # NoWorkspace
    BY <1>0, <1>5 DEF ReadWorkspace, TypeOK
  <2>5. q \notin overtaken => Resolves(req[q].user, req[q].resource, w, res)
    BY <2>1, <2>3, <2>4 DEF Resolves, WalkResult, WorkspaceAnswer, WorkspaceResults
  <2>6. q \notin overtaken => WalkOf(q)'
    <3>1. req'[q] = s
      BY <1>0, <2>2 DEF TypeOK
    <3>2. UNCHANGED <<db, wsAnswer>>
      BY <1>5 DEF ReadWorkspace, dbVars
    <3>3. QED BY <2>5, <3>1, <3>2 DEF WalkOf, Moved, Resolves, WorkspaceAnswer
  <2>7. QED
    BY <1>0, <1>5, <2>2, <2>6, StepKeepsWalks, StepKeepsCoherence
       DEF ReadWorkspace, dbVars, history
<1>6. ASSUME NEW q \in Requests, LookupFails(q) PROVE WalkHolds' /\ Coherent'
  <2>1. req' = [req EXCEPT ![q] = Idle] /\ UNCHANGED <<db, wsAnswer, cache, wr, unreached>>
    BY <1>6 DEF LookupFails, dbVars
  <2>2. WalkOf(q)'
    BY <1>0, <2>1 DEF WalkOf, Idle, TypeOK
  <2>3. QED BY <1>0, <1>6, <2>1, <2>2, StepKeepsWalks, StepKeepsCoherence DEF LookupFails
<1>7. ASSUME NEW q \in Requests, Finish(q) PROVE WalkHolds' /\ Coherent'
  <2>1. req' = [req EXCEPT ![q] = Idle] /\ UNCHANGED <<db, wsAnswer, cache, wr, unreached, overtaken>>
    BY <1>7 DEF Finish, dbVars, history
  <2>2. WalkOf(q)'
    BY <1>0, <2>1 DEF WalkOf, Idle, TypeOK
  <2>3. QED BY <1>0, <2>1, <2>2, StepKeepsWalks, StepKeepsCoherence
<1>8. ASSUME NEW q \in Requests, Store(q) PROVE WalkHolds' /\ Coherent'
  <2> DEFINE p == req[q].replica
             k == KeyOf(q)
  <2>1. req[q] \in Resolving /\ p \in Replicas
    BY <1>0, <1>8, BusyRequest DEF Store, Resolving
  <2>2. k \in Key /\ k = <<req[q].user, SlotOf[req[q].resource]>>
    BY <2>1, KeyType DEF KeyOf, CacheKey
  <2>3. UNCHANGED <<db, wsAnswer, wr>>
    BY <1>8 DEF Store, dbVars
  <2>4. WalkHolds'
    <3>1. req' = [req EXCEPT ![q] = Moved(req[q], "done", req[q].pos, req[q].result)]
      BY <1>8 DEF Store
    <3>2. WalkOf(q)'
      BY <1>0, <3>1 DEF WalkOf, Moved, TypeOK
    <3>3. QED BY <1>0, <1>8, <2>3, <3>1, <3>2, StepKeepsWalks DEF Store
  <2>5. Coherent'
    <3> SUFFICES ASSUME NEW o \in Replicas, NEW c \in Key,
                        cache'[o][c] # Miss, <<o, c>> \notin unreached', ~ClearDue(o, c)'
                 PROVE  EntryCurrent(c, cache[o][c])'
      BY DEF Coherent
    <3>1. CASE o = p /\ c = k
      <4>1. q \notin overtaken
        BY <1>8, <3>1 DEF Store
      <4>2. Resolves(req[q].user, req[q].resource, req[q].workspace, req[q].result)
        BY <1>0, <1>8, <4>1 DEF WalkHolds, Store
      <4>3. cache'[p][k] = req[q].result
        BY <1>0, <1>8, <2>1, <2>2 DEF Store, TypeOK
      <4>4. EntryCurrent(k, req[q].result)
        BY <2>1, <2>2, <4>2 DEF EntryCurrent, Resolving
      <4>5. QED BY <2>3, <3>1, <4>3, <4>4 DEF EntryCurrent, Resolves, WorkspaceAnswer
    <3>2. CASE ~(o = p /\ c = k)
      <4>1. cache'[o][c] = cache[o][c]
        BY <1>0, <1>8, <2>1, <2>2, <3>2 DEF Store, TypeOK
      <4>2. <<o, c>> \notin unreached
        BY <1>8, <3>2 DEF Store
      <4>3. ~ClearDue(o, c)
        BY <2>3 DEF ClearDue
      <4>4. EntryCurrent(c, cache[o][c])
        BY <1>0, <4>1, <4>2, <4>3 DEF Coherent
      <4>5. QED BY <2>3, <4>1, <4>4 DEF EntryCurrent, Resolves, WorkspaceAnswer
    <3>3. QED BY <3>1, <3>2
  <2>6. QED BY <2>4, <2>5
<1>9. ASSUME NEW x \in Writers, NEW p \in Replicas, NEW s \in Sources,
             NEW K \in SUBSET (Users \X Resources), NEW f \in [K -> Answer],
             CommitCovered(x, p, s, K, f)
      PROVE  WalkHolds' /\ Coherent'
  <2>1. \A ur \in (Users \X Resources) \ K :
          /\ db'[ur] = db[ur]
          /\ \A w \in Workspaces : wsAnswer'[<<ur[1], w>>] = wsAnswer[<<ur[1], w>>]
    BY <1>9 DEF CommitCovered
  <2>2. wr'[x] = FlushLeft(p, Key) /\ wr[x] = Idle /\ (\A y \in Writers \ {x} : wr'[y] = wr[y])
    BY <1>0, <1>9 DEF CommitCovered, FlushAfter, TypeOK
  <2>3. \A o \in Replicas, k \in Key : ClearDue(o, k) => ClearDue(o, k)'
    BY <2>2 DEF ClearDue, Idle
  <2>4. \A k \in Key : ClearDue(p, k)'
    BY <2>2 DEF ClearDue, FlushLeft
  <2>5. \A o \in Replicas, k \in KeysOf(K) : <<o, k>> \in unreached' \/ ClearDue(o, k)'
    BY <1>9, <2>4, KeysType DEF CommitCovered
  <2>6. QED
    BY <1>0, <1>9, <2>1, <2>3, <2>5, WriteKeepsWalks, WriteKeepsCoherence DEF CommitCovered
<1>10. ASSUME NEW x \in Writers, NEW B \in SUBSET Key, ClearBatch(x, B)
       PROVE  WalkHolds' /\ Coherent'
  <2> DEFINE p == wr[x].replica
             rest == wr[x].todo \ B
  <2>1. p \in Replicas /\ wr[x].pc = "clearing"
    BY <1>0, <1>10, ClearingWriter DEF ClearBatch, Clearing
  <2>2. UNCHANGED <<db, wsAnswer, req, overtaken>>
    BY <1>10 DEF ClearBatch, dbVars
  <2>3. WalkHolds'
    BY <1>0, <2>2 DEF WalkHolds, Resolves, WorkspaceAnswer
  <2>4. Coherent'
    <3> SUFFICES ASSUME NEW o \in Replicas, NEW c \in Key,
                        cache'[o][c] # Miss, <<o, c>> \notin unreached', ~ClearDue(o, c)'
                 PROVE  EntryCurrent(c, cache[o][c])'
      BY DEF Coherent
    <3>1. ~(o = p /\ c \in B)
      BY <1>0, <1>10, <2>1 DEF ClearBatch, TypeOK
    <3>2. cache'[o][c] = cache[o][c] /\ <<o, c>> \notin unreached
      BY <1>0, <1>10, <2>1, <3>1 DEF ClearBatch, TypeOK
    <3>3. ~ClearDue(o, c)
      <4> SUFFICES ASSUME NEW y \in Writers, wr[y].pc = "clearing", wr[y].replica = o,
                          c \in wr[y].todo
                   PROVE  FALSE
        BY DEF ClearDue
      <4>1. CASE y = x
        <5>1. c \in rest
          BY <3>1, <4>1
        <5>2. wr'[x] = FlushLeft(p, rest)
          BY <1>0, <1>10, <5>1 DEF ClearBatch, TypeOK
        <5>3. QED BY <4>1, <5>1, <5>2 DEF ClearDue, FlushLeft
      <4>2. CASE y # x
        <5>1. wr'[y] = wr[y]
          BY <1>0, <1>10, <4>2 DEF ClearBatch, TypeOK
        <5>2. QED BY <5>1 DEF ClearDue
      <4>3. QED BY <4>1, <4>2
    <3>4. EntryCurrent(c, cache[o][c])
      BY <1>0, <3>2, <3>3 DEF Coherent
    <3>5. QED BY <2>2, <3>2, <3>4 DEF EntryCurrent, Resolves, WorkspaceAnswer
  <2>5. QED BY <2>3, <2>4
<1>11. ASSUME NEW x \in Writers, NEW r \in Resources, WipeUserRows(x, r)
       PROVE  WalkHolds' /\ Coherent'
  <2> DEFINE K == Users \X {r}
  <2>1. K \in SUBSET (Users \X Resources) /\ NothingCleared(K)
    BY <1>11 DEF WipeUserRows, Uncovered
  <2>2. wr[x] = Idle /\ wr'[x].pc = "wiping" /\ (\A y \in Writers \ {x} : wr'[y] = wr[y])
    BY <1>0, <1>11 DEF WipeUserRows, TypeOK
  <2>3. \A o \in Replicas, k \in Key : ClearDue(o, k) => ClearDue(o, k)'
    BY <2>2 DEF ClearDue, Idle
  <2>4. \A ur \in (Users \X Resources) \ K :
          /\ db'[ur] = db[ur]
          /\ \A w \in Workspaces : wsAnswer'[<<ur[1], w>>] = wsAnswer[<<ur[1], w>>]
    BY <1>11 DEF WipeUserRows, WithoutRows
  <2>5. QED BY <1>0, <2>1, <2>3, <2>4, NothingClearedKeeps
<1>12. ASSUME NEW x \in Writers, WipeGroupRows(x) PROVE WalkHolds' /\ Coherent'
  <2> DEFINE r == wr[x].resource
             K == Users \X {r}
  <2>1. r \in Resources
    BY <1>0, <1>12, WipingWriter DEF WipeGroupRows, Wiping
  <2>2. K \in SUBSET (Users \X Resources) /\ NothingCleared(K)
    BY <1>12, <2>1 DEF WipeGroupRows
  <2>3. wr[x].pc = "wiping" /\ (\A y \in Writers \ {x} : wr'[y] = wr[y])
    BY <1>0, <1>12 DEF WipeGroupRows, TypeOK
  <2>4. \A o \in Replicas, k \in Key : ClearDue(o, k) => ClearDue(o, k)'
    BY <2>3 DEF ClearDue
  <2>5. \A ur \in (Users \X Resources) \ K :
          /\ db'[ur] = db[ur]
          /\ \A w \in Workspaces : wsAnswer'[<<ur[1], w>>] = wsAnswer[<<ur[1], w>>]
    BY <1>12 DEF WipeGroupRows, WithoutRows
  <2>6. QED BY <1>0, <2>2, <2>4, <2>5, NothingClearedKeeps
<1>13. ASSUME NEW u \in Users, DeleteUser(u) PROVE WalkHolds' /\ Coherent'
  <2> DEFINE K == {u} \X Resources
  <2>1. K \in SUBSET (Users \X Resources) /\ NothingCleared(K) /\ wr' = wr
    BY <1>13 DEF DeleteUser, Uncovered
  <2>2. \A o \in Replicas, k \in Key : ClearDue(o, k) => ClearDue(o, k)'
    BY <2>1 DEF ClearDue
  <2>3. ASSUME NEW ur \in (Users \X Resources) \ K
        PROVE  /\ db'[ur] = db[ur]
               /\ \A w \in Workspaces : wsAnswer'[<<ur[1], w>>] = wsAnswer[<<ur[1], w>>]
    <3>1. ur[1] # u /\ ur[1] \in Users
      BY <2>3
    <3>2. QED BY <1>13, <3>1 DEF DeleteUser
  <2>4. QED BY <1>0, <2>1, <2>2, <2>3, NothingClearedKeeps
<1>14. ASSUME NEW u \in Users, NEW v \in Users, RenameUser(u, v)
       PROVE  WalkHolds' /\ Coherent'
  <2> DEFINE K == {u, v} \X Resources
  <2>1. K \in SUBSET (Users \X Resources) /\ NothingCleared(K) /\ wr' = wr
    BY <1>14 DEF RenameUser, Uncovered
  <2>2. \A o \in Replicas, k \in Key : ClearDue(o, k) => ClearDue(o, k)'
    BY <2>1 DEF ClearDue
  <2>3. ASSUME NEW ur \in (Users \X Resources) \ K
        PROVE  /\ db'[ur] = db[ur]
               /\ \A w \in Workspaces : wsAnswer'[<<ur[1], w>>] = wsAnswer[<<ur[1], w>>]
    <3>1. ur[1] # u /\ ur[1] # v
      BY <2>3
    <3>2. QED BY <1>14, <3>1 DEF RenameUser
  <2>4. QED BY <1>0, <2>1, <2>2, <2>3, NothingClearedKeeps
<1>15. ASSUME NEW u \in Users, NEW w \in Workspaces, NEW a \in Answer,
              SetWorkspaceAnswer(u, w, a)
       PROVE  WalkHolds' /\ Coherent'
  <2> DEFINE K == {u} \X Resources
  <2>1. K \in SUBSET (Users \X Resources) /\ NothingCleared(K) /\ wr' = wr /\ db' = db
    BY <1>15 DEF SetWorkspaceAnswer, Uncovered
  <2>2. \A o \in Replicas, k \in Key : ClearDue(o, k) => ClearDue(o, k)'
    BY <2>1 DEF ClearDue
  <2>3. ASSUME NEW ur \in (Users \X Resources) \ K, NEW y \in Workspaces
        PROVE  wsAnswer'[<<ur[1], y>>] = wsAnswer[<<ur[1], y>>]
    <3>1. ur[1] # u
      BY <2>3
    <3>2. <<ur[1], y>> # <<u, w>>
      BY <3>1
    <3>3. QED BY <1>0, <1>15, <3>2 DEF SetWorkspaceAnswer, TypeOK
  <2>4. QED BY <1>0, <2>1, <2>2, <2>3, NothingClearedKeeps
<1>16. ASSUME NEW p \in Replicas, NEW k \in Key, Expire(p, k) PROVE WalkHolds' /\ Coherent'
  <2>1. UNCHANGED <<db, wsAnswer, req, wr, overtaken>>
    BY <1>16 DEF Expire, dbVars
  <2>2. WalkHolds'
    BY <1>0, <2>1 DEF WalkHolds, Resolves, WorkspaceAnswer
  <2>3. Coherent'
    <3> SUFFICES ASSUME NEW o \in Replicas, NEW c \in Key,
                        cache'[o][c] # Miss, <<o, c>> \notin unreached', ~ClearDue(o, c)'
                 PROVE  EntryCurrent(c, cache[o][c])'
      BY DEF Coherent
    <3>1. ~(o = p /\ c = k)
      BY <1>0, <1>16 DEF Expire, TypeOK
    <3>2. cache'[o][c] = cache[o][c] /\ <<o, c>> \notin unreached
      BY <1>0, <1>16, <3>1 DEF Expire, TypeOK
    <3>3. ~ClearDue(o, c)
      BY <2>1 DEF ClearDue
    <3>4. EntryCurrent(c, cache[o][c])
      BY <1>0, <3>2, <3>3 DEF Coherent
    <3>5. QED BY <2>1, <3>2, <3>4 DEF EntryCurrent, Resolves, WorkspaceAnswer
  <2>4. QED BY <2>2, <2>3
<1>17. CASE UNCHANGED vars
  <2>1. UNCHANGED <<db, wsAnswer, cache, wr, unreached, req, overtaken>>
    BY <1>17 DEF vars
  <2>2. WalkHolds'
    BY <1>0, <2>1 DEF WalkHolds, Resolves, WorkspaceAnswer
  <2>3. QED BY <1>0, <2>1, <2>2, StepKeepsCoherence
<1>18. QED
  BY <1>1, <1>2, <1>3, <1>4, <1>5, <1>6, <1>7, <1>8, <1>9, <1>10, <1>11, <1>12, <1>13,
     <1>14, <1>15, <1>16, <1>17 DEF Next, Lookup

(* Every cached result is what a lookup would return now, unless a clear   *)
(* is due, no clear ever comes for it, or a write overtook its lookup.     *)
THEOREM CacheCoherent == Spec => []Coherent
<1>1. IInv => Coherent
  BY DEF IInv
<1>2. QED BY IInvInit, IInvNext, <1>1, PTL DEF Spec

(* A lookup that no write overtook stores the current result.              *)
THEOREM LookupsReadCurrent == Spec => []WalkHolds
<1>1. IInv => WalkHolds
  BY DEF IInv
<1>2. QED BY IInvInit, IInvNext, <1>1, PTL DEF Spec
=============================================================================
