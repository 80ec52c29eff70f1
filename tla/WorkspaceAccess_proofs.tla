------------------------- MODULE WorkspaceAccess_proofs -------------------------
(***************************************************************************)
(* Proofs about WorkspaceAccess, for any users, groups, workspaces,        *)
(* patterns, caches and requests, any order of the sources, and any number *)
(* of writes and failures.                                                 *)
(***************************************************************************)
EXTENDS WorkspaceAccess, TLAPS

Clearing == {"invalidate", "grant", "wipe-users", "wipe-groups", "flush"}

-----------------------------------------------------------------------------
(* What sources answer                                                     *)

LEMMA Numbers ==
  /\ Levels \subseteq {"READ", "USE", "EDIT", "MANAGE", "NO_PERMISSIONS"}
  /\ Priority["READ"] = 1 /\ Priority["USE"] = 2 /\ Priority["EDIT"] = 3
  /\ Priority["MANAGE"] = 4 /\ Priority["NO_PERMISSIONS"] = 100
BY WorkspaceAssumption DEF Priority

LEMMA StrongestType ==
  ASSUME NEW ls \in SUBSET Levels
  PROVE  /\ Strongest(ls) \in Levels \cup {NoRow}
         /\ ls = {} => Strongest(ls) = NoRow
<1>1. CASE ls = {}
  BY <1>1 DEF Strongest
<1>2. CASE ls # {}
  <2>1. \E l \in ls : \A m \in ls : Priority[m] <= Priority[l]
    <3>1. CASE "NO_PERMISSIONS" \in ls
      BY <3>1, Numbers
    <3>2. CASE "NO_PERMISSIONS" \notin ls /\ "MANAGE" \in ls
      BY <3>2, Numbers
    <3>3. CASE ls \subseteq {"READ", "USE", "EDIT"} /\ "EDIT" \in ls
      BY <3>3, Numbers
    <3>4. CASE ls \subseteq {"READ", "USE"} /\ "USE" \in ls
      BY <3>4, Numbers
    <3>5. CASE ls = {"READ"}
      BY <3>5, Numbers
    <3>6. QED BY <1>2, <3>1, <3>2, <3>3, <3>4, <3>5, Numbers
  <2>2. Strongest(ls) \in ls
    BY <1>2, <2>1 DEF Strongest
  <2>3. QED BY <1>2, <2>2
<1>3. QED BY <1>1, <1>2

LEMMA FirstTierType ==
  ASSUME NEW ps \in SUBSET Patterns, NEW w \in Workspaces
  PROVE  /\ FirstTier(ps, w) \in Levels \cup {NoRow}
         /\ ps = {} => FirstTier(ps, w) = NoRow
<1> DEFINE hits == {p \in ps : w \in p.names}
           best == {q \in hits : \A o \in hits : q.priority <= o.priority}
           ls == {p.permission : p \in best}
<1>1. FirstTier(ps, w) = Strongest(ls)
  BY DEF FirstTier
<1>2. \A p \in ps : p.permission \in Levels
  BY WorkspaceAssumption
<1>3. ls \in SUBSET Levels /\ (ps = {} => ls = {})
  BY <1>2
<1> HIDE DEF ls
<1>4. QED BY <1>1, <1>3, StrongestType

LEMMA GroupRowType ==
  ASSUME TypeOK, NEW u \in Users, NEW w \in Workspaces
  PROVE  GroupRow(u, w) \in Levels \cup {NoRow}
<1> DEFINE ls == {rows[<<g, w>>] : g \in members[u]} \ {NoRow}
<1>1. \A g \in members[u] : g \in Groups /\ rows[<<g, w>>] \in Levels \cup {NoRow}
  BY DEF TypeOK, Subjects
<1>2. ls \in SUBSET Levels
  BY <1>1
<1> HIDE DEF ls
<1>3. QED BY <1>2, StrongestType DEF GroupRow, ls

LEMMA PatternsOfType ==
  ASSUME TypeOK, NEW gs \in SUBSET Groups
  PROVE  PatternsOf(gs) \in SUBSET Patterns /\ (gs = {} => PatternsOf(gs) = {})
BY DEF TypeOK, PatternsOf

LEMMA AnswerOf ==
  ASSUME NEW u \in Users, NEW w \in Workspaces
  PROVE  /\ Answers(<<u, w>>)["user"] = rows[<<u, w>>]
         /\ Answers(<<u, w>>)["group"] = GroupRow(u, w)
         /\ Answers(<<u, w>>)["regex"] = FirstTier(patterns[u], w)
         /\ Answers(<<u, w>>)["group-regex"] = FirstTier(PatternsOf(members[u]), w)
BY DEF Answers, Answer, Sources

LEMMA AnswerTypes ==
  ASSUME TypeOK, NEW u \in Users, NEW w \in Workspaces
  PROVE  /\ rows[<<u, w>>] \in Levels \cup {NoRow}
         /\ GroupRow(u, w) \in Levels \cup {NoRow}
         /\ FirstTier(patterns[u], w) \in Levels \cup {NoRow}
         /\ \A gs \in SUBSET Groups : FirstTier(PatternsOf(gs), w) \in Levels \cup {NoRow}
<1>1. rows[<<u, w>>] \in Levels \cup {NoRow}
  BY DEF TypeOK, Subjects, People
<1>2. patterns[u] \in SUBSET Patterns
  BY DEF TypeOK
<1>3. QED BY <1>1, <1>2, GroupRowType, FirstTierType, PatternsOfType

(* A key whose sources answer as before is looked up as before.            *)
LEMMA SameAnswers ==
  ASSUME NEW k \in Key, k \notin Affected
  PROVE  /\ \A i : NothingBefore(k, i)' <=> NothingBefore(k, i)
         /\ \A l : Holds(k, l)' <=> Holds(k, l)
<1>1. \A s \in Sources : Answer(s, k[1], k[2])' = Answer(s, k[1], k[2])
  BY DEF Affected
<1>2. Answers(k)' = Answers(k)
  BY <1>1 DEF Answers
<1>3. \A i : NothingBefore(k, i)' <=> NothingBefore(k, i)
  BY <1>2 DEF NothingBefore
<1>4. QED BY <1>2, <1>3 DEF Holds

-----------------------------------------------------------------------------
(* The invariant                                                           *)

(* A request has what its place in the code supposes.                      *)
Placed(q) ==
  /\ req[q].pc \in Lookups \cup {"reader"} => req[q].user \in Users
  /\ req[q].pc = "group-patterns" =>
       req[q].pos \in DOMAIN SourceOrder /\ SourceOrder[req[q].pos] = "group-regex"
  /\ req[q].pc \in {"store", "decide"} => req[q].result \in Levels
  /\ req[q].pc \in {"grant", "wipe-users", "wipe-groups"} => req[q].todo = Key

(* What a request has found holds, unless something put it in doubt.       *)
Sound(q) ==
  q \notin doubtful =>
    /\ req[q].pc \in {"sources", "group-patterns"} => NothingBefore(KeyOf(req[q]), req[q].pos)
    /\ req[q].pc = "group-patterns" => req[q].groups = members[req[q].user]
    /\ req[q].pc \in {"store", "decide"} => Holds(KeyOf(req[q]), req[q].result)
    /\ req[q].pc = "manager" /\ req[q].user # Admin => Holds(KeyOf(req[q]), "MANAGE")
    /\ req[q].pc = "reader" =>
         \E l \in Levels \ {"NO_PERMISSIONS"} : Holds(KeyOf(req[q]), l)

(* The rows of a workspace that is gone and that no request will wipe.     *)
Wiped ==
  \A sw \in Subjects \X Workspaces :
    \/ rows[sw] = NoRow \/ sw[2] \in exists \/ sw \in left
    \/ \E q \in Requests :
         /\ req[q].pc = "wipe-users" \/ (req[q].pc = "wipe-groups" /\ sw[1] \in Groups)
         /\ req[q].workspace = sw[2]

ReqInv == \A q \in Requests : Placed(q) /\ Sound(q)
IInv == TypeOK /\ ReqInv /\ EntriesCurrent

-----------------------------------------------------------------------------
(* Requests                                                                *)

LEMMA Busy ==
  ASSUME TypeOK, NEW q \in Requests, req[q].pc # "idle"
  PROVE  /\ req[q] \in Request
         /\ req[q].pc \in Stages /\ req[q].cache \in Caches /\ req[q].user \in People
         /\ req[q].workspace \in Workspaces /\ req[q].pos \in 1 .. Len(SourceOrder) + 1
         /\ req[q].groups \in SUBSET Groups /\ req[q].result \in Levels \cup {NoRow}
         /\ req[q].todo \in SUBSET Key
<1>1. req[q] \in {Idle} \cup Request
  BY DEF TypeOK
<1>2. req[q] \in Request
  BY <1>1 DEF Idle
<1>3. QED BY <1>2 DEF Request

LEMMA IdlePc == Idle.pc = "idle" /\ "idle" \notin Stages
BY DEF Idle, Stages, Lookups

LEMMA ReqStep ==
  ASSUME TypeOK, NEW q \in Requests, NEW n, req' = [req EXCEPT ![q] = n]
  PROVE  /\ req'[q] = n /\ \A i \in Requests : i # q => req'[i] = req[i]
         /\ n \in {Idle} \cup Request => req' \in [Requests -> {Idle} \cup Request]
BY DEF TypeOK

LEMMA SameTables ==
  ASSUME UNCHANGED tables
  PROVE  /\ \A k, i : NothingBefore(k, i)' <=> NothingBefore(k, i)
         /\ \A k, l : Holds(k, l)' <=> Holds(k, l)
<1>1. UNCHANGED <<rows, patterns, members>>
  BY DEF tables
<1>2. \A s, u, w : Answer(s, u, w)' = Answer(s, u, w)
  BY <1>1 DEF Answer, GroupRow, PatternsOf
<1>3. \A k : Answers(k)' = Answers(k)
  BY <1>2 DEF Answers
<1>4. \A k, i : NothingBefore(k, i)' <=> NothingBefore(k, i)
  BY <1>3 DEF NothingBefore
<1>5. QED BY <1>3, <1>4 DEF Holds

(* The others keep what they have found while the tables stay the same.    *)
LEMMA QuietReq ==
  ASSUME IInv, NEW q \in Requests, NEW n, req' = [req EXCEPT ![q] = n],
         UNCHANGED tables, Placed(q)', Sound(q)',
         \A i \in Requests : i # q => (i \in doubtful' <=> i \in doubtful)
  PROVE  ReqInv'
<1>1. TypeOK /\ ReqInv
  BY DEF IInv
<1>2. \A i \in Requests : i # q => req'[i] = req[i]
  BY <1>1, ReqStep
<1>3. ASSUME NEW i \in Requests, i # q PROVE Placed(i)' /\ Sound(i)'
  <2>1. Placed(i) /\ Sound(i) /\ req'[i] = req[i] /\ (i \in doubtful' <=> i \in doubtful)
    BY <1>1, <1>2, <1>3 DEF ReqInv
  <2>2. Placed(i)'
    BY <2>1 DEF Placed
  <2>3. members' = members
    BY DEF tables
  <2>4. Sound(i)'
    BY <2>1, <2>3, SameTables DEF Sound
  <2>5. QED BY <2>2, <2>4
<1>4. QED BY <1>3 DEF ReqInv

(* A step that changes no table and no entry, and forgets no invalidation. *)
LEMMA QuietStep ==
  ASSUME IInv, NEW q \in Requests, NEW n \in {Idle} \cup Request, req' = [req EXCEPT ![q] = n],
         UNCHANGED <<rows, patterns, members, cache, unreached>>,
         exists' \subseteq Workspaces, writes' \in 0 .. MaxWrites,
         left' \subseteq Subjects \X Workspaces,
         faults' \in 0 .. MaxFaults, doubtful' \subseteq Requests,
         \A i \in Requests : i # q => (i \in doubtful' <=> i \in doubtful),
         \A c, k : Due(c, k) => Due(c, k)', Placed(q)', Sound(q)'
  PROVE  IInv'
<1>1. TypeOK /\ EntriesCurrent
  BY DEF IInv
<1>2. UNCHANGED tables
  BY DEF tables
<1>3. req' \in [Requests -> {Idle} \cup Request]
  BY <1>1, ReqStep
<1>4. TypeOK'
  BY <1>1, <1>3 DEF TypeOK
<1>5. ReqInv'
  BY <1>2, QuietReq
<1>6. EntriesCurrent'
  BY <1>1, <1>2, SameTables DEF EntriesCurrent
<1>7. QED BY <1>4, <1>5, <1>6 DEF IInv

(* A request that is not clearing forgets no invalidation.                 *)
LEMMA DueStays ==
  ASSUME TypeOK, NEW q \in Requests, NEW n, req' = [req EXCEPT ![q] = n],
         req[q].pc \notin Clearing
  PROVE  \A c, k : Due(c, k) => Due(c, k)'
<1>1. \A i \in Requests : i # q => req'[i] = req[i]
  BY ReqStep
<1>2. QED BY <1>1 DEF Due, Clearing

(* A request that is not clearing takes a step that changes only itself.   *)
LEMMA LookStep ==
  ASSUME IInv, NEW q \in Requests, NEW n \in {Idle} \cup Request, req' = [req EXCEPT ![q] = n],
         UNCHANGED <<exists, rows, patterns, members, writes, left, cache, unreached>>,
         faults' \in 0 .. MaxFaults, doubtful' \subseteq Requests,
         \A i \in Requests : i # q => (i \in doubtful' <=> i \in doubtful),
         req[q].pc \notin Clearing, Placed(q)', Sound(q)'
  PROVE  IInv'
<1>1. TypeOK
  BY DEF IInv
<1>2. /\ exists' \subseteq Workspaces /\ writes' \in 0 .. MaxWrites
      /\ left' \subseteq Subjects \X Workspaces
  BY <1>1 DEF TypeOK
<1>3. \A c, k : Due(c, k) => Due(c, k)'
  BY <1>1, DueStays
<1>4. QED BY <1>2, <1>3, QuietStep

(* A source has answered, or failed and put the request in doubt.          *)
LEMMA ToldStep ==
  ASSUME IInv, NEW q \in Requests, NEW answer \in Levels \cup {NoRow}, Told(q, answer),
         req[q].pc \in {"sources", "group-patterns"}, req[q].pos \in DOMAIN SourceOrder,
         UNCHANGED <<exists, rows, patterns, members, writes, left, cache, unreached>>,
         faults' \in 0 .. MaxFaults, doubtful' \in {doubtful, doubtful \cup {q}},
         q \in doubtful' \/ answer = Answers(KeyOf(req[q]))[SourceOrder[req[q].pos]]
  PROVE  IInv'
<1> DEFINE r == req[q]
           onward == NextSource(r)
           found == Found(r, answer)
           n == IF answer = NoRow THEN onward ELSE found
<1>1. TypeOK /\ Placed(q) /\ Sound(q)
  BY DEF IInv, ReqInv
<1>2. r.pc # "idle"
  OBVIOUS
<1>3. /\ r \in Request /\ r.user \in Users /\ r.workspace \in Workspaces
      /\ r.pos \in Nat /\ r.pos + 1 \in 1 .. Len(SourceOrder) + 1
  BY <1>1, <1>2, Busy, WorkspaceAssumption DEF Placed, Lookups
<1>4. req' = [req EXCEPT ![q] = n]
  BY DEF Told
<1>5. /\ onward \in Request /\ onward.pc = "sources" /\ onward.pos = r.pos + 1
      /\ onward.user = r.user /\ onward.workspace = r.workspace
  BY <1>3 DEF Request, Stages, Lookups, NextSource
<1>6. /\ found \in Request /\ found.pc = "store" /\ found.result = answer
      /\ found.user = r.user /\ found.workspace = r.workspace
  BY <1>3 DEF Request, Stages, Lookups, Found
<1> HIDE DEF onward, found
<1>7. n \in {Idle} \cup Request /\ n.user = r.user /\ KeyOf(n) = KeyOf(r)
  BY <1>5, <1>6 DEF KeyOf
<1>8. req'[q] = n
  BY <1>1, <1>4, ReqStep
<1>9. Placed(q)'
  BY <1>3, <1>5, <1>6, <1>7, <1>8 DEF Placed
<1>10. Sound(q)'
  <2> SUFFICES ASSUME q \notin doubtful' PROVE Sound(q)'
    BY DEF Sound
  <2>1. answer = Answers(KeyOf(r))[SourceOrder[r.pos]] /\ NothingBefore(KeyOf(r), r.pos)
    BY <1>1 DEF Sound
  <2>2. UNCHANGED tables
    BY DEF tables
  <2>3. CASE answer = NoRow
    <3>1. NothingBefore(KeyOf(r), r.pos + 1)
      <4>1. ASSUME NEW i \in 1 .. (r.pos + 1 - 1)
            PROVE  Answers(KeyOf(r))[SourceOrder[i]] = NoRow
        <5>1. i = r.pos \/ i \in 1 .. (r.pos - 1)
          BY <1>3
        <5>2. QED BY <2>1, <2>3, <5>1 DEF NothingBefore
      <4>2. QED BY <1>3, <4>1 DEF NothingBefore
    <3>2. req'[q].pc = "sources" /\ req'[q].pos = r.pos + 1 /\ KeyOf(req'[q]) = KeyOf(r)
      BY <1>5, <1>7, <1>8, <2>3
    <3>3. QED BY <2>2, <3>1, <3>2, SameTables DEF Sound
  <2>4. CASE answer # NoRow
    <3>1. Holds(KeyOf(r), answer)
      BY <2>1, <2>4 DEF Holds
    <3>2. req'[q].pc = "store" /\ req'[q].result = answer /\ KeyOf(req'[q]) = KeyOf(r)
      BY <1>6, <1>7, <1>8, <2>4
    <3>3. QED BY <2>2, <3>1, <3>2, SameTables DEF Sound
  <2>5. QED BY <2>3, <2>4
<1>11. req[q].pc \notin Clearing /\ doubtful' \subseteq Requests
       /\ \A i \in Requests : i # q => (i \in doubtful' <=> i \in doubtful)
  BY <1>1 DEF Clearing, TypeOK
<1> HIDE DEF n
<1>12. QED BY <1>4, <1>7, <1>9, <1>10, <1>11, LookStep

LEMMA Sourced ==
  ASSUME IInv, NEW q \in Requests, req[q].pc \in {"sources", "group-patterns"}
  PROVE  /\ req[q].user \in Users /\ req[q].workspace \in Workspaces
         /\ KeyOf(req[q]) = <<req[q].user, req[q].workspace>>
         /\ req[q].groups \in SUBSET Groups /\ TypeOK
         /\ faults \in 0 .. MaxFaults
BY Busy DEF IInv, ReqInv, Placed, Lookups, KeyOf, TypeOK

LEMMA AskInv ==
  ASSUME IInv, NEW q \in Requests, AskUserRow(q) \/ AskGroupRows(q) \/ AskUserPatterns(q)
  PROVE  IInv'
<1> DEFINE u == req[q].user
           w == req[q].workspace
           k == KeyOf(req[q])
<1>1. /\ req[q].pc = "sources" /\ req[q].pos \in DOMAIN SourceOrder
      /\ UNCHANGED <<exists, rows, patterns, members, writes, left, cache, unreached, doubtful,
                     faults>>
  BY DEF AskUserRow, AskGroupRows, AskUserPatterns, Asks, Reads, Untouched
<1>2. u \in Users /\ w \in Workspaces /\ k = <<u, w>> /\ TypeOK /\ faults' \in 0 .. MaxFaults
  BY <1>1, Sourced
<1>3. /\ Answers(k)["user"] = rows[k] /\ Answers(k)["group"] = GroupRow(u, w)
      /\ Answers(k)["regex"] = FirstTier(patterns[u], w)
  BY <1>2, AnswerOf
<1>4. /\ rows[k] \in Levels \cup {NoRow} /\ GroupRow(u, w) \in Levels \cup {NoRow}
      /\ FirstTier(patterns[u], w) \in Levels \cup {NoRow}
  BY <1>2, AnswerTypes
<1>5. \E answer \in Levels \cup {NoRow} :
        Told(q, answer) /\ answer = Answers(k)[SourceOrder[req[q].pos]]
  BY <1>3, <1>4 DEF AskUserRow, AskGroupRows, AskUserPatterns, Asks
<1>6. QED BY <1>1, <1>2, <1>5, ToldStep

LEMMA AskGroupsInv ==
  ASSUME IInv, NEW q \in Requests, AskGroups(q)
  PROVE  IInv'
<1> DEFINE r == req[q]
           k == KeyOf(r)
           n == [r EXCEPT !.pc = "group-patterns", !.groups = members[r.user]]
<1>1. /\ r.pc = "sources" /\ r.pos \in DOMAIN SourceOrder
      /\ SourceOrder[r.pos] = "group-regex"
      /\ UNCHANGED <<exists, rows, patterns, members, writes, left, cache, unreached, doubtful,
                     faults>>
  BY DEF AskGroups, Asks, Reads, Untouched
<1>2. /\ r.user \in Users /\ r.workspace \in Workspaces /\ k = <<r.user, r.workspace>>
      /\ TypeOK /\ faults' \in 0 .. MaxFaults
  BY <1>1, Sourced
<1>3. Placed(q) /\ Sound(q) /\ r \in Request /\ members[r.user] \in SUBSET Groups
  BY <1>1, <1>2, Busy DEF IInv, ReqInv, TypeOK
<1>4. CASE members[r.user] = {} /\ Told(q, NoRow)
  <2>1. Answers(k)["group-regex"] = NoRow
    BY <1>2, <1>4, AnswerOf, PatternsOfType, FirstTierType
  <2>2. QED BY <1>1, <1>2, <1>4, <2>1, ToldStep
<1>5. CASE req' = [req EXCEPT ![q] = n]
  <2>1. /\ n \in Request /\ n.pc = "group-patterns" /\ n.groups = members[r.user]
        /\ n.user = r.user /\ n.workspace = r.workspace /\ n.pos = r.pos
    BY <1>3 DEF Request, Stages, Lookups
  <2>2. KeyOf(n) = k
    BY <2>1 DEF KeyOf
  <2> HIDE DEF n
  <2>3. req'[q] = n
    BY <1>2, <1>5, ReqStep
  <2>4. Placed(q)'
    BY <1>1, <1>2, <2>1, <2>3 DEF Placed
  <2>5. UNCHANGED tables
    BY <1>1 DEF tables
  <2>6. Sound(q)'
    BY <1>1, <1>3, <2>1, <2>2, <2>3, <2>5, SameTables DEF Sound
  <2>7. r.pc \notin Clearing /\ doubtful' \subseteq Requests
    BY <1>1, <1>2 DEF Clearing, TypeOK
  <2>8. QED BY <1>1, <1>2, <1>5, <2>1, <2>4, <2>6, <2>7, LookStep
<1>6. QED BY <1>4, <1>5 DEF AskGroups

LEMMA AskGroupPatternsInv ==
  ASSUME IInv, NEW q \in Requests, AskGroupPatterns(q)
  PROVE  IInv'
<1> DEFINE r == req[q]
           answer == FirstTier(PatternsOf(r.groups), r.workspace)
<1>1. /\ r.pc = "group-patterns" /\ Told(q, answer)
      /\ UNCHANGED <<exists, rows, patterns, members, writes, left, cache, unreached, doubtful,
                     faults>>
  BY DEF AskGroupPatterns, Reads, Untouched
<1>2. /\ r.user \in Users /\ r.workspace \in Workspaces /\ KeyOf(r) = <<r.user, r.workspace>>
      /\ r.groups \in SUBSET Groups /\ TypeOK /\ faults' \in 0 .. MaxFaults
  BY <1>1, Sourced
<1>3. Placed(q) /\ Sound(q)
  BY DEF IInv, ReqInv
<1>4. r.pos \in DOMAIN SourceOrder /\ SourceOrder[r.pos] = "group-regex"
  BY <1>1, <1>3 DEF Placed
<1>5. answer \in Levels \cup {NoRow}
  BY <1>2, AnswerTypes
<1>6. q \in doubtful' \/ answer = Answers(KeyOf(r))[SourceOrder[r.pos]]
  <2>1. CASE q \in doubtful
    BY <1>1, <2>1
  <2>2. CASE q \notin doubtful
    <3>1. r.groups = members[r.user]
      BY <1>1, <1>3, <2>2 DEF Sound
    <3>2. QED BY <1>2, <1>4, <3>1, AnswerOf
  <2>3. QED BY <2>1, <2>2
<1> HIDE DEF answer
<1>7. QED BY <1>1, <1>2, <1>4, <1>5, <1>6, ToldStep

LEMMA SourceFailsInv ==
  ASSUME IInv, NEW q \in Requests, SourceFails(q)
  PROVE  IInv'
<1>1. /\ req[q].pc \in {"sources", "group-patterns"} /\ Told(q, NoRow)
      /\ UNCHANGED <<exists, rows, patterns, members, writes, left, cache, unreached>>
      /\ doubtful' = doubtful \cup {q} /\ faults < MaxFaults /\ faults' = faults + 1
  BY DEF SourceFails, Untouched
<1>2. req[q].pos \in DOMAIN SourceOrder
  BY DEF SourceFails, IInv, ReqInv, Placed
<1>3. faults' \in 0 .. MaxFaults
  BY <1>1, WorkspaceAssumption DEF IInv, TypeOK
<1>4. QED BY <1>1, <1>2, <1>3, ToldStep

(* A request that stops asks for nothing more.                             *)
LEMMA IdleInv ==
  ASSUME NEW q \in Requests, req'[q] = Idle
  PROVE  Placed(q)' /\ Sound(q)'
BY DEF Placed, Sound, Idle, Lookups

LEMMA StopsInv ==
  ASSUME IInv, NEW q \in Requests, NothingFound(q) \/ Finish(q)
  PROVE  IInv'
<1>1. /\ req' = [req EXCEPT ![q] = Idle] /\ doubtful' = doubtful \ {q}
      /\ UNCHANGED <<exists, rows, patterns, members, writes, left, cache, unreached, faults>>
      /\ req[q].pc \notin Clearing
  BY DEF NothingFound, Finish, Reads, Untouched, Clearing
<1>2. TypeOK /\ faults' \in 0 .. MaxFaults /\ doubtful' \subseteq Requests
  BY <1>1 DEF IInv, TypeOK
<1>3. Placed(q)' /\ Sound(q)'
  BY <1>1, <1>2, ReqStep, IdleInv
<1>4. QED BY <1>1, <1>2, <1>3, LookStep

LEMMA AdminRequestInv ==
  ASSUME IInv, NEW q \in Requests, NEW c \in Caches, NEW w \in Workspaces, AdminRequest(q, c, w)
  PROVE  IInv'
<1> DEFINE n == [pc |-> "manager", cache |-> c, user |-> Admin, workspace |-> w, pos |-> 1,
                 groups |-> {}, result |-> "MANAGE", todo |-> {}]
<1>1. /\ req' = [req EXCEPT ![q] = n] /\ req[q] = Idle
      /\ UNCHANGED <<exists, rows, patterns, members, writes, left, cache, unreached, doubtful,
                     faults>>
  BY DEF AdminRequest, Reads, Untouched
<1>2. TypeOK /\ faults' \in 0 .. MaxFaults /\ doubtful' \subseteq Requests
  BY <1>1 DEF IInv, TypeOK
<1>3. 1 \in 1 .. Len(SourceOrder) + 1
  BY WorkspaceAssumption
<1>4. n \in Request
  BY <1>3, WorkspaceAssumption DEF Request, Stages, People
<1>5. n.pc = "manager" /\ n.user = Admin
  OBVIOUS
<1> HIDE DEF n
<1>6. req'[q] = n
  BY <1>1, <1>2, ReqStep
<1>7. Placed(q)' /\ Sound(q)'
  BY <1>5, <1>6 DEF Placed, Sound, Lookups
<1>8. req[q].pc \notin Clearing
  BY <1>1 DEF Idle, Clearing
<1>9. QED BY <1>1, <1>2, <1>4, <1>7, <1>8, LookStep

LEMMA BeginInv ==
  ASSUME IInv, NEW q \in Requests, NEW c \in Caches, NEW u \in Users, NEW w \in Workspaces,
         Begin(q, c, u, w)
  PROVE  IInv'
<1> DEFINE k == <<u, w>>
           hit == cache[c][k]
           n == [pc |-> IF hit = Miss THEN "sources" ELSE "decide", cache |-> c, user |-> u,
                 workspace |-> w, pos |-> 1, groups |-> {},
                 result |-> IF hit = Miss THEN NoRow ELSE hit, todo |-> {}]
<1>1. /\ req' = [req EXCEPT ![q] = n] /\ req[q] = Idle
      /\ UNCHANGED <<exists, rows, patterns, members, writes, left, cache, unreached, faults>>
      /\ doubtful' = IF hit # Miss /\ (<<c, k>> \in unreached \/ Due(c, k))
                     THEN doubtful \cup {q} ELSE doubtful
  BY DEF Begin, Reads, Untouched
<1>2. TypeOK /\ faults' \in 0 .. MaxFaults /\ doubtful' \subseteq Requests
  BY <1>1 DEF IInv, TypeOK
<1>3. k \in Key /\ hit \in Levels \cup {Miss}
  BY <1>2 DEF Key, TypeOK
<1>4. 1 \in 1 .. Len(SourceOrder) + 1
  BY WorkspaceAssumption
<1> HIDE DEF hit
<1>5. n \in Request
  BY <1>3, <1>4 DEF Request, Stages, Lookups, People
<1>6. /\ n.pc = IF hit = Miss THEN "sources" ELSE "decide"
      /\ n.user = u /\ n.workspace = w /\ n.pos = 1
      /\ n.result = IF hit = Miss THEN NoRow ELSE hit
  OBVIOUS
<1>7. KeyOf(n) = k
  BY DEF KeyOf
<1> HIDE DEF n, k
<1>8. req'[q] = n
  BY <1>1, <1>2, ReqStep
<1>9. Placed(q)'
  BY <1>3, <1>6, <1>8 DEF Placed
<1>10. Sound(q)'
  <2>1. UNCHANGED tables
    BY <1>1 DEF tables
  <2>2. CASE hit = Miss
    <3>1. NothingBefore(k, 1)
      BY DEF NothingBefore
    <3>2. QED BY <1>6, <1>7, <1>8, <2>1, <2>2, <3>1, SameTables DEF Sound
  <2>3. CASE hit # Miss /\ q \notin doubtful'
    <3>1. <<c, k>> \notin unreached /\ ~Due(c, k)
      BY <1>1, <2>3
    <3>2. Holds(k, hit)
      BY <1>3, <2>3, <3>1 DEF IInv, EntriesCurrent, hit
    <3>3. QED BY <1>6, <1>7, <1>8, <2>1, <2>3, <3>2, SameTables DEF Sound
  <2>4. CASE q \in doubtful'
    BY <2>4 DEF Sound
  <2>5. QED BY <2>2, <2>3, <2>4
<1>11. /\ req[q].pc \notin Clearing
       /\ \A i \in Requests : i # q => (i \in doubtful' <=> i \in doubtful)
  BY <1>1 DEF Idle, Clearing
<1>12. QED BY <1>1, <1>2, <1>5, <1>9, <1>10, <1>11, LookStep

LEMMA DecideInv ==
  ASSUME IInv, NEW q \in Requests, Decide(q)
  PROVE  IInv'
<1> DEFINE r == req[q]
           k == KeyOf(r)
           n == IF CanManage(r.result) THEN At(r, "manager")
                ELSE IF CanRead(r.result) THEN At(r, "reader") ELSE Idle
<1>1. /\ r.pc = "decide" /\ req' = [req EXCEPT ![q] = n]
      /\ UNCHANGED <<exists, rows, patterns, members, writes, left, cache, unreached, faults>>
      /\ doubtful' = IF req'[q] = Idle THEN doubtful \ {q} ELSE doubtful
  BY DEF Decide, Reads, Untouched
<1>2. /\ TypeOK /\ faults' \in 0 .. MaxFaults /\ doubtful' \subseteq Requests
      /\ Placed(q) /\ Sound(q)
  BY <1>1 DEF IInv, TypeOK, ReqInv
<1>3. r \in Request /\ r.user \in Users /\ r.result \in Levels
  BY <1>1, <1>2, Busy DEF Placed, Lookups
<1>4. \A pc \in Stages : /\ At(r, pc) \in Request /\ At(r, pc).pc = pc
                         /\ At(r, pc).user = r.user /\ KeyOf(At(r, pc)) = k
                         /\ At(r, pc).result = r.result
  BY <1>3 DEF At, Request, KeyOf
<1>5. "manager" \in Stages /\ "reader" \in Stages
  BY DEF Stages
<1>6. n \in {Idle} \cup Request
  BY <1>4, <1>5
<1>7. req'[q] = n
  BY <1>1, <1>2, <1>6, ReqStep
<1>8. UNCHANGED tables
  BY <1>1 DEF tables
<1>9. Placed(q)' /\ Sound(q)'
  <2>1. CASE n = Idle
    BY <1>7, <2>1, IdleInv
  <2>2. CASE CanManage(r.result) /\ n = At(r, "manager")
    <3>1. n.pc = "manager" /\ KeyOf(n) = k
      BY <1>4, <1>5, <2>2
    <3>2. q \notin doubtful' => Holds(k, "MANAGE")
      <4>1. doubtful' = doubtful
        BY <1>1, <1>7, <3>1, IdlePc
      <4>2. r.result = "MANAGE"
        BY <2>2 DEF CanManage
      <4>3. QED BY <1>1, <1>2, <4>1, <4>2 DEF Sound
    <3> HIDE DEF n, k
    <3>3. Placed(q)'
      BY <1>7, <3>1 DEF Placed, Lookups
    <3>4. Sound(q)'
      BY <1>1, <1>7, <1>8, <3>1, <3>2, SameTables DEF Sound
    <3>5. QED BY <3>3, <3>4
  <2>3. CASE CanRead(r.result) /\ n = At(r, "reader")
    <3>1. n.pc = "reader" /\ KeyOf(n) = k /\ n.user \in Users
      BY <1>3, <1>4, <1>5, <2>3
    <3>2. q \notin doubtful' => \E l \in Levels \ {"NO_PERMISSIONS"} : Holds(k, l)
      <4>1. doubtful' = doubtful
        BY <1>1, <1>7, <3>1, IdlePc
      <4>2. r.result \in Levels \ {"NO_PERMISSIONS"}
        BY <1>3, <2>3 DEF CanRead
      <4>3. QED BY <1>1, <1>2, <4>1, <4>2 DEF Sound
    <3> HIDE DEF n, k
    <3>3. Placed(q)'
      BY <1>7, <3>1 DEF Placed, Lookups
    <3>4. Sound(q)'
      BY <1>1, <1>7, <1>8, <3>1, <3>2, SameTables DEF Sound
    <3>5. QED BY <3>3, <3>4
  <2>4. QED BY <2>1, <2>2, <2>3
<1> HIDE DEF n
<1>10. /\ req[q].pc \notin Clearing
       /\ \A i \in Requests : i # q => (i \in doubtful' <=> i \in doubtful)
  BY <1>1 DEF Clearing
<1>11. QED BY <1>1, <1>2, <1>6, <1>9, <1>10, LookStep

LEMMA StoreInv ==
  ASSUME IInv, NEW q \in Requests, Store(q)
  PROVE  IInv'
<1> DEFINE r == req[q]
           c == r.cache
           k == KeyOf(r)
           n == At(r, "decide")
<1>1. /\ r.pc = "store" /\ req' = [req EXCEPT ![q] = n]
      /\ cache' = [cache EXCEPT ![c] = [@ EXCEPT ![k] = r.result]]
      /\ unreached' = IF q \in doubtful THEN unreached \cup {<<c, k>>}
                      ELSE unreached \ {<<c, k>>}
      /\ UNCHANGED <<exists, rows, patterns, members, writes, left, faults, doubtful>>
  BY DEF Store, Reads, Untouched
<1>2. TypeOK /\ EntriesCurrent /\ Placed(q) /\ Sound(q)
  BY DEF IInv, ReqInv
<1>3. /\ r \in Request /\ c \in Caches /\ r.user \in Users /\ r.workspace \in Workspaces
      /\ r.result \in Levels
  BY <1>1, <1>2, Busy DEF Placed, Lookups
<1>4. k \in Key
  BY <1>3 DEF KeyOf, Key
<1>5. /\ n \in Request /\ n.pc = "decide" /\ n.user = r.user /\ n.result = r.result
      /\ KeyOf(n) = k
  BY <1>3 DEF At, Request, Stages, Lookups, KeyOf
<1> HIDE DEF n, k
<1>6. req'[q] = n /\ req' \in [Requests -> {Idle} \cup Request]
  BY <1>1, <1>2, <1>5, ReqStep
<1>7. UNCHANGED tables
  BY <1>1 DEF tables
<1>8. Placed(q)'
  BY <1>3, <1>5, <1>6 DEF Placed
<1>9. q \notin doubtful => Holds(k, r.result)
  BY <1>1, <1>2 DEF Sound, k
<1>10. Sound(q)'
  BY <1>1, <1>5, <1>6, <1>7, <1>9, SameTables DEF Sound
<1>11. ReqInv'
  BY <1>1, <1>7, <1>8, <1>10, QuietReq
<1>12. /\ cache' \in [Caches -> [Key -> Levels \cup {Miss}]]
       /\ cache'[c][k] = r.result
       /\ \A d \in Caches, m \in Key : d # c \/ m # k => cache'[d][m] = cache[d][m]
  BY <1>1, <1>2, <1>3, <1>4 DEF TypeOK
<1>13. unreached' \subseteq Caches \X Key
  BY <1>1, <1>2, <1>3, <1>4 DEF TypeOK
<1>14. TypeOK'
  BY <1>1, <1>2, <1>6, <1>12, <1>13 DEF TypeOK
<1>15. \A d, m : Due(d, m) => Due(d, m)'
  BY <1>1, <1>2, DueStays DEF Clearing
<1>16. EntriesCurrent'
  <2> SUFFICES ASSUME NEW d \in Caches, NEW m \in Key
               PROVE  \/ cache'[d][m] = Miss \/ <<d, m>> \in unreached' \/ Due(d, m)'
                      \/ Holds(m, cache[d][m])'
    BY DEF EntriesCurrent
  <2>1. CASE d = c /\ m = k
    BY <1>1, <1>7, <1>9, <1>12, <2>1, SameTables
  <2>2. CASE d # c \/ m # k
    <3>1. <<d, m>> # <<c, k>>
      BY <2>2
    <3>2. cache'[d][m] = cache[d][m] /\ (<<d, m>> \in unreached => <<d, m>> \in unreached')
      BY <1>1, <1>12, <2>2, <3>1
    <3>3. QED BY <1>2, <1>7, <1>15, <3>2, SameTables DEF EntriesCurrent
  <2>3. QED BY <2>1, <2>2
<1>17. QED BY <1>11, <1>14, <1>16 DEF IInv

LEMMA RemoveInv ==
  ASSUME IInv, NEW q \in Requests, NEW B \in SUBSET Key, Remove(q, B)
  PROVE  IInv'
<1> DEFINE r == req[q]
           c == r.cache
           n == IF r.todo = B THEN Idle ELSE Without(r, B)
<1>1. /\ r.pc \in {"invalidate", "flush"} /\ req' = [req EXCEPT ![q] = n]
      /\ cache' = [cache EXCEPT ![c] = [k \in Key |-> IF k \in B THEN Miss ELSE cache[c][k]]]
      /\ unreached' = unreached \ ({c} \X B) /\ B \subseteq r.todo
      /\ UNCHANGED <<exists, rows, patterns, members, writes, left, faults, doubtful>>
  BY DEF Remove, Reads, Untouched
<1>2. TypeOK /\ EntriesCurrent
  BY DEF IInv
<1>3. r \in Request /\ c \in Caches /\ r.todo \in SUBSET Key
  BY <1>1, <1>2, Busy
<1>4. /\ Without(r, B) \in Request /\ Without(r, B).pc = r.pc /\ Without(r, B).cache = c
      /\ Without(r, B).todo = r.todo \ B
  BY <1>3 DEF Without, Request
<1>5. n \in {Idle} \cup Request
  BY <1>4
<1>6. /\ req'[q] = n /\ \A i \in Requests : i # q => req'[i] = req[i]
      /\ req' \in [Requests -> {Idle} \cup Request]
  BY <1>1, <1>2, <1>5, ReqStep
<1>7. UNCHANGED tables
  BY <1>1 DEF tables
<1>8. Placed(q)' /\ Sound(q)'
  <2>1. CASE n = Idle
    BY <1>6, <2>1, IdleInv
  <2>2. CASE n = Without(r, B)
    <3>1. n.pc \in {"invalidate", "flush"}
      BY <1>1, <1>4, <2>2
    <3> HIDE DEF n
    <3>2. QED BY <1>6, <3>1 DEF Placed, Sound, Lookups
  <2>3. QED BY <2>1, <2>2
<1>9. ReqInv'
  BY <1>1, <1>7, <1>8, QuietReq
<1>10. /\ cache' \in [Caches -> [Key -> Levels \cup {Miss}]]
       /\ \A k \in B : cache'[c][k] = Miss
       /\ \A d \in Caches, m \in Key : d # c \/ m \notin B => cache'[d][m] = cache[d][m]
  BY <1>1, <1>2, <1>3 DEF TypeOK
<1>11. TypeOK'
  BY <1>1, <1>2, <1>6, <1>10 DEF TypeOK
<1>12. EntriesCurrent'
  <2> SUFFICES ASSUME NEW d \in Caches, NEW m \in Key, d # c \/ m \notin B
               PROVE  \/ cache'[d][m] = Miss \/ <<d, m>> \in unreached' \/ Due(d, m)'
                      \/ Holds(m, cache[d][m])'
    BY <1>10 DEF EntriesCurrent
  <2>1. /\ cache'[d][m] = cache[d][m]
        /\ <<d, m>> \in unreached => <<d, m>> \in unreached'
    BY <1>1, <1>10
  <2>2. ASSUME Due(d, m) PROVE Due(d, m)'
    <3>1. PICK i \in Requests : /\ req[i].pc \in Clearing /\ req[i].cache = d
                                /\ m \in req[i].todo
      BY <2>2 DEF Due, Clearing
    <3>2. CASE i # q
      BY <1>6, <3>1, <3>2 DEF Due, Clearing
    <3>3. CASE i = q
      <4>1. m \notin B /\ r.todo # B
        BY <3>1, <3>3
      <4>2. req'[q].pc = r.pc /\ req'[q].cache = d /\ m \in req'[q].todo
        BY <1>4, <1>6, <3>1, <3>3, <4>1
      <4>3. QED BY <3>1, <3>3, <4>2 DEF Due, Clearing
    <3>4. QED BY <3>2, <3>3
  <2>3. QED BY <1>2, <1>7, <2>1, <2>2, SameTables DEF EntriesCurrent
<1>13. QED BY <1>9, <1>11, <1>12 DEF IInv

LEMMA ExpireInv ==
  ASSUME IInv, NEW c \in Caches, NEW k \in Key, Expire(c, k)
  PROVE  IInv'
<1>1. /\ cache' = [cache EXCEPT ![c] = [@ EXCEPT ![k] = Miss]]
      /\ unreached' = unreached \ {<<c, k>>}
      /\ UNCHANGED <<exists, rows, patterns, members, writes, left, faults, doubtful, req>>
  BY DEF Expire, Reads, Untouched
<1>2. TypeOK /\ ReqInv /\ EntriesCurrent /\ UNCHANGED tables
  BY <1>1 DEF IInv, tables
<1>3. /\ cache' \in [Caches -> [Key -> Levels \cup {Miss}]]
      /\ cache'[c][k] = Miss
      /\ \A d \in Caches, m \in Key : d # c \/ m # k => cache'[d][m] = cache[d][m]
  BY <1>1, <1>2 DEF TypeOK
<1>4. TypeOK'
  BY <1>1, <1>2, <1>3 DEF TypeOK
<1>5. ReqInv'
  BY <1>1, <1>2, SameTables DEF ReqInv, Placed, Sound
<1>6. \A d, m : Due(d, m) => Due(d, m)'
  BY <1>1 DEF Due
<1>7. EntriesCurrent'
  <2> SUFFICES ASSUME NEW d \in Caches, NEW m \in Key, d # c \/ m # k
               PROVE  \/ cache'[d][m] = Miss \/ <<d, m>> \in unreached' \/ Due(d, m)'
                      \/ Holds(m, cache[d][m])'
    BY <1>3 DEF EntriesCurrent
  <2>1. /\ cache'[d][m] = cache[d][m]
        /\ <<d, m>> \in unreached => <<d, m>> \in unreached'
    BY <1>1, <1>3
  <2>2. QED BY <1>2, <1>6, <2>1, SameTables DEF EntriesCurrent
<1>8. QED BY <1>4, <1>5, <1>7 DEF IInv

-----------------------------------------------------------------------------
(* Writes                                                                  *)

(* What a request has found survives a write that does not concern it.     *)
LEMMA SoundThrough ==
  ASSUME TypeOK, NEW i \in Requests, Placed(i), Sound(i), req'[i] = req[i],
         i \in doubtful \cup Using(Affected) => i \in doubtful',
         req[i].pc = "group-patterns" /\ i \notin doubtful' =>
           members'[req[i].user] = members[req[i].user]
  PROVE  Placed(i)' /\ Sound(i)'
<1> DEFINE r == req[i]
<1>1. Placed(i)'
  BY DEF Placed
<1>2. Sound(i)'
  <2> SUFFICES ASSUME i \notin doubtful',
                      r.pc \in Lookups \cup {"reader", "manager"},
                      r.pc = "manager" => r.user # Admin
               PROVE  Sound(i)'
    BY DEF Sound, Lookups
  <2>1. r.user \in Users /\ r.workspace \in Workspaces
    <3>1. r.pc # "idle"
      BY DEF Lookups
    <3>2. QED BY <3>1, Busy DEF Placed, People
  <2>2. PICK k \in Key : k = KeyOf(r)
    BY <2>1 DEF KeyOf, Key
  <2>3. k \notin Affected
    BY <2>2 DEF Using
  <2>4. /\ \A j : NothingBefore(k, j)' <=> NothingBefore(k, j)
        /\ \A l : Holds(k, l)' <=> Holds(k, l)
    BY <2>3, SameAnswers
  <2>5. KeyOf(req'[i]) = k
    BY <2>2
  <2>6. QED BY <2>2, <2>4, <2>5 DEF Sound
<1>3. QED BY <1>1, <1>2

(* An entry is right, known to be unreached, or due, as before.            *)
LEMMA EntriesThrough ==
  ASSUME EntriesCurrent, UNCHANGED cache, \A c, k : Due(c, k) => Due(c, k)',
         unreached \subseteq unreached',
         \A c \in Caches, k \in Affected : <<c, k>> \in unreached' \/ Due(c, k)'
  PROVE  EntriesCurrent'
<1> SUFFICES ASSUME NEW c \in Caches, NEW k \in Key
             PROVE  \/ cache'[c][k] = Miss \/ <<c, k>> \in unreached' \/ Due(c, k)'
                    \/ Holds(k, cache[c][k])'
  BY DEF EntriesCurrent
<1>1. CASE k \in Affected
  BY <1>1
<1>2. CASE k \notin Affected
  BY <1>2, SameAnswers DEF EntriesCurrent
<1>3. QED BY <1>1, <1>2

(* A write of a request: it is to remove the entries of todo.              *)
LEMMA WriteStep ==
  ASSUME IInv, NEW q \in Requests, NEW n \in {Idle} \cup Request,
         req' = [req EXCEPT ![q] = n], n.pc \in Clearing \cup {"idle"},
         n.pc \in {"grant", "wipe-users", "wipe-groups"} => n.todo = Key,
         NEW todo \in SUBSET Key, Committed(q, req[q].cache, todo),
         todo # {} => n.pc \in Clearing /\ n.cache = req[q].cache /\ todo \subseteq n.todo,
         req[q].pc \in Clearing =>
           n.pc \in Clearing /\ n.cache = req[q].cache /\ req[q].todo \subseteq n.todo,
         members' = members, exists' \subseteq Workspaces,
         rows' \in [Subjects \X Workspaces -> Levels \cup {NoRow}],
         patterns' \in [Users \cup Groups -> SUBSET Patterns],
         writes' \in 0 .. MaxWrites, left' \subseteq Subjects \X Workspaces
  PROVE  IInv'
<1> DEFINE c == req[q].cache
<1>1. TypeOK /\ ReqInv /\ EntriesCurrent
  BY DEF IInv
<1>2. /\ req'[q] = n /\ \A i \in Requests : i # q => req'[i] = req[i]
      /\ req' \in [Requests -> {Idle} \cup Request]
  BY <1>1, ReqStep
<1>3. /\ doubtful' = (doubtful \cup Using(Affected)) \ {q}
      /\ unreached' = unreached \cup {e \in Caches \X Affected : ~(e[1] = c /\ e[2] \in todo)}
      /\ UNCHANGED <<cache, faults>>
  BY DEF Committed
<1>4. Affected \subseteq Key /\ Using(Affected) \subseteq Requests
  BY DEF Affected, Using
<1>5. unreached' \subseteq Caches \X Key /\ doubtful' \subseteq Requests
  BY <1>1, <1>3, <1>4 DEF TypeOK
<1>6. TypeOK'
  BY <1>1, <1>2, <1>3, <1>5 DEF TypeOK
<1>7. Placed(q)' /\ Sound(q)'
  BY <1>2 DEF Placed, Sound, Clearing, Lookups
<1>8. ASSUME NEW i \in Requests, i # q PROVE Placed(i)' /\ Sound(i)'
  <2>1. i \in doubtful \cup Using(Affected) => i \in doubtful'
    BY <1>3, <1>8
  <2>2. QED BY <1>1, <1>2, <1>8, <2>1, SoundThrough DEF ReqInv
<1>9. \A d, k : Due(d, k) => Due(d, k)'
  BY <1>2 DEF Due, Clearing
<1>10. \A k \in todo : Due(c, k)'
  BY <1>2 DEF Due, Clearing
<1>11. ASSUME NEW d \in Caches, NEW k \in Affected PROVE <<d, k>> \in unreached' \/ Due(d, k)'
  BY <1>3, <1>10
<1>12. EntriesCurrent'
  BY <1>1, <1>3, <1>9, <1>11, EntriesThrough
<1>13. QED BY <1>6, <1>7, <1>8, <1>12 DEF IInv, ReqInv

LEMMA CountedType ==
  ASSUME TypeOK, Counted
  PROVE  writes' \in 0 .. MaxWrites
BY WorkspaceAssumption DEF TypeOK, Counted

LEMMA UserRowWrittenInv ==
  ASSUME IInv, NEW q \in Requests, req[q].pc = "manager",
         NEW v \in People, NEW l \in Levels \cup {NoRow},
         rows' = [rows EXCEPT ![<<v, req[q].workspace>>] = l], UserRowWritten(q, v, l)
  PROVE  IInv'
<1> DEFINE r == req[q]
           todo == {<<v, r.workspace>>} \cap Key
           n == [r EXCEPT !.pc = "invalidate", !.todo = todo]
<1>1. TypeOK
  BY DEF IInv
<1>2. r \in Request /\ r.workspace \in Workspaces
  BY <1>1, Busy
<1>3. /\ req' = [req EXCEPT ![q] = n] /\ Counted /\ UNCHANGED <<exists, patterns, members>>
      /\ Noted(v, r.workspace, l)
  BY DEF UserRowWritten, ThenInvalidate
<1>4. /\ n \in Request /\ n.pc = "invalidate" /\ n.cache = r.cache /\ n.todo = todo
      /\ todo \in SUBSET Key
  BY <1>2 DEF Request, Stages
<1>5. Committed(q, r.cache, todo)
  <2>1. \A e \in Caches \X Affected : e[2] \in {<<v, r.workspace>>} <=> e[2] \in todo
    BY DEF Affected
  <2>2. QED BY <2>1 DEF UserRowWritten, Committed
<1> HIDE DEF n, todo
<1>6. rows' \in [Subjects \X Workspaces -> Levels \cup {NoRow}]
  BY <1>1 DEF TypeOK
<1>7. <<v, r.workspace>> \in Subjects \X Workspaces
  BY <1>2 DEF Subjects
<1>8. left' \subseteq Subjects \X Workspaces
  BY <1>1, <1>3, <1>7 DEF TypeOK, Noted
<1>9. writes' \in 0 .. MaxWrites
  BY <1>1, <1>3, CountedType
<1>10. exists' \subseteq Workspaces /\ patterns' \in [Users \cup Groups -> SUBSET Patterns]
  BY <1>1, <1>3 DEF TypeOK
<1>11. n.pc \in Clearing /\ n.pc \notin {"grant", "wipe-users", "wipe-groups"} /\ r.pc \notin Clearing
  BY <1>4 DEF Clearing
<1>12. QED BY <1>3, <1>4, <1>5, <1>6, <1>8, <1>9, <1>10, <1>11, WriteStep

LEMMA UserPermissionInv ==
  ASSUME IInv, NEW q \in Requests, NEW v \in People,
         \/ \E l \in Levels : CreateUserPermission(q, v, l) \/ UpdateUserPermission(q, v, l)
         \/ DeleteUserPermission(q, v)
  PROVE  IInv'
BY UserRowWrittenInv DEF CreateUserPermission, UpdateUserPermission, DeleteUserPermission,
   CreateRow, ChangeRow, DeleteRow

LEMMA GroupRowWrittenInv ==
  ASSUME IInv, NEW q \in Requests, req[q].pc = "manager",
         NEW g \in Groups, NEW l \in Levels \cup {NoRow},
         rows' = [rows EXCEPT ![<<g, req[q].workspace>>] = l], GroupRowWritten(q, g, l)
  PROVE  IInv'
<1> DEFINE r == req[q]
<1>1. TypeOK
  BY DEF IInv
<1>2. r \in Request /\ r.workspace \in Workspaces
  BY <1>1, Busy
<1>3. /\ req' = [req EXCEPT ![q] = Idle] /\ Counted /\ UNCHANGED <<exists, patterns, members>>
      /\ Noted(g, r.workspace, l) /\ Committed(q, r.cache, {})
  BY DEF GroupRowWritten
<1>4. rows' \in [Subjects \X Workspaces -> Levels \cup {NoRow}]
  BY <1>1 DEF TypeOK
<1>5. <<g, r.workspace>> \in Subjects \X Workspaces
  BY <1>2 DEF Subjects
<1>6. left' \subseteq Subjects \X Workspaces
  BY <1>1, <1>3, <1>5 DEF TypeOK, Noted
<1>7. writes' \in 0 .. MaxWrites
  BY <1>1, <1>3, CountedType
<1>8. exists' \subseteq Workspaces /\ patterns' \in [Users \cup Groups -> SUBSET Patterns]
  BY <1>1, <1>3 DEF TypeOK
<1>9. /\ Idle.pc \in Clearing \cup {"idle"} /\ Idle.pc \notin {"grant", "wipe-users", "wipe-groups"}
      /\ r.pc \notin Clearing
  BY DEF Clearing, Idle
<1>10. {} \in SUBSET Key
  OBVIOUS
<1>11. QED BY <1>3, <1>4, <1>6, <1>7, <1>8, <1>9, <1>10, WriteStep

LEMMA GroupPermissionInv ==
  ASSUME IInv, NEW q \in Requests, NEW g \in Groups,
         \/ \E l \in Levels : CreateGroupPermission(q, g, l) \/ UpdateGroupPermission(q, g, l)
         \/ DeleteGroupPermission(q, g)
  PROVE  IInv'
BY GroupRowWrittenInv DEF CreateGroupPermission, UpdateGroupPermission, DeleteGroupPermission,
   CreateRow, ChangeRow, DeleteRow

LEMMA PatternsWrittenInv ==
  ASSUME IInv, NEW q \in Requests, NEW s \in Users \cup Groups, NEW ps \in SUBSET Patterns,
         PatternsWritten(q, s, ps)
  PROVE  IInv'
<1> DEFINE r == req[q]
           n == [r EXCEPT !.pc = "flush", !.todo = Key]
<1>1. TypeOK /\ r.pc = "manager"
  BY DEF IInv, PatternsWritten
<1>2. r \in Request
  BY <1>1, Busy
<1>3. /\ req' = [req EXCEPT ![q] = n] /\ Counted /\ UNCHANGED <<exists, rows, members, left>>
      /\ patterns' = [patterns EXCEPT ![s] = ps] /\ Committed(q, r.cache, Key)
  BY DEF PatternsWritten, ThenFlush
<1>4. n \in Request /\ n.pc = "flush" /\ n.cache = r.cache /\ n.todo = Key
  BY <1>2 DEF Request, Stages
<1> HIDE DEF n
<1>5. writes' \in 0 .. MaxWrites
  BY <1>1, <1>3, CountedType
<1>6. /\ exists' \subseteq Workspaces /\ patterns' \in [Users \cup Groups -> SUBSET Patterns]
      /\ rows' \in [Subjects \X Workspaces -> Levels \cup {NoRow}]
      /\ left' \subseteq Subjects \X Workspaces /\ Key \in SUBSET Key
  BY <1>1, <1>3 DEF TypeOK
<1>7. n.pc \in Clearing /\ r.pc \notin Clearing
  BY <1>1, <1>4 DEF Clearing
<1>8. QED BY <1>3, <1>4, <1>5, <1>6, <1>7, WriteStep

LEMMA PatternInv ==
  ASSUME IInv, NEW q \in Requests,
         \/ \E v \in Users : WriteUserPattern(q, v)
         \/ \E g \in Groups : WriteGroupPattern(q, g)
  PROVE  IInv'
<1>1. \A s \in Users \cup Groups : OneEntryOff(patterns[s]) \subseteq SUBSET Patterns
  <2> SUFFICES ASSUME NEW s \in Users \cup Groups
               PROVE  OneEntryOff(patterns[s]) \subseteq SUBSET Patterns
    OBVIOUS
  <2>1. patterns[s] \in SUBSET Patterns
    BY DEF IInv, TypeOK
  <2>2. QED BY <2>1 DEF OneEntryOff
<1>2. QED BY <1>1, PatternsWrittenInv DEF WriteUserPattern, WriteGroupPattern

LEMMA CreateWorkspaceInv ==
  ASSUME IInv, NEW q \in Requests, CreateWorkspace(q)
  PROVE  IInv'
<1> DEFINE r == req[q]
           n == [r EXCEPT !.pc = "grant", !.todo = Key]
<1>1. TypeOK /\ r.pc = "manager"
  BY DEF IInv, CreateWorkspace
<1>2. r \in Request /\ r.workspace \in Workspaces
  BY <1>1, Busy
<1>3. /\ req' = [req EXCEPT ![q] = n] /\ Counted /\ exists' = exists \cup {r.workspace}
      /\ UNCHANGED <<rows, patterns, members, cache, faults, doubtful, unreached, left>>
  BY DEF CreateWorkspace, ThenFlush, tables, history
<1>4. n \in Request /\ n.pc = "grant" /\ n.todo = Key
  BY <1>2 DEF Request, Stages
<1> HIDE DEF n
<1>5. writes' \in 0 .. MaxWrites
  BY <1>1, <1>3, CountedType
<1>6. /\ exists' \subseteq Workspaces /\ left' \subseteq Subjects \X Workspaces
      /\ faults' \in 0 .. MaxFaults /\ doubtful' \subseteq Requests
  BY <1>1, <1>2, <1>3 DEF TypeOK
<1>7. Placed(q)' /\ Sound(q)'
  <2>1. req'[q] = n
    BY <1>1, <1>3, ReqStep
  <2>2. QED BY <1>4, <2>1 DEF Placed, Sound, Lookups
<1>8. \A c, k : Due(c, k) => Due(c, k)'
  BY <1>1, <1>3, DueStays DEF Clearing
<1>9. QED BY <1>3, <1>4, <1>5, <1>6, <1>7, <1>8, QuietStep

LEMMA DeleteWorkspaceInv ==
  ASSUME IInv, NEW q \in Requests, DeleteWorkspace(q)
  PROVE  IInv'
<1> DEFINE r == req[q]
           n == [r EXCEPT !.pc = "wipe-users", !.todo = Key]
<1>1. TypeOK /\ r.pc = "manager"
  BY DEF IInv, DeleteWorkspace
<1>2. r \in Request
  BY <1>1, Busy
<1>3. /\ req' = [req EXCEPT ![q] = n] /\ Counted /\ exists' = exists \ {r.workspace}
      /\ doubtful' = doubtful \ {q}
      /\ UNCHANGED <<rows, patterns, members, cache, faults, unreached, left>>
  BY DEF DeleteWorkspace, ThenFlush, tables
<1>4. n \in Request /\ n.pc = "wipe-users" /\ n.todo = Key
  BY <1>2 DEF Request, Stages
<1> HIDE DEF n
<1>5. writes' \in 0 .. MaxWrites
  BY <1>1, <1>3, CountedType
<1>6. /\ exists' \subseteq Workspaces /\ left' \subseteq Subjects \X Workspaces
      /\ faults' \in 0 .. MaxFaults /\ doubtful' \subseteq Requests
  BY <1>1, <1>3 DEF TypeOK
<1>7. Placed(q)' /\ Sound(q)'
  <2>1. req'[q] = n
    BY <1>1, <1>3, ReqStep
  <2>2. QED BY <1>4, <2>1 DEF Placed, Sound, Lookups
<1>8. \A c, k : Due(c, k) => Due(c, k)'
  BY <1>1, <1>3, DueStays DEF Clearing
<1>9. \A i \in Requests : i # q => (i \in doubtful' <=> i \in doubtful)
  BY <1>3
<1>10. QED BY <1>3, <1>4, <1>5, <1>6, <1>7, <1>8, <1>9, QuietStep

(* The stages of a creation and a deletion keep what is to be removed.     *)
LEMMA NextStage ==
  ASSUME IInv, NEW q \in Requests, req[q].pc \in {"grant", "wipe-users", "wipe-groups"},
         NEW next \in {"wipe-groups", "flush"}
  PROVE  /\ At(req[q], next) \in Request /\ At(req[q], next).pc = next
         /\ At(req[q], next).cache = req[q].cache /\ At(req[q], next).todo = Key
         /\ req[q].todo = Key /\ req[q].user \in People /\ req[q].workspace \in Workspaces
<1>1. req[q] \in Request /\ req[q].user \in People /\ req[q].workspace \in Workspaces
  BY Busy DEF IInv
<1>2. req[q].todo = Key
  BY DEF IInv, ReqInv, Placed
<1>3. QED BY <1>1, <1>2 DEF At, Request, Stages

LEMMA GrantCreatorInv ==
  ASSUME IInv, NEW q \in Requests, GrantCreator(q)
  PROVE  IInv'
<1> DEFINE r == req[q]
           n == At(r, "flush")
<1>1. /\ r.pc = "grant" /\ req' = [req EXCEPT ![q] = n] /\ Committed(q, r.cache, Key)
      /\ UNCHANGED <<exists, patterns, members, writes>> /\ TypeOK
  BY DEF IInv, GrantCreator
<1>2. /\ n \in Request /\ n.pc = "flush" /\ n.cache = r.cache /\ n.todo = Key
      /\ r.todo = Key /\ r.user \in People /\ r.workspace \in Workspaces
  BY <1>1, NextStage
<1> HIDE DEF n
<1>3. <<r.user, r.workspace>> \in Subjects \X Workspaces
  BY <1>2 DEF Subjects
<1>4. rows' \in [Subjects \X Workspaces -> Levels \cup {NoRow}]
  <2>1. "MANAGE" \in Levels \cup {NoRow}
    BY WorkspaceAssumption
  <2>2. QED BY <1>1, <2>1 DEF GrantCreator, CreateRow, TypeOK
<1>5. left' \subseteq Subjects \X Workspaces
  BY <1>1, <1>3 DEF GrantCreator, Noted, TypeOK
<1>6. /\ exists' \subseteq Workspaces /\ patterns' \in [Users \cup Groups -> SUBSET Patterns]
      /\ writes' \in 0 .. MaxWrites /\ Key \in SUBSET Key
  BY <1>1 DEF TypeOK
<1>7. n.pc \in Clearing
  BY <1>2 DEF Clearing
<1>8. QED BY <1>1, <1>2, <1>4, <1>5, <1>6, <1>7, WriteStep

LEMMA WipeInv ==
  ASSUME IInv, NEW q \in Requests, WipeUsers(q) \/ WipeGroups(q)
  PROVE  IInv'
<1> DEFINE r == req[q]
<1>1. PICK S \in {People, Groups}, next \in {"wipe-groups", "flush"} : Wipe(q, S, next)
  BY DEF WipeUsers, WipeGroups
<1> DEFINE n == At(r, next)
<1>2. r.pc \in {"wipe-users", "wipe-groups"}
  BY DEF WipeUsers, WipeGroups
<1>3. /\ req' = [req EXCEPT ![q] = n] /\ Committed(q, r.cache, Key)
      /\ rows' = WithoutRows(S, r.user, r.workspace) /\ left' = left \ (S \X {r.workspace})
      /\ UNCHANGED <<exists, patterns, members, writes>> /\ TypeOK
  BY <1>1 DEF IInv, Wipe
<1>4. n \in Request /\ n.pc = next /\ n.cache = r.cache /\ n.todo = Key /\ r.todo = Key
  BY <1>2, NextStage
<1> HIDE DEF n
<1>5. rows' \in [Subjects \X Workspaces -> Levels \cup {NoRow}]
  BY <1>3 DEF WithoutRows, TypeOK
<1>6. left' \subseteq Subjects \X Workspaces
  BY <1>3 DEF TypeOK
<1>7. /\ exists' \subseteq Workspaces /\ patterns' \in [Users \cup Groups -> SUBSET Patterns]
      /\ writes' \in 0 .. MaxWrites /\ Key \in SUBSET Key
  BY <1>3 DEF TypeOK
<1>8. n.pc \in Clearing
  BY <1>4 DEF Clearing
<1>9. QED BY <1>3, <1>4, <1>5, <1>6, <1>7, <1>8, WriteStep

LEMMA WipeFailsInv ==
  ASSUME IInv, NEW q \in Requests, WipeFails(q)
  PROVE  IInv'
<1> DEFINE r == req[q]
           n == At(r, "flush")
<1>1. /\ r.pc \in {"wipe-users", "wipe-groups"} /\ req' = [req EXCEPT ![q] = n] /\ TypeOK
      /\ left' \subseteq left \cup DOMAIN rows
      /\ UNCHANGED <<exists, rows, patterns, members, cache, writes, faults, doubtful, unreached>>
  BY DEF IInv, WipeFails, tables
<1>2. n \in Request /\ n.pc = "flush" /\ n.cache = r.cache /\ n.todo = Key /\ r.todo = Key
  BY <1>1, NextStage
<1> HIDE DEF n
<1>3. req'[q] = n /\ \A i \in Requests : i # q => req'[i] = req[i]
  BY <1>1, <1>2, ReqStep
<1>4. Placed(q)' /\ Sound(q)'
  BY <1>2, <1>3 DEF Placed, Sound, Lookups
<1>5. /\ exists' \subseteq Workspaces /\ writes' \in 0 .. MaxWrites
      /\ left' \subseteq Subjects \X Workspaces
      /\ faults' \in 0 .. MaxFaults /\ doubtful' \subseteq Requests
  BY <1>1 DEF TypeOK
<1>6. \A c, k : Due(c, k) => Due(c, k)'
  BY <1>2, <1>3 DEF Due
<1>7. QED BY <1>1, <1>2, <1>4, <1>5, <1>6, QuietStep

(* A write past the requests: nothing removes the entries it makes stale.  *)
LEMMA LoginStep ==
  ASSUME IInv, UNCHANGED <<cache, req, faults>>, doubtful' \subseteq Requests,
         doubtful \cup Using(Affected) \subseteq doubtful',
         unreached' = unreached \cup (Caches \X Affected),
         \A i \in Requests : req[i].pc = "group-patterns" /\ i \notin doubtful' =>
           members'[req[i].user] = members[req[i].user],
         exists' \subseteq Workspaces,
         rows' \in [Subjects \X Workspaces -> Levels \cup {NoRow}],
         patterns' \in [Users \cup Groups -> SUBSET Patterns],
         members' \in [Users -> SUBSET Groups],
         writes' \in 0 .. MaxWrites, left' \subseteq Subjects \X Workspaces
  PROVE  IInv'
<1>1. TypeOK /\ ReqInv /\ EntriesCurrent
  BY DEF IInv
<1>2. Affected \subseteq Key
  BY DEF Affected
<1>3. unreached' \subseteq Caches \X Key
  BY <1>1, <1>2 DEF TypeOK
<1>4. TypeOK'
  BY <1>1, <1>3 DEF TypeOK
<1>5. ASSUME NEW i \in Requests PROVE Placed(i)' /\ Sound(i)'
  BY <1>1, SoundThrough DEF ReqInv
<1>6. \A c, k : Due(c, k) => Due(c, k)'
  BY DEF Due
<1>7. EntriesCurrent'
  BY <1>1, <1>6, EntriesThrough
<1>8. QED BY <1>4, <1>5, <1>7 DEF IInv, ReqInv

(* A request of another user is not in the way of a login.                 *)
LEMMA OthersMembers ==
  ASSUME IInv, NEW u \in Users, NEW gs,
         members' = [members EXCEPT ![u] = gs],
         Using({u} \X Workspaces) \subseteq doubtful'
  PROVE  \A i \in Requests : req[i].pc = "group-patterns" /\ i \notin doubtful' =>
           members'[req[i].user] = members[req[i].user]
<1> SUFFICES ASSUME NEW i \in Requests, req[i].pc = "group-patterns", i \notin doubtful'
             PROVE  members'[req[i].user] = members[req[i].user]
  OBVIOUS
<1>1. req[i].user \in Users /\ req[i].workspace \in Workspaces
  BY Sourced
<1>2. req[i].user # u
  BY <1>1 DEF Using, KeyOf, Lookups
<1>3. QED BY <1>1, <1>2 DEF IInv, TypeOK

LEMMA SetGroupsInv ==
  ASSUME IInv, NEW u \in Users, NEW gs \in SUBSET Groups, SetGroups(u, gs)
  PROVE  IInv'
<1>1. /\ TypeOK /\ Counted /\ members' = [members EXCEPT ![u] = gs]
      /\ doubtful' = doubtful \cup Using({u} \X Workspaces)
      /\ unreached' = unreached \cup (Caches \X Affected)
      /\ UNCHANGED <<exists, rows, patterns, cache, req, faults, left>>
  BY DEF IInv, SetGroups
<1>2. Affected \subseteq {u} \X Workspaces
  <2> SUFFICES ASSUME NEW v \in Users, NEW w \in Workspaces, v # u
               PROVE  <<v, w>> \notin Affected
    BY DEF Affected, Key
  <2>1. members'[v] = members[v]
    BY <1>1 DEF TypeOK
  <2>2. \A s \in Sources : Answer(s, v, w)' = Answer(s, v, w)
    BY <1>1, <2>1 DEF Answer, Sources, GroupRow, PatternsOf
  <2>3. QED BY <2>2 DEF Affected
<1>3. Using(Affected) \subseteq Using({u} \X Workspaces)
  BY <1>2 DEF Using
<1>4. /\ doubtful \cup Using(Affected) \subseteq doubtful'
      /\ Using({u} \X Workspaces) \subseteq doubtful' /\ doubtful' \subseteq Requests
  BY <1>1, <1>3 DEF Using, TypeOK
<1>5. \A i \in Requests : req[i].pc = "group-patterns" /\ i \notin doubtful' =>
        members'[req[i].user] = members[req[i].user]
  BY <1>1, <1>4, OthersMembers
<1>6. writes' \in 0 .. MaxWrites
  BY <1>1, CountedType
<1>7. /\ exists' \subseteq Workspaces /\ rows' \in [Subjects \X Workspaces -> Levels \cup {NoRow}]
      /\ patterns' \in [Users \cup Groups -> SUBSET Patterns]
      /\ members' \in [Users -> SUBSET Groups] /\ left' \subseteq Subjects \X Workspaces
  BY <1>1 DEF TypeOK
<1>8. QED BY <1>1, <1>4, <1>5, <1>6, <1>7, LoginStep

LEMMA LoginAssignsInv ==
  ASSUME IInv, NEW u \in Users, NEW w \in Workspaces, LoginAssigns(u, w)
  PROVE  IInv'
<1>1. /\ TypeOK /\ Counted /\ exists' \in {exists, exists \cup {w}}
      /\ doubtful' = doubtful \cup Using(Affected)
      /\ unreached' = unreached \cup (Caches \X Affected)
      /\ UNCHANGED <<patterns, members, cache, req, faults>>
      /\ rows' \in {rows, [rows EXCEPT ![<<u, w>>] = LoginLevel]}
      /\ left' \in {left, left \cup {<<u, w>>}}
  BY DEF IInv, LoginAssigns, CreateRow
<1>2. <<u, w>> \in Subjects \X Workspaces /\ LoginLevel \in Levels
  BY WorkspaceAssumption DEF Subjects, People
<1>3. rows' \in [Subjects \X Workspaces -> Levels \cup {NoRow}]
  BY <1>1, <1>2 DEF TypeOK
<1>4. left' \subseteq Subjects \X Workspaces /\ exists' \subseteq Workspaces
  BY <1>1, <1>2 DEF TypeOK
<1>5. doubtful' \subseteq Requests /\ doubtful \cup Using(Affected) \subseteq doubtful'
  BY <1>1 DEF TypeOK, Using
<1>6. writes' \in 0 .. MaxWrites
  BY <1>1, CountedType
<1>7. /\ patterns' \in [Users \cup Groups -> SUBSET Patterns]
      /\ members' \in [Users -> SUBSET Groups]
  BY <1>1 DEF TypeOK
<1>8. QED BY <1>1, <1>3, <1>4, <1>5, <1>6, <1>7, LoginStep

LEMMA DeleteUserInv ==
  ASSUME IInv, NEW u \in Users, DeleteUser(u)
  PROVE  IInv'
<1>1. /\ TypeOK /\ Counted /\ members' = [members EXCEPT ![u] = {}]
      /\ rows' = [sw \in DOMAIN rows |-> IF sw[1] = u THEN NoRow ELSE rows[sw]]
      /\ patterns' = [patterns EXCEPT ![u] = {}]
      /\ doubtful' = doubtful \cup Using({u} \X Workspaces)
      /\ unreached' = unreached \cup (Caches \X Affected)
      /\ UNCHANGED <<exists, cache, req, faults, left>>
  BY DEF IInv, DeleteUser
<1>2. Affected \subseteq {u} \X Workspaces
  <2> SUFFICES ASSUME NEW v \in Users, NEW w \in Workspaces, v # u
               PROVE  <<v, w>> \notin Affected
    BY DEF Affected, Key
  <2>1. /\ members'[v] = members[v] /\ patterns'[v] = patterns[v]
        /\ rows'[<<v, w>>] = rows[<<v, w>>] /\ members[v] \in SUBSET Groups
    BY <1>1 DEF TypeOK, Subjects, People
  <2>2. \A g \in members[v] : patterns'[g] = patterns[g] /\ rows'[<<g, w>>] = rows[<<g, w>>]
    BY <1>1, <2>1, WorkspaceAssumption DEF TypeOK, Subjects
  <2>3. GroupRow(v, w)' = GroupRow(v, w)
    BY <2>1, <2>2 DEF GroupRow
  <2>4. PatternsOf(members[v])' = PatternsOf(members[v])
    BY <2>1, <2>2 DEF PatternsOf
  <2>5. Answer("user", v, w)' = Answer("user", v, w) /\ Answer("group", v, w)' = Answer("group", v, w)
    BY <2>1, <2>3 DEF Answer
  <2>6. Answer("regex", v, w)' = Answer("regex", v, w)
    BY <2>1 DEF Answer
  <2>7. Answer("group-regex", v, w)' = Answer("group-regex", v, w)
    BY <2>4 DEF Answer
  <2>8. QED BY <2>5, <2>6, <2>7 DEF Affected, Sources
<1>3. Using(Affected) \subseteq Using({u} \X Workspaces)
  BY <1>2 DEF Using
<1>4. /\ doubtful \cup Using(Affected) \subseteq doubtful'
      /\ Using({u} \X Workspaces) \subseteq doubtful' /\ doubtful' \subseteq Requests
  BY <1>1, <1>3 DEF Using, TypeOK
<1>5. \A i \in Requests : req[i].pc = "group-patterns" /\ i \notin doubtful' =>
        members'[req[i].user] = members[req[i].user]
  BY <1>1, <1>4, OthersMembers
<1>6. writes' \in 0 .. MaxWrites
  BY <1>1, CountedType
<1>7. /\ exists' \subseteq Workspaces /\ rows' \in [Subjects \X Workspaces -> Levels \cup {NoRow}]
      /\ patterns' \in [Users \cup Groups -> SUBSET Patterns]
      /\ members' \in [Users -> SUBSET Groups] /\ left' \subseteq Subjects \X Workspaces
  BY <1>1 DEF TypeOK
<1>8. QED BY <1>1, <1>4, <1>5, <1>6, <1>7, LoginStep

-----------------------------------------------------------------------------
(* The invariant holds                                                     *)

LEMMA InitInv ==
  ASSUME Init
  PROVE  IInv
<1>1. TypeOK
  BY WorkspaceAssumption DEF Init, TypeOK
<1>2. ReqInv
  BY DEF Init, ReqInv, Placed, Sound, Idle, Lookups
<1>3. EntriesCurrent
  BY DEF Init, EntriesCurrent
<1>4. QED BY <1>1, <1>2, <1>3 DEF IInv

LEMMA StutterInv ==
  ASSUME IInv, UNCHANGED vars
  PROVE  IInv'
<1>1. /\ UNCHANGED <<exists, rows, patterns, members, cache, req, writes, faults>>
      /\ UNCHANGED <<doubtful, unreached, left>> /\ UNCHANGED tables
  BY DEF vars, tables
<1>2. TypeOK'
  BY <1>1 DEF IInv, TypeOK
<1>3. ReqInv'
  BY <1>1, SameTables DEF IInv, ReqInv, Placed, Sound
<1>4. EntriesCurrent'
  BY <1>1, SameTables DEF IInv, EntriesCurrent, Due
<1>5. QED BY <1>2, <1>3, <1>4 DEF IInv

LEMMA NextInv ==
  ASSUME IInv, Next
  PROVE  IInv'
<1>1. ASSUME NEW q \in Requests, Lookup(q) PROVE IInv'
  BY <1>1, AskInv, AskGroupsInv, AskGroupPatternsInv, SourceFailsInv, StopsInv, StoreInv,
     DecideInv DEF Lookup
<1>2. ASSUME NEW q \in Requests, Change(q) PROVE IInv'
  BY <1>2, UserPermissionInv, GroupPermissionInv, PatternInv, CreateWorkspaceInv,
     DeleteWorkspaceInv DEF Change
<1>3. ASSUME NEW q \in Requests, Aftermath(q) PROVE IInv'
  BY <1>3, GrantCreatorInv, WipeInv, WipeFailsInv, RemoveInv DEF Aftermath
<1>4. ASSUME NEW q \in Requests, Finish(q) PROVE IInv'
  BY <1>4, StopsInv
<1>5. ASSUME NEW q \in Requests, NEW c \in Caches, NEW w \in Workspaces,
             (\E u \in Users : Begin(q, c, u, w)) \/ AdminRequest(q, c, w)
      PROVE  IInv'
  BY <1>5, BeginInv, AdminRequestInv
<1>6. ASSUME NEW u \in Users, \/ \E gs \in SUBSET Groups : SetGroups(u, gs)
                              \/ \E w \in Workspaces : LoginAssigns(u, w)
                              \/ DeleteUser(u)
      PROVE  IInv'
  BY <1>6, SetGroupsInv, LoginAssignsInv, DeleteUserInv
<1>7. QED BY <1>1, <1>2, <1>3, <1>4, <1>5, <1>6, ExpireInv DEF Next

LEMMA Invariance == Spec => []IInv
<1>1. Init => IInv
  BY InitInv
<1>2. IInv /\ [Next]_vars => IInv'
  BY NextInv, StutterInv
<1>3. QED BY <1>1, <1>2, PTL DEF Spec

(* Each variable has its type; None is never stored in the cache.          *)
THEOREM TypeCorrect == Spec => []TypeOK
<1>1. IInv => TypeOK
  BY DEF IInv
<1>2. QED BY <1>1, Invariance, PTL

(* Every entry of the cache is what get_workspace_permission_cached would  *)
(* find now, is about to be removed by the invalidation of a route or hook,*)
(* or is one of those no invalidation reaches.                             *)
THEOREM EntriesAreCurrent == Spec => []EntriesCurrent
<1>1. IInv => EntriesCurrent
  BY DEF IInv
<1>2. QED BY <1>1, Invariance, PTL

(* A request past check_workspace_manage_permission has MANAGE, and one    *)
(* past the read check a permission to read, at the moment it acts, unless *)
(* a write overtook it, a source failed or a stale entry answered.         *)
THEOREM RequestsKeepTheirRight == Spec => []ManagersManage
<1>1. IInv => ManagersManage
  BY DEF IInv, ReqInv, Sound, ManagersManage
<1>2. QED BY <1>1, Invariance, PTL

-----------------------------------------------------------------------------
(* Nothing is left behind                                                  *)

(* Request q will wipe the row sw.                                         *)
WillWipe(q, sw) ==
  /\ req[q].pc = "wipe-users" \/ (req[q].pc = "wipe-groups" /\ sw[1] \in Groups)
  /\ req[q].workspace = sw[2]

(* Steps that neither write a row, delete a workspace nor end a wipe.      *)
LEMMA WipedKept ==
  ASSUME Wiped, NEW q \in Requests, rows' = rows, exists \subseteq exists',
         left \subseteq left', \A i \in Requests : i # q => req'[i] = req[i],
         req[q].pc \notin {"wipe-users", "wipe-groups"}
  PROVE  Wiped'
<1> SUFFICES ASSUME NEW sw \in Subjects \X Workspaces
             PROVE  \/ rows'[sw] = NoRow \/ sw[2] \in exists' \/ sw \in left'
                    \/ \E i \in Requests : WillWipe(i, sw)'
  BY DEF Wiped, WillWipe
<1>1. CASE rows[sw] = NoRow \/ sw[2] \in exists \/ sw \in left
  BY <1>1
<1>2. CASE \E i \in Requests : WillWipe(i, sw)
  BY <1>2 DEF WillWipe
<1>3. QED BY <1>1, <1>2 DEF Wiped, WillWipe

(* A row is written for a workspace that exists, or is noted.              *)
LEMMA WipedWritten ==
  ASSUME Wiped, NEW q \in Requests, NEW s \in Subjects, NEW w \in Workspaces, NEW l,
         rows'[<<s, w>>] = l,
         \A sw \in Subjects \X Workspaces : sw # <<s, w>> => rows'[sw] = rows[sw],
         l = NoRow \/ w \in exists' \/ <<s, w>> \in left',
         exists \subseteq exists', left \subseteq left',
         \A i \in Requests : i # q => req'[i] = req[i],
         req[q].pc \notin {"wipe-users", "wipe-groups"} \/ req'[q] = req[q]
  PROVE  Wiped'
<1> SUFFICES ASSUME NEW sw \in Subjects \X Workspaces
             PROVE  \/ rows'[sw] = NoRow \/ sw[2] \in exists' \/ sw \in left'
                    \/ \E i \in Requests : WillWipe(i, sw)'
  BY DEF Wiped, WillWipe
<1>1. CASE sw = <<s, w>>
  BY <1>1
<1>2. CASE sw # <<s, w>>
  <2>1. rows'[sw] = rows[sw]
    BY <1>2
  <2>2. CASE rows[sw] = NoRow \/ sw[2] \in exists \/ sw \in left
    BY <2>1, <2>2
  <2>3. CASE \E i \in Requests : WillWipe(i, sw)
    BY <2>3 DEF WillWipe
  <2>4. QED BY <2>2, <2>3 DEF Wiped, WillWipe
<1>3. QED BY <1>1, <1>2

LEMMA WipedLookup ==
  ASSUME TypeOK, Wiped, NEW q \in Requests, Lookup(q) \/ Finish(q)
  PROVE  Wiped'
<1>1. /\ UNCHANGED <<exists, rows, left>>
      /\ req[q].pc \notin {"wipe-users", "wipe-groups"}
      /\ \E n : req' = [req EXCEPT ![q] = n]
  BY DEF Lookup, Finish, AskUserRow, AskGroupRows, AskUserPatterns, AskGroups, AskGroupPatterns,
     SourceFails, NothingFound, Store, Decide, Asks, Told, Reads, Untouched
<1>2. \A i \in Requests : i # q => req'[i] = req[i]
  BY <1>1, ReqStep
<1>3. QED BY <1>1, <1>2, WipedKept

LEMMA WipedBegin ==
  ASSUME TypeOK, Wiped, NEW q \in Requests, NEW c \in Caches, NEW w \in Workspaces,
         (\E u \in Users : Begin(q, c, u, w)) \/ AdminRequest(q, c, w)
  PROVE  Wiped'
<1>1. /\ UNCHANGED <<exists, rows, left>> /\ req[q] = Idle
      /\ \E n : req' = [req EXCEPT ![q] = n]
  BY DEF Begin, AdminRequest, Reads, Untouched
<1>2. \A i \in Requests : i # q => req'[i] = req[i]
  BY <1>1, ReqStep
<1>3. req[q].pc \notin {"wipe-users", "wipe-groups"}
  BY <1>1 DEF Idle
<1>4. QED BY <1>1, <1>2, <1>3, WipedKept

LEMMA WipedRow ==
  ASSUME TypeOK, Wiped, NEW q \in Requests, NEW s \in Subjects, NEW l \in Levels \cup {NoRow},
         req[q].pc = "manager", rows' = [rows EXCEPT ![<<s, req[q].workspace>>] = l],
         Noted(s, req[q].workspace, l), exists' = exists, NEW n, req' = [req EXCEPT ![q] = n]
  PROVE  Wiped'
<1>1. PICK w \in Workspaces : w = req[q].workspace
  BY Busy
<1>2. /\ l = NoRow \/ w \in exists' \/ <<s, w>> \in left'
      /\ left \subseteq left'
  BY <1>1 DEF Noted
<1>3. \A i \in Requests : i # q => req'[i] = req[i]
  BY ReqStep
<1>4. req[q].pc \notin {"wipe-users", "wipe-groups"} /\ exists \subseteq exists'
  OBVIOUS
<1>5. /\ rows'[<<s, w>>] = l
      /\ \A sw \in Subjects \X Workspaces : sw # <<s, w>> => rows'[sw] = rows[sw]
  BY <1>1 DEF TypeOK
<1>6. QED BY <1>2, <1>3, <1>4, <1>5, WipedWritten

LEMMA WipedChange ==
  ASSUME TypeOK, Wiped, NEW q \in Requests, Change(q)
  PROVE  Wiped'
<1>1. CASE \E v \in People : \/ \E l \in Levels : CreateUserPermission(q, v, l)
                             \/ \E l \in Levels : UpdateUserPermission(q, v, l)
                             \/ DeleteUserPermission(q, v)
  <2>1. PICK v \in People, l \in Levels \cup {NoRow} :
          /\ req[q].pc = "manager" /\ rows' = [rows EXCEPT ![<<v, req[q].workspace>>] = l]
          /\ UserRowWritten(q, v, l)
    BY <1>1 DEF CreateUserPermission, UpdateUserPermission, DeleteUserPermission,
       CreateRow, ChangeRow, DeleteRow
  <2>2. v \in Subjects
    BY DEF Subjects
  <2>3. Noted(v, req[q].workspace, l) /\ exists' = exists /\ \E n : req' = [req EXCEPT ![q] = n]
    BY <2>1 DEF UserRowWritten, ThenInvalidate
  <2>4. QED BY <2>1, <2>2, <2>3, WipedRow
<1>2. CASE \E g \in Groups : \/ \E l \in Levels : CreateGroupPermission(q, g, l)
                             \/ \E l \in Levels : UpdateGroupPermission(q, g, l)
                             \/ DeleteGroupPermission(q, g)
  <2>1. PICK g \in Groups, l \in Levels \cup {NoRow} :
          /\ req[q].pc = "manager" /\ rows' = [rows EXCEPT ![<<g, req[q].workspace>>] = l]
          /\ GroupRowWritten(q, g, l)
    BY <1>2 DEF CreateGroupPermission, UpdateGroupPermission, DeleteGroupPermission,
       CreateRow, ChangeRow, DeleteRow
  <2>2. g \in Subjects
    BY DEF Subjects
  <2>3. Noted(g, req[q].workspace, l) /\ exists' = exists /\ \E n : req' = [req EXCEPT ![q] = n]
    BY <2>1 DEF GroupRowWritten
  <2>4. QED BY <2>1, <2>2, <2>3, WipedRow
<1>3. CASE \/ \E v \in Users : WriteUserPattern(q, v)
           \/ \E g \in Groups : WriteGroupPattern(q, g)
           \/ CreateWorkspace(q)
  <2>1. /\ UNCHANGED <<rows, left>> /\ exists \subseteq exists' /\ req[q].pc = "manager"
        /\ \E n : req' = [req EXCEPT ![q] = n]
    BY <1>3 DEF WriteUserPattern, WriteGroupPattern, PatternsWritten, CreateWorkspace, ThenFlush,
       tables, history
  <2>2. \A i \in Requests : i # q => req'[i] = req[i]
    BY <2>1, ReqStep
  <2>3. QED BY <2>1, <2>2, WipedKept
<1>4. CASE DeleteWorkspace(q)
  <2> DEFINE n == [req[q] EXCEPT !.pc = "wipe-users", !.todo = Key]
  <2>1. /\ req[q].pc = "manager" /\ exists' = exists \ {req[q].workspace}
        /\ req' = [req EXCEPT ![q] = n] /\ UNCHANGED <<rows, left>>
    BY <1>4 DEF DeleteWorkspace, ThenFlush, tables
  <2>2. n.pc = "wipe-users" /\ n.workspace = req[q].workspace
    <3>1. req[q] \in Request
      BY <2>1, Busy
    <3>2. QED BY <3>1 DEF Request
  <2> HIDE DEF n
  <2>3. req'[q] = n /\ \A i \in Requests : i # q => req'[i] = req[i]
    BY <2>1, ReqStep
  <2> SUFFICES ASSUME NEW sw \in Subjects \X Workspaces
               PROVE  \/ rows'[sw] = NoRow \/ sw[2] \in exists' \/ sw \in left'
                      \/ \E i \in Requests : WillWipe(i, sw)'
    BY DEF Wiped, WillWipe
  <2>4. CASE sw[2] = req[q].workspace
    BY <2>2, <2>3, <2>4 DEF WillWipe
  <2>5. CASE sw[2] # req[q].workspace /\ (rows[sw] = NoRow \/ sw[2] \in exists \/ sw \in left)
    BY <2>1, <2>5
  <2>6. CASE \E i \in Requests : WillWipe(i, sw)
    BY <2>1, <2>3, <2>6 DEF WillWipe
  <2>7. QED BY <2>4, <2>5, <2>6 DEF Wiped, WillWipe
<1>5. QED
  <2>1. \/ \E v \in People : \/ \E l \in Levels : CreateUserPermission(q, v, l)
                             \/ \E l \in Levels : UpdateUserPermission(q, v, l)
                             \/ DeleteUserPermission(q, v)
        \/ \E g \in Groups : \/ \E l \in Levels : CreateGroupPermission(q, g, l)
                             \/ \E l \in Levels : UpdateGroupPermission(q, g, l)
                             \/ DeleteGroupPermission(q, g)
        \/ \E v \in Users : WriteUserPattern(q, v)
        \/ \E g \in Groups : WriteGroupPattern(q, g)
        \/ CreateWorkspace(q)
        \/ DeleteWorkspace(q)
    BY DEF Change
  <2>2. QED BY <1>1, <1>2, <1>3, <1>4, <2>1

LEMMA WipedWipe ==
  ASSUME IInv, Wiped, NEW q \in Requests, WipeUsers(q) \/ WipeGroups(q)
  PROVE  Wiped'
<1> DEFINE r == req[q]
<1>1. PICK S \in {People, Groups}, next \in {"wipe-groups", "flush"} :
        /\ Wipe(q, S, next)
        /\ \/ r.pc = "wipe-users" /\ S = People /\ next = "wipe-groups"
           \/ r.pc = "wipe-groups" /\ S = Groups
  BY DEF WipeUsers, WipeGroups
<1> DEFINE n == At(r, next)
<1>2. /\ rows' = WithoutRows(S, r.user, r.workspace) /\ left' = left \ (S \X {r.workspace})
      /\ req' = [req EXCEPT ![q] = n] /\ UNCHANGED exists
  BY <1>1 DEF Wipe
<1>3. n.pc = next /\ n.workspace = r.workspace /\ TypeOK
  <2>1. TypeOK /\ r.pc # "idle"
    BY <1>1 DEF IInv
  <2>2. r \in Request
    BY <2>1, Busy
  <2>3. QED BY <2>1, <2>2 DEF At, Request
<1> HIDE DEF n
<1>4. req'[q] = n /\ \A i \in Requests : i # q => req'[i] = req[i]
  BY <1>2, <1>3, ReqStep
<1> SUFFICES ASSUME NEW sw \in Subjects \X Workspaces
             PROVE  \/ rows'[sw] = NoRow \/ sw[2] \in exists' \/ sw \in left'
                    \/ \E i \in Requests : WillWipe(i, sw)'
  BY DEF Wiped, WillWipe
<1>5. CASE sw[1] \in S /\ sw[2] = r.workspace
  BY <1>2, <1>3, <1>5 DEF WithoutRows, TypeOK
<1>6. CASE ~(sw[1] \in S /\ sw[2] = r.workspace)
  <2>1. rows'[sw] = rows[sw] /\ (sw \in left => sw \in left')
    BY <1>2, <1>3, <1>6 DEF WithoutRows, TypeOK
  <2>2. CASE rows[sw] = NoRow \/ sw[2] \in exists \/ sw \in left
    BY <1>2, <2>1, <2>2
  <2>3. ASSUME NEW i \in Requests, WillWipe(i, sw), i # q PROVE \E j \in Requests : WillWipe(j, sw)'
    BY <1>4, <2>3 DEF WillWipe
  <2>4. CASE WillWipe(q, sw)
    <3>1. r.pc = "wipe-users" /\ next = "wipe-groups" /\ sw[1] \in Groups
      BY <1>1, <1>6, <2>4 DEF WillWipe, Subjects
    <3>2. QED BY <1>3, <1>4, <2>4, <3>1 DEF WillWipe
  <2>5. QED BY <2>2, <2>3, <2>4 DEF Wiped, WillWipe
<1>7. QED BY <1>5, <1>6

LEMMA WipedAftermath ==
  ASSUME IInv, Wiped, NEW q \in Requests, Aftermath(q)
  PROVE  Wiped'
<1>1. TypeOK
  BY DEF IInv
<1>2. CASE GrantCreator(q)
  <2>1. /\ req[q].pc = "grant" /\ req' = [req EXCEPT ![q] = At(@, "flush")] /\ exists' = exists
    BY <1>2 DEF GrantCreator
  <2>2. /\ req[q].user \in Subjects /\ req[q].workspace \in Workspaces
        /\ \A i \in Requests : i # q => req'[i] = req[i]
    BY <1>1, <2>1, Busy, ReqStep DEF Subjects
  <2>3. CASE UNCHANGED <<rows, left>>
    BY <2>1, <2>2, <2>3, WipedKept
  <2>4. CASE /\ CreateRow(req[q].user, req[q].workspace, "MANAGE")
             /\ Noted(req[q].user, req[q].workspace, "MANAGE")
    <3>1. PICK s \in Subjects, w \in Workspaces : s = req[q].user /\ w = req[q].workspace
      BY <2>2
    <3>2. /\ rows'[<<s, w>>] = "MANAGE"
          /\ \A sw \in Subjects \X Workspaces : sw # <<s, w>> => rows'[sw] = rows[sw]
      BY <1>1, <2>4, <3>1 DEF CreateRow, TypeOK
    <3>3. (w \in exists' \/ <<s, w>> \in left') /\ left \subseteq left'
      BY <2>1, <2>4, <3>1, WorkspaceAssumption DEF Noted
    <3>4. req[q].pc \notin {"wipe-users", "wipe-groups"} /\ exists \subseteq exists'
      BY <2>1
    <3>5. QED BY <2>2, <3>2, <3>3, <3>4, WipedWritten
  <2>5. QED BY <1>2, <2>3, <2>4 DEF GrantCreator
<1>3. CASE WipeUsers(q) \/ WipeGroups(q)
  BY <1>3, WipedWipe
<1>4. CASE WipeFails(q)
  <2>1. /\ rows' = rows /\ exists' = exists /\ req' = [req EXCEPT ![q] = At(@, "flush")]
        /\ left' = left \cup {sw \in DOMAIN rows : sw[2] = req[q].workspace /\ rows[sw] # NoRow}
    BY <1>4 DEF WipeFails, tables
  <2>2. \A i \in Requests : i # q => req'[i] = req[i]
    BY <1>1, <2>1, ReqStep
  <2> SUFFICES ASSUME NEW sw \in Subjects \X Workspaces
               PROVE  \/ rows'[sw] = NoRow \/ sw[2] \in exists' \/ sw \in left'
                      \/ \E i \in Requests : WillWipe(i, sw)'
    BY DEF Wiped, WillWipe
  <2>3. CASE rows[sw] = NoRow \/ sw[2] \in exists \/ sw \in left
    BY <2>1, <2>3
  <2>4. ASSUME NEW i \in Requests, WillWipe(i, sw), i # q PROVE \E j \in Requests : WillWipe(j, sw)'
    BY <2>2, <2>4 DEF WillWipe
  <2>5. CASE WillWipe(q, sw)
    BY <1>1, <2>1, <2>5 DEF WillWipe, TypeOK
  <2>6. QED BY <2>3, <2>4, <2>5 DEF Wiped, WillWipe
<1>5. CASE \E B \in SUBSET Key : Remove(q, B)
  <2>1. /\ UNCHANGED <<exists, rows, left>> /\ \E n : req' = [req EXCEPT ![q] = n]
        /\ req[q].pc \notin {"wipe-users", "wipe-groups"}
    BY <1>5 DEF Remove, Reads, Untouched
  <2>2. \A i \in Requests : i # q => req'[i] = req[i]
    BY <1>1, <2>1, ReqStep
  <2>3. QED BY <2>1, <2>2, WipedKept
<1>6. QED BY <1>2, <1>3, <1>4, <1>5 DEF Aftermath

(* What happens outside the requests writes rows like the rest.            *)
LEMMA WipedOutside ==
  ASSUME TypeOK, Wiped,
         \/ \E u \in Users : \/ \E gs \in SUBSET Groups : SetGroups(u, gs)
                             \/ \E w \in Workspaces : LoginAssigns(u, w)
                             \/ DeleteUser(u)
         \/ \E c \in Caches, k \in Key : Expire(c, k)
         \/ UNCHANGED vars
  PROVE  Wiped'
<1> SUFFICES ASSUME NEW sw \in Subjects \X Workspaces
             PROVE  \/ rows'[sw] = NoRow \/ sw[2] \in exists' \/ sw \in left'
                    \/ \E i \in Requests : WillWipe(i, sw)'
  BY DEF Wiped, WillWipe
<1>1. req' = req /\ exists \subseteq exists' /\ left \subseteq left'
  BY DEF SetGroups, LoginAssigns, DeleteUser, Expire, Reads, Untouched, vars
<1>2. rows'[sw] \in {rows[sw], NoRow} \/ sw[2] \in exists' \/ sw \in left'
  <2>1. CASE \E u \in Users, w \in Workspaces : LoginAssigns(u, w)
    <3>1. PICK u \in Users, w \in Workspaces : LoginAssigns(u, w)
      BY <2>1
    <3>2. CASE rows' = rows
      BY <3>2
    <3>3. CASE /\ rows' = [rows EXCEPT ![<<u, w>>] = LoginLevel]
               /\ left' = IF w \in exists' THEN left ELSE left \cup {<<u, w>>}
      BY <3>3 DEF TypeOK
    <3>4. QED BY <3>1, <3>2, <3>3 DEF LoginAssigns, CreateRow
  <2>2. CASE \E u \in Users : DeleteUser(u)
    BY <2>2 DEF DeleteUser, TypeOK
  <2>3. CASE rows' = rows
    BY <2>3
  <2>4. QED BY <2>1, <2>2, <2>3 DEF SetGroups, Expire, Reads, Untouched, vars
<1>3. (\E i \in Requests : WillWipe(i, sw)) => (\E i \in Requests : WillWipe(i, sw)')
  BY <1>1 DEF WillWipe
<1>4. QED BY <1>1, <1>2, <1>3 DEF Wiped, WillWipe

LEMMA WipedInv ==
  ASSUME IInv, Wiped, [Next]_vars
  PROVE  Wiped'
<1>1. TypeOK
  BY DEF IInv
<1>2. CASE \E q \in Requests : Lookup(q) \/ Change(q) \/ Aftermath(q) \/ Finish(q)
  BY <1>1, <1>2, WipedLookup, WipedChange, WipedAftermath
<1>3. CASE \E q \in Requests, c \in Caches, w \in Workspaces :
             (\E u \in Users : Begin(q, c, u, w)) \/ AdminRequest(q, c, w)
  BY <1>1, <1>3, WipedBegin
<1>4. CASE \/ \E u \in Users : \/ \E gs \in SUBSET Groups : SetGroups(u, gs)
                               \/ \E w \in Workspaces : LoginAssigns(u, w)
                               \/ DeleteUser(u)
           \/ \E c \in Caches, k \in Key : Expire(c, k)
           \/ UNCHANGED vars
  BY <1>1, <1>4, WipedOutside
<1>5. QED BY <1>2, <1>3, <1>4 DEF Next

(* After the deletion of a workspace is over no row of it is left, but     *)
(* those written while it was gone and those a failed wipe left.           *)
THEOREM DeletionLeavesNothing == Spec => []NothingLeftBehind
<1>1. Init => Wiped
  <2> SUFFICES ASSUME Init PROVE Wiped
    OBVIOUS
  <2>1. QED BY DEF Init, Wiped
<1>2. IInv /\ Wiped /\ [Next]_vars => Wiped'
  BY WipedInv
<1>3. Wiped => NothingLeftBehind
  BY DEF Wiped, NothingLeftBehind
<1>4. QED BY <1>1, <1>2, <1>3, Invariance, PTL DEF Spec

================================================================================
