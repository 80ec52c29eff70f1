-------------------------- MODULE ReadAccess_proofs --------------------------
(***************************************************************************)
(* Proofs about PermissionSources (what gives a user access), for any      *)
(* users, groups, names, patterns, order of the sources and number of      *)
(* writes, and about SearchFilter (what a search shows of it), for any     *)
(* listing, items, page size and number of changes.                        *)
(***************************************************************************)
EXTENDS PermissionSources, SearchFilter, FiniteSetTheorems, SequenceTheorems,
        WellFoundedInduction, TLAPS

Models == {"registered_model", "prompt"}

-----------------------------------------------------------------------------
(* The twenty-eight routes are two kinds of step: one row changes, or the   *)
(* patterns of one subject and kind do.                                     *)

RowStep(a) ==
  \E t \in {Table(kind) : kind \in family}, n \in Names, s \in Subjects, p \in Permissions \cup {NoRow} :
    /\ rows' = [rows EXCEPT ![<<t, n, s>>] = p]
    /\ a = Admin \/ \E m \in Governing(t, n) : Manages(a, m[1], m[2])
    /\ prompts \subseteq Names \X Groups => prompts' \subseteq Names \X Groups
    /\ UNCHANGED <<members, patterns>>

\* What a write may leave at an entry: what was there, nothing, or an entry
\* that compiles unless it is of a group and of a kind that is not validated.
MayStand(k, s, p, e) ==
  \/ e = NoRow
  \/ /\ e \in Entries
     /\ p \in Broken => \/ patterns[<<k, s, p>>] # NoRow
                        \/ k \in Models /\ s \in {"group"} \X Groups

PatternStep(a) ==
  /\ a = Admin
  /\ \E k \in family, s \in Subjects, p \in Patterns, q \in Patterns, d \in Entries \cup {NoRow}, e \in Entries \cup {NoRow} :
       /\ MayStand(k, s, p, d) /\ MayStand(k, s, q, e)
       /\ patterns' = [patterns EXCEPT ![<<k, s, p>>] = d, ![<<k, s, q>>] = e]
  /\ UNCHANGED <<members, rows, prompts>>

LEMMA UserRowStep ==
  ASSUME NEW a, NEW t \in {Table(k) : k \in family}, NEW n \in Names, NEW u \in Users,
         a = Admin \/ \E m \in Governing(t, n) : Manages(a, m[1], m[2]),
         WriteUserRow(t, n, u)
  PROVE  RowStep(a)
<1>1. <<"user", u>> \in Subjects
  BY DEF Subjects
<1>2. \E p \in Permissions \cup {NoRow} : rows' = [rows EXCEPT ![<<t, n, <<"user", u>>>>] = p]
  BY DEF WriteUserRow, CreateRow, ChangeRow
<1>3. UNCHANGED <<members, prompts, patterns>>
  BY DEF WriteUserRow
<1> QED  BY <1>1, <1>2, <1>3 DEF RowStep

LEMMA GroupRowStep ==
  ASSUME NEW a, NEW t \in {Table(k) : k \in family}, NEW n \in Names, NEW g \in Groups,
         NEW flag \in BOOLEAN,
         a = Admin \/ \E m \in Governing(t, n) : Manages(a, m[1], m[2]),
         WriteGroupRow(t, n, g, flag)
  PROVE  RowStep(a)
<1>1. <<"group", g>> \in Subjects
  BY DEF Subjects
<1>2. \E p \in Permissions \cup {NoRow} : rows' = [rows EXCEPT ![<<t, n, <<"group", g>>>>] = p]
  BY DEF WriteGroupRow, CreateGroupRow, ChangeGroupRow, CreateRow, ChangeRow
<1>3. prompts \subseteq Names \X Groups => prompts' \subseteq Names \X Groups
  <2>1. <<n, g>> \in Names \X Groups
    OBVIOUS
  <2>2. prompts' \subseteq prompts \cup {<<n, g>>}
    BY DEF WriteGroupRow, CreateGroupRow, ChangeGroupRow
  <2> QED  BY <2>1, <2>2
<1>4. UNCHANGED <<members, patterns>>
  BY DEF WriteGroupRow, CreateGroupRow, ChangeGroupRow
<1> QED  BY <1>1, <1>2, <1>3, <1>4 DEF RowStep

LEMMA PatternsStep ==
  ASSUME NEW a, NEW k, NEW s \in Subjects, NEW admitted \in SUBSET Patterns, NEW keeps \in BOOLEAN,
         admitted \cap Broken = {} \/ (k \in Models /\ s \in {"group"} \X Groups),
         WritePatterns(a, k, s, admitted, keeps)
  PROVE  PatternStep(a)
<1>1. k \in family /\ a = Admin /\ UNCHANGED <<members, rows, prompts>>
  BY DEF WritePatterns
<1>2. \A p \in admitted, e \in Entries : MayStand(k, s, p, e)
  BY DEF MayStand
<1>3. \A p : MayStand(k, s, p, NoRow)
  BY DEF MayStand
<1>4. ASSUME NEW p \in Patterns, NEW e \in Entries \cup {NoRow}, MayStand(k, s, p, e),
             patterns' = [patterns EXCEPT ![<<k, s, p>>] = e]
      PROVE  PatternStep(a)
  <2>1. patterns' = [patterns EXCEPT ![<<k, s, p>>] = e, ![<<k, s, p>>] = e]
    BY <1>4
  <2>2. \E q \in Patterns, d \in Entries \cup {NoRow} :
          /\ MayStand(k, s, q, d) /\ MayStand(k, s, p, e)
          /\ patterns' = [patterns EXCEPT ![<<k, s, q>>] = d, ![<<k, s, p>>] = e]
    BY <1>4, <2>1
  <2> QED  BY <1>1, <2>2 DEF PatternStep
<1>5. CASE \E p \in admitted, e \in Entries :
             patterns[<<k, s, p>>] = NoRow /\ patterns' = [patterns EXCEPT ![<<k, s, p>>] = e]
  BY <1>2, <1>4, <1>5
<1>6. CASE \E p \in Patterns, q \in admitted, e \in Entries : UpdatePattern(k, s, p, q, e, keeps)
  <2>1. PICK p \in Patterns, q \in admitted, e \in Entries : UpdatePattern(k, s, p, q, e, keeps)
    BY <1>6
  <2>2. CASE keeps
    <3>1. patterns[<<k, s, p>>] # NoRow /\ patterns' = [patterns EXCEPT ![<<k, s, p>>] = e]
      BY <2>1, <2>2 DEF UpdatePattern
    <3>2. MayStand(k, s, p, e)
      BY <3>1 DEF MayStand
    <3> QED  BY <1>4, <3>1, <3>2
  <2>3. CASE ~keeps
    <3>1. patterns' = [patterns EXCEPT ![<<k, s, p>>] = NoRow, ![<<k, s, q>>] = e]
      BY <2>1, <2>3 DEF UpdatePattern
    <3> QED  BY <1>1, <1>2, <1>3, <3>1 DEF PatternStep
  <2> QED  BY <2>2, <2>3
<1>7. CASE \E p \in Patterns :
             patterns[<<k, s, p>>] # NoRow /\ patterns' = [patterns EXCEPT ![<<k, s, p>>] = NoRow]
  BY <1>3, <1>4, <1>7
<1> QED  BY <1>5, <1>6, <1>7 DEF WritePatterns

LEMMA NextStep ==
  ASSUME Next
  PROVE  /\ UNCHANGED <<family, staffed>> /\ writes < MaxWrites /\ writes' = writes + 1
         /\ \/ \E a \in Actors : RowStep(a) \/ PatternStep(a)
            \/ \E u \in Users : SetGroups(u)
<1>1. UNCHANGED <<family, staffed>> /\ writes < MaxWrites /\ writes' = writes + 1
  BY DEF Next
<1>2. ASSUME NEW a \in Actors, NEW u \in Users, UserRoutes(a, u)
      PROVE  RowStep(a) \/ PatternStep(a)
  <2>1. ASSUME NEW n \in Names, ExperimentUserRow(a, n, u)  PROVE  RowStep(a)
    BY <2>1, UserRowStep DEF ExperimentUserRow, Table, Governing
  <2>2. ASSUME NEW n \in Names, ScorerUserRow(a, n, u)  PROVE  RowStep(a)
    BY <2>2, UserRowStep DEF ScorerUserRow, Table, Governing
  <2>3. ASSUME NEW n \in Names, ModelUserRow(a, n, u)  PROVE  RowStep(a)
    BY <2>3, UserRowStep DEF ModelUserRow, Table, Governing
  <2>4. ASSUME NEW n \in Names, PromptUserRow(a, n, u)  PROVE  RowStep(a)
    BY <2>4, UserRowStep DEF PromptUserRow, Table, Governing
  <2>5. ASSUME NEW n \in Names, EndpointUserRow(a, n, u)  PROVE  RowStep(a)
    BY <2>5, UserRowStep DEF EndpointUserRow, Table
  <2>6. ASSUME NEW n \in Names, SecretUserRow(a, n, u)  PROVE  RowStep(a)
    BY <2>6, UserRowStep DEF SecretUserRow, Table
  <2>7. ASSUME NEW n \in Names, ModelDefinitionUserRow(a, n, u)  PROVE  RowStep(a)
    BY <2>7, UserRowStep DEF ModelDefinitionUserRow, Table
  <2>8. ASSUME NEW k, NEW keeps \in BOOLEAN, UserPattern(a, k, u, keeps)  PROVE  PatternStep(a)
    <3>1. <<"user", u>> \in Subjects
      BY DEF Subjects
    <3> QED  BY <2>8, <3>1, PatternsStep DEF UserPattern, Compiling
  <2> QED
    BY <1>2, <2>1, <2>2, <2>3, <2>4, <2>5, <2>6, <2>7, <2>8
    DEF UserRoutes, ExperimentUserPattern, ScorerUserPattern, ModelUserPattern, PromptUserPattern,
        EndpointUserPattern, SecretUserPattern, ModelDefinitionUserPattern
<1>3. ASSUME NEW a \in Actors, NEW g \in Groups, GroupRoutes(a, g)
      PROVE  RowStep(a) \/ PatternStep(a)
  <2>1. ASSUME NEW n \in Names, ExperimentGroupRow(a, n, g)  PROVE  RowStep(a)
    BY <2>1, GroupRowStep DEF ExperimentGroupRow, Table, Governing
  <2>2. ASSUME NEW n \in Names, ScorerGroupRow(a, n, g)  PROVE  RowStep(a)
    BY <2>2, GroupRowStep DEF ScorerGroupRow, Table, Governing
  <2>3. ASSUME NEW n \in Names, ModelGroupRow(a, n, g)  PROVE  RowStep(a)
    BY <2>3, GroupRowStep DEF ModelGroupRow, Table, Governing
  <2>4. ASSUME NEW n \in Names, PromptGroupRow(a, n, g)  PROVE  RowStep(a)
    BY <2>4, GroupRowStep DEF PromptGroupRow, Table, Governing
  <2>5. ASSUME NEW n \in Names, EndpointGroupRow(a, n, g)  PROVE  RowStep(a)
    BY <2>5, GroupRowStep DEF EndpointGroupRow, Table
  <2>6. ASSUME NEW n \in Names, SecretGroupRow(a, n, g)  PROVE  RowStep(a)
    BY <2>6, GroupRowStep DEF SecretGroupRow, Table
  <2>7. ASSUME NEW n \in Names, ModelDefinitionGroupRow(a, n, g)  PROVE  RowStep(a)
    BY <2>7, GroupRowStep DEF ModelDefinitionGroupRow, Table
  <2>8. ASSUME NEW k, GroupPattern(a, k, g, Compiling) \/ (k \in Models /\ GroupPattern(a, k, g, Patterns))
        PROVE  PatternStep(a)
    <3>1. <<"group", g>> \in Subjects /\ <<"group", g>> \in {"group"} \X Groups
      BY DEF Subjects
    <3> QED  BY <2>8, <3>1, PatternsStep DEF GroupPattern, Compiling
  <2> QED
    BY <1>3, <2>1, <2>2, <2>3, <2>4, <2>5, <2>6, <2>7, <2>8
    DEF GroupRoutes, ExperimentGroupPattern, ScorerGroupPattern, ModelGroupPattern, PromptGroupPattern,
        EndpointGroupPattern, SecretGroupPattern, ModelDefinitionGroupPattern, Models
<1> QED  BY <1>1, <1>2, <1>3 DEF Next

-----------------------------------------------------------------------------
(* Types *)

LEMMA InitTyped == Init => TypeOK
<1> SUFFICES ASSUME Init  PROVE TypeOK
  OBVIOUS
<1>1. rows \in [{Table(k) : k \in family} \X Names \X Subjects -> Permissions \cup {NoRow}]
  BY SourcesAssumption DEF Init
<1> QED  BY <1>1, SourcesAssumption DEF Init, TypeOK

LEMMA StepTyped == TypeOK /\ [Next]_vars => TypeOK'
<1> SUFFICES ASSUME TypeOK, [Next]_vars  PROVE TypeOK'
  OBVIOUS
<1>1. ASSUME NEW a, RowStep(a), UNCHANGED family
      PROVE  /\ rows' \in [{Table(k) : k \in family'} \X Names \X Subjects -> Permissions \cup {NoRow}]
             /\ prompts' \subseteq Names \X Groups
  BY <1>1 DEF TypeOK, RowStep
<1>2. ASSUME NEW a, PatternStep(a), UNCHANGED family
      PROVE  patterns' \in [family' \X Subjects \X Patterns -> Entries \cup {NoRow}]
  BY <1>2 DEF TypeOK, PatternStep
<1>3. ASSUME NEW u, SetGroups(u)
      PROVE  members' \in [Users -> SUBSET Groups]
  BY <1>3 DEF TypeOK, SetGroups
<1>4. CASE UNCHANGED vars
  BY <1>4 DEF TypeOK, vars
<1>5. CASE Next
  <2>1. UNCHANGED <<family, staffed>> /\ writes' \in 0..MaxWrites
    BY <1>5, NextStep, SourcesAssumption DEF TypeOK
  <2>2. ASSUME NEW a, RowStep(a)  PROVE TypeOK'
    BY <2>1, <2>2, <1>1 DEF TypeOK, RowStep
  <2>3. ASSUME NEW a, PatternStep(a)  PROVE TypeOK'
    BY <2>1, <2>3, <1>2 DEF TypeOK, PatternStep
  <2>4. ASSUME NEW u, SetGroups(u)  PROVE TypeOK'
    BY <2>1, <2>4, <1>3 DEF TypeOK, SetGroups
  <2> QED  BY <1>5, <2>2, <2>3, <2>4, NextStep
<1> QED  BY <1>4, <1>5

\* Every reachable state of the permission tables is well typed, for any users,
\* groups, kinds and patterns (the routers of user and group permissions).
THEOREM TypeCorrect == Spec => []TypeOK
<1> QED  BY InitTyped, StepTyped, PTL DEF Spec

-----------------------------------------------------------------------------
(* Who writes *)

LEMMA RowWriters ==
  ASSUME NEW a \in Actors, ~staffed, RowStep(a), NEW r \in DOMAIN rows, rows'[r] # rows[r]
  PROVE  \E u \in Users, m \in Governing(r[1], r[2]) : "MANAGE" \in Resolve(m[1], m[2], u)
<1>1. PICK t \in {Table(k) : k \in family}, n \in Names, s \in Subjects, p \in Permissions \cup {NoRow} :
        /\ rows' = [rows EXCEPT ![<<t, n, s>>] = p]
        /\ a = Admin \/ \E m \in Governing(t, n) : Manages(a, m[1], m[2])
  BY DEF RowStep
<1>2. a \in Users /\ a # Admin
  BY SourcesAssumption DEF Actors
<1>3. r[1] = t /\ r[2] = n
  BY <1>1
<1> QED  BY <1>1, <1>2, <1>3 DEF Manages

\* Without an administrator, rows change only while some user manages the
\* resource they are about, and patterns never: of any users, kinds and sources
\* (the guards of dependencies.py in front of every route).
THEOREM OnlyManagersSpreadRights == Spec => OnlyManagersWrite
<1>1. ASSUME [Next]_vars, ~staffed
      PROVE  /\ UNCHANGED patterns
             /\ \A r \in DOMAIN rows : rows'[r] # rows[r] =>
                  \E u \in Users, m \in Governing(r[1], r[2]) : "MANAGE" \in Resolve(m[1], m[2], u)
  <2>1. CASE UNCHANGED vars
    BY <2>1 DEF vars
  <2>2. ASSUME NEW a \in Actors, RowStep(a)
        PROVE  /\ UNCHANGED patterns
               /\ \A r \in DOMAIN rows : rows'[r] # rows[r] =>
                    \E u \in Users, m \in Governing(r[1], r[2]) : "MANAGE" \in Resolve(m[1], m[2], u)
    <3>1. UNCHANGED patterns
      BY <2>2 DEF RowStep
    <3> QED  BY <1>1, <2>2, <3>1, RowWriters
  <2>3. ASSUME NEW a \in Actors, PatternStep(a)  PROVE FALSE
    BY <1>1, <2>3, SourcesAssumption DEF Actors, PatternStep
  <2>4. ASSUME NEW u \in Users, SetGroups(u)  PROVE UNCHANGED <<patterns, rows>>
    BY <2>4 DEF SetGroups
  <2> QED  BY <1>1, <2>1, <2>2, <2>3, <2>4, NextStep
<1> QED  BY <1>1, PTL DEF Spec, OnlyManagersWrite

-----------------------------------------------------------------------------
(* Which patterns raise.  BrokenOnlyThere is the strengthening that makes    *)
(* OnlyGroupPatternsRaise inductive.                                        *)

\* Where an entry with a pattern that does not compile can be.
BrokenOnlyThere ==
  \A k \in family, s \in Subjects, p \in Broken :
    patterns[<<k, s, p>>] # NoRow => k \in Models /\ s \in {"group"} \X Groups

LEMMA InitBroken == Init => BrokenOnlyThere
BY SourcesAssumption DEF Init, BrokenOnlyThere

LEMMA StepBroken == TypeOK /\ BrokenOnlyThere /\ [Next]_vars => BrokenOnlyThere'
<1> SUFFICES ASSUME TypeOK, BrokenOnlyThere, [Next]_vars  PROVE BrokenOnlyThere'
  OBVIOUS
<1>1. CASE UNCHANGED <<family, patterns>>
  BY <1>1 DEF BrokenOnlyThere
<1>2. ASSUME NEW a, PatternStep(a), UNCHANGED family  PROVE BrokenOnlyThere'
  <2>1. PICK k \in family, s \in Subjects, p \in Patterns, q \in Patterns,
             d \in Entries \cup {NoRow}, e \in Entries \cup {NoRow} :
          /\ MayStand(k, s, p, d) /\ MayStand(k, s, q, e)
          /\ patterns' = [patterns EXCEPT ![<<k, s, p>>] = d, ![<<k, s, q>>] = e]
    BY <1>2 DEF PatternStep
  <2> SUFFICES ASSUME NEW k2 \in family, NEW s2 \in Subjects, NEW p2 \in Broken,
                      patterns'[<<k2, s2, p2>>] # NoRow
               PROVE  k2 \in Models /\ s2 \in {"group"} \X Groups
    BY <1>2 DEF BrokenOnlyThere
  <2>2. <<k2, s2, p2>> \in DOMAIN patterns
    BY SourcesAssumption DEF TypeOK
  <2>3. CASE <<k2, s2, p2>> = <<k, s, q>>
    BY <2>1, <2>2, <2>3 DEF MayStand, BrokenOnlyThere
  <2>4. CASE <<k2, s2, p2>> # <<k, s, q>> /\ <<k2, s2, p2>> = <<k, s, p>>
    BY <2>1, <2>2, <2>4 DEF MayStand, BrokenOnlyThere
  <2>5. CASE <<k2, s2, p2>> # <<k, s, q>> /\ <<k2, s2, p2>> # <<k, s, p>>
    BY <2>1, <2>2, <2>5 DEF BrokenOnlyThere
  <2> QED  BY <2>3, <2>4, <2>5
<1>3. CASE Next
  <2>1. UNCHANGED family
    BY <1>3, NextStep
  <2>2. ASSUME NEW a, RowStep(a)  PROVE UNCHANGED patterns
    BY <2>2 DEF RowStep
  <2>3. ASSUME NEW u, SetGroups(u)  PROVE UNCHANGED patterns
    BY <2>3 DEF SetGroups
  <2> QED  BY <1>1, <1>2, <1>3, <2>1, <2>2, <2>3, NextStep
<1> QED  BY <1>1, <1>3 DEF vars

\* A set of indices has a least one.
LEMMA LeastIndex ==
  ASSUME NEW I \in SUBSET Nat, I # {}
  PROVE  \E i \in I : \A j \in I : i <= j
<1>1. PICK i \in I : \A j \in I : ~ (<<j, i>> \in OpToRel(<, Nat))
  BY NatLessThanWellFounded, WFMin
<1>2. \A j \in I : ~ (j < i)
  BY <1>1 DEF OpToRel
<1> QED  BY <1>2

\* The walk gives the fallback or what one of the sources answered.
LEMMA WalkGives ==
  ASSUME NEW answers
  PROVE  \/ Walk(answers) = {Fallback}
         \/ \E s \in Sources : Walk(answers) = answers[s]
<1> DEFINE found == {i \in DOMAIN SourceOrder : answers[SourceOrder[i]] # {NoRow}}
<1>1. CASE found = {}
  BY <1>1 DEF Walk
<1>2. CASE found # {}
  <2>1. found \subseteq Nat /\ \A i \in found : SourceOrder[i] \in Sources
    BY SourcesAssumption
  <2>2. \E i \in found : \A j \in found : i <= j
    BY <1>2, <2>1, LeastIndex
  <2>3. (CHOOSE i \in found : \A j \in found : i <= j) \in found
    BY <2>2
  <2>4. Walk(answers) = answers[SourceOrder[CHOOSE i \in found : \A j \in found : i <= j]]
    BY <1>2 DEF Walk
  <2> QED  BY <2>1, <2>3, <2>4
<1> QED  BY <1>1, <1>2

LEMMA StrongestExists ==
  ASSUME NEW found \in SUBSET DOMAIN Priority, found # {}
  PROVE  \E p \in found : \A q \in found : Priority[p] >= Priority[q]
<1>1. CASE "NO_PERMISSIONS" \in found
  BY <1>1 DEF Priority
<1>2. CASE "NO_PERMISSIONS" \notin found /\ "MANAGE" \in found
  BY <1>2 DEF Priority
<1>3. CASE found \subseteq {"READ", "USE", "EDIT"} /\ "EDIT" \in found
  BY <1>3 DEF Priority
<1>4. CASE found \subseteq {"READ", "USE"} /\ "USE" \in found
  BY <1>4 DEF Priority
<1>5. CASE found \subseteq {"READ"}
  BY <1>5 DEF Priority
<1> QED  BY <1>1, <1>2, <1>3, <1>4, <1>5 DEF Priority

LEMMA RowsDoNotRaise ==
  ASSUME TypeOK, NEW k \in family, NEW n \in Names, NEW u \in Users
  PROVE  UserRow(k, n, u) # Raised /\ GroupRow(k, n, u) # Raised
<1>1. Raised \notin Permissions \cup {NoRow}
  BY SourcesAssumption
<1>2. \A s \in Subjects : rows[<<Table(k), n, s>>] \in Permissions \cup {NoRow}
  BY DEF TypeOK
<1>3. UserRow(k, n, u) \in Permissions \cup {NoRow}
  BY <1>2 DEF UserRow, Subjects
<1>4. k \in Gateways => RowOfNamesake(k, n, u) \in Permissions \cup {NoRow}
  BY <1>2 DEF RowOfNamesake, Subjects, Table, Gateways
<1>5. StrongestRow(k, n, u) \in Permissions \cup {NoRow}
  <2>1. members[u] \subseteq Groups
    BY DEF TypeOK
  <2>2. RowsOfGroups(k, n, u) \subseteq Permissions
    BY <1>2, <2>1 DEF RowsOfGroups, Subjects
  <2>3. RowsOfGroups(k, n, u) \subseteq DOMAIN Priority
    BY <2>2, SourcesAssumption
  <2>4. CASE RowsOfGroups(k, n, u) = {}
    BY <2>4 DEF StrongestRow
  <2>5. CASE RowsOfGroups(k, n, u) # {}
    <3>1. StrongestRow(k, n, u) \in RowsOfGroups(k, n, u)
      BY <2>3, <2>5, StrongestExists DEF StrongestRow
    <3> QED  BY <2>2, <3>1
  <2> QED  BY <2>4, <2>5
<1> QED  BY <1>1, <1>3, <1>4, <1>5 DEF GroupRow

LEMMA MatchRaises ==
  ASSUME TypeOK, NEW k \in family, NEW n, NEW subjects \in SUBSET Subjects,
         Raised \in FirstMatch(k, n, subjects)
  PROVE  \E s \in subjects, p \in Broken : patterns[<<k, s, p>>] # NoRow
<1>1. PICK e \in Stops(k, n, subjects) :
        Raised = IF e[3] \in Broken THEN Raised ELSE patterns[e].permission
  BY SourcesAssumption DEF FirstMatch, Said
<1>2. e \in {k} \X subjects \X Patterns /\ patterns[e] # NoRow
  BY DEF Stops
<1>3. patterns[e] \in Entries
  BY <1>2 DEF TypeOK
<1>4. patterns[e].permission # Raised
  BY <1>3, SourcesAssumption DEF Entries
<1>5. e = <<k, e[2], e[3]>> /\ e[2] \in subjects
  BY <1>2
<1> QED  BY <1>1, <1>2, <1>4, <1>5

LEMMA RaisedByGroups ==
  ASSUME TypeOK, BrokenOnlyThere, NEW k \in family, NEW n \in Names, NEW u \in Users,
         Raised \in Resolve(k, n, u)
  PROVE  k \in Models /\ \E g \in members[u], p \in Broken : patterns[<<k, <<"group", g>>, p>>] # NoRow
<1>1. Raised # Fallback
  BY SourcesAssumption
<1>2. members[u] \subseteq Groups
  BY DEF TypeOK
<1>3. Raised \in UserMatch(k, n, u) \cup GroupMatch(k, n, u)
  <2> DEFINE answers == [s \in Sources |-> CASE s = "user"  -> {UserRow(k, n, u)}
                                             [] s = "group" -> {GroupRow(k, n, u)}
                                             [] s = "regex" -> UserMatch(k, n, u)
                                             [] s = "group-regex" -> GroupMatch(k, n, u)]
  <2>1. Raised \in Walk(answers)
    BY DEF Resolve
  <2>2. Walk(answers) = {Fallback} \/ \E s \in Sources : Walk(answers) = answers[s]
    <3> HIDE DEF answers
    <3> QED  BY WalkGives
  <2>3. PICK s \in Sources : Raised \in answers[s]
    <3> HIDE DEF answers
    <3> QED  BY <1>1, <2>1, <2>2
  <2>4. answers[s] \in {{UserRow(k, n, u)}, {GroupRow(k, n, u)}, UserMatch(k, n, u), GroupMatch(k, n, u)}
    BY DEF Sources
  <2> QED  BY <2>3, <2>4, RowsDoNotRaise
<1>4. CASE Raised \in UserMatch(k, n, u)
  <2>1. {<<"user", u>>} \subseteq Subjects /\ <<"user", u>> \notin {"group"} \X Groups
    BY DEF Subjects
  <2>2. \E p \in Broken : patterns[<<k, <<"user", u>>, p>>] # NoRow
    BY <1>4, <2>1, MatchRaises DEF UserMatch
  <2> QED  BY <2>1, <2>2 DEF BrokenOnlyThere
<1>5. CASE Raised \in GroupMatch(k, n, u)
  <2>1. {"group"} \X members[u] \subseteq Subjects
    BY <1>2 DEF Subjects
  <2>2. PICK s \in {"group"} \X members[u], p \in Broken : patterns[<<k, s, p>>] # NoRow
    BY <1>5, <2>1, MatchRaises DEF GroupMatch
  <2>3. s = <<"group", s[2]>> /\ s[2] \in members[u]
    OBVIOUS
  <2> QED  BY <2>1, <2>2, <2>3 DEF BrokenOnlyThere
<1> QED  BY <1>3, <1>4, <1>5

\* A request is broken by a pattern only when a group of the user has one that
\* does not compile, of models or prompts: for any patterns, priorities and
\* order of the sources (validate_regex in the repositories).
THEOREM PatternsRaiseForMembersOnly == Spec => []OnlyGroupPatternsRaise
<1>1. TypeOK /\ BrokenOnlyThere => OnlyGroupPatternsRaise
  BY RaisedByGroups DEF OnlyGroupPatternsRaise, Models
<1> QED  BY InitTyped, StepTyped, InitBroken, StepBroken, <1>1, PTL DEF Spec

-----------------------------------------------------------------------------
(* What the rows of groups give *)

LEMMA WalkStopsAt ==
  ASSUME NEW answers, NEW source, NEW i \in DOMAIN SourceOrder,
         SourceOrder[i] = source, answers[source] # {NoRow},
         \A j \in 1..i-1 : SourceOrder[j] = source \/ answers[SourceOrder[j]] = {NoRow}
  PROVE  Walk(answers) = answers[source]
<1> DEFINE found == {j \in DOMAIN SourceOrder : answers[SourceOrder[j]] # {NoRow}}
           m == CHOOSE j \in found : \A l \in found : j <= l
<1>1. i \in found /\ found # {} /\ found \subseteq Nat \ {0}
  BY SourcesAssumption
<1>2. \E j \in found : \A l \in found : j <= l
  BY <1>1, LeastIndex
<1>3. m \in found /\ m <= i
  BY <1>1, <1>2
<1>4. answers[SourceOrder[m]] # {NoRow}
  BY <1>3
<1>5. SourceOrder[m] = source
  <2> HIDE DEF m
  <2>1. m = i \/ m \in 1..i-1
    BY <1>1, <1>3
  <2> QED  BY <1>4, <2>1
<1>6. Walk(answers) = answers[SourceOrder[m]]
  BY <1>1 DEF Walk
<1> QED  BY <1>5, <1>6

LEMMA StrongestRowWins ==
  ASSUME NEW k \in family, NEW n \in Names, NEW u \in Users, TypeOK,
         RowsOfGroups(k, n, u) # {}
  PROVE  LET found == RowsOfGroups(k, n, u)
             p == StrongestRow(k, n, u) IN
           /\ p \in found
           /\ IF "NO_PERMISSIONS" \in found THEN p = "NO_PERMISSIONS"
              ELSE \A q \in found : Rights(p) >= Rights(q)
<1> DEFINE found == RowsOfGroups(k, n, u)
           p == StrongestRow(k, n, u)
<1>1. found \subseteq DOMAIN Priority
  <2>1. \A s \in Subjects : rows[<<Table(k), n, s>>] \in Permissions \cup {NoRow}
    BY DEF TypeOK
  <2>2. members[u] \subseteq Groups
    BY DEF TypeOK
  <2>3. found \subseteq Permissions
    BY <2>1, <2>2 DEF RowsOfGroups, Subjects
  <2> QED  BY <2>3, SourcesAssumption
<1>2. p \in found /\ \A q \in found : Priority[p] >= Priority[q]
  BY <1>1, StrongestExists DEF StrongestRow
<1> HIDE DEF found, p
<1>3. Raised \notin found
  BY <1>1, SourcesAssumption
<1>4. CASE "NO_PERMISSIONS" \in found
  <2>1. p = "NO_PERMISSIONS"
    <3>1. p \in DOMAIN Priority /\ Priority[p] >= Priority["NO_PERMISSIONS"]
      BY <1>1, <1>2, <1>4
    <3>2. \A r \in DOMAIN Priority : Priority[r] >= Priority["NO_PERMISSIONS"] => r = "NO_PERMISSIONS"
      BY DEF Priority
    <3> QED  BY <3>1, <3>2
  <2> QED  BY <1>2, <1>4, <2>1 DEF found, p
<1>5. CASE "NO_PERMISSIONS" \notin found
  <2>1. \A q \in found : Rights(q) = Priority[q]
    BY <1>3, <1>5 DEF Rights
  <2> QED  BY <1>2, <1>5, <2>1 DEF found, p
<1> QED  BY <1>4, <1>5

\* Wherever no earlier source answers, a user has what the rows of the groups
\* give: a denial if there is one, else the most: for any groups, rows and order
\* of the sources (get_group_permission_for_user_resource, resolve_permission).
THEOREM GroupRowsDecide == Spec => []GroupRowsReachMembers
<1>1. ASSUME TypeOK, NEW k \in family \ Gateways, NEW n \in Names, NEW u \in Users,
             GroupsDecide(k, n, u), RowsOfGroups(k, n, u) # {}
      PROVE  Resolve(k, n, u) = {StrongestRow(k, n, u)}
  <2> DEFINE answers == [s \in Sources |-> CASE s = "user"  -> {UserRow(k, n, u)}
                                             [] s = "group" -> {GroupRow(k, n, u)}
                                             [] s = "regex" -> UserMatch(k, n, u)
                                             [] s = "group-regex" -> GroupMatch(k, n, u)]
  <2>1. /\ answers["user"] = {UserRow(k, n, u)} /\ answers["group"] = {StrongestRow(k, n, u)}
        /\ answers["regex"] = UserMatch(k, n, u) /\ answers["group-regex"] = GroupMatch(k, n, u)
    BY <1>1 DEF Sources, GroupRow
  <2>2. StrongestRow(k, n, u) # NoRow
    BY <1>1, StrongestRowWins DEF RowsOfGroups
  <2>3. PICK i \in DOMAIN SourceOrder :
          /\ SourceOrder[i] = "group"
          /\ \A j \in 1..i-1 : CASE SourceOrder[j] = "user"  -> UserRow(k, n, u) = NoRow
                                 [] SourceOrder[j] = "group" -> TRUE
                                 [] SourceOrder[j] = "regex" -> UserMatch(k, n, u) = {NoRow}
                                 [] SourceOrder[j] = "group-regex" -> GroupMatch(k, n, u) = {NoRow}
    BY <1>1 DEF GroupsDecide
  <2>4. \A j \in 1..i-1 : SourceOrder[j] \in Sources
    BY SourcesAssumption
  <2>5. Resolve(k, n, u) = Walk(answers)
    BY DEF Resolve
  <2> HIDE DEF answers
  <2>6. \A j \in 1..i-1 : SourceOrder[j] = "group" \/ answers[SourceOrder[j]] = {NoRow}
    BY <2>1, <2>3, <2>4 DEF Sources
  <2>7. Walk(answers) = answers["group"]
    BY <2>1, <2>2, <2>3, <2>6, WalkStopsAt
  <2> QED  BY <2>1, <2>5, <2>7
<1>2. TypeOK => GroupRowsReachMembers
  <2> SUFFICES ASSUME TypeOK, NEW k \in family \ Gateways, NEW n \in Names, NEW u \in Users,
                      GroupsDecide(k, n, u), RowsOfGroups(k, n, u) # {}
               PROVE  MembersGetTheRows(k, n, u)
    BY DEF GroupRowsReachMembers, MembersGetTheRows
  <2> QED  BY <1>1, StrongestRowWins DEF MembersGetTheRows, Answered
<1> QED  BY TypeCorrect, <1>2, PTL

-----------------------------------------------------------------------------
(* Promotions.  What a source makes of its table is written with the table *)
(* as a parameter, so that the tables before and after can be compared.    *)

Stored == DOMAIN Priority \cup {NoRow}

\* y is there if x is, and gives as much.
Up(x, y) == (x = NoRow <=> y = NoRow) /\ (x # NoRow => Rights(y) >= Rights(x))

Strongest(found) ==
  IF found = {} THEN NoRow
  ELSE CHOOSE p \in found : \A q \in found : Priority[p] >= Priority[q]

LEMMA RightsValues ==
  /\ \A p \in DOMAIN Priority : Rights(p) \in Nat /\ p # NoRow /\ p # Raised
  /\ \A p \in DOMAIN Priority \ {"NO_PERMISSIONS"} : Rights(p) = Priority[p] /\ Rights(p) > 0
  /\ Rights("NO_PERMISSIONS") = 0 /\ Rights(Raised) = 0
<1>1. Raised \notin DOMAIN Priority /\ NoRow \notin DOMAIN Priority
  BY SourcesAssumption
<1> QED  BY <1>1 DEF Rights, Priority

LEMMA StrongestUp ==
  ASSUME NEW G, NEW f \in [G -> Stored], NEW h \in [G -> Stored], \A g \in G : Up(f[g], h[g])
  PROVE  Up(Strongest({f[g] : g \in G} \ {NoRow}), Strongest({h[g] : g \in G} \ {NoRow}))
<1> DEFINE old == {f[g] : g \in G} \ {NoRow}
           new == {h[g] : g \in G} \ {NoRow}
           a == Strongest(old)
           b == Strongest(new)
<1>1. old = {} <=> new = {}
  BY DEF Up
<1>2. old \in SUBSET DOMAIN Priority /\ new \in SUBSET DOMAIN Priority
  BY DEF Stored
<1>3. CASE old = {}
  BY <1>1, <1>3 DEF Strongest, Up
<1>4. CASE old # {}
  <2>1. a \in old /\ \A q \in old : Priority[a] >= Priority[q]
    BY <1>2, <1>4, StrongestExists DEF Strongest
  <2>2. b \in new /\ \A q \in new : Priority[b] >= Priority[q]
    BY <1>1, <1>2, <1>4, StrongestExists DEF Strongest
  <2>3. PICK g \in G : f[g] = a
    BY <2>1
  <2>4. \A x \in G : f[x] # NoRow => h[x] \in new /\ Rights(h[x]) >= Rights(f[x])
    BY DEF Up
  <2>5. \A x \in G : h[x] \in new => f[x] \in old /\ Rights(h[x]) >= Rights(f[x])
    BY DEF Up
  <2>6. a \in DOMAIN Priority /\ b \in DOMAIN Priority /\ a # NoRow /\ b # NoRow
    BY <1>2, <2>1, <2>2
  <2>7. Rights(b) >= Rights(a)
    <3>1. CASE "NO_PERMISSIONS" \in old
      <4>1. \A r \in DOMAIN Priority : Priority[r] >= Priority["NO_PERMISSIONS"] => r = "NO_PERMISSIONS"
        BY DEF Priority
      <4>2. a = "NO_PERMISSIONS"
        BY <2>1, <2>6, <3>1, <4>1
      <4> HIDE DEF a, b
      <4> QED  BY <2>6, <4>2, RightsValues
    <3>2. CASE "NO_PERMISSIONS" \notin old
      <4>1. "NO_PERMISSIONS" \notin new
        <5>1. SUFFICES ASSUME NEW x \in G, h[x] = "NO_PERMISSIONS"  PROVE FALSE
          OBVIOUS
        <5>2. h[x] \in new
          BY <5>1, RightsValues DEF Priority
        <5>3. f[x] \in old /\ Rights(h[x]) >= Rights(f[x])
          BY <2>5, <5>2
        <5>4. f[x] \in DOMAIN Priority \ {"NO_PERMISSIONS"}
          BY <1>2, <3>2, <5>3
        <5> HIDE DEF old, new
        <5> QED  BY <5>1, <5>3, <5>4, RightsValues
      <4>2. h[g] \in new /\ Rights(h[g]) >= Rights(a)
        BY <2>3, <2>4, <2>6
      <4>3. Priority[b] >= Priority[h[g]]
        BY <2>2, <4>2
      <4>4. b \in DOMAIN Priority \ {"NO_PERMISSIONS"} /\ h[g] \in DOMAIN Priority \ {"NO_PERMISSIONS"}
        BY <1>2, <2>2, <4>1, <4>2
      <4> HIDE DEF a, b, old, new
      <4>5. Rights(b) >= Rights(h[g]) /\ Rights(h[g]) \in Nat /\ Rights(a) \in Nat /\ Rights(b) \in Nat
        BY <2>6, <4>3, <4>4, RightsValues
      <4> QED  BY <4>2, <4>5
    <3> QED  BY <3>1, <3>2
  <2> HIDE DEF a, b
  <2> QED  BY <2>6, <2>7 DEF a, b, Up
<1> QED  BY <1>3, <1>4

\* FirstMatch of a table of patterns
StopsIn(table, k, n, S) ==
  {e \in {k} \X S \X Patterns : table[e] # NoRow /\ (e[3] \in Broken \/ n \in Matches[e[3]])}
FirstOf(table, stops) == {e \in stops : \A d \in stops : table[e].priority <= table[d].priority}
SaidBy(table, e) == IF e[3] \in Broken THEN Raised ELSE table[e].permission
MatchIn(table, k, n, S) ==
  IF StopsIn(table, k, n, S) = {} THEN {NoRow}
  ELSE {SaidBy(table, e) : e \in FirstOf(table, StopsIn(table, k, n, S))}

\* Answers that get no worse, and are there when they were.
SetUp(x, y) == (x = {NoRow} <=> y = {NoRow}) /\ (x # {NoRow} => NoWorse(y, x))

LEMMA MatchUp ==
  ASSUME NEW K, NEW k \in K, NEW n, NEW S \in SUBSET Subjects,
         NEW f \in [K \X Subjects \X Patterns -> Entries \cup {NoRow}],
         NEW h \in [K \X Subjects \X Patterns -> Entries \cup {NoRow}],
         \A e \in K \X Subjects \X Patterns :
           h[e] # f[e] => /\ NoRow \notin {f[e], h[e]} /\ h[e].priority = f[e].priority
                          /\ Rights(h[e].permission) >= Rights(f[e].permission)
  PROVE  SetUp(MatchIn(f, k, n, S), MatchIn(h, k, n, S))
<1> DEFINE stops == StopsIn(f, k, n, S)
           first == FirstOf(f, stops)
<1>1. stops \subseteq K \X Subjects \X Patterns
  BY DEF StopsIn
<1>2. StopsIn(h, k, n, S) = stops
  BY DEF StopsIn
<1>3. \A e \in stops : /\ f[e] \in Entries /\ h[e] \in Entries
                       /\ h[e].priority = f[e].priority
                       /\ h[e] = f[e] \/ Rights(h[e].permission) >= Rights(f[e].permission)
  <2>1. \A e \in stops : f[e] # NoRow /\ h[e] # NoRow
    BY <1>2 DEF StopsIn
  <2> QED  BY <1>1, <2>1
<1>4. \A e \in Entries : e.permission \in DOMAIN Priority
  BY SourcesAssumption DEF Entries
<1>5. \A e \in stops : /\ SaidBy(f, e) # NoRow /\ SaidBy(h, e) # NoRow
                       /\ Rights(SaidBy(h, e)) >= Rights(SaidBy(f, e))
  <2>1. SUFFICES ASSUME NEW e \in stops
                 PROVE  /\ SaidBy(f, e) # NoRow /\ SaidBy(h, e) # NoRow
                        /\ Rights(SaidBy(h, e)) >= Rights(SaidBy(f, e))
    OBVIOUS
  <2>2. f[e].permission \in DOMAIN Priority /\ h[e].permission \in DOMAIN Priority
    BY <1>3, <1>4
  <2>3. Rights(h[e].permission) >= Rights(f[e].permission)
    BY <1>3, <2>2, RightsValues
  <2>4. NoRow # Raised
    BY SourcesAssumption
  <2> QED  BY <2>2, <2>3, <2>4, RightsValues DEF SaidBy
<1> HIDE DEF stops
<1>6. FirstOf(h, stops) = first
  BY <1>3 DEF FirstOf
<1>7. first \subseteq stops
  BY DEF FirstOf
<1> HIDE DEF first
<1>8. CASE stops = {}
  BY <1>2, <1>8 DEF MatchIn, SetUp, stops
<1>9. CASE stops # {}
  <2>1. /\ MatchIn(f, k, n, S) = {SaidBy(f, e) : e \in first}
        /\ MatchIn(h, k, n, S) = {SaidBy(h, e) : e \in first}
    BY <1>2, <1>6, <1>9 DEF MatchIn, stops, first
  <2>2. NoRow \notin MatchIn(f, k, n, S) /\ NoRow \notin MatchIn(h, k, n, S)
    BY <1>5, <1>7, <2>1
  <2>3. NoWorse(MatchIn(h, k, n, S), MatchIn(f, k, n, S))
    BY <1>5, <1>7, <2>1 DEF NoWorse
  <2> QED  BY <2>2, <2>3 DEF SetUp
<1> QED  BY <1>8, <1>9

\* The walk is monotonic: the source that decides stays the same.
LEMMA WalkUp ==
  ASSUME NEW x, NEW y, \A s \in Sources : SetUp(x[s], y[s])
  PROVE  NoWorse(Walk(y), Walk(x))
<1> DEFINE found == {i \in DOMAIN SourceOrder : x[SourceOrder[i]] # {NoRow}}
           m == CHOOSE i \in found : \A j \in found : i <= j
<1>1. \A i \in DOMAIN SourceOrder : i \in Nat /\ SourceOrder[i] \in Sources
  BY SourcesAssumption
<1>2. found = {i \in DOMAIN SourceOrder : y[SourceOrder[i]] # {NoRow}}
  BY <1>1 DEF SetUp
<1>3. CASE found = {}
  <2>1. Walk(x) = {Fallback} /\ Walk(y) = {Fallback}
    BY <1>2, <1>3 DEF Walk
  <2>2. Rights(Fallback) \in Nat
    BY SourcesAssumption, RightsValues
  <2> QED  BY <2>1, <2>2 DEF NoWorse
<1>4. CASE found # {}
  <2>1. \E i \in found : \A j \in found : i <= j
    <3>1. found \in SUBSET Nat
      BY <1>1
    <3> HIDE DEF found
    <3> QED  BY <1>4, <3>1, LeastIndex
  <2>2. m \in found
    BY <2>1
  <2>3. Walk(x) = x[SourceOrder[m]] /\ Walk(y) = y[SourceOrder[m]]
    BY <1>2, <1>4 DEF Walk
  <2> HIDE DEF m
  <2> QED  BY <1>1, <2>2, <2>3 DEF SetUp
<1> QED  BY <1>3, <1>4

LEMMA SingleUp ==
  ASSUME NEW x, NEW y, Up(x, y)
  PROVE  SetUp({x}, {y})
BY DEF Up, SetUp, NoWorse

LEMMA PromotionStep ==
  ASSUME TypeOK, TypeOK', UNCHANGED family, Promotion,
         NEW k \in family, NEW n \in Names, NEW u \in Users
  PROVE  NoWorse(Resolve(k, n, u)', Resolve(k, n, u))
<1> DEFINE T == {Table(kind) : kind \in family} \X Names \X Subjects
<1>1. /\ rows \in [T -> Stored] /\ rows' \in [T -> Stored]
      /\ members' = members /\ members[u] \subseteq Groups
      /\ patterns \in [family \X Subjects \X Patterns -> Entries \cup {NoRow}]
      /\ patterns' \in [family \X Subjects \X Patterns -> Entries \cup {NoRow}]
  BY SourcesAssumption DEF TypeOK, Promotion, Stored
<1>2. \A r \in T : Up(rows[r], rows'[r])
  <2>1. SUFFICES ASSUME NEW r \in T  PROVE Up(rows[r], rows'[r])
    OBVIOUS
  <2>2. CASE rows'[r] = rows[r]
    <3>1. rows[r] # NoRow => Rights(rows[r]) \in Nat
      BY <1>1, RightsValues DEF Stored
    <3> QED  BY <2>2, <3>1 DEF Up
  <2>3. CASE rows'[r] # rows[r]
    BY <1>1, <2>3 DEF Promotion, Up
  <2> QED  BY <2>2, <2>3
<1>3. \A s \in Subjects : <<Table(k), n, s>> \in T
  OBVIOUS
<1> HIDE DEF T
<1>4. SetUp({UserRow(k, n, u)}, {UserRow(k, n, u)'})
  <2>1. <<"user", u>> \in Subjects
    BY DEF Subjects
  <2> QED  BY <1>2, <1>3, <2>1, SingleUp DEF UserRow
<1>5. SetUp({GroupRow(k, n, u)}, {GroupRow(k, n, u)'})
  <2>1. CASE k \in Gateways
    <3>1. GroupRow(k, n, u) = RowOfNamesake(k, n, u) /\ GroupRow(k, n, u)' = RowOfNamesake(k, n, u)'
      BY <2>1 DEF GroupRow
    <3>2. CASE u \in Groups
      <4>1. <<"group", u>> \in Subjects /\ Table(k) = k
        BY <2>1, <3>2 DEF Subjects, Table, Gateways
      <4>2. Up(rows[<<k, n, <<"group", u>>>>], rows'[<<k, n, <<"group", u>>>>])
        BY <1>2, <1>3, <4>1
      <4> QED  BY <3>1, <3>2, <4>2, SingleUp DEF RowOfNamesake
    <3>3. CASE u \notin Groups
      BY <3>1, <3>3, SingleUp DEF RowOfNamesake, Up
    <3> QED  BY <3>2, <3>3
  <2>2. CASE k \notin Gateways
    <3> DEFINE G == members[u]
               f == [g \in G |-> rows[<<Table(k), n, <<"group", g>>>>]]
               h == [g \in G |-> rows'[<<Table(k), n, <<"group", g>>>>]]
    <3>1. \A g \in G : <<Table(k), n, <<"group", g>>>> \in T
      BY <1>1, <1>3 DEF Subjects
    <3>2. /\ f \in [G -> Stored] /\ h \in [G -> Stored] /\ \A g \in G : Up(f[g], h[g])
      BY <1>1, <1>2, <3>1
    <3>3. /\ GroupRow(k, n, u) = Strongest(RowsOfGroups(k, n, u))
          /\ GroupRow(k, n, u)' = Strongest(RowsOfGroups(k, n, u)')
      BY <2>2 DEF GroupRow, StrongestRow, Strongest
    <3>4. RowsOfGroups(k, n, u) = {f[g] : g \in G} \ {NoRow}
      BY DEF RowsOfGroups
    <3>5. RowsOfGroups(k, n, u)' = {h[g] : g \in G} \ {NoRow}
      BY <1>1 DEF RowsOfGroups
    <3> HIDE DEF f, h, G
    <3>6. Up(Strongest({f[g] : g \in G} \ {NoRow}), Strongest({h[g] : g \in G} \ {NoRow}))
      BY <3>2, StrongestUp
    <3> QED  BY <3>3, <3>4, <3>5, <3>6, SingleUp
  <2> QED  BY <2>1, <2>2
<1>6. \A S \in SUBSET Subjects : SetUp(MatchIn(patterns, k, n, S), MatchIn(patterns', k, n, S))
  <2>1. \A e \in family \X Subjects \X Patterns :
          patterns'[e] # patterns[e] =>
            /\ NoRow \notin {patterns[e], patterns'[e]}
            /\ patterns'[e].priority = patterns[e].priority
            /\ Rights(patterns'[e].permission) >= Rights(patterns[e].permission)
    BY <1>1 DEF Promotion
  <2> QED  BY <1>1, <2>1, MatchUp
<1>7. SetUp(UserMatch(k, n, u), UserMatch(k, n, u)')
  <2>1. /\ UserMatch(k, n, u) = MatchIn(patterns, k, n, {<<"user", u>>})
        /\ UserMatch(k, n, u)' = MatchIn(patterns', k, n, {<<"user", u>>})
    BY DEF UserMatch, FirstMatch, Stops, Said, MatchIn, StopsIn, FirstOf, SaidBy
  <2>2. {<<"user", u>>} \in SUBSET Subjects
    BY DEF Subjects
  <2> QED  BY <1>6, <2>1, <2>2
<1>8. SetUp(GroupMatch(k, n, u), GroupMatch(k, n, u)')
  <2>1. /\ GroupMatch(k, n, u) = MatchIn(patterns, k, n, {"group"} \X members[u])
        /\ GroupMatch(k, n, u)' = MatchIn(patterns', k, n, {"group"} \X members'[u])
    BY DEF GroupMatch, FirstMatch, Stops, Said, MatchIn, StopsIn, FirstOf, SaidBy
  <2>2. {"group"} \X members[u] \in SUBSET Subjects
    BY <1>1 DEF Subjects
  <2> QED  BY <1>1, <1>6, <2>1, <2>2
<1> DEFINE x == [s \in Sources |-> CASE s = "user"  -> {UserRow(k, n, u)}
                                     [] s = "group" -> {GroupRow(k, n, u)}
                                     [] s = "regex" -> UserMatch(k, n, u)
                                     [] s = "group-regex" -> GroupMatch(k, n, u)]
           y == [s \in Sources |-> CASE s = "user"  -> {UserRow(k, n, u)'}
                                     [] s = "group" -> {GroupRow(k, n, u)'}
                                     [] s = "regex" -> UserMatch(k, n, u)'
                                     [] s = "group-regex" -> GroupMatch(k, n, u)']
<1>9. \A s \in Sources : SetUp(x[s], y[s])
  BY <1>4, <1>5, <1>7, <1>8 DEF Sources
<1>10. Resolve(k, n, u) = Walk(x) /\ Resolve(k, n, u)' = Walk(y)
  BY DEF Resolve
<1> HIDE DEF x, y
<1> QED  BY <1>9, <1>10, WalkUp

\* A stronger row or pattern takes nothing from anyone, whichever sources answer
\* and in whatever order they are asked: each source is monotonic, and so is the
\* walk over them (resolve_permission, get_group_permission_for_user_resource).
THEOREM PromotionsRaise == Spec => PromotionRaises
<1>1. ASSUME TypeOK, TypeOK', [Next]_vars
      PROVE  [Promotion => \A k \in family, n \in Names, u \in Users :
                             NoWorse(Resolve(k, n, u)', Resolve(k, n, u))]_vars
  <2>1. UNCHANGED family
    BY <1>1 DEF Next, vars
  <2> QED  BY <1>1, <2>1, PromotionStep
<1> QED  BY TypeCorrect, <1>1, PTL DEF Spec, PromotionRaises

-----------------------------------------------------------------------------
(* Pages and requests *)

\* A source of patterns says that it has nothing, or it has something to say.
LEMMA MatchAnswers ==
  ASSUME TypeOK, NEW k \in family, NEW n, NEW subjects \in SUBSET Subjects
  PROVE  LET match == FirstMatch(k, n, subjects)
         IN  match = {NoRow} \/ (match # {} /\ NoRow \notin match)
<1> DEFINE stops == Stops(k, n, subjects)
           first == {e \in stops : \A d \in stops : patterns[e].priority <= patterns[d].priority}
<1>1. \A e \in stops : patterns[e] \in Entries
  BY DEF Stops, TypeOK
<1>2. \A e \in Entries : e.priority \in Nat /\ e.permission # NoRow
  BY SourcesAssumption DEF Entries
<1> HIDE DEF stops
<1>3. CASE stops = {}
  BY <1>3 DEF FirstMatch, stops
<1>4. CASE stops # {}
  <2> DEFINE P == {patterns[e].priority : e \in stops}
  <2>1. P \in SUBSET Nat /\ P # {}
    BY <1>1, <1>2, <1>4
  <2>2. PICK least \in P : \A q \in P : least <= q
    <3> HIDE DEF P
    <3> QED  BY <2>1, LeastIndex
  <2>3. first # {}
    BY <2>2
  <2>4. FirstMatch(k, n, subjects) = Said(first)
    BY <1>4 DEF FirstMatch, stops
  <2>5. first \subseteq stops
    OBVIOUS
  <2> HIDE DEF first
  <2>6. Said(first) # {}
    BY <2>3 DEF Said
  <2>7. NoRow \notin Said(first)
    BY <1>1, <1>2, <2>5, SourcesAssumption DEF Said
  <2> QED  BY <2>4, <2>6, <2>7
<1> QED  BY <1>3, <1>4

\* Of one row, any and the strongest are the same.
LEMMA OneRow ==
  ASSUME TypeOK, NEW k \in family \ Gateways, NEW n \in Names, NEW u \in Users,
         Cardinality(RowsOfGroups(k, n, u)) <= 1
  PROVE  AnyRowOfGroups(k, n, u) = {GroupRow(k, n, u)}
<1> DEFINE found == RowsOfGroups(k, n, u)
<1>1. CASE found = {}
  BY <1>1 DEF AnyRowOfGroups, GroupRow, StrongestRow
<1>2. CASE found # {}
  <2>1. GroupRow(k, n, u) \in found
    BY <1>2, StrongestRowWins DEF GroupRow
  <2>2. found \subseteq Permissions
    <3>1. \A s \in Subjects : rows[<<Table(k), n, s>>] \in Permissions \cup {NoRow}
      BY DEF TypeOK
    <3>2. members[u] \subseteq Groups
      BY DEF TypeOK
    <3> QED  BY <3>1, <3>2 DEF RowsOfGroups, Subjects
  <2>3. IsFiniteSet(DOMAIN Priority)
    <3>1. DOMAIN Priority = (({"READ"} \cup {"USE"}) \cup ({"EDIT"} \cup {"MANAGE"})) \cup {"NO_PERMISSIONS"}
      BY DEF Priority
    <3>2. \A p : IsFiniteSet({p})
      BY FS_Singleton
    <3>3. \A A, B : IsFiniteSet(A) /\ IsFiniteSet(B) => IsFiniteSet(A \cup B)
      BY FS_Union
    <3>4. IsFiniteSet({"READ"} \cup {"USE"}) /\ IsFiniteSet({"EDIT"} \cup {"MANAGE"})
      BY <3>2, <3>3
    <3>5. IsFiniteSet(({"READ"} \cup {"USE"}) \cup ({"EDIT"} \cup {"MANAGE"}))
      BY <3>3, <3>4
    <3> DEFINE four == ({"READ"} \cup {"USE"}) \cup ({"EDIT"} \cup {"MANAGE"})
    <3>6. DOMAIN Priority = four \cup {"NO_PERMISSIONS"} /\ IsFiniteSet(four)
      BY <3>1, <3>5
    <3> HIDE DEF four
    <3>7. IsFiniteSet(four \cup {"NO_PERMISSIONS"})
      BY <3>2, <3>3, <3>6
    <3> QED  BY <3>6, <3>7
  <2> HIDE DEF found
  <2>4. IsFiniteSet(found)
    BY <2>2, <2>3, FS_Subset, SourcesAssumption
  <2>5. found = {GroupRow(k, n, u)}
    <3>1. SUFFICES ASSUME NEW q \in found, q # GroupRow(k, n, u)  PROVE FALSE
      BY <2>1
    <3> DEFINE two == {q, GroupRow(k, n, u)}
    <3>2. IsFiniteSet(two) /\ two \subseteq found /\ Cardinality(two) = 2
      <4>1. IsFiniteSet({GroupRow(k, n, u)}) /\ Cardinality({GroupRow(k, n, u)}) = 1
        BY FS_Singleton
      <4>2. two = {GroupRow(k, n, u)} \cup {q} /\ q \notin {GroupRow(k, n, u)}
        BY <3>1
      <4> HIDE DEF two
      <4>3. IsFiniteSet(two) /\ Cardinality(two) = Cardinality({GroupRow(k, n, u)}) + 1
        BY <4>1, <4>2, FS_AddElement
      <4> QED  BY <2>1, <4>1, <4>2, <4>3
    <3>3. Cardinality(two) <= Cardinality(found) /\ Cardinality(found) \in Nat
      BY <2>4, <3>2, FS_Subset, FS_CardinalityType
    <3> QED  BY <3>2, <3>3 DEF found
  <2> QED  BY <1>2, <2>5 DEF AnyRowOfGroups, found
<1> QED  BY <1>1, <1>2

\* Sources that say less, but are silent where the others are.
LEMMA WalkWithin ==
  ASSUME NEW x, NEW y,
         \A s \in Sources : y[s] \subseteq x[s] /\ (y[s] = {NoRow} <=> x[s] = {NoRow})
  PROVE  Walk(y) \subseteq Walk(x)
<1> DEFINE found == {i \in DOMAIN SourceOrder : x[SourceOrder[i]] # {NoRow}}
           m == CHOOSE i \in found : \A j \in found : i <= j
<1>1. \A i \in DOMAIN SourceOrder : i \in Nat /\ SourceOrder[i] \in Sources
  BY SourcesAssumption
<1>2. found = {i \in DOMAIN SourceOrder : y[SourceOrder[i]] # {NoRow}}
  BY <1>1
<1>3. CASE found = {}
  BY <1>2, <1>3 DEF Walk
<1>4. CASE found # {}
  <2>1. \E i \in found : \A j \in found : i <= j
    <3>1. found \in SUBSET Nat
      BY <1>1
    <3> HIDE DEF found
    <3> QED  BY <1>4, <3>1, LeastIndex
  <2>2. m \in found
    BY <2>1
  <2>3. Walk(x) = x[SourceOrder[m]] /\ Walk(y) = y[SourceOrder[m]]
    BY <1>2, <1>4 DEF Walk
  <2> HIDE DEF m
  <2> QED  BY <1>1, <2>2, <2>3
<1> QED  BY <1>3, <1>4

\* What a page computes is what the request gets, unless a pattern raises.
LEMMA BatchAgrees ==
  ASSUME TypeOK, NEW k \in family \ Gateways, NEW n \in Names, NEW u \in Users,
         Cardinality(RowsOfGroups(k, n, u)) <= 1
  PROVE  /\ BatchResolve(k, n, u) \ {Raised} \subseteq Resolve(k, n, u)
         /\ Raised \notin BatchResolve(k, n, u) => BatchResolve(k, n, u) = Resolve(k, n, u)
<1> DEFINE um == UserMatch(k, n, u)
           gm == GroupMatch(k, n, u)
           x == [s \in Sources |-> CASE s = "user"  -> {UserRow(k, n, u)}
                                     [] s = "group" -> {GroupRow(k, n, u)}
                                     [] s = "regex" -> um
                                     [] s = "group-regex" -> gm]
           y == [s \in Sources |-> CASE s = "user"  -> {UserRow(k, n, u)}
                                     [] s = "group" -> AnyRowOfGroups(k, n, u)
                                     [] s = "regex" -> um \ {Raised}
                                     [] s = "group-regex" -> gm \ {Raised}]
<1>1. Resolve(k, n, u) = Walk(x)
  BY DEF Resolve
<1>2. BatchResolve(k, n, u) = ((um \cup gm) \cap {Raised})
                               \cup (IF {} \in {y[s] : s \in Sources} THEN {} ELSE Walk(y))
  BY DEF BatchResolve
<1>3. um = {NoRow} \/ (um # {} /\ NoRow \notin um)
  <2>1. {<<"user", u>>} \in SUBSET Subjects
    BY DEF Subjects
  <2> QED  BY <2>1, MatchAnswers DEF UserMatch
<1>4. gm = {NoRow} \/ (gm # {} /\ NoRow \notin gm)
  <2>1. {"group"} \X members[u] \in SUBSET Subjects
    BY DEF Subjects, TypeOK
  <2> QED  BY <2>1, MatchAnswers DEF GroupMatch
<1>5. AnyRowOfGroups(k, n, u) = {GroupRow(k, n, u)}
  BY OneRow
<1>6. NoRow # Raised
  BY SourcesAssumption
<1> HIDE DEF um, gm
<1>7. /\ x["user"] = {UserRow(k, n, u)} /\ y["user"] = {UserRow(k, n, u)}
      /\ x["group"] = {GroupRow(k, n, u)} /\ y["group"] = {GroupRow(k, n, u)}
      /\ x["regex"] = um /\ y["regex"] = um \ {Raised}
      /\ x["group-regex"] = gm /\ y["group-regex"] = gm \ {Raised}
  BY <1>5 DEF Sources
<1>8. Sources = {"user", "group", "regex", "group-regex"}
  BY DEF Sources
<1> HIDE DEF x, y
<1>9. ASSUME {} \notin {y[s] : s \in Sources}  PROVE Walk(y) \subseteq Walk(x)
  <2>1. um \ {Raised} # {} /\ gm \ {Raised} # {}
    BY <1>7, <1>8, <1>9
  <2>2. \A s \in Sources : y[s] \subseteq x[s] /\ (y[s] = {NoRow} <=> x[s] = {NoRow})
    BY <1>3, <1>4, <1>6, <1>7, <1>8, <2>1
  <2> QED  BY <2>2, WalkWithin
<1>10. ASSUME Raised \notin BatchResolve(k, n, u)  PROVE BatchResolve(k, n, u) = Resolve(k, n, u)
  <2>1. Raised \notin um /\ Raised \notin gm
    BY <1>2, <1>10
  <2>2. um # {} /\ gm # {} /\ um \ {Raised} = um /\ gm \ {Raised} = gm
    BY <1>3, <1>4, <2>1
  <2>3. \A s \in Sources : y[s] = x[s] /\ y[s] # {}
    BY <1>7, <1>8, <2>2
  <2>4. Walk(y) \subseteq Walk(x) /\ Walk(x) \subseteq Walk(y)
    BY <2>3, WalkWithin
  <2> QED  BY <1>1, <1>2, <2>1, <2>3, <2>4
<1> QED  BY <1>1, <1>2, <1>9, <1>10

\* A page shows what a request would get and leaves out nothing that the user
\* may do, unless a user's groups disagree about the name: for any sources,
\* patterns and priorities (batch_permissions.py against permissions.py).
THEOREM PagesTellTheTruth == Spec => []ListingTellsTheTruth
<1>1. ASSUME TypeOK  PROVE ListingTellsTheTruth
  <2>1. SUFFICES ASSUME NEW k \in family \cap BatchKinds, NEW n \in Names, NEW u \in Users,
                        \A v \in Users : Cardinality(RowsOfGroups(k, n, v)) <= 1
                 PROVE  /\ \A a \in Users \cup {Admin} :
                             /\ Shown(a, k, n, u) \subseteq Resolve(k, n, u)
                             /\ a # u /\ Shown(a, k, n, u) # {} => Manages(a, k, n)
                        /\ Raised \notin BatchResolve(k, n, u) =>
                             {p \in Resolve(k, n, u) : Rights(p) > 0} \subseteq Shown(u, k, n, u)
    BY DEF ListingTellsTheTruth
  <2>2. k \in family \ Gateways
    BY DEF BatchKinds, Gateways
  <2>3. \A v \in Users :
          /\ BatchResolve(k, n, v) \ {Raised} \subseteq Resolve(k, n, v)
          /\ Raised \notin BatchResolve(k, n, v) => BatchResolve(k, n, v) = Resolve(k, n, v)
    BY <1>1, <2>1, <2>2, BatchAgrees
  <2>4. ASSUME NEW a \in Users \cup {Admin}
        PROVE  /\ Shown(a, k, n, u) \subseteq Resolve(k, n, u)
               /\ a # u /\ Shown(a, k, n, u) # {} => Manages(a, k, n)
    <3>1. Shown(a, k, n, u) \subseteq BatchResolve(k, n, u) \ {Raised}
      BY DEF Shown
    <3>2. CASE a = Admin
      BY <2>3, <3>1, <3>2 DEF Manages
    <3>3. CASE a \in Users /\ a # Admin /\ a # u /\ Shown(a, k, n, u) # {}
      <4>1. "MANAGE" \in BatchResolve(k, n, a)
        BY <3>3 DEF Shown
      <4>2. "MANAGE" # Raised
        BY RightsValues DEF Priority
      <4>3. "MANAGE" \in Resolve(k, n, a)
        BY <2>3, <3>3, <4>1, <4>2
      <4> QED  BY <2>3, <3>1, <3>3, <4>3 DEF Manages
    <3> QED  BY <2>3, <3>1, <3>2, <3>3
  <2>5. ASSUME Raised \notin BatchResolve(k, n, u), NEW p \in Resolve(k, n, u), Rights(p) > 0
        PROVE  p \in Shown(u, k, n, u)
    <3>1. p \in BatchResolve(k, n, u)
      BY <2>3, <2>5
    <3>2. p # Raised /\ p # "NO_PERMISSIONS"
      BY <2>5, RightsValues
    <3>3. u # Admin
      BY SourcesAssumption
    <3> QED  BY <3>1, <3>2, <3>3 DEF Shown
  <2> QED  BY <2>4, <2>5
<1> QED  BY TypeCorrect, <1>1, PTL

-----------------------------------------------------------------------------
(* What is kept of a sequence: the elements at an increasing row of places.*)

KeptPlaces(s, K) == {j \in 1 .. Len(s) : s[j] \in K}

Places(t, s, K, f) ==
  /\ f \in [1 .. Len(t) -> 1 .. Len(s)]
  /\ \A a \in 1 .. Len(t) : t[a] = s[f[a]] /\ t[a] \in K /\ a <= f[a]
  /\ \A a, b \in 1 .. Len(t) : a < b => f[a] < f[b]
  /\ \A j \in KeptPlaces(s, K) : \E a \in 1 .. Len(t) : f[a] = j

(* A place's rank among finitely many is one of 1, 2, ..., and no two share*)
(* one.                                                                    *)
LEMMA Ranks ==
  ASSUME NEW n \in Nat, NEW P \in SUBSET (1 .. n)
  PROVE  /\ IsFiniteSet(P) /\ Cardinality(P) \in 0 .. n
         /\ \A j \in P : Rank(P, j) \in 1 .. Cardinality(P) /\ Rank(P, j) <= j
         /\ \A j, k \in P : j < k => Rank(P, j) < Rank(P, k)
         /\ \A a \in 1 .. Cardinality(P) : \E j \in P : Rank(P, j) = a
<1>0. \A j \in P : j \in 1 .. n /\ j \in Nat /\ j >= 1
  OBVIOUS
<1>1. IsFiniteSet(1 .. n) /\ Cardinality(1 .. n) = n
  BY FS_Interval
<1>2. IsFiniteSet(P) /\ Cardinality(P) <= n /\ Cardinality(P) \in Nat
  BY <1>1, FS_Subset, FS_CardinalityType
<1> DEFINE Upto(j) == {k \in P : k <= j}
<1>3. ASSUME NEW j \in P
      PROVE  /\ IsFiniteSet(Upto(j)) /\ Cardinality(Upto(j)) \in 1 .. Cardinality(P)
             /\ Cardinality(Upto(j)) <= j
  <2>1. Upto(j) \in SUBSET P /\ j \in Upto(j)
    OBVIOUS
  <2>2. IsFiniteSet(Upto(j)) /\ Cardinality(Upto(j)) <= Cardinality(P)
        /\ Cardinality(Upto(j)) \in Nat
    BY <1>2, <2>1, FS_Subset, FS_CardinalityType
  <2>3. Cardinality(Upto(j)) # 0
    BY <2>1, <2>2, FS_EmptySet
  <2>4. j \in Nat /\ j >= 1 /\ \A i \in Upto(j) : i \in 1 .. j
    BY <1>0
  <2>4a. IsFiniteSet(1 .. j) /\ Cardinality(1 .. j) = j
    BY <2>4, FS_Interval
  <2>5. Cardinality(Upto(j)) <= j
    <3> HIDE DEF Upto
    <3> QED
      BY <2>4, <2>4a, FS_Subset
  <2> QED
    BY <1>2, <2>2, <2>3, <2>5
<1>4. ASSUME NEW j \in P, NEW k \in P, j < k
      PROVE  Cardinality(Upto(j)) < Cardinality(Upto(k))
  <2>1. (\A i \in Upto(j) : i \in Upto(k)) /\ k \in Upto(k) /\ k \notin Upto(j)
    <3>1. j \in Nat /\ k \in Nat /\ \A i \in P : i \in Nat
      BY <1>0
    <3>2. \A i \in P : i <= j => i <= k
      BY <1>4, <3>1
    <3> QED
      BY <1>4, <3>1, <3>2
  <2>2. Cardinality(Upto(j)) <= Cardinality(Upto(k)) /\ Cardinality(Upto(j)) # Cardinality(Upto(k))
    <3> HIDE DEF Upto
    <3> QED
      BY <1>3, <2>1, FS_Subset
  <2> QED
    BY <1>3, <2>2
<1> DEFINE r == [j \in P |-> Cardinality(Upto(j))]
           N == Cardinality(P)
<1>5. r \in Injection(P, 1 .. N)
  <2>1. r \in [P -> 1 .. N]
    BY <1>3
  <2>2. \A j, k \in P : r[j] = r[k] => j = k
    BY <1>3, <1>4
  <2> HIDE DEF r
  <2> QED
    BY <2>1, <2>2 DEF Injection, IsInjective
<1>6. IsFiniteSet(1 .. N) /\ Cardinality(1 .. N) = N
  BY <1>2, FS_Interval
<1>7. r \in Surjection(P, 1 .. N)
  BY <1>5, <1>6, FS_Injection
<1>8. \A a \in 1 .. N : \E j \in P : r[j] = a
  <2> HIDE DEF r, N
  <2> QED
    BY <1>7 DEF Surjection
<1>9. \A j \in P : Rank(P, j) = Cardinality(Upto(j))
  BY DEF Rank
<1> QED
  <2> HIDE DEF Upto, N
  <2>1. \A j \in P : r[j] = Rank(P, j)
    BY <1>9
  <2> HIDE DEF r
  <2>2. N \in 0 .. n
    BY <1>2 DEF N
  <2>3. \A j \in P : Rank(P, j) \in 1 .. N /\ Rank(P, j) <= j
    BY <1>3, <1>9 DEF N
  <2>4. \A j, k \in P : j < k => Rank(P, j) < Rank(P, k)
    BY <1>4, <1>9
  <2>5. \A a \in 1 .. N : \E j \in P : Rank(P, j) = a
    BY <1>8, <2>1
  <2> QED
    BY <1>2, <2>2, <2>3, <2>4, <2>5 DEF N

LEMMA KeepHasPlaces ==
  ASSUME NEW S, NEW s \in Seq(S), NEW K
  PROVE  /\ Keep(s, K) \in Seq(S) /\ Len(Keep(s, K)) = Cardinality(KeptPlaces(s, K))
         /\ \E f : Places(Keep(s, K), s, K, f)
<1> DEFINE P == KeptPlaces(s, K)
           N == Cardinality(P)
           f == [a \in 1 .. N |-> CHOOSE j \in P : Rank(P, j) = a]
<1>1. Len(s) \in Nat /\ P \in SUBSET (1 .. Len(s)) /\ \A j \in P : j \in Nat
  BY DEF KeptPlaces
<1>2. /\ N \in Nat
      /\ \A j \in P : Rank(P, j) \in 1 .. N /\ Rank(P, j) <= j
      /\ \A j, k \in P : j < k => Rank(P, j) < Rank(P, k)
      /\ \A a \in 1 .. N : \E j \in P : Rank(P, j) = a
  BY <1>1, Ranks
<1>3. Keep(s, K) = [a \in 1 .. N |-> s[f[a]]]
  BY DEF Keep, KeptPlaces
<1> HIDE DEF P
<1>4. f \in [1 .. N -> P] /\ \A a \in 1 .. N : Rank(P, f[a]) = a
  BY <1>2
<1> HIDE DEF N, f
<1>5. \A j \in P : s[j] \in S /\ s[j] \in K
  BY <1>1 DEF P, KeptPlaces
<1>6. Keep(s, K) \in Seq(S) /\ Len(Keep(s, K)) = N
      /\ \A a \in 1 .. N : Keep(s, K)[a] = s[f[a]] /\ Keep(s, K)[a] \in K
  BY <1>2, <1>3, <1>4, <1>5
<1>7. \A a \in 1 .. N : a <= f[a]
  BY <1>2, <1>4
<1>8. \A a, b \in 1 .. N : a < b => f[a] < f[b]
  <2> SUFFICES ASSUME NEW a \in 1 .. N, NEW b \in 1 .. N, a < b
               PROVE  f[a] < f[b]
    OBVIOUS
  <2>1. f[a] \in P /\ f[b] \in P /\ f[a] \in Nat /\ f[b] \in Nat
    BY <1>1, <1>4
  <2>2. f[a] # f[b] /\ ~(f[b] < f[a])
    BY <1>2, <1>4, <2>1
  <2> QED
    BY <2>1, <2>2
<1>9. \A j \in P : \E a \in 1 .. N : f[a] = j
  <2> SUFFICES ASSUME NEW j \in P
               PROVE  f[Rank(P, j)] = j
    BY <1>2
  <2> DEFINE a == Rank(P, j)
  <2>1. a \in 1 .. N /\ f[a] \in P /\ Rank(P, f[a]) = a /\ f[a] \in Nat /\ j \in Nat
    BY <1>1, <1>2, <1>4
  <2>2. ~(f[a] < j) /\ ~(j < f[a])
    BY <1>2, <2>1
  <2> QED
    BY <2>1, <2>2
<1>10. f \in [1 .. N -> 1 .. Len(s)]
  BY <1>1, <1>4
<1> QED
  BY <1>6, <1>7, <1>8, <1>9, <1>10 DEF Places, P, N

(* So a part keeps the order and repeats nothing, and misses nothing.      *)
LEMMA KeepFacts ==
  ASSUME NEW S, NEW s \in Seq(S), NEW K
  PROVE  /\ Keep(s, K) \in Seq(S) /\ Len(Keep(s, K)) <= Len(s)
         /\ ToSet(Keep(s, K)) = ToSet(s) \cap K
         /\ IsInjective(s) => IsInjective(Keep(s, K))
<1> DEFINE t == Keep(s, K)
<1>1. t \in Seq(S)
  BY KeepHasPlaces
<1>2. PICK f : Places(t, s, K, f)
  BY KeepHasPlaces
<1> HIDE DEF t
<1>3. DOMAIN s = 1 .. Len(s) /\ DOMAIN t = 1 .. Len(t) /\ Len(t) \in Nat /\ Len(s) \in Nat
  BY <1>1
<1>4. Len(t) <= Len(s)
  BY <1>2, <1>3 DEF Places
<1>5. ToSet(t) = ToSet(s) \cap K
  <2>1. \A x \in ToSet(t) : x \in ToSet(s) /\ x \in K
    BY <1>2, <1>3 DEF Places, ToSet
  <2>2. ASSUME NEW x \in ToSet(s), x \in K
        PROVE  x \in ToSet(t)
    <3>1. PICK j \in 1 .. Len(s) : s[j] = x
      BY <1>3 DEF ToSet
    <3>2. PICK a \in 1 .. Len(t) : f[a] = j
      BY <1>2, <2>2, <3>1 DEF Places, KeptPlaces
    <3> QED
      BY <1>2, <1>3, <3>1, <3>2 DEF Places, ToSet
  <2> QED
    BY <2>1, <2>2
<1>6. ASSUME IsInjective(s)
      PROVE  IsInjective(t)
  <2> SUFFICES ASSUME NEW a \in 1 .. Len(t), NEW b \in 1 .. Len(t), t[a] = t[b]
               PROVE  a = b
    BY <1>3 DEF IsInjective
  <2>1. f[a] = f[b]
    BY <1>2, <1>3, <1>6 DEF Places, IsInjective
  <2>2. ~(a < b) /\ ~(b < a)
    BY <1>2, <2>1 DEF Places
  <2> QED
    BY <2>2
<1> QED
  BY <1>1, <1>4, <1>5, <1>6 DEF t

(* A slice of a page's length, and one from the beginning.                 *)
PageOf(t, s, o, m, S) ==
  /\ t \in Seq(S) /\ Len(t) <= m
  /\ Len(t) = IF Len(s) <= o THEN 0 ELSE IF o + m <= Len(s) THEN m ELSE Len(s) - o
  /\ \A k \in 1 .. Len(t) : o + k \in 1 .. Len(s) /\ t[k] = s[o + k]

LEMMA SliceFacts ==
  ASSUME NEW S, NEW s \in Seq(S), NEW o \in Nat, NEW m \in Nat
  PROVE  PageOf(Slice(s, o + 1, o + m), s, o, m, S)
<1> DEFINE e == IF o + m < Len(s) THEN o + m ELSE Len(s)
           t == SubSeq(s, o + 1, e)
<1>1. Len(s) \in Nat /\ e \in Nat /\ e <= Len(s) /\ o + 1 \in Int /\ e <= o + m
  OBVIOUS
<1>2. \A i \in (o + 1) .. e : s[i] \in S
  <2> SUFFICES ASSUME NEW i \in (o + 1) .. e PROVE i \in 1 .. Len(s)
    OBVIOUS
  <2> HIDE DEF e
  <2> QED
    BY <1>1
<1>3. t \in Seq(S) /\ Len(t) = (IF o + 1 <= e THEN e - (o + 1) + 1 ELSE 0)
      /\ \A i \in 1 .. e - (o + 1) + 1 : t[i] = s[o + 1 + i - 1]
  <2> HIDE DEF e
  <2> QED
    BY <1>1, <1>2, SubSeqProperties
<1>4. Slice(s, o + 1, o + m) = t
  BY DEF Slice
<1>5. Len(t) = IF Len(s) <= o THEN 0 ELSE IF o + m <= Len(s) THEN m ELSE Len(s) - o
  BY <1>3
<1>6. ASSUME NEW k \in 1 .. Len(t)
      PROVE  o + k \in 1 .. Len(s) /\ t[k] = s[o + k]
  <2> HIDE DEF e, t
  <2>1. o + 1 <= e /\ k \in 1 .. e - (o + 1) + 1 /\ k \in Nat
    BY <1>1, <1>3
  <2>2. o + 1 + k - 1 = o + k
    BY <2>1
  <2> QED
    BY <1>1, <1>3, <2>1, <2>2
<1> HIDE DEF t, e
<1>7. Len(t) <= m
  BY <1>1, <1>5
<1> QED
  BY <1>3, <1>4, <1>5, <1>6, <1>7 DEF PageOf

LEMMA CutFacts ==
  ASSUME NEW S, NEW s \in Seq(S), NEW m \in Nat
  PROVE  LET t == Slice(s, 1, m)
         IN  /\ t \in Seq(S) /\ Len(t) = (IF m <= Len(s) THEN m ELSE Len(s))
             /\ \A k \in 1 .. Len(t) : k \in 1 .. Len(s) /\ t[k] = s[k]
<1>1. 0 + 1 = 1 /\ 0 + m = m /\ Len(s) \in Nat
  OBVIOUS
<1>2. PICK o \in Nat : o = 0
  OBVIOUS
<1>2a. PageOf(Slice(s, o + 1, o + m), s, o, m, S)
  BY SliceFacts
<1>3. Slice(s, o + 1, o + m) = Slice(s, 1, m)
  <2>1. o + 1 = 1 /\ o + m = m
    BY <1>2
  <2> QED
    BY <2>1
<1> DEFINE t == Slice(s, 1, m)
<1>4. /\ t \in Seq(S) 
      /\ Len(t) = IF Len(s) <= 0 THEN 0 ELSE IF m <= Len(s) THEN m ELSE Len(s)
      /\ \A k \in 1 .. Len(t) : 0 + k \in 1 .. Len(s) /\ t[k] = s[0 + k]
  BY <1>2, <1>2a, <1>3 DEF PageOf
<1> HIDE DEF t
<1>5. \A k \in 1 .. Len(t) : k \in 1 .. Len(s) /\ t[k] = s[k]
  BY <1>4
<1>6. Len(t) = IF m <= Len(s) THEN m ELSE Len(s)
  BY <1>1, <1>4
<1> QED
  BY <1>4, <1>5, <1>6 DEF t

LEMMA InsertFacts ==
  ASSUME NEW S, NEW s \in Seq(S), NEW i \in S, NEW n \in 1 .. Len(s) + 1
  PROVE  LET t == InsertAt(s, n, i)
         IN  /\ t \in Seq(S) /\ Len(t) = Len(s) + 1
             /\ \A p \in 1 .. Len(t) : t[p] = IF p < n THEN s[p] ELSE IF p = n THEN i ELSE s[p - 1]
             /\ IsInjective(s) /\ i \notin ToSet(s) => IsInjective(t)
<1> DEFINE a == SubSeq(s, 1, n - 1)
           b == SubSeq(s, n, Len(s))
           t == (a \o <<i>>) \o b
<1>0. n \in Nat /\ n >= 1 /\ Len(s) \in Nat /\ n <= Len(s) + 1 /\ n - 1 \in Int
  OBVIOUS
<1>1. a \in Seq(S) /\ Len(a) = n - 1 /\ \A p \in 1 .. n - 1 : a[p] = s[p]
  <2>1. \A p \in 1 .. n - 1 : s[p] \in S
    BY <1>0
  <2>2. a \in Seq(S) /\ Len(a) = (IF 1 <= n - 1 THEN n - 1 - 1 + 1 ELSE 0)
        /\ \A p \in 1 .. n - 1 - 1 + 1 : a[p] = s[1 + p - 1]
    BY <1>0, <2>1, SubSeqProperties
  <2> HIDE DEF a
  <2>3. n - 1 - 1 + 1 = n - 1 /\ \A p \in 1 .. n - 1 : 1 + p - 1 = p
    BY <1>0
  <2> QED
    BY <1>0, <2>2, <2>3
<1>2. b \in Seq(S) /\ Len(b) = Len(s) + 1 - n /\ \A p \in 1 .. Len(s) + 1 - n : b[p] = s[n + p - 1]
  <2>1. \A p \in n .. Len(s) : s[p] \in S
    BY <1>0
  <2>2. b \in Seq(S) /\ Len(b) = (IF n <= Len(s) THEN Len(s) - n + 1 ELSE 0)
        /\ \A p \in 1 .. Len(s) - n + 1 : b[p] = s[n + p - 1]
    BY <1>0, <2>1, SubSeqProperties
  <2> HIDE DEF b
  <2>3. Len(s) - n + 1 = Len(s) + 1 - n
    BY <1>0
  <2> QED
    BY <1>0, <2>2, <2>3
<1>3. <<i>> \in Seq(S) /\ Len(<<i>>) = 1 /\ <<i>>[1] = i
  OBVIOUS
<1> DEFINE c == <<i>>
<1> HIDE DEF a, b, c
<1>4. a \o c \in Seq(S) /\ Len(a \o c) = n
      /\ \A p \in 1 .. n : (a \o c)[p] = IF p <= n - 1 THEN a[p] ELSE c[p - (n - 1)]
  <2>1. c \in Seq(S) /\ Len(c) = 1
    BY <1>3 DEF c
  <2>2. Len(a) + Len(c) = n
    BY <1>0, <1>1, <2>1
  <2>3. a \o c \in Seq(S) /\ Len(a \o c) = Len(a) + Len(c)
        /\ \A p \in 1 .. Len(a) + Len(c) :
             (a \o c)[p] = IF p <= Len(a) THEN a[p] ELSE c[p - Len(a)]
    BY <1>1, <2>1, ConcatProperties
  <2> QED
    BY <1>1, <2>2, <2>3
<1> DEFINE d == a \o c
<1> HIDE DEF d
<1>5. d \in Seq(S) /\ Len(d) = n /\ \A p \in 1 .. n : d[p] = IF p < n THEN s[p] ELSE i
  <2>1. c[1] = i
    BY <1>3 DEF c
  <2>2. ASSUME NEW p \in 1 .. n
        PROVE  d[p] = IF p < n THEN s[p] ELSE i
    <3>1. CASE p < n
      BY <1>0, <1>1, <1>4, <3>1 DEF d
    <3>2. CASE p = n
      <4>1. p - (n - 1) = 1 /\ ~(p <= n - 1)
        BY <1>0, <3>2
      <4> QED
        BY <1>4, <2>1, <3>2, <4>1 DEF d
    <3> QED
      BY <1>0, <3>1, <3>2
  <2> QED
    BY <1>4, <2>2 DEF d
<1>6. d \o b \in Seq(S) /\ Len(d \o b) = Len(s) + 1
      /\ \A p \in 1 .. Len(s) + 1 : (d \o b)[p] = IF p <= n THEN d[p] ELSE b[p - n]
  <2>1. Len(d) + Len(b) = Len(s) + 1
    BY <1>0, <1>2, <1>5
  <2>2. d \in Seq(S) /\ b \in Seq(S) /\ Len(d) = n
    BY <1>2, <1>5
  <2>3. d \o b \in Seq(S) /\ Len(d \o b) = Len(d) + Len(b)
        /\ \A p \in 1 .. Len(d) + Len(b) : (d \o b)[p] = IF p <= Len(d) THEN d[p] ELSE b[p - Len(d)]
    BY <2>2, ConcatProperties
  <2> QED
    BY <2>1, <2>2, <2>3
<1>7. t = d \o b
  BY DEF d, c
<1> HIDE DEF t
<1>8. ASSUME NEW p \in 1 .. Len(t)
      PROVE  t[p] = IF p < n THEN s[p] ELSE IF p = n THEN i ELSE s[p - 1]
  <2>1. CASE p <= n
    BY <1>0, <1>5, <1>6, <1>7, <2>1
  <2>2. CASE p > n
    <3>1. p - n \in 1 .. Len(s) + 1 - n /\ n + (p - n) - 1 = p - 1 /\ ~(p < n) /\ p # n /\ ~(p <= n)
      BY <1>0, <1>6, <1>7, <2>2
    <3> QED
      BY <1>2, <1>6, <1>7, <3>1
  <2> QED
    BY <1>0, <2>1, <2>2
<1>9. ASSUME IsInjective(s), i \notin ToSet(s)
      PROVE  IsInjective(t)
  <2>0. DOMAIN t = 1 .. Len(t) /\ DOMAIN s = 1 .. Len(s) /\ Len(t) = Len(s) + 1
    BY <1>6, <1>7
  <2>1. \A p \in 1 .. Len(s) : s[p] # i
    BY <1>9, <2>0 DEF ToSet
  <2>2. \A p, q \in 1 .. Len(s) : s[p] = s[q] => p = q
    BY <1>9, <2>0 DEF IsInjective
  <2> SUFFICES ASSUME NEW p \in 1 .. Len(t), NEW q \in 1 .. Len(t), t[p] = t[q]
               PROVE  p = q
    BY <2>0 DEF IsInjective
  <2> DEFINE Old(x) == IF x < n THEN x ELSE x - 1
  <2>3. \A x \in 1 .. Len(t) : x # n => Old(x) \in 1 .. Len(s) /\ t[x] = s[Old(x)]
    BY <1>0, <1>8, <2>0
  <2>4. \A x \in 1 .. Len(t) : x = n => t[x] = i
    BY <1>0, <1>8
  <2>5. p = n <=> q = n
    <3> HIDE DEF Old
    <3> QED
      BY <2>1, <2>3, <2>4
  <2>6. CASE p # n /\ q # n
    <3>1. Old(p) = Old(q)
      <4> HIDE DEF Old
      <4> QED
        BY <2>2, <2>3, <2>6
    <3> QED
      BY <1>0, <2>0, <2>6, <3>1
  <2> QED
    BY <2>5, <2>6
<1>10. InsertAt(s, n, i) = t
  BY DEF InsertAt, t, a, b
<1> QED
  BY <1>6, <1>7, <1>8, <1>9, <1>10

LEMMA ConcatFacts ==
  ASSUME NEW S, NEW s \in Seq(S), NEW t \in Seq(S)
  PROVE  /\ s \o t \in Seq(S) /\ Len(s \o t) = Len(s) + Len(t)
         /\ \A p \in 1 .. Len(s) : (s \o t)[p] = s[p]
         /\ \A p \in 1 .. Len(t) : (s \o t)[Len(s) + p] = t[p]
         /\ ToSet(s \o t) = ToSet(s) \cup ToSet(t)
         /\ IsInjective(s \o t)
              <=> IsInjective(s) /\ IsInjective(t) /\ ToSet(s) \cap ToSet(t) = {}
<1> DEFINE u == s \o t
<1>1. u \in Seq(S) /\ Len(u) = Len(s) + Len(t) /\ Len(s) \in Nat /\ Len(t) \in Nat
      /\ \A p \in 1 .. Len(s) + Len(t) : u[p] = IF p <= Len(s) THEN s[p] ELSE t[p - Len(s)]
  BY ConcatProperties
<1> HIDE DEF u
<1>2. DOMAIN u = 1 .. Len(s) + Len(t) /\ DOMAIN s = 1 .. Len(s) /\ DOMAIN t = 1 .. Len(t)
  BY <1>1
<1>3. \A p \in 1 .. Len(s) : p \in 1 .. Len(s) + Len(t) /\ u[p] = s[p]
  BY <1>1
<1>4. \A p \in 1 .. Len(t) : Len(s) + p \in 1 .. Len(s) + Len(t) /\ u[Len(s) + p] = t[p]
  <2> SUFFICES ASSUME NEW p \in 1 .. Len(t)
               PROVE  Len(s) + p \in 1 .. Len(s) + Len(t) /\ u[Len(s) + p] = t[p]
    OBVIOUS
  <2>1. Len(s) + p \in 1 .. Len(s) + Len(t) /\ ~(Len(s) + p <= Len(s)) /\ Len(s) + p - Len(s) = p
    BY <1>1
  <2> QED
    BY <1>1, <2>1
<1>5. \A x \in 1 .. Len(s) + Len(t) :
        x \in 1 .. Len(s) \/ \E p \in 1 .. Len(t) : x = Len(s) + p
  <2> SUFFICES ASSUME NEW x \in 1 .. Len(s) + Len(t), x \notin 1 .. Len(s)
               PROVE  \E p \in 1 .. Len(t) : x = Len(s) + p
    OBVIOUS
  <2>1. x - Len(s) \in 1 .. Len(t) /\ x = Len(s) + (x - Len(s))
    BY <1>1
  <2> QED
    BY <2>1
<1>6. ToSet(u) = ToSet(s) \cup ToSet(t)
  <2>1. ASSUME NEW x \in 1 .. Len(s) + Len(t)
        PROVE  u[x] \in ToSet(s) \cup ToSet(t)
    <3>1. CASE x \in 1 .. Len(s)
      BY <1>2, <1>3, <3>1 DEF ToSet
    <3>2. ASSUME NEW p \in 1 .. Len(t), x = Len(s) + p
          PROVE  u[x] \in ToSet(t)
      BY <1>2, <1>4, <3>2 DEF ToSet
    <3> QED
      BY <1>5, <3>1, <3>2
  <2>2. \A e \in ToSet(s) : e \in ToSet(u)
    BY <1>2, <1>3 DEF ToSet
  <2>3. \A e \in ToSet(t) : e \in ToSet(u)
    BY <1>2, <1>4 DEF ToSet
  <2>4. \A e \in ToSet(u) : \E x \in 1 .. Len(s) + Len(t) : e = u[x]
    BY <1>2 DEF ToSet
  <2> QED
    BY <2>1, <2>2, <2>3, <2>4
<1>7. ASSUME IsInjective(u)
      PROVE  IsInjective(s) /\ IsInjective(t) /\ ToSet(s) \cap ToSet(t) = {}
  <2>0. \A x, y \in 1 .. Len(s) + Len(t) : u[x] = u[y] => x = y
    BY <1>2, <1>7 DEF IsInjective
  <2>1. \A p, q \in 1 .. Len(s) : s[p] = s[q] => p = q
    BY <1>3, <2>0
  <2>2. \A p, q \in 1 .. Len(t) : t[p] = t[q] => Len(s) + p = Len(s) + q
    BY <1>4, <2>0
  <2>3. \A p, q \in 1 .. Len(t) : Len(s) + p = Len(s) + q => p = q
    BY <1>1
  <2>4. \A p \in 1 .. Len(s), q \in 1 .. Len(t) : p # Len(s) + q
    BY <1>1
  <2>5. \A p \in 1 .. Len(s), q \in 1 .. Len(t) : s[p] # t[q]
    BY <1>3, <1>4, <2>0, <2>4
  <2>6. ToSet(s) \cap ToSet(t) = {}
    BY <1>2, <2>5 DEF ToSet
  <2> QED
    BY <1>2, <2>1, <2>2, <2>3, <2>6 DEF IsInjective
<1>8. ASSUME IsInjective(s), IsInjective(t), ToSet(s) \cap ToSet(t) = {}
      PROVE  IsInjective(u)
  <2> SUFFICES ASSUME NEW x \in 1 .. Len(s) + Len(t), NEW y \in 1 .. Len(s) + Len(t), u[x] = u[y]
               PROVE  x = y
    BY <1>2 DEF IsInjective
  <2>1. \A p, q \in 1 .. Len(s) : s[p] = s[q] => p = q
    BY <1>2, <1>8 DEF IsInjective
  <2>2. \A p, q \in 1 .. Len(t) : t[p] = t[q] => p = q
    BY <1>2, <1>8 DEF IsInjective
  <2>3. \A p \in 1 .. Len(s), q \in 1 .. Len(t) : s[p] # t[q]
    BY <1>2, <1>8 DEF ToSet
  <2>4. CASE x \in 1 .. Len(s) /\ y \in 1 .. Len(s)
    BY <1>3, <2>1, <2>4
  <2>5. ASSUME NEW p \in 1 .. Len(t), NEW z \in 1 .. Len(s)
        PROVE  u[Len(s) + p] # u[z]
    BY <1>3, <1>4, <2>3
  <2>6. ASSUME NEW p \in 1 .. Len(t), NEW q \in 1 .. Len(t), u[Len(s) + p] = u[Len(s) + q]
        PROVE  p = q
    BY <1>4, <2>2, <2>6
  <2> QED
    BY <1>5, <2>4, <2>5, <2>6
<1> QED
  BY <1>1, <1>3, <1>4, <1>6, <1>7, <1>8 DEF u

LEMMA KeepSame ==
  ASSUME NEW S, NEW s \in Seq(S), NEW K, NEW L, \A x \in ToSet(s) : x \in K <=> x \in L
  PROVE  Keep(s, K) = Keep(s, L)
<1>1. \A j \in 1 .. Len(s) : s[j] \in K <=> s[j] \in L
  BY DEF ToSet
<1>2. KeptPlaces(s, K) = KeptPlaces(s, L)
  BY <1>1 DEF KeptPlaces
<1> DEFINE Of(P) == [n \in 1 .. Cardinality(P) |-> s[CHOOSE j \in P : Rank(P, j) = n]]
<1>3. Keep(s, K) = Of(KeptPlaces(s, K)) /\ Keep(s, L) = Of(KeptPlaces(s, L))
  BY DEF Keep, KeptPlaces
<1> HIDE DEF Of
<1> QED
  BY <1>2, <1>3

LEMMA PrefixFacts ==
  ASSUME NEW S, NEW s \in Seq(S), NEW n \in 0 .. Len(s)
  PROVE  LET t == SubSeq(s, 1, n)
         IN  /\ t \in Seq(S) /\ Len(t) = n
             /\ \A k \in 1 .. n : k \in 1 .. Len(s) /\ t[k] = s[k]
<1>0. n \in Nat /\ n <= Len(s) /\ Len(s) \in Nat /\ \A k \in 1 .. n : k \in 1 .. Len(s) /\ 1 + k - 1 = k
  OBVIOUS
<1>1. \A k \in 1 .. n : s[k] \in S
  BY <1>0
<1> DEFINE t == SubSeq(s, 1, n)
<1>2. t \in Seq(S) /\ Len(t) = (IF 1 <= n THEN n - 1 + 1 ELSE 0)
      /\ \A k \in 1 .. n - 1 + 1 : t[k] = s[1 + k - 1]
  BY <1>0, <1>1, SubSeqProperties
<1>3. n - 1 + 1 = n
  BY <1>0
<1> HIDE DEF t
<1>4. t \in Seq(S) /\ Len(t) = n /\ \A k \in 1 .. n : k \in 1 .. Len(s) /\ t[k] = s[k]
  BY <1>0, <1>2, <1>3
<1> QED
  BY <1>4 DEF t

(* If enough is kept, there is a first place where it is enough.           *)
LEMMA FullAt ==
  ASSUME NEW S, NEW s \in Seq(S), NEW K, NEW m \in Nat \ {0}, m <= Len(Keep(s, K))
  PROVE  \E n \in 1 .. Len(s) : /\ Len(Keep(SubSeq(s, 1, n), K)) = m
                                /\ Len(Keep(SubSeq(s, 1, n - 1), K)) < m
<1> DEFINE P(n) == {j \in 1 .. n : s[j] \in K}
           C(n) == Cardinality(P(n))
<1>0. Len(s) \in Nat
  OBVIOUS
<1>1. ASSUME NEW n \in 0 .. Len(s)
      PROVE  Len(Keep(SubSeq(s, 1, n), K)) = C(n)
  <2> DEFINE t == SubSeq(s, 1, n)
  <2>1. t \in Seq(S) /\ Len(t) = n /\ \A k \in 1 .. n : k \in 1 .. Len(s) /\ t[k] = s[k]
    BY PrefixFacts
  <2> HIDE DEF t
  <2>2. KeptPlaces(t, K) = P(n)
    BY <2>1 DEF KeptPlaces
  <2>3. Len(Keep(t, K)) = Cardinality(KeptPlaces(t, K))
    BY <2>1, KeepHasPlaces
  <2> QED
    BY <2>2, <2>3 DEF t
<1>2. ASSUME NEW n \in Nat
      PROVE  IsFiniteSet(P(n)) /\ C(n) \in Nat
  <2>1. \A j \in P(n) : j \in 1 .. n
    OBVIOUS
  <2>2. n \in Int /\ 1 \in Int
    OBVIOUS
  <2> HIDE DEF P
  <2>3. IsFiniteSet(1 .. n)
    BY <2>2, FS_Interval
  <2> QED
    BY <2>1, <2>3, FS_Subset, FS_CardinalityType
<1>3. ASSUME NEW n \in Nat
      PROVE  C(n + 1) <= C(n) + 1
  <2>1. CASE s[n + 1] \in K
    <3>1. P(n + 1) = P(n) \cup {n + 1}
      <4>1. \A j \in 1 .. n + 1 : j \in 1 .. n \/ j = n + 1
        OBVIOUS
      <4>2. n + 1 \in 1 .. n + 1 /\ \A j \in 1 .. n : j \in 1 .. n + 1
        OBVIOUS
      <4> QED
        BY <2>1, <4>1, <4>2
    <3> HIDE DEF P
    <3>2. IsFiniteSet(P(n)) /\ Cardinality(P(n)) \in Nat
      BY <1>2
    <3>3. Cardinality(P(n) \cup {n + 1}) <= Cardinality(P(n)) + 1
      <4> DEFINE T == P(n)
                 x == n + 1
      <4>1. IsFiniteSet(T) /\ Cardinality(T) \in Nat
        BY <3>2
      <4> HIDE DEF T, x
      <4>2. Cardinality(T \cup {x}) = IF x \in T THEN Cardinality(T) ELSE Cardinality(T) + 1
        BY <4>1, FS_AddElement
      <4>3. Cardinality(T \cup {x}) <= Cardinality(T) + 1
        BY <4>1, <4>2
      <4> QED
        BY <4>3 DEF T, x
    <3> QED
      BY <3>1, <3>3
  <2>2. CASE s[n + 1] \notin K
    <3>1. P(n + 1) = P(n)
      <4>1. \A j \in 1 .. n + 1 : j \in 1 .. n \/ j = n + 1
        OBVIOUS
      <4>2. \A j \in 1 .. n : j \in 1 .. n + 1
        OBVIOUS
      <4> QED
        BY <2>2, <4>1, <4>2
    <3> HIDE DEF P
    <3> QED
      BY <1>2, <3>1
  <2> QED
    BY <2>1, <2>2
<1>4. C(0) = 0
  <2>1. P(0) = {}
    OBVIOUS
  <2> QED
    BY <2>1, FS_EmptySet
<1>5. m <= C(Len(s))
  <2>1. KeptPlaces(s, K) = P(Len(s))
    BY DEF KeptPlaces
  <2>2. Len(Keep(s, K)) = Cardinality(KeptPlaces(s, K))
    BY KeepHasPlaces
  <2> QED
    BY <2>1, <2>2
<1> HIDE DEF P
<1>5a. \A n \in Nat : C(n) \in Nat
  BY <1>2
<1> HIDE DEF C
<1> DEFINE I == {n \in 0 .. Len(s) : m <= C(n)}
<1>6. PICK n \in I : \A j \in I : n <= j
  <2>1. Len(s) \in I /\ \A n \in I : n \in Nat
    BY <1>0, <1>5
  <2> HIDE DEF I
  <2>2. I \in SUBSET Nat /\ I # {}
    BY <2>1
  <2> QED
    BY <2>2, LeastIndex
<1>7. n \in Nat /\ n \in 1 .. Len(s) /\ n - 1 \in 0 .. Len(s) /\ n \in 0 .. Len(s) /\ n - 1 \in Nat /\ m <= C(n)
  BY <1>0, <1>4, <1>6
<1>8. C(n - 1) < m
  <2>1. n \in Nat
    BY <1>7
  <2>2. ~(n <= n - 1)
    BY <2>1
  <2>3. C(n - 1) \in Nat
    BY <1>5a, <1>7
  <2> QED
    BY <1>6, <1>7, <2>2, <2>3
<1>9. C(n) <= C(n - 1) + 1
  <2>1. n - 1 + 1 = n
    BY <1>7
  <2> QED
    BY <1>3, <1>7, <2>1 DEF C
<1>10. C(n) \in Nat /\ C(n - 1) \in Nat
  BY <1>5a, <1>7
<1>11. C(n) = m
  BY <1>7, <1>8, <1>9, <1>10
<1>12. Len(Keep(SubSeq(s, 1, n), K)) = C(n) /\ Len(Keep(SubSeq(s, 1, n - 1), K)) = C(n - 1)
  BY <1>1, <1>7 DEF C
<1> QED
  BY <1>7, <1>8, <1>11, <1>12

-----------------------------------------------------------------------------
(* The types, and what holds of a request whatever changes around it.      *)

Clients == [kind : Searches, admin : BOOLEAN, token : Nat \cup {End}, shown : Seq(Items)]

SearchRequests ==
  [pc : {"received", "filling", "fetched", "filled"}, page : Seq(Items), token : Nat \cup {End},
   batch : Seq(Items), last : BOOLEAN, asked : SUBSET Items, granted : SUBSET Items]

FetchedOK(q, c) ==
  /\ q.token # End /\ Len(q.page) < MaxResults /\ Len(q.batch) <= MaxResults
  /\ c.kind = "offset" => Len(q.page) + Len(q.batch) <= MaxResults
  /\ c.kind = "logged" /\ ~q.last => Len(q.batch) = MaxResults

RequestOK(q, c, rd, sn, st, lo) ==
  /\ c.token # End /\ (q.token = End \/ c.token <= q.token)
  /\ Len(q.page) <= MaxResults
  /\ rd \subseteq sn /\ q.granted \subseteq q.asked \cap sn /\ q.asked \cap st \subseteq q.granted
  /\ q.pc = "filled" <=> c.admin
  /\ c.kind = "offset" => ~q.last
  /\ q.pc = "fetched" => FetchedOK(q, c)
  /\ q.pc \in {"filling", "fetched"} =>
       \A i \in ToSet(q.page) : i \in sn /\ (i \in Blocked => i \in lo)

WorldOK ==
  /\ listing \in Seq(Items) /\ IsInjective(listing)
  /\ readable \subseteq Items /\ changes \in 0 .. MaxChanges
  /\ steady \subseteq readable \cap ToSet(listing)
  /\ removed \in BOOLEAN /\ inserted \in BOOLEAN

FilterInv ==
  /\ WorldOK
  /\ client \in Clients /\ lost \subseteq Items
  /\ req \in {Idle} \cup SearchRequests
  /\ req # Idle => RequestOK(req, client, readable, seen, steady, lost)

-----------------------------------------------------------------------------
(* What the steps of the handler do.                                       *)

Pass(q, rd, failed) == (q.granted \cup (rd \ q.asked)) \cap ((Items \ Blocked) \cup failed)

(* The request has taken these items: the page is now this, and the token. *)
Took(q, taken, rd, page, token) ==
  [q EXCEPT !.pc = "filling", !.page = page, !.token = token, !.batch = <<>>,
            !.asked = q.asked \cup ToSet(taken),
            !.granted = q.granted \cup ((ToSet(taken) \ q.asked) \cap rd)]

Filters(q, r, rd, failed) ==
  r = [q EXCEPT !.pc = "filling", !.page = Keep(q.page, Pass(q, rd, failed)),
                !.asked = q.asked \cup ToSet(q.page),
                !.granted = q.granted \cup ((ToSet(q.page) \ q.asked) \cap rd)]

Adds(q, r, c, rd, failed, used, kept, token) ==
  /\ used \in 0 .. Len(q.batch)
  /\ kept = Keep(SubSeq(q.batch, 1, used), Pass(q, rd, failed))
  /\ Len(q.page) + Len(kept) <= MaxResults
  /\ token = q.token + used \/ (token = End /\ q.last /\ used = Len(q.batch))
  /\ r = Took(q, SubSeq(q.batch, 1, used), rd, q.page \o kept, token)

Fetches(q, r, c, L, b, last) ==
  /\ r = [q EXCEPT !.pc = "fetched", !.batch = b, !.last = last]
  /\ b \in Seq(Items) /\ Len(b) <= MaxResults /\ last \in BOOLEAN
  /\ \A k \in 1 .. Len(b) : q.token + k \in 1 .. Len(L) /\ b[k] = L[q.token + k]
  /\ c.kind = "offset" => last = q.last /\ Len(q.page) + Len(b) <= MaxResults
  /\ c.kind = "logged" => /\ last <=> q.token + MaxResults >= Len(L)
                          /\ PageOf(b, L, q.token, MaxResults, Items)

LEMMA SearchRequestFields ==
  ASSUME NEW q \in SearchRequests
  PROVE  /\ q.pc \in {"received", "filling", "fetched", "filled"} /\ q.page \in Seq(Items)
         /\ q.token \in Nat \cup {End} /\ q.batch \in Seq(Items) /\ q.last \in BOOLEAN
         /\ q.asked \subseteq Items /\ q.granted \subseteq Items /\ q # Idle
BY DEF SearchRequests, Idle

LEMMA ClientFields ==
  ASSUME NEW c \in Clients
  PROVE  /\ c.kind \in {"offset", "logged"} /\ c.admin \in BOOLEAN
         /\ c.token \in Nat \cup {End} /\ c.shown \in Seq(Items)
BY SearchAssumption DEF Clients

LEMMA KeptIs ==
  ASSUME NEW b \in Seq(Items), NEW failed
  PROVE  Kept(b, failed) = Keep(b, Pass(req, readable, failed))
<1>1. \A x \in ToSet(b) : x \in Granted(ToSet(b)) \cap ((Items \ Blocked) \cup failed)
                            <=> x \in Pass(req, readable, failed)
  BY DEF Granted, Pass
<1> QED
  BY <1>1, KeepSame DEF Kept

LEMMA FilterStep ==
  ASSUME FilterInv, FilterFirstPage
  PROVE  /\ req \in SearchRequests /\ req.pc = "received"
         /\ \E failed \in SUBSET (ToSet(req.page) \cap Blocked) :
              lost' = lost \cup failed /\ Filters(req, req', readable, failed)
         /\ UNCHANGED <<world, client, history>>
<1>1. req.pc = "received" /\ UNCHANGED <<world, client, history>>
  BY DEF FilterFirstPage
<1>2. req \in SearchRequests
  BY <1>1 DEF FilterInv, Idle
<1>3. PICK failed \in LookupFailures(req.page) :
        /\ req' = [req EXCEPT !.pc = "filling", !.page = Kept(req.page, failed),
                              !.asked = @ \cup ToSet(req.page),
                              !.granted = Granted(ToSet(req.page))]
        /\ lost' = lost \cup failed
  BY DEF FilterFirstPage
<1>4. Kept(req.page, failed) = Keep(req.page, Pass(req, readable, failed))
  BY <1>2, SearchRequestFields, KeptIs
<1>5. Filters(req, req', readable, failed)
  BY <1>3, <1>4 DEF Filters, Granted
<1> QED
  BY <1>1, <1>2, <1>3, <1>5 DEF LookupFailures

LEMMA FetchStep ==
  ASSUME FilterInv, FetchPage \/ FetchLoggedModels
  PROVE  /\ req \in SearchRequests /\ req.pc = "filling" /\ req.token # End
         /\ Len(req.page) < MaxResults /\ UNCHANGED <<world, client, lost, history>>
         /\ \/ req' = [req EXCEPT !.token = End] /\ Len(listing) <= req.token
            \/ \E b, last : Fetches(req, req', client, listing, b, last)
<1>1. /\ req.pc = "filling" /\ ~Filled /\ UNCHANGED <<world, client, lost, history>>
  BY DEF FetchPage, FetchLoggedModels
<1>2. req \in SearchRequests
  BY <1>1 DEF FilterInv, Idle
<1> DEFINE q == req
           p == MlflowPage(q.token)
<1>3. q.page \in Seq(Items) /\ q.token # End /\ q.token \in Nat /\ Len(q.page) < MaxResults
      /\ Len(q.page) \in Nat /\ MaxResults \in Nat \ {0} /\ listing \in Seq(Items)
      /\ q.last \in BOOLEAN /\ client.kind \in {"offset", "logged"}
  <2>1. q.page \in Seq(Items) /\ q.token \in Nat \cup {End} /\ q.last \in BOOLEAN
    BY <1>2, SearchRequestFields
  <2>2. MaxResults \in Nat \ {0} /\ listing \in Seq(Items) /\ client.kind \in {"offset", "logged"}
    BY SearchAssumption, ClientFields DEF FilterInv, WorldOK
  <2> QED
    BY <1>1, <2>1, <2>2 DEF Filled
<1>4. PageOf(p, listing, q.token, MaxResults, Items)
  BY <1>3, SliceFacts DEF MlflowPage
<1>5. CASE FetchPage
  <2> DEFINE b == CutToRemaining(p)
             m == MaxResults - Len(q.page)
  <2>1. client.kind = "offset" /\ m \in Nat \ {0}
        /\ req' = IF b = <<>> THEN [q EXCEPT !.token = End]
                  ELSE [q EXCEPT !.pc = "fetched", !.batch = b]
    BY <1>3, <1>5 DEF FetchPage
  <2>2. b = Slice(p, 1, m)
    BY DEF CutToRemaining, Remaining
  <2>3. p \in Seq(Items) /\ Len(p) \in Nat
    BY <1>4 DEF PageOf
  <2> HIDE DEF p, m
  <2>4. b \in Seq(Items) /\ Len(b) = (IF m <= Len(p) THEN m ELSE Len(p))
        /\ \A k \in 1 .. Len(b) : k \in 1 .. Len(p) /\ b[k] = p[k]
    BY <2>1, <2>2, <2>3, CutFacts
  <2> HIDE DEF b
  <2>5. CASE b = <<>>
    <3>1. Len(b) = 0
      BY <2>5
    <3>2. Len(p) = 0
      <4>1. m \in Nat \ {0} /\ Len(p) \in Nat /\ 0 = (IF m <= Len(p) THEN m ELSE Len(p))
        BY <2>1, <2>3, <2>4, <3>1
      <4> QED
        BY <4>1
    <3>3. Len(listing) <= q.token
      <4>1. Len(p) = IF Len(listing) <= q.token THEN 0
                     ELSE IF q.token + MaxResults <= Len(listing) THEN MaxResults
                     ELSE Len(listing) - q.token
        BY <1>4 DEF PageOf
      <4>2. Len(listing) \in Nat
        BY <1>3
      <4> DEFINE l == Len(listing)
                 t == q.token
      <4>3. 0 = (IF l <= t THEN 0 ELSE IF t + MaxResults <= l THEN MaxResults ELSE l - t)
            /\ l \in Nat /\ t \in Nat /\ MaxResults \in Nat \ {0}
        BY <1>3, <3>2, <4>1, <4>2
      <4> HIDE DEF l, t
      <4>4. l <= t
        BY <4>3
      <4> QED
        BY <4>4 DEF l, t
    <3> QED
      BY <1>1, <1>2, <1>3, <2>1, <2>5, <3>3
  <2>6. CASE b # <<>>
    <3>1. Len(b) <= MaxResults /\ Len(q.page) + Len(b) <= MaxResults
      <4>1. Len(b) \in Nat /\ Len(b) <= m
        BY <2>1, <2>3, <2>4
      <4>2. m = MaxResults - Len(q.page) /\ Len(q.page) \in Nat /\ MaxResults \in Nat
        BY <1>3 DEF m
      <4> QED
        BY <4>1, <4>2
    <3>2. \A k \in 1 .. Len(b) : q.token + k \in 1 .. Len(listing) /\ b[k] = listing[q.token + k]
      BY <1>4, <2>4 DEF PageOf
    <3>3. req' = [q EXCEPT !.pc = "fetched", !.batch = b, !.last = q.last]
      BY <1>2, <2>1, <2>6 DEF SearchRequests
    <3>4. Fetches(q, req', client, listing, b, q.last)
      BY <1>3, <2>1, <2>4, <3>1, <3>2, <3>3 DEF Fetches
    <3> QED
      BY <1>1, <1>2, <1>3, <3>4
  <2> QED
    BY <2>5, <2>6
<1>6. CASE FetchLoggedModels
  <2>1. client.kind = "logged"
        /\ req' = [q EXCEPT !.pc = "fetched", !.batch = p, !.last = IsLastPage(q.token)]
    BY <1>6 DEF FetchLoggedModels
  <2>2. IsLastPage(q.token) <=> q.token + MaxResults >= Len(listing)
    BY DEF IsLastPage
  <2>2a. IsLastPage(q.token) \in BOOLEAN
    BY DEF IsLastPage
  <2> HIDE DEF p
  <2>3. Fetches(q, req', client, listing, p, IsLastPage(q.token))
    BY <1>4, <2>1, <2>2, <2>2a DEF Fetches, PageOf
  <2> QED
    BY <1>1, <1>2, <1>3, <2>3
<1> QED
  BY <1>5, <1>6

LEMMA AddStep ==
  ASSUME FilterInv, AddReadable \/ AddLoggedModels
  PROVE  /\ req \in SearchRequests /\ req.pc = "fetched"
         /\ \E failed \in SUBSET (ToSet(req.batch) \cap Blocked) : \E used, kept, token :
              /\ Adds(req, req', client, readable, failed, used, kept, token)
              /\ lost' = lost \cup (failed \cap ToSet(SubSeq(req.batch, 1, used)))
         /\ UNCHANGED <<world, client, history>>
<1>1. req.pc = "fetched" /\ UNCHANGED <<world, client, history>>
  BY DEF AddReadable, AddLoggedModels
<1>2. req \in SearchRequests
  BY <1>1 DEF FilterInv, Idle
<1> DEFINE q == req
           K(f) == Pass(q, readable, f)
           r == MaxResults - Len(q.page)
           n == Len(q.batch)
<1>3. FetchedOK(q, client) /\ client.kind \in {"offset", "logged"}
  BY <1>1, <1>2, SearchRequestFields, ClientFields DEF FilterInv, RequestOK
<1>4. q.batch \in Seq(Items) /\ n \in Nat /\ q.page \in Seq(Items) /\ Len(q.page) \in Nat
      /\ q.token \in Nat /\ q.token # End /\ MaxResults \in Nat /\ r \in Nat \ {0}
  BY <1>2, <1>3, SearchRequestFields, SearchAssumption DEF FetchedOK
<1>5. SubSeq(q.batch, 1, n) = q.batch
  BY <1>4, SubSeqFull
<1>6. \A m \in 0 .. n : SubSeq(q.batch, 1, m) \in Seq(Items)
  BY <1>4, PrefixFacts
<1>7. \A m \in 0 .. n : \A f : Kept(SubSeq(q.batch, 1, m), f) = Keep(SubSeq(q.batch, 1, m), K(f))
  BY <1>6, KeptIs
<1>8. \A f : Kept(q.batch, f) = Keep(q.batch, K(f)) /\ Len(Keep(q.batch, K(f))) <= n
             /\ Len(Keep(q.batch, K(f))) \in Nat
  BY <1>4, KeptIs, KeepFacts
<1>9. CASE AddReadable
  <2> DEFINE kept == Keep(q.batch, K({}))
  <2>1. /\ client.kind = "offset" /\ lost' = lost
        /\ req' = [q EXCEPT !.pc = "filling", !.page = q.page \o kept,
                            !.token = q.token + n, !.batch = <<>>,
                            !.asked = q.asked \cup ToSet(q.batch),
                            !.granted = Granted(ToSet(q.batch))]
    BY <1>8, <1>9 DEF AddReadable, OffsetAfter
  <2>2. Len(q.page) + Len(kept) <= MaxResults
    <3>1. Len(q.page) + n <= MaxResults
      BY <1>3, <2>1 DEF FetchedOK
    <3>2. Len(kept) <= n /\ Len(kept) \in Nat
      BY <1>8
    <3> HIDE DEF kept, n
    <3> QED
      BY <1>4, <3>1, <3>2
  <2>3. req' = Took(q, q.batch, readable, q.page \o kept, q.token + n)
    BY <2>1 DEF Took, Granted
  <2>4. n \in 0 .. n
    BY <1>4
  <2>5. Adds(q, req', client, readable, {}, n, kept, q.token + n)
    BY <1>5, <2>2, <2>3, <2>4 DEF Adds
  <2>6. lost' = lost \cup ({} \cap ToSet(SubSeq(q.batch, 1, n)))
    BY <2>1
  <2> HIDE DEF kept, n, K
  <2>7. \E used, keeping, token :
          /\ Adds(q, req', client, readable, {}, used, keeping, token)
          /\ lost' = lost \cup ({} \cap ToSet(SubSeq(q.batch, 1, used)))
    BY <2>5, <2>6
  <2>8. {} \in SUBSET (ToSet(q.batch) \cap Blocked)
    OBVIOUS
  <2> QED
    BY <1>1, <1>2, <2>7, <2>8
<1>10. CASE AddLoggedModels
  <2>1. PICK failed \in LookupFailures(q.batch) :
       LET kept == Kept(q.batch, failed)
           used == IF Len(kept) < Remaining THEN n
                   ELSE CHOOSE m \in 1 .. n :
                          /\ Len(Kept(SubSeq(q.batch, 1, m), failed)) = Remaining
                          /\ Len(Kept(SubSeq(q.batch, 1, m - 1), failed)) < Remaining
           taken == SubSeq(q.batch, 1, used)
       IN /\ req' = [q EXCEPT
               !.pc = "filling", !.batch = <<>>,
               !.page = @ \o Kept(taken, failed),
               !.asked = @ \cup ToSet(taken), !.granted = Granted(ToSet(taken)),
               !.token = IF q.last /\ used = n THEN End
                         ELSE IF Len(kept) < Remaining THEN @ + MaxResults
                         ELSE OffsetAfter(@, used)]
          /\ lost' = lost \cup (failed \cap ToSet(taken))
    BY <1>10 DEF AddLoggedModels
  <2>2. failed \in SUBSET (ToSet(q.batch) \cap Blocked)
    BY DEF LookupFailures
  <2> DEFINE few == Len(Kept(q.batch, failed)) < r
             Ends(m) == /\ Len(Kept(SubSeq(q.batch, 1, m), failed)) = r
                        /\ Len(Kept(SubSeq(q.batch, 1, m - 1), failed)) < r
             used == IF few THEN n ELSE CHOOSE m \in 1 .. n : Ends(m)
             taken == SubSeq(q.batch, 1, used)
             token == IF q.last /\ used = n THEN End
                      ELSE IF few THEN q.token + MaxResults ELSE q.token + used
  <2>3. /\ req' = [q EXCEPT
               !.pc = "filling", !.batch = <<>>,
               !.page = q.page \o Kept(taken, failed),
               !.asked = q.asked \cup ToSet(taken), !.granted = Granted(ToSet(taken)),
               !.token = token]
        /\ lost' = lost \cup (failed \cap ToSet(taken))
    BY <2>1 DEF Remaining, OffsetAfter
  <2>4. ~few => \E m \in 1 .. n : Ends(m)
    <3> SUFFICES ASSUME ~few PROVE \E m \in 1 .. n : Ends(m)
      OBVIOUS
    <3>1. r <= Len(Keep(q.batch, K(failed)))
      <4>1. Len(Kept(q.batch, failed)) \in Nat /\ Kept(q.batch, failed) = Keep(q.batch, K(failed))
        BY <1>8
      <4>2. ~(Len(Kept(q.batch, failed)) < r)
        OBVIOUS
      <4> HIDE DEF K, r
      <4> QED
        BY <1>4, <4>1, <4>2
    <3>2. PICK m \in 1 .. n : /\ Len(Keep(SubSeq(q.batch, 1, m), K(failed))) = r
                              /\ Len(Keep(SubSeq(q.batch, 1, m - 1), K(failed))) < r
      <4> HIDE DEF r, K
      <4> QED
        BY <1>4, <3>1, FullAt
    <3>3. m \in 0 .. n /\ m - 1 \in 0 .. n
      <4> HIDE DEF n
      <4> QED
        BY <1>4
    <3> HIDE DEF K, r, n
    <3> QED
      BY <1>7, <3>2, <3>3
  <2>5. used \in 0 .. n /\ (~few => Ends(used)) /\ (few => used = n)
    <3>1. \A m \in 1 .. n : m \in 0 .. n
      BY <1>4
    <3>2. n \in 0 .. n
      BY <1>4
    <3> HIDE DEF Ends, few, n
    <3>3. CASE few
      BY <3>2, <3>3
    <3>4. CASE ~few
      <4>1. (CHOOSE m \in 1 .. n : Ends(m)) \in 1 .. n /\ Ends(CHOOSE m \in 1 .. n : Ends(m))
        BY <2>4, <3>4
      <4> QED
        BY <3>1, <3>4, <4>1
    <3> QED
      BY <3>3, <3>4
  <2> DEFINE kept == Keep(taken, K(failed))
  <2>6. Kept(taken, failed) = kept
    <3> HIDE DEF used, K
    <3> QED
      BY <1>7, <2>5
  <2>7. Len(q.page) + Len(kept) <= MaxResults
    <3>1. CASE few
      <4>1. Len(kept) < r /\ Len(kept) \in Nat
        <5>1. used = n
          BY <2>5, <3>1
        <5>2. taken = q.batch
          <6> HIDE DEF used
          <6> QED
            BY <1>5, <5>1
        <5>3. Len(Kept(q.batch, failed)) < r /\ Len(Keep(q.batch, K(failed))) \in Nat
              /\ Kept(q.batch, failed) = Keep(q.batch, K(failed))
          BY <1>8, <3>1
        <5> HIDE DEF taken, K, few, r
        <5> QED
          BY <5>2, <5>3
      <4> HIDE DEF kept, K
      <4> QED
        BY <1>4, <4>1
    <3>2. CASE ~few
      <4>1. Len(kept) = r
        <5>1. Ends(used)
          BY <2>5, <3>2
        <5> HIDE DEF used, kept, few
        <5> QED
          BY <2>6, <5>1
      <4> HIDE DEF kept, K
      <4> QED
        BY <1>4, <4>1
    <3> QED
      BY <3>1, <3>2
  <2>8. token = q.token + used \/ (token = End /\ q.last /\ used = n)
    <3>1. client.kind = "logged"
      BY <1>10 DEF AddLoggedModels
    <3>2. ~q.last => n = MaxResults
      BY <1>3, <3>1 DEF FetchedOK
    <3>3. few => used = n
      BY <2>5
    <3> HIDE DEF n, few, used
    <3> QED
      BY <3>2, <3>3
  <2> HIDE DEF few, Ends, K, kept
  <2>9. req' = Took(q, taken, readable, q.page \o kept, token)
    <3> HIDE DEF taken, token
    <3> QED
      BY <2>3, <2>6 DEF Took, Granted
  <2>10. Adds(q, req', client, readable, failed, used, kept, token)
    <3> HIDE DEF used, token
    <3> QED
      BY <2>5, <2>7, <2>8, <2>9 DEF Adds, kept, K
  <2> HIDE DEF used, token, n
  <2>11. \E use, keeping, next :
          /\ Adds(q, req', client, readable, failed, use, keeping, next)
          /\ lost' = lost \cup (failed \cap ToSet(SubSeq(q.batch, 1, use)))
    BY <2>3, <2>10
  <2> QED
    BY <1>1, <1>2, <2>2, <2>11
<1> QED
  BY <1>9, <1>10

LEMMA InsertedSet ==
  ASSUME NEW S, NEW s \in Seq(S), NEW i \in S, NEW n \in 1 .. Len(s) + 1
  PROVE  ToSet(InsertAt(s, n, i)) = ToSet(s) \cup {i}
<1> DEFINE t == InsertAt(s, n, i)
<1>1. t \in Seq(S) /\ Len(t) = Len(s) + 1
      /\ \A p \in 1 .. Len(t) : t[p] = IF p < n THEN s[p] ELSE IF p = n THEN i ELSE s[p - 1]
  BY InsertFacts
<1> HIDE DEF t
<1>2. DOMAIN t = 1 .. Len(t) /\ DOMAIN s = 1 .. Len(s) /\ Len(s) \in Nat /\ Len(t) \in Nat
      /\ n \in Nat /\ n >= 1
  BY <1>1
<1>3. ASSUME NEW p \in 1 .. Len(t)
      PROVE  t[p] \in ToSet(s) \cup {i}
  <2>1. CASE p < n
    <3>1. p \in 1 .. Len(s) /\ t[p] = s[p]
      BY <1>1, <1>2, <2>1
    <3> QED
      BY <1>2, <3>1 DEF ToSet
  <2>2. CASE p = n
    BY <1>1, <2>2
  <2>3. CASE p > n
    <3>1. p - 1 \in 1 .. Len(s) /\ t[p] = s[p - 1]
      BY <1>1, <1>2, <2>3
    <3> QED
      BY <1>2, <3>1 DEF ToSet
  <2> QED
    BY <1>2, <2>1, <2>2, <2>3
<1>4. ASSUME NEW p \in 1 .. Len(s)
      PROVE  \E u \in 1 .. Len(t) : t[u] = s[p]
  <2>1. CASE p < n
    <3>1. p \in 1 .. Len(t) /\ t[p] = s[p]
      BY <1>1, <1>2, <2>1
    <3> QED
      BY <3>1
  <2>2. CASE p >= n
    <3>1. p + 1 \in 1 .. Len(t) /\ ~(p + 1 < n) /\ p + 1 # n /\ p + 1 - 1 = p
      BY <1>1, <1>2, <2>2
    <3>2. t[p + 1] = s[p + 1 - 1]
      BY <1>1, <3>1
    <3> QED
      BY <3>1, <3>2
  <2> QED
    BY <1>2, <2>1, <2>2
<1>5. n \in 1 .. Len(t) /\ t[n] = i
  BY <1>1, <1>2
<1> QED
  BY <1>2, <1>3, <1>4, <1>5 DEF ToSet, t

LEMMA FilterKeeps ==
  ASSUME NEW q \in SearchRequests, NEW r, NEW c \in Clients, NEW rd \in SUBSET Items, NEW sn,
         NEW st \in SUBSET rd, NEW lo, NEW failed \in SUBSET Blocked,
         q.pc = "received", RequestOK(q, c, rd, sn, st, lo), Filters(q, r, rd, failed)
  PROVE  r \in SearchRequests /\ RequestOK(r, c, rd, sn, st, lo \cup failed)
<1> DEFINE kept == Keep(q.page, Pass(q, rd, failed))
           T == ToSet(q.page)
<1>1. q.page \in Seq(Items) /\ q.asked \subseteq Items /\ q.granted \subseteq Items
  BY SearchRequestFields
<1>2. kept \in Seq(Items) /\ Len(kept) <= Len(q.page) /\ ToSet(kept) = T \cap Pass(q, rd, failed)
  BY <1>1, KeepFacts
<1>3. T \subseteq Items
  BY <1>1 DEF ToSet
<1>4. r = [q EXCEPT !.pc = "filling", !.page = kept, !.asked = q.asked \cup T,
                    !.granted = q.granted \cup ((T \ q.asked) \cap rd)]
  BY DEF Filters
<1> HIDE DEF kept, T
<1>5. r \in SearchRequests
  BY <1>1, <1>2, <1>3, <1>4 DEF SearchRequests
<1>6. /\ r.pc = "filling" /\ r.page = kept /\ r.token = q.token /\ r.last = q.last
      /\ r.asked = q.asked \cup T /\ r.granted = q.granted \cup ((T \ q.asked) \cap rd)
  BY <1>4 DEF SearchRequests
<1>7. /\ c.token # End /\ (q.token = End \/ c.token <= q.token)
      /\ Len(q.page) <= MaxResults
      /\ rd \subseteq sn /\ q.granted \subseteq q.asked \cap sn /\ q.asked \cap st \subseteq q.granted
      /\ q.pc = "filled" <=> c.admin
      /\ c.kind = "offset" => ~q.last
  BY DEF RequestOK
<1>8. Len(kept) <= MaxResults
  BY <1>1, <1>2, <1>7, SearchAssumption
<1>9. \A i \in T \cap Pass(q, rd, failed) : i \in sn /\ (i \in Blocked => i \in lo \cup failed)
  BY <1>7 DEF Pass
<1>10. r.granted \subseteq r.asked \cap sn /\ r.asked \cap st \subseteq r.granted
  BY <1>6, <1>7
<1> QED
  BY <1>2, <1>5, <1>6, <1>7, <1>8, <1>9, <1>10 DEF RequestOK

LEMMA FetchKeeps ==
  ASSUME NEW q \in SearchRequests, NEW r, NEW c \in Clients, NEW rd, NEW sn, NEW st, NEW lo,
         NEW L \in Seq(Items), NEW b, NEW last \in BOOLEAN,
         q.pc = "filling", q.token # End, Len(q.page) < MaxResults,
         RequestOK(q, c, rd, sn, st, lo), Fetches(q, r, c, L, b, last)
  PROVE  r \in SearchRequests /\ RequestOK(r, c, rd, sn, st, lo)
<1>1. /\ r = [q EXCEPT !.pc = "fetched", !.batch = b, !.last = last]
      /\ b \in Seq(Items) /\ Len(b) <= MaxResults
      /\ c.kind = "offset" => last = q.last /\ Len(q.page) + Len(b) <= MaxResults
      /\ c.kind = "logged" => last <=> q.token + MaxResults >= Len(L)
      /\ c.kind = "logged" => PageOf(b, L, q.token, MaxResults, Items)
  BY DEF Fetches
<1>2. r \in SearchRequests
  BY <1>1 DEF SearchRequests
<1>3. /\ r.pc = "fetched" /\ r.page = q.page /\ r.token = q.token /\ r.last = last
      /\ r.asked = q.asked /\ r.granted = q.granted /\ r.batch = b
  BY <1>1 DEF SearchRequests
<1>4. ASSUME c.kind = "logged", ~last
      PROVE  Len(b) = MaxResults
  <2>1. Len(b) = IF Len(L) <= q.token THEN 0 ELSE IF q.token + MaxResults <= Len(L) THEN MaxResults ELSE Len(L) - q.token
    BY <1>1, <1>4 DEF PageOf
  <2>2. ~(q.token + MaxResults >= Len(L))
    BY <1>1, <1>4
  <2>3. q.token \in Nat /\ MaxResults \in Nat /\ Len(L) \in Nat
    BY SearchRequestFields, SearchAssumption
  <2> QED
    BY <2>1, <2>2, <2>3
<1>5. FetchedOK(r, c)
  BY <1>1, <1>3, <1>4 DEF FetchedOK
<1>6. /\ c.token # End /\ (q.token = End \/ c.token <= q.token)
      /\ Len(q.page) <= MaxResults
      /\ rd \subseteq sn /\ q.granted \subseteq q.asked \cap sn /\ q.asked \cap st \subseteq q.granted
      /\ q.pc = "filled" <=> c.admin
      /\ c.kind = "offset" => ~q.last
      /\ \A i \in ToSet(q.page) : i \in sn /\ (i \in Blocked => i \in lo)
  BY DEF RequestOK
<1> QED
  BY <1>1, <1>2, <1>3, <1>5, <1>6 DEF RequestOK

LEMMA AddKeeps ==
  ASSUME NEW q \in SearchRequests, NEW r, NEW c \in Clients, NEW rd \in SUBSET Items, NEW sn,
         NEW st \in SUBSET rd, NEW lo, NEW failed \in SUBSET Blocked, NEW used, NEW kept, NEW token,
         q.pc = "fetched", RequestOK(q, c, rd, sn, st, lo),
         Adds(q, r, c, rd, failed, used, kept, token)
  PROVE  /\ r \in SearchRequests
         /\ RequestOK(r, c, rd, sn, st, lo \cup (failed \cap ToSet(SubSeq(q.batch, 1, used))))
<1> DEFINE taken == SubSeq(q.batch, 1, used)
           T == ToSet(taken)
           page == q.page \o kept
<1>1. q.page \in Seq(Items) /\ q.asked \subseteq Items /\ q.granted \subseteq Items
      /\ q.batch \in Seq(Items) /\ q.token \in Nat \cup {End} /\ q.last \in BOOLEAN
  BY SearchRequestFields
<1>2. /\ used \in 0 .. Len(q.batch)
      /\ kept = Keep(taken, Pass(q, rd, failed))
      /\ Len(q.page) + Len(kept) <= MaxResults
      /\ token = q.token + used \/ token = End
      /\ r = [q EXCEPT !.pc = "filling", !.page = page, !.token = token, !.batch = <<>>,
                       !.asked = q.asked \cup T,
                       !.granted = q.granted \cup ((T \ q.asked) \cap rd)]
  BY DEF Adds, Took
<1>3. taken \in Seq(Items)
  BY <1>1, <1>2, PrefixFacts
<1> HIDE DEF taken
<1>4. kept \in Seq(Items) /\ ToSet(kept) = T \cap Pass(q, rd, failed)
  BY <1>2, <1>3, KeepFacts
<1>5. T \subseteq Items
  BY <1>3 DEF ToSet
<1>6. page \in Seq(Items) /\ Len(page) = Len(q.page) + Len(kept) /\ ToSet(page) = ToSet(q.page) \cup ToSet(kept)
  BY <1>1, <1>4, ConcatFacts
<1> HIDE DEF page, T
<1>7. /\ c.token # End /\ (q.token = End \/ c.token <= q.token)
      /\ Len(q.page) <= MaxResults
      /\ rd \subseteq sn /\ q.granted \subseteq q.asked \cap sn /\ q.asked \cap st \subseteq q.granted
      /\ q.pc = "filled" <=> c.admin
      /\ c.kind = "offset" => ~q.last
      /\ \A i \in ToSet(q.page) : i \in sn /\ (i \in Blocked => i \in lo)
      /\ q.token # End
  BY DEF RequestOK, FetchedOK
<1>8. token \in Nat \cup {End} /\ (token = End \/ c.token <= token)
  <2>1. c.token \in Nat /\ q.token \in Nat /\ used \in Nat /\ c.token <= q.token
    BY <1>1, <1>2, <1>7, ClientFields
  <2>2. q.token + used \in Nat /\ c.token <= q.token + used
    BY <2>1
  <2> QED
    BY <1>2, <2>2
<1>9. r \in SearchRequests
  <2>1. <<>> \in Seq(Items)
    OBVIOUS
  <2> QED
    BY <1>1, <1>2, <1>5, <1>6, <1>8, <2>1 DEF SearchRequests
<1>10. /\ r.pc = "filling" /\ r.page = page /\ r.token = token /\ r.last = q.last
       /\ r.asked = q.asked \cup T /\ r.granted = q.granted \cup ((T \ q.asked) \cap rd)
  BY <1>2 DEF SearchRequests
<1>11. \A i \in T \cap Pass(q, rd, failed) : i \in sn /\ (i \in Blocked => i \in lo \cup (failed \cap T))
  BY <1>7 DEF Pass
<1>12. r.granted \subseteq r.asked \cap sn /\ r.asked \cap st \subseteq r.granted
  BY <1>7, <1>10
<1>13. \A i \in ToSet(page) : i \in sn /\ (i \in Blocked => i \in lo \cup (failed \cap T))
  BY <1>4, <1>6, <1>7, <1>11
<1>14. Len(page) <= MaxResults
  BY <1>2, <1>6
<1>15. RequestOK(r, c, rd, sn, st, lo \cup (failed \cap T))
  BY <1>7, <1>8, <1>10, <1>12, <1>13, <1>14 DEF RequestOK
<1> QED
  BY <1>9, <1>15 DEF T, taken

LEMMA ChangeKeeps ==
  ASSUME NEW q, NEW c, NEW rd, NEW sn, NEW st, NEW lo, NEW rd2, NEW sn2, NEW st2,
         RequestOK(q, c, rd, sn, st, lo), rd2 \subseteq sn2, sn \subseteq sn2, st2 \subseteq st
  PROVE  RequestOK(q, c, rd2, sn2, st2, lo)
BY DEF RequestOK

LEMMA FilterInvInit == SearchInit => FilterInv
<1> SUFFICES ASSUME SearchInit PROVE FilterInv
  OBVIOUS
<1>1. listing \in Seq(Items) /\ IsInjective(listing) /\ changes \in 0 .. MaxChanges
  BY SearchAssumption DEF SearchInit
<1>2. client \in Clients
  <2>1. PICK kind \in Searches, admin \in BOOLEAN : client = Traversal(kind, admin)
    BY DEF SearchInit
  <2>2. <<>> \in Seq(Items) /\ 0 \in Nat
    OBVIOUS
  <2> QED
    BY <2>1, <2>2 DEF Traversal, Clients
<1> QED
  BY <1>1, <1>2 DEF FilterInv, WorldOK, SearchInit

LEMMA FilterInvSearch == FilterInv /\ Search => FilterInv'
<1> SUFFICES ASSUME FilterInv, Search PROVE FilterInv'
  OBVIOUS
<1> DEFINE p == MlflowPage(client.token)
           t == MlflowToken(client.token)
<1>1. client \in Clients /\ client.token # End /\ client.token \in Nat /\ client.admin \in BOOLEAN
  BY ClientFields DEF FilterInv, Search
<1>2. listing \in Seq(Items) /\ MaxResults \in Nat
  BY SearchAssumption DEF FilterInv, WorldOK
<1>3. p \in Seq(Items) /\ Len(p) <= MaxResults
  BY <1>1, <1>2, SliceFacts DEF MlflowPage, PageOf
<1>4. t \in Nat \cup {End} /\ (t = End \/ client.token <= t)
  BY <1>1, <1>2 DEF MlflowToken
<1> HIDE DEF p, t
<1>5. /\ req' = [pc |-> IF client.admin THEN "filled" ELSE "received", page |-> p, token |-> t,
                 batch |-> <<>>, last |-> FALSE, asked |-> {}, granted |-> {}]
      /\ lost' = {} /\ seen' = readable
      /\ UNCHANGED <<world, client, steady, removed, inserted>>
  BY DEF Search, p, t
<1>6. req' \in SearchRequests
  <2>1. <<>> \in Seq(Items)
    OBVIOUS
  <2> QED
    BY <1>3, <1>4, <1>5, <2>1 DEF SearchRequests
<1>7. RequestOK(req', client, readable, readable, steady, {})
  BY <1>1, <1>3, <1>4, <1>5 DEF RequestOK
<1> QED
  BY <1>5, <1>6, <1>7 DEF FilterInv, WorldOK, world

LEMMA FilterInvStartOver ==
  ASSUME FilterInv, NEW kind \in Searches, NEW admin \in BOOLEAN, StartOver(kind, admin)
  PROVE  FilterInv'
<1>1. client' = Traversal(kind, admin) /\ steady' = ToSet(listing) \cap readable /\ lost' = {}
      /\ removed' = FALSE /\ inserted' = FALSE /\ UNCHANGED <<world, req, seen>> /\ req = Idle
  BY DEF StartOver
<1>2. client' \in Clients
  <2>1. <<>> \in Seq(Items) /\ 0 \in Nat
    OBVIOUS
  <2> QED
    BY <1>1, <2>1 DEF Traversal, Clients
<1> QED
  BY <1>1, <1>2 DEF FilterInv, WorldOK, world

(* The steps of the handler leave the world alone.                         *)
LEMMA FilterInvHandler == FilterInv /\ Handler => FilterInv'
<1> SUFFICES ASSUME FilterInv, Handler PROVE FilterInv'
  OBVIOUS
<1>1. WorldOK /\ client \in Clients /\ lost \subseteq Items /\ req \in {Idle} \cup SearchRequests
      /\ (req # Idle => RequestOK(req, client, readable, seen, steady, lost))
      /\ readable \subseteq Items /\ steady \subseteq readable /\ listing \in Seq(Items)
  BY DEF FilterInv, WorldOK
<1>2. /\ UNCHANGED <<world, history>>
      /\ client' \in Clients /\ lost' \subseteq Items /\ req' \in {Idle} \cup SearchRequests
      /\ (req' # Idle => RequestOK(req', client', readable, seen, steady, lost'))
  <2>1. CASE FilterFirstPage
    <3>1. /\ req \in SearchRequests /\ req.pc = "received" /\ UNCHANGED <<world, client, history>>
      BY <2>1, FilterStep
    <3>2. PICK failed \in SUBSET (ToSet(req.page) \cap Blocked) :
            lost' = lost \cup failed /\ Filters(req, req', readable, failed)
      BY <2>1, FilterStep
    <3>3. failed \in SUBSET Blocked /\ RequestOK(req, client, readable, seen, steady, lost)
          /\ readable \in SUBSET Items /\ steady \in SUBSET readable
      BY <1>1, <3>1, SearchRequestFields
    <3>4. req' \in SearchRequests /\ RequestOK(req', client, readable, seen, steady, lost \cup failed)
      BY <1>1, <3>1, <3>2, <3>3, FilterKeeps
    <3> QED
      BY <1>1, <3>1, <3>2, <3>3, <3>4, SearchAssumption
  <2>2. CASE FetchPage \/ FetchLoggedModels
    <3>1. /\ req \in SearchRequests /\ req.pc = "filling" /\ req.token # End
          /\ Len(req.page) < MaxResults /\ UNCHANGED <<world, client, lost, history>>
      BY <2>2, FetchStep
    <3>2. RequestOK(req, client, readable, seen, steady, lost)
      BY <1>1, <3>1, SearchRequestFields
    <3>3. CASE req' = [req EXCEPT !.token = End]
      <4>1. req' \in SearchRequests
        BY <3>1, <3>3 DEF SearchRequests
      <4>2. RequestOK(req', client, readable, seen, steady, lost)
        BY <3>1, <3>2, <3>3 DEF RequestOK, SearchRequests
      <4> QED
        BY <1>1, <3>1, <4>1, <4>2
    <3>4. ASSUME NEW b, NEW last, Fetches(req, req', client, listing, b, last)
          PROVE  req' \in SearchRequests /\ RequestOK(req', client, readable, seen, steady, lost)
      <4>1. last \in BOOLEAN
        BY <3>4 DEF Fetches
      <4> QED
        BY <1>1, <3>1, <3>2, <3>4, <4>1, FetchKeeps
    <3>5. \/ req' = [req EXCEPT !.token = End]
          \/ \E b, last : Fetches(req, req', client, listing, b, last)
      BY <2>2, FetchStep
    <3> QED
      BY <1>1, <3>1, <3>3, <3>4, <3>5
  <2>3. CASE AddReadable \/ AddLoggedModels
    <3>1. /\ req \in SearchRequests /\ req.pc = "fetched" /\ UNCHANGED <<world, client, history>>
      BY <2>3, AddStep
    <3>2. PICK failed \in SUBSET (ToSet(req.batch) \cap Blocked) : \E used, kept, token :
              /\ Adds(req, req', client, readable, failed, used, kept, token)
              /\ lost' = lost \cup (failed \cap ToSet(SubSeq(req.batch, 1, used)))
      BY <2>3, AddStep
    <3>3. PICK used, kept, token :
              /\ Adds(req, req', client, readable, failed, used, kept, token)
              /\ lost' = lost \cup (failed \cap ToSet(SubSeq(req.batch, 1, used)))
      BY <3>2
    <3>4. failed \in SUBSET Blocked /\ RequestOK(req, client, readable, seen, steady, lost)
          /\ readable \in SUBSET Items /\ steady \in SUBSET readable
      BY <1>1, <3>1, <3>2, SearchRequestFields
    <3>5. req' \in SearchRequests /\ RequestOK(req', client, readable, seen, steady, lost')
      BY <1>1, <3>1, <3>3, <3>4, AddKeeps
    <3> QED
      BY <1>1, <3>1, <3>3, <3>4, <3>5, SearchAssumption
  <2>4. CASE Respond
    <3>1. req # Idle /\ client' = [client EXCEPT !.token = req.token, !.shown = client.shown \o req.page]
          /\ req' = Idle /\ UNCHANGED <<world, lost, history>>
      BY <2>4 DEF Respond, Idle
    <3>2. req.page \in Seq(Items) /\ req.token \in Nat \cup {End} /\ client.shown \in Seq(Items)
      BY <1>1, <3>1, SearchRequestFields, ClientFields
    <3>3. client.shown \o req.page \in Seq(Items)
      BY <3>2
    <3>4. client' \in Clients
      BY <1>1, <3>1, <3>2, <3>3 DEF Clients
    <3> QED
      BY <1>1, <3>1, <3>4
  <2>5. CASE Fail
    BY <1>1, <2>5 DEF Fail
  <2> QED
    BY <2>1, <2>2, <2>3, <2>4, <2>5 DEF Handler, OffsetSearch, LoggedModelSearch
<1> QED
  BY <1>1, <1>2 DEF FilterInv, WorldOK, world, history

(* What a change to the listing or to the permissions leaves true.         *)
LEMMA FilterInvWorld ==
  ASSUME FilterInv, WorldOK', UNCHANGED <<client, req, lost>>,
         readable' \ readable \subseteq seen', seen \subseteq seen', steady' \subseteq steady
  PROVE  FilterInv'
<1>1. req # Idle => RequestOK(req, client, readable', seen', steady', lost)
  <2>1. ASSUME RequestOK(req, client, readable, seen, steady, lost)
        PROVE  RequestOK(req, client, readable', seen', steady', lost)
    <3>1. readable' \subseteq seen'
      BY <2>1 DEF RequestOK
    <3> QED
      BY <2>1, <3>1, ChangeKeeps
  <2> QED
    BY <2>1 DEF FilterInv
<1> QED
  BY <1>1 DEF FilterInv

LEMMA ChangeCounts ==
  ASSUME FilterInv, Change
  PROVE  changes' \in 0 .. MaxChanges /\ UNCHANGED <<client, req, lost>>
BY SearchAssumption DEF FilterInv, WorldOK, Change

LEMMA FilterInvCreate ==
  ASSUME FilterInv, NEW i \in Items, NEW n \in 1 .. Len(listing) + 1, Create(i, n)
  PROVE  FilterInv'
<1>1. listing \in Seq(Items) /\ IsInjective(listing) /\ i \notin ToSet(listing)
      /\ listing' = InsertAt(listing, n, i) /\ inserted' = TRUE
      /\ UNCHANGED <<readable, steady, seen, removed>>
  BY DEF FilterInv, WorldOK, Create
<1>2. listing' \in Seq(Items) /\ IsInjective(listing')
  BY <1>1, InsertFacts
<1>3. ToSet(listing') = ToSet(listing) \cup {i}
  BY <1>1, InsertedSet
<1>4. changes' \in 0 .. MaxChanges /\ UNCHANGED <<client, req, lost>>
  BY ChangeCounts DEF Create
<1>5. WorldOK'
  BY <1>1, <1>2, <1>3, <1>4 DEF FilterInv, WorldOK
<1> QED
  BY <1>1, <1>4, <1>5, FilterInvWorld

LEMMA FilterInvDelete ==
  ASSUME FilterInv, NEW i \in Items, Delete(i)
  PROVE  FilterInv'
<1>1. listing \in Seq(Items) /\ IsInjective(listing) /\ listing' = Keep(listing, Items \ {i})
      /\ removed' = TRUE /\ steady' = steady \ {i}
      /\ UNCHANGED <<readable, seen, inserted>>
  BY DEF FilterInv, WorldOK, Delete
<1>2. listing' \in Seq(Items) /\ IsInjective(listing') /\ ToSet(listing') = ToSet(listing) \cap (Items \ {i})
  BY <1>1, KeepFacts
<1>3. changes' \in 0 .. MaxChanges /\ UNCHANGED <<client, req, lost>>
  BY ChangeCounts DEF Delete
<1>4. WorldOK'
  BY <1>1, <1>2, <1>3 DEF FilterInv, WorldOK
<1> QED
  BY <1>1, <1>3, <1>4, FilterInvWorld

LEMMA FilterInvGrant ==
  ASSUME FilterInv, NEW i \in Items, Grant(i)
  PROVE  FilterInv'
<1>1. changes' \in 0 .. MaxChanges /\ UNCHANGED <<client, req, lost>>
  BY ChangeCounts DEF Grant
<1>2. readable' = readable \cup {i} /\ seen' = seen \cup {i}
      /\ UNCHANGED <<listing, steady, removed, inserted>>
  BY DEF Grant
<1>3. WorldOK'
  BY <1>1, <1>2 DEF FilterInv, WorldOK
<1> QED
  BY <1>1, <1>2, <1>3, FilterInvWorld

LEMMA FilterInvRevoke ==
  ASSUME FilterInv, NEW i \in Items, Revoke(i)
  PROVE  FilterInv'
<1>1. changes' \in 0 .. MaxChanges /\ UNCHANGED <<client, req, lost>>
  BY ChangeCounts DEF Revoke
<1>2. readable' = readable \ {i} /\ steady' = steady \ {i}
      /\ UNCHANGED <<listing, seen, removed, inserted>>
  BY DEF Revoke
<1>3. WorldOK'
  BY <1>1, <1>2 DEF FilterInv, WorldOK
<1> QED
  BY <1>1, <1>2, <1>3, FilterInvWorld

LEMMA FilterInvNext == FilterInv /\ [SearchNext]_searchVars => FilterInv'
<1> SUFFICES ASSUME FilterInv, [SearchNext]_searchVars PROVE FilterInv'
  OBVIOUS
<1>1. CASE UNCHANGED searchVars
  BY <1>1 DEF FilterInv, WorldOK, searchVars, history
<1>2. CASE Search
  BY <1>2, FilterInvSearch
<1>3. CASE \E kind \in Searches, admin \in BOOLEAN : StartOver(kind, admin)
  BY <1>3, FilterInvStartOver
<1>4. CASE Handler
  BY <1>4, FilterInvHandler
<1>5. CASE \E i \in Items, n \in 1 .. Len(listing) + 1 : Create(i, n)
  BY <1>5, FilterInvCreate
<1>6. CASE \E i \in Items : Delete(i)
  BY <1>6, FilterInvDelete
<1>7. CASE \E i \in Items : Grant(i)
  BY <1>7, FilterInvGrant
<1>8. CASE \E i \in Items : Revoke(i)
  BY <1>8, FilterInvRevoke
<1> QED
  BY <1>1, <1>2, <1>3, <1>4, <1>5, <1>6, <1>7, <1>8 DEF SearchNext

THEOREM FilterInvHolds == SearchSpec => []FilterInv
BY FilterInvInit, FilterInvNext, PTL DEF SearchSpec

THEOREM SearchTypeCorrect == SearchSpec => []SearchTypeOK
<1>1. FilterInv => SearchTypeOK
  <2> SUFFICES ASSUME FilterInv PROVE SearchTypeOK
    OBVIOUS
  <2>1. /\ listing \in Seq(Items) /\ readable \subseteq Items /\ changes \in 0 .. MaxChanges
        /\ client.token \in Nat \cup {End} /\ client.shown \in Seq(Items)
    BY ClientFields DEF FilterInv, WorldOK
  <2>2. CASE req = Idle
    BY <2>1, <2>2 DEF SearchTypeOK
  <2>3. CASE req # Idle
    <3>1. req \in SearchRequests /\ RequestOK(req, client, readable, seen, steady, lost)
      BY <2>3 DEF FilterInv
    <3> QED
      BY <2>1, <3>1, SearchRequestFields DEF SearchTypeOK, RequestOK
  <2> QED
    BY <2>2, <2>3
<1> QED
  BY <1>1, FilterInvHolds, PTL

THEOREM OnlyReadableIsShown == SearchSpec => []OnlyReadableShown
<1>1. FilterInv => OnlyReadableShown
  <2> SUFFICES ASSUME FilterInv, req.pc = "filling" PROVE \A i \in ToSet(req.page) : i \in seen /\ (i \in Blocked => i \in lost)
    BY DEF OnlyReadableShown, InAnswer
  <2>1. req # Idle
    BY DEF Idle
  <2> QED
    BY <2>1 DEF FilterInv, RequestOK
<1> QED
  BY <1>1, FilterInvHolds, PTL

(* Nothing twice: what has been shown, is on the page or has been fetched  *)
(* lies before the token that goes with it.                                *)
Before(i, t, L) == t # End => \A p \in 1 .. Len(L) : L[p] = i => p <= t

FetchedOnce(q, c, L) ==
  /\ IsInjective(q.batch) /\ ToSet(q.batch) \cap (ToSet(c.shown) \cup ToSet(q.page)) = {}
  /\ \A k \in 1 .. Len(q.batch) : Before(q.batch[k], q.token + k, L)

RequestOnce(q, c, L) ==
  /\ IsInjective(q.page) /\ ToSet(c.shown) \cap ToSet(q.page) = {}
  /\ \A i \in ToSet(q.page) : Before(i, q.token, L)
  /\ q.pc = "fetched" => FetchedOnce(q, c, L)

ShownOnce(c, L) ==
  /\ IsInjective(c.shown)
  /\ \A i \in ToSet(c.shown) : Before(i, c.token, L)

OnceInv == ~inserted => /\ ShownOnce(client, listing)
                        /\ req # Idle => RequestOnce(req, client, listing)

LEMMA BeforeLater ==
  ASSUME NEW i, NEW L, NEW t \in Nat, NEW u \in Nat \cup {End}, u = End \/ t <= u, Before(i, t, L),
         Len(L) \in Nat
  PROVE  Before(i, u, L)
<1>1. t # End
  BY SearchAssumption
<1>2. \A p \in 1 .. Len(L) : L[p] = i => p <= t
  BY <1>1 DEF Before
<1> SUFFICES ASSUME u # End, NEW p \in 1 .. Len(L), L[p] = i PROVE p <= u
  BY DEF Before
<1> QED
  BY <1>2

(* A stretch of a listing without repetitions.                             *)
LEMMA StretchOnce ==
  ASSUME NEW L \in Seq(Items), IsInjective(L), NEW b \in Seq(Items), NEW o \in Nat,
         \A k \in 1 .. Len(b) : o + k \in 1 .. Len(L) /\ b[k] = L[o + k]
  PROVE  /\ IsInjective(b)
         /\ \A k \in 1 .. Len(b) : Before(b[k], o + k, L)
         /\ \A i \in ToSet(b) : ~Before(i, o, L)
<1>1. DOMAIN L = 1 .. Len(L) /\ DOMAIN b = 1 .. Len(b) /\ Len(L) \in Nat /\ Len(b) \in Nat
  OBVIOUS
<1>2. \A p, u \in 1 .. Len(L) : L[p] = L[u] => p = u
  BY <1>1 DEF IsInjective
<1>3. ASSUME NEW j \in 1 .. Len(b), NEW k \in 1 .. Len(b), b[j] = b[k]
      PROVE  j = k
  <2>1. o + j = o + k
    BY <1>2, <1>3
  <2> QED
    BY <1>1, <2>1
<1>4. ASSUME NEW k \in 1 .. Len(b), NEW p \in 1 .. Len(L), L[p] = b[k]
      PROVE  p = o + k
  BY <1>2, <1>4
<1>5. ASSUME NEW k \in 1 .. Len(b)
      PROVE  Before(b[k], o + k, L)
  <2>1. o + k \in Nat
    BY <1>1
  <2> SUFFICES ASSUME NEW p \in 1 .. Len(L), L[p] = b[k] PROVE p <= o + k
    BY DEF Before
  <2>2. p = o + k
    BY <1>4
  <2> QED
    BY <2>1, <2>2
<1>6. ASSUME NEW i \in ToSet(b)
      PROVE  ~Before(i, o, L)
  <2>1. PICK k \in 1 .. Len(b) : i = b[k]
    BY <1>1 DEF ToSet
  <2>2. o # End
    BY SearchAssumption
  <2>3. ~(o + k <= o)
    BY <1>1
  <2>4. o + k \in 1 .. Len(L) /\ L[o + k] = i
    BY <2>1
  <2> QED
    BY <2>2, <2>3, <2>4 DEF Before
<1>7. IsInjective(b)
  BY <1>1, <1>3 DEF IsInjective
<1> QED
  BY <1>5, <1>6, <1>7

LEMMA FilterOnce ==
  ASSUME NEW q \in SearchRequests, NEW r, NEW c, NEW rd, NEW failed, NEW L,
         RequestOnce(q, c, L), Filters(q, r, rd, failed)
  PROVE  RequestOnce(r, c, L)
<1> DEFINE kept == Keep(q.page, Pass(q, rd, failed))
<1>1. IsInjective(kept) /\ ToSet(kept) \subseteq ToSet(q.page)
  BY KeepFacts, SearchRequestFields DEF RequestOnce
<1> HIDE DEF kept
<1>2. r.pc = "filling" /\ r.page = kept /\ r.token = q.token
  BY DEF Filters, SearchRequests, kept
<1> QED
  BY <1>1, <1>2 DEF RequestOnce

LEMMA FetchOnce ==
  ASSUME NEW q \in SearchRequests, NEW r, NEW c \in Clients, NEW L \in Seq(Items), NEW b, NEW last,
         IsInjective(L), q.token \in Nat, c.token \in Nat, c.token <= q.token,
         ShownOnce(c, L), RequestOnce(q, c, L), Fetches(q, r, c, L, b, last)
  PROVE  RequestOnce(r, c, L)
<1>1. /\ r = [q EXCEPT !.pc = "fetched", !.batch = b, !.last = last]
      /\ b \in Seq(Items)
      /\ \A k \in 1 .. Len(b) : q.token + k \in 1 .. Len(L) /\ b[k] = L[q.token + k]
  BY DEF Fetches
<1>2. r.pc = "fetched" /\ r.page = q.page /\ r.token = q.token /\ r.batch = b
  BY <1>1 DEF SearchRequests
<1>3. /\ IsInjective(b) /\ \A k \in 1 .. Len(b) : Before(b[k], q.token + k, L)
      /\ \A i \in ToSet(b) : ~Before(i, q.token, L)
  BY <1>1, StretchOnce
<1>4. \A i \in ToSet(c.shown) : Before(i, q.token, L)
  <2>1. \A i \in ToSet(c.shown) : Before(i, c.token, L)
    BY DEF ShownOnce
  <2>2. Len(L) \in Nat
    OBVIOUS
  <2> QED
    BY <2>1, <2>2, BeforeLater
<1>5. FetchedOnce(r, c, L)
  BY <1>2, <1>3, <1>4 DEF FetchedOnce, RequestOnce
<1> QED
  BY <1>2, <1>5 DEF RequestOnce

LEMMA AddOnce ==
  ASSUME NEW q \in SearchRequests, NEW r, NEW c, NEW rd, NEW L \in Seq(Items), NEW failed,
         NEW used, NEW kept, NEW token,
         q.pc = "fetched", q.token \in Nat, RequestOnce(q, c, L),
         Adds(q, r, c, rd, failed, used, kept, token)
  PROVE  RequestOnce(r, c, L)
<1> DEFINE taken == SubSeq(q.batch, 1, used)
           page == q.page \o kept
<1>1. q.page \in Seq(Items) /\ q.batch \in Seq(Items) /\ Len(L) \in Nat
  BY SearchRequestFields
<1>2. /\ used \in 0 .. Len(q.batch)
      /\ kept = Keep(taken, Pass(q, rd, failed))
      /\ token = q.token + used \/ token = End
  BY DEF Adds
<1>3. r.pc = "filling" /\ r.page = page /\ r.token = token
  BY DEF Adds, Took, SearchRequests
<1>4. taken \in Seq(Items) /\ Len(taken) = used
      /\ \A k \in 1 .. used : k \in 1 .. Len(q.batch) /\ taken[k] = q.batch[k]
  BY <1>1, <1>2, PrefixFacts
<1> HIDE DEF taken
<1>5. FetchedOnce(q, c, L)
  BY DEF RequestOnce
<1>6. IsInjective(taken)
  <2>1. \A j, k \in 1 .. Len(q.batch) : q.batch[j] = q.batch[k] => j = k
    BY <1>1, <1>5 DEF FetchedOnce, IsInjective
  <2>2. DOMAIN taken = 1 .. used
    BY <1>4
  <2> QED
    BY <1>4, <2>1, <2>2 DEF IsInjective
<1>7. \A i \in ToSet(taken) : \E k \in 1 .. used : i = q.batch[k]
  <2>1. DOMAIN taken = 1 .. used
    BY <1>4
  <2> QED
    BY <1>4, <2>1 DEF ToSet
<1>8. kept \in Seq(Items) /\ IsInjective(kept) /\ ToSet(kept) \subseteq ToSet(taken)
  BY <1>2, <1>4, <1>6, KeepFacts
<1>9. ToSet(taken) \subseteq ToSet(q.batch)
  <2>1. DOMAIN q.batch = 1 .. Len(q.batch)
    BY <1>1
  <2> QED
    BY <1>4, <1>7, <2>1 DEF ToSet
<1>10. IsInjective(page) /\ ToSet(page) = ToSet(q.page) \cup ToSet(kept)
  <2>1. IsInjective(q.page) /\ IsInjective(kept) /\ ToSet(q.page) \cap ToSet(kept) = {}
    BY <1>5, <1>8, <1>9 DEF RequestOnce, FetchedOnce
  <2> QED
    BY <1>1, <1>8, <2>1, ConcatFacts
<1>11. ASSUME NEW i \in ToSet(page)
       PROVE  Before(i, token, L)
  <2>1. CASE token = End
    BY <2>1 DEF Before
  <2>2. CASE token = q.token + used
    <3>1. used \in Nat /\ q.token + used \in Nat /\ q.token <= q.token + used
      BY <1>1, <1>2
    <3>2. CASE i \in ToSet(q.page)
      <4>1. Before(i, q.token, L)
        BY <3>2 DEF RequestOnce
      <4> QED
        BY <1>1, <2>2, <3>1, <4>1, BeforeLater
    <3>3. ASSUME NEW k \in 1 .. used, i = q.batch[k]
          PROVE  Before(i, token, L)
      <4>1. k \in Nat /\ q.token + k \in Nat /\ q.token + k <= q.token + used
        BY <3>1
      <4>2. Before(i, q.token + k, L)
        BY <1>4, <1>5, <3>3 DEF FetchedOnce
      <4> HIDE DEF page
      <4>3. PICK t \in Nat : t = q.token + k
        BY <4>1
      <4>4. PICK u \in Nat : u = q.token + used
        BY <3>1
      <4>5. Before(i, t, L) /\ t <= u /\ token = u
        BY <2>2, <4>1, <4>2, <4>3, <4>4
      <4> QED
        BY <1>1, <4>5, BeforeLater
    <3> HIDE DEF page
    <3> QED
      BY <1>7, <1>8, <1>10, <3>2, <3>3
  <2> QED
    BY <1>2, <2>1, <2>2
<1>12. ToSet(c.shown) \cap ToSet(page) = {}
  <2>1. ToSet(c.shown) \cap ToSet(q.page) = {}
    BY DEF RequestOnce
  <2>2. ToSet(q.batch) \cap ToSet(c.shown) = {}
    BY <1>5 DEF FetchedOnce
  <2> QED
    BY <1>8, <1>9, <1>10, <2>1, <2>2
<1> HIDE DEF page
<1> QED
  BY <1>3, <1>10, <1>11, <1>12 DEF RequestOnce

(* Deleting an item moves the others towards the beginning.                *)
LEMMA KeepBefore ==
  ASSUME NEW L \in Seq(Items), NEW K, NEW i, NEW t \in Nat \cup {End}, Before(i, t, L)
  PROVE  Before(i, t, Keep(L, K))
<1> DEFINE M == Keep(L, K)
<1>1. M \in Seq(Items) /\ \E f : Places(M, L, K, f)
  BY KeepHasPlaces
<1> HIDE DEF M
<1>2. PICK f : Places(M, L, K, f)
  BY <1>1
<1> SUFFICES ASSUME t # End, NEW p \in 1 .. Len(M), M[p] = i PROVE p <= t
  BY DEF Before, M
<1>3. f[p] \in 1 .. Len(L) /\ L[f[p]] = i /\ p <= f[p]
  BY <1>2 DEF Places
<1>4. f[p] <= t
  BY <1>3 DEF Before
<1>5. p \in Nat /\ f[p] \in Nat /\ t \in Nat
  BY <1>1, <1>3
<1> QED
  BY <1>3, <1>4, <1>5

LEMMA OnceInit == SearchInit => OnceInv
<1> SUFFICES ASSUME SearchInit PROVE OnceInv
  OBVIOUS
<1>1. client.shown = <<>> /\ req = Idle
  BY DEF SearchInit, Traversal
<1> QED
  BY <1>1 DEF OnceInv, ShownOnce, IsInjective, ToSet

(* The request in progress, under both invariants.                         *)
LEMMA RequestFacts ==
  ASSUME FilterInv, req # Idle
  PROVE  /\ req \in SearchRequests /\ client \in Clients
         /\ listing \in Seq(Items) /\ IsInjective(listing) /\ MaxResults \in Nat \ {0}
         /\ client.token \in Nat
         /\ req.token = End \/ (req.token \in Nat /\ client.token <= req.token)
         /\ RequestOK(req, client, readable, seen, steady, lost)
<1>1. req \in SearchRequests /\ client \in Clients /\ RequestOK(req, client, readable, seen, steady, lost)
      /\ listing \in Seq(Items) /\ IsInjective(listing)
  BY DEF FilterInv, WorldOK
<1>2. client.token \in Nat \cup {End} /\ req.token \in Nat \cup {End} /\ MaxResults \in Nat \ {0}
  BY <1>1, SearchRequestFields, ClientFields, SearchAssumption
<1>3. client.token # End /\ (req.token = End \/ client.token <= req.token)
  BY <1>1 DEF RequestOK
<1> QED
  BY <1>1, <1>2, <1>3

LEMMA OnceSearch ==
  ASSUME FilterInv, OnceInv, Search
  PROVE  OnceInv'
<1> DEFINE p == MlflowPage(client.token)
           t == MlflowToken(client.token)
<1>1. client \in Clients /\ client.token # End /\ client.token \in Nat
      /\ listing \in Seq(Items) /\ IsInjective(listing) /\ MaxResults \in Nat
  BY ClientFields, SearchAssumption DEF FilterInv, WorldOK, Search
<1>2. PageOf(p, listing, client.token, MaxResults, Items)
  BY <1>1, SliceFacts DEF MlflowPage
<1>3. t = End \/ t = client.token + MaxResults
  BY DEF MlflowToken
<1> HIDE DEF p, t
<1>4. /\ req' # Idle /\ req'.pc # "fetched" /\ req'.page = p /\ req'.token = t
      /\ UNCHANGED <<listing, client, inserted>>
  BY DEF Search, Idle, world, p, t
<1>5. p \in Seq(Items) /\ Len(p) <= MaxResults
      /\ \A k \in 1 .. Len(p) : client.token + k \in 1 .. Len(listing) /\ p[k] = listing[client.token + k]
  BY <1>2 DEF PageOf
<1>6. /\ IsInjective(p)
      /\ \A k \in 1 .. Len(p) : Before(p[k], client.token + k, listing)
      /\ \A i \in ToSet(p) : ~Before(i, client.token, listing)
  BY <1>1, <1>5, StretchOnce
<1>7. ASSUME NEW i \in ToSet(p)
      PROVE  Before(i, t, listing)
  <2>1. CASE t = End
    BY <2>1 DEF Before
  <2>2. CASE t = client.token + MaxResults
    <3>1. PICK k \in 1 .. Len(p) : i = p[k]
      BY <1>5 DEF ToSet
    <3>2. PICK u \in Nat : u = client.token + k
      BY <1>1, <1>5
    <3>3. Before(i, u, listing) /\ Len(listing) \in Nat
      BY <1>1, <1>6, <3>1, <3>2
    <3>4. t \in Nat /\ u <= t
      BY <1>1, <1>5, <2>2, <3>2
    <3> QED
      BY <3>3, <3>4, BeforeLater
  <2> QED
    BY <1>3, <2>1, <2>2
<1> QED
  BY <1>4, <1>6, <1>7 DEF OnceInv, ShownOnce, RequestOnce

LEMMA OnceStartOver ==
  ASSUME NEW kind, NEW admin, StartOver(kind, admin)
  PROVE  OnceInv'
<1>1. client'.shown = <<>> /\ req' = Idle
  BY DEF StartOver, Traversal
<1> QED
  BY <1>1 DEF OnceInv, ShownOnce, IsInjective, ToSet

LEMMA HandlerRuns ==
  ASSUME Handler
  PROVE  req # Idle /\ UNCHANGED <<world, history>>
<1> SUFFICES req.pc # "idle" /\ UNCHANGED <<world, history>>
  BY DEF Idle
<1>1. CASE FilterFirstPage
  BY <1>1 DEF FilterFirstPage
<1>2. CASE FetchPage
  BY <1>2 DEF FetchPage
<1>3. CASE AddReadable
  BY <1>3 DEF AddReadable
<1>4. CASE FetchLoggedModels
  BY <1>4 DEF FetchLoggedModels
<1>5. CASE AddLoggedModels
  BY <1>5 DEF AddLoggedModels
<1>6. CASE Respond \/ Fail
  BY <1>6 DEF Respond, Fail
<1> QED
  BY <1>1, <1>2, <1>3, <1>4, <1>5, <1>6 DEF Handler, OffsetSearch, LoggedModelSearch

LEMMA OnceHandler ==
  ASSUME FilterInv, OnceInv, Handler
  PROVE  OnceInv'
<1>0. req # Idle
  BY HandlerRuns
<1>1. UNCHANGED <<listing, inserted>>
  BY HandlerRuns DEF world, history
<1> SUFFICES ASSUME ~inserted
             PROVE  /\ ShownOnce(client', listing)
                    /\ req' # Idle => RequestOnce(req', client', listing)
  BY <1>1 DEF OnceInv
<1>2. /\ req \in SearchRequests /\ client \in Clients
      /\ listing \in Seq(Items) /\ IsInjective(listing)
      /\ client.token \in Nat /\ Len(listing) \in Nat
      /\ req.token = End \/ (req.token \in Nat /\ client.token <= req.token)
      /\ RequestOK(req, client, readable, seen, steady, lost)
  BY <1>0, RequestFacts
<1>3. ShownOnce(client, listing) /\ RequestOnce(req, client, listing)
  BY <1>0 DEF OnceInv
<1>4. CASE FilterFirstPage
  <2>1. client' = client
    BY <1>4, FilterStep
  <2>2. PICK failed : Filters(req, req', readable, failed)
    BY <1>4, FilterStep
  <2>3. RequestOnce(req', client, listing)
    BY <1>2, <1>3, <2>2, FilterOnce
  <2> QED
    BY <1>3, <2>1, <2>3
<1>5. CASE FetchPage \/ FetchLoggedModels
  <2>1. /\ req.token \in Nat /\ client.token <= req.token /\ client' = client
    BY <1>2, <1>5, FetchStep
  <2>2. CASE req' = [req EXCEPT !.token = End]
    <3>1. req'.token = End /\ req'.page = req.page /\ req'.pc = req.pc /\ req.pc = "filling"
      BY <1>2, <1>5, <2>2, FetchStep DEF SearchRequests
    <3> QED
      BY <1>3, <2>1, <3>1 DEF RequestOnce, Before
  <2>3. ASSUME NEW b, NEW last, Fetches(req, req', client, listing, b, last)
        PROVE  RequestOnce(req', client, listing)
    BY <1>2, <1>3, <2>1, <2>3, FetchOnce
  <2>4. req' = [req EXCEPT !.token = End] \/ \E b, last : Fetches(req, req', client, listing, b, last)
    BY <1>5, FetchStep
  <2> QED
    BY <1>3, <2>1, <2>2, <2>3, <2>4
<1>6. CASE AddReadable \/ AddLoggedModels
  <2>1. req.pc = "fetched" /\ client' = client
    BY <1>6, AddStep
  <2>2. req.token \in Nat
    BY <1>2, <2>1 DEF RequestOK, FetchedOK
  <2>3. PICK failed, used, kept, token : Adds(req, req', client, readable, failed, used, kept, token)
    BY <1>6, AddStep
  <2> QED
    BY <1>2, <1>3, <2>1, <2>2, <2>3, AddOnce
<1>7. CASE Respond
  <2>1. /\ client' = [client EXCEPT !.token = req.token, !.shown = client.shown \o req.page]
        /\ req' = Idle
    BY <1>7 DEF Respond
  <2>2. client'.token = req.token /\ client'.shown = client.shown \o req.page
    BY <1>2, <2>1 DEF Clients
  <2>3. client.shown \in Seq(Items) /\ req.page \in Seq(Items)
    BY <1>2, SearchRequestFields, ClientFields
  <2>4. IsInjective(client'.shown) /\ ToSet(client'.shown) = ToSet(client.shown) \cup ToSet(req.page)
    BY <1>3, <2>2, <2>3, ConcatFacts DEF ShownOnce, RequestOnce
  <2>5. ASSUME NEW i \in ToSet(client.shown)
        PROVE  Before(i, req.token, listing)
    <3>1. Before(i, client.token, listing)
      BY <1>3 DEF ShownOnce
    <3> QED
      BY <1>2, <3>1, BeforeLater
  <2>6. \A i \in ToSet(req.page) : Before(i, req.token, listing)
    BY <1>3 DEF RequestOnce
  <2> QED
    BY <2>1, <2>2, <2>4, <2>5, <2>6 DEF ShownOnce
<1>8. CASE Fail
  BY <1>3, <1>8 DEF Fail
<1> QED
  BY <1>4, <1>5, <1>6, <1>7, <1>8 DEF Handler, OffsetSearch, LoggedModelSearch

LEMMA OnceDelete ==
  ASSUME FilterInv, OnceInv, NEW i \in Items, Delete(i)
  PROVE  OnceInv'
<1>1. listing \in Seq(Items) /\ listing' = Keep(listing, Items \ {i})
      /\ UNCHANGED <<inserted, client, req>>
  BY DEF FilterInv, WorldOK, Delete, Change
<1> SUFFICES ASSUME ~inserted
             PROVE  /\ ShownOnce(client, listing')
                    /\ req # Idle => RequestOnce(req, client, listing')
  BY <1>1 DEF OnceInv
<1>2. \A x, t : t \in Nat \cup {End} /\ Before(x, t, listing) => Before(x, t, listing')
  BY <1>1, KeepBefore
<1>3. client.token \in Nat \cup {End}
  BY ClientFields DEF FilterInv
<1>4. ShownOnce(client, listing')
  BY <1>2, <1>3 DEF OnceInv, ShownOnce
<1>5. ASSUME req # Idle
      PROVE  RequestOnce(req, client, listing')
  <2>1. req \in SearchRequests /\ RequestOnce(req, client, listing)
        /\ RequestOK(req, client, readable, seen, steady, lost)
    BY <1>5, RequestFacts DEF OnceInv
  <2>2. \A x \in ToSet(req.page) : Before(x, req.token, listing')
    BY <1>2, <2>1, SearchRequestFields DEF RequestOnce
  <2>3. ASSUME req.pc = "fetched"
        PROVE  FetchedOnce(req, client, listing')
    <3>1. req.token \in Nat /\ req.batch \in Seq(Items)
      BY <2>1, <2>3, SearchRequestFields DEF RequestOK, FetchedOK
    <3>2. \A k \in 1 .. Len(req.batch) : req.token + k \in Nat
      BY <3>1
    <3>3. FetchedOnce(req, client, listing)
      BY <2>1, <2>3 DEF RequestOnce
    <3> QED
      BY <1>2, <3>2, <3>3 DEF FetchedOnce
  <2> QED
    BY <2>1, <2>2, <2>3 DEF RequestOnce
<1> QED
  BY <1>4, <1>5

LEMMA OnceNext == FilterInv /\ OnceInv /\ [SearchNext]_searchVars => OnceInv'
<1> SUFFICES ASSUME FilterInv, OnceInv, [SearchNext]_searchVars PROVE OnceInv'
  OBVIOUS
<1>1. CASE UNCHANGED searchVars
  BY <1>1 DEF OnceInv, searchVars, history
<1>2. CASE Search
  BY <1>2, OnceSearch
<1>3. CASE \E kind \in Searches, admin \in BOOLEAN : StartOver(kind, admin)
  BY <1>3, OnceStartOver
<1>4. CASE Handler
  BY <1>4, OnceHandler
<1>5. CASE \E i \in Items, n \in 1 .. Len(listing) + 1 : Create(i, n)
  BY <1>5 DEF Create, OnceInv
<1>6. CASE \E i \in Items : Delete(i)
  BY <1>6, OnceDelete
<1>7. CASE \E i \in Items : Grant(i) \/ Revoke(i)
  BY <1>7 DEF Grant, Revoke, Change, OnceInv
<1> QED
  BY <1>1, <1>2, <1>3, <1>4, <1>5, <1>6, <1>7 DEF SearchNext

THEOREM NothingIsShownTwice == SearchSpec => []NothingTwice
<1>1. SearchSpec => [](FilterInv /\ OnceInv)
  BY FilterInvInit, FilterInvNext, OnceInit, OnceNext, PTL DEF SearchSpec
<1>2. FilterInv /\ OnceInv => NothingTwice
  <2> SUFFICES ASSUME FilterInv, OnceInv, ~inserted
               PROVE  IsInjective(client.shown \o (IF req = Idle THEN <<>> ELSE req.page))
    BY DEF NothingTwice
  <2>1. client.shown \in Seq(Items) /\ IsInjective(client.shown)
    BY ClientFields DEF FilterInv, OnceInv, ShownOnce
  <2>2. CASE req = Idle
    <3>1. <<>> \in Seq(Items) /\ IsInjective(<<>>) /\ ToSet(<<>>) = {}
      BY DEF IsInjective, ToSet
    <3>2. IsInjective(client.shown \o <<>>)
      BY <2>1, <3>1, ConcatFacts
    <3> QED
      BY <2>2, <3>2
  <2>3. CASE req # Idle
    <3>1. req \in SearchRequests /\ RequestOnce(req, client, listing)
      BY <2>3, RequestFacts DEF OnceInv
    <3>2. req.page \in Seq(Items)
      BY <3>1, SearchRequestFields
    <3>3. IsInjective(client.shown \o req.page)
      BY <2>1, <3>1, <3>2, ConcatFacts DEF RequestOnce
    <3> QED
      BY <2>3, <3>3
  <2> QED
    BY <2>2, <2>3
<1> QED
  BY <1>1, <1>2, PTL

(* Nothing skipped: up to the token, every item of D is in X.              *)
Covered(t, X, L, D) ==
  \A p \in 1 .. Len(L) : (t = End \/ p <= t) /\ L[p] \in D => L[p] \in X

FirstOnes(b, k) == {b[j] : j \in 1 .. k}

FetchedCovers(q, c, L, D) ==
  LET X == ToSet(c.shown) \cup ToSet(q.page) IN
  /\ \A k \in 0 .. Len(q.batch) : Covered(q.token + k, X \cup FirstOnes(q.batch, k), L, D)
  /\ q.last => Covered(End, X \cup FirstOnes(q.batch, Len(q.batch)), L, D)

RequestCovers(q, c, L, D) ==
  /\ Covered(q.token, ToSet(c.shown) \cup ToSet(q.page), L, D)
  /\ q.pc = "fetched" => FetchedCovers(q, c, L, D)

CoverInv == ~removed => LET D == steady \ Blocked IN
                        /\ Covered(client.token, ToSet(client.shown), listing, D)
                        /\ req # Idle => RequestCovers(req, client, listing, D)

LEMMA CoveredMore ==
  ASSUME NEW t, NEW X, NEW Y, NEW L, NEW D, NEW E, Covered(t, X, L, D), E \subseteq D,
         X \cap E \subseteq Y
  PROVE  Covered(t, Y, L, E)
BY DEF Covered

(* A stretch of the listing covers what it passes over.                    *)
LEMMA StretchCovers ==
  ASSUME NEW L \in Seq(Items), NEW b \in Seq(Items), NEW o \in Nat, NEW X, NEW D,
         \A k \in 1 .. Len(b) : o + k \in 1 .. Len(L) /\ b[k] = L[o + k],
         Covered(o, X, L, D)
  PROVE  /\ \A k \in 0 .. Len(b) : Covered(o + k, X \cup FirstOnes(b, k), L, D)
         /\ Len(L) <= o + Len(b) => Covered(End, X \cup FirstOnes(b, Len(b)), L, D)
<1>1. Len(b) \in Nat /\ Len(L) \in Nat /\ o # End
  BY SearchAssumption
<1>2. \A p \in 1 .. Len(L) : p <= o /\ L[p] \in D => L[p] \in X
  BY <1>1 DEF Covered
<1>3. ASSUME NEW k \in 0 .. Len(b), NEW p \in 1 .. Len(L), p <= o + k, L[p] \in D
      PROVE  L[p] \in X \cup FirstOnes(b, k)
  <2>1. CASE p <= o
    BY <1>2, <1>3, <2>1
  <2>2. CASE p > o
    <3>1. p - o \in 1 .. k /\ p - o \in 1 .. Len(b) /\ o + (p - o) = p
      BY <1>1, <1>3, <2>2
    <3>2. b[p - o] = L[p]
      BY <3>1
    <3> QED
      BY <3>1, <3>2 DEF FirstOnes
  <2> QED
    BY <2>1, <2>2
<1>4. ASSUME NEW k \in 0 .. Len(b)
      PROVE  Covered(o + k, X \cup FirstOnes(b, k), L, D)
  <2>1. o + k # End
    <3>1. o + k \in Nat
      BY <1>1
    <3> QED
      BY <3>1, SearchAssumption
  <2> QED
    BY <1>3, <2>1 DEF Covered
<1>5. ASSUME Len(L) <= o + Len(b)
      PROVE  Covered(End, X \cup FirstOnes(b, Len(b)), L, D)
  <2>1. \A p \in 1 .. Len(L) : p <= o + Len(b)
    BY <1>1, <1>5
  <2>2. Len(b) \in 0 .. Len(b)
    BY <1>1
  <2> QED
    BY <1>3, <2>1, <2>2 DEF Covered
<1> QED
  BY <1>4, <1>5

LEMMA FilterCovers ==
  ASSUME NEW q \in SearchRequests, NEW r, NEW c, NEW rd, NEW failed, NEW L, NEW D,
         D \subseteq Pass(q, rd, failed), RequestCovers(q, c, L, D), Filters(q, r, rd, failed)
  PROVE  RequestCovers(r, c, L, D)
<1> DEFINE kept == Keep(q.page, Pass(q, rd, failed))
<1>1. ToSet(kept) = ToSet(q.page) \cap Pass(q, rd, failed)
  BY KeepFacts, SearchRequestFields
<1> HIDE DEF kept
<1>2. r.pc = "filling" /\ r.page = kept /\ r.token = q.token
  BY DEF Filters, SearchRequests, kept
<1>3. Covered(q.token, ToSet(c.shown) \cup ToSet(kept), L, D)
  BY <1>1, CoveredMore DEF RequestCovers
<1> QED
  BY <1>2, <1>3 DEF RequestCovers

LEMMA FetchCovers ==
  ASSUME NEW q \in SearchRequests, NEW r, NEW c \in Clients, NEW L \in Seq(Items), NEW b, NEW last, NEW D,
         q.token \in Nat, c.kind = "offset" => ~q.last,
         RequestCovers(q, c, L, D), Fetches(q, r, c, L, b, last)
  PROVE  RequestCovers(r, c, L, D)
<1> DEFINE X == ToSet(c.shown) \cup ToSet(q.page)
<1>1. /\ r = [q EXCEPT !.pc = "fetched", !.batch = b, !.last = last]
      /\ b \in Seq(Items)
      /\ \A k \in 1 .. Len(b) : q.token + k \in 1 .. Len(L) /\ b[k] = L[q.token + k]
  BY DEF Fetches
<1>2. r.pc = "fetched" /\ r.page = q.page /\ r.token = q.token /\ r.batch = b /\ r.last = last
  BY <1>1 DEF SearchRequests
<1>3. Covered(q.token, X, L, D)
  BY DEF RequestCovers
<1> HIDE DEF X
<1>4. /\ \A k \in 0 .. Len(b) : Covered(q.token + k, X \cup FirstOnes(b, k), L, D)
      /\ Len(L) <= q.token + Len(b) => Covered(End, X \cup FirstOnes(b, Len(b)), L, D)
  BY <1>1, <1>3, StretchCovers
<1>5. ASSUME last
      PROVE  Len(L) <= q.token + Len(b)
  <2>1. c.kind = "logged"
    BY <1>5, ClientFields DEF Fetches
  <2>2. q.token + MaxResults >= Len(L) /\ PageOf(b, L, q.token, MaxResults, Items)
    BY <1>5, <2>1 DEF Fetches
  <2>3. Len(b) = IF Len(L) <= q.token THEN 0 ELSE IF q.token + MaxResults <= Len(L) THEN MaxResults ELSE Len(L) - q.token
    BY <2>2 DEF PageOf
  <2>4. Len(b) \in Nat /\ Len(L) \in Nat /\ MaxResults \in Nat
    BY <1>1, SearchAssumption
  <2> QED
    BY <2>2, <2>3, <2>4
<1>6. FetchedCovers(r, c, L, D)
  BY <1>2, <1>4, <1>5 DEF FetchedCovers, X
<1> QED
  BY <1>2, <1>3, <1>6 DEF RequestCovers, X

LEMMA AddCovers ==
  ASSUME NEW q \in SearchRequests, NEW r, NEW c, NEW rd, NEW L, NEW D, NEW failed,
         NEW used, NEW kept, NEW token,
         q.pc = "fetched", D \subseteq Pass(q, rd, failed), RequestCovers(q, c, L, D),
         Adds(q, r, c, rd, failed, used, kept, token)
  PROVE  RequestCovers(r, c, L, D)
<1> DEFINE taken == SubSeq(q.batch, 1, used)
           page == q.page \o kept
           X == ToSet(c.shown) \cup ToSet(q.page)
<1>1. q.page \in Seq(Items) /\ q.batch \in Seq(Items)
  BY SearchRequestFields
<1>2. /\ used \in 0 .. Len(q.batch)
      /\ kept = Keep(taken, Pass(q, rd, failed))
      /\ token = q.token + used \/ (token = End /\ q.last /\ used = Len(q.batch))
  BY DEF Adds
<1>3. r.pc = "filling" /\ r.page = page /\ r.token = token
  BY DEF Adds, Took, SearchRequests
<1>4. taken \in Seq(Items) /\ Len(taken) = used
      /\ \A k \in 1 .. used : taken[k] = q.batch[k]
  BY <1>1, <1>2, PrefixFacts
<1> HIDE DEF taken
<1>5. kept \in Seq(Items) /\ ToSet(kept) = ToSet(taken) \cap Pass(q, rd, failed)
  BY <1>2, <1>4, KeepFacts
<1>6. ToSet(taken) = FirstOnes(q.batch, used)
  <2>1. DOMAIN taken = 1 .. used
    BY <1>4
  <2> QED
    BY <1>4, <2>1 DEF ToSet, FirstOnes
<1>7. ToSet(page) = ToSet(q.page) \cup ToSet(kept)
  BY <1>1, <1>5, ConcatFacts
<1>8. FetchedCovers(q, c, L, D)
  BY DEF RequestCovers
<1>9. Covered(token, X \cup FirstOnes(q.batch, used), L, D)
  BY <1>2, <1>8 DEF FetchedCovers
<1>10. (X \cup FirstOnes(q.batch, used)) \cap D \subseteq ToSet(c.shown) \cup ToSet(page)
  BY <1>5, <1>6, <1>7
<1> HIDE DEF X, page
<1>11. Covered(token, ToSet(c.shown) \cup ToSet(page), L, D)
  BY <1>9, <1>10, CoveredMore
<1> QED
  BY <1>3, <1>11 DEF RequestCovers

(* An item that was not there moves those behind it, and none before it.   *)
LEMMA InsertCovers ==
  ASSUME NEW L \in Seq(Items), NEW i \in Items, NEW n \in 1 .. Len(L) + 1, NEW D, i \notin D
  PROVE  \A t, X : t \in Nat \cup {End} /\ Covered(t, X, L, D) => Covered(t, X, InsertAt(L, n, i), D)
<1> DEFINE M == InsertAt(L, n, i)
<1>1. M \in Seq(Items) /\ Len(M) = Len(L) + 1
      /\ \A p \in 1 .. Len(M) : M[p] = IF p < n THEN L[p] ELSE IF p = n THEN i ELSE L[p - 1]
  BY InsertFacts
<1> HIDE DEF M
<1>2. Len(L) \in Nat /\ n \in Nat /\ n >= 1
  OBVIOUS
<1> SUFFICES ASSUME NEW t \in Nat \cup {End}, NEW X, Covered(t, X, L, D),
                    NEW p \in 1 .. Len(M), t = End \/ p <= t, M[p] \in D
             PROVE  M[p] \in X
  BY DEF Covered, M
<1>3. CASE p < n
  <2>1. p \in 1 .. Len(L) /\ M[p] = L[p]
    BY <1>1, <1>2, <1>3
  <2> QED
    BY <2>1 DEF Covered
<1>4. CASE p = n
  BY <1>1, <1>4
<1>5. CASE p > n
  <2>1. p - 1 \in 1 .. Len(L) /\ M[p] = L[p - 1]
    BY <1>1, <1>2, <1>5
  <2>2. t = End \/ p - 1 <= t
    BY <1>1
  <2> QED
    BY <2>1, <2>2 DEF Covered
<1> QED
  BY <1>2, <1>3, <1>4, <1>5

LEMMA CoverInit == SearchInit => CoverInv
<1> SUFFICES ASSUME SearchInit PROVE CoverInv
  OBVIOUS
<1>1. client.token = 0 /\ req = Idle /\ 0 # End
  BY SearchAssumption DEF SearchInit, Traversal
<1>2. \A p \in 1 .. Len(listing) : ~(p <= 0)
  OBVIOUS
<1> QED
  BY <1>1, <1>2 DEF CoverInv, Covered

LEMMA CoverStartOver ==
  ASSUME NEW kind, NEW admin, StartOver(kind, admin)
  PROVE  CoverInv'
<1>1. client'.token = 0 /\ req' = Idle /\ 0 # End
  BY SearchAssumption DEF StartOver, Traversal
<1>2. \A p \in 1 .. Len(listing') : ~(p <= 0)
  OBVIOUS
<1> QED
  BY <1>1, <1>2 DEF CoverInv, Covered

LEMMA CoverSearch ==
  ASSUME FilterInv, CoverInv, Search
  PROVE  CoverInv'
<1> DEFINE p == MlflowPage(client.token)
           t == MlflowToken(client.token)
           D == steady \ Blocked
           X == ToSet(client.shown)
<1>1. client \in Clients /\ client.token # End /\ client.token \in Nat
      /\ listing \in Seq(Items) /\ MaxResults \in Nat
  BY ClientFields, SearchAssumption DEF FilterInv, WorldOK, Search
<1>2. PageOf(p, listing, client.token, MaxResults, Items)
  BY <1>1, SliceFacts DEF MlflowPage
<1>3. t = IF client.token + MaxResults >= Len(listing) THEN End ELSE client.token + MaxResults
  BY DEF MlflowToken, IsLastPage
<1> HIDE DEF p, t
<1>4. /\ req' # Idle /\ req'.pc # "fetched" /\ req'.page = p /\ req'.token = t
      /\ UNCHANGED <<listing, client, steady, removed>>
  BY DEF Search, Idle, world, p, t
<1>5. p \in Seq(Items) /\ Len(p) \in Nat
      /\ Len(p) = (IF Len(listing) <= client.token THEN 0
                   ELSE IF client.token + MaxResults <= Len(listing) THEN MaxResults
                   ELSE Len(listing) - client.token)
      /\ \A k \in 1 .. Len(p) : client.token + k \in 1 .. Len(listing) /\ p[k] = listing[client.token + k]
  BY <1>2 DEF PageOf
<1> SUFFICES ASSUME ~removed
             PROVE  Covered(client.token, X, listing, D) /\ Covered(t, X \cup ToSet(p), listing, D)
  BY <1>4 DEF CoverInv, RequestCovers
<1>6. Covered(client.token, X, listing, D)
  BY DEF CoverInv
<1> HIDE DEF X, D
<1>7. /\ \A k \in 0 .. Len(p) : Covered(client.token + k, X \cup FirstOnes(p, k), listing, D)
      /\ Len(listing) <= client.token + Len(p) => Covered(End, X \cup FirstOnes(p, Len(p)), listing, D)
  BY <1>1, <1>5, <1>6, StretchCovers
<1>8. FirstOnes(p, Len(p)) = ToSet(p)
  BY <1>5 DEF FirstOnes, ToSet
<1>9. Len(listing) \in Nat
  BY <1>1
<1> DEFINE n == Len(p)
           l == Len(listing)
           o == client.token
<1>10. n \in Nat /\ l \in Nat /\ o \in Nat /\ MaxResults \in Nat
       /\ n = (IF l <= o THEN 0 ELSE IF o + MaxResults <= l THEN MaxResults ELSE l - o)
  BY <1>1, <1>5, <1>9
<1>11. t = IF o + MaxResults >= l THEN End ELSE o + MaxResults
  BY <1>3
<1>12. /\ \A k \in 0 .. n : Covered(o + k, X \cup FirstOnes(p, k), listing, D)
       /\ l <= o + n => Covered(End, X \cup FirstOnes(p, n), listing, D)
  BY <1>7
<1>13. FirstOnes(p, n) = ToSet(p)
  BY <1>8
<1>14. Covered(t, X \cup ToSet(p), listing, D)
  <2> HIDE DEF n, l, o
  <2>1. CASE o + MaxResults >= l
    <3>1. l <= o + n /\ t = End
      BY <1>10, <1>11, <2>1
    <3> QED
      BY <1>12, <1>13, <3>1
  <2>2. CASE ~(o + MaxResults >= l)
    <3>1. n = MaxResults /\ n \in 0 .. n /\ t = o + n
      BY <1>10, <1>11, <2>2
    <3> QED
      BY <1>12, <1>13, <3>1
  <2> QED
    BY <2>1, <2>2
<1> QED
  BY <1>6, <1>14

(* What is steadily readable and in an accessible workspace is let through.*)
LEMMA SteadyPasses ==
  ASSUME FilterInv, req # Idle, NEW failed
  PROVE  steady \ Blocked \subseteq Pass(req, readable, failed)
<1>1. RequestOK(req, client, readable, seen, steady, lost) /\ steady \subseteq readable /\ readable \subseteq Items
  BY DEF FilterInv, WorldOK
<1> QED
  BY <1>1 DEF RequestOK, Pass

LEMMA CoverHandler ==
  ASSUME FilterInv, CoverInv, Handler
  PROVE  CoverInv'
<1> DEFINE D == steady \ Blocked
<1>0. req # Idle
  BY HandlerRuns
<1>1. UNCHANGED <<listing, steady, removed>>
  BY HandlerRuns DEF world, history
<1> SUFFICES ASSUME ~removed
             PROVE  /\ Covered(client'.token, ToSet(client'.shown), listing, D)
                    /\ req' # Idle => RequestCovers(req', client', listing, D)
  BY <1>1 DEF CoverInv
<1>2. /\ req \in SearchRequests /\ client \in Clients
      /\ listing \in Seq(Items) /\ client.token \in Nat
      /\ req.token = End \/ (req.token \in Nat /\ client.token <= req.token)
      /\ RequestOK(req, client, readable, seen, steady, lost)
  BY <1>0, RequestFacts
<1>3. Covered(client.token, ToSet(client.shown), listing, D) /\ RequestCovers(req, client, listing, D)
  BY <1>0 DEF CoverInv
<1>3a. \A failed : D \subseteq Pass(req, readable, failed)
  BY <1>0, SteadyPasses
<1> HIDE DEF D
<1>4. CASE FilterFirstPage
  <2>1. client' = client
    BY <1>4, FilterStep
  <2>2. PICK failed : Filters(req, req', readable, failed)
    BY <1>4, FilterStep
  <2>3. RequestCovers(req', client, listing, D)
    BY <1>2, <1>3, <1>3a, <2>2, FilterCovers
  <2> QED
    BY <1>3, <2>1, <2>3
<1>5. CASE FetchPage \/ FetchLoggedModels
  <2>1. /\ req.token \in Nat /\ client' = client /\ req.pc = "filling"
    BY <1>2, <1>5, FetchStep
  <2>2. CASE req' = [req EXCEPT !.token = End] /\ Len(listing) <= req.token
    <3>1. req'.token = End /\ req'.page = req.page /\ req'.pc = "filling"
      BY <1>2, <2>1, <2>2 DEF SearchRequests
    <3>2. \A p \in 1 .. Len(listing) : p <= req.token
      <4>1. Len(listing) \in Nat
        BY <1>2
      <4> QED
        BY <2>1, <2>2, <4>1
    <3>3. Covered(req.token, ToSet(client.shown) \cup ToSet(req.page), listing, D)
      BY <1>3 DEF RequestCovers
    <3>4. Covered(End, ToSet(client.shown) \cup ToSet(req.page), listing, D)
      BY <3>2, <3>3 DEF Covered
    <3> QED
      BY <1>3, <2>1, <3>1, <3>4 DEF RequestCovers
  <2>3. ASSUME NEW b, NEW last, Fetches(req, req', client, listing, b, last)
        PROVE  RequestCovers(req', client, listing, D)
    <3>1. client.kind = "offset" => ~req.last
      BY <1>2 DEF RequestOK
    <3> QED
      BY <1>2, <1>3, <2>1, <2>3, <3>1, FetchCovers
  <2>4. \/ req' = [req EXCEPT !.token = End] /\ Len(listing) <= req.token
        \/ \E b, last : Fetches(req, req', client, listing, b, last)
    BY <1>5, FetchStep
  <2> QED
    BY <1>3, <2>1, <2>2, <2>3, <2>4
<1>6. CASE AddReadable \/ AddLoggedModels
  <2>1. req.pc = "fetched" /\ client' = client
    BY <1>6, AddStep
  <2>2. PICK failed, used, kept, token : Adds(req, req', client, readable, failed, used, kept, token)
    BY <1>6, AddStep
  <2>3. RequestCovers(req', client, listing, D)
    BY <1>2, <1>3, <1>3a, <2>1, <2>2, AddCovers
  <2> QED
    BY <1>3, <2>1, <2>3
<1>7. CASE Respond
  <2>1. /\ client' = [client EXCEPT !.token = req.token, !.shown = client.shown \o req.page]
        /\ req' = Idle
    BY <1>7 DEF Respond
  <2>2. client'.token = req.token /\ client'.shown = client.shown \o req.page
    BY <1>2, <2>1 DEF Clients
  <2>3. client.shown \in Seq(Items) /\ req.page \in Seq(Items)
    BY <1>2, SearchRequestFields, ClientFields
  <2>4. ToSet(client'.shown) = ToSet(client.shown) \cup ToSet(req.page)
    BY <2>2, <2>3, ConcatFacts
  <2> QED
    BY <1>3, <2>1, <2>2, <2>4 DEF RequestCovers
<1>8. CASE Fail
  BY <1>3, <1>8 DEF Fail
<1> QED
  BY <1>4, <1>5, <1>6, <1>7, <1>8 DEF Handler, OffsetSearch, LoggedModelSearch

(* The request and the client stand still while the world changes.         *)
LEMMA CoverWorld ==
  ASSUME FilterInv, CoverInv, UNCHANGED <<client, req, removed>>, NEW D, steady' \ Blocked = D,
         D \subseteq steady \ Blocked,
         \A t, X : t \in Nat \cup {End} /\ Covered(t, X, listing, D) => Covered(t, X, listing', D)
  PROVE  CoverInv'
<1> DEFINE C == steady \ Blocked
<1> SUFFICES ASSUME ~removed
             PROVE  /\ Covered(client.token, ToSet(client.shown), listing', D)
                    /\ req # Idle => RequestCovers(req, client, listing', D)
  BY DEF CoverInv
<1>1. client.token \in Nat \cup {End}
  BY ClientFields DEF FilterInv
<1>2. \A t, X : t \in Nat \cup {End} /\ Covered(t, X, listing, C) => Covered(t, X, listing', D)
  <2>1. \A t, X : Covered(t, X, listing, C) => Covered(t, X, listing, D)
    BY DEF Covered
  <2> QED
    BY <2>1
<1>3. Covered(client.token, ToSet(client.shown), listing, C) /\ (req # Idle => RequestCovers(req, client, listing, C))
  BY DEF CoverInv
<1> HIDE DEF C
<1>4. ASSUME req # Idle
      PROVE  RequestCovers(req, client, listing', D)
  <2>1. req \in SearchRequests /\ RequestCovers(req, client, listing, C)
        /\ RequestOK(req, client, readable, seen, steady, lost)
    BY <1>3, <1>4, RequestFacts
  <2>2. Covered(req.token, ToSet(client.shown) \cup ToSet(req.page), listing', D)
    BY <1>2, <2>1, SearchRequestFields DEF RequestCovers
  <2>3. ASSUME req.pc = "fetched"
        PROVE  FetchedCovers(req, client, listing', D)
    <3>1. req.token \in Nat /\ req.batch \in Seq(Items)
      BY <2>1, <2>3, SearchRequestFields DEF RequestOK, FetchedOK
    <3>2. \A k \in 0 .. Len(req.batch) : req.token + k \in Nat
      BY <3>1
    <3>3. FetchedCovers(req, client, listing, C)
      BY <2>1, <2>3 DEF RequestCovers
    <3> QED
      BY <1>2, <3>2, <3>3 DEF FetchedCovers
  <2> QED
    BY <2>2, <2>3 DEF RequestCovers
<1> QED
  BY <1>1, <1>2, <1>3, <1>4

LEMMA CoverNext == FilterInv /\ CoverInv /\ [SearchNext]_searchVars => CoverInv'
<1> SUFFICES ASSUME FilterInv, CoverInv, [SearchNext]_searchVars PROVE CoverInv'
  OBVIOUS
<1>1. CASE UNCHANGED searchVars
  BY <1>1 DEF CoverInv, searchVars, history
<1>2. CASE Search
  BY <1>2, CoverSearch
<1>3. CASE \E kind \in Searches, admin \in BOOLEAN : StartOver(kind, admin)
  BY <1>3, CoverStartOver
<1>4. CASE Handler
  BY <1>4, CoverHandler
<1>5. ASSUME NEW i \in Items, NEW n \in 1 .. Len(listing) + 1, Create(i, n)
      PROVE  CoverInv'
  <2>1. UNCHANGED <<client, req, removed, steady>> /\ listing' = InsertAt(listing, n, i) /\ i \notin ToSet(listing)
    BY <1>5 DEF Create, Change
  <2>2. i \notin steady \ Blocked /\ listing \in Seq(Items)
    BY <2>1 DEF FilterInv, WorldOK
  <2>3. \A t, X : t \in Nat \cup {End} /\ Covered(t, X, listing, steady \ Blocked)
                   => Covered(t, X, listing', steady \ Blocked)
    BY <2>1, <2>2, InsertCovers
  <2> QED
    BY <2>1, <2>3, CoverWorld
<1>6. CASE \E i \in Items : Delete(i)
  BY <1>6 DEF Delete, CoverInv
<1>7. CASE \E i \in Items : Grant(i) \/ Revoke(i)
  <2>1. UNCHANGED <<client, req, removed, listing>> /\ steady' \subseteq steady
    BY <1>7 DEF Grant, Revoke, Change
  <2> QED
    BY <2>1, CoverWorld
<1> QED
  BY <1>1, <1>2, <1>3, <1>4, <1>5, <1>6, <1>7 DEF SearchNext

THEOREM NothingIsSkipped == SearchSpec => []NothingSkipped
<1>1. SearchSpec => [](FilterInv /\ CoverInv)
  BY FilterInvInit, FilterInvNext, CoverInit, CoverNext, PTL DEF SearchSpec
<1>2. FilterInv /\ CoverInv => NothingSkipped
  <2> SUFFICES ASSUME FilterInv, CoverInv, client.token = End, ~removed, NEW i \in steady \ Blocked
               PROVE  i \in ToSet(client.shown)
    BY DEF NothingSkipped
  <2>1. i \in ToSet(listing) /\ listing \in Seq(Items)
    BY DEF FilterInv, WorldOK
  <2>2. PICK p \in 1 .. Len(listing) : listing[p] = i
    BY <2>1 DEF ToSet
  <2> QED
    BY <2>2 DEF CoverInv, Covered
<1> QED
  BY <1>1, <1>2, PTL

(* The promise: how the pages lie in the listing.                          *)
UpTo(t, L) == IF t = End THEN Len(L) ELSE t

Stretch(L, o, u) == {L[p] : p \in o + 1 .. u}

InStretch(page, L, o, u, R) ==
  /\ ToSet(page) = Stretch(L, o, u) \cap R
  /\ \A m, n \in 1 .. Len(page) : m < n =>
       \E j, k \in o + 1 .. u : j < k /\ L[j] = page[m] /\ L[k] = page[n]

LEMMA InStretchSame ==
  ASSUME NEW page, NEW L, NEW o, NEW u, NEW R, NEW Q, InStretch(page, L, o, u, R),
         Stretch(L, o, u) \cap R = Stretch(L, o, u) \cap Q
  PROVE  InStretch(page, L, o, u, Q)
BY DEF InStretch

(* A stretch of the listing lies in itself.                                *)
LEMMA WholeStretch ==
  ASSUME NEW L \in Seq(Items), NEW b \in Seq(Items), NEW o \in Nat,
         \A k \in 1 .. Len(b) : o + k \in 1 .. Len(L) /\ b[k] = L[o + k]
  PROVE  ToSet(b) = Stretch(L, o, o + Len(b)) /\ InStretch(b, L, o, o + Len(b), Items)
<1>1. Len(b) \in Nat /\ DOMAIN b = 1 .. Len(b)
  OBVIOUS
<1>2. \A k \in 1 .. Len(b) : o + k \in o + 1 .. o + Len(b)
  BY <1>1
<1>3. \A p \in o + 1 .. o + Len(b) : p - o \in 1 .. Len(b) /\ o + (p - o) = p
  BY <1>1
<1>4. ToSet(b) = Stretch(L, o, o + Len(b))
  <2>1. \A x \in ToSet(b) : x \in Stretch(L, o, o + Len(b))
    BY <1>1, <1>2 DEF ToSet, Stretch
  <2>2. ASSUME NEW p \in o + 1 .. o + Len(b)
        PROVE  L[p] \in ToSet(b)
    <3>1. p - o \in 1 .. Len(b) /\ b[p - o] = L[o + (p - o)]
      BY <1>3
    <3> QED
      BY <1>1, <1>3, <3>1 DEF ToSet
  <2> QED
    BY <2>1, <2>2 DEF Stretch
<1>5. ToSet(b) \subseteq Items
  BY <1>1 DEF ToSet
<1>6. ASSUME NEW m \in 1 .. Len(b), NEW n \in 1 .. Len(b), m < n
      PROVE  \E j, k \in o + 1 .. o + Len(b) : j < k /\ L[j] = b[m] /\ L[k] = b[n]
  <2>1. o + m < o + n
    BY <1>1, <1>6
  <2>2. o + m \in o + 1 .. o + Len(b) /\ o + n \in o + 1 .. o + Len(b)
    BY <1>2
  <2> QED
    BY <2>1, <2>2
<1> QED
  BY <1>4, <1>5, <1>6 DEF InStretch

LEMMA KeptInStretch ==
  ASSUME NEW L, NEW page \in Seq(Items), NEW o, NEW u, NEW R, NEW K, InStretch(page, L, o, u, R)
  PROVE  InStretch(Keep(page, K), L, o, u, R \cap K)
<1> DEFINE kept == Keep(page, K)
<1>1. /\ kept \in Seq(Items) /\ ToSet(kept) = ToSet(page) \cap K
      /\ \E f : Places(kept, page, K, f)
  BY KeepFacts, KeepHasPlaces
<1> HIDE DEF kept
<1>2. PICK f : Places(kept, page, K, f)
  BY <1>1
<1>3. ASSUME NEW m \in 1 .. Len(kept), NEW n \in 1 .. Len(kept), m < n
      PROVE  \E j, k \in o + 1 .. u : j < k /\ L[j] = kept[m] /\ L[k] = kept[n]
  <2>1. f[m] \in 1 .. Len(page) /\ f[n] \in 1 .. Len(page) /\ f[m] < f[n]
        /\ kept[m] = page[f[m]] /\ kept[n] = page[f[n]]
    BY <1>2, <1>3 DEF Places
  <2> QED
    BY <2>1 DEF InStretch
<1> QED
  BY <1>1, <1>3 DEF InStretch, kept

LEMMA EachInStretch ==
  ASSUME NEW L, NEW page \in Seq(Items), NEW o, NEW u, NEW R, InStretch(page, L, o, u, R)
  PROVE  \A p \in 1 .. Len(page) : \E j \in o + 1 .. u : L[j] = page[p]
<1> SUFFICES ASSUME NEW p \in 1 .. Len(page) PROVE \E j \in o + 1 .. u : L[j] = page[p]
  OBVIOUS
<1>1. page[p] \in ToSet(page)
  BY DEF ToSet
<1>2. page[p] \in Stretch(L, o, u)
  BY <1>1 DEF InStretch
<1> QED
  BY <1>2 DEF Stretch

(* One stretch behind another.                                             *)
LEMMA StretchesJoin ==
  ASSUME NEW L \in Seq(Items), NEW page \in Seq(Items), NEW kept \in Seq(Items),
         NEW o \in Nat, NEW u \in Nat, NEW v \in Nat, o <= u, u <= v, NEW R,
         InStretch(page, L, o, u, R), InStretch(kept, L, u, v, R)
  PROVE  InStretch(page \o kept, L, o, v, R) /\ Stretch(L, o, v) = Stretch(L, o, u) \cup Stretch(L, u, v)
<1> DEFINE all == page \o kept
<1>1. all \in Seq(Items) /\ Len(all) = Len(page) + Len(kept) /\ ToSet(all) = ToSet(page) \cup ToSet(kept)
      /\ (\A p \in 1 .. Len(page) : all[p] = page[p])
      /\ (\A p \in 1 .. Len(kept) : all[Len(page) + p] = kept[p])
  BY ConcatFacts
<1> HIDE DEF all
<1>2. Len(page) \in Nat /\ Len(kept) \in Nat /\ DOMAIN page = 1 .. Len(page) /\ DOMAIN kept = 1 .. Len(kept)
  OBVIOUS
<1>3. /\ (\A p \in o + 1 .. u : p \in o + 1 .. v)
      /\ (\A p \in u + 1 .. v : p \in o + 1 .. v)
      /\ (\A p \in o + 1 .. v : p \in o + 1 .. u \/ p \in u + 1 .. v)
      /\ \A j \in o + 1 .. u, k \in u + 1 .. v : j < k
  OBVIOUS
<1>4. Stretch(L, o, v) = Stretch(L, o, u) \cup Stretch(L, u, v)
  BY <1>3 DEF Stretch
<1>5. ToSet(all) = Stretch(L, o, v) \cap R
  BY <1>1, <1>4 DEF InStretch
<1>6. \A p \in 1 .. Len(page) : \E j \in o + 1 .. u : L[j] = page[p]
  BY EachInStretch
<1>7. \A p \in 1 .. Len(kept) : \E j \in u + 1 .. v : L[j] = kept[p]
  BY EachInStretch
<1>0. \A m \in 1 .. Len(all) : m > Len(page) =>
        m - Len(page) \in 1 .. Len(kept) /\ Len(page) + (m - Len(page)) = m
  <2> DEFINE a == Len(all)
             x == Len(page)
             y == Len(kept)
  <2>1. a = x + y /\ x \in Nat /\ y \in Nat
    BY <1>1, <1>2
  <2> HIDE DEF a, x, y
  <2>2. \A m \in 1 .. a : m > x => m - x \in 1 .. y /\ x + (m - x) = m
    BY <2>1
  <2> QED
    BY <2>2 DEF a, x, y
<1>8. ASSUME NEW m \in 1 .. Len(all), NEW n \in 1 .. Len(all), m < n
      PROVE  \E j, k \in o + 1 .. v : j < k /\ L[j] = all[m] /\ L[k] = all[n]
  <2>1. CASE m \in 1 .. Len(page) /\ n \in 1 .. Len(page)
    <3>1. PICK j \in o + 1 .. u, k \in o + 1 .. u : j < k /\ L[j] = page[m] /\ L[k] = page[n]
      BY <1>8, <2>1 DEF InStretch
    <3> QED
      BY <1>1, <1>3, <2>1, <3>1
  <2>2. CASE m \in 1 .. Len(page) /\ n > Len(page)
    <3>1. n - Len(page) \in 1 .. Len(kept) /\ Len(page) + (n - Len(page)) = n
      BY <1>0, <2>2
    <3>2. all[n] = kept[n - Len(page)]
      BY <1>1, <3>1
    <3>3. PICK j \in o + 1 .. u : L[j] = page[m]
      BY <1>6, <2>2
    <3>4. PICK k \in u + 1 .. v : L[k] = kept[n - Len(page)]
      BY <1>7, <3>1
    <3> QED
      BY <1>1, <1>3, <2>2, <3>2, <3>3, <3>4
  <2>3. CASE m > Len(page)
    <3>1. m - Len(page) \in 1 .. Len(kept) /\ Len(page) + (m - Len(page)) = m
          /\ n - Len(page) \in 1 .. Len(kept) /\ Len(page) + (n - Len(page)) = n
          /\ m - Len(page) < n - Len(page)
      <4>1. n > Len(page) /\ m - Len(page) < n - Len(page)
        BY <1>2, <1>8, <2>3
      <4> QED
        BY <1>0, <2>3, <4>1
    <3>2. all[m] = kept[m - Len(page)] /\ all[n] = kept[n - Len(page)]
      BY <1>1, <3>1
    <3>3. PICK j \in u + 1 .. v, k \in u + 1 .. v :
            j < k /\ L[j] = kept[m - Len(page)] /\ L[k] = kept[n - Len(page)]
      BY <3>1 DEF InStretch
    <3> QED
      BY <1>3, <3>2, <3>3
  <2> QED
    BY <1>1, <1>2, <1>8, <2>1, <2>2, <2>3
<1> QED
  BY <1>4, <1>5, <1>8 DEF InStretch, all

(* Without repetitions, two stretches have no item in common.              *)
LEMMA StretchesApart ==
  ASSUME NEW L \in Seq(Items), IsInjective(L), NEW o \in Nat, NEW u \in Nat, NEW v \in Nat,
         v <= Len(L)
  PROVE  Stretch(L, o, u) \cap Stretch(L, u, v) = {}
<1>1. DOMAIN L = 1 .. Len(L) /\ Len(L) \in Nat
  OBVIOUS
<1>2. CASE u > v
  <2>1. \A p \in u + 1 .. v : FALSE
    BY <1>2
  <2> QED
    BY <2>1 DEF Stretch
<1>3. CASE u <= v
  <2>1. ASSUME NEW j \in o + 1 .. u, NEW k \in u + 1 .. v, L[j] = L[k]
        PROVE  FALSE
    <3>1. j \in 1 .. Len(L) /\ k \in 1 .. Len(L) /\ j # k
      BY <1>1, <1>3
    <3> QED
      BY <1>1, <2>1, <3>1 DEF IsInjective
  <2> QED
    BY <2>1 DEF Stretch
<1> QED
  BY <1>2, <1>3

Judged(rd, lo) == rd \ (Blocked \ lo)

(* The page is what passes of the stretch behind the client's token.       *)
RequestFaithful(q, c, L, rd, lo) ==
  LET o == c.token
      u == UpTo(q.token, L)
  IN  /\ u <= Len(L)
      /\ q.pc = "received" => q.asked = {} /\ q.granted = {} /\ lo = {}
      /\ q.pc \in {"filling", "fetched"} =>
           /\ q.asked = Stretch(L, o, u) /\ q.granted = q.asked \cap rd
           /\ lo \subseteq Stretch(L, o, u)
           /\ InStretch(q.page, L, o, u, Judged(rd, lo))
      /\ q.pc \in {"received", "filled"} =>
           /\ InStretch(q.page, L, o, u, Items) /\ ToSet(q.page) = Stretch(L, o, u)
           /\ Len(q.page) = MaxResults \/ q.token = End
      /\ q.pc = "fetched" =>
           /\ u + Len(q.batch) <= Len(L)
           /\ \A k \in 1 .. Len(q.batch) : u + k \in 1 .. Len(L) /\ q.batch[k] = L[u + k]
           /\ q.last => Len(L) <= u + Len(q.batch)

LEMMA FilterFaithful ==
  ASSUME NEW q \in SearchRequests, NEW r, NEW c \in Clients, NEW L \in Seq(Items),
         NEW rd \in SUBSET Items, NEW lo, NEW failed \in SUBSET (ToSet(q.page) \cap Blocked),
         q.pc = "received", RequestFaithful(q, c, L, rd, lo), Filters(q, r, rd, failed)
  PROVE  RequestFaithful(r, c, L, rd, lo \cup failed)
<1> DEFINE o == c.token
           u == UpTo(q.token, L)
           kept == Keep(q.page, Pass(q, rd, failed))
<1>1. /\ u <= Len(L) /\ q.asked = {} /\ q.granted = {} /\ lo = {}
      /\ InStretch(q.page, L, o, u, Items) /\ ToSet(q.page) = Stretch(L, o, u)
  BY DEF RequestFaithful
<1>2. Items \cap Pass(q, rd, failed) = Judged(rd, lo \cup failed)
  BY <1>1 DEF Pass, Judged
<1>3. InStretch(kept, L, o, u, Judged(rd, lo \cup failed))
  BY <1>1, <1>2, KeptInStretch, SearchRequestFields
<1> HIDE DEF kept, u
<1>4. /\ r.pc = "filling" /\ r.page = kept /\ r.token = q.token
      /\ r.asked = q.asked \cup ToSet(q.page)
      /\ r.granted = q.granted \cup ((ToSet(q.page) \ q.asked) \cap rd)
  BY DEF Filters, SearchRequests, kept
<1>5. UpTo(r.token, L) = u
  BY <1>4 DEF u
<1>6. r.asked = Stretch(L, o, u) /\ r.granted = r.asked \cap rd /\ lo \cup failed \subseteq Stretch(L, o, u)
  BY <1>1, <1>4
<1> QED
  BY <1>1, <1>3, <1>4, <1>5, <1>6 DEF RequestFaithful

LEMMA FetchFaithful ==
  ASSUME NEW q \in SearchRequests, NEW r, NEW c \in Clients, NEW L \in Seq(Items),
         NEW rd, NEW lo, NEW b, NEW last,
         q.pc = "filling", q.token \in Nat, c.kind = "offset" => ~q.last,
         RequestFaithful(q, c, L, rd, lo), Fetches(q, r, c, L, b, last)
  PROVE  RequestFaithful(r, c, L, rd, lo)
<1> DEFINE o == c.token
           u == q.token
<1>1. UpTo(q.token, L) = u
  BY SearchAssumption DEF UpTo
<1>2. /\ r = [q EXCEPT !.pc = "fetched", !.batch = b, !.last = last]
      /\ b \in Seq(Items)
      /\ \A k \in 1 .. Len(b) : u + k \in 1 .. Len(L) /\ b[k] = L[u + k]
  BY DEF Fetches
<1>3. /\ r.pc = "fetched" /\ r.page = q.page /\ r.token = q.token /\ r.batch = b /\ r.last = last
      /\ r.asked = q.asked /\ r.granted = q.granted
  BY <1>2 DEF SearchRequests
<1>4. /\ u <= Len(L) /\ q.asked = Stretch(L, o, u) /\ q.granted = q.asked \cap rd
      /\ lo \subseteq Stretch(L, o, u) /\ InStretch(q.page, L, o, u, Judged(rd, lo))
  BY <1>1 DEF RequestFaithful
<1>5. Len(b) \in Nat /\ Len(L) \in Nat /\ MaxResults \in Nat /\ u \in Nat
  BY <1>2, SearchAssumption
<1>6. u + Len(b) <= Len(L)
  <2>1. CASE Len(b) = 0
    BY <1>4, <1>5, <2>1
  <2>2. CASE Len(b) # 0
    <3>1. Len(b) \in 1 .. Len(b)
      BY <1>5, <2>2
    <3>2. u + Len(b) \in 1 .. Len(L)
      BY <1>2, <3>1
    <3> QED
      BY <1>5, <3>2
  <2> QED
    BY <2>1, <2>2
<1>7. ASSUME last
      PROVE  Len(L) <= u + Len(b)
  <2>1. c.kind = "logged"
    BY <1>7, ClientFields DEF Fetches
  <2>2. u + MaxResults >= Len(L) /\ PageOf(b, L, u, MaxResults, Items)
    BY <1>7, <2>1 DEF Fetches
  <2>3. Len(b) = IF Len(L) <= u THEN 0 ELSE IF u + MaxResults <= Len(L) THEN MaxResults ELSE Len(L) - u
    BY <2>2 DEF PageOf
  <2> HIDE DEF u
  <2> QED
    BY <1>5, <2>2, <2>3
<1>8. UpTo(r.token, L) = u
  BY <1>1, <1>3
<1> HIDE DEF u
<1> QED
  BY <1>2, <1>3, <1>4, <1>6, <1>7, <1>8 DEF RequestFaithful

LEMMA AddFaithful ==
  ASSUME NEW q \in SearchRequests, NEW r, NEW c \in Clients, NEW L \in Seq(Items), IsInjective(L),
         NEW rd \in SUBSET Items, NEW lo, NEW failed \in SUBSET Blocked,
         NEW used, NEW kept, NEW token,
         q.pc = "fetched", q.token \in Nat, c.token \in Nat, c.token <= q.token,
         RequestFaithful(q, c, L, rd, lo),
         Adds(q, r, c, rd, failed, used, kept, token)
  PROVE  RequestFaithful(r, c, L, rd, lo \cup (failed \cap ToSet(SubSeq(q.batch, 1, used))))
<1> DEFINE o == c.token
           u == q.token
           v == u + used
           taken == SubSeq(q.batch, 1, used)
           page == q.page \o kept
           T == ToSet(taken)
           lost2 == lo \cup (failed \cap T)
           S == Stretch(L, o, u)
           R == Judged(rd, lost2)
<1>1. q.page \in Seq(Items) /\ q.batch \in Seq(Items) /\ Len(L) \in Nat /\ o \in Nat /\ u \in Nat /\ o <= u
  BY SearchRequestFields
<1>2. UpTo(q.token, L) = u
  BY SearchAssumption DEF UpTo
<1>3. /\ u <= Len(L) /\ q.asked = S /\ q.granted = S \cap rd
      /\ lo \subseteq S /\ InStretch(q.page, L, o, u, Judged(rd, lo))
      /\ u + Len(q.batch) <= Len(L)
      /\ \A k \in 1 .. Len(q.batch) : u + k \in 1 .. Len(L) /\ q.batch[k] = L[u + k]
      /\ q.last => Len(L) <= u + Len(q.batch)
  BY <1>2 DEF RequestFaithful
<1>4. /\ used \in 0 .. Len(q.batch)
      /\ kept = Keep(taken, Pass(q, rd, failed))
      /\ token = u + used \/ (token = End /\ q.last /\ used = Len(q.batch))
  BY DEF Adds
<1>5. /\ r.pc = "filling" /\ r.page = page /\ r.token = token
      /\ r.asked = q.asked \cup T /\ r.granted = q.granted \cup ((T \ q.asked) \cap rd)
  BY DEF Adds, Took, SearchRequests
<1>6. taken \in Seq(Items) /\ Len(taken) = used
      /\ \A k \in 1 .. used : k \in 1 .. Len(q.batch) /\ taken[k] = q.batch[k]
  BY <1>1, <1>4, PrefixFacts
<1> HIDE DEF taken, S, R, page
<1>7. v \in Nat /\ u <= v /\ v <= Len(L) /\ used \in Nat
  BY <1>1, <1>3, <1>4
<1>8. T = Stretch(L, u, v) /\ InStretch(taken, L, u, v, Items)
  <2>1. \A k \in 1 .. Len(taken) : u + k \in 1 .. Len(L) /\ taken[k] = L[u + k]
    BY <1>3, <1>6
  <2>2. ToSet(taken) = Stretch(L, u, u + Len(taken)) /\ InStretch(taken, L, u, u + Len(taken), Items)
    BY <1>1, <1>6, <2>1, WholeStretch
  <2> QED
    BY <1>6, <2>2
<1>9. S \cap T = {}
  <2>1. Stretch(L, o, u) \cap Stretch(L, u, v) = {}
    BY <1>1, <1>7, StretchesApart
  <2> QED
    BY <1>8, <2>1 DEF S
<1>10. InStretch(kept, L, u, v, Items \cap Pass(q, rd, failed))
  BY <1>4, <1>6, <1>8, KeptInStretch
<1>11. T \cap (Items \cap Pass(q, rd, failed)) = T \cap R
  BY <1>3, <1>9 DEF Pass, Judged, R
<1>12. InStretch(kept, L, u, v, R)
  <2>1. Stretch(L, u, v) \cap (Items \cap Pass(q, rd, failed)) = Stretch(L, u, v) \cap R
    BY <1>8, <1>11
  <2> QED
    BY <1>10, <2>1, InStretchSame
<1>13. InStretch(q.page, L, o, u, R)
  <2>1. S \cap Judged(rd, lo) = S \cap R
    BY <1>9 DEF Judged, R
  <2>2. Stretch(L, o, u) \cap Judged(rd, lo) = Stretch(L, o, u) \cap R
    BY <2>1 DEF S
  <2> QED
    BY <1>3, <2>2, InStretchSame
<1>14. kept \in Seq(Items)
  BY <1>4, <1>6, KeepFacts
<1>15. InStretch(page, L, o, v, R) /\ Stretch(L, o, v) = S \cup T
  <2> HIDE DEF v, o, u, T
  <2>1. InStretch(q.page \o kept, L, o, v, R) /\ Stretch(L, o, v) = Stretch(L, o, u) \cup Stretch(L, u, v)
    <3> DEFINE p == q.page
    <3>1. /\ L \in Seq(Items) /\ p \in Seq(Items) /\ kept \in Seq(Items)
          /\ o \in Nat /\ u \in Nat /\ v \in Nat /\ o <= u /\ u <= v
          /\ InStretch(p, L, o, u, R) /\ InStretch(kept, L, u, v, R)
      BY <1>1, <1>7, <1>12, <1>13, <1>14
    <3> HIDE DEF p
    <3>2. InStretch(p \o kept, L, o, v, R) /\ Stretch(L, o, v) = Stretch(L, o, u) \cup Stretch(L, u, v)
      BY <3>1, StretchesJoin, SMTT(60)
    <3> QED
      BY <3>2 DEF p
  <2> QED
    BY <1>8, <2>1 DEF S, page
<1>16. UpTo(token, L) = v
  <2>1. CASE token = u + used
    BY <1>7, <2>1, SearchAssumption DEF UpTo
  <2>2. CASE token = End /\ q.last /\ used = Len(q.batch)
    <3>1. v = Len(L)
      BY <1>1, <1>3, <1>7, <2>2
    <3> QED
      BY <2>2, <3>1 DEF UpTo
  <2> QED
    BY <1>4, <2>1, <2>2
<1>17. UpTo(r.token, L) = v
  BY <1>5, <1>16
<1>18. r.asked = Stretch(L, o, v) /\ r.granted = r.asked \cap rd /\ lost2 \subseteq Stretch(L, o, v)
  BY <1>3, <1>5, <1>15
<1>19. RequestFaithful(r, c, L, rd, lost2)
  <2>1. InStretch(r.page, L, o, v, Judged(rd, lost2))
    BY <1>5, <1>15 DEF R
  <2>2. r.pc = "filling" /\ v <= Len(L)
    BY <1>5, <1>7
  <2> HIDE DEF v, lost2
  <2> QED
    BY <1>17, <1>18, <2>1, <2>2 DEF RequestFaithful
<1> QED
  BY <1>19 DEF taken

PromiseInv == changes = 0 => /\ UpTo(client.token, listing) <= Len(listing)
                             /\ req # Idle => RequestFaithful(req, client, listing, readable, lost)

LEMMA PromiseInit == SearchInit => PromiseInv
<1> SUFFICES ASSUME SearchInit PROVE PromiseInv
  OBVIOUS
<1>1. client.token = 0 /\ req = Idle /\ 0 # End /\ listing \in Seq(Items)
  BY SearchAssumption DEF SearchInit, Traversal
<1>2. 0 <= Len(listing)
  BY <1>1
<1> QED
  BY <1>1, <1>2 DEF PromiseInv, UpTo

LEMMA PromiseStartOver ==
  ASSUME FilterInv, NEW kind, NEW admin, StartOver(kind, admin)
  PROVE  PromiseInv'
<1>1. client'.token = 0 /\ req' = Idle /\ 0 # End /\ listing' \in Seq(Items)
  BY SearchAssumption DEF StartOver, Traversal, FilterInv, WorldOK, world
<1>2. 0 <= Len(listing')
  BY <1>1
<1> QED
  BY <1>1, <1>2 DEF PromiseInv, UpTo

LEMMA PromiseSearch ==
  ASSUME FilterInv, PromiseInv, Search
  PROVE  PromiseInv'
<1> DEFINE p == MlflowPage(client.token)
           t == MlflowToken(client.token)
           o == client.token
           u == UpTo(t, listing)
<1>1. client \in Clients /\ client.token # End /\ o \in Nat
      /\ listing \in Seq(Items) /\ MaxResults \in Nat \ {0} /\ Len(listing) \in Nat
  BY ClientFields, SearchAssumption DEF FilterInv, WorldOK, Search
<1>2. PageOf(p, listing, o, MaxResults, Items)
  BY <1>1, SliceFacts DEF MlflowPage
<1>3. t = IF o + MaxResults >= Len(listing) THEN End ELSE o + MaxResults
  BY DEF MlflowToken, IsLastPage
<1> HIDE DEF p, t
<1>4. /\ req'.pc \in {"received", "filled"} /\ req'.page = p /\ req'.token = t
      /\ req'.asked = {} /\ req'.granted = {} /\ lost' = {}
      /\ UNCHANGED <<listing, client, readable, changes>>
  BY DEF Search, world, p, t
<1> SUFFICES ASSUME changes = 0
             PROVE  UpTo(o, listing) <= Len(listing) /\ RequestFaithful(req', client, listing, readable, {})
  BY <1>4 DEF PromiseInv
<1>5. p \in Seq(Items) /\ Len(p) \in Nat
      /\ Len(p) = (IF Len(listing) <= o THEN 0
                   ELSE IF o + MaxResults <= Len(listing) THEN MaxResults
                   ELSE Len(listing) - o)
      /\ \A k \in 1 .. Len(p) : o + k \in 1 .. Len(listing) /\ p[k] = listing[o + k]
  BY <1>2 DEF PageOf
<1>6. o <= Len(listing) /\ UpTo(o, listing) <= Len(listing)
  BY <1>1 DEF PromiseInv, UpTo
<1>7. u = o + Len(p) /\ u <= Len(listing) /\ (Len(p) = MaxResults \/ t = End)
  <2> DEFINE n == Len(p)
             l == Len(listing)
  <2>1. n \in Nat /\ l \in Nat /\ o \in Nat /\ MaxResults \in Nat \ {0} /\ o <= l
        /\ n = (IF l <= o THEN 0 ELSE IF o + MaxResults <= l THEN MaxResults ELSE l - o)
    BY <1>1, <1>5, <1>6
  <2>2. t = IF o + MaxResults >= l THEN End ELSE o + MaxResults
    BY <1>3
  <2>3. u = IF t = End THEN l ELSE t
    BY DEF UpTo
  <2> HIDE DEF n, l, o, u
  <2>4. CASE o + MaxResults >= l
    <3>1. t = End /\ u = l
      BY <2>2, <2>3, <2>4
    <3>2. n = l - o
      BY <2>1, <2>4
    <3> QED
      BY <2>1, <3>1, <3>2 DEF n, l
  <2>5. CASE ~(o + MaxResults >= l)
    <3>1. n = MaxResults /\ t = o + MaxResults /\ o + MaxResults \in Nat /\ o + MaxResults <= l
      BY <2>1, <2>2, <2>5
    <3>2. u = o + MaxResults
      BY <2>3, <3>1, SearchAssumption
    <3> QED
      BY <3>1, <3>2 DEF n, l
  <2> QED
    BY <2>4, <2>5
<1>8. ToSet(p) = Stretch(listing, o, o + Len(p)) /\ InStretch(p, listing, o, o + Len(p), Items)
  BY <1>1, <1>5, WholeStretch
<1>9. UpTo(req'.token, listing) = u
  BY <1>4
<1> HIDE DEF u
<1>10. RequestFaithful(req', client, listing, readable, {})
  BY <1>4, <1>7, <1>8, <1>9 DEF RequestFaithful
<1> QED
  BY <1>6, <1>10

LEMMA PromiseHandler ==
  ASSUME FilterInv, PromiseInv, Handler
  PROVE  PromiseInv'
<1>0. req # Idle
  BY HandlerRuns
<1>1. UNCHANGED <<listing, readable, changes>>
  BY HandlerRuns DEF world
<1> SUFFICES ASSUME changes = 0
             PROVE  /\ UpTo(client'.token, listing) <= Len(listing)
                    /\ req' # Idle => RequestFaithful(req', client', listing, readable, lost')
  BY <1>1 DEF PromiseInv
<1>2. /\ req \in SearchRequests /\ client \in Clients
      /\ listing \in Seq(Items) /\ IsInjective(listing) /\ client.token \in Nat
      /\ req.token = End \/ (req.token \in Nat /\ client.token <= req.token)
      /\ RequestOK(req, client, readable, seen, steady, lost)
  BY <1>0, RequestFacts
<1>3. UpTo(client.token, listing) <= Len(listing) /\ RequestFaithful(req, client, listing, readable, lost)
  BY <1>0 DEF PromiseInv
<1>3a. readable \in SUBSET Items
  BY DEF FilterInv, WorldOK
<1>4. CASE FilterFirstPage
  <2>1. client' = client /\ req.pc = "received"
    BY <1>4, FilterStep
  <2>2. PICK failed \in SUBSET (ToSet(req.page) \cap Blocked) :
          lost' = lost \cup failed /\ Filters(req, req', readable, failed)
    BY <1>4, FilterStep
  <2>3. RequestFaithful(req', client, listing, readable, lost \cup failed)
    BY <1>2, <1>3, <1>3a, <2>1, <2>2, FilterFaithful
  <2> QED
    BY <1>3, <2>1, <2>2, <2>3
<1>5. CASE FetchPage \/ FetchLoggedModels
  <2>1. req.token \in Nat /\ client' = client /\ lost' = lost /\ req.pc = "filling"
    BY <1>2, <1>5, FetchStep
  <2>2. CASE req' = [req EXCEPT !.token = End] /\ Len(listing) <= req.token
    <3>1. /\ req'.token = End /\ req'.page = req.page /\ req'.pc = "filling"
          /\ req'.asked = req.asked /\ req'.granted = req.granted
      BY <1>2, <2>1, <2>2 DEF SearchRequests
    <3>2. UpTo(req'.token, listing) = UpTo(req.token, listing)
      <4>1. UpTo(req.token, listing) = req.token /\ UpTo(req'.token, listing) = Len(listing)
        BY <2>1, <3>1, SearchAssumption DEF UpTo
      <4>2. req.token <= Len(listing) /\ Len(listing) \in Nat
        BY <1>2, <1>3, <4>1 DEF RequestFaithful
      <4>3. req.token = Len(listing)
        BY <2>1, <2>2, <4>2
      <4> QED
        BY <4>1, <4>3
    <3>3. RequestFaithful(req', client, listing, readable, lost)
      BY <1>3, <2>1, <3>1, <3>2 DEF RequestFaithful
    <3> QED
      BY <1>3, <2>1, <3>3
  <2>3. ASSUME NEW b, NEW last, Fetches(req, req', client, listing, b, last)
        PROVE  RequestFaithful(req', client, listing, readable, lost)
    <3>1. client.kind = "offset" => ~req.last
      BY <1>2 DEF RequestOK
    <3> QED
      BY <1>2, <1>3, <2>1, <2>3, <3>1, FetchFaithful
  <2>4. \/ req' = [req EXCEPT !.token = End] /\ Len(listing) <= req.token
        \/ \E b, last : Fetches(req, req', client, listing, b, last)
    BY <1>5, FetchStep
  <2> QED
    BY <1>3, <2>1, <2>2, <2>3, <2>4
<1>6. CASE AddReadable \/ AddLoggedModels
  <2>1. req.pc = "fetched" /\ client' = client
    BY <1>6, AddStep
  <2>2. PICK failed \in SUBSET (ToSet(req.batch) \cap Blocked) : \E used, kept, token :
              /\ Adds(req, req', client, readable, failed, used, kept, token)
              /\ lost' = lost \cup (failed \cap ToSet(SubSeq(req.batch, 1, used)))
    BY <1>6, AddStep
  <2>3. PICK used, kept, token :
              /\ Adds(req, req', client, readable, failed, used, kept, token)
              /\ lost' = lost \cup (failed \cap ToSet(SubSeq(req.batch, 1, used)))
    BY <2>2
  <2>4. req.token \in Nat /\ client.token <= req.token
    BY <1>2, <2>1 DEF RequestOK, FetchedOK
  <2>5. failed \in SUBSET Blocked
    BY <2>2
  <2>6. RequestFaithful(req', client, listing, readable,
                        lost \cup (failed \cap ToSet(SubSeq(req.batch, 1, used))))
    BY <1>2, <1>3, <1>3a, <2>1, <2>3, <2>4, <2>5, AddFaithful
  <2> QED
    BY <1>3, <2>1, <2>3, <2>6
<1>7. CASE Respond
  <2>1. client'.token = req.token /\ req' = Idle
    BY <1>2, <1>7 DEF Respond, Clients
  <2> QED
    BY <1>3, <2>1 DEF RequestFaithful
<1>8. CASE Fail
  BY <1>3, <1>8 DEF Fail
<1> QED
  BY <1>4, <1>5, <1>6, <1>7, <1>8 DEF Handler, OffsetSearch, LoggedModelSearch

LEMMA PromiseInvNext == FilterInv /\ PromiseInv /\ [SearchNext]_searchVars => PromiseInv'
<1> SUFFICES ASSUME FilterInv, PromiseInv, [SearchNext]_searchVars PROVE PromiseInv'
  OBVIOUS
<1>1. CASE UNCHANGED searchVars
  BY <1>1 DEF PromiseInv, searchVars, history
<1>2. CASE Search
  BY <1>2, PromiseSearch
<1>3. CASE \E kind \in Searches, admin \in BOOLEAN : StartOver(kind, admin)
  BY <1>3, PromiseStartOver
<1>4. CASE Handler
  BY <1>4, PromiseHandler
<1>5. ASSUME Change
      PROVE  PromiseInv'
  <2>1. changes' # 0
    BY <1>5 DEF Change, FilterInv, WorldOK
  <2> QED
    BY <2>1 DEF PromiseInv
<1>6. CASE \/ \E i \in Items, n \in 1 .. Len(listing) + 1 : Create(i, n)
           \/ \E i \in Items : Delete(i) \/ Grant(i) \/ Revoke(i)
  BY <1>5, <1>6 DEF Create, Delete, Grant, Revoke
<1> QED
  BY <1>1, <1>2, <1>3, <1>4, <1>6 DEF SearchNext

LEMMA TailOfConcat ==
  ASSUME NEW S, NEW s \in Seq(S), NEW t \in Seq(S)
  PROVE  SubSeq(s \o t, Len(s) + 1, Len(s \o t)) = t
<1> DEFINE u == s \o t
           w == SubSeq(u, Len(s) + 1, Len(u))
<1>1. u \in Seq(S) /\ Len(u) = Len(s) + Len(t) /\ Len(s) \in Nat /\ Len(t) \in Nat
      /\ \A p \in 1 .. Len(t) : u[Len(s) + p] = t[p]
  BY ConcatFacts
<1> HIDE DEF u
<1>2. \A p \in Len(s) + 1 .. Len(u) : u[p] \in S
  BY <1>1
<1>3. /\ w \in Seq(S)
      /\ Len(w) = IF Len(s) + 1 <= Len(u) THEN Len(u) - (Len(s) + 1) + 1 ELSE 0
      /\ \A p \in 1 .. Len(u) - (Len(s) + 1) + 1 : w[p] = u[Len(s) + 1 + p - 1]
  BY <1>1, <1>2, SubSeqProperties
<1> HIDE DEF w
<1>4. Len(w) = Len(t) /\ Len(u) - (Len(s) + 1) + 1 = Len(t)
      /\ \A p \in 1 .. Len(t) : Len(s) + 1 + p - 1 = Len(s) + p
  BY <1>1, <1>3
<1>5. \A p \in 1 .. Len(t) : w[p] = t[p]
  BY <1>1, <1>3, <1>4
<1>6. w = t
  BY <1>3, <1>4, <1>5, SeqEqual
<1> QED
  BY <1>6 DEF w, u

LEMMA SubSeqStretch ==
  ASSUME NEW L \in Seq(Items), NEW o \in Nat, NEW u \in Nat, u <= Len(L),
         NEW page \in Seq(Items), NEW R,
         InStretch(page, L, o, u, R)
  PROVE  LET passed == SubSeq(L, o + 1, u)
         IN  ToSet(page) = ToSet(passed) \cap R /\ Promise!InOrder(page, passed)
<1> DEFINE w == SubSeq(L, o + 1, u)
<1>1. \A p \in o + 1 .. u : L[p] \in Items
  <2>1. \A p \in o + 1 .. u : p \in 1 .. Len(L)
    OBVIOUS
  <2> QED
    BY <2>1
<1>2. /\ w \in Seq(Items) /\ Len(w) = (IF o + 1 <= u THEN u - (o + 1) + 1 ELSE 0)
      /\ \A p \in 1 .. u - (o + 1) + 1 : w[p] = L[o + 1 + p - 1]
  BY <1>1, SubSeqProperties
<1> HIDE DEF w
<1>3. DOMAIN w = 1 .. Len(w)
  BY <1>2
<1>4. \A p \in 1 .. Len(w) : o + p \in o + 1 .. u /\ w[p] = L[o + p]
  <2> SUFFICES ASSUME NEW p \in 1 .. Len(w) PROVE o + p \in o + 1 .. u /\ w[p] = L[o + p]
    OBVIOUS
  <2>1. p \in 1 .. u - (o + 1) + 1 /\ o + 1 + p - 1 = o + p /\ o + p \in o + 1 .. u
    BY <1>2
  <2> QED
    BY <1>2, <2>1
<1>5. \A p \in o + 1 .. u : p - o \in 1 .. Len(w) /\ o + (p - o) = p
  BY <1>2
<1>6. \A p \in o + 1 .. u : w[p - o] = L[p]
  BY <1>4, <1>5
<1>7. ToSet(w) = Stretch(L, o, u)
  <2>1. \A x \in ToSet(w) : x \in Stretch(L, o, u)
    BY <1>3, <1>4 DEF ToSet, Stretch
  <2>2. \A p \in o + 1 .. u : L[p] \in ToSet(w)
    BY <1>3, <1>5, <1>6 DEF ToSet
  <2> QED
    BY <2>1, <2>2 DEF Stretch
<1>8. ToSet(page) = ToSet(w) \cap R
  BY <1>7 DEF InStretch
<1>9. Promise!InOrder(page, w)
  <2>1. \A m, n \in 1 .. Len(page) : m < n =>
          \E j, k \in DOMAIN w : j < k /\ w[j] = page[m] /\ w[k] = page[n]
    <3> SUFFICES ASSUME NEW m \in 1 .. Len(page), NEW n \in 1 .. Len(page), m < n
                 PROVE  \E j, k \in DOMAIN w : j < k /\ w[j] = page[m] /\ w[k] = page[n]
      OBVIOUS
    <3>1. PICK j \in o + 1 .. u, k \in o + 1 .. u : j < k /\ L[j] = page[m] /\ L[k] = page[n]
      BY DEF InStretch
    <3>2. j - o < k - o
      BY <3>1
    <3> QED
      BY <1>3, <1>5, <1>6, <3>1, <3>2
  <2> QED
    BY <2>1 DEF Promise!InOrder
<1> QED
  BY <1>8, <1>9 DEF w

LEMMA PromiseStarts == SearchInit => Promise!Init
<1> SUFFICES ASSUME SearchInit PROVE Promise!Init
  OBVIOUS
<1>1. client.token = 0 /\ client.shown = <<>> /\ 0 # End /\ changes = 0
  BY SearchAssumption DEF SearchInit, Traversal
<1> QED
  BY <1>1 DEF Promise!Init

LEMMA RespondIsAPage ==
  ASSUME FilterInv, PromiseInv, changes = 0, Respond
  PROVE  \E c \in (IF client.token = End THEN Len(listing) ELSE client.token) .. Len(listing) :
           Promise!Page(c)
<1> DEFINE o == client.token
           u == UpTo(req.token, listing)
           R == IF client.admin THEN Items ELSE readable \ (Blocked \ lost)
<1>1. req # Idle /\ (req.pc = "filled" \/ (req.pc = "filling" /\ Filled)) /\ UNCHANGED <<world, lost>>
      /\ client' = [client EXCEPT !.token = req.token, !.shown = client.shown \o req.page]
  BY DEF Respond, Idle
<1>2. /\ req \in SearchRequests /\ client \in Clients
      /\ listing \in Seq(Items) /\ o \in Nat /\ MaxResults \in Nat /\ Len(listing) \in Nat
      /\ req.token = End \/ (req.token \in Nat /\ o <= req.token)
      /\ RequestOK(req, client, readable, seen, steady, lost)
  BY <1>1, RequestFacts
<1>3. /\ UpTo(o, listing) <= Len(listing)
      /\ RequestFaithful(req, client, listing, readable, lost)
  BY <1>1 DEF PromiseInv
<1>4. o # End /\ UpTo(o, listing) = o
  BY <1>2, SearchAssumption DEF UpTo
<1>5. u \in Nat /\ o <= u /\ u <= Len(listing)
  <2>1. u <= Len(listing)
    BY <1>3 DEF RequestFaithful
  <2>2. u \in Nat /\ o <= u
    BY <1>2, <1>3, <1>4, SearchAssumption DEF UpTo
  <2> QED
    BY <2>1, <2>2
<1>6. req.page \in Seq(Items) /\ Len(req.page) <= MaxResults /\ client.shown \in Seq(Items)
      /\ Len(req.page) \in Nat
  BY <1>2, SearchRequestFields, ClientFields DEF RequestOK
<1>7. req.pc = "filled" <=> client.admin
  BY <1>2 DEF RequestOK
<1>8. InStretch(req.page, listing, o, u, R)
  <2>1. CASE req.pc = "filled"
    BY <1>3, <1>7, <2>1 DEF RequestFaithful
  <2>2. CASE req.pc = "filling"
    <3>1. InStretch(req.page, listing, o, u, Judged(readable, lost))
      BY <1>3, <2>2 DEF RequestFaithful
    <3>2. R = Judged(readable, lost)
      BY <1>7, <2>2 DEF Judged
    <3> QED
      BY <3>1, <3>2
  <2> QED
    BY <1>1, <2>1, <2>2
<1>9. Len(req.page) = MaxResults \/ u = Len(listing)
  <2>1. CASE req.pc = "filled"
    BY <1>3, <2>1 DEF RequestFaithful, UpTo
  <2>2. CASE Filled
    BY <1>2, <1>6, <2>2 DEF Filled, UpTo
  <2> QED
    BY <1>1, <2>1, <2>2
<1> DEFINE passed == SubSeq(listing, o + 1, u)
           new == SubSeq(client.shown \o req.page, Len(client.shown) + 1, Len(client.shown \o req.page))
<1>10. new = req.page
  BY <1>6, TailOfConcat
<1>11. ToSet(req.page) = ToSet(passed) \cap R /\ Promise!InOrder(req.page, passed)
  BY <1>2, <1>5, <1>6, <1>8, SubSeqStretch
<1>12. /\ client'.token = req.token /\ client'.shown = client.shown \o req.page
       /\ client'.admin = client.admin
       /\ UNCHANGED <<listing, readable, changes, lost>>
  BY <1>1, <1>2 DEF Clients, world
<1>13. (IF client'.token = End THEN Len(listing') ELSE client'.token) = u
  BY <1>12 DEF UpTo
<1>14. (IF client.token = End THEN Len(listing) ELSE client.token) = o
  BY <1>4
<1>15. u \in o .. Len(listing)
  BY <1>2, <1>5
<1>16. (IF client'.admin THEN Items ELSE readable' \ (Blocked \ lost')) = R
       /\ (changes' > 0) = (changes > 0) /\ listing' = listing
  BY <1>12
<1>17. \A s : Promise!ToSet(s) = ToSet(s)
  BY DEF Promise!ToSet, ToSet
<1>18. SubSeq(client'.shown, Len(client.shown) + 1, Len(client'.shown)) = req.page
  BY <1>10, <1>12
<1>19. Promise!ToSet(req.page) = Promise!ToSet(passed) \cap R
  BY <1>11, <1>17
<1> HIDE DEF u
<1>20. Promise!Page(u)
  <2>1. /\ Promise!ToSet(req.page)
             = Promise!ToSet(SubSeq(listing, (IF client.token = End THEN Len(listing) ELSE client.token) + 1, u))
                 \cap (IF client.admin THEN Items ELSE readable \ (Blocked \ lost))
        /\ Promise!InOrder(req.page,
                  SubSeq(listing, (IF client.token = End THEN Len(listing) ELSE client.token) + 1, u))
    BY <1>11, <1>14, <1>19
  <2>2. u \in (IF client.token = End THEN Len(listing) ELSE client.token) .. Len(listing)
    BY <1>14, <1>15
  <2>3. UNCHANGED <<IF client.admin THEN Items ELSE readable \ (Blocked \ lost), listing, changes > 0>>
    BY <1>12
  <2> QED
    BY <1>6, <1>9, <1>12, <1>13, <1>18, <2>1, <2>2, <2>3 DEF Promise!Page
<1> QED
  BY <1>14, <1>15, <1>20

LEMMA PromiseSteps ==
  ASSUME FilterInv, PromiseInv, [SearchNext]_searchVars
  PROVE  \/ Promise!Next
         \/ UNCHANGED <<IF client.admin THEN Items ELSE readable \ (Blocked \ lost), listing,
                        IF client.token = End THEN Len(listing) ELSE client.token,
                        client.shown, changes > 0>>
<1>0. changes \in Nat
  BY DEF FilterInv, WorldOK
<1>1. ASSUME changes' > 0
      PROVE  Promise!Next
  BY <1>1 DEF Promise!Next, Promise!Disturbed
<1>2. ASSUME UNCHANGED <<listing, client, changes>>
      PROVE  Promise!Next
  BY <1>2 DEF Promise!Next, Promise!Judge
<1>3. CASE UNCHANGED searchVars
  BY <1>2, <1>3 DEF searchVars
<1>4. CASE Search
  BY <1>2, <1>4 DEF Search, world
<1>5. ASSUME NEW kind, NEW admin, StartOver(kind, admin)
      PROVE  Promise!Next
  <2>1. client'.token = 0 /\ client'.shown = <<>> /\ UNCHANGED <<listing, changes>> /\ 0 # End
    BY <1>5, SearchAssumption DEF StartOver, Traversal, world
  <2> QED
    BY <2>1 DEF Promise!Next, Promise!Restart
<1>6. CASE Handler /\ changes = 0
  <2>1. UNCHANGED <<listing, changes>>
    BY <1>6, HandlerRuns DEF world
  <2>2. CASE Respond
    BY <1>6, <2>2, RespondIsAPage DEF Promise!Next
  <2>3. CASE ~Respond
    <3>1. client' = client
      BY <1>6, <2>3, FilterStep, FetchStep, AddStep DEF Handler, OffsetSearch, LoggedModelSearch, Fail
    <3> QED
      BY <1>2, <2>1, <3>1
  <2> QED
    BY <2>2, <2>3
<1>7. CASE Handler /\ changes # 0
  <2>1. changes' > 0
    BY <1>0, <1>7, HandlerRuns DEF world
  <2> QED
    BY <1>1, <2>1
<1>8. ASSUME Change
      PROVE  Promise!Next
  <2>1. changes' > 0
    BY <1>0, <1>8 DEF Change
  <2> QED
    BY <1>1, <2>1
<1>9. CASE \/ \E i \in Items, n \in 1 .. Len(listing) + 1 : Create(i, n)
           \/ \E i \in Items : Delete(i) \/ Grant(i) \/ Revoke(i)
  BY <1>8, <1>9 DEF Create, Delete, Grant, Revoke
<1> QED
  BY <1>3, <1>4, <1>5, <1>6, <1>7, <1>9 DEF SearchNext

THEOREM SearchKeepsPromise == SearchSpec => KeepsPromise
<1>1. FilterInv /\ PromiseInv /\ [SearchNext]_searchVars
        => [Promise!Next]_<<IF client.admin THEN Items ELSE readable \ (Blocked \ lost), listing,
                            IF client.token = End THEN Len(listing) ELSE client.token,
                            client.shown, changes > 0>>
  BY PromiseSteps
<1>2. SearchSpec => [](FilterInv /\ PromiseInv)
  BY FilterInvInit, FilterInvNext, PromiseInit, PromiseInvNext, PTL DEF SearchSpec
<1> QED
  BY <1>1, <1>2, PromiseStarts, PTL DEF SearchSpec, KeepsPromise, Promise!Spec
=============================================================================
