-------------------------- MODULE CincinnatiProofs --------------------------
(***************************************************************************)
(* What holds of the update checks for all graphs: types, the answer of a  *)
(* check, the record of dead-ends, and that a node does not go back.       *)
(***************************************************************************)
EXTENDS Cincinnati, FiniteSets, FiniteSetTheorems, WellFoundedInduction, TLAPS

USE DEF agentVars, hostVars, boundVars

ReleaseRecords == [payload : Payloads, age : Nat]

-----------------------------------------------------------------------------
(* Order.                                                                   *)

(* A set of natural numbers that is not empty has a least element.          *)
LEMMA LeastNatural ==
  ASSUME NEW C \in SUBSET Nat, C # {}
  PROVE  \E n \in C : \A m \in C : n <= m
<1> DEFINE R == OpToRel(<, Nat)
<1>1. IsWellFoundedOn(R, Nat)
  BY NatLessThanWellFounded
<1>2. PICK n \in C : \A m \in C : ~(<<m, n>> \in R)
  <2> HIDE DEF R
  <2> QED
    BY <1>1, WFMin
<1>3. ASSUME NEW m \in C, m < n
      PROVE  <<m, n>> \in R
  BY <1>3 DEF OpToRel
<1>4. \A m \in C : m \in Nat /\ n \in Nat
  OBVIOUS
<1>5. \A m \in C : ~(m < n)
  BY <1>2, <1>3
<1> HIDE DEF R
<1> QED
  BY <1>4, <1>5

(* The order of releases is transitive, irreflexive and, up to equality,    *)
(* total.                                                                   *)
LEMMA BeforeIsOrder ==
  /\ \A r, s, t \in ReleaseRecords : Before(r, s) /\ Before(s, t) => Before(r, t)
  /\ \A r \in ReleaseRecords : ~Before(r, r)
  /\ \A r, s \in ReleaseRecords : Before(r, s) \/ Before(s, r) \/ r = s
<1>1. \A r \in ReleaseRecords : r.age \in Nat /\ r.payload \in Nat
  BY PayloadsAssumption DEF ReleaseRecords
<1>2. ASSUME NEW r \in ReleaseRecords, NEW s \in ReleaseRecords,
             NEW t \in ReleaseRecords, Before(r, s), Before(s, t)
      PROVE  Before(r, t)
  BY <1>1, <1>2 DEF Before
<1>3. \A r \in ReleaseRecords : ~Before(r, r)
  BY <1>1 DEF Before
<1>4. ASSUME NEW r \in ReleaseRecords, NEW s \in ReleaseRecords,
             ~Before(r, s), ~Before(s, r)
      PROVE  r = s
  <2>1. r.age = s.age /\ r.payload = s.payload
    BY <1>1, <1>4 DEF Before
  <2> QED
    BY <2>1 DEF ReleaseRecords
<1> QED
  BY <1>2, <1>3, <1>4

(* Of finitely many releases, one is not older than any other: the one with *)
(* the fewest newer releases.                                               *)
LEMMA NewestExists ==
  ASSUME NEW T, IsFiniteSet(T), T # {}, NEW R \in [T -> ReleaseRecords]
  PROVE  \E t \in T : \A s \in T : ~Before(R[t], R[s])
<1> DEFINE Newer(t) == {s \in T : Before(R[t], R[s])}
           Counts == {Cardinality(Newer(t)) : t \in T}
<1>1. \A t \in T : IsFiniteSet(Newer(t)) /\ Cardinality(Newer(t)) \in Nat
  BY FS_Subset, FS_CardinalityType
<1>2. Counts \in SUBSET Nat /\ Counts # {}
  BY <1>1
<1>3. PICK n \in Counts : \A m \in Counts : n <= m
  <2> HIDE DEF Counts
  <2> QED
    BY <1>2, LeastNatural
<1>4. PICK t \in T : n = Cardinality(Newer(t))
  BY <1>3
<1>5. SUFFICES ASSUME NEW s \in T, Before(R[t], R[s])
               PROVE  FALSE
  BY <1>4
<1>6. Newer(s) \subseteq Newer(t) /\ s \in Newer(t) /\ s \notin Newer(s)
  BY <1>5, BeforeIsOrder
<1>7. Cardinality(Newer(s)) <= Cardinality(Newer(t))
       /\ Cardinality(Newer(t)) # Cardinality(Newer(s))
  <2> HIDE DEF Newer
  <2> QED
    BY <1>1, <1>6, FS_Subset
<1>8. Cardinality(Newer(s)) \in Counts
  OBVIOUS
<1> HIDE DEF Newer, Counts
<1>9. n <= Cardinality(Newer(s))
  BY <1>3, <1>8
<1> QED
  BY <1>1, <1>4, <1>7, <1>9

-----------------------------------------------------------------------------
(* Graphs.                                                                  *)

(* Nodes have their type, and their positions are finitely many.            *)
LEMMA NodesType ==
  ASSUME NEW g \in Graphs
  PROVE  /\ Positions(g) \subseteq Nat /\ IsFiniteSet(Positions(g))
         /\ \A p \in Positions(g) : NodeAt(g, p) \in Nodes
         /\ \A p \in Positions(g) : FromCincinnati(NodeAt(g, p)) \in ReleaseRecords
<1>1. Len(g.nodes) \in Nat /\ g.nodes \in Seq(Nodes)
  BY GraphsAssumption
<1>2. Positions(g) \subseteq Nat /\ IsFiniteSet(Positions(g))
  <2>1. IsFiniteSet(0 .. Len(g.nodes) - 1)
    BY <1>1, FS_Interval
  <2> QED
    BY <1>1, <2>1 DEF Positions
<1>3. \A p \in Positions(g) : NodeAt(g, p) \in Nodes
  BY <1>1 DEF Positions, NodeAt
<1> QED
  BY <1>2, <1>3 DEF Nodes, FromCincinnati, ReleaseRecords

(* The position of the booted release is one if there is any.               *)
LEMMA CurPositionType ==
  ASSUME NEW g \in Graphs, BootedPositions(g) # {}
  PROVE  /\ CurPosition(g) \in Positions(g)
         /\ CurNode(g) \in Nodes /\ CurNode(g).payload = booted
<1>1. BootedPositions(g) \in SUBSET Nat
  BY NodesType DEF BootedPositions
<1>2. \E p \in BootedPositions(g) : \A q \in BootedPositions(g) : p <= q
  BY <1>1, LeastNatural
<1>3. CurPosition(g) \in BootedPositions(g)
  BY <1>2 DEF CurPosition
<1> QED
  BY <1>3, NodesType DEF BootedPositions, CurNode, IsSameChecksum

-----------------------------------------------------------------------------
(* Types.                                                                   *)

(* Whatever the graph, a check answers at most one release, a target.       *)
LEMMA FindUpdateType ==
  ASSUME NEW g \in Graphs
  PROVE  /\ FindUpdate(g) \subseteq ReleaseRecords
         /\ \A r, s \in FindUpdate(g) : r = s
<1>1. CASE Malformed(g)
  BY <1>1 DEF FindUpdate
<1>2. CASE ~Malformed(g)
  <2>1. \A t \in Targets(g) : FromCincinnati(NodeAt(g, t)) \in ReleaseRecords
    BY <1>2, NodesType DEF Malformed
  <2> QED
    BY <1>2, <2>1, BeforeIsOrder DEF FindUpdate
<1> QED
  BY <1>1, <1>2

(* The types hold initially.                                                *)
LEMMA TypeInitially == Init => TypeOK
BY BoundsAssumption DEF Init, TypeOK

(* Every step keeps the types.                                              *)
LEMMA TypeStep == TypeOK /\ [Next]_vars => TypeOK'
<1> SUFFICES ASSUME TypeOK, [Next]_vars
             PROVE  TypeOK'
  OBVIOUS
<1> USE DEF TypeOK
<1>0. CASE UNCHANGED vars
  BY <1>0 DEF vars, BootedPositions, CurNode, CurPosition, Parses, NodeAt,
              Positions, IsSameChecksum
<1>1. CASE PublishGraph
  BY <1>1, BoundsAssumption DEF PublishGraph, BootedPositions, CurNode,
     CurPosition, Parses, NodeAt, Positions, IsSameChecksum
<1>2. ASSUME NEW ok \in BOOLEAN, StartAgent(ok)
      PROVE  TypeOK'
  BY <1>2 DEF StartAgent
<1>3. CASE FetchFails
  BY <1>0, <1>3 DEF FetchFails
<1>4. CASE FetchGraph
  BY <1>4 DEF FetchGraph, BootedPositions, CurNode, CurPosition, Parses, NodeAt,
              Positions, IsSameChecksum
<1>5. CASE StateIsKnown \/ HelperFails \/ RefreshDeadend
  <2>1. pc = "refresh" /\ pc' = "find"
         /\ UNCHANGED <<graph, allowDowngrade, fetched, denylist, hint, booted,
                        deployments, past, boundVars>>
    BY <1>5 DEF StateIsKnown, HelperFails, RefreshDeadend
  <2>2. BootedPositions(fetched)' # {} /\ Parses(CurNode(fetched))'
    BY <2>1 DEF BootedPositions, CurNode, CurPosition, Parses, NodeAt,
                Positions, IsSameChecksum
  <2>3. deadendState' \in {"unknown", "true", "false"}
    BY <1>5 DEF StateIsKnown, HelperFails, RefreshDeadend, StateOfReason
  <2>4. Reason \in Reasons \union {NoReason}
    BY <2>1, CurPositionType DEF Reason, Nodes
  <2>5. motd' \in Reasons \union {NoReason}
    BY <1>5, <2>4 DEF StateIsKnown, HelperFails, RefreshDeadend, MotdAfterHelper
  <2> QED
    BY <2>1, <2>2, <2>3, <2>5
<1>6. CASE SelectUpdate
  BY <1>6, FindUpdateType DEF SelectUpdate, ReleaseRecords
<1>7. CASE AbandonHint
  BY <1>7 DEF AbandonHint, BootedPositions, CurNode, CurPosition, Parses, NodeAt,
              Positions, IsSameChecksum
<1>8. ASSUME NEW r \in hint, UpdateTo(r)
      PROVE  TypeOK'
  BY <1>8 DEF UpdateTo, Boots, ProcessEnds
<1>9. CASE AgentExits
  <2>1. motd' \in Reasons \union {NoReason}
    BY <1>9, CurPositionType DEF AgentExits, Reason, Nodes, MotdAfterHelper
  <2> QED
    BY <1>9, <2>1, BoundsAssumption DEF AgentExits, ProcessEnds
<1> QED
  BY <1>0, <1>1, <1>2, <1>3, <1>4, <1>5, <1>6, <1>7, <1>8, <1>9 DEF Next

(* Types: a check works on a graph in which the booted release was found,   *)
(* and answers at most one release.                                         *)
THEOREM TypeCorrect == Spec => []TypeOK
<1>1. Init => TypeOK
  BY TypeInitially
<1>2. TypeOK /\ [Next]_vars => TypeOK'
  BY TypeStep
<1> QED
  BY <1>1, <1>2, PTL DEF Spec

-----------------------------------------------------------------------------
(* The answer of a check.                                                   *)

(* The targets that are not denied, and what find_update knows of them.     *)
Undenied(g) == {t \in Targets(g) : NodeAt(g, t).payload \notin denylist}
ReleaseAt(g, t) == FromCincinnati(NodeAt(g, t))

(* If no target is malformed, the releases that find_update chooses from    *)
(* are those of the targets that are not denied, and these are finitely     *)
(* many.                                                                    *)
LEMMA UpdatesAreUndenied ==
  ASSUME NEW g \in Graphs, ~Malformed(g)
  PROVE  /\ IsFiniteSet(Undenied(g))
         /\ \A t \in Undenied(g) :
              /\ t \in Positions(g) /\ Parses(NodeAt(g, t))
              /\ ReleaseAt(g, t) \in ReleaseRecords
              /\ <<CurPosition(g), t>> \in g.edges
         /\ {FromCincinnati(NodeAt(g, t)) : t \in Targets(g)} \ FindDenylisted(g)
              = {ReleaseAt(g, t) : t \in Undenied(g)}
<1>1. \A t \in Targets(g) : t \in Positions(g) /\ Parses(NodeAt(g, t))
  BY DEF Malformed
<1>2. ASSUME NEW t \in Targets(g)
      PROVE  <<CurPosition(g), t>> \in g.edges
  <2>1. PICK e \in g.edges : e[1] = CurPosition(g) /\ e[2] = t
    BY DEF Targets
  <2>2. e \in Nat \X Nat
    BY GraphsAssumption
  <2>3. e = <<e[1], e[2]>>
    BY <2>2
  <2> QED
    BY <2>1, <2>3
<1>3. IsFiniteSet(Undenied(g))
  <2>1. Undenied(g) \subseteq Positions(g)
    BY <1>1 DEF Undenied
  <2>2. IsFiniteSet(Positions(g))
    BY NodesType
  <2> QED
    BY <2>1, <2>2, FS_Subset
<1>4. ASSUME NEW t \in Targets(g)
      PROVE  ReleaseAt(g, t) \in FindDenylisted(g)
               <=> NodeAt(g, t).payload \in denylist
  <2>1. \A q \in Positions(g) :
          ReleaseAt(g, t) = FromCincinnati(NodeAt(g, q))
            => NodeAt(g, t).payload = NodeAt(g, q).payload
    BY DEF ReleaseAt, FromCincinnati
  <2> QED
    BY <1>1, <1>4, <2>1 DEF FindDenylisted, ReleaseAt
<1>5. {FromCincinnati(NodeAt(g, t)) : t \in Targets(g)} \ FindDenylisted(g)
        = {ReleaseAt(g, t) : t \in Undenied(g)}
  BY <1>4 DEF Undenied, ReleaseAt
<1>6. \A t \in Undenied(g) : ReleaseAt(g, t) \in ReleaseRecords
  BY <1>1, NodesType DEF Undenied, ReleaseAt
<1> QED
  BY <1>1, <1>2, <1>3, <1>5, <1>6 DEF Undenied

(* Comparing a node is comparing its release.                               *)
LEMMA NodeOrder ==
  \A a, b : /\ Before(a, FromCincinnati(b)) <=> Before(a, b)
            /\ Before(FromCincinnati(a), b) <=> Before(a, b)
BY DEF Before, FromCincinnati

(* What find_update answers about a graph that is not malformed.            *)
LEMMA FindUpdateRight ==
  ASSUME NEW g \in Graphs, ~Malformed(g), BootedPositions(g) # {}
  PROVE  /\ FindUpdate(g) = {} => Acceptable(g) = {}
         /\ \A r \in FindUpdate(g) : \E p \in Acceptable(g) :
              /\ r = FromCincinnati(NodeAt(g, p))
              /\ \A q \in Acceptable(g) : ~Before(r, NodeAt(g, q))
<1> DEFINE Newest == {r \in {ReleaseAt(g, t) : t \in Undenied(g)} :
              \A t \in Undenied(g) : ~Before(r, ReleaseAt(g, t))}
           Cur == FromCincinnati(CurNode(g))
<1>1. FindUpdate(g) = {r \in Newest : allowDowngrade \/ Before(Cur, r)}
  BY UpdatesAreUndenied, NodeOrder DEF FindUpdate
<1>2. Acceptable(g) = {t \in Undenied(g) :
                        allowDowngrade \/ Before(Cur, ReleaseAt(g, t))}
  <2>1. \A p : p \in Acceptable(g) =>
          p \in Undenied(g) /\ (allowDowngrade \/ Before(Cur, ReleaseAt(g, p)))
    <3>1. \A p : <<CurPosition(g), p>> \in g.edges => p \in Targets(g)
      <4>1. ASSUME NEW p, <<CurPosition(g), p>> \in g.edges
            PROVE  p \in Targets(g)
        <5>1. <<CurPosition(g), p>> \in {f \in g.edges : f[1] = CurPosition(g)}
          BY <4>1
        <5>2. p = <<CurPosition(g), p>>[2]
          OBVIOUS
        <5> QED
          BY <5>1, <5>2 DEF Targets
      <4> QED
        BY <4>1
    <3> QED
      BY <3>1, NodeOrder DEF Acceptable, Undenied, ReleaseAt
  <2>2. \A p \in Undenied(g) :
          (allowDowngrade \/ Before(Cur, ReleaseAt(g, p))) => p \in Acceptable(g)
    BY UpdatesAreUndenied, NodeOrder DEF Acceptable, Undenied, ReleaseAt
  <2> QED
    BY <2>1, <2>2
<1>3. Cur \in ReleaseRecords
  BY CurPositionType, NodesType DEF CurNode
<1>4. FindUpdate(g) = {} => Acceptable(g) = {}
  <2> SUFFICES ASSUME NEW p \in Acceptable(g)
               PROVE  FindUpdate(g) # {}
    OBVIOUS
  <2>1. p \in Undenied(g) /\ (allowDowngrade \/ Before(Cur, ReleaseAt(g, p)))
    BY <1>2
  <2> DEFINE R == [t \in Undenied(g) |-> ReleaseAt(g, t)]
  <2>2. PICK t \in Undenied(g) : \A s \in Undenied(g) : ~Before(R[t], R[s])
    <3>1. R \in [Undenied(g) -> ReleaseRecords]
      BY UpdatesAreUndenied
    <3> HIDE DEF R
    <3> QED
      BY <2>1, <3>1, UpdatesAreUndenied, NewestExists
  <2>3. ReleaseAt(g, t) \in Newest
    BY <2>2
  <2>4. allowDowngrade \/ Before(Cur, ReleaseAt(g, t))
    <3>1. ~Before(ReleaseAt(g, t), ReleaseAt(g, p))
      BY <2>1, <2>2
    <3> QED
      BY <1>3, <2>1, <3>1, UpdatesAreUndenied, BeforeIsOrder
  <2> QED
    BY <1>1, <2>3, <2>4
<1>5. ASSUME NEW r \in FindUpdate(g)
      PROVE  \E p \in Acceptable(g) :
               /\ r = FromCincinnati(NodeAt(g, p))
               /\ \A q \in Acceptable(g) : ~Before(r, NodeAt(g, q))
  <2>1. PICK p \in Undenied(g) : r = ReleaseAt(g, p)
    BY <1>1
  <2>2. p \in Acceptable(g)
    BY <1>1, <1>2, <2>1
  <2>3. \A q \in Acceptable(g) : ~Before(r, ReleaseAt(g, q))
    BY <1>1, <1>2
  <2> QED
    BY <2>1, <2>2, <2>3, NodeOrder DEF ReleaseAt
<1> QED
  BY <1>4, <1>5

(* A check answers an acceptable target than which none is newer, and none  *)
(* only if there is none or the graph is malformed: for every graph.        *)
THEOREM CheckRight == Spec => CheckIsRight
<1>1. TypeOK /\ [Next]_vars =>
        [SelectUpdate =>
           /\ hint' = {} => Acceptable(fetched) = {} \/ Malformed(fetched)
           /\ \A r \in hint' : \E p \in Acceptable(fetched) :
                /\ r = FromCincinnati(NodeAt(fetched, p))
                /\ \A q \in Acceptable(fetched) :
                     ~Before(r, NodeAt(fetched, q))]_vars
  <2> SUFFICES ASSUME TypeOK, SelectUpdate
               PROVE  /\ hint' = {} => Acceptable(fetched) = {} \/ Malformed(fetched)
                      /\ \A r \in hint' : \E p \in Acceptable(fetched) :
                           /\ r = FromCincinnati(NodeAt(fetched, p))
                           /\ \A q \in Acceptable(fetched) :
                                ~Before(r, NodeAt(fetched, q))
    OBVIOUS
  <2>1. hint' = FindUpdate(fetched)
    BY DEF SelectUpdate
  <2>2. fetched \in Graphs /\ BootedPositions(fetched) # {}
    BY DEF TypeOK, SelectUpdate
  <2>3. CASE Malformed(fetched)
    BY <2>1, <2>3 DEF FindUpdate
  <2>4. CASE ~Malformed(fetched)
    BY <2>1, <2>2, <2>4, FindUpdateRight
  <2> QED
    BY <2>3, <2>4
<1> QED
  BY <1>1, TypeCorrect, PTL DEF Spec, CheckIsRight

-----------------------------------------------------------------------------
(* The record of dead-ends.                                                 *)

(* If the helper never refuses, what the agent believes is what the MOTD    *)
(* shows, whatever fails, exits or reboots, and whatever graph is           *)
(* published.                                                               *)
THEOREM RecordShown ==
  ASSUME HelperMayRefuse = FALSE
  PROVE  Spec => []RecordIsShown
<1>1. Init => RecordIsShown
  BY DEF Init, RecordIsShown
<1>2. RecordIsShown /\ [Next]_vars => RecordIsShown'
  <2> SUFFICES ASSUME RecordIsShown, [Next]_vars
               PROVE  RecordIsShown'
    OBVIOUS
  <2> USE DEF RecordIsShown
  <2>1. CASE UNCHANGED <<deadendState, motd>>
    BY <2>1
  <2>2. CASE RefreshDeadend
    BY <2>2 DEF RefreshDeadend, MotdAfterHelper, StateOfReason
  <2>3. ASSUME ProcessEnds
        PROVE  RecordIsShown'
    BY <2>3 DEF ProcessEnds
  <2> QED
    BY <2>1, <2>2, <2>3 DEF Next, vars, PublishGraph, StartAgent, FetchFails,
       FetchGraph, StateIsKnown, HelperFails, SelectUpdate, AbandonHint,
       UpdateTo, AgentExits
<1> QED
  BY <1>1, <1>2, PTL DEF Spec

-----------------------------------------------------------------------------
(* No return.                                                               *)

(* The ages that graphs give to releases are those that the releases have.  *)
AgesAgree(Age) ==
  \A g \in Graphs : \A p \in Positions(g) :
    Parses(NodeAt(g, p)) => NodeAt(g, p).age = Age[NodeAt(g, p).payload]

Aged(Age, payload) == [payload |-> payload, age |-> Age[payload]]
Older(Age, p, q) == Before(Aged(Age, p), Aged(Age, q))

(* An agent that is down has no hint; a hint is newer than the booted       *)
(* release unless downgrades are allowed, and the releases that were left   *)
(* are older.                                                               *)
ForwardInv(Age) ==
  /\ pc = "down" => hint = {}
  /\ \A r \in hint : /\ r = Aged(Age, r.payload)
                     /\ allowDowngrade \/ Older(Age, booted, r.payload)
  /\ \A p \in past : Older(Age, p, booted)

(* A release that find_update answers is newer than the booted one, unless  *)
(* downgrades are allowed.                                                  *)
LEMMA FindUpdateForward ==
  ASSUME NEW Age \in [Payloads -> Nat], AgesAgree(Age),
         NEW g \in Graphs, BootedPositions(g) # {}, Parses(CurNode(g)),
         NEW r \in FindUpdate(g)
  PROVE  /\ r = Aged(Age, r.payload)
         /\ allowDowngrade \/ Older(Age, booted, r.payload)
<1>1. ~Malformed(g)
  BY DEF FindUpdate
<1>2. PICK t \in Targets(g) : r = FromCincinnati(NodeAt(g, t))
  BY <1>1 DEF FindUpdate
<1>3. t \in Positions(g) /\ Parses(NodeAt(g, t))
  BY <1>1 DEF Malformed
<1>4. r = Aged(Age, r.payload)
  BY <1>2, <1>3 DEF AgesAgree, Aged, FromCincinnati
<1>5. FromCincinnati(CurNode(g)) = Aged(Age, booted)
  BY CurPositionType DEF AgesAgree, Aged, FromCincinnati, CurNode
<1>6. allowDowngrade \/ Before(CurNode(g), r)
  BY <1>1 DEF FindUpdate
<1> QED
  BY <1>4, <1>5, <1>6, NodeOrder DEF Older

(* Every step keeps the invariant.                                          *)
LEMMA ForwardStep ==
  ASSUME NEW Age \in [Payloads -> Nat], AgesAgree(Age),
         TypeOK, ForwardInv(Age), [Next]_vars
  PROVE  ForwardInv(Age)'
<1> USE DEF ForwardInv
<1>1. CASE UNCHANGED <<pc, hint, allowDowngrade, booted, past>>
  BY <1>1 DEF Older, Aged, Before
<1>2. ASSUME NEW ok \in BOOLEAN, StartAgent(ok)
      PROVE  ForwardInv(Age)'
  BY <1>2 DEF StartAgent, Older, Aged, Before
<1>3. CASE FetchGraph \/ StateIsKnown \/ HelperFails \/ RefreshDeadend
  BY <1>3 DEF FetchGraph, StateIsKnown, HelperFails, RefreshDeadend, Older,
              Aged, Before
<1>4. CASE SelectUpdate
  <2>1. fetched \in Graphs /\ BootedPositions(fetched) # {}
         /\ Parses(CurNode(fetched))
    BY <1>4 DEF TypeOK, SelectUpdate
  <2>2. \A r \in hint' : /\ r = Aged(Age, r.payload)
                         /\ allowDowngrade \/ Older(Age, booted, r.payload)
    BY <1>4, <2>1, FindUpdateForward DEF SelectUpdate
  <2> QED
    BY <1>4, <2>2 DEF SelectUpdate, Older, Aged, Before
<1>5. CASE AbandonHint
  BY <1>5 DEF AbandonHint, Older, Aged, Before
<1>6. ASSUME NEW r \in hint, UpdateTo(r)
      PROVE  ForwardInv(Age)'
  <2>1. hint' = {} /\ booted' = r.payload
         /\ past' = IF allowDowngrade THEN {} ELSE past \union {booted}
    BY <1>6 DEF UpdateTo, Boots, ProcessEnds
  <2>2. ASSUME ~allowDowngrade, NEW p \in past \union {booted}
        PROVE  Older(Age, p, r.payload)
    <3>1. Older(Age, booted, r.payload)
      BY <2>2
    <3>2. p = booted \/ Older(Age, p, booted)
      BY <2>2
    <3>3. {Aged(Age, p), Aged(Age, booted), Aged(Age, r.payload)}
            \subseteq ReleaseRecords
      BY <2>2 DEF TypeOK, Aged, ReleaseRecords
    <3> QED
      BY <3>1, <3>2, <3>3, BeforeIsOrder DEF Older
  <2>3. \A p \in past' : Older(Age, p, booted')
    BY <2>1, <2>2
  <2> QED
    BY <2>1, <2>3 DEF Older, Aged, Before
<1>7. CASE AgentExits
  BY <1>7 DEF AgentExits, ProcessEnds, Older, Aged, Before
<1> QED
  BY <1>1, <1>2, <1>3, <1>4, <1>5, <1>6, <1>7
  DEF Next, vars, PublishGraph, FetchFails

(* Without downgrades, a node never returns to a release it has left,       *)
(* whatever the edges of the graphs, if graphs agree on the ages of         *)
(* releases.                                                                *)
THEOREM NoReturn ==
  ASSUME NEW Age \in [Payloads -> Nat], AgesAgree(Age)
  PROVE  Spec => []NeverReturns
<1>1. Init => ForwardInv(Age)
  BY DEF Init, ForwardInv
<1>2. TypeOK /\ ForwardInv(Age) /\ [Next]_vars => ForwardInv(Age)'
  BY ForwardStep
<1>3. TypeOK /\ ForwardInv(Age) => NeverReturns
  <2> SUFFICES ASSUME TypeOK, ForwardInv(Age), booted \in past
               PROVE  FALSE
    BY DEF NeverReturns
  <2>1. Aged(Age, booted) \in ReleaseRecords
    BY DEF TypeOK, Aged, ReleaseRecords
  <2> QED
    BY <2>1, BeforeIsOrder DEF ForwardInv, Older
<1> QED
  BY <1>1, <1>2, <1>3, TypeCorrect, PTL DEF Spec
=============================================================================
