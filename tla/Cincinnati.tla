----------------------------- MODULE Cincinnati -----------------------------
(***************************************************************************)
(* One node that polls the update server: the walk of the update graph     *)
(* (find_update of cincinnati/mod.rs) and the record of dead-end releases  *)
(* it keeps on the way, in the memory of the agent (DEADEND_STATE) and in  *)
(* a MOTD fragment that a privileged helper writes.                        *)
(*                                                                         *)
(* What UpdateAgent does with the hint is reduced to its outcomes here:    *)
(* the node boots it, it is abandoned, or it is abandoned and denied.      *)
(***************************************************************************)
EXTENDS Integers, Sequences

CONSTANTS
  Payloads,         \* payloads (checksum or pullspec), in lexicographic order
  Reasons,          \* reasons of dead-ends
  Graphs,           \* update graphs the server may publish
  DowngradeChoices, \* values updates.allow_downgrade may have at a start
  HelperMayRefuse,  \* may the helper exit with an error of its own?
  MaxPublishes,     \* bound: times the server changes its graph
  MaxExits          \* bound: exits of the agent

NoReason == "none"
Defects == {"none", "no_scheme", "no_age"}
Nodes == [payload : Payloads, age : Nat, defect : Defects,
          deadend : Reasons \union {NoReason}]

ASSUME PayloadsAssumption == Payloads \subseteq Nat /\ NoReason \notin Reasons
ASSUME GraphsAssumption ==
  \A g \in Graphs :
    /\ g.nodes \in Seq(Nodes)
    /\ g.edges \subseteq Nat \X Nat
ASSUME ClientAssumption ==
  DowngradeChoices \subseteq BOOLEAN /\ HelperMayRefuse \in BOOLEAN
ASSUME BoundsAssumption == MaxPublishes \in Nat /\ MaxExits \in Nat

VARIABLES
  graph,        \* the server: the graph it publishes
  (* The agent process. *)
  pc,           \* "down", "idle", or the part of a check that is under way
  allowDowngrade, \* the configuration of the agent
  fetched,      \* the graph that the check under way works on
  denylist,     \* payloads not to update to
  deadendState, \* DEADEND_STATE: "unknown", "true" or "false"
  hint,         \* the release of the last check, as a set of at most one
  (* The host. *)
  booted,       \* payload of the booted release
  deployments,  \* payloads of the deployments on disk
  motd,         \* the reason shown by the MOTD fragment, if there is one
  (* History and bounds. *)
  past,         \* payloads that were booted before, since the last update
                \* with downgrades allowed
  publishes, exits

agentVars == <<pc, allowDowngrade, fetched, denylist, deadendState, hint>>
hostVars == <<booted, deployments, motd, past>>
boundVars == <<publishes, exits>>
vars == <<graph, agentVars, hostVars, boundVars>>

-----------------------------------------------------------------------------
(* Releases and graphs. The order of releases is by age index, then         *)
(* lexicographic: versions, which are unique in a graph, are left out and   *)
(* payloads stand for them there.                                           *)

Before(r, s) == r.age < s.age \/ (r.age = s.age /\ r.payload < s.payload)

FromCincinnati(node) == [payload |-> node.payload, age |-> node.age]
Parses(node) == node.defect = "none"

(* Positions in a graph count from zero.                                    *)
Positions(g) == 0..(Len(g.nodes) - 1)
NodeAt(g, p) == g.nodes[p + 1]

(* A node without a scheme matches nothing; a missing age is no matter yet. *)
IsSameChecksum(node, payload) ==
  node.defect # "no_scheme" /\ node.payload = payload

BootedPositions(g) ==
  {p \in Positions(g) : IsSameChecksum(NodeAt(g, p), booted)}
CurPosition(g) ==
  CHOOSE p \in BootedPositions(g) : \A q \in BootedPositions(g) : p <= q
CurNode(g) == NodeAt(g, CurPosition(g))

FindDenylisted(g) ==
  {FromCincinnati(NodeAt(g, p)) :
     p \in {q \in Positions(g) : /\ Parses(NodeAt(g, q))
                                 /\ NodeAt(g, q).payload \in denylist}}

Targets(g) == {e[2] : e \in {f \in g.edges : f[1] = CurPosition(g)}}

(* One target that is out of range or cannot be parsed fails the check.     *)
Malformed(g) ==
  \E t \in Targets(g) : t \notin Positions(g) \/ ~Parses(NodeAt(g, t))

(* Mutants: a denied target hides the older ones; no check for downgrades.  *)
FindUpdateNewestOnly(g) ==
  LET updates == {FromCincinnati(NodeAt(g, t)) : t \in Targets(g)}
      newest == {r \in updates : \A s \in updates : ~Before(r, s)}
  IN  IF Malformed(g) THEN {}
      ELSE {r \in newest : /\ r.payload \notin denylist
                           /\ allowDowngrade \/ Before(CurNode(g), r)}

FindUpdateBackwards(g) ==
  LET targets == {FromCincinnati(NodeAt(g, t)) : t \in Targets(g)}
      updates == targets \ FindDenylisted(g)
  IN  IF Malformed(g) THEN {}
      ELSE {r \in updates : \A s \in updates : ~Before(r, s)}

(* The newest target that is not denied, unless it is a downgrade.          *)
FindUpdate(g) ==
  LET targets == {FromCincinnati(NodeAt(g, t)) : t \in Targets(g)}
      updates == targets \ FindDenylisted(g)
      newest == {r \in updates : \A s \in updates : ~Before(r, s)}
  IN  IF Malformed(g) THEN {}
      ELSE {r \in newest : allowDowngrade \/ Before(CurNode(g), r)}

-----------------------------------------------------------------------------
ProcessEnds ==
  /\ pc' = "down"
  /\ denylist' = {}
  /\ deadendState' = "unknown"
  /\ hint' = {}

Boots(payload) ==
  /\ booted' = payload
  /\ deployments' = {booted, payload}
  /\ past' = IF allowDowngrade THEN {} ELSE past \union {booted}
  /\ motd' = NoReason                     \* /run is empty after a reboot

Init ==
  /\ graph \in Graphs
  /\ fetched = graph
  /\ pc = "down"
  /\ allowDowngrade \in DowngradeChoices
  /\ denylist = {}
  /\ deadendState = "unknown"
  /\ hint = {}
  /\ booted \in Payloads
  /\ \E other \in Payloads : deployments = {booted, other}
  /\ motd = NoReason
  /\ past = {}
  /\ publishes = 0
  /\ exits = 0

PublishGraph ==
  /\ publishes < MaxPublishes
  /\ publishes' = publishes + 1
  /\ graph' \in Graphs
  /\ UNCHANGED <<agentVars, hostVars, exits>>

(* The local deployments are denied, if they can be read.                   *)
StartAgent(ok) ==
  /\ pc = "down"
  /\ pc' = "idle"
  /\ denylist' = IF ok THEN deployments ELSE {}
  /\ allowDowngrade' \in DowngradeChoices
  /\ UNCHANGED <<graph, fetched, deadendState, hint, hostVars, boundVars>>

FetchFails ==
  /\ pc = "idle" /\ hint = {}
  /\ UNCHANGED vars

\* Mutant: the booted release is not looked for.
FetchGraphUnchecked ==
  /\ pc = "idle" /\ hint = {}
  /\ fetched' = graph
  /\ pc' = "refresh"
  /\ UNCHANGED <<graph, allowDowngrade, denylist, deadendState, hint,
                 hostVars, boundVars>>

(* A graph without the booted release, or with one that cannot be parsed,   *)
(* ends the check.                                                          *)
FetchGraph ==
  /\ pc = "idle" /\ hint = {}
  /\ fetched' = graph
  /\ pc' = IF BootedPositions(graph) # {} /\ Parses(CurNode(graph))
           THEN "refresh" ELSE "idle"
  /\ UNCHANGED <<graph, allowDowngrade, denylist, deadendState, hint,
                 hostVars, boundVars>>

(* The record is refreshed when the state changes. The helper may fail to   *)
(* start, and is tried again at the next check.                             *)
Reason == CurNode(fetched).deadend
StateOfReason == IF Reason = NoReason THEN "false" ELSE "true"

(* The helper writes the fragment, or removes it if there is one; or it     *)
(* exits with an error, which nobody looks at.                              *)
MotdAfterHelper == {Reason} \union (IF HelperMayRefuse THEN {motd} ELSE {})

StateIsKnown ==
  /\ pc = "refresh"
  /\ deadendState = StateOfReason
  /\ pc' = "find"
  /\ UNCHANGED <<graph, allowDowngrade, fetched, denylist, deadendState, hint,
                 hostVars, boundVars>>

(* Mutant: the state is recorded before the helper has run.                 *)
HelperFailsRecorded ==
  /\ pc = "refresh"
  /\ deadendState # StateOfReason
  /\ deadendState' = StateOfReason
  /\ pc' = "find"
  /\ UNCHANGED <<graph, allowDowngrade, fetched, denylist, hint, hostVars,
                 boundVars>>

HelperFails ==
  /\ pc = "refresh"
  /\ deadendState # StateOfReason
  /\ pc' = "find"
  /\ UNCHANGED <<graph, allowDowngrade, fetched, denylist, deadendState, hint,
                 hostVars, boundVars>>

\* Mutant: the fragment is never removed.
RefreshDeadendOnlySets ==
  /\ pc = "refresh"
  /\ deadendState # StateOfReason
  /\ deadendState' = StateOfReason
  /\ motd' = IF Reason = NoReason THEN motd ELSE Reason
  /\ pc' = "find"
  /\ UNCHANGED <<graph, allowDowngrade, fetched, denylist, hint, booted,
                 deployments, past, boundVars>>

RefreshDeadend ==
  /\ pc = "refresh"
  /\ deadendState # StateOfReason
  /\ deadendState' = StateOfReason
  /\ motd' \in MotdAfterHelper
  /\ pc' = "find"
  /\ UNCHANGED <<graph, allowDowngrade, fetched, denylist, hint, booted,
                 deployments, past, boundVars>>

SelectUpdate ==
  /\ pc = "find"
  /\ hint' = FindUpdate(fetched)
  /\ pc' = "idle"
  /\ UNCHANGED <<graph, allowDowngrade, fetched, denylist, deadendState,
                 hostVars, boundVars>>

(* UpdateAgent gives up on the hint, or rejects and denies it.              *)
AbandonHint ==
  /\ hint # {}
  /\ hint' = {}
  /\ denylist' \in {denylist, denylist \union {r.payload : r \in hint}}
  /\ UNCHANGED <<graph, allowDowngrade, pc, fetched, deadendState, hostVars,
                 boundVars>>

(* ... or finalizes it.                                                     *)
UpdateTo(r) ==
  /\ r \in hint
  /\ Boots(r.payload)
  /\ ProcessEnds
  /\ UNCHANGED <<graph, allowDowngrade, fetched, boundVars>>

(* A helper that was started may still have done its work.                  *)
AgentExits ==
  /\ pc # "down"
  /\ exits < MaxExits
  /\ exits' = exits + 1
  /\ ProcessEnds
  /\ motd' \in {motd} \union
       (IF pc = "refresh" /\ deadendState # StateOfReason
        THEN MotdAfterHelper ELSE {})
  /\ UNCHANGED <<graph, allowDowngrade, fetched, booted, deployments, past,
                 publishes>>

Next ==
  \/ PublishGraph
  \/ \E ok \in BOOLEAN : StartAgent(ok)
  \/ FetchFails \/ FetchGraph
  \/ StateIsKnown \/ HelperFails \/ RefreshDeadend
  \/ SelectUpdate
  \/ AbandonHint
  \/ \E r \in hint : UpdateTo(r)
  \/ AgentExits

Spec == Init /\ [][Next]_vars

(* The agent polls, the server answers and the helper starts again and      *)
(* again.                                                                   *)
FairSpec ==
  /\ Spec
  /\ WF_vars(\E ok \in BOOLEAN : StartAgent(ok))
  /\ SF_vars(FetchGraph)
  /\ SF_vars(StateIsKnown \/ RefreshDeadend)
  /\ WF_vars(SelectUpdate)
  /\ WF_vars(AbandonHint \/ \E r \in hint : UpdateTo(r))

-----------------------------------------------------------------------------
(* Properties.                                                              *)

(* Every variable has its type; a check works on a graph in which the       *)
(* booted release was found.                                                *)
TypeOK ==
  /\ graph \in Graphs /\ fetched \in Graphs
  /\ pc \in {"down", "idle", "refresh", "find"}
  /\ pc \in {"refresh", "find"} =>
       BootedPositions(fetched) # {} /\ Parses(CurNode(fetched))
  /\ allowDowngrade \in DowngradeChoices
  /\ denylist \subseteq Payloads
  /\ deadendState \in {"unknown", "true", "false"}
  /\ hint \subseteq [payload : Payloads, age : Nat]
  /\ \A r, s \in hint : r = s
  /\ booted \in Payloads /\ deployments \subseteq Payloads
  /\ motd \in Reasons \union {NoReason}
  /\ past \subseteq Payloads
  /\ publishes \in 0..MaxPublishes /\ exits \in 0..MaxExits

(* What a check may answer, by what the protocol says of the graph: an edge *)
(* from the booted release to a release that is not denied, and is no       *)
(* downgrade unless those are allowed.                                      *)
Acceptable(g) ==
  {p \in Positions(g) :
     /\ <<CurPosition(g), p>> \in g.edges
     /\ Parses(NodeAt(g, p))
     /\ NodeAt(g, p).payload \notin denylist
     /\ allowDowngrade \/ Before(CurNode(g), NodeAt(g, p))}

(* A check answers an acceptable target than which none is newer; it only   *)
(* answers none if there is none, or if some target is malformed.           *)
CheckIsRight ==
  [][SelectUpdate =>
       /\ hint' = {} => Acceptable(fetched) = {} \/ Malformed(fetched)
       /\ \A r \in hint' : \E p \in Acceptable(fetched) :
            /\ r = FromCincinnati(NodeAt(fetched, p))
            /\ \A q \in Acceptable(fetched) : ~Before(r, NodeAt(fetched, q))]_vars

(* Without downgrades, a node never returns to a release it has left, in    *)
(* whatever order the server publishes its edges (the ages being those the  *)
(* releases have), also if it could not read its deployments.               *)
NeverReturns == booted \notin past

(* What the agent believes of the booted release is what the MOTD shows,    *)
(* over restarts of the agent and failures of the helper to start.          *)
RecordIsShown ==
  /\ deadendState = "true" => motd # NoReason
  /\ deadendState = "false" => motd = NoReason

(* Once the server publishes the same graph and the node stays on its       *)
(* release, the MOTD tells whether that release is a dead-end.              *)
MotdIsRight ==
  BootedPositions(graph) # {} /\ Parses(CurNode(graph)) =>
    (motd # NoReason <=> CurNode(graph).deadend # NoReason)
MotdFollowsGraph ==
  (<>[][UNCHANGED <<graph, booted>>]_vars) => <>[]MotdIsRight
=============================================================================
