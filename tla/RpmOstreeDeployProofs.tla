------------------------ MODULE RpmOstreeDeployProofs ------------------------
(***************************************************************************)
(* What holds, for all images, repositories and limits, of the deploys of  *)
(* the rpm-ostree client: rpm-ostree can carry them out, and what they     *)
(* leave staged is what was asked for, on the stream of the node.          *)
(***************************************************************************)
EXTENDS RpmOstreeClientProofs

(* What the node is taken to be booted into.                                *)
Bases == Booted(Status(deployments))

(* The identity is that of the base, with its stream; and the override is   *)
(* only there on a node that follows no container.                          *)
BaseInv ==
  /\ override # NoDeployment =>
       \A b \in Booted(deployments) : b.origin = NoOrigin
  /\ Running => \A b \in Bases :
       /\ identity.payload = PayloadOf(b)
       /\ identity.stream = StreamOf[b.digest]
       /\ identity.stream # NoStream

(* What the agent has staged is a container if the base is one, and on its  *)
(* stream unless a release of another stream was staged.                    *)
StagedInv ==
  ~foreign =>
    \A d \in Staged(deployments), b \in Bases :
      /\ d.origin = NoOrigin <=> b.origin = NoOrigin
      /\ strayed \/ StreamOf[d.digest] = StreamOf[b.digest]

(* A target is a container if the node is; a rebase is within its           *)
(* repository, and is not decided on before the status was read.            *)
TargetInv ==
  request.kind = "stage" =>
    /\ Running
    /\ request.target.repo = NoRepo <=> identity.payload.repo = NoRepo
    /\ request.ref # NoOrigin => request.ref.repo = request.target.repo
    /\ request.step = "status" => request.ref = NoOrigin

(* The origin that a deployment gets from a deploy.                         *)
OriginOf(ref) == IF ref # NoOrigin THEN ref ELSE MergeDeployment.origin

(* What was decided is still possible when the command runs, and leads to   *)
(* the stream of the node.                                                  *)
CommandInv ==
  At("stage", "command") /\ ~foreign =>
    /\ Accepts(request.ref, request.target)
    /\ request.target.repo # NoRepo /\ ~strayed =>
         OriginOf(request.ref).tag = identity.stream

(* StagedIsTarget, with the base in place of the identity, which an exit of *)
(* the process loses.                                                       *)
MineInv ==
  mine # NoPayload =>
    \E d \in Staged(deployments) :
      /\ PayloadOf(d) = mine
      /\ mine.repo # NoRepo /\ ~foreign /\ ~strayed =>
           \A b \in Bases : d.origin.tag = StreamOf[b.digest]

DInv == /\ IInv /\ BaseInv /\ StagedInv /\ TargetInv /\ CommandInv /\ MineInv
-----------------------------------------------------------------------------
(* Where deploys start from.                                                *)

USE DEF hostVars, agentVars, historyVars, boundVars

(* With the booted one of some deployments replaced, the other is booted.   *)
LEMMA BootedReplaced ==
  ASSUME NEW depls, NEW e \in depls, {d \in depls : d.booted} = {e},
         NEW o, o.booted
  PROVE  {x \in {IF d.booted THEN o ELSE d : d \in depls} : x.booted} = {o}
<1>1. \A d \in depls : d.booted <=> d = e
  OBVIOUS
<1> QED
  BY <1>1

(* The base is the booted deployment, or the override.                      *)
LEMMA BasesAre ==
  ASSUME HostTypeOK
  PROVE  Bases = IF override = NoDeployment THEN Booted(deployments) ELSE {override}
<1>1. PICK e \in deployments : Booted(deployments) = {e}
  BY DEF HostTypeOK
<1>2. CASE override = NoDeployment
  BY <1>2 DEF Bases, Status
<1>3. CASE override # NoDeployment
  <2>1. override.booted
    BY <1>3, OverridesAssumption DEF HostTypeOK
  <2> QED
    BY <1>1, <1>3, <2>1, BootedReplaced DEF Bases, Status, Booted
<1> QED
  BY <1>2, <1>3

(* There is exactly one.                                                    *)
LEMMA OneBase ==
  ASSUME HostTypeOK
  PROVE  \E b \in Deployments : Bases = {b} /\ b \in Status(deployments)
<1>1. \E b : Bases = {b}
  BY BasesAre DEF HostTypeOK
<1>2. Bases \subseteq Status(deployments)
  BY DEF Bases, Booted
<1> QED
  BY <1>1, <1>2, StatusType

(* The override leaves the staged deployment alone.                         *)
LEMMA StagedOfStatus ==
  ASSUME HostTypeOK
  PROVE  Staged(Status(deployments)) = Staged(deployments)
<1>1. CASE override = NoDeployment
  BY <1>1 DEF Status
<1>2. CASE override # NoDeployment
  <2>1. ~override.staged
    BY <1>2, OverridesAssumption DEF HostTypeOK
  <2>2. \A d \in deployments : d.staged => ~d.booted
    BY DEF HostTypeOK, Staged
  <2>3. Status(deployments) = {IF d.booted THEN override ELSE d : d \in deployments}
    BY <1>2 DEF Status
  <2>4. Staged(Status(deployments)) \subseteq Staged(deployments)
    BY <2>1, <2>3 DEF Staged
  <2>5. Staged(deployments) \subseteq Staged(Status(deployments))
    BY <2>2, <2>3 DEF Staged
  <2> QED
    BY <2>4, <2>5
<1> QED
  BY <1>1, <1>2

(* rpm-ostree starts from the staged deployment, or else the booted one.    *)
LEMMA MergeIs ==
  ASSUME HostTypeOK
  PROVE  /\ Staged(deployments) = {} => Booted(deployments) = {MergeDeployment}
         /\ Staged(deployments) # {} => Staged(deployments) = {MergeDeployment}
<1>1. CASE Staged(deployments) = {}
  <2>1. MergeDeployment = CHOOSE d \in deployments : d.booted
    BY <1>1 DEF MergeDeployment
  <2>2. MergeDeployment \in Booted(deployments)
    BY <2>1 DEF HostTypeOK, Booted
  <2> QED
    BY <1>1, <2>2 DEF HostTypeOK
<1>2. CASE Staged(deployments) # {}
  <2>1. MergeDeployment = CHOOSE d \in deployments : d.staged
    BY <1>2 DEF MergeDeployment
  <2>2. MergeDeployment \in Staged(deployments)
    BY <1>2, <2>1 DEF Staged
  <2> QED
    BY <1>2, <2>2 DEF HostTypeOK
<1> QED
  BY <1>1, <1>2

(* The client starts from the same staged deployment, or else the base.     *)
LEMMA LocalIs ==
  ASSUME HostTypeOK
  PROVE  LET from == LocalDeploy(Status(deployments))
         IN /\ Staged(deployments) = {} => from \in Bases
            /\ Staged(deployments) # {} => from = MergeDeployment
<1> DEFINE status == Status(deployments)
           from == LocalDeploy(status)
<1>1. Staged(status) = Staged(deployments)
  BY StagedOfStatus
<1>2. CASE Staged(deployments) = {}
  <2>1. from = CHOOSE d \in status : d.booted
    BY <1>1, <1>2 DEF LocalDeploy
  <2>2. \E d \in status : d.booted
    BY OneBase DEF Bases, Booted
  <2>3. from \in status /\ from.booted
    <3> HIDE DEF status, from
    <3> QED
      BY <2>1, <2>2
  <2> QED
    BY <1>2, <2>3 DEF Bases, Booted
<1>3. CASE Staged(deployments) # {}
  <2>1. from = CHOOSE d \in status : d.staged
    BY <1>1, <1>3 DEF LocalDeploy
  <2>2. from \in Staged(status)
    BY <1>1, <1>3, <2>1 DEF Staged
  <2> QED
    BY <1>1, <1>3, <2>2, MergeIs
<1> QED
  BY <1>2, <1>3

(* A deployment follows a container or none, by its payload, too.           *)
LEMMA ContainerRepo ==
  ASSUME NEW o \in Origins \union {NoOrigin}
  PROVE  o.repo = NoRepo <=> o = NoOrigin
<1>1. NoOrigin.repo = NoRepo
  BY DEF NoOrigin
<1>2. ASSUME o \in Origins PROVE o.repo # NoRepo
  <2>1. o.repo \in Repos
    BY <1>2 DEF Origins
  <2> QED
    BY <2>1, NamesAssumption
<1> QED
  BY <1>1, <1>2

(* The digest is one of an image, the origin one that is known.             *)
LEMMA DeploymentParts ==
  ASSUME NEW d \in Deployments
  PROVE  /\ d.digest \in Digests
         /\ d.origin \in Origins \union {NoOrigin}
         /\ PayloadOf(d).repo = d.origin.repo /\ PayloadOf(d).digest = d.digest
  BY DEF Deployments, PayloadOf

-----------------------------------------------------------------------------
(* Deciding on a command.                                                   *)

(* The deployment that the client decides from is in the state that the     *)
(* comment in the code expects: on a container for a container, and with a  *)
(* stream, the node's, unless another stream was staged before.             *)
LEMMA StartingPoint ==
  ASSUME HostTypeOK, BaseInv, StagedInv, Running, ~foreign
  PROVE  LET from == LocalDeploy(Status(deployments))
         IN /\ from \in Deployments
            /\ from.origin = NoOrigin <=> identity.payload.repo = NoRepo
            /\ strayed \/ StreamOf[from.digest] = identity.stream
            /\ identity.stream \in Streams
<1> DEFINE from == LocalDeploy(Status(deployments))
<1>1. PICK b \in Deployments : Bases = {b}
  BY OneBase
<1>2. identity.payload = PayloadOf(b) /\ identity.stream = StreamOf[b.digest]
        /\ identity.stream # NoStream
  BY <1>1 DEF BaseInv
<1>3. b.origin = NoOrigin <=> identity.payload.repo = NoRepo
  BY <1>2, DeploymentParts, ContainerRepo
<1>4. identity.stream \in Streams
  BY <1>2, DeploymentParts, NamesAssumption
<1>5. from \in Deployments
  BY LocalDeployType
<1>6. CASE Staged(deployments) = {}
  <2>1. from = b
    BY <1>1, <1>6, LocalIs
  <2> QED
    BY <1>2, <1>3, <1>4, <1>5, <2>1
<1>7. CASE Staged(deployments) # {}
  <2>1. from \in Staged(deployments)
    BY <1>7, LocalIs, MergeIs
  <2>2. /\ from.origin = NoOrigin <=> b.origin = NoOrigin
        /\ strayed \/ StreamOf[from.digest] = StreamOf[b.digest]
    BY <1>1, <2>1 DEF StagedInv
  <2> QED
    BY <1>2, <1>3, <1>4, <1>5, <2>2
<1> QED
  BY <1>6, <1>7

(* rpm-ostree starts from where the client takes it to, or from a booted    *)
(* deployment that follows nothing, while the client takes the override,    *)
(* which follows no stream.                                                 *)
LEMMA MergeOrigin ==
  ASSUME HostTypeOK, BaseInv
  PROVE  LET from == LocalDeploy(Status(deployments))
         IN \/ from = MergeDeployment
            \/ /\ MergeDeployment.origin = NoOrigin
               /\ from.origin \in [repo : Repos, tag : PinnedTags]
<1>1. CASE Staged(deployments) # {}
  BY <1>1, LocalIs
<1>2. CASE Staged(deployments) = {} /\ override = NoDeployment
  BY <1>2, LocalIs, MergeIs, BasesAre
<1>3. CASE Staged(deployments) = {} /\ override # NoDeployment
  <2>1. LocalDeploy(Status(deployments)) = override
    BY <1>3, LocalIs, BasesAre
  <2>2. override.origin \in [repo : Repos, tag : PinnedTags]
    BY <1>3, OverridesAssumption DEF HostTypeOK
  <2>3. MergeDeployment.origin = NoOrigin
    BY <1>3, MergeIs DEF BaseInv
  <2> QED
    BY <2>1, <2>2, <2>3
<1> QED
  BY <1>1, <1>2, <1>3

(* A checksum is deployed on a node that follows nothing.                   *)
LEMMA CommitIsPossible ==
  ASSUME HostTypeOK, BaseInv, StagedInv, Running, ~foreign,
         NEW target \in Payloads, target.repo = NoRepo,
         identity.payload.repo = NoRepo
  PROVE  Accepts(NoOrigin, target)
<1>1. LocalDeploy(Status(deployments)).origin = NoOrigin
  BY StartingPoint
<1>2. NoOrigin \notin [repo : Repos, tag : PinnedTags]
  BY NamesAssumption DEF NoOrigin
<1>3. MergeDeployment.origin = NoOrigin
  BY <1>1, <1>2, MergeOrigin
<1> QED
  BY <1>3 DEF Accepts, NoOrigin

(* An image is deployed within the repository, or the node rebased to the   *)
(* repository of the image.                                                 *)
LEMMA ImageIsPossible ==
  ASSUME HostTypeOK, BaseInv, StagedInv, Running, ~foreign,
         NEW target \in Payloads, target.repo # NoRepo,
         ~Undecidable(LocalDeploy(Status(deployments)))
  PROVE  LET ref == RebaseTarget(LocalDeploy(Status(deployments)), target)
         IN /\ Accepts(ref, target)
            /\ ref # NoOrigin => ref.repo = target.repo
            /\ strayed \/ OriginOf(ref).tag = identity.stream
<1> DEFINE from == LocalDeploy(Status(deployments))
           tag == TagOf(from, target)
<1>1. /\ from \in Deployments
      /\ strayed \/ StreamOf[from.digest] = identity.stream
  BY StartingPoint
<1>2. tag.repo = target.repo /\ tag.tag = StreamOf[from.digest]
  BY DEF TagOf
<1>3. StreamOf[from.digest] \in Streams
  BY <1>1, DeploymentParts, NamesAssumption DEF Undecidable
<1>4. tag # NoOrigin
  BY <1>2 DEF NoOrigin
<1>5. tag \notin [repo : Repos, tag : PinnedTags]
  <2>1. tag.tag \notin PinnedTags
    BY <1>2, <1>3, NamesAssumption
  <2> QED
    BY <2>1
<1>6. CASE from.origin # tag
  <2>1. RebaseTarget(from, target) = tag
    BY <1>6 DEF RebaseTarget
  <2>2. tag # MergeDeployment.origin
    <3> HIDE DEF from, tag
    <3>1. from = LocalDeploy(Status(deployments))
      BY DEF from
    <3> QED
      BY <1>4, <1>6, <3>1, MergeOrigin
  <2>3. Accepts(tag, target)
    BY <1>4, <2>2 DEF Accepts
  <2>4. OriginOf(tag) = tag
    BY <1>4 DEF OriginOf
  <2> QED
    BY <1>1, <1>2, <2>1, <2>3, <2>4
<1>7. CASE from.origin = tag
  <2>1. RebaseTarget(from, target) = NoOrigin
    BY <1>7 DEF RebaseTarget
  <2>2. MergeDeployment.origin = tag
    <3> HIDE DEF from, tag
    <3>1. from = LocalDeploy(Status(deployments))
      BY DEF from
    <3> QED
      BY <1>5, <1>7, <3>1, MergeOrigin
  <2>3. Accepts(NoOrigin, target)
    BY <1>2, <2>2 DEF Accepts
  <2>4. OriginOf(NoOrigin) = tag
    BY <2>2 DEF OriginOf
  <2> QED
    BY <1>1, <1>2, <2>1, <2>3, <2>4
<1> QED
  BY <1>6, <1>7

-----------------------------------------------------------------------------
(* Steps.                                                                   *)

(* What a deploy by the agent stages: the target, under its name.           *)
LEMMA DeployStages ==
  ASSUME HostTypeOK, request \in Requests, TargetInv,
         At("stage", "command"), DeployEffect(request.ref, request.target)
  PROVE  \E new \in Deployments :
           /\ Staged(deployments)' = {new}
           /\ new.digest = request.target.digest
           /\ new.origin = OriginOf(request.ref)
           /\ PayloadOf(new) = request.target
<1> DEFINE new == Deployed([digest |-> request.target.digest,
                            origin |-> OriginOf(request.ref)], FALSE, TRUE)
<1>1. request.target \in Payloads /\ request.ref \in Origins \union {NoOrigin}
  BY DEF At, Requests, Idle, Asked
<1>2. MergeDeployment \in Deployments
  BY MergeIsDeployed DEF HostTypeOK
<1>3. OriginOf(request.ref) \in Origins \union {NoOrigin}
  BY <1>1, <1>2, DeploymentParts DEF OriginOf
<1>4. /\ new \in Deployments /\ new.staged
      /\ new.digest = request.target.digest /\ new.origin = OriginOf(request.ref)
  BY <1>1, <1>3 DEF Deployed, Deployments, Payloads
<1>5. deployments' = (deployments \ Staged(deployments)) \union {new}
  BY DEF DeployEffect, Stage, OriginOf
<1>6. OriginOf(request.ref).repo = request.target.repo
  BY DEF OriginOf, DeployEffect, Accepts, TargetInv, At
<1>7. PayloadOf(new) = request.target
  BY <1>1, <1>4, <1>6 DEF PayloadOf, Payloads
<1> HIDE DEF new
<1>8. Staged(deployments)' = {new}
  BY <1>4, <1>5 DEF Staged
<1> QED
  BY <1>4, <1>7, <1>8

(* A step reboots the host, deploys for the agent, is somebody else's who   *)
(* stages or cleans up, cleans up for the agent, or leaves what is staged   *)
(* alone.                                                                   *)
LEMMA Kinds ==
  ASSUME IInv, [Next]_vars
  PROVE  \/ FinalizeSucceeds
         \/ /\ At("stage", "command")
            /\ DeployEffect(request.ref, request.target)
            /\ request' = Idle /\ identity' = identity
         \/ foreign' /\ mine' = NoPayload /\ UNCHANGED <<request, identity>>
         \/ /\ Staged(deployments)' = {} /\ mine' = NoPayload
            /\ request' = Idle /\ identity' = identity
            /\ UNCHANGED <<foreign, strayed>>
         \/ /\ Staged(deployments)' = Staged(deployments)
            /\ UNCHANGED <<foreign, strayed, mine>>
<1>1. CASE DeploySucceeds \/ DeployFails
  BY <1>1 DEF DeploySucceeds, DeployFails, Replies, Staged, historyVars, hostVars
<1>2. CASE CleanupSucceeds
  BY <1>2 DEF CleanupSucceeds, Unstage, Staged, Replies
<1>3. CASE OtherCleansUp \/ \E i \in HostImages : OtherStages(i)
  BY <1>3 DEF OtherCleansUp, OtherStages, agentVars
<1>4. CASE OtherDropsRollback
  BY <1>4 DEF OtherDropsRollback, Staged, Booted, historyVars, IInv, TypeOK, HostTypeOK
<1> QED
  BY <1>1, <1>2, <1>3, <1>4
  DEF Next, Serve, vars, Staged, StartAgent, AgentExits, Request,
      RegisterSucceeds, RegisterFails, Wake, ReadMtime, AnswerFromCache,
      AnswerFromStatus, DecideStage, AnswerPending, RequestFails, TimePasses

(* The base stays, until a reboot.                                          *)
LEMMA BasesStay ==
  ASSUME IInv, [Next]_vars, ~FinalizeSucceeds
  PROVE  Bases' = Bases /\ override' = override
           /\ Booted(deployments)' = Booted(deployments)
<1>1. HostTypeOK /\ HostTypeOK'
  BY HostStep DEF IInv, TypeOK
<1>2. override' = override /\ Booted(deployments)' = Booted(deployments)
  BY BootStays
<1>3. CASE override = NoDeployment
  BY <1>2, <1>3 DEF Bases, Status
<1>4. CASE override # NoDeployment
  <2>1. override.booted
    BY <1>1, <1>4, OverridesAssumption DEF HostTypeOK
  <2>2. PICK e \in deployments' : Booted(deployments)' = {e}
    BY <1>1 DEF HostTypeOK
  <2>3. Bases' = {override}
    BY <1>2, <1>4, <2>1, <2>2, BootedReplaced DEF Bases, Status, Booted
  <2> QED
    BY <1>1, <1>2, <1>4, <2>3, BasesAre
<1> QED
  BY <1>2, <1>3, <1>4

(* The identity is that of the base, over every step.                       *)
LEMMA BaseStep == ASSUME IInv, BaseInv, [Next]_vars PROVE BaseInv'
<1>1. CASE FinalizeSucceeds
  BY <1>1 DEF FinalizeSucceeds, NoProcess, BaseInv, Running
<1>2. CASE StartAgent
  <2>1. Bases' = Bases /\ UNCHANGED <<override, deployments>>
    BY <1>2 DEF StartAgent, Bases, Status, Booted
  <2>2. PICK d \in Bases : /\ StreamOf[d.digest] # NoStream
                           /\ identity' = [payload |-> PayloadOf(d),
                                           stream |-> StreamOf[d.digest]]
    BY <1>2 DEF StartAgent, Bases
  <2>3. Bases = {d}
    BY <2>2, OneBase DEF IInv, TypeOK
  <2> QED
    BY <2>1, <2>2, <2>3 DEF BaseInv, Booted
<1>3. CASE ~FinalizeSucceeds /\ (UNCHANGED identity \/ ~Running')
  BY <1>3, BasesStay DEF BaseInv, Running
<1>4. StartAgent \/ FinalizeSucceeds \/ UNCHANGED identity \/ ~Running'
  BY DEF Next, Serve, vars, Request, RegisterSucceeds, AgentExits, NoProcess,
      RegisterFails, Wake, ReadMtime, AnswerFromCache, AnswerFromStatus,
      DecideStage, DeploySucceeds, DeployFails, AnswerPending, CleanupSucceeds,
      RequestFails, OtherStages, OtherCleansUp, OtherDropsRollback, TimePasses,
      Running
<1> QED
  BY <1>1, <1>2, <1>3, <1>4

(* After a reboot nothing is staged.                                        *)
LEMMA NothingStaged ==
  ASSUME HostTypeOK, FinalizeSucceeds
  PROVE  Staged(deployments)' = {} /\ mine' = NoPayload /\ request' = Idle
<1>1. PICK d \in Staged(deployments) :
        deployments' = {[d EXCEPT !.booted = TRUE, !.staged = FALSE]} \union
                         {[b EXCEPT !.booted = FALSE] : b \in Booted(deployments)}
  BY DEF FinalizeSucceeds
<1>2. ~[d EXCEPT !.booted = TRUE, !.staged = FALSE].staged
  BY DEF HostTypeOK, Staged, Deployments
<1>3. \A b \in Booted(deployments) : ~[b EXCEPT !.booted = FALSE].staged
  BY DEF HostTypeOK, Staged, Booted, Deployments
<1>4. Staged(deployments)' = {}
  BY <1>1, <1>2, <1>3 DEF Staged
<1> QED
  BY <1>4 DEF FinalizeSucceeds, NoProcess

(* rpm-ostree starts from the same deployment while the staged and the      *)
(* booted ones are the same.                                                *)
LEMMA MergeStays ==
  ASSUME HostTypeOK, HostTypeOK', Staged(deployments)' = Staged(deployments),
         Booted(deployments)' = Booted(deployments)
  PROVE  MergeDeployment' = MergeDeployment
<1>1. CASE Staged(deployments) = {}
  <2>1. MergeDeployment' = CHOOSE d \in deployments' : d.booted
    BY <1>1 DEF MergeDeployment
  <2>2. MergeDeployment' \in Booted(deployments)'
    BY <2>1 DEF HostTypeOK, Booted
  <2> QED
    BY <1>1, <2>2, MergeIs
<1>2. CASE Staged(deployments) # {}
  <2>1. MergeDeployment' = CHOOSE d \in deployments' : d.staged
    BY <1>2 DEF MergeDeployment
  <2>2. MergeDeployment' \in Staged(deployments)'
    BY <1>2, <2>1 DEF Staged
  <2> QED
    BY <1>2, <2>2, MergeIs
<1> QED
  BY <1>1, <1>2

(* The agent only stages what keeps a node on containers, or off them.      *)
LEMMA StagedStep == ASSUME DInv, [Next]_vars PROVE StagedInv'
<1> USE DEF DInv, IInv, TypeOK
<1> SUFFICES ASSUME ~foreign', NEW d \in Staged(deployments)', NEW b \in Bases'
             PROVE  /\ d.origin = NoOrigin <=> b.origin = NoOrigin
                    /\ strayed' \/ StreamOf[d.digest] = StreamOf[b.digest]
  BY DEF StagedInv
<1>1. ~FinalizeSucceeds
  BY NothingStaged
<1>2. b \in Bases
  BY <1>1, BasesStay
<1>3. CASE At("stage", "command") /\ DeployEffect(request.ref, request.target)
  <2>1. PICK new \in Deployments :
          /\ Staged(deployments)' = {new}
          /\ new.digest = request.target.digest
          /\ PayloadOf(new) = request.target
    BY <1>3, DeployStages DEF ProcessTypeOK
  <2>2. d = new
    BY <2>1
  <2>3. Running /\ (request.target.repo = NoRepo <=> identity.payload.repo = NoRepo)
    BY <1>3 DEF At, TargetInv
  <2>4. identity.payload = PayloadOf(b) /\ identity.stream = StreamOf[b.digest]
    BY <1>2, <2>3 DEF BaseInv
  <2>5. b \in Deployments
    BY <1>2, OneBase
  <2>6. new.origin = NoOrigin <=> b.origin = NoOrigin
    BY <2>1, <2>3, <2>4, <2>5, DeploymentParts, ContainerRepo
  <2>7. strayed' \/ StreamOf[request.target.digest] = identity.stream
    BY <1>3 DEF DeployEffect
  <2> QED
    BY <2>1, <2>2, <2>4, <2>6, <2>7
<1>4. CASE Staged(deployments)' = Staged(deployments) /\ UNCHANGED <<foreign, strayed>>
  BY <1>2, <1>4 DEF StagedInv
<1> QED
  BY <1>1, <1>3, <1>4, Kinds

(* How a request to stage comes about: it is made, or decided on, or waits. *)
LEMMA StageRequests ==
  ASSUME IInv, [Next]_vars, request'.kind = "stage"
  PROVE  Request \/ DecideStage \/ UNCHANGED <<request, identity>>
<1>1. CASE RegisterFails \/ Wake \/ ReadMtime
  <2>1. request'.kind = request.kind /\ request.kind # "stage"
    BY <1>1
    DEF RegisterFails, Wake, ReadMtime, At, IInv, TypeOK, ProcessTypeOK, Requests,
        Idle, Asked
  <2> QED
    BY <2>1
<1>2. CASE request' = Idle
  BY <1>2 DEF Idle, Asked
<1>3. CASE StartAgent
  BY <1>3 DEF StartAgent, Asked
<1>4. CASE Serve
  BY <1>1, <1>2, <1>4
  DEF Serve, NoProcess, Replies, RegisterSucceeds, AnswerFromCache,
      AnswerFromStatus, DeploySucceeds, DeployFails, AnswerPending,
      CleanupSucceeds, FinalizeSucceeds, RequestFails
<1>5. CASE AgentExits
  BY <1>2, <1>5 DEF AgentExits, NoProcess
<1> QED
  BY <1>3, <1>4, <1>5
  DEF Next, vars, OtherStages, OtherCleansUp, OtherDropsRollback, TimePasses

(* A decision, taken apart.                                                 *)
LEMMA Decisions ==
  ASSUME IInv, TargetInv, DecideStage, request' # Idle
  PROVE  LET from == LocalDeploy(Status(deployments))
             target == request.target
         IN /\ Running /\ UNCHANGED <<identity, deployments, override, foreign, strayed>>
            /\ target \in Payloads
            /\ target.repo = NoRepo <=> identity.payload.repo = NoRepo
            /\ request'.step = "command" /\ request'.target = target
            /\ \/ target.repo = NoRepo /\ request'.ref = NoOrigin
               \/ /\ target.repo # NoRepo /\ ~Undecidable(from)
                  /\ request'.ref = RebaseTarget(from, target)
<1>1. request.kind = "stage" /\ request.step = "status"
  BY DEF DecideStage, At
<1>2. request \in [kind : {"stage", "finalize"}, step : {"status", "command"},
                   target : Payloads, ref : Origins \union {NoOrigin}]
  BY <1>1 DEF IInv, TypeOK, ProcessTypeOK, Requests, Idle, Asked
<1> QED
  BY <1>1, <1>2 DEF DecideStage, TargetInv, Replies

(* Targets stay of the kind of the node.                                    *)
LEMMA TargetStep == ASSUME DInv, [Next]_vars PROVE TargetInv'
<1> USE DEF DInv
<1> SUFFICES ASSUME request'.kind = "stage" PROVE TargetInv'
  BY DEF TargetInv
<1>1. CASE Request
  <2>1. PICK t \in Targets : request' = [Asked("stage", "status") EXCEPT !.target = t]
    BY <1>1 DEF Request, Asked
  <2>2. request'.target = t /\ request'.ref = NoOrigin
    BY <2>1 DEF Asked
  <2>3. Running /\ identity' = identity
    BY <1>1 DEF Request, Ready
  <2> QED
    BY <2>1, <2>2, <2>3 DEF TargetInv, Targets, Running
<1>2. CASE DecideStage
  <2>1. request' # Idle
    BY DEF Idle, Asked
  <2>2. CASE request.target.repo = NoRepo
    BY <1>2, <2>1, <2>2, Decisions DEF TargetInv, Running
  <2>3. CASE request.target.repo # NoRepo
    <3>1. RebaseTarget(LocalDeploy(Status(deployments)), request.target) # NoOrigin
            => RebaseTarget(LocalDeploy(Status(deployments)), request.target).repo
                 = request.target.repo
      BY DEF RebaseTarget, TagOf
    <3> QED
      BY <1>2, <2>1, <2>3, <3>1, Decisions DEF TargetInv, Running
  <2> QED
    BY <2>2, <2>3
<1>3. CASE UNCHANGED <<request, identity>>
  BY <1>3 DEF TargetInv, Running
<1> QED
  BY <1>1, <1>2, <1>3, StageRequests

(* What was decided stays possible.                                         *)
LEMMA CommandStep == ASSUME DInv, [Next]_vars PROVE CommandInv'
<1> USE DEF DInv, IInv, TypeOK
<1> SUFFICES ASSUME At("stage", "command")', ~foreign' PROVE CommandInv'
  BY DEF CommandInv
<1>1. request'.kind = "stage" /\ request'.step = "command"
  BY DEF At
<1>2. CASE DecideStage
  <2>1. request' # Idle
    BY <1>1 DEF Idle, Asked
  <2>2. /\ Running /\ ~foreign
        /\ MergeDeployment' = MergeDeployment
        /\ UNCHANGED <<identity, strayed>>
    BY <1>2, <2>1, Decisions DEF MergeDeployment, Staged
  <2>3. CASE request.target.repo = NoRepo
    BY <1>2, <2>1, <2>2, <2>3, Decisions, CommitIsPossible
    DEF CommandInv, Accepts
  <2>4. CASE request.target.repo # NoRepo
    BY <1>2, <2>1, <2>2, <2>4, Decisions, ImageIsPossible
    DEF CommandInv, Accepts, OriginOf
  <2> QED
    BY <2>3, <2>4
<1>3. CASE UNCHANGED <<request, identity>>
  <2>1. request' # Idle
    BY <1>1 DEF Idle, Asked
  <2>2. ~FinalizeSucceeds
    BY <2>1, NothingStaged
  <2>3. Staged(deployments)' = Staged(deployments) /\ UNCHANGED <<foreign, strayed>>
    BY <2>1, <2>2, Kinds
  <2>4. MergeDeployment' = MergeDeployment
    BY <2>2, <2>3, HostStep, BasesStay, MergeStays
  <2> QED
    BY <1>3, <2>3, <2>4 DEF CommandInv, At, Accepts, OriginOf
<1>4. CASE Request
  BY <1>1, <1>4 DEF Request, Asked
<1> QED
  BY <1>1, <1>2, <1>3, <1>4, StageRequests

(* What the agent staged last stays staged, under its name.                 *)
LEMMA MineStep == ASSUME DInv, [Next]_vars PROVE MineInv'
<1> USE DEF DInv, IInv, TypeOK
<1> SUFFICES ASSUME mine' # NoPayload PROVE MineInv'
  BY DEF MineInv
<1>1. ~FinalizeSucceeds
  BY NothingStaged
<1>2. Bases' = Bases
  BY <1>1, BasesStay
<1>3. CASE At("stage", "command") /\ DeployEffect(request.ref, request.target)
  <2>1. PICK new \in Deployments :
          /\ Staged(deployments)' = {new}
          /\ new.origin = OriginOf(request.ref)
          /\ PayloadOf(new) = request.target
    BY <1>3, DeployStages DEF ProcessTypeOK
  <2>2. mine' = request.target /\ foreign' = foreign /\ (strayed => strayed')
    BY <1>3 DEF DeployEffect
  <2>3. \A b \in Bases : identity.stream = StreamOf[b.digest]
    BY <1>3 DEF At, TargetInv, BaseInv
  <2>4. mine'.repo # NoRepo /\ ~foreign' /\ ~strayed' => new.origin.tag = identity.stream
    BY <1>3, <2>1, <2>2 DEF CommandInv
  <2> QED
    BY <1>2, <2>1, <2>2, <2>3, <2>4 DEF MineInv, PayloadOf
<1>4. CASE Staged(deployments)' = Staged(deployments) /\ UNCHANGED <<foreign, strayed, mine>>
  BY <1>2, <1>4 DEF MineInv, PayloadOf
<1> QED
  BY <1>1, <1>3, <1>4, Kinds

-----------------------------------------------------------------------------
(* The inductive invariant, initially and over every step.                  *)
LEMMA DeploysInductive == Spec => []DInv
<1>1. ASSUME Init PROVE DInv
  <2>1. IInv
    BY <1>1, Initially
  <2>2. PICK i, rollback \in HostImages :
          /\ deployments = {Deployed(i, TRUE, FALSE), Deployed(rollback, FALSE, FALSE)}
          /\ override # NoDeployment => i.origin = NoOrigin
    BY <1>1 DEF Init
  <2>3. \A b \in Booted(deployments) : b.origin = i.origin
    BY <2>2 DEF Booted, Deployed
  <2>4. Staged(deployments) = {}
    BY <2>2 DEF Staged, Deployed
  <2>5. ~Running /\ request = Idle /\ mine = NoPayload
    BY <1>1 DEF Init, Running
  <2> QED
    BY <2>1, <2>2, <2>3, <2>4, <2>5
    DEF DInv, BaseInv, StagedInv, TargetInv, CommandInv, MineInv, At, Idle, Asked
<1>2. ASSUME DInv, [Next]_vars PROVE DInv'
  <2>1. IInv'
    BY <1>2, HostStep, ProcessStep, HistoryStep, BackoffStep, IdentityStep,
       CacheStep, ActiveStep DEF DInv, IInv, TypeOK
  <2> QED
    BY <1>2, <2>1, BaseStep, StagedStep, TargetStep, CommandStep, MineStep DEF DInv
<1> QED
  BY <1>1, <1>2, PTL DEF Spec

(* Unless somebody else stages or cleans up, rpm-ostree can carry out what  *)
(* the client makes of a request to stage, whatever was staged before, and  *)
(* the error that should never happen does not.                             *)
THEOREM DeploysArePossible == Spec => []DeployIsPossible
<1>1. ASSUME DInv PROVE DeployIsPossible
  <2> DEFINE from == LocalDeploy(Status(deployments))
  <2> USE <1>1 DEF DInv, IInv, TypeOK
  <2>1. ASSUME ~foreign, At("stage", "status"), request.target.repo # NoRepo
        PROVE  from.origin # NoOrigin /\ (StreamOf[from.digest] = NoStream => strayed)
    <3>1. Running /\ identity.payload.repo # NoRepo
      BY <2>1 DEF At, TargetInv
    <3> QED
      BY <2>1, <3>1, StartingPoint, NamesAssumption
  <2>2. ASSUME ~foreign, At("stage", "command")
        PROVE  Accepts(request.ref, request.target)
    BY <2>2 DEF CommandInv
  <2> QED
    BY <2>1, <2>2 DEF DeployIsPossible
<1> QED
  BY <1>1, DeploysInductive, PTL

(* What the agent staged last is what it asked for, under the name it asked *)
(* for; and, unless it was led astray, on the stream of the node.           *)
THEOREM TargetIsStaged == Spec => []StagedIsTarget
<1>1. ASSUME DInv PROVE StagedIsTarget
  <2>1. PICK b : Bases = {b}
    BY <1>1, OneBase DEF DInv, IInv, TypeOK
  <2>2. Running => identity.stream = StreamOf[b.digest]
    BY <1>1, <2>1 DEF DInv, BaseInv
  <2> QED
    BY <1>1, <2>1, <2>2 DEF DInv, MineInv, StagedIsTarget
<1> QED
  BY <1>1, DeploysInductive, PTL
=============================================================================
