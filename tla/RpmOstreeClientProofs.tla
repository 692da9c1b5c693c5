------------------------ MODULE RpmOstreeClientProofs ------------------------
(***************************************************************************)
(* What holds of the rpm-ostree client for all images, repositories and    *)
(* limits: types, the pauses of the registration, and the freshness of     *)
(* what it answers about the local deployments.                            *)
(***************************************************************************)
EXTENDS RpmOstreeClient, TLAPS

(* The identity is that of the booted deployment, or of the one the         *)
(* override pretends to be.                                                 *)
IdentityInv ==
  Running => \E d \in Status(deployments) :
               /\ d.booted /\ ~d.staged
               /\ identity.payload = PayloadOf(d)

(* The cached status was read no earlier than the time it is cached under,  *)
(* it holds the booted release, and it is the status of now if nothing has  *)
(* changed since that time, nor again within the tick it was read in.       *)
CacheInv ==
  cache # NoCache =>
    /\ 0 <= cache.mtime /\ cache.mtime <= cache.readAt
    /\ identity.payload \in LocalReleases(cache.status)
    /\ cache.mtime = mtime /\ mtime < cache.readAt =>
         cache.status = Status(deployments)

(* Only a running process has a request and a cache, and a request for the  *)
(* local deployments that asks for the status has read the time.            *)
ActiveInv ==
  /\ ~Running => request = Idle /\ cache = NoCache
  /\ At("local", "status") => 0 <= seen

IInv == /\ TypeOK /\ BackoffIsBounded /\ IdentityInv /\ CacheInv
        /\ ActiveInv

-----------------------------------------------------------------------------
USE DEF hostVars, agentVars, historyVars, boundVars

(* A deployment on its way to be staged.                                    *)
StageImages == [digest : Digests, origin : Origins \union {NoOrigin}]

(* Staging leaves one staged deployment and the booted one.                 *)
LEMMA StageKeepsHost ==
  ASSUME HostTypeOK, NEW image \in StageImages, Stage(image),
         UNCHANGED <<override, clock>>
  PROVE  HostTypeOK' /\ mtime' = clock /\ Booted(deployments)' = Booted(deployments)
<1> USE DEF HostTypeOK, Stage, StageImages, Deployed, Staged, Booted
<1>1. Deployed(image, FALSE, TRUE) \in Deployments
  BY DEF Deployments
<1>2. deployments' \subseteq Deployments
  BY <1>1
<1> DEFINE new == Deployed(image, FALSE, TRUE)
<1>a. new.booted = FALSE /\ new.staged = TRUE
  OBVIOUS
<1>b. deployments' = (deployments \ Staged(deployments)) \union {new}
  OBVIOUS
<1>c. \A d \in deployments : d.booted => d \notin Staged(deployments)
  OBVIOUS
<1> HIDE DEF new
<1>3. Booted(deployments)' = Booted(deployments)
  <2>1. {d \in deployments' : d.booted} = {d \in deployments : d.booted}
    BY <1>a, <1>b, <1>c
  <2> QED
    BY <2>1
<1>4. \A c, d \in Staged(deployments)' : c = d /\ ~c.booted
  <2>1. \A c \in Staged(deployments)' : c = new
    BY <1>b
  <2> QED
    BY <2>1, <1>a
<1>5. \E d \in deployments' : Booted(deployments)' = {d}
  BY <1>3
<1>6. override' \in Overrides \union {NoDeployment} /\ clock' \in 0..MaxClock /\ mtime' \in 0..clock'
  OBVIOUS
<1> QED
  BY <1>2, <1>3, <1>4, <1>5, <1>6

(* Dropping deployments other than the booted one keeps the host in order.  *)
LEMMA DropKeepsHost ==
  ASSUME HostTypeOK, deployments' \subseteq deployments,
         Booted(deployments) \subseteq deployments',
         mtime' = clock, UNCHANGED <<override, clock>>
  PROVE  HostTypeOK' /\ Booted(deployments)' = Booted(deployments)
<1> USE DEF HostTypeOK, Staged, Booted
<1>1. Booted(deployments)' = Booted(deployments)
  OBVIOUS
<1> QED
  BY <1>1

(* A status holds deployments, and its booted one is not staged.            *)
LEMMA StatusType ==
  ASSUME HostTypeOK
  PROVE  /\ Status(deployments) \subseteq Deployments
         /\ \A d \in Status(deployments) : d.booted => ~d.staged
<1> USE DEF HostTypeOK, Staged, Booted, Status
<1>1. CASE override = NoDeployment
  BY <1>1
<1>2. CASE override # NoDeployment
  <2>1. override \in Deployments /\ override.booted /\ ~override.staged
    BY <1>2, OverridesAssumption
  <2> QED
    BY <1>2, <2>1
<1> QED
  BY <1>1, <1>2

(* A deployment has the payload of a release.                               *)
LEMMA PayloadType == \A d \in Deployments : PayloadOf(d) \in Payloads
  BY DEF Deployments, Payloads, PayloadOf, Origins, NoOrigin

(* A status that keeps its booted deployments keeps them under the override *)
(* too.                                                                     *)
LEMMA StatusKeepsBooted ==
  ASSUME HostTypeOK, HostTypeOK', Booted(deployments)' = Booted(deployments),
         override' = override, NEW p,
         \E d \in Status(deployments) : d.booted /\ ~d.staged /\ p = PayloadOf(d)
  PROVE  \E d \in Status(deployments)' : d.booted /\ ~d.staged /\ p = PayloadOf(d)
<1>1. PICK d \in Status(deployments) : d.booted /\ ~d.staged /\ p = PayloadOf(d)
  OBVIOUS
<1>2. d \in Status(deployments)'
  <2>1. CASE override = NoDeployment
    BY <1>1, <2>1 DEF Status, Booted
  <2>2. CASE override # NoDeployment
    <3>1. PICK e \in deployments : d = IF e.booted THEN override ELSE e
      BY <1>1, <2>2 DEF Status
    <3>2. e \in Booted(deployments)
      BY <1>1, <3>1 DEF Booted
    <3>3. e \in deployments' /\ e.booted
      BY <3>2 DEF Booted
    <3> QED
      BY <2>2, <3>1, <3>3 DEF Status
  <2> QED
    BY <2>1, <2>2
<1> QED
  BY <1>1, <1>2

(* rpm-ostree always has a deployment to start from.                        *)
LEMMA MergeIsDeployed == ASSUME HostTypeOK PROVE MergeDeployment \in deployments
<1> DEFINE Merges(d) == IF Staged(deployments) = {} THEN d.booted ELSE d.staged
<1>1. \E d \in deployments : Merges(d)
  BY DEF HostTypeOK, Staged, Booted
<1>2. MergeDeployment = CHOOSE d \in deployments : Merges(d)
  BY DEF MergeDeployment
<1> HIDE DEF Merges
<1> QED
  BY <1>1, <1>2

(* Nor does the client lack one in the status.                              *)
LEMMA LocalDeployType ==
  ASSUME HostTypeOK
  PROVE  LocalDeploy(Status(deployments)) \in Deployments
<1> DEFINE status == Status(deployments)
           Starts(d) == IF Staged(status) = {} THEN d.booted ELSE d.staged
<1>1. \E d \in status : d.booted
  <2>1. PICK b \in deployments : b.booted
    BY DEF HostTypeOK, Booted
  <2>2. CASE override = NoDeployment
    BY <2>1, <2>2 DEF Status
  <2>3. CASE override # NoDeployment
    BY <2>1, <2>3, OverridesAssumption DEF Status, HostTypeOK
  <2> QED
    BY <2>2, <2>3
<1>2. \E d \in status : Starts(d)
  BY <1>1 DEF Staged
<1>3. LocalDeploy(status) = CHOOSE d \in status : Starts(d)
  BY DEF LocalDeploy
<1>4. status \subseteq Deployments
  BY StatusType
<1> HIDE DEF Starts, status
<1> QED
  BY <1>2, <1>3, <1>4 DEF status

(* What a deploy, by the agent, does to the host.                           *)
LEMMA DeployKeepsHost ==
  ASSUME HostTypeOK, request \in Requests,
         At("stage", "command"), DeployEffect(request.ref, request.target)
  PROVE  HostTypeOK' /\ mtime' = clock /\ Booted(deployments)' = Booted(deployments)
<1> DEFINE image == [digest |-> request.target.digest,
                     origin |-> IF request.ref # NoOrigin THEN request.ref
                                ELSE MergeDeployment.origin]
<1>1. Stage(image) /\ UNCHANGED <<override, clock>>
  BY DEF DeployEffect
<1>2. request.target \in Payloads /\ request.ref \in Origins \union {NoOrigin}
  BY DEF At, Requests, Idle, Asked
<1>3. MergeDeployment \in deployments
  BY MergeIsDeployed
<1>4. MergeDeployment.origin \in Origins \union {NoOrigin}
  BY <1>3 DEF HostTypeOK, Deployments
<1>5. request.target.digest \in Digests
  BY <1>2 DEF Payloads
<1>6. image \in StageImages
  BY <1>2, <1>4, <1>5 DEF StageImages
<1> HIDE DEF image
<1> QED
  BY <1>1, <1>6, StageKeepsHost

(* The host stays in order, whoever acts on it.                             *)
LEMMA HostStep == ASSUME IInv, [Next]_vars PROVE HostTypeOK'
<1> USE DEF IInv, TypeOK
<1>1. CASE UNCHANGED hostVars
  BY <1>1 DEF HostTypeOK, Staged, Booted
<1>2. CASE DeploySucceeds \/ DeployFails
  BY <1>1, <1>2, DeployKeepsHost DEF DeploySucceeds, DeployFails, ProcessTypeOK
<1>3. CASE CleanupSucceeds \/ OtherCleansUp
  BY <1>3, DropKeepsHost DEF CleanupSucceeds, OtherCleansUp, Unstage, HostTypeOK, Staged, Booted
<1>4. CASE FinalizeSucceeds
  <2>1. PICK d \in Staged(deployments) :
          deployments' = {[d EXCEPT !.booted = TRUE, !.staged = FALSE]} \union
                           {[b EXCEPT !.booted = FALSE] : b \in Booted(deployments)}
    BY <1>4 DEF FinalizeSucceeds
  <2> DEFINE new == [d EXCEPT !.booted = TRUE, !.staged = FALSE]
  <2>2. PICK b \in deployments : Booted(deployments) = {b}
    BY DEF HostTypeOK
  <2> DEFINE old == [b EXCEPT !.booted = FALSE]
  <2>3. deployments' = {new, old}
    BY <2>1, <2>2
  <2>4. new \in Deployments /\ new.booted /\ ~new.staged
    BY DEF HostTypeOK, Staged, Deployments
  <2>5. old \in Deployments /\ ~old.booted /\ ~old.staged
    BY <2>2 DEF HostTypeOK, Staged, Booted, Deployments
  <2>6. override' = NoDeployment /\ mtime' = clock /\ clock' = clock
    BY <1>4 DEF FinalizeSucceeds
  <2> HIDE DEF new, old
  <2> QED
    BY <2>3, <2>4, <2>5, <2>6 DEF HostTypeOK, Staged, Booted
<1>5. ASSUME NEW i \in HostImages, OtherStages(i)
      PROVE  HostTypeOK'
  BY <1>5, StageKeepsHost, ImagesAssumption DEF OtherStages, StageImages
<1>6. CASE OtherDropsRollback
  BY <1>6, DropKeepsHost DEF OtherDropsRollback, Staged, Booted
<1>7. CASE TimePasses
  BY <1>7, BoundsAssumption DEF TimePasses, HostTypeOK, Staged, Booted
<1> QED
  BY <1>1, <1>2, <1>3, <1>4, <1>5, <1>6, <1>7
  DEF Next, Serve, vars, StartAgent, AgentExits, Request, RegisterSucceeds,
      RegisterFails, Wake, ReadMtime, AnswerFromCache, AnswerFromStatus,
      DecideStage, AnswerPending, RequestFails

(* The booted deployment only changes by a reboot, and other deployments    *)
(* only along with the modification time.                                   *)
LEMMA BootStays ==
  ASSUME IInv, [Next]_vars
  PROVE  \/ FinalizeSucceeds
         \/ /\ Booted(deployments)' = Booted(deployments)
            /\ override' = override
            /\ UNCHANGED <<deployments, mtime>> \/ mtime' = clock
<1> USE DEF IInv, TypeOK
<1>1. CASE UNCHANGED <<deployments, override, mtime>>
  BY <1>1 DEF Booted
<1>2. CASE DeploySucceeds \/ DeployFails
  BY <1>1, <1>2, DeployKeepsHost
  DEF DeploySucceeds, DeployFails, DeployEffect, ProcessTypeOK
<1>3. CASE CleanupSucceeds \/ OtherCleansUp
  BY <1>3 DEF CleanupSucceeds, OtherCleansUp, Unstage, HostTypeOK, Staged, Booted
<1>4. ASSUME NEW i \in HostImages, OtherStages(i)
      PROVE  /\ Booted(deployments)' = Booted(deployments)
             /\ override' = override
             /\ mtime' = clock
  BY <1>4, StageKeepsHost, ImagesAssumption DEF OtherStages, StageImages
<1>5. CASE OtherDropsRollback
  BY <1>5 DEF OtherDropsRollback, Staged, Booted
<1> QED
  BY <1>1, <1>2, <1>3, <1>4, <1>5
  DEF Next, Serve, vars, StartAgent, AgentExits, Request, RegisterSucceeds,
      RegisterFails, Wake, ReadMtime, AnswerFromCache, AnswerFromStatus,
      DecideStage, AnswerPending, RequestFails, TimePasses

(* The identity stays true, until the reboot that ends the process.         *)
LEMMA IdentityStep == ASSUME IInv, [Next]_vars PROVE IdentityInv'
<1>1. CASE ~Running'
  BY <1>1 DEF IdentityInv
<1>2. CASE StartAgent
  <2>1. Status(deployments)' = Status(deployments)
    BY <1>2 DEF StartAgent, Status
  <2>2. PICK d \in Booted(Status(deployments)) : identity'.payload = PayloadOf(d)
    BY <1>2 DEF StartAgent
  <2>3. d \in Status(deployments) /\ d.booted /\ ~d.staged
    BY <2>2, StatusType DEF Booted, IInv, TypeOK
  <2> QED
    BY <2>1, <2>2, <2>3 DEF IdentityInv
<1>3. CASE UNCHANGED identity /\ Running /\ ~FinalizeSucceeds
  BY <1>3, BootStays, HostStep, StatusKeepsBooted DEF IInv, TypeOK, IdentityInv
<1>4. CASE FinalizeSucceeds \/ AgentExits
  BY <1>4, <1>1 DEF FinalizeSucceeds, AgentExits, NoProcess, Running
<1>5. StartAgent \/ AgentExits \/ UNCHANGED identity \/ FinalizeSucceeds
  BY DEF Next, Serve, vars, Request, RegisterSucceeds,
      RegisterFails, Wake, ReadMtime, AnswerFromCache, AnswerFromStatus,
      DecideStage, DeploySucceeds, DeployFails, AnswerPending, CleanupSucceeds,
      RequestFails, OtherStages, OtherCleansUp, OtherDropsRollback, TimePasses
<1> QED
  BY <1>1, <1>2, <1>3, <1>4, <1>5 DEF Running

(* What a request for the local deployments caches and answers is of now.   *)
LEMMA FreshStatus ==
  ASSUME IInv, Running
  PROVE  identity.payload \in LocalReleases(Status(deployments))
  BY DEF IInv, IdentityInv, LocalReleases, Staged

(* The cache stays true.                                                    *)
LEMMA CacheStep == ASSUME IInv, [Next]_vars PROVE CacheInv'
<1>1. CASE cache' = NoCache
  BY <1>1 DEF CacheInv
<1>2. CASE AnswerFromStatus
  <2>1. cache' = [status |-> Status(deployments), mtime |-> seen, readAt |-> clock]
    BY <1>2 DEF AnswerFromStatus
  <2>2. UNCHANGED <<deployments, override, identity, mtime, clock>>
    BY <1>2 DEF AnswerFromStatus
  <2>3. Running /\ 0 <= seen
    BY <1>2 DEF AnswerFromStatus, IInv, ActiveInv, At, Idle, Asked
  <2>4. seen \in Int /\ mtime \in Int /\ clock \in Int /\ seen <= mtime /\ mtime <= clock
    BY BoundsAssumption DEF IInv, TypeOK, ProcessTypeOK, HostTypeOK
  <2>5. identity'.payload \in LocalReleases(cache'.status)
    BY <2>1, <2>2, <2>3, FreshStatus
  <2>6. cache'.status = Status(deployments)'
    BY <2>1, <2>2 DEF Status
  <2> QED
    BY <2>1, <2>3, <2>4, <2>5, <2>6 DEF CacheInv
<1>3. CASE UNCHANGED <<cache, identity>> /\ ~FinalizeSucceeds
  <2> SUFFICES ASSUME cache # NoCache,  cache.mtime = mtime', mtime' < cache.readAt
               PROVE  cache.status = Status(deployments)'
    BY <1>3 DEF CacheInv, IInv
  <2>1. mtime' # clock
    BY BoundsAssumption DEF IInv, TypeOK, ProcessTypeOK, HostTypeOK
  <2>2. UNCHANGED <<deployments, mtime, override>>
    BY <1>3, <2>1, BootStays
  <2> QED
    BY <2>2 DEF IInv, CacheInv, Status
<1>4. CASE StartAgent
  BY <1>4, <1>1 DEF StartAgent, IInv, ActiveInv
<1>5. AnswerFromStatus \/ cache' = NoCache \/ UNCHANGED <<cache, identity>> \/ StartAgent
  BY DEF Next, Serve, vars, Request, RegisterSucceeds, AgentExits, NoProcess,
      RegisterFails, Wake, ReadMtime, AnswerFromCache,
      DecideStage, DeploySucceeds, DeployFails, AnswerPending, CleanupSucceeds,
      RequestFails, OtherStages, OtherCleansUp, OtherDropsRollback, TimePasses,
      FinalizeSucceeds
<1>6. CASE FinalizeSucceeds
  BY <1>6, <1>1 DEF FinalizeSucceeds, NoProcess
<1> QED
  BY <1>1, <1>2, <1>3, <1>4, <1>5, <1>6

(* Requests belong to a running process.                                    *)
LEMMA ActiveStep == ASSUME IInv, [Next]_vars PROVE ActiveInv'
<1> USE DEF ActiveInv, Running, At, Idle, Asked, IInv
<1>1. CASE Serve
  <2>1. request.kind # "none"
    BY <1>1 DEF Serve, RegisterSucceeds, RegisterFails, Wake, ReadMtime,
       AnswerFromCache, AnswerFromStatus, DecideStage, DeploySucceeds,
       DeployFails, AnswerPending, CleanupSucceeds, FinalizeSucceeds, RequestFails
  <2>r. Running
    BY <2>1
  <2>2. CASE FinalizeSucceeds
    BY <2>2 DEF FinalizeSucceeds, NoProcess
  <2>3. CASE request' = Idle /\ identity' = identity
    BY <2>r, <2>3
  <2>4. CASE ReadMtime
    <3>1. 0 <= mtime
      BY BoundsAssumption DEF TypeOK, HostTypeOK
    <3> QED
      BY <2>r, <2>4, <3>1 DEF ReadMtime
  <2>5. CASE RegisterFails \/ Wake
    <3>1. request'.kind = "register" /\ identity' = identity
      BY <2>5 DEF RegisterFails, Wake, TypeOK, ProcessTypeOK, Requests
    <3> QED
      BY <2>r, <3>1
  <2>6. CASE DecideStage /\ request' # Idle
    <3>1. request'.kind = "stage" /\ identity' = identity
      BY <2>6 DEF DecideStage, Replies, TypeOK, ProcessTypeOK, Requests
    <3> QED
      BY <2>r, <3>1
  <2> QED
    BY <1>1, <2>2, <2>3, <2>4, <2>5, <2>6
    DEF Serve, Replies, RegisterSucceeds, AnswerFromCache, AnswerFromStatus,
        DecideStage, DeploySucceeds, DeployFails, AnswerPending,
        CleanupSucceeds, RequestFails
<1>2. CASE StartAgent
  <2>1. PICK d \in Status(deployments) :
          /\ StreamOf[d.digest] # NoStream
          /\ identity' = [payload |-> PayloadOf(d), stream |-> StreamOf[d.digest]]
    BY <1>2 DEF StartAgent, Booted
  <2>2. identity'.stream # NoIdentity.stream
    BY <2>1 DEF NoIdentity
  <2>3. Running'
    BY <2>2
  <2>4. ~At("local", "status")'
    BY <1>2 DEF StartAgent, Asked
  <2> QED
    BY <2>3, <2>4
<1>3. CASE Request
  BY <1>3 DEF Request, Ready, Asked
<1>4. CASE AgentExits
  BY <1>4 DEF AgentExits, NoProcess
<1>5. CASE UNCHANGED agentVars
  BY <1>5
<1> QED
  BY <1>1, <1>2, <1>3, <1>4, <1>5
  DEF Next, vars, OtherStages, OtherCleansUp, OtherDropsRollback, TimePasses

(* A request for a step, as a record.                                       *)
LEMMA AskedFor ==
  ASSUME NEW kind, NEW step, NEW target
  PROVE  [Asked(kind, step) EXCEPT !.target = target] =
           [kind |-> kind, step |-> step, target |-> target, ref |-> NoOrigin]
  BY DEF Asked

(* The requests are of their types.                                         *)
LEMMA RequestStep == ASSUME IInv, [Next]_vars PROVE request' \in Requests
<1> USE DEF IInv, TypeOK, ProcessTypeOK, Requests, Idle, Asked, At
<1>1. CASE UNCHANGED request \/ request' = Idle
  BY <1>1
<1>2. CASE RegisterFails \/ Wake \/ ReadMtime
  BY <1>2 DEF RegisterFails, Wake, ReadMtime
<1>3. CASE DecideStage
  <2>1. request \in [kind : {"stage"}, step : {"status"}, target : Payloads,
                     ref : Origins \union {NoOrigin}]
    BY <1>3 DEF DecideStage
  <2> DEFINE from == LocalDeploy(Status(deployments))
  <2>2. StreamOf[from.digest] # NoStream => StreamOf[from.digest] \in Streams
    <3>1. from \in Deployments
      BY LocalDeployType
    <3> QED
      BY <3>1, NamesAssumption DEF Deployments
  <2>3. request.target.repo # NoRepo /\ ~Undecidable(from) =>
          RebaseTarget(from, request.target) \in Origins \union {NoOrigin}
    BY <2>1, <2>2 DEF RebaseTarget, TagOf, Undecidable, Origins, Payloads
  <2> HIDE DEF from
  <2>4. \/ request' = Idle
        \/ request' = [request EXCEPT !.step = "command"]
        \/ /\ request.target.repo # NoRepo /\ ~Undecidable(from)
           /\ request' = [request EXCEPT !.step = "command",
                                         !.ref = RebaseTarget(from, request.target)]
    BY <1>3 DEF DecideStage, Replies, from
  <2>5. CASE request' = Idle
    BY <2>5
  <2>6. CASE request' = [request EXCEPT !.step = "command"]
    BY <2>1, <2>6
  <2>7. CASE /\ request.target.repo # NoRepo /\ ~Undecidable(from)
             /\ request' = [request EXCEPT !.step = "command",
                                           !.ref = RebaseTarget(from, request.target)]
    BY <2>1, <2>3, <2>7
  <2> QED
    BY <2>4, <2>5, <2>6, <2>7
<1>4. CASE StartAgent
  BY <1>4 DEF StartAgent, Asked
<1>5. CASE Request
  <2>1. \A d \in Staged(deployments) : PayloadOf(d) \in Payloads
    BY PayloadType DEF HostTypeOK, Staged
  <2>2. Targets \subseteq Payloads
    BY ImagesAssumption DEF Targets
  <2> QED
    BY <1>5, <2>1, <2>2, AskedFor DEF Request, Asked
<1> QED
  BY <1>1, <1>2, <1>3, <1>4, <1>5
  DEF Next, Serve, vars, Replies, AgentExits, NoProcess, RegisterSucceeds,
      AnswerFromCache, AnswerFromStatus, DeploySucceeds, DeployFails,
      AnswerPending, CleanupSucceeds, FinalizeSucceeds, RequestFails,
      OtherStages, OtherCleansUp, OtherDropsRollback, TimePasses

(* The replies are of their types.                                          *)
LEMMA ReplyStep ==
  ASSUME IInv, [Next]_vars
  PROVE  reply' \in [ok : BOOLEAN, releases : SUBSET Payloads]
<1> USE DEF IInv, TypeOK, ProcessTypeOK
<1>1. CASE UNCHANGED reply \/ reply' = Failed \/ reply' = Answer({})
  <2>1. Failed \in [ok : BOOLEAN, releases : SUBSET Payloads]
    BY DEF Failed
  <2>2. Answer({}) \in [ok : BOOLEAN, releases : SUBSET Payloads]
    BY DEF Answer
  <2> QED
    BY <1>1, <2>1, <2>2
<1>2. \A status \in SUBSET Deployments :
        LocalReleases(status) \subseteq Payloads /\
        {PayloadOf(d) : d \in Staged(status)} \subseteq Payloads
  BY PayloadType DEF LocalReleases, Staged
<1>3. CASE AnswerFromCache
  BY <1>2, <1>3 DEF AnswerFromCache, Replies, Answer
<1>4. CASE AnswerFromStatus
  BY <1>2, <1>4, StatusType DEF AnswerFromStatus, Replies, Answer
<1>5. CASE AnswerPending
  BY <1>2, <1>5, StatusType DEF AnswerPending, Replies, Answer
<1> QED
  BY <1>1, <1>3, <1>4, <1>5
  DEF Next, Serve, vars, Replies, StartAgent, AgentExits, NoProcess, Request,
      RegisterSucceeds, RegisterFails, Wake, ReadMtime, DecideStage,
      DeploySucceeds, DeployFails, CleanupSucceeds, FinalizeSucceeds,
      RequestFails, OtherStages, OtherCleansUp, OtherDropsRollback, TimePasses

(* The identity, and what is remembered of times, are of their types.       *)
LEMMA ProcessStep == ASSUME IInv, [Next]_vars PROVE ProcessTypeOK'
<1> USE DEF IInv, TypeOK, ProcessTypeOK
<1>1. identity' \in {NoIdentity} \union [payload : Payloads, stream : Streams]
  <2>1. CASE StartAgent
    <3>1. PICK d \in Status(deployments) :
            /\ StreamOf[d.digest] # NoStream
            /\ identity' = [payload |-> PayloadOf(d), stream |-> StreamOf[d.digest]]
      BY <2>1 DEF StartAgent, Booted
    <3>2. d \in Deployments
      BY <3>1, StatusType
    <3>3. PayloadOf(d) \in Payloads /\ StreamOf[d.digest] \in Streams
      BY <3>1, <3>2, PayloadType, NamesAssumption DEF Deployments
    <3> QED
      BY <3>1, <3>3
  <2>2. StartAgent \/ UNCHANGED identity \/ identity' = NoIdentity
    BY DEF Next, Serve, vars, Request, RegisterSucceeds, AgentExits, NoProcess,
        RegisterFails, Wake, ReadMtime, AnswerFromCache, AnswerFromStatus,
        DecideStage, DeploySucceeds, DeployFails, AnswerPending, CleanupSucceeds,
        RequestFails, OtherStages, OtherCleansUp, OtherDropsRollback, TimePasses,
        FinalizeSucceeds
  <2> QED
    BY <2>1, <2>2
<1>2. /\ seen \in Int /\ mtime \in Int /\ clock \in Int
      /\ -1 <= seen /\ seen <= mtime /\ mtime <= clock /\ 0 <= mtime
  BY BoundsAssumption DEF HostTypeOK
<1>3. mtime' \in Int /\ clock' \in Int /\ mtime <= mtime' /\ clock <= clock'
  <2>1. mtime' = mtime \/ mtime' = clock
    BY BootStays DEF FinalizeSucceeds
  <2>2. clock' = clock \/ clock' = clock + 1
    BY DEF Next, Serve, vars, StartAgent, Request, RegisterSucceeds, AgentExits,
        RegisterFails, Wake, ReadMtime, AnswerFromCache, AnswerFromStatus,
        DecideStage, DeploySucceeds, DeployFails, DeployEffect, AnswerPending,
        CleanupSucceeds, RequestFails, OtherStages, OtherCleansUp,
        OtherDropsRollback, TimePasses, FinalizeSucceeds
  <2> QED
    BY <1>2, <2>1, <2>2
<1>4. seen' \in -1..mtime'
  <2>1. seen' = seen \/ seen' = -1 \/ seen' = mtime
    BY DEF Next, Serve, vars, StartAgent, Request, RegisterSucceeds, AgentExits,
        NoProcess, RegisterFails, Wake, ReadMtime, AnswerFromCache,
        AnswerFromStatus, DecideStage, DeploySucceeds, DeployFails,
        AnswerPending, CleanupSucceeds, RequestFails, OtherStages,
        OtherCleansUp, OtherDropsRollback, TimePasses, FinalizeSucceeds
  <2> QED
    BY <1>2, <1>3, <2>1
<1>5. cache' \in [status : SUBSET Deployments, mtime : -1..mtime', readAt : -1..clock']
  <2>1. CASE cache' = cache
    <3>1. cache.mtime \in -1..mtime' /\ cache.readAt \in -1..clock'
      BY <1>2, <1>3
    <3> QED
      BY <2>1, <3>1
  <2>2. CASE cache' = NoCache
    BY <1>2, <1>3, <2>2 DEF NoCache
  <2>3. CASE AnswerFromStatus
    <3>1. cache' = [status |-> Status(deployments), mtime |-> seen, readAt |-> clock]
      BY <2>3 DEF AnswerFromStatus
    <3> QED
      BY <1>2, <1>3, <3>1, StatusType
  <2>4. cache' = cache \/ cache' = NoCache \/ AnswerFromStatus
    BY DEF Next, Serve, vars, StartAgent, Request, RegisterSucceeds, AgentExits,
        NoProcess, RegisterFails, Wake, ReadMtime, AnswerFromCache,
        DecideStage, DeploySucceeds, DeployFails,
        AnswerPending, CleanupSucceeds, RequestFails, OtherStages,
        OtherCleansUp, OtherDropsRollback, TimePasses, FinalizeSucceeds
  <2> QED
    BY <2>1, <2>2, <2>3, <2>4
<1> QED
  BY <1>1, <1>4, <1>5, RequestStep, ReplyStep

(* Each pause doubles the time paused so far, at most, up to the cap.       *)
LEMMA BackoffStep ==
  ASSUME IInv, [Next]_vars
  PROVE  /\ BackoffIsBounded'
         /\ retry' \in 1..(2 * MaxBackoff) /\ slept' \in 0..(4 * MaxBackoff)
<1> USE BackoffAssumption DEF IInv, TypeOK, HistoryTypeOK, BackoffIsBounded
<1>1. CASE Wake
  <2>1. retry' = NextPause /\ slept' = Slept
    BY <1>1 DEF Wake
  <2>2. /\ retry \in Int /\ slept \in Int /\ MaxBackoff \in Int /\ MaxBackoff > 0
        /\ 1 <= retry /\ 0 <= slept /\ slept <= 4 * MaxBackoff
    OBVIOUS
  <2>3. \/ NextPause = retry * 2 /\ retry < MaxBackoff
        \/ NextPause = retry /\ retry >= MaxBackoff
    BY <2>2 DEF NextPause
  <2>4. \/ Slept = slept /\ slept >= 2 * MaxBackoff
        \/ Slept = slept + retry /\ slept < 2 * MaxBackoff
    BY <2>2 DEF Slept
  <2> QED
    BY <2>1, <2>2, <2>3, <2>4
<1>2. CASE UNCHANGED <<retry, slept>>
  BY <1>2
<1>3. CASE retry' = 1 /\ slept' = 0
  BY <1>3
<1> QED
  BY <1>1, <1>2, <1>3
  DEF Next, Serve, vars, StartAgent, Request, RegisterSucceeds, AgentExits,
      NoProcess, RegisterFails, ReadMtime, AnswerFromCache, AnswerFromStatus,
      DecideStage, DeploySucceeds, DeployFails, DeployEffect, AnswerPending,
      CleanupSucceeds, RequestFails, OtherStages, OtherCleansUp,
      OtherDropsRollback, TimePasses, FinalizeSucceeds

(* What is remembered of who staged what is of its types.                   *)
LEMMA HistoryStep == ASSUME IInv, [Next]_vars PROVE HistoryTypeOK'
<1> USE DEF IInv, TypeOK, HistoryTypeOK
<1>1. mine' \in Payloads \union {NoPayload}
  <2>1. CASE DeploySucceeds \/ DeployFails
    <3>1. request.target \in Payloads
      BY <2>1 DEF DeploySucceeds, DeployFails, At, ProcessTypeOK, Requests, Idle, Asked
    <3> QED
      BY <2>1, <3>1 DEF DeploySucceeds, DeployFails, DeployEffect
  <2> QED
    BY <2>1
    DEF Next, Serve, vars, StartAgent, Request, RegisterSucceeds, AgentExits,
        RegisterFails, Wake, ReadMtime, AnswerFromCache, AnswerFromStatus,
        DecideStage, AnswerPending, CleanupSucceeds, RequestFails, OtherStages,
        OtherCleansUp, OtherDropsRollback, TimePasses, FinalizeSucceeds
<1>2. foreign' \in BOOLEAN /\ strayed' \in BOOLEAN
  BY DEF Next, Serve, vars, StartAgent, Request, RegisterSucceeds, AgentExits,
      RegisterFails, Wake, ReadMtime, AnswerFromCache, AnswerFromStatus,
      DecideStage, DeploySucceeds, DeployFails, DeployEffect, AnswerPending,
      CleanupSucceeds, RequestFails, OtherStages, OtherCleansUp,
      OtherDropsRollback, TimePasses, FinalizeSucceeds
<1>3. exits' \in 0..MaxExits /\ otherOps' \in 0..MaxOtherOps
  <2>1. exits' = exits \/ (exits < MaxExits /\ exits' = exits + 1)
    BY DEF Next, Serve, vars, StartAgent, Request, RegisterSucceeds, AgentExits,
        RegisterFails, Wake, ReadMtime, AnswerFromCache, AnswerFromStatus,
        DecideStage, DeploySucceeds, DeployFails, DeployEffect, AnswerPending,
        CleanupSucceeds, RequestFails, OtherStages, OtherCleansUp,
        OtherDropsRollback, TimePasses, FinalizeSucceeds
  <2>2. otherOps' = otherOps \/ (otherOps < MaxOtherOps /\ otherOps' = otherOps + 1)
    BY DEF Next, Serve, vars, StartAgent, Request, RegisterSucceeds, AgentExits,
        RegisterFails, Wake, ReadMtime, AnswerFromCache, AnswerFromStatus,
        DecideStage, DeploySucceeds, DeployFails, DeployEffect, AnswerPending,
        CleanupSucceeds, RequestFails, OtherStages, OtherCleansUp,
        OtherDropsRollback, TimePasses, FinalizeSucceeds
  <2> QED
    BY <2>1, <2>2, BoundsAssumption
<1> QED
  BY <1>1, <1>2, <1>3, BackoffStep

-----------------------------------------------------------------------------
(* The inductive invariant holds initially.                                 *)
LEMMA Initially == ASSUME Init PROVE IInv
<1>1. HostTypeOK
  <2>1. PICK i, rollback \in HostImages :
          /\ deployments = {Deployed(i, TRUE, FALSE), Deployed(rollback, FALSE, FALSE)}
          /\ override \in {NoDeployment} \union
                           (IF i.origin = NoOrigin THEN Overrides ELSE {})
    BY DEF Init
  <2> DEFINE b == Deployed(i, TRUE, FALSE)
             r == Deployed(rollback, FALSE, FALSE)
  <2>2. b \in Deployments /\ b.booted /\ ~b.staged
    BY ImagesAssumption DEF Deployed, Deployments
  <2>3. r \in Deployments /\ ~r.booted /\ ~r.staged
    BY ImagesAssumption DEF Deployed, Deployments
  <2>4. deployments = {b, r}
    BY <2>1
  <2> HIDE DEF b, r
  <2> QED
    <3>1. Staged(deployments) = {} /\ Booted(deployments) = {b}
      BY <2>2, <2>3, <2>4 DEF Staged, Booted
    <3>2. override \in Overrides \union {NoDeployment} /\ clock = 0 /\ mtime = 0
      BY <2>1 DEF Init
    <3> QED
      BY <2>2, <2>3, <2>4, <3>1, <3>2, BoundsAssumption DEF HostTypeOK
<1>2. ProcessTypeOK
  <2>1. cache \in [status : SUBSET Deployments, mtime : -1..mtime, readAt : -1..clock]
    BY DEF Init, NoCache
  <2>2. reply \in [ok : BOOLEAN, releases : SUBSET Payloads]
    BY DEF Init, Failed
  <2> QED
    BY <2>1, <2>2 DEF Init, ProcessTypeOK, Requests
<1>3. HistoryTypeOK /\ BackoffIsBounded
  <2>1. /\ retry = 1 /\ slept = 0 /\ foreign = FALSE /\ strayed = FALSE
        /\ mine = NoPayload /\ exits = 0 /\ otherOps = 0
    BY DEF Init
  <2>2. 1 \in 1..(2 * MaxBackoff) /\ 0 \in 0..(4 * MaxBackoff) /\ 1 < 2 * MaxBackoff
    BY BackoffAssumption
  <2>3. 0 \in 0..MaxExits /\ 0 \in 0..MaxOtherOps
    BY BoundsAssumption
  <2>4. retry <= slept + 1
    BY <2>1
  <2> QED
    BY <2>1, <2>2, <2>3, <2>4, Zenon DEF HistoryTypeOK, BackoffIsBounded
<1>4. IdentityInv /\ CacheInv /\ ActiveInv
  BY DEF Init, IdentityInv, CacheInv, ActiveInv, Running, At, Idle, Asked
<1> QED
  BY <1>1, <1>2, <1>3, <1>4 DEF IInv, TypeOK

(* Every step keeps the inductive invariant, part by part.                  *)
LEMMA Inductive == Spec => []IInv
<1>1. Init => IInv
  BY Initially
<1>2. IInv /\ [Next]_vars => IInv'
  BY HostStep, ProcessStep, HistoryStep, BackoffStep, IdentityStep, CacheStep,
     ActiveStep DEF IInv, TypeOK
<1> QED
  BY <1>1, <1>2, PTL DEF Spec

(* Types.                                                                   *)
THEOREM TypeCorrect == Spec => []TypeOK
  BY Inductive, PTL DEF IInv

(* The registration as the update driver is tried again before the time it  *)
(* has failed for has doubled, and at the least once in twice the cap.      *)
THEOREM BackoffBounded == Spec => []BackoffIsBounded
  BY Inductive, PTL DEF IInv

(* The local deployments the agent denies are those of now, the booted one  *)
(* among them, but for the two races that AnswerIsFresh names: neither the  *)
(* cache nor the other users of rpm-ostree can make it deny too little.     *)
THEOREM AnswersAreFresh == Spec => AnswerIsFresh
<1> DEFINE Fresh ==
      At("local", "status") /\ request' = Idle /\ reply'.ok =>
        /\ identity.payload \in reply'.releases
        /\ mtime = seen /\ mtime # cache'.readAt =>
             reply'.releases = LocalReleases(Status(deployments))
<1>1. ASSUME IInv, [Next]_vars PROVE [Fresh]_vars
  <2> SUFFICES ASSUME At("local", "status"), request' = Idle, reply'.ok
               PROVE  Fresh \/ UNCHANGED vars
    OBVIOUS
  <2> USE <1>1
  <2>1. Running
    BY DEF IInv, ActiveInv, At, Idle, Asked
  <2>2. CASE AnswerFromStatus
    <3>1. reply'.releases = LocalReleases(Status(deployments))
      BY <2>2 DEF AnswerFromStatus, Replies, Answer
    <3> QED
      BY <2>1, <3>1, FreshStatus
  <2>3. CASE AnswerFromCache
    <3>1. reply'.releases = LocalReleases(cache.status) /\ cache' = cache
      BY <2>3 DEF AnswerFromCache, Replies, Answer
    <3>2. cache # NoCache /\ cache.mtime = seen
      BY <2>3 DEF AnswerFromCache, UpToDate
    <3>3. cache.mtime \in Int /\ cache.readAt \in Int /\ mtime \in Int
      BY BoundsAssumption DEF IInv, TypeOK, ProcessTypeOK, HostTypeOK
    <3>4. mtime = seen /\ mtime # cache.readAt => cache.status = Status(deployments)
      BY <3>2, <3>3 DEF IInv, CacheInv
    <3> QED
      BY <3>1, <3>2, <3>4 DEF IInv, CacheInv
  <2>4. CASE ~AnswerFromStatus /\ ~AnswerFromCache
    <3>1. Failed.ok = FALSE
      BY DEF Failed
    <3>2. reply' = Failed \/ request' = request
      BY <2>4
      DEF Next, Serve, vars, Replies, StartAgent, Request, Ready, At, Idle, Asked,
          RegisterSucceeds, AgentExits, NoProcess, RegisterFails, Wake,
          ReadMtime, DecideStage, DeploySucceeds, DeployFails, AnswerPending,
          CleanupSucceeds, RequestFails, OtherStages, OtherCleansUp,
          OtherDropsRollback, TimePasses, FinalizeSucceeds
    <3> QED
      BY <3>1, <3>2 DEF At, Idle, Asked
  <2> QED
    BY <2>2, <2>3, <2>4
<1> QED
  BY <1>1, Inductive, PTL DEF Spec, AnswerIsFresh

=============================================================================
