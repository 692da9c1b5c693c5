--------------------------- MODULE RpmOstreeClient ---------------------------
(***************************************************************************)
(* The rpm-ostree client of one node: the actor of rpm_ostree/actor.rs,    *)
(* that serves one request at a time on its one thread, the command        *)
(* wrappers it calls, the part of the identity that is read from the same  *)
(* status, and the deployments of the host as rpm-ostree manages them,     *)
(* with other users of rpm-ostree that act between two steps of a request. *)
(*                                                                         *)
(* UpdateAgent takes the requests as single steps and their outcomes as    *)
(* given; here they are taken apart: which command a deploy becomes, what  *)
(* the cached status answers, how registration is retried.  The actor is   *)
(* modelled as the component it is and serves any request at any time,     *)
(* though the update agent of today asks for the local deployments once.   *)
(*                                                                         *)
(* A payload is an OSTree checksum (in no repository) or the digest of a   *)
(* container image in a repository; the origin of a deployment is the      *)
(* tagged image it follows, if any.                                        *)
(***************************************************************************)
EXTENDS Integers

CONSTANTS
  Digests,      \* checksums and digests of images
  Repos,        \* repositories of container images
  StreamOf,     \* the stream label of each image, or NoStream
  Streams,      \* streams: labels of images, tags of repositories
  PinnedTags,   \* tags that are no stream (a version)
  Offered,      \* the payloads in the update graph
  HostImages,   \* the images, with their origin, that somebody else than the
                \* agent installs
  Overrides,    \* what the migration to OCI may leave in the status override
                \* file: the booted deployment to pretend, if any
  MaxBackoff,   \* cap of the pause between two registrations (256 seconds)
  MaxClock,     \* bound: the time
  MaxExits,     \* bound: exits of the process, reboots included
  MaxOtherOps   \* bound: commands of other users of rpm-ostree

NoRepo == "no repository"
NoStream == "no stream"
NoTag == "no tag"
NoOrigin == [repo |-> NoRepo, tag |-> NoTag]
Origins == [repo : Repos, tag : Streams \union PinnedTags]
Payloads == [repo : Repos \union {NoRepo}, digest : Digests]
Deployments == [digest : Digests, origin : Origins \union {NoOrigin},
                booted : BOOLEAN, staged : BOOLEAN]
NoDeployment == [digest |-> "no digest", origin |-> NoOrigin,
                 booted |-> FALSE, staged |-> FALSE]
NoPayload == [repo |-> NoRepo, digest |-> "no digest"]

ASSUME NamesAssumption ==
  /\ NoRepo \notin Repos
  /\ NoStream \notin Streams
  /\ "no digest" \notin Digests
  /\ PinnedTags \intersect Streams = {}
  /\ StreamOf \in [Digests -> Streams \union {NoStream}]
ASSUME ImagesAssumption ==
  /\ HostImages \subseteq [digest : Digests, origin : Origins \union {NoOrigin}]
  /\ Offered \subseteq Payloads
ASSUME BackoffAssumption == MaxBackoff \in Nat \ {0}
ASSUME BoundsAssumption ==
  MaxClock \in Nat /\ MaxExits \in Nat /\ MaxOtherOps \in Nat
\* The file is there to have the node rebased: it follows no stream tag.
ASSUME OverridesAssumption ==
  \A o \in Overrides \ {NoDeployment} :
    /\ o \in Deployments
    /\ o.booted /\ ~o.staged
    /\ o.origin \in [repo : Repos, tag : PinnedTags]

VARIABLES
  (* The host. *)
  deployments,  \* what rpm-ostree reports, the staged deployment included
  override,     \* the status override file under /run
  clock, mtime, \* the time, and the modification time of /ostree/deploy
  (* The agent process. *)
  identity,     \* payload of the booted release, and its stream
  request,      \* the request the actor works on, and how far it is
  seen,         \* the modification time that the request has read
  cache,        \* the status cache of the actor
  retry,        \* the next pause of the registration
  reply,        \* the last reply: releases, if they were asked for
  (* History. *)
  slept,        \* the time this registration has paused so far (not counted
                \* beyond twice the cap)
  foreign,      \* somebody else has staged or cleaned up since the boot
  strayed,      \* an image of another stream was staged since the boot
  mine,         \* the payload staged last, unless somebody else interfered
  (* Bounds. *)
  exits, otherOps

hostVars == <<deployments, override, clock, mtime>>
agentVars == <<identity, request, seen, cache, retry, reply>>
historyVars == <<slept, foreign, strayed, mine>>
boundVars == <<exits, otherOps>>
vars == <<hostVars, agentVars, historyVars, boundVars>>

-----------------------------------------------------------------------------
(* Reading the status.                                                      *)

PayloadOf(d) == [repo |-> d.origin.repo, digest |-> d.digest]
Staged(status) == {d \in status : d.staged}
Booted(status) == {d \in status : d.booted}

(* What `rpm-ostree status' becomes: the override takes the place of the    *)
(* booted deployment.                                                       *)
Status(depls) ==
  IF override = NoDeployment
  THEN depls
  ELSE {IF d.booted THEN override ELSE d : d \in depls}

LocalReleases(status) == {PayloadOf(d) : d \in status \ Staged(status)}

(* The deployment that tells how to get to the next one: the staged one, if *)
(* any, else the booted one.                                                *)
\* Mutant: always the booted one.
LocalDeployBooted(status) == CHOOSE d \in status : d.booted

LocalDeploy(status) ==
  CHOOSE d \in status :
    IF Staged(status) = {} THEN d.booted ELSE d.staged

-----------------------------------------------------------------------------
(* The host.                                                                *)

(* rpm-ostree starts from the staged deployment, too.                       *)
MergeDeployment ==
  CHOOSE d \in deployments :
    IF Staged(deployments) = {} THEN d.booted ELSE d.staged

(* What rpm-ostree takes: a rebase to another origin than the one it would  *)
(* start from ("Old and new refs are equal"), a deploy that stays within    *)
(* the repository of that origin. It does not know of the override.         *)
Accepts(ref, target) ==
  LET from == MergeDeployment.origin
  IN IF ref # NoOrigin THEN ref # from ELSE target.repo = from.repo

Deployed(image, booted, staged) ==
  [digest |-> image.digest, origin |-> image.origin,
   booted |-> booted, staged |-> staged]

(* The new deployment is staged in place of an earlier one.                 *)
Stage(image) ==
  /\ deployments' =
       (deployments \ Staged(deployments)) \union {Deployed(image, FALSE, TRUE)}
  /\ mtime' = clock

Unstage ==
  /\ deployments' = deployments \ Staged(deployments)
  /\ mtime' = clock

DeployEffect(ref, target) ==
  /\ Accepts(ref, target)
  /\ Stage([digest |-> target.digest,
            origin |-> IF ref # NoOrigin THEN ref ELSE MergeDeployment.origin])
  /\ strayed' = (strayed \/ StreamOf[target.digest] # identity.stream)
  /\ mine' = target
  /\ UNCHANGED <<override, clock, slept, foreign>>

-----------------------------------------------------------------------------
(* The process.                                                             *)

NoIdentity == [payload |-> NoPayload, stream |-> NoStream]
NoCache == [status |-> {}, mtime |-> -1, readAt |-> -1]
Asked(kind, step) ==
  [kind |-> kind, step |-> step, target |-> NoPayload, ref |-> NoOrigin]
Idle == Asked("none", "none")
Failed == [ok |-> FALSE, releases |-> {}]
Answer(releases) == [ok |-> TRUE, releases |-> releases]

NoProcess ==
  /\ identity' = NoIdentity
  /\ request' = Idle
  /\ seen' = -1
  /\ cache' = NoCache
  /\ retry' = 1
  /\ reply' = Failed
  /\ slept' = 0

\* Only a node without a container origin is to be migrated.
Init ==
  /\ \E i, rollback \in HostImages :
       /\ deployments = {Deployed(i, TRUE, FALSE), Deployed(rollback, FALSE, FALSE)}
       /\ override \in {NoDeployment} \union
                         (IF i.origin = NoOrigin THEN Overrides ELSE {})
  /\ clock = 0 /\ mtime = 0
  /\ identity = NoIdentity
  /\ request = Idle
  /\ seen = -1
  /\ cache = NoCache
  /\ retry = 1
  /\ reply = Failed
  /\ slept = 0
  /\ foreign = FALSE
  /\ strayed = FALSE
  /\ mine = NoPayload
  /\ exits = 0 /\ otherOps = 0

Running == identity # NoIdentity

(* Identity::try_default: an image without a stream label keeps the process *)
(* from starting. The first request registers the driver, if at all.        *)
StartAgent ==
  /\ ~Running
  /\ \E d \in Booted(Status(deployments)) :
       /\ StreamOf[d.digest] # NoStream
       /\ identity' = [payload |-> PayloadOf(d), stream |-> StreamOf[d.digest]]
  /\ \/ request' = Asked("register", "attempt")
     \/ request' = Asked("local", "mtime")
  /\ UNCHANGED <<hostVars, seen, cache, retry, reply, historyVars, boundVars>>

AgentExits ==
  /\ Running
  /\ exits < MaxExits
  /\ exits' = exits + 1
  /\ NoProcess
  /\ UNCHANGED <<hostVars, foreign, strayed, mine, otherOps>>

Ready == Running /\ request = Idle
At(kind, step) == request.kind = kind /\ request.step = step

(* The releases of the graph that an agent asks for are OCI images if and   *)
(* only if its own is; the booted one is denied.                            *)
Targets ==
  {p \in Offered \ {identity.payload} :
     (p.repo = NoRepo) <=> (identity.payload.repo = NoRepo)}

Request ==
  /\ Ready
  /\ \/ request' = Asked("local", "mtime")
     \/ request' = Asked("pending", "status")
     \/ request' = Asked("cleanup", "command")
     \/ \E t \in Targets : request' = [Asked("stage", "status") EXCEPT !.target = t]
     \/ \E d \in Staged(deployments) :
          request' = [Asked("finalize", "command") EXCEPT !.target = PayloadOf(d)]
  /\ reply' = Failed
  /\ UNCHANGED <<hostVars, identity, seen, cache, retry, historyVars, boundVars>>

Replies(r) == reply' = r /\ request' = Idle

-----------------------------------------------------------------------------
(* RegisterAsDriver: retried with growing pauses until it succeeds; the     *)
(* thread sleeps, and serves nothing else.                                  *)

RegisterSucceeds ==
  /\ At("register", "attempt")
  /\ Replies(Answer({}))
  /\ retry' = 1 /\ slept' = 0
  /\ UNCHANGED <<hostVars, identity, seen, cache, foreign, strayed, mine, boundVars>>

RegisterFails ==
  /\ At("register", "attempt")
  /\ request' = [request EXCEPT !.step = "pause"]
  /\ UNCHANGED <<hostVars, identity, seen, cache, retry, reply, historyVars, boundVars>>

\* Mutant: doubled without a cap.
NextPauseUncapped == retry * 2

NextPause == IF retry < MaxBackoff THEN retry * 2 ELSE retry

Slept == IF slept >= 2 * MaxBackoff THEN slept ELSE slept + retry

\* Mutant: the pause is over, but the outcome of the first attempt is kept.
WakeUnretried ==
  /\ At("register", "pause")
  /\ retry' = NextPause
  /\ slept' = Slept
  /\ UNCHANGED <<hostVars, identity, request, seen, cache, reply,
                 foreign, strayed, mine, boundVars>>

Wake ==
  /\ At("register", "pause")
  /\ request' = [request EXCEPT !.step = "attempt"]
  /\ retry' = NextPause
  /\ slept' = Slept
  /\ UNCHANGED <<hostVars, identity, seen, cache, reply,
                 foreign, strayed, mine, boundVars>>

-----------------------------------------------------------------------------
(* QueryLocalDeployments, through get_status: first the modification time,  *)
(* then, unless the cache has the same one, the status.                     *)

ReadMtime ==
  /\ At("local", "mtime")
  /\ seen' = mtime
  /\ request' = [request EXCEPT !.step = "status"]
  /\ UNCHANGED <<hostVars, identity, cache, retry, reply, historyVars, boundVars>>

\* Mutant: what is cached is up to date.
UpToDateOnceCached == cache # NoCache

UpToDate == cache # NoCache /\ cache.mtime = seen

AnswerFromCache ==
  /\ At("local", "status")
  /\ UpToDate
  /\ Replies(Answer(LocalReleases(cache.status)))
  /\ seen' = -1
  /\ UNCHANGED <<hostVars, identity, cache, retry, historyVars, boundVars>>

(* Mutant: cached under the time of the answer.                             *)
AnswerFromStatusNow ==
  /\ At("local", "status")
  /\ ~UpToDate
  /\ cache' = [status |-> Status(deployments), mtime |-> clock, readAt |-> clock]
  /\ Replies(Answer(LocalReleases(Status(deployments))))
  /\ seen' = -1
  /\ UNCHANGED <<hostVars, identity, retry, historyVars, boundVars>>

AnswerFromStatus ==
  /\ At("local", "status")
  /\ ~UpToDate
  /\ cache' = [status |-> Status(deployments), mtime |-> seen, readAt |-> clock]
  /\ Replies(Answer(LocalReleases(Status(deployments))))
  /\ seen' = -1
  /\ UNCHANGED <<hostVars, identity, retry, historyVars, boundVars>>

-----------------------------------------------------------------------------
(* StageDeployment.                                                         *)

(* The tag to end up with: the stream of the deployment to start from, in   *)
(* the repository of the target.                                            *)
\* Mutant: in the repository of that deployment.
TagOfOrigin(from, target) == [repo |-> from.origin.repo, tag |-> StreamOf[from.digest]]

TagOf(from, target) == [repo |-> target.repo, tag |-> StreamOf[from.digest]]

RebaseTarget(from, target) ==
  IF from.origin # TagOf(from, target) THEN TagOf(from, target) ELSE NoOrigin

(* Nothing to decide about a checksum. Otherwise a deployment that is no    *)
(* container, or has no stream label, is an error.                          *)
Undecidable(from) == from.origin = NoOrigin \/ StreamOf[from.digest] = NoStream

DecideStage ==
  /\ At("stage", "status")
  /\ LET target == request.target
         from == LocalDeploy(Status(deployments))
     IN \/ /\ target.repo = NoRepo
           /\ request' = [request EXCEPT !.step = "command"]
           /\ UNCHANGED reply
        \/ /\ target.repo # NoRepo
           /\ ~Undecidable(from)
           /\ request' = [request EXCEPT !.step = "command",
                                         !.ref = RebaseTarget(from, target)]
           /\ UNCHANGED reply
        \/ target.repo # NoRepo /\ Undecidable(from) /\ Replies(Failed)
  /\ UNCHANGED <<hostVars, identity, seen, cache, retry, historyVars, boundVars>>

DeploySucceeds ==
  /\ At("stage", "command")
  /\ DeployEffect(request.ref, request.target)
  /\ Replies(Answer({}))
  /\ UNCHANGED <<identity, seen, cache, retry, boundVars>>

(* The command, or its answer, may be lost.                                 *)
DeployFails ==
  /\ At("stage", "command")
  /\ \/ DeployEffect(request.ref, request.target)
     \/ UNCHANGED <<hostVars, historyVars>>
  /\ Replies(Failed)
  /\ UNCHANGED <<identity, seen, cache, retry, boundVars>>

-----------------------------------------------------------------------------
(* QueryPendingDeploymentStream, CleanupPendingDeployment,                  *)
(* FinalizeDeployment.                                                      *)

AnswerPending ==
  /\ At("pending", "status")
  /\ \A d \in Staged(deployments) : StreamOf[d.digest] # NoStream
  /\ Replies(Answer({PayloadOf(d) : d \in Staged(Status(deployments))}))
  /\ UNCHANGED <<hostVars, identity, seen, cache, retry, historyVars, boundVars>>

CleanupSucceeds ==
  /\ At("cleanup", "command")
  /\ Unstage
  /\ mine' = NoPayload
  /\ Replies(Answer({}))
  /\ UNCHANGED <<override, clock, identity, seen, cache, retry,
                 slept, foreign, strayed, boundVars>>

(* The host reboots into the staged deployment; the booted one is kept. The *)
(* override file is gone with /run.                                         *)
FinalizeSucceeds ==
  /\ At("finalize", "command")
  /\ exits < MaxExits
  /\ exits' = exits + 1
  /\ \E d \in Staged(deployments) :
       /\ d.digest = request.target.digest
       /\ deployments' = {[d EXCEPT !.booted = TRUE, !.staged = FALSE]} \union
            {[b EXCEPT !.booted = FALSE] : b \in Booted(deployments)}
  /\ mtime' = clock
  /\ override' = NoDeployment
  /\ NoProcess
  /\ foreign' = FALSE /\ strayed' = FALSE /\ mine' = NoPayload
  /\ UNCHANGED <<clock, otherOps>>

(* The status cannot be read, or the command is refused.                    *)
RequestFails ==
  /\ At("local", "mtime") \/ At("local", "status") \/ At("stage", "status")
       \/ At("pending", "status") \/ At("cleanup", "command")
       \/ At("finalize", "command")
  /\ ~(At("local", "status") /\ UpToDate)
  /\ ~(At("stage", "status") /\ request.target.repo = NoRepo)
  /\ Replies(Failed)
  /\ seen' = -1
  /\ UNCHANGED <<hostVars, identity, cache, retry, historyVars, boundVars>>

-----------------------------------------------------------------------------
(* Others, and time.                                                        *)

OtherStages(image) ==
  /\ otherOps < MaxOtherOps
  /\ otherOps' = otherOps + 1
  /\ Stage(image)
  /\ foreign' = TRUE /\ mine' = NoPayload
  /\ UNCHANGED <<override, clock, agentVars, slept, strayed, exits>>

OtherCleansUp ==
  /\ otherOps < MaxOtherOps
  /\ otherOps' = otherOps + 1
  /\ Unstage
  /\ foreign' = TRUE /\ mine' = NoPayload
  /\ UNCHANGED <<override, clock, agentVars, slept, strayed, exits>>

(* `rpm-ostree cleanup -r' drops the deployment to roll back to.            *)
OtherDropsRollback ==
  /\ otherOps < MaxOtherOps
  /\ otherOps' = otherOps + 1
  /\ deployments' = Staged(deployments) \union Booted(deployments)
  /\ mtime' = clock
  /\ UNCHANGED <<override, clock, agentVars, historyVars, exits>>

TimePasses ==
  /\ clock < MaxClock
  /\ clock' = clock + 1
  /\ UNCHANGED <<deployments, override, mtime, agentVars, historyVars, boundVars>>

Serve ==
  \/ RegisterSucceeds \/ RegisterFails \/ Wake
  \/ ReadMtime \/ AnswerFromCache \/ AnswerFromStatus
  \/ DecideStage \/ DeploySucceeds \/ DeployFails
  \/ AnswerPending \/ CleanupSucceeds \/ FinalizeSucceeds
  \/ RequestFails

Next ==
  \/ StartAgent \/ AgentExits \/ Request \/ Serve
  \/ \E i \in HostImages : OtherStages(i)
  \/ OtherCleansUp \/ OtherDropsRollback \/ TimePasses

Spec == Init /\ [][Next]_vars
(* The actor goes on with the request it has, and of the registrations that *)
(* rpm-ostree is asked for again and again, it accepts one.                 *)
FairSpec == Spec /\ WF_vars(Serve) /\ SF_vars(RegisterSucceeds)
-----------------------------------------------------------------------------
(* Properties.                                                              *)

Requests ==
  {Idle} \union
  [kind : {"register"}, step : {"attempt", "pause"},
   target : {NoPayload}, ref : {NoOrigin}] \union
  [kind : {"local", "pending", "cleanup"}, step : {"mtime", "status", "command"},
   target : {NoPayload}, ref : {NoOrigin}] \union
  [kind : {"stage", "finalize"}, step : {"status", "command"},
   target : Payloads, ref : Origins \union {NoOrigin}]

(* At most one deployment is staged, and exactly one other is booted.       *)
HostTypeOK ==
  /\ deployments \subseteq Deployments
  /\ \A c, d \in Staged(deployments) : c = d /\ ~c.booted
  /\ \E d \in deployments : Booted(deployments) = {d}
  /\ override \in Overrides \union {NoDeployment}
  /\ clock \in 0..MaxClock /\ mtime \in 0..clock

ProcessTypeOK ==
  /\ identity \in {NoIdentity} \union [payload : Payloads, stream : Streams]
  /\ request \in Requests
  /\ seen \in -1..mtime
  /\ cache \in [status : SUBSET Deployments, mtime : -1..mtime, readAt : -1..clock]
  /\ reply \in [ok : BOOLEAN, releases : SUBSET Payloads]

HistoryTypeOK ==
  /\ retry \in 1..(2 * MaxBackoff)
  /\ slept \in 0..(4 * MaxBackoff)
  /\ foreign \in BOOLEAN /\ strayed \in BOOLEAN
  /\ mine \in Payloads \union {NoPayload}
  /\ exits \in 0..MaxExits /\ otherOps \in 0..MaxOtherOps

\* Types.
TypeOK == HostTypeOK /\ ProcessTypeOK /\ HistoryTypeOK

(* The registration is noticed to be possible again after at most the time  *)
(* it has been impossible so far, plus a second: no pause is longer than    *)
(* the pauses before it (deploy_register_driver), nor than about the cap.   *)
BackoffIsBounded == retry <= slept + 1 /\ retry < 2 * MaxBackoff

(* Unless somebody else has staged or cleaned up meanwhile, a request to    *)
(* stage becomes a command that rpm-ostree can carry out: the deployment to *)
(* start from is a container (the error that "should never happen"), the    *)
(* rebase is not to where the staged deployment already is, and a deploy    *)
(* stays within its repository. It takes the staged deployment into         *)
(* account, and that the booted one may be a pretended one.                 *)
DeployIsPossible ==
  ~foreign =>
    /\ At("stage", "status") /\ request.target.repo # NoRepo =>
         LET from == LocalDeploy(Status(deployments))
         IN /\ from.origin # NoOrigin
            /\ StreamOf[from.digest] = NoStream => strayed
    /\ At("stage", "command") => Accepts(request.ref, request.target)

(* What the agent staged last is the release it asked for, under the name   *)
(* it asked for, so that the check of the pending deployment finds it       *)
(* (is_pending_deployment_on_correct_stream compares payloads); and it      *)
(* follows the stream of the node in the repository of the release. An      *)
(* image of another stream that was staged before may lead it astray.       *)
StagedIsTarget ==
  mine # NoPayload =>
    \E d \in Staged(deployments) :
      /\ PayloadOf(d) = mine
      /\ Running /\ mine.repo # NoRepo /\ ~foreign /\ ~strayed =>
           d.origin.tag = identity.stream

(* The local deployments reported to the agent, which become its deny list, *)
(* include the release it believes to be booted ("this really should not    *)
(* happen" in log_excluded_depls) and are those of now, without the staged  *)
(* one -- unless they changed during the request, or twice within one tick  *)
(* of the clock, in which the cached status was read.                       *)
AnswerIsFresh ==
  [][At("local", "status") /\ request' = Idle /\ reply'.ok =>
       /\ identity.payload \in reply'.releases
       /\ mtime = seen /\ mtime # cache'.readAt =>
            reply'.releases = LocalReleases(Status(deployments))]_vars

(* Every request is answered, that to register included, although the       *)
(* thread that serves them sleeps between two attempts to register.         *)
RequestIsAnswered == (request # Idle) ~> (request = Idle)
=============================================================================
