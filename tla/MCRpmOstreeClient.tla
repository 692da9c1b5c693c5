-------------------------- MODULE MCRpmOstreeClient --------------------------
(* Constants of the model-checking run of RpmOstreeClient.                   *)
EXTENDS RpmOstreeClient

\* Two images of the stream of the node, one of another stream or of none.
MCStreamOf == [d \in Digests |-> IF d = "c" THEN "next" ELSE "stable"]

MCOffered ==
  {[repo |-> "quay", digest |-> "b"], [repo |-> "quay", digest |-> "c"],
   [repo |-> NoRepo, digest |-> "b"]}

\* An OSTree commit, a stream, the stream of a mirror, a version there.
From(repo, tag) == [repo |-> repo, tag |-> tag]
MCHostImages ==
  {[digest |-> "a", origin |-> NoOrigin],
   [digest |-> "a", origin |-> From("quay", "stable")],
   [digest |-> "b", origin |-> From("mirror", "stable")],
   [digest |-> "a", origin |-> From("mirror", "v41")]}

\* The node is on an OSTree commit, and is to follow a container image.
Migration ==
  {NoDeployment, [digest |-> "a", origin |-> From("quay", "v41"),
                  booted |-> TRUE, staged |-> FALSE]}
=============================================================================
