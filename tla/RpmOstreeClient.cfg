SPECIFICATION FairSpec
CONSTANTS
  Digests = {"a", "b", "c"}
  Repos = {"quay", "mirror"}
  StreamOf <- MCStreamOf
  Streams = {"stable", "next"}
  PinnedTags = {"v41"}
  HostImages <- MCHostImages
  Offered <- MCOffered
  Overrides <- Migration
  MaxBackoff = 3
  MaxClock = 1
  MaxExits = 1
  MaxOtherOps = 1
INVARIANTS TypeOK BackoffIsBounded DeployIsPossible StagedIsTarget
PROPERTIES AnswerIsFresh RequestIsAnswered
