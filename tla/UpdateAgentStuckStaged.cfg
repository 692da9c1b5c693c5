SPECIFICATION FairSpec
CONSTANTS
  Releases = {1, 2, 3}
  StreamReleases = {1, 2}
  MaxDeployAttempts = 2
  MaxPostponements = 2
  Configs <- Enabled
  MaxCrashes = 0
  MaxAdminOps = 1
PROPERTIES StagedIsResolvedOnceAllowed
