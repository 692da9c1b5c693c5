SPECIFICATION FairSpec
CONSTANTS
  Releases = {1, 2, 3}
  StreamReleases = {1, 2}
  MaxDeployAttempts = 2
  MaxPostponements = 2
  Configs <- AnyConfig
  MaxCrashes = 1
  MaxAdminOps = 2
INVARIANTS TypeOK NoPanic GracePeriod BootedIsTrusted StagedIsSettled
PROPERTIES FinalizesSafely ImplementsUpdater TargetIsResolved StagedIsResolvedUndisturbed UpdateIsApplied
