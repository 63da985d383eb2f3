SPECIFICATION FairSpec
CONSTANTS
  Pods = {t1, t2}
  NoPod = NoPod
  MaxFaults = 3
INVARIANTS
  TypeOK
  DetachedIsUnmounted
  PublishedIsDisk
  MountsAreFaults
PROPERTIES
  PodsAreServed
  VolumeIsReleased
