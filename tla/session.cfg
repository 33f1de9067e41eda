SPECIFICATION Spec
CONSTANTS
  t1 = t1
  Tokens = {t1}
  Matches <- Unrelated
  Configs = {c1, c2}
  NoConfig = none
  Frames = {frame}
  NoFrame = noframe
  Snapshots = {snap}
  NoSnapshot = nosnapshot
  Requests = {ui, script}
  TTL = 2
  MaxEntries = 1
INVARIANTS
  TypeOK
  ConfiguredWhileActive
  StoppedMeansErased
