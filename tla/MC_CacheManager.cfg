SPECIFICATION CacheSpec
CONSTANTS
  SizeFirstPage = 4
  SizeAdditionalPage = 4
  MaxRequest = 3
  MaxPages = 2
  Bases <- MCBases
  Keys <- MCKeys
  NbVar <- MCNbVar
  SzData <- MCSzData
  Hash <- MCHash
  NbSlots = 2
  NoCollision = {TRUE, FALSE}
  NbInitVar = 12
  MaxNbVarCached = 20
  MinNbVarNotCached = 9
  MaxStat = 2
  MaxReduce = 2
INVARIANTS CacheTypeOK OneHolderPerBlock BytesIntact HitIsRight LimitRespected
CHECK_DEADLOCK FALSE
