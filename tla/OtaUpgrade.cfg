CONSTANTS
  None = None
  Current = 1
  Versions = {2, 3}
  MandatoryLen = 2
  HeaderLen = 3
  SubLen = 2
  Skipped <- MCSkipped
  ImageEnds = {2, 5}
  Align = 3
  BlockLen = 4
  MaxResendRetries = 1
  MaxQueries = 1
  MaxTroubles = 2
SPECIFICATION FairSpec
INVARIANTS TypeOK TargetIsFile OffsetsAgree NoPartIsScheduled DownloadIsDriven
 
CHECK_DEADLOCK FALSE
