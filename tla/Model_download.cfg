SPECIFICATION FairSpec
CONSTANTS
  Threads = {t1, t2, t3}
  NoThread = NoThread
  NParts = 3
  MaxFaults = 2
  MaxCrashes = 2
  Absent = Absent
INVARIANTS
  OneDownload
  ActiveMeansWorking
PROPERTIES
  CacheKept
  DownloadEnds
CHECK_DEADLOCK FALSE
