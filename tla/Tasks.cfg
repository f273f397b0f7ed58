SPECIFICATION FairTasksSpec
CONSTANTS
  c1 = c1
  c2 = c2
  Blank = Blank
  Torn = Torn
  Absent = Absent
  NoFile = NoFile
  NoHash = NoHash
  Contents <- MCContents
  Layouts <- MCLayouts
INVARIANT TasksTypeOK
 
INVARIANT RestoredIsCopy
 
PROPERTY BackupCompletes
