SPECIFICATION Spec
CONSTANTS
  Configs <- MCConfigs
  MaxDiskSize <- MCMaxDiskSize
  Word = 64
  Sector = 2
  GptTable = 1
  Msr = 3
  Footer = 2
  Padding = 2
INVARIANTS
  LayoutTypeOK
  CopiedOnce
  PartitionFits
  MountShowsVolume
CHECK_DEADLOCK FALSE
