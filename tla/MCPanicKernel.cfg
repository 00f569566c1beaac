CONSTANTS
  Running <- RunningRt
  Versions <- SixVersions
  Boots <- FewFiles
  Installs <- NewImages
  Wanted <- TwoWishes
  NotSet = NotSet
  NoFile = NoFile
  MaxChanges = 1
  MaxLoads = 2
SPECIFICATION Spec
PROPERTIES
  BestChosen
  FreshInitrd
CHECK_DEADLOCK FALSE
