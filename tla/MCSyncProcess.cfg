SPECIFICATION Spec
CONSTANTS
  Deployment <- SmallDeployment
  Numeral <- Numerals
  Duration <- Durations
  Truth <- Truths
  GVK <- SmallGVK
  Bundle <- SmallBundle
  ClusterSync <- SmallClusterSync
  World <- SmallWorld
  Nil = Nil

  
  
  
  
  
  
PROPERTIES
  SoundRuns
  RestartWatches
