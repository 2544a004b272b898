CONSTANTS
  MainFile = "main"
  ModuleFiles <- MCModuleFiles
  Locations <- MCLocations
  Subdirectories <- MCSubdirectories
  EntriesOf <- MCEntriesOf
  NameOf <- MCNameOf
  Contents <- MCContents
  Bad = Bad
  NoConfig <- Empty
  WithFile <- MergeFile
  WithModule <- MergeModule
  ModuleKey <- KeyOf
  Writable <- NoMixedNode
SPECIFICATION Spec
INVARIANTS ModuleAlone AbortsOnConflict AllLoaded
PROPERTIES LastWins RestKept
