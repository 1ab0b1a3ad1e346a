SPECIFICATION Spec
CONSTANTS
  ArgLists <- CastArgs
  Specs <- LuminanceSpecs
  Scenes <- MCScenes
  Sources <- MCSources
  Loads <- MCLoads
  AmbFiles = {"amb1", "amb2"}
  NoArgs = NoArgs
  MaxObjects = 3
  Slots = 6
INVARIANT SourcesMarked
