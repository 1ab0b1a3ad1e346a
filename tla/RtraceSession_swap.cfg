SPECIFICATION Spec
CONSTANTS
  ArgLists <- ExplicitArgs
  Specs <- NoSpecs
  Scenes <- MCScenes
  Sources <- MCSources
  Loads <- MCLoads
  AmbFiles = {"amb1", "amb2"}
  NoArgs = NoArgs
  MaxObjects = 3
  Slots = 6
INVARIANT NamedFileUsed
