SPECIFICATION Spec
CONSTANTS
  ArgLists <- DocumentedArgs
  Specs <- DocumentedSpecs
  Scenes <- MCScenes
  Sources <- MCSources
  Loads <- MCLoads
  AmbFiles = {"amb1", "amb2"}
  NoArgs = NoArgs
  MaxObjects = 3
  Slots = 6
INVARIANTS TypeOK ResultIsOutput SourcesCounted AmbientFresh
