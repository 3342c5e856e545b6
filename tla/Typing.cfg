CONSTANTS
  Chords = {{}, {4}, {42}, {79}, {80}, {4, 80}, {4, 42, 80}}
  Modifiers = {1}
  Slots = 2
  InitialCapacity = 1
  MaxCapacity = 2
  QueueCapacity = 2
SPECIFICATION Spec
INVARIANTS
  DrawsText
  ShiftFollowsKey
PROPERTIES
  EventsAreChanges
  ImplementsEditor
