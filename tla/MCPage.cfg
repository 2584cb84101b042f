SPECIFICATION Spec
CONSTANTS
  MaxDepth = 4
  Links <- SomeLinks
  Snapshots <- TwoSnapshots
  Values <- SomeValues
  Texts = {"a"}
  MaxShift = 1
CONSTRAINT Focused
INVARIANTS UrlKeepsFilter BoardShowsFilter TimelineShowsWindow
PROPERTY DraftsSurvive
