\* Three streams under different settings, two child PictureControlSets.
SPECIFICATION Spec
CONSTANTS
    Scenarios <- AllScenarios
    ChildPool = 2
    DemuxPool = 6
CHECK_DEADLOCK FALSE
INVARIANTS DependentsAreExact ReferencesAreHeld
PROPERTY EverythingIsCoded
