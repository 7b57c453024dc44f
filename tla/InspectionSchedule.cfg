SPECIFICATION FairSpec
CONSTANTS
  MaxSpawned = 2
INVARIANTS
  ArmedIffEnabled
  AckedUnlessTorn
PROPERTY
  EnabledKeepsInspecting
