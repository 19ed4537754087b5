SPECIFICATION Spec
CONSTANT
  Starts <- MCStarts
INVARIANTS
  
  BlockedInPhase
  PublishedOnce
  DraftsPrivate
  ReviewFits
  
  Authentic
PROPERTY
  Delivered
CHECK_DEADLOCK FALSE
