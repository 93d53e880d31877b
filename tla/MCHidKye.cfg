CONSTANTS
  OwnDescriptors <- SomeDescriptors

SPECIFICATION Spec
CONSTRAINT FewOpens

INVARIANTS
  TypeOK
  StoppedUnlessBound
  FixedTabletsAreAsked
  FixedDescriptorsWork
  FixedDescriptorsFit
