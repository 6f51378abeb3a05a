\* An AT whose guest reprograms the primary controller; devices use every line,
\* the cascade included.
SPECIFICATION Spec
CONSTANTS
  Lines <- ATLines
  Unmaskable <- NoLines
  AutoEoi = {}
  SpecialMask = {}
  Reprogrammed = {"primary"}
INVARIANTS TypeOK Signalled CascadeFollows
PROPERTIES StartsInOrder
CONSTRAINT OneOfTwo
