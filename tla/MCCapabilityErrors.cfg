SPECIFICATION Spec
CONSTANTS
  Capabilities <- AllCapabilities
  Runs = 1
INVARIANT
  ErrorsAreNotDenials
