\* An answer to the data connection that comes after the three seconds.
SPECIFICATION Spec
CONSTANTS
  MaxCalls = 2
  MaxRaced = 2
INVARIANT ConnectionGivenBack
CHECK_DEADLOCK FALSE
