SPECIFICATION Spec
CONSTANTS
  MS_IN_S = 2
  SLEEPS <- MCSleeps
  HORIZON = 20
CHECK_DEADLOCK FALSE
PROPERTY NeverEarly
