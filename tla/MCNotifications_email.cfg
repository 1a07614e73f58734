\* Mail is configured and OpenClaw is not.
SPECIFICATION Spec
CONSTANTS
  Reports = {"loop"}
  None = None
  OpenClaw = FALSE
  Email = TRUE
  MaxFaults = 1
INVARIANT SentIsDelivered
CHECK_DEADLOCK FALSE
