\* One event may be an edit from outside, the other the failing of a step.
SPECIFICATION SettingsSpec
CONSTANTS
    MaxSettingsEvents = 2
INVARIANTS
    BadFileBlocksWrites
CHECK_DEADLOCK FALSE
