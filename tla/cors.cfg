\* Pages of a listed and a foreign origin, under every setting.
SPECIFICATION Spec
CONSTANTS
    Settings <- MCSettings
    Pages <- MCPages
INVARIANTS ForeignKeptOut SpacedGetsThrough
\* When all requests have ended nothing happens.
CHECK_DEADLOCK FALSE
