\* The same pages and settings: lists separated by commas, as README.md documents them.
SPECIFICATION Spec
CONSTANTS
    Settings <- MCSettings
    Pages <- MCPages
INVARIANT ListedGetsThrough
\* When all requests have ended nothing happens.
CHECK_DEADLOCK FALSE
