\* Every switch of the settings, on or off.
SPECIFICATION LifeSpec

CONSTANTS
    TaskNames = {backup}
    AutoBackup = backup

INVARIANT StartupSucceeds

\* The process exits.
CHECK_DEADLOCK FALSE
