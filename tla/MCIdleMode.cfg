\* Timeouts of one to three minutes.
SPECIFICATION Spec
CONSTANTS
    MaxMinutes = 3
    PresetAway = 1
    PresetOffline = 2
    Modes = {"normal", "dnd", "away", "offline", "invisible"}
    Unhurried = TRUE
INVARIANTS TypeOK ChoiceKept
PROPERTIES BackIsNoticed OfflineInTheEnd
