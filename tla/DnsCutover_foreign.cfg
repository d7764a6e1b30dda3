SPECIFICATION CutoverSpec
CONSTANTS
    Planes = {1, 2}
    MaxOutside = 0
    MaxZoneEdits = 1
PROPERTIES
    ForeignRecordKept
CHECK_DEADLOCK FALSE
