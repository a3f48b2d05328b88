\* One Shift, two Ctrl keys, Caps Lock and a letter; a buffer for two
\* characters.
CONSTANTS
    BufSize = 3
    Keys = {"A", "LSHIFT", "LCTL", "RCTL", "CAPS"}
    SerialChars = {"LF", "DEL127"}
    KbdRoom = 3
    MaxEvents = 4
SPECIFICATION FairSpec
INVARIANT ModifiersFollow
PROPERTIES QueueKept Drained MonitorReads
CHECK_DEADLOCK FALSE
