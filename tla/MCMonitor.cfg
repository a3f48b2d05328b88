\* A screen of five rows of two characters, lines of up to five, of which
\* those of three words overrun argv, and two frames of a stack anywhere in a
\* program of three files.
CONSTANTS
    Rows = 5
    Cols = 2
    BufSize = 6
    Prompt <- MCPrompt
    Letters = {"h", "k", " "}
    OtherChars = {"^A"}
    Stab <- MCStab
    Unknown <- MCUnknown
    Commands <- MCCommands
    MaxArgs = 2
    Depth = 2
    Returns <- MCReturns
SPECIFICATION MFairSpec
INVARIANTS ScreenShowsLine ArgsAreWords TraceRight
PROPERTY CommandsReturn
