SPECIFICATION Spec
CONSTANTS
    YamlNames <- MCYamlNames
    Excluded <- MCExcluded
    PathOrder <- MCPaths
    Texts <- MCTexts
    Opened <- MCOpened
    Renames <- MCRenames
    MaxEdits = 2
INVARIANTS
    SessionIsTransparent
    AffectedIsReach
    RenameIsFaithful
    LoadedIsEnough
CHECK_DEADLOCK FALSE
