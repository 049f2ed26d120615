SPECIFICATION ConsentSpec
CONSTANTS
    None = None
    Prompts = {"artifact", "recovery"}
    Surfaces <- MCSurfaces
    Outputs <- MCOutputs
    Points <- MCPoints
    Fonts <- MCFonts
    CONSENT_DEADLINE = 1
 
PROPERTIES
    ApprovalIsDeliberate
    WireIsExact
CHECK_DEADLOCK FALSE
