SPECIFICATION Spec
CONSTANTS
    Ports <- MCPorts
    Pauses <- MCPauses
    Holds <- MCHolds
INVARIANTS
    Transparent
    NoneForged
    HarmBounded
    LineCovered
PROPERTIES
    LineReleased
CHECK_DEADLOCK FALSE
