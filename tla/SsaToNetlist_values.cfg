SPECIFICATION Spec
CONSTANTS
    SizesOfGraphs = {3}
    ListedGraphs = FALSE
    MaxBlocks = 3
    MaxActive = 1
    Blocks <- MCBlocks
    Graphs <- MCGraphs
    Shapes <- MCShapes
    ProgramsOf <- MCProgramsOf
CHECK_DEADLOCK FALSE
INVARIANT ValuesReach
