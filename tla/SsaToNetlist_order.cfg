SPECIFICATION Spec
CONSTANTS
    SizesOfGraphs = {4}
    ListedGraphs = FALSE
    MaxBlocks = 4
    MaxActive = 2
    Blocks <- MCBlocks
    Graphs <- MCGraphs
    Shapes <- MCShapes
    ProgramsOf <- MCProgramsOf
CHECK_DEADLOCK FALSE
INVARIANT IoOrderKept
