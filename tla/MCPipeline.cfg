CONSTANTS
    None = None
    Recipes <- MCRecipes
    Fixes <- MCFixes
    Program <- MCProgram
    Provides <- MCProvides
    Image <- MCImage
    Sockets <- MCSockets
    ReservedPorts <- MCReserved
    MaxRepairs = 2
    MaxLooks = 3
SPECIFICATION FairSpec
CHECK_DEADLOCK FALSE
INVARIANTS
    RecipeIsWhatRan
    MissingToolsAreReported
    WebIsServing
PROPERTIES
    EveryBuildSettles
