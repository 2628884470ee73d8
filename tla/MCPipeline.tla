------------------------------- MODULE MCPipeline -------------------------------
EXTENDS Pipeline

MCProgram == [npm |-> "npm", legacy |-> "npm", dev |-> "npm", getpoetry |-> "pip",
              poetry |-> "poetry", serve |-> "uvicorn", go |-> "go"]
MCProvides == [c \in DOMAIN MCProgram |-> IF c = "getpoetry" THEN {"poetry", "uvicorn"} ELSE {}]
MCImage == {"npm", "pip"}
MCRecipes ==
    {[install |-> <<"npm">>, start |-> None, port |-> 0],
     [install |-> <<"npm", "legacy">>, start |-> "dev", port |-> 3],
     [install |-> <<"getpoetry", "poetry">>, start |-> "serve", port |-> 3],
     [install |-> <<"go">>, start |-> "go", port |-> 3],
     [install |-> <<"getpoetry">>, start |-> "serve", port |-> 0]}
MCFixes == {<<"legacy">>, <<"getpoetry", "npm">>, <<"go">>}

Socket(p, l) == [port |-> p, listens |-> l]
MCSockets == {Socket(1, TRUE), Socket(2, TRUE), Socket(3, TRUE), Socket(3, FALSE)}
MCReserved == {1}
================================================================================
