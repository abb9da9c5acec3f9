------------------------ MODULE MCAsyncTextureLoader ------------------------
(* Small instances of the loader: a name for each path, a second spelling *)
(* of one of them, and the empty path.                                    *)
EXTENDS AsyncTextureLoader, TLC

CONSTANTS a, aDotted, b, c, d, empty, pathA, pathB, pathC, pathD

MCLexical ==
    [name \in Names |->
        (a :> pathA @@ aDotted :> pathA @@ b :> pathB @@ c :> pathC
            @@ d :> pathD @@ empty :> NoPath)[name]]
=============================================================================
