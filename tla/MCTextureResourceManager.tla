----------------------- MODULE MCTextureResourceManager -----------------------
(* Small instances of the texture cache over the loader. *)
EXTENDS TextureResourceManager, TLC

CONSTANTS a, aDotted, b, c, pathA, pathB, pathC

MCLexical ==
    [name \in Names |->
        (a :> pathA @@ aDotted :> pathA @@ b :> pathB @@ c :> pathC)[name]]
=============================================================================
