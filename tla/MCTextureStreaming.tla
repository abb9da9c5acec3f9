-------------------------- MODULE MCTextureStreaming --------------------------
(* A set of two textures streamed by the frame loop. *)
EXTENDS TextureStreaming, TLC

CONSTANTS a, b, pathA, pathB

MCLexical == a :> pathA @@ b :> pathB
MCTextureSet == <<a, b>>
=============================================================================
