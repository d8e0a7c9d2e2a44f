-------------------------- MODULE MCTextureContent --------------------------
(* Small instances of TextureContent for TLC.                              *)
EXTENDS TextureContent
=============================================================================
