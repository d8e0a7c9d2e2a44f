--------------------------- MODULE MCTextureAsync ---------------------------
(* Small instances of TextureAsync for TLC.                                *)
EXTENDS TextureAsync

CONSTANTS t1, t2

(* A managed texture that is uploaded as soon as it is ready, and one of   *)
(* another type that is uploaded when it is first used.                    *)
ManagedImmutable == [t \in Textures |-> IF t = t1 THEN "managed" ELSE "immutable"]
AsyncOnDemand == [t \in Textures |-> IF t = t1 THEN "async" ELSE "async on demand"]

(* Both are uploaded as soon as they are ready, so they compete for it.     *)
BothAsync == [t \in Textures |-> "async"]

(* A volatile texture loaded when it is first used, and others without     *)
(* data in RAM loaded when created; all also asynchronously on request.    *)
VolatileImmutable == [t \in Textures |-> IF t = t1 THEN "volatile" ELSE "immutable"]
OnDemandImmediate == [t \in Textures |-> IF t = t1 THEN "on demand" ELSE "immediate"]

(* Only the first texture differs from the others.                         *)
OthersSymmetry == Permutations(Textures \ {t1})
=============================================================================
