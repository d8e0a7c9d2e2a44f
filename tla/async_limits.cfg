\* One file in RAM waiting for a decoder, one upload per frame; synchronous load
\* modes and a volatile texture, mixed with asynchronous requests.
CONSTANTS
    t1 = t1  t2 = t2
    Textures = {t1, t2, t3}
    Decoders = {d1}
    None = None
    Blank = Blank
    Kind <- VolatileImmutable
    LoadMode <- OnDemandImmediate
    MaxWaiting = 1
    MaxUploads = 1
SPECIFICATION Spec
INVARIANTS WaitingStreamsBounded
SYMMETRY OthersSymmetry
