\* Two textures, one decoder thread, one file in RAM waiting for it,
\* one upload per frame: both textures are to be uploaded when ready.
CONSTANTS
    t1 = t1  t2 = t2
    Textures = {t1, t2}
    Decoders = {d1}
    None = None
    Blank = Blank
    Kind <- ManagedImmutable
    LoadMode <- BothAsync
    MaxWaiting = 1
    MaxUploads = 1
SPECIFICATION FairSpec
PROPERTIES QueuedEnds WaitReturns ReadyUploaded ShutdownEnds
