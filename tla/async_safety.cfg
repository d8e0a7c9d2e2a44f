\* Two textures, two decoder threads, no limits.
CONSTANTS
    t1 = t1  t2 = t2
    Textures = {t1, t2}
    Decoders = {d1, d2}
    None = None
    Blank = Blank
    Kind <- ManagedImmutable
    LoadMode <- AsyncOnDemand
    MaxWaiting = 0
    MaxUploads = 0
SPECIFICATION Spec
INVARIANTS
    TypeOK StreamsFollowQueue QueuedOncePerRequest NoUseAfterDelete
    FlagsConsistent OwnImage ReaderOutlivesDecoders ShutdownQuiescent
PROPERTY ImplementsAsyncLoading
