SPECIFICATION Spec
CONSTANTS
    MaxUsize = 100000
    MaxPort = 65535
    MaxPermits = 70000
    Environments <- MCEnvironments
    ChatBodies <- MCChatBodies
    EmbeddingsBodies <- MCEmbeddingsBodies
INVARIANTS TypeOK AdmitsSupported AdvertisedAccepted ReachesVerifiedServer StatusShowsModels
