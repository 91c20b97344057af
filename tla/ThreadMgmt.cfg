SPECIFICATION FairSpec
CONSTANTS
    producer = producer
    jobConsumer = jobConsumer
    Threads <- MCThreads
    Untimed <- MCUntimed
    MaxSignals = 3
INVARIANTS FlagAnnouncesEvent
PROPERTY EventTaken
