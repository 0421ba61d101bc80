SPECIFICATION FairSpec
CONSTANTS
    Letters = 3
    MainConsumer = k1
    SecondConsumer = k2
    Producer = producer
    NoOne = NoOne
INVARIANTS
    TypeOK
    MutualExclusion
    LettersInOrder
    TotalIsTaken
PROPERTY
    Terminates
