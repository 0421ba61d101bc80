SPECIFICATION Spec
CONSTANTS
    Letters = 3
    MainConsumer = k1
    SecondConsumer = k2
    Producer = producer
    NoOne = NoOne
INVARIANT
    NoLetterLeft
