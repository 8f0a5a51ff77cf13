CONSTANTS
    Letters = 2
    Words <- SomeWords
    NoWord = NoWord
    MaxOut = 2
    MaxRows = 3
SPECIFICATION Spec
INVARIANTS TrieTight ReadyExact PrefixExact
