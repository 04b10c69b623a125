\* Two queues: one that reserves several blocks, one that begins with one and grows.
CONSTANTS
    Configurations <- RingAndGrow
SPECIFICATION Spec
INVARIANTS TypeOK AssertionsHold SlotsExclusive RingIntact DestructorDestroysTheLive
PROPERTIES ImplementsQueue
