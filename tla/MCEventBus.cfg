\* Subscribing, publishing, starting and stopping in any order.
SPECIFICATION Spec
CONSTANTS
    Subscriber = {s1, s2}
    Caller = {c1, c2}
    Event = {e1, e2}
    Consumer = consumer
    Nil = Nil
    None = None
    MaxLife = 2
INVARIANTS
    TypeOK
    ConsumerSubscribedOnce
PROPERTIES
    RefinesSubscriptions
CHECK_DEADLOCK FALSE
