SPECIFICATION Spec
CONSTANTS
    c1 = c1
    c2 = c2
    c3 = c3
    a = a
    b = b
    d = d
    t = t
    Conn = {c1, c2, c3}
    ClientId = {a, b, d}
    Topic = {t}
    None = None
    IdsOf <- UniqueIds
    WillsOf <- NoWill
    BrokerCap = 1
    HandlerCap = 1
    MaxPublish <- C1PublishesTwo
INVARIANT PublishesStayInOrder
PROPERTY ImplementsPubSub
SYMMETRY SubscribersAlike
VIEW WithoutHistory
CHECK_DEADLOCK FALSE
