SPECIFICATION FairSpec
CONSTANTS
    c1 = c1
    c2 = c2
    c3 = c3
    a = a
    b = b
    d = d
    t = t
    Conn = {c1, c2}
    ClientId = {a, b}
    Topic = {t}
    None = None
    IdsOf <- SharedIds
    WillsOf <- C1Will
    BrokerCap = 1
    HandlerCap = 1
    MaxPublish <- C1PublishesOne
INVARIANT TypeOK
INVARIANT RoutesAreOwned
INVARIANT ServedClientsAreRouted
INVARIANT SubscriptionsFollowRequests
INVARIANT NoWillAfterDisconnect
INVARIANT PublishesStayInOrder
 
 
 
CHECK_DEADLOCK FALSE
