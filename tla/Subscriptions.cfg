CONSTANTS
    e1 = e1
    r1 = r1
    r2 = r2
    r3 = r3
    r4 = r4
    s1 = s1
    s2 = s2
    Ids = {s1, s2}
    EventTypes = {"order", "user"}
    Channels = {"email", "webhook"}
    Targets = {"address", "url", "urlwithaddress", "junk"}
    FitsChannels <- Fits
    Requests = {r1, r2, r3, r4}
    Events = {e1}
    TypeOf <- AllOrders
    Nothing = Nothing
SPECIFICATION Spec
SYMMETRY Symmetry
INVARIANTS
    TypeOK
    TargetsFit
    SettledSubscriptionsDecide
    OneDestinationPerDelivery
PROPERTY EditsCompose
