SPECIFICATION SiteSpec
CONSTANTS
    SourcePlans = {"plan"}
    KeyedPlans = {"keyed"}
    StaffPlans = {"staffed"}
    Registrars = {"r1", "r2"}
    Shared = {"r1"}
    Offers = {"offer"}
    Prices = {0, 5, 7}
    FreshFor = 1
    OfferLife = 1
    Scenes <- MCScenes
    None = None
    Links = {"l1", "l2"}
    Posters = {"p1", "p2"}
    LinkLife = 2
    Day = 2
    LinksPerDay = 1
INVARIANTS
    ThreadsFollow
    TrendsTell
    LinkSpentOnce
PROPERTIES
    HiddenStays
    SiteFollows
CHECK_DEADLOCK FALSE
