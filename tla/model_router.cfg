SPECIFICATION Spec
CONSTANTS
    Providers <- MCProviders
    Capabilities <- MCCapabilities
    Offers <- MCOffers
    Asks = {c1, c2}
    TTL = 1
    MaxTime = 2
SYMMETRY Symmetry
INVARIANTS
    TypeOK
    RouteInv
    PassedOverWasDown
PROPERTY
    RoutedWasUp
