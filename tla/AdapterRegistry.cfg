SPECIFICATION FairSpec
CONSTANTS
    a1 = a1
    a2 = a2
    Clients <- TwoClients
    MethodOrder <- ThreeMethods
    Owner <- ThreeOwners
    NoAdapter = NoAdapter
    Requests = {r1, r2}
INVARIANTS PermitAccounted RoutedAfterProbe
PROPERTIES RequestsEnd AnsweringIsRoutable
