CONSTANTS
    Users = {u1}
    Collections = {c1}
    Calls = {k1, k2}
    MaxBuffers = 4
    MaxLogins = 2
    MaxRotations = 1
    None = None
SPECIFICATION Spec
PROPERTIES StoredItemsOpen
