SPECIFICATION FairSpec
CONSTANTS
    Helpers = {h1, h2}
    NotANumber = NotANumber
    Texts = {NotANumber, 0, 3, 9}
    MinTtl = 2
    MaxTtl = 4
    Default = 3
    Huge = 9
INVARIANTS TypeOK GrantLasts
PROPERTY LeaseEnds
