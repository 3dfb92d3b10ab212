CONSTANTS
    Users = {ada, bob}
    Malformed = Malformed
    None = None
SYMMETRY Symmetry
SPECIFICATION IdentitySpec
INVARIANTS WritesProven NeverDowngraded ShadowBlocksNothing Coherent
PROPERTY MintedBySession
