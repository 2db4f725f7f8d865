CONSTANTS
    Pages = {p1}
    Clients = {c1}
    Lanes = {doing}
    Fields = {model}
    Loads = {load1, load2}
    Values = {small, padded}
    Cleaned <- WithoutBlanks
    small = small
    padded = padded
    Inherit = inherit
SPECIFICATION Spec
INVARIANT EditsTakeEffect
