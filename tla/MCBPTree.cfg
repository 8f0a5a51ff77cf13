\* An odd and an even order.  Seven ids in any order of insertion for the
\* first and ten for the second give trees of three levels.
CONSTANT
    Calls <- SmallCalls
SPECIFICATION Spec
INVARIANTS
    LookupsExact
    Balanced
PROPERTY
    ServesIndex
