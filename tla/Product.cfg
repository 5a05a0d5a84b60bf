SPECIFICATION SpecData
CONSTANTS
    Dimensions <- SmallDimensions
    MaxPeers = 6
    RightMatrices <- SmallRight
    LeftRows <- SmallRows
INVARIANTS
    TypeOK RowsCoveredOnce NoBlockIsEmpty NoMoreBlocksThanMembers DealIsEven
    ResultIsProduct
CHECK_DEADLOCK FALSE
