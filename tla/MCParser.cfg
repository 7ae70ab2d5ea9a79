CONSTANTS
    Unit = 100
    Uninit = Uninit
    shuffle_time = 2
    Addresses <- MCAddresses
    Lines <- MCLines
    Creates <- MCCreates
    Rates <- MCRates
    Windows <- MCWindows
    Capacity = 2
    MaxNodes = 6
    MaxSections = 4
SPECIFICATION Spec
INVARIANTS
    TypeOK
    Proportional
    OverrunNeedsExcess
    RowsHoldTheArray
    XmlAsWritten
    
