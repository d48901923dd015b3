\* tf_stat over the tf_io.h contract, and every tf_makename and tf_sort_dirents
\* input of MC_TfUtil.
CONSTANTS
    Null = Null
    Strs <- MC_Strs
    Paths <- MC_Paths
    Fs <- MC_Fs
    Listings <- MC_Listings
    SortTypes <- MC_SortTypes
SPECIFICATION Spec
INVARIANTS
    StatFindsEntry
    StatClosesListing
PROPERTIES
    StatReturns
    MakenameCanonical
    MakenameFits
    SortOrdered
