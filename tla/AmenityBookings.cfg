\* Charges are 2 an hour and ann's wallet holds 5, so that her two bookings exceed it; six
\* hours of a new amenity exceed MaxAmount.
SPECIFICATION FairSpec
CONSTANTS
    r1 = r1  r2 = r2  r3 = r3
    ann = ann  bob = bob
    z1 = z1  z2 = z2  z3 = z3  z4 = z4
    k1 = k1  k2 = k2  k3 = k3
    None = None
    Requests <- MCRequests
    Accounts <- MCAccounts
    Amenities <- MCAmenities
    BookingIds <- MCBookingIds
    Payloads <- MCPayloads
    OpeningAmenities <- MCOpeningAmenities
    OpeningWallets <- MCOpeningWallets
    Opening = 5
    MaxAmount = 5
INVARIANTS
    PaymentsMatchBookings
PROPERTIES
    SlotSharedOnlyByRace
    DeletedStaysDeleted
    EveryRequestEnds
\* Every request may have been answered.
CHECK_DEADLOCK FALSE
