SPECIFICATION Spec
CONSTANTS
 Absent = Absent
 s1 = s1
 c1 = c1
 Sites = {s1}
 Clients = {c1}
 Offers <- TheOffers
 Listings <- TheListings
 Rulebook <- TheRulebook
 Groupings = {"random"}
 Changes <- TheChanges
 Documents <- TheDocuments
 Pins = {"x", "y"}
 FirstData <- TheFirstData
 UsesBinary = TRUE
 MaxIds = 9
 MaxRequests = 3
 MaxFails = 1
CHECK_DEADLOCK FALSE
INVARIANTS
 PendingTellsTruth
PROPERTIES
 SelectionResolves
 RefreshKeepsIdentity
