SPECIFICATION Spec
CONSTANTS
 Absent = Absent
 s1 = s1
 c1 = c1
 Sites = {s1}
 Clients = {c1}
 Offers <- TheOffers
 Listings <- TheListings
 Rulebook <- TheRulebook
 Groupings = {"random"}
 Changes <- TheChanges
 Documents <- TheDocuments
 Pins = {"x", "y"}
 FirstData <- TheFirstData
 UsesBinary = TRUE
 MaxIds = 9
 MaxRequests = 1
 MaxFails = 0
CHECK_DEADLOCK FALSE
PROPERTIES
 RulesKeepTheirOrder
