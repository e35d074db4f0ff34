SPECIFICATION ServicesSpec
CONSTANTS
  a1 = a1
  a2 = a2
  k1 = k1
  k2 = k2
  r1 = r1
  r2 = r2
  m1 = m1
  Absent = Absent
  ApplicationSections = {k1, k2}
  VerificationRequests = {r1, r2}
  VehicleIds = {a1, a2}
  Plates = {k1, k2}
  VehicleRequests = {r1, r2}
  Reviewers = {a1, a2}
  ReviewKeys = {k1, k2}
  Ratings = {1, 2}
  ReviewRequests = {r1, r2}
  ClientMessageIds = {m1}
  ChatRequests = {r1, r2}
  TicketRequests = {r1, r2}
  SessionIds = {a1, a2}
  AuthRequests = {r1, r2}
  MaxToken = 3
  Entries = {a1, a2}
  RouteTrips = {k1, k2}
  MatchRequests = {r1, r2}
  RewardTrips = {k1, k2}
  MilestoneTarget = 1
  RewardRequests = {r1, r2}
  MaxContacts = 2
  BlockRows = {k1, k2}
  SafetyRequests = {r1, r2}
  Codes = {1, 2, 3}
  Requests = {r1, r2}
  MaxAttempts = 2
  MaxWrong = 2
  Versioned = TRUE
  Times = {1, 2, 3}
  MinInterval = 2
  MaxPoints = 3
  LocationRequests = {r1, r2}
  Shares = {a1, a2}
  MaxViews = 2
  Viewers = {r1, r2}
  Locales = {"ru", "uz"}
  Themes = {"LIGHT", "DARK"}
  Details = {k1, k2}
  SaveRequests = {r1, r2}
  Journeys = {a1, a2}
  FollowRequests = {r1, r2}
  AssetRows = {k1, k2, m1}
  MaxPhotos = 1
  UploadRequests = {r1, r2}
  Offers = {1, 2, 3}
  Departures = {20, 36}
  Prices = {1, 2}
  PriceLimits = {1}
  PageSize = 1
  MaxChanges = 1
  CityIds = {a1, a2}
  RouteIds = {r1, r2}
  Accounts = {a1, a2}
  Loads = {r1, r2}
  Agents = {a1, a2}
  DeskRequests = {r1, r2}
  MaxAssignments = 2
  BookingRequests = {r1, r2}
  MaxCancellations = 1
SYMMETRY Symmetry
INVARIANTS
  DriversHold
  VehiclesHold
  RatingsHold
  MessagesHold
  
  UserIsKnown
  PublicationReaches
  RewardsHold
  TravellersAreSafe
  CodesHold
  FilesHold
  ClientFindsSeats
CHECK_DEADLOCK FALSE
