------------------------------ MODULE MCServices ------------------------------
(* Components that share no state: part chooses the one that is there, and the *)
(* variables of the others are Absent.  Whether requests of a part overlap is  *)
(* chosen at the start, too.                                                   *)
EXTENDS DriverVerification, Vehicles, Reviews, Conversations, SupportTickets,
        Sessions, Waitlist, Rewards, Safety, OneTimeCodes, TripLocations,
        TripShares, Profiles, Favourites, Uploads, Search, BookingPage,
        Catalogue, UsersPanel, TicketDesk, BookingDesk, TLC

CONSTANTS a1, a2, k1, k2, r1, r2, m1, Absent

VARIABLE part

Symmetry == Permutations({a1, a2}) \cup Permutations({k1, k2}) \cup Permutations({r1, r2})

ServicesInit ==
    /\ part \in {"driver", "vehicles", "reviews", "chat", "support", "sessions", "waitlist",
                "rewards", "safety", "codes", "locations", "shares", "profiles", "favourites",
                "uploads", "search", "booking", "catalogue", "users", "desk", "bookings"}
    /\ IF part = "driver" THEN DriverVerificationInit ELSE
           application = Absent /\ sections = Absent /\ verification = Absent /\
           verificationTx = Absent /\ verificationAlone = Absent /\ approvedUnseen = Absent
    /\ IF part = "vehicles" THEN VehiclesInit ELSE
           vehicle = Absent /\ vehicleTx = Absent /\ vehiclesAlone = Absent
    /\ IF part = "reviews" THEN ReviewsInit ELSE
           review = Absent /\ record = Absent /\ counted = Absent /\ reviewTx = Absent /\
           reviewsAlone = Absent /\ posts = Absent /\ entity = Absent
    /\ IF part = "chat" THEN ConversationsInit ELSE
           chatBooking = Absent /\ conversations = Absent /\ message = Absent /\
           receipt = Absent /\ alerts = Absent /\ lastRead = Absent /\ withheld = Absent /\
           chatTx = Absent /\ chatAlone = Absent
    /\ IF part = "support" THEN SupportTicketsInit ELSE
           ticket = Absent /\ lastEvent = Absent /\ ticketTx = Absent /\ ticketAlone = Absent
           /\ broken = Absent
    /\ IF part = "sessions" THEN SessionsInit ELSE
           users = Absent /\ session = Absent /\ cookie = Absent /\ authTx = Absent /\
           authAlone = Absent /\ loggedOut = Absent
    /\ IF part = "waitlist" THEN WaitlistInit ELSE
           entry = Absent /\ entryExpired = Absent /\ routeTrip = Absent /\ matches = Absent /\
           muted = Absent /\ waitAlerts = Absent /\ matchTx = Absent /\ matchingAlone = Absent
           /\ withdrawn = Absent
    /\ IF part = "rewards" THEN RewardsInit ELSE
           reward = Absent /\ evaluation = Absent /\ grants = Absent /\ referral = Absent /\
           milestone = Absent /\ rewardedTrips = Absent /\ rewardTx = Absent
    /\ IF part = "safety" THEN SafetyInit ELSE
           report = Absent /\ reports = Absent /\ blockRow = Absent /\ contacts = Absent /\
           safetyTx = Absent /\ safetyAlone = Absent
    /\ IF part = "codes" THEN CodesInit ELSE
           issued = Absent /\ status = Absent /\ attempts = Absent /\ lapsed = Absent /\
           moved = Absent /\ request = Absent /\ wrong = Absent /\ moves = Absent
    /\ IF part = "locations" THEN TripLocationsInit ELSE
           trackedTrip = Absent /\ aboard = Absent /\ points = Absent /\ otherPoints = Absent
           /\ locationTx = Absent /\ locationAlone = Absent /\ strays = Absent
    /\ IF part = "shares" THEN TripSharesInit ELSE
           mayShare = Absent /\ shared = Absent /\ revoked = Absent /\ shareLapsed = Absent /\
           accessEvents = Absent /\ shareTx = Absent /\ shareAlone = Absent /\ views = Absent
           /\ shownLate = Absent
    /\ IF part = "profiles" THEN ProfilesInit ELSE
           store = Absent /\ panel = Absent /\ saving = Absent /\ savesAlone = Absent /\
           tab = Absent /\ chosen = Absent
    /\ IF part = "favourites" THEN FavouritesInit ELSE
           favourite = Absent /\ savedRoutes = Absent /\ silenced = Absent /\ journey = Absent
           /\ tripAlerts = Absent /\ publishing = Absent /\ followAlone = Absent /\
           unwanted = Absent
    /\ IF part = "uploads" THEN UploadsInit ELSE
           owner = Absent /\ asset = Absent /\ parcelOpen = Absent /\ photos = Absent /\
           uploadTx = Absent /\ uploadsAlone = Absent
    /\ IF part = "search" THEN SearchInit ELSE
           offers = Absent /\ query = Absent /\ found = Absent /\ nextPage = Absent /\
           hasMore = Absent /\ changes = Absent /\ steady = Absent
    /\ IF part = "booking" THEN BookingPageInit ELSE
           previewSevenSeat = Absent /\ bookingType = Absent /\ selectedSeats = Absent /\
           passengerCount = Absent /\ step = Absent /\ baggage = Absent
    /\ IF part = "catalogue" THEN CatalogueInit ELSE
           city = Absent /\ route = Absent /\ journeyTrip = Absent /\ drafting = Absent /\
           closed = Absent /\ rerouted = Absent
    /\ IF part = "users" THEN UsersPanelInit ELSE
           roles = Absent /\ load = Absent /\ listed = Absent /\ selected = Absent /\
           shownFor = Absent
    /\ IF part = "desk" THEN TicketDeskInit ELSE
           involved = Absent /\ deskTicket = Absent /\ takingPart = Absent /\ noted = Absent /\
           newestAssigned = Absent /\ clock = Absent /\ deskTx = Absent /\ deskAlone = Absent
    /\ IF part = "bookings" THEN BookingDeskInit ELSE
           bookingRow = Absent /\ tripRow = Absent /\ cancelledAs = Absent /\
           tripCancelledAs = Absent /\ bookingTx = Absent /\ bookingAlone = Absent

OthersUnchanged ==
    /\ part # "driver" => UNCHANGED verificationVars
    /\ part # "vehicles" => UNCHANGED vehicleVars
    /\ part # "reviews" => UNCHANGED reviewVars
    /\ part # "chat" => UNCHANGED chatVars
    /\ part # "support" => UNCHANGED ticketVars
    /\ part # "sessions" => UNCHANGED sessionVars
    /\ part # "waitlist" => UNCHANGED waitVars
    /\ part # "rewards" => UNCHANGED rewardVars
    /\ part # "safety" => UNCHANGED safetyVars
    /\ part # "codes" => UNCHANGED codeVars
    /\ part # "locations" => UNCHANGED locationVars
    /\ part # "shares" => UNCHANGED shareVars
    /\ part # "profiles" => UNCHANGED profileVars
    /\ part # "favourites" => UNCHANGED followVars
    /\ part # "uploads" => UNCHANGED uploadVars
    /\ part # "search" => UNCHANGED searchVars
    /\ part # "booking" => UNCHANGED pageVars
    /\ part # "catalogue" => UNCHANGED catalogueVars
    /\ part # "users" => UNCHANGED usersVars
    /\ part # "desk" => UNCHANGED deskVars
    /\ part # "bookings" => UNCHANGED bookingVars

ServicesNext ==
    /\ UNCHANGED part /\ OthersUnchanged
    /\ \/ part = "driver" /\ DriverVerificationNext
       \/ part = "vehicles" /\ VehiclesNext
       \/ part = "reviews" /\ ReviewsNext
       \/ part = "chat" /\ ConversationsNext
       \/ part = "support" /\ SupportTicketsNext
       \/ part = "sessions" /\ SessionsNext
       \/ part = "waitlist" /\ WaitlistNext
       \/ part = "rewards" /\ RewardsNext
       \/ part = "safety" /\ SafetyNext
       \/ part = "codes" /\ CodesNext
       \/ part = "locations" /\ TripLocationsNext
       \/ part = "shares" /\ TripSharesNext
       \/ part = "profiles" /\ ProfilesNext
       \/ part = "favourites" /\ FavouritesNext
       \/ part = "uploads" /\ UploadsNext
       \/ part = "search" /\ SearchNext
       \/ part = "booking" /\ BookingPageNext
       \/ part = "catalogue" /\ CatalogueNext
       \/ part = "users" /\ UsersPanelNext
       \/ part = "desk" /\ TicketDeskNext
       \/ part = "bookings" /\ BookingDeskNext

servicesVars ==
    <<part, verificationVars, vehicleVars, reviewVars, chatVars, ticketVars, sessionVars,
    waitVars, rewardVars, safetyVars, codeVars, locationVars, shareVars, profileVars,
    followVars, uploadVars, searchVars, pageVars, catalogueVars, usersVars,
    deskVars, bookingVars>>

ServicesSpec == ServicesInit /\ [][ServicesNext]_servicesVars

-----------------------------------------------------------------------------

(* Drivers drive only when an admin has vetted what they sent.               *)
DriversHold == part = "driver" => DriverIsVetted

(* A trip is published with a vehicle that is one of a kind and reviewed.    *)
VehiclesHold == part = "vehicles" => VehiclesAreVetted

(* A booking counts once in a rating, with what its author has published.    *)
RatingsHold == part = "reviews" => RatingsAreEarned

(* Messages and the counts of unread ones follow from what was sent and      *)
(* read.                                                                     *)
MessagesHold == part = "chat" => MessagesAccounted

(* The history of a support ticket leads to its status, its assignee takes   *)
(* part in it, and what is shown of a booking has happened.                  *)
TicketsHold ==
    /\ part = "support" => TicketHistoryHolds
    /\ part = "desk" => TicketDeskHolds
    /\ part = "bookings" => BookingDeskHolds

(* The client holds a session of the user it shows, what the user chose is   *)
(* what is stored, and admins see the users they asked for.                  *)
UserIsKnown ==
    /\ part = "sessions" => SignedInAsKnown
    /\ part = "profiles" => ChoicesKept
    /\ part = "users" => DetailIsListed

(* A published trip goes where clients can look for it; it serves those who  *)
(* wait for a trip, and tells those who follow the driver, once and as they  *)
(* wished.                                                                   *)
PublicationReaches ==
    /\ part = "catalogue" => TripsConnectCities
    /\ part = "waitlist" => WaitlistIsServed
    /\ part = "favourites" => FavouritesAreWanted

(* Each source is rewarded once, as its evaluation says.                     *)
RewardsHold == part = "rewards" => RewardsAddUp

(* Reports, contacts and blocks hold, and the position and the trip of a     *)
(* traveller are seen no longer, and no more often, than they may be.        *)
TravellersAreSafe ==
    /\ part = "safety" => SafetyRecordsHold
    /\ part = "locations" => PositionsAreBounded
    /\ part = "shares" => SharesEnd

(* A code moves a booking or a parcel once, and only the code that counts.   *)
CodesHold == part = "codes" => CodesUsedOnce

(* Uploads leave the documents that a review needs, and no more than is      *)
(* allowed.                                                                  *)
FilesHold == part = "uploads" => UploadsHold

(* A client finds each trip once, in order, and asks for seats as the API    *)
(* wants them.                                                               *)
ClientFindsSeats ==
    /\ part = "search" => SearchHolds
    /\ part = "booking" => RequestIsAccepted
    /\ part = "booking" => FreeSeatsAreDrawn
===============================================================================
