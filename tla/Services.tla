-------------------------------- MODULE Services --------------------------------
(***************************************************************************)
(* The services that share nothing but the process and the clock, each     *)
(* explored on its own: a scene is chosen at the start, its service moves, *)
(* and the others stay as they begin.  The scenes of the risk screen are   *)
(* its kinds of key.                                                       *)
(***************************************************************************)
EXTENDS RiskScreen

CONSTANTS
    Client,     \* requests of the services that need more of them
    Horizon,    \* of a scene: until when it is explored
    \* of the river forecast
    RiverPoint, TrainedRiver, UsedRiver, Ensembles, RiverSeconds, FailureSeconds,
    \* of the public limits
    Path, PublicLimit, LimitWindow, MaxTracked, DailyLimit, QuotaDay, MaxAsked,
    \* of the place names, and of the reverse geocoding
    Accuracy, Bodies, PlaceCache, PlaceSeconds, MinInterval, MaxWaiting,
    Point, Quota, BudgetHour, Gap, NameCache, NameSeconds, Pauses, NameTimeout,
    \* of the administrators
    Peer, Maximum, AttemptWindow, AttemptHour, Lifetime, IdleTime, Gate, Patience, MaxReset,
    \* of the weather, and of the warnings by day
    FeedDay, Week, RainWindow, Past,
    WarningDay, DAY_COLOURS, WARNING_CODES, Forecast, STALE_DAYS, IMD_TTL, FAIL_TTL,
    \* of the directory of locations, the proxy and the pool of connections
    Content, Holds, Slots, Message, Sheltered, Size, PoolTimeout, StatementTimeout

Others ==
    {"river", "public", "places", "geocoding", "accounts", "proxy", "feeds", "directory", "database", "bulletin", "pool"}

\* Clients are finitely many, and None is neither one of them nor a row of a table.
ASSUME ServicesAssumption ==
    /\ Key \cap Others = {} /\ IsFiniteSet(Client) /\ None \notin Client \cup Message
    /\ {Slots, Size, PoolTimeout, StatementTimeout, Lifetime} \subseteq Nat
    /\ None \notin [data : Content, hash : Content, manifest : Content]
    /\ None \notin [password : Request \cup {"old", "reset"}, made : Request \cup {"before"},
                    set : Request \cup {"before", "reset"}]

\* A forecast has days, a bulletin is a sequence of them, requests are finitely many,
\* and times and limits are numbers.
ASSUME DataAssumption ==
    /\ \A week \in Ensembles : \A i \in RiverPoint : week[i] \in Seq([two : Nat, five : Nat, median : Nat]) \ {<<>>}
    /\ \A says \in Forecast : Len(says) \in Nat /\ DOMAIN says = 1 .. Len(says)
    /\ WarningDay \in Nat \ {0} /\ RainWindow \in Nat
    /\ IsFiniteSet(Request) /\ None \notin Nat /\ Accuracy \subseteq Nat \cup {None}
    /\ {MinInterval, MaxWaiting, PlaceSeconds} \subseteq Int
    /\ {Quota, BudgetHour} \cup Pauses \subseteq Nat /\ Gap \in Nat \ {0} /\ Gap <= BudgetHour

\* Limits and windows are positive; an hour is made of windows, and rows of attempts are
\* kept for longer than two requests, one after the other, may wait after their windows.
ASSUME LimitAssumption ==
    /\ \A path \in DOMAIN Path : Path[path] # "none" => PublicLimit[Path[path]] \in Nat \ {0}
    /\ {LimitWindow, MaxTracked, QuotaDay, AttemptWindow} \subseteq Nat \ {0}
    /\ {DailyLimit, Patience, AttemptHour} \subseteq Nat /\ AttemptHour % AttemptWindow = 0
    /\ 2 * (Patience + AttemptWindow) <= AttemptHour
    /\ \A kind \in {"peer", "account", "total", "address"} : Maximum[kind] \in Nat \ {0}
    /\ None \notin [start : Int, attempts : Int]

VARIABLES
    scene,
    forecast, line, reader, ensemble,
    hits, quota, routing, asked, routes,
    places, lookers, waiting, last, look, starts,
    names, calls, cooldown_until, namers, naming, made,
    limits, password, sessions, attempt, counted, missed, overtaken,
    slots, conn,
    asking, weather, outlook,
    directory, manifest, versions, active, job, directoryReader, served,
    version, tables, usable, alterable, upgrade, setup, account, app,
    bulletin, imd, notice,
    out, row, dispatch, sent, claim

River == INSTANCE RiverForecast WITH River <- RiverPoint, Trained <- TrainedRiver, Used <- UsedRiver,
    CacheSeconds <- RiverSeconds, MaxClock <- Horizon["river"]

Public == INSTANCE PublicLimits WITH Address <- Request, Limit <- PublicLimit, Window <- LimitWindow, Day <- QuotaDay,
    MaxClock <- Horizon["public"]

Places == INSTANCE PlaceLookup WITH CacheSize <- PlaceCache, CacheSeconds <- PlaceSeconds, MaxClock <- Horizon["places"]

Geocoding == INSTANCE ReverseGeocoding WITH Hour <- BudgetHour, CacheSize <- NameCache, CacheSeconds <- NameSeconds,
    Timeout <- NameTimeout, MaxClock <- Horizon["geocoding"]

Admin == INSTANCE Accounts WITH Request <- Client, Window <- AttemptWindow, Hour <- AttemptHour, Idle <- IdleTime,
    MaxClock <- Horizon["accounts"]

Proxy == INSTANCE WebhookProxy WITH Conn <- Client

Feeds == INSTANCE WeatherFeeds WITH Day <- FeedDay, Window <- RainWindow, MaxClock <- Horizon["feeds"]

Directory == INSTANCE LocationDirectory WITH Import <- Request, reader <- directoryReader

DB == INSTANCE Maintenance WITH Upgrade <- Request, Setup <- Request

Warnings == INSTANCE DistrictWarnings WITH Day <- WarningDay, MaxClock <- Horizon["bulletin"]

Pool == INSTANCE ConnectionPool WITH Claim <- Client, MaxClock <- Horizon["pool"]

-----------------------------------------------------------------------------
\* A service of which another scene is not about begins in one way only.
ServicesInit ==
    /\ scene \in Key \cup Others
    /\ Init /\ River!Init /\ Public!Init /\ Places!Init /\ Geocoding!Init /\ Admin!Init /\ Proxy!Init /\ Feeds!Init
    /\ Directory!Init /\ DB!Init /\ Warnings!Init /\ Pool!Init
    /\ scene # "accounts" => \A k \in Admin!LimitKey : limits[k] = None
    /\ scene # "bulletin" => bulletin.days = CHOOSE days \in Forecast : TRUE
    /\ scene # "directory" => directory = CHOOSE content \in Content : TRUE
    /\ scene # "database" => version = 5 /\ usable = {} /\ alterable = {} /\ account = None

\* Two requests at once for a point, one after the other for an area or the grid.
Explored ==
    /\ clock' <= Horizon[scene] /\ \A r \in Request : task'[r].key \in {None, scene}
    /\ Kind[scene] # "point" => \E r \in Request : task'[r].key = None

ServicesNext ==
    /\ \/ scene \in Key /\ Next /\ Explored
       \/ scene = "river" /\ River!Next
       \/ scene = "public" /\ Public!Next
       \/ scene = "places" /\ Places!Next
       \/ scene = "geocoding" /\ Geocoding!Next
       \/ scene = "accounts" /\ Admin!Next
       \/ scene = "proxy" /\ Proxy!Next /\ clock' = clock
       \/ scene = "feeds" /\ Feeds!Next /\ Feeds!Unavailable \in {weather', outlook'}
       \/ scene = "directory" /\ Directory!Next /\ clock' = clock
       \/ scene = "database" /\ DB!Next /\ clock' = clock
       \/ scene = "bulletin" /\ Warnings!Next
       \/ scene = "pool" /\ Pool!Next
    /\ scene' = scene
    \* The variables of a service stay as they are in every other scene.
    /\ IF scene \in Key THEN TRUE ELSE UNCHANGED <<body, queue, task, height, levels, file>>
    /\ IF scene = "river" THEN TRUE ELSE UNCHANGED <<forecast, line, reader, ensemble>>
    /\ IF scene = "public" THEN TRUE ELSE UNCHANGED <<hits, quota, routing, asked, routes>>
    /\ IF scene = "places" THEN TRUE ELSE UNCHANGED <<places, lookers, waiting, last, look, starts>>
    /\ IF scene = "geocoding" THEN TRUE ELSE UNCHANGED <<names, calls, cooldown_until, namers, naming, made>>
    /\ IF scene = "accounts" THEN TRUE ELSE UNCHANGED <<limits, password, sessions, attempt, counted, missed, overtaken>>
    /\ IF scene = "proxy" THEN TRUE ELSE UNCHANGED <<slots, conn>>
    /\ IF scene = "feeds" THEN TRUE ELSE UNCHANGED <<asking, weather, outlook>>
    /\ IF scene = "directory" THEN TRUE ELSE UNCHANGED <<directory, manifest, versions, active, job, directoryReader, served>>
    /\ IF scene = "database" THEN TRUE ELSE UNCHANGED <<version, tables, usable, alterable, upgrade, setup, account, app>>
    /\ IF scene = "bulletin" THEN TRUE ELSE UNCHANGED <<bulletin, imd, notice>>
    /\ IF scene = "pool" THEN TRUE ELSE UNCHANGED <<out, row, dispatch, sent, claim>>

servicesVars ==
    <<scene, screenVars, forecast, line, reader, ensemble, hits, quota, routing, asked, routes, places, lookers, waiting,
      last, look, starts, names, calls, cooldown_until, namers, naming, made, limits, password, sessions, attempt, counted,
      missed, overtaken, slots, conn, asking, weather, outlook, directory, manifest, versions, active, job, directoryReader, served,
      version, tables, usable, alterable, upgrade, setup, account, app, bulletin, imd, notice, out, row, dispatch, sent, claim>>

Services == ServicesInit /\ [][ServicesNext]_servicesVars

-----------------------------------------------------------------------------
(* A property of a service is asked in its own scene; in the others it stays as *)
(* it begins.                                                                  *)

\* No provider of the process is asked more than it bears: Open-Meteo by the risk
\* screen, Nominatim by citizens and administrators, MapTiler by the home page.
ProvidersSpared ==
    /\ scene \in Key => ProviderSpared
    /\ scene = "places" => Places!NominatimSpared
    /\ scene = "geocoding" => Geocoding!MapTilerSpared

\* What is not known is not made up: by the risk screen, the river forecast, the
\* weather, the outlook, the warnings by day, and the address shown for a position.
NothingMadeUp ==
    /\ scene \in Key => MissingAdmitted
    /\ scene = "river" => River!ForecastStands
    /\ scene = "feeds" => Feeds!FeedsCurrent
    /\ scene = "bulletin" => Warnings!WarningsDated
    /\ scene = "places" => Places!AddressAsPrecise

\* Who is counted is let through no more often than allowed: public requests and
\* routes, logins and reports.
LimitsKept ==
    /\ scene = "public" => Public!LimitKept
    /\ scene = "accounts" => Admin!AttemptsKept

SessionsEarned == scene = "accounts" => Admin!SessionsEarned

\* Places that are few are given back and not waited for without end: those of the
\* proxy and of the pool of connections.
SlotsKept ==
    /\ scene = "proxy" => Proxy!SlotsKept
    /\ scene = "pool" => Pool!PoolKept

DirectoryWhole == scene = "directory" => Directory!DirectoryWhole
MaintenanceHonest == scene = "database" => DB!MaintenanceHonest
===============================================================================
