---------------------------- MODULE StartupConfig -----------------------------
(* config/validator.py and the top of gateway/app.py: the middlewares are put   *)
(* together from the environment when the module is imported, the profile of    *)
(* ENVIRONMENT fills the gaps of the environment when the application starts,   *)
(* and then the validator reads it.                                             *)
EXTENDS Naturals, Sequences, FiniteSets

CONSTANTS Explicit   \* environments given to the process: functions from some
                     \* of the variables to values, ENVIRONMENT among them

VARIABLES env,         \* os.environ
          given,       \* observation: env at the beginning
          middleware,  \* what add_middleware was called for
          step,        \* "import", "profile", "validate", "started"
          errors       \* ConfigValidator.errors: variables

configVars == <<env, given, middleware, step, errors>>

Profiles ==
  [development |-> [DEV_MODE |-> "1", LOG_LEVEL |-> "DEBUG",
                    SECURITY_HEADERS_ENABLED |-> "0", ENABLE_REQUEST_SIGNING |-> "0"],
   staging     |-> [LOG_LEVEL |-> "INFO",
                    SECURITY_HEADERS_ENABLED |-> "1", ENABLE_REQUEST_SIGNING |-> "1"],
   production  |-> [DEV_MODE |-> "0", LOG_LEVEL |-> "WARNING",
                    SECURITY_HEADERS_ENABLED |-> "1", ENABLE_REQUEST_SIGNING |-> "1"]]

Valid == [LOG_LEVEL |-> {"DEBUG", "INFO", "WARNING", "ERROR", "CRITICAL"},
          HDC_DIMENSIONS |-> {"10000"}]   \* the other variables take any text

Get(e, v, dflt) == IF v \in DOMAIN e THEN e[v] ELSE dflt

ConfigInit ==
  /\ env \in Explicit /\ given = env
  /\ middleware = {} /\ step = "import" /\ errors = {}

(* `if os.getenv(...)': any text counts as set, "0" too.                        *)
BuildApp ==
  /\ step = "import"
  /\ middleware' =
       {"headers", "cors", "fingerprint", "limit", "auth"}
         \cup (IF Get(env, "SECURITY_HEADERS_ENABLED", "1") = "1"
                  /\ Get(env, "ENVIRONMENT", "development") # "development"
                 THEN {"csrf"} ELSE {})
         \cup (IF "ENABLE_REQUEST_SIGNING" \in DOMAIN env THEN {"signature"} ELSE {})
         \cup (IF "DEV_MODE" \in DOMAIN env THEN {"toolbar"} ELSE {})
  /\ step' = "profile"
  /\ UNCHANGED <<env, given, errors>>

Overrides == LET name == Get(env, "ENVIRONMENT", "development")
             IN IF name \in DOMAIN Profiles THEN Profiles[name] ELSE <<>>

ApplyProfile ==    \* os.environ.setdefault
  /\ step = "profile"
  /\ env' = [v \in DOMAIN env \cup DOMAIN Overrides |-> Get(env, v, Get(Overrides, v, ""))]
  /\ step' = "validate"
  /\ UNCHANGED <<given, middleware, errors>>

(* validate_all only lists what is wrong; the application starts all the same.  *)
ValidateAll ==
  /\ step = "validate"
  /\ errors' = {v \in DOMAIN Valid \cap DOMAIN env : env[v] \notin Valid[v]}
  /\ step' = "started"
  /\ UNCHANGED <<env, given, middleware>>

ConfigNext == BuildApp \/ ApplyProfile \/ ValidateAll

---------------------------------------------------------------------------
(* What the operator has set explicitly wins over the profile, what is not set  *)
(* comes from the profile, and no profile can bring in a value that the         *)
(* validator rejects.                                                           *)
ProfileFillsGaps ==
  /\ \A v \in DOMAIN given : env[v] = given[v]
  /\ step \in {"validate", "started"} => DOMAIN Overrides \subseteq DOMAIN env
  /\ errors \subseteq DOMAIN given

---------------------------------------------------------------------------
(* core_engine/setup_manager.py: a table of ten phases and the one in work.     *)

VARIABLES current   \* _current_phase

phaseVars == <<current>>

Phases == 1..10
Dependencies ==
  <<{}, {1}, {1}, {1, 3}, {3}, {1, 2}, {4}, {1, 2, 6}, {1, 4, 6}, {3, 4, 5}>>
Hours == <<40, 30, 35, 45, 25, 40, 50, 35, 30, 60>>
Status(p) == IF p \in 1..5 THEN "completed" ELSE "available"
Dated == 1..3 \cup {5}    \* phases with a completed_at
Groups == {{p} : p \in Phases}

OfStatus(s) == {p \in Phases : Status(p) = s}
(* The sum of the estimated hours, each hour counted once.                      *)
HoursOf(ps) == Cardinality(UNION {{p} \X (1..Hours[p]) : p \in ps})

Summary ==
  [total |-> Cardinality(Phases),
   completed |-> Cardinality(OfStatus("completed")),
   available |-> Cardinality(OfStatus("available")),
   in_progress |-> Cardinality(OfStatus("in_progress")),
   locked |-> Cardinality(OfStatus("locked")),
   completed_hours |-> HoursOf(Dated),     \* asks for a date, not for the status
   total_hours |-> HoursOf(Phases)]

MissingDependencies(p) == {d \in Dependencies[p] : Status(d) # "completed"}

PhaseInit == current = 1

(* Asks for the status only, never for the dependencies.                        *)
SetCurrentPhase(p) ==
  /\ p \in Phases /\ Status(p) # "locked"
  /\ current' = p

PhaseNext == \E p \in 0..11 : SetCurrentPhase(p)

---------------------------------------------------------------------------
(* The table tells one story: a completed phase misses no dependency and no     *)
(* phase needs itself, directly or through others; every phase stands in one    *)
(* group and in one count of the summary; and the summary claims no hours for   *)
(* a phase that is not completed.                                               *)
PhasesTellOneStory ==
  /\ current \in Phases
  /\ \A p \in OfStatus("completed") : MissingDependencies(p) = {}
  /\ \A p \in Phases : \A d \in Dependencies[p] : d < p
  /\ Summary.total = Summary.completed + Summary.available + Summary.in_progress + Summary.locked
  /\ \A p \in Phases : Cardinality({g \in Groups : p \in g}) = 1
  /\ Summary.completed_hours <= HoursOf(OfStatus("completed"))
===============================================================================
