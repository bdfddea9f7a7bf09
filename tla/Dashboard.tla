------------------------------ MODULE Dashboard ------------------------------
(***************************************************************************)
(* The editorial dashboard (vue/store/modules/article.store.js and the     *)
(* components that dispatch its actions).  Users choose filters (sections, *)
(* journalists, tags, dates), which marks the articles shown as out of     *)
(* date, and have them fetched by a button; settings (fields, weights, the *)
(* order) apply to what is fetched; a scheduled report brings its own      *)
(* filters and settings.  Fetching takes two calls, and several fetches    *)
(* can be under way.                                                       *)
(***************************************************************************)
CONSTANTS
    Filters,    \* choices of filters
    Settings,   \* choices of settings
    Fetches     \* fetches that can be under way at once

VARIABLES
    loading_state,    \* "pre", "pending", "loading" or "loaded"
    articles_loaded,
    init,             \* whether init has ended
    filters,          \* what is chosen ...
    settings,
    articles,         \* ... and what the articles shown were fetched for
    fetch,            \* each fetch: where it is and what it fetches for
    apart             \* history: what sets the articles apart from the choices

dashboard_vars ==
    <<loading_state, articles_loaded, init, filters, settings, articles, fetch, apart>>

Unset == "none"
ASSUME DashboardAssumption == Unset \notin Filters \cup Settings

NoFetch == [at |-> "idle", filters |-> Unset, settings |-> Unset]

DashboardInit ==
    /\ loading_state = "pre"
    /\ articles_loaded = FALSE
    /\ init = FALSE
    /\ filters \in Filters
    /\ settings \in Settings
    /\ articles = [filters |-> Unset, settings |-> Unset]
    /\ fetch = [x \in Fetches |-> NoFetch]
    /\ apart = {}

-----------------------------------------------------------------------------
UnderWay == {x \in Fetches : fetch[x].at # "idle"}

Crossing == IF UnderWay = {} THEN {} ELSE {"crossed"}

(* init ends: filters of the address of the page are chosen (143-231).     *)
EndInit(f) ==
    /\ ~init
    /\ init' = TRUE
    /\ filters' = f
    /\ loading_state' = "pending"
    /\ apart' = apart \cup Crossing
    /\ UNCHANGED <<articles_loaded, settings, articles, fetch>>

(* The fields for filters are disabled during a fetch.                     *)
FiltersEnabled == loading_state # "loading"

(* Mutant: a change is not marked.                                         *)
UpdateFilters_Unmarked(f) ==
    /\ FiltersEnabled
    /\ filters' = f
    /\ apart' = apart \cup Crossing
    /\ UNCHANGED <<loading_state, articles_loaded, init, settings, articles, fetch>>

(* updateSections, updateJournalists, updateTags, updateDateRange and what *)
(* dispatches them (232-269, 303-314).                                     *)
UpdateFilters(f) ==
    /\ FiltersEnabled
    /\ filters' = f
    /\ loading_state' = "pending"
    /\ apart' = apart \cup Crossing
    /\ UNCHANGED <<articles_loaded, init, settings, articles, fetch>>

(* updateVisibleFields and updateFieldWeight, from a window that is open   *)
(* at any time (503-511).                                                  *)
UpdateSettings(s) ==
    /\ settings' = s
    /\ apart' = apart \cup {"settings"}
    /\ UNCHANGED <<loading_state, articles_loaded, init, filters, articles, fetch>>

(* loadReport: what is shown is neither marked nor fetched, for the        *)
(* condition at the end is never true (scheduled_report.store.js 171-185). *)
LoadReport(f, s) ==
    /\ filters' = f
    /\ settings' = s
    /\ apart' = apart \cup {"report"}
    /\ UNCHANGED <<loading_state, articles_loaded, init, articles, fetch>>

-----------------------------------------------------------------------------
(* getArticles up to its first call: the filters are read (323-347).       *)
GetArticles(x) ==
    /\ fetch[x].at = "idle"
    /\ fetch' = [fetch EXCEPT ![x] = [at |-> "articles", filters |-> filters, settings |-> Unset]]
    /\ loading_state' = "loading"
    /\ apart' = Crossing
    /\ UNCHANGED <<articles_loaded, init, filters, articles>>

(* The button Load Report or Reload Report.                                *)
Reload(x) ==
    /\ loading_state = "pending"
    /\ GetArticles(x)
    /\ UNCHANGED settings

(* OK in the window for settings (499-502), which is open at any time.     *)
ApplySettings(x) ==
    /\ GetArticles(x)
    /\ UNCHANGED settings

(* updateSortField from the head of the table (315-322).                   *)
UpdateSortField(x, s) ==
    /\ loading_state # "loading" /\ articles_loaded
    /\ settings' = s
    /\ GetArticles(x)

(* The articles come and are ranked and sorted by the settings of now      *)
(* (348-448).                                                              *)
RankArticles(x) ==
    /\ fetch[x].at = "articles"
    /\ fetch' = [fetch EXCEPT ![x].at = "hits", ![x].settings = settings]
    /\ UNCHANGED <<loading_state, articles_loaded, init, filters, settings, articles, apart>>

(* The total hits come, and the articles are shown (450-492).              *)
ShowArticles(x) ==
    /\ fetch[x].at = "hits"
    /\ fetch' = [fetch EXCEPT ![x] = NoFetch]
    /\ articles' = [filters |-> fetch[x].filters, settings |-> fetch[x].settings]
    /\ articles_loaded' = TRUE
    /\ loading_state' = "loaded"
    /\ UNCHANGED <<init, filters, settings, apart>>

(* A call fails: nobody catches that, and the page goes on waiting.        *)
FetchBreaks(x) ==
    /\ fetch[x].at # "idle"
    /\ fetch' = [fetch EXCEPT ![x] = NoFetch]
    /\ apart' = apart \cup {"failed"}
    /\ UNCHANGED <<loading_state, articles_loaded, init, filters, settings, articles>>

DashboardNext ==
    \/ \E f \in Filters : EndInit(f) \/ UpdateFilters(f)
    \/ \E s \in Settings : UpdateSettings(s) \/ \E f \in Filters : LoadReport(f, s)
    \/ \E x \in Fetches :
          \/ Reload(x) \/ ApplySettings(x) \/ \E s \in Settings : UpdateSortField(x, s)
          \/ RankArticles(x) \/ ShowArticles(x) \/ FetchBreaks(x)

DashboardSpec == DashboardInit /\ [][DashboardNext]_dashboard_vars

-----------------------------------------------------------------------------
DashboardTypeOK ==
    /\ loading_state \in {"pre", "pending", "loading", "loaded"}
    /\ articles_loaded \in BOOLEAN
    /\ init \in BOOLEAN
    /\ filters \in Filters
    /\ settings \in Settings
    /\ articles \in [filters : Filters \cup {Unset}, settings : Settings \cup {Unset}]
    /\ fetch \in [Fetches -> [at : {"idle", "articles", "hits"}, filters : Filters \cup {Unset},
                              settings : Settings \cup {Unset}]]
    /\ apart \subseteq {"crossed", "settings", "report", "failed"}

(* When the page says that the articles are loaded, they are those of the  *)
(* filters and settings chosen, unless since the fetch began another one   *)
(* or init was under way, a report was loaded or settings were changed and *)
(* not applied.  And it waits for ever only when a fetch has failed.       *)
LoadedAsChosen ==
    /\ loading_state = "loaded" /\ apart \cap {"crossed", "report"} = {} =>
          /\ articles.filters = filters
          /\ articles.settings = settings \/ "settings" \in apart
    /\ loading_state = "loading" => UnderWay # {} \/ "failed" \in apart
=============================================================================
