----------------------------- MODULE StatusViews -----------------------------
(***************************************************************************)
(* The two pages that report on an app while the queue works: the health   *)
(* summary and the observability summary.  Each handler reads several      *)
(* tables, one statement after the other and without a transaction, so the *)
(* queue may write between two reads and the parts of a page may be of     *)
(* different moments.                                                      *)
(*                                                                         *)
(* Readers write nothing, so one of them, reading at any speed, stands for *)
(* any number.  A read that fails ends the request without a page: that is *)
(* a reader that goes no further.  The reads of the app, its releases, its *)
(* rollback events and its environment variables are left out: DeployQueue *)
(* has no part in what they return (see Releases and AppSettings).         *)
(***************************************************************************)
EXTENDS DeployQueue, Sequences

CONSTANTS
  Nothing,    (* a read that finds no row                               *)
  RecentRows  (* the LIMIT of the observability page's list, 30         *)

ASSUME RecentRowsAssumption == RecentRows \in Nat
ASSUME NothingAssumption    == Nothing \notin [id : Nat, status : DeploymentStatus]

VARIABLES
  inserted,  (* each app's rows of deployments, in the order of their ids *)
  page,      (* the page asked for, and the app it is about               *)
  shown      (* what the statements issued so far have returned           *)

viewVars == <<inserted, page, shown>>

-----------------------------------------------------------------------------
(* The statements                                                          *)

(* An app's rows, WHERE app_id = ?                                         *)
RowsOf(app) == inserted[app]

(* The i-th row, or what a query without a result returns.                 *)
Row(app, i) ==
  IF i = 0 THEN Nothing ELSE [id |-> i, status |-> deployments[RowsOf(app)[i]]]

(* ORDER BY created_at DESC, id DESC LIMIT 1                               *)
GetLatestDeploymentByAppForUser(app) == Row(app, Len(RowsOf(app)))

Successes(app) == {i \in 1..Len(RowsOf(app)) : deployments[RowsOf(app)[i]] = "succeeded"}

(* The same, AND status = 'succeeded'                                      *)
GetLastSuccessfulDeploymentByAppForUser(app) ==
  Row(app, CHOOSE i \in Successes(app) \cup {0} : \A j \in Successes(app) : j <= i)

(* The rows of ORDER BY created_at DESC, id DESC LIMIT RecentRows          *)
ListRecentDeploymentsByAppForUser(app) ==
  {i \in 1..Len(RowsOf(app)) : i > Len(RowsOf(app)) - RecentRows}

(* What the handler makes of that list, its status_counts.                 *)
StatusCounts(app) ==
  [status \in DeploymentStatus \ {"none"} |->
     Cardinality({i \in ListRecentDeploymentsByAppForUser(app) :
                    deployments[RowsOf(app)[i]] = status})]

GetAppHealthMetricsForUser(app) == health[app]

Read(statement, app) ==
  CASE statement = "metrics"     -> GetAppHealthMetricsForUser(app)
    [] statement = "latest"      -> GetLatestDeploymentByAppForUser(app)
    [] statement = "lastSuccess" -> GetLastSuccessfulDeploymentByAppForUser(app)
    [] statement = "recent"      -> StatusCounts(app)

-----------------------------------------------------------------------------
(* The pages                                                               *)

(* The last success is looked up before everything else.                   *)
BugHealthSummary == <<"lastSuccess", "metrics", "latest">>

(* GetAppHealthSummaryHandler                                              *)
HealthSummary == <<"metrics", "latest", "lastSuccess">>

(* The counters are read before the list they summarise.                   *)
BugObservabilitySummary == <<"metrics", "recent">>

(* GetAppObservabilitySummaryHandler                                       *)
ObservabilitySummary == <<"recent", "metrics">>

Statements(kind) == IF kind = "health" THEN HealthSummary ELSE ObservabilitySummary

(* The handler issues its next statement.                                  *)
ReadNext ==
  LET reads == Statements(page.kind)
      statement == reads[Cardinality(DOMAIN shown) + 1]
  IN  /\ Cardinality(DOMAIN shown) < Len(reads)
      /\ shown' = [s \in DOMAIN shown \cup {statement} |->
                     IF s = statement THEN Read(s, page.app) ELSE shown[s]]
      /\ UNCHANGED <<vars, inserted, page>>

PageIsServed(kind) ==
  page.kind = kind /\ Cardinality(DOMAIN shown) = Len(Statements(kind))

(* computeHealthIndicator                                                  *)
HealthIndicator(latest) ==
  IF latest = Nothing THEN "unknown"
  ELSE CASE latest.status = "succeeded" -> "healthy"
         [] latest.status = "failed" -> "unhealthy"
         [] OTHER -> "degraded"

-----------------------------------------------------------------------------

ViewsInit ==
  /\ Init
  /\ inserted = [app \in Apps |-> <<>>]
  /\ page \in [kind : {"health", "observability"}, app : Apps]
  /\ shown = <<>>

(* A step of the queue; an INSERT takes the next id.                       *)
QueueStep ==
  /\ Next
  /\ inserted' = [app \in Apps |->
       LET new == {d \in Deployments : AppOf[d] = app /\ deployments[d] = "none"
                                                     /\ deployments'[d] # "none"}
       IN  IF new = {} THEN inserted[app] ELSE Append(inserted[app], CHOOSE d \in new : TRUE)]
  /\ UNCHANGED <<page, shown>>

ViewsNext == QueueStep \/ ReadNext

ViewsSpec == ViewsInit /\ [][ViewsNext]_<<vars, viewVars>>

-----------------------------------------------------------------------------
(* Properties                                                              *)

(* A success that no longer shows: an attempt's late write put the         *)
(* deployment of a succeeded job back to queued (see                       *)
(* SettledDeploymentAgrees).                                               *)
Overwritten ==
  {d \in Deployments : jobs[d].status = "succeeded" /\ deployments[d] = "queued"}

(* The health page does not contradict itself, although its parts are read *)
(* at different moments: an app it calls healthy has a last successful     *)
(* deployment that is no older than the latest one, and an app with a      *)
(* success in its counters has a last successful deployment at all.  Not   *)
(* so when a write has failed, or a success has been overwritten.          *)
HealthPageIsCoherent ==
  (PageIsServed("health") /\ faults = 0 /\ Overwritten = {}) =>
    /\ HealthIndicator(shown.latest) = "healthy" =>
         shown.lastSuccess # Nothing /\ shown.lastSuccess.id >= shown.latest.id
    /\ shown.metrics.success > 0 => shown.lastSuccess # Nothing

Recording(app) ==
  {a \in Attempts : AppOf[a[1]] = app /\ pc[a] \in {"recordSucceeded", "recordFailed"}}

(* When the observability page is served, the outcomes it lists are in the *)
(* counters it shows beside them, except those whose attempts are about to *)
(* record them, and those lost for good: one per failed statement, and in  *)
(* each crash at most one per slot of the worker.                          *)
ListedOutcomesAreCounted ==
  [][(~PageIsServed("observability") /\ PageIsServed("observability")') =>
       shown'.recent["succeeded"] + shown'.recent["failed"]
         <= shown'.metrics.success + shown'.metrics.failure
            + Cardinality(Recording(page.app)) + faults + Concurrency * crashes]_<<vars, viewVars>>
=============================================================================
