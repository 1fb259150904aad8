---------------------------- MODULE RoutePlanner ----------------------------
(***************************************************************************)
(* plan_route (src/app/routing/ors_service.py): one request per profile,   *)
(* the fastest of the routes found.  Distances are in kilometres,          *)
(* durations in minutes; a provider may also answer with negative ones.    *)
(***************************************************************************)
EXTENDS Integers, Sequences, SequencesExt

CONSTANTS
    DefaultProfiles,  \* DEFAULT_PROFILES, in their order
    RouteReply        \* what the provider may answer for one profile

RouteFailure == [error: {"timeout", "status", "request_failed", "invalid_json", "no_route"}]
Measured == [distance: Int, duration: Int]

ASSUME RouteAssumption ==
    /\ DefaultProfiles \in Seq(STRING) /\ DefaultProfiles # <<>>
    /\ RouteReply \subseteq RouteFailure \cup Measured

NoPlan == [profile |-> "none"]

(* _parse_route_payload: a route, or why there is none.                     *)
IsRoute(reply) == reply \notin RouteFailure /\ reply.distance >= 0 /\ reply.duration >= 0

(* _collect_routes, for a reply to each profile: the places in the list of  *)
(* the profiles that have a route; the others have an error.                *)
Routes(profiles, replies) == {i \in DOMAIN profiles : IsRoute(replies[profiles[i]])}

(* min(routes, key=duration or inf): the first of the fastest, where a      *)
(* duration of 0 counts as infinite.                                        *)
Slower(a, b) == a = 0 \/ (b # 0 /\ b <= a)        \* mutant: max for min
FastestOrFirst(a, b) == b = 0 \/ (a # 0 /\ a <= b)
BestRoute(profiles, replies) ==
    LET found == Routes(profiles, replies)
        duration(i) == replies[profiles[i]].duration
    IN  profiles[Min({i \in found : \A j \in found : FastestOrFirst(duration(i), duration(j))})]

(* plan_route(origin, destination, profiles): an error, or "none" and a     *)
(* plan.  No profiles are the default ones; all failures read "no_routes".  *)
Chosen(profiles) == IF profiles = <<>> THEN DefaultProfiles ELSE profiles
ValidProfiles(profiles) ==
    Len(profiles) <= Len(DefaultProfiles) /\ Range(profiles) \subseteq Range(DefaultProfiles)
PlanError == {"missing_ors_api", "geocode_failed", "invalid_route_profiles", "no_routes"}
RouteError(configured, located, profiles, replies) ==
    CASE ~configured -> "missing_ors_api"
      [] configured /\ ~located -> "geocode_failed"
      [] configured /\ located /\ ~ValidProfiles(Chosen(profiles)) -> "invalid_route_profiles"
      [] OTHER -> IF Routes(Chosen(profiles), replies) = {} THEN "no_routes" ELSE "none"
PlanRoute(profiles, replies) ==
    LET best == BestRoute(Chosen(profiles), replies)
    IN  [profile |-> best, distance |-> replies[best].distance,
         duration |-> replies[best].duration]
=============================================================================
