-------------------------- MODULE MCMigrationPreflight --------------------------
(* An instance of MigrationPreflight for TLC: one hosted project with the  *)
(* combined profile, or the graph profile alone, the markers of both, one  *)
(* login per component or one for graph and coordination.                  *)
EXTENDS MigrationPreflight

A == [component |-> "auth", time |-> 10]
G == [component |-> "graph", time |-> 11]
C == [component |-> "coordination", time |-> 12]
MCFiles == {A, G, C}
MCSqlTokens == [reviewed |-> <<"BEGIN", ";", "COMMIT", ";">>]
MCReceipts == {1, 2}
MCManifest == [ratified |-> TRUE, files |-> [f \in MCFiles |-> "reviewed"]]

Id == <<"project", 1>>
Bound(p) == [profile |-> p, lineage |-> "hosted-legacy-v1", class |-> "hosted", id |-> Id]
Combined == [protected |-> TRUE, manifest |-> MCManifest, targets |-> [c \in Components |-> Bound("combined")]]
GraphOnly == [protected |-> TRUE, manifest |-> MCManifest, targets |-> [c \in {"graph"} |-> Bound("graph")]]

Permit(h, p, m) == [protected |-> TRUE, approved |-> TRUE, head |-> h,
                    manifest |-> MCManifest, profile |-> p, lineage |-> "hosted-legacy-v1", id |-> Id, marker |-> m, digest |-> p]
MCPermits == {Permit("h1", "combined", 12), Permit("h1", "graph", 11),
              [Permit("h1", "combined", 12) EXCEPT !.digest = "graph"],
              [Permit("h1", "graph", 11) EXCEPT !.protected = FALSE]}

MCHosted == {"inspect", "stray", "ua", "ug", "ug2", "uc"}
MCProjectOf == [u \in MCHosted |-> IF u = "stray" THEN "other" ELSE "project"]
MCLoginOf == [inspect |-> "inspector", stray |-> "inspector", ua |-> "auth_login", ug |-> "graph_login", uc |-> "lock_login", ug2 |-> "graph_login", bad |-> "graph_login"]
Runtime(d, g, c) == [document |-> d, inspection |-> "inspect", runtime |-> [auth |-> "ua", graph |-> g, coordination |-> c]]
MCConfigs == {Runtime(Combined, "ug", "uc"), Runtime(Combined, "ug", "ug"), Runtime(Combined, "ug", "ug2"),
              Runtime(GraphOnly, "ug", "bad"),
              [Runtime(GraphOnly, "ug", "bad") EXCEPT !.inspection = "stray"]}
MCLogins == {"auth_login", "graph_login", "lock_login"}

Graph == CapabilityRole["graph"]
MCDeviations ==
  {<<"grant", Graph, "rebuild_jobs", "DELETE">>,
   <<"grant", "extra", "user_credentials", "SELECT">>,
   <<"member", "graph_login", "extra", "set">>,
   <<"member", "graph_login", Graph, "inherit">>,
   <<"member", "lock_login", Graph, "set">>,
   <<"member", Graph, "extra", "inherit">>,
   <<"member", "extra", Graph, "admin">>,
   <<"attribute", "graph_login", "super", "-">>,
   <<"owner", "graph_login", "assets_id_seq", "-">>,
   <<"policy", Graph, "assets", "SELECT">>,
   <<"object", "-", "analytics", "-">>}
=============================================================================
