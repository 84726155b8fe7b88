--------------------------- MODULE MCConsoleForm ---------------------------
(* Two agents with a runtime each, one application, an active target and a  *)
(* suspended one, one connection; a browser one hour ahead of UTC.          *)
EXTENDS ConsoleForm

MCListed == [e \in {"applications", "agents", "runtimes", "target-resources", "target-connections"} |->
               CASE e = "applications" -> {"app"}
                 [] e = "agents" -> {"agent1", "agent2"}
                 [] e = "runtimes" -> {"run1", "run2"}
                 [] e = "target-resources" -> {"res1", "res2"}
                 [] e = "target-connections" -> {"con"}]
MCOwnerOf == [r \in {"run1", "run2"} |-> IF r = "run1" THEN "agent1" ELSE "agent2"]
MCForms == {<<k, "create">> : k \in {"applications", "agents", "runtimes", "target-resources",
                                    "target-connections", "access-grants", "keys"}}
             \cup {<<k, "edit">> : k \in {"applications", "agents", "runtimes", "target-resources",
                                         "target-connections", "access-grants"}}
\* A create dialog has to be filled in; in an edit dialog two or three names change.
MCChanged == [f \in MCForms |->
  IF f[2] = "create" THEN Names(Fields(f)) \ {"description", "allows_remote_cache_reuse"}
  ELSE IF f[1] = "target-connections" THEN {"expires_at"} ELSE {"status", "expires_at"}]
MCPicked == {"agent", "application", "forbidden", "active", "inactive",
             "stateless", "jwks", "target_access", "allow", "RS256"}
MCMaxSubs == [f \in MCForms |-> IF f \in {<<"agents", "create">>, <<"agents", "edit">>, <<"keys", "create">>} THEN 2 ELSE 1]
============================================================================
