----------------------------- MODULE MCWorkflow -----------------------------
(* Instances of Workflow for TLC: the workflow the repository ships           *)
(* (services/workflows/grant_access.json), an edited version of it and one    *)
(* authored on the console.                                                   *)
EXTENDS Workflow, TLC

Ask(next, field, from, optional, multi) ==
  [type |-> "ask", next |-> next, field |-> field, options_from |-> from,
   value_key |-> field, optional |-> optional, multi |-> multi]
Text(next, field)        == Ask(next, field, "", FALSE, FALSE)
Choice(next, field, from) == Ask(next, field, from, FALSE, FALSE)
Fetch(next, tool, args, as) ==
  [type |-> "fetch", next |-> next, tool |-> tool, args |-> args, as_key |-> as]
Say == [type |-> "say"]

\* grant_access.json: every node, edge and reference of the file.  A role stands
\* for its name and its id.
GrantNodes ==
  ("ask_user"         :> Text("fetch_apps", "userName")) @@
  ("fetch_apps"       :> Fetch("ask_app", "getAllApplications_get", <<>>, "apps")) @@
  ("ask_app"          :> Choice("fetch_all_roles", "applicationId", "apps")) @@
  ("fetch_all_roles"  :> Fetch("fetch_user_roles", "getApplicationRolesByAppId_get",
                               [applicationId |-> "applicationId"], "all_roles")) @@
  ("fetch_user_roles" :> Fetch("filter_has", "getAllUserApplicationRoles_post",
                               [userName |-> "userName"], "user_roles")) @@
  ("filter_has" :> [type |-> "filter", next |-> "filter_grantable", source |-> "user_roles",
       as_key |-> "has_roles", empty_key |-> "has_roles_empty",
       keep |-> [userName |-> "userName", applicationId |-> "applicationId"],
       exclude_source |-> "", on |-> ""]) @@
  ("filter_grantable" :> [type |-> "filter", next |-> "check_grantable", source |-> "all_roles",
       as_key |-> "grantable", empty_key |-> "grantable_empty", keep |-> <<>>,
       exclude_source |-> "has_roles", on |-> "roleName"]) @@
  ("check_grantable" :> [type |-> "branch", field |-> "grantable_empty", default |-> "",
       cases |-> ("Y" :> "say_all" @@ "N" :> "ask_role")]) @@
  ("say_all"  :> Say) @@
  ("ask_role" :> Choice("confirm", "roleName", "grantable")) @@
  ("confirm"  :> [type |-> "confirm", next |-> "do_grant",
                  summary |-> {"userName", "applicationId", "roleName"}]) @@
  ("do_grant" :> [type |-> "mutate", next |-> "done", tool |-> "addUserApplicationAndRole_post",
       arg_map |-> [userId |-> "userName", applicationId |-> "applicationId",
                    applicationRoleId |-> "roleName"],
       verify |-> [tool |-> "getActiveUserAppRolesByAppIdAndUserName_post",
                   args |-> [userName |-> "userName", applicationId |-> "applicationId"],
                   match |-> [userName |-> "userName", roleName |-> "roleName"]]]) @@
  ("done" :> Say)

\* The same workflow after an operator put a list of his own before the choice
\* of the role: "ask_role" now names a filter.
EditedNodes ==
  ("ask_role"  :> [type |-> "filter", next |-> "pick_role", source |-> "grantable",
       as_key |-> "choice", empty_key |-> "choice_empty", keep |-> <<>>,
       exclude_source |-> "has_roles", on |-> "roleName"]) @@
  ("pick_role" :> Choice("confirm", "roleName", "choice")) @@ GrantNodes

\* An authored workflow that collects several applications.
PinNodes ==
  ("apps" :> Fetch("ask_apps", "getAllApplications_get", <<>>, "apps")) @@
  ("ask_name" :> Text("apps", "title")) @@
  ("ask_apps" :> Ask("sure", "applicationId", "apps", TRUE, TRUE)) @@
  ("sure" :> [type |-> "confirm", next |-> "pin", summary |-> {"title", "applicationId"}]) @@
  ("pin"  :> [type |-> "mutate", next |-> "", tool |-> "pin_post", verify |-> None,
              arg_map |-> [name |-> "title", apps |-> "applicationId"]])

MCGraph == ("grant"  :> [start |-> "ask_user", nodes |-> GrantNodes]) @@
           ("edited" :> [start |-> "ask_user", nodes |-> EditedNodes]) @@
           ("pin"    :> [start |-> "ask_name", nodes |-> PinNodes])
MCIdOf == ("grant" :> "grant_access") @@ ("edited" :> "grant_access") @@ ("pin" :> "pin_apps")
MCShipped == ("grant_access" :> "grant") @@ ("pin_apps" :> None)
MCStored  == ("grant_access" :> None) @@ ("pin_apps" :> "pin")

\* The platform: two applications with a role each.
RolesOf == ("a1" :> {"r1"}) @@ ("a2" :> {"r2"})
Held(u, a, r) == [userName |-> u, applicationId |-> a, roleName |-> r]
MCInitialFacts == {{Held("u1", "a1", "r1")}}

Only(s) == IF s = <<>> THEN "" ELSE s[1]
MCReply(tool, args, held) ==
  CASE tool = "getAllApplications_get" -> {[applicationId |-> a] : a \in DOMAIN RolesOf}
    [] tool = "getApplicationRolesByAppId_get" ->
         LET a == Only(args.applicationId)
         IN IF a \in DOMAIN RolesOf THEN {[roleName |-> r] : r \in RolesOf[a]} ELSE {}
    [] tool = "getAllUserApplicationRoles_post" -> {f \in held : "userName" \in DOMAIN f}
    [] OTHER -> {f \in held : /\ "userName" \in DOMAIN f
                              /\ f.userName = Only(args.userName)
                              /\ f.applicationId = Only(args.applicationId)}
MCWritten(tool, args) ==
  IF tool = "pin_post" THEN [pinned |-> args.apps]
  ELSE Held(Only(args.userId), Only(args.applicationId), Only(args.applicationRoleId))

Says(texts) == {<<"say", x>> : x \in texts}
MCMessages ==
  Says({"a1", "a2", "r1", "r2"})
  \cup {<<"word", x>> : x \in {"confirm", "yes", "done", "switch", "stay", "cancel"}}
  \cup {<<"change", n>> : n \in {"ask_user", "ask_app", "ask_role", "pick_role", "ask_apps"}}
  \cup {<<"intent", "pin_apps">>}

-----------------------------------------------------------------------------
(* What the theorems about Workflow ask of the definitions, these ones have.*)

ASSUME MCGuarded == Guarded

\* Bags with at most one value in each field of the grant, and any one record beside that
\* of the start.
MCBags == UNION {[S -> UNION {[1 .. n -> {"u1", "a1", "a2", "r1", "r2", "N"}] : n \in 0 .. 1}]
                 : S \in SUBSET {"userName", "applicationId", "roleName"}}
MCHoldings == {{Held("u1", "a1", "r1"), Held(u, a, r)} :
                 u \in {"", "u1", "N"}, a \in {"", "a1", "a2"}, r \in {"", "r1", "r2"}}
ASSUME MCIdentifies == Identifies(MCBags, MCHoldings)

\* The lists of the grant depend on who and what they were fetched and kept for, and so does the
\* choice of the role.  All are current where the walk has made them and no answer changed since.
AppLists   == {"all_roles", "has_roles", "grantable", "choice"}
MCGrounds  == [k \in {"", "apps", "user_roles"} \cup AppLists |->
                 CASE k \in {"", "apps"} -> {} [] k = "user_roles" -> {"userName"}
                   [] k = "all_roles" -> {"applicationId"} [] OTHER -> {"userName", "applicationId"}]
MCBasis    == [g \in Fields |-> IF g = "roleName" THEN {"userName", "applicationId"} ELSE {}]
MCCurrent(n) == {"", "apps"} \cup
  CASE n \in {"ask_user", "fetch_apps", "ask_app", "fetch_all_roles"} -> {}
    [] n = "fetch_user_roles" -> {"all_roles"}
    [] n = "filter_has"       -> {"all_roles", "user_roles"}
    [] n = "filter_grantable" -> {"all_roles", "user_roles", "has_roles"}
    [] OTHER -> {"all_roles", "user_roles", "has_roles", "grantable"}
MCCertificate(v) ==
  [grounds |-> MCGrounds, basis |-> MCBasis,
   current |-> [n \in NodeIds(v) \cup {""} |->
                  IF v = "pin" THEN {"", "apps"}
                  ELSE MCCurrent(n) \cup (IF v = "edited" /\ n \in {"pick_role", "confirm", "do_grant"}
                                            THEN {"choice"} ELSE {})],
   safe    |-> [n \in NodeIds(v) \cup {""} |->
                  (Fields \ {"roleName"}) \cup (IF n \in {"confirm", "do_grant", "done"}
                                                  THEN {"roleName"} ELSE {})]]
ASSUME MCCertifies == ~EditAnywhere => \A v \in Versions : Certifies(v, MCCertificate(v))
====
