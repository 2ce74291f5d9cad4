---------------------------- MODULE MCUserAccess ----------------------------
(***************************************************************************)
(* An instance of AccessAndSkills for TLC.                                 *)
(***************************************************************************)
EXTENDS AccessAndSkills, TLC

CONSTANTS u1, u2, p1, p2, Admin, SuperAdmin, Viewer, admin, viewer

MCRoleNamed == (admin :> Admin) @@ (viewer :> Viewer)

\* "Admin" is contained in "Super Admin".
MCCovers == {<<admin, Admin>>, <<admin, SuperAdmin>>, <<viewer, Viewer>>}

\* One user with two roles that one word covers, one with one role; of two rows a flag is not set.
MCGranted ==
  <<NewRow(u1, p1, SuperAdmin), NewRow(u1, p1, Admin),
    [NewRow(u1, p2, Viewer) EXCEPT !.default = None], [NewRow(u2, p1, Viewer) EXCEPT !.enabled = None]>>

\* "Local" is an alias and a part of another; "account" is a part of two.  In the second list
\* "Local" has another code, and nothing has "account" in it.
MCLists ==
  {("Local" :> "L") @@ ("Local service account" :> "S") @@ ("External account" :> "E"),
   ("Local" :> "C") @@ ("External" :> "E")}
MCWithin ==
  {<<"Local", "Local">>, <<"Local", "Local service account">>,
   <<"account", "Local service account">>, <<"account", "External account">>}

RequestsAreAlike == Permutations(Requests)
====
