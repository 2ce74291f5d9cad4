----------------------------- MODULE ToolRegistry -----------------------------
(***************************************************************************)
(* The tool catalogue of one worker (mcp/tool_registry.py, mcp/tool_index.py,*)
(* mcp/client.py): the listing of the MCP server, cached for a time and kept*)
(* in the shared store for a worker that starts while the server rejects   *)
(* it, and what of it is offered to the model for a question.              *)
(*                                                                         *)
(* A tool belongs to one module of the platform.  The maps the scoping asks*)
(* for are cached, empty when they could not be loaded: here they are what *)
(* a question happens to find.                                             *)
(***************************************************************************)
EXTENDS Naturals, FiniteSets

CONSTANTS
  Tools,
  Mutations,     \* is_mutation: the tools whose name does not read
  Risky,         \* those the server lists as requiring confirmation
  ModuleOf,      \* the module of each tool
  Own,           \* the module of the application the user has selected
  Platform,      \* the administration and reporting modules
  Pinned,        \* TOOL_RAG_PINNED
  Listings,      \* what the server may list
  ReadOnly,      \* CHATBOT_READ_ONLY
  Failed

Modules == {ModuleOf[t] : t \in Tools}

ASSUME RegistryAssumption ==
  /\ Mutations \subseteq Tools /\ Risky \subseteq Tools /\ Pinned \subseteq Tools
  /\ Own \in Modules /\ Platform \subseteq Modules
  /\ Listings \subseteq SUBSET Tools /\ Failed \notin Listings
  /\ ReadOnly \in BOOLEAN

VARIABLES
  served,   \* what the server lists
  stored,   \* the listing in the store
  cache,    \* _cache
  fresh,    \* the listing was loaded within MCP_TOOLS_CACHE_TTL
  heard     \* the last listing the server gave the worker; Failed: none since it started

registry == <<served, stored, cache, fresh, heard>>

InitRegistry ==
  /\ served \in Listings
  /\ stored = {} /\ cache = {} /\ fresh = FALSE /\ heard = Failed

-----------------------------------------------------------------------------
(* The listing.                                                            *)

\* list_tools: an answer without a list is an empty one.
Answers == {served, {}, Failed}

\* Mutant of Refresh: what the store gave counts as loaded.
RefreshTrusts(answer) ==
  /\ IF answer = Failed
     THEN /\ cache' = IF cache = {} THEN stored ELSE cache
          /\ fresh' = TRUE
          /\ UNCHANGED <<stored, heard>>
     ELSE /\ cache' = answer
          /\ fresh' = TRUE
          /\ heard' = answer
          /\ stored' \in {stored, answer}
  /\ UNCHANGED served

\* _refresh: a listing replaces the one in the cache and, unless that write
\* fails, the one in the store; a failure leaves the cache as it is and, when it
\* is empty, takes what is in the store, which stays stale.
Refresh(answer) ==
  /\ IF answer = Failed
     THEN /\ cache' = IF cache = {} THEN stored ELSE cache
          /\ UNCHANGED <<stored, fresh, heard>>
     ELSE /\ cache' = answer
          /\ fresh' = TRUE
          /\ heard' = answer
          /\ stored' \in {stored, answer}
  /\ UNCHANGED served

\* get_tools, when it does not have to wait for the server or does so unseen.
GetTools(answer) == IF fresh THEN UNCHANGED registry ELSE Refresh(answer)

-----------------------------------------------------------------------------
(* The other users of the registry and of the store.                       *)

ServerChanges ==
  /\ served' \in Listings
  /\ UNCHANGED <<stored, cache, fresh, heard>>

Expire ==
  /\ fresh
  /\ fresh' = FALSE
  /\ UNCHANGED <<served, stored, cache, heard>>

\* Another request of the worker asks for the tools, or the console for a refresh.
OtherRequest == \E a \in Answers : Refresh(a)

\* The other worker keeps its listing.
OtherWorker ==
  /\ stored' = served
  /\ UNCHANGED <<served, cache, fresh, heard>>

\* The worker starts: its first listing is asked for without a user's token.
Restarted ==
  \E a \in Answers :
     /\ cache' = IF a = Failed THEN stored ELSE a
     /\ fresh' = (a # Failed)
     /\ heard' = a
     /\ stored' \in (IF a = Failed THEN {stored} ELSE {stored, a})
     /\ UNCHANGED served

-----------------------------------------------------------------------------
(* select_tools.                                                           *)

Visible(listed) == IF ReadOnly THEN listed \ Mutations ELSE listed

\* The hits of the index with the pinned tools and the skill's; all when there is
\* no index, no hit, or nothing of them is listed.  The index keeps the tools that
\* are no longer listed.
Retrieved(listed, hits, extra) ==
  LET picked == Visible(listed) \cap (hits \cup Pinned \cup extra)
  IN IF hits = {} \/ picked = {} THEN Visible(listed) ELSE picked

\* _allowed_services: none when the module of the application is not known.
Allowed(apps, configured) ==
  IF apps /\ Own \in configured THEN {Own} \cup (Platform \cap configured) ELSE {}

\* _scope_schemas: the tools known to be another module's are withheld, but not
\* when nothing would be left.
Scope(picked, allowed, mapped) ==
  LET kept == {t \in picked : ModuleOf[t] \in allowed \/ ModuleOf[t] \notin mapped}
  IN IF allowed = {} \/ kept = {} THEN picked ELSE kept
=============================================================================
