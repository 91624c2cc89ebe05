----------------------------- MODULE Workspaces -----------------------------
(***************************************************************************)
(* services/tenancy: workspaces, memberships, API keys and access tokens   *)
(* (workspaces.go, apikeys.go, tokens.go, the middleware of server.go and  *)
(* the statements of postgres.go they run).                                *)
(*                                                                         *)
(* A handler makes several statements, each of them one step; the          *)
(* memberships are read before they are changed and nothing holds a lock   *)
(* or a transaction across the two.  A request that is refused at its      *)
(* first statement has no effect and is not modelled.  Names, times and    *)
(* the secret of a key are left out; so are the handlers that only read.   *)
(***************************************************************************)
EXTENDS Naturals, FiniteSets

CONSTANTS
    Users,      \* people, by the subject Google knows them by
    Spaces,     \* workspace ids
    Keys,       \* API key ids
    Requests,   \* requests to the handlers of this module in flight
    Home,       \* the workspace of everyone who signed in before
    Grants,     \* the roles that requests ask for
    MaxCalls,   \* bound: requests of this module
    None        \* no row, no value

ASSUME WorkspacesAssumption ==
    /\ IsFiniteSet(Users)
    /\ DOMAIN Home \subseteq Users
    /\ \A u \in DOMAIN Home : Home[u] \in Spaces
    /\ \A u, v \in DOMAIN Home : Home[u] = Home[v] => u = v
    /\ None \notin Users \cup Spaces \cup Keys \cup {"owner", "admin", "member"}
    /\ Users \cap Keys = {}
    /\ Grants \subseteq {"owner", "admin", "member"}
    /\ MaxCalls \in Nat

VARIABLES
    users,      \* rows of tenancy_users
    spaces,     \* rows of tenancy_workspaces
    role,       \* role[w][u]: the row of tenancy_memberships, None if there is none
    active,     \* active[u]: the column active_workspace_id, None for ''
    key,        \* key[k]: the row of tenancy_api_keys
    access,     \* access tokens that have not expired: <<sub, workspaceId>>
    call,       \* call[q]: a request and how far its handler got
    removed,    \* history: <<workspace, user>> of the memberships that were deleted
    calls       \* requests so far

directory     == <<users, spaces, role, active>>
workspaceVars == <<users, spaces, role, active, key, access, call, removed, calls>>

Roles   == {"owner", "admin", "member"}
Ops     == {"add", "update", "remove", "switch", "createKey", "revokeKey", "exchange"}
NoKey   == [state |-> "free", ws |-> None]
Idle    == [op |-> "none", pc |-> "idle", by |-> None, ws |-> None, target |-> None,
            role |-> None, seen |-> None, raced |-> FALSE]
Calls   == [op : Ops \cup {"none"},
            pc : {"idle", "lookup", "current", "authorize", "count", "write"},
            by : Users \cup Keys \cup {None}, ws : Spaces \cup {None},
            target : Users \cup Keys \cup {None}, role : Roles \cup {None},
            seen : Roles \cup {None}, raced : BOOLEAN]

\* Every variable holds values of its kind.
WorkspaceTypeOK ==
    /\ users \subseteq Users /\ spaces \subseteq Spaces
    /\ role \in [Spaces -> [Users -> Roles \cup {None}]]
    /\ active \in [Users -> Spaces \cup {None}]
    /\ key \in [Keys -> [state : {"free", "live", "revoked"}, ws : Spaces \cup {None}]]
    /\ access \subseteq (Users \cup Keys) \X Spaces
    /\ call \in [Requests -> Calls]
    /\ removed \subseteq Spaces \X Users
    /\ calls \in 0..MaxCalls

\* Everyone in Home signed in once: bootstrapWorkspace made them the owner of
\* a workspace, and their access token may still be valid.
WorkspaceInit ==
    /\ users = DOMAIN Home
    /\ spaces = {Home[u] : u \in DOMAIN Home}
    /\ role = [w \in Spaces |-> [u \in Users |->
                  IF u \in DOMAIN Home /\ Home[u] = w THEN "owner" ELSE None]]
    /\ active = [u \in Users |-> IF u \in DOMAIN Home THEN Home[u] ELSE None]
    /\ key = [k \in Keys |-> NoKey]
    /\ access = {<<u, Home[u]>> : u \in DOMAIN Home}
    /\ call = [q \in Requests |-> Idle]
    /\ removed = {}
    /\ calls = 0

-----------------------------------------------------------------------------
(* Statements and checks shared by the handlers.                           *)

roleRank(r) == CASE r = "owner" -> 3 [] r = "admin" -> 2 [] r = "member" -> 1 [] OTHER -> 0

\* requireRole reads the membership of the caller, by the path or the token.
requireRole(w, u, min) == roleRank(role[w][u]) >= roleRank(min)

Owners(w)      == {u \in Users : role[w][u] = "owner"}
CountOwners(w) == Cardinality(Owners(w))

\* Mutant: revoked_at is not looked at.
verifyHashOnly(k) == key[k].state # "free"

\* TouchAPIKey only sets last_used_at, and its failure is only logged.
verifyAPIKeyString(k) == key[k].state = "live"

\* authMiddleware takes the identity from an access token or an API key;
\* requireUser asks that it is a person's.
authMiddleware(sub, w) ==
    \/ <<sub, w>> \in access
    \/ sub \in Keys /\ verifyAPIKeyString(sub) /\ key[sub].ws = w
requireUser(sub) == sub \in Users /\ \E w \in Spaces : authMiddleware(sub, w)

\* CreateWorkspace: workspace and owner membership in one transaction.
CreateWorkspace(w, u) ==
    /\ w \notin spaces
    /\ spaces' = spaces \cup {w}
    /\ role' = [role EXCEPT ![w][u] = "owner"]

\* The primary key refuses a second row; the other two have no condition but
\* the key of the row.
AddMember(w, u, r)        == role[w][u] = None /\ role' = [role EXCEPT ![w][u] = r]
UpdateMemberRole(w, u, r) == role[w][u] # None /\ role' = [role EXCEPT ![w][u] = r]
RemoveMember(w, u)        == role[w][u] # None /\ role' = [role EXCEPT ![w][u] = None]

SetActiveWorkspace(u, w) == active' = [active EXCEPT ![u] = w]

Mint(sub, w) == access' = access \cup {<<sub, w>>}

\* q continues, or is answered; every other request is left alone.
Goto(q, c)  == call' = [call EXCEPT ![q] = c] /\ UNCHANGED calls
Answered(q) == Goto(q, Idle)

\* q changed a membership of w and answers.  What other requests have read
\* of w may be out of date from now on: raced records that.
Changed(q, w) ==
    /\ call' = [p \in Requests |->
                   IF p = q THEN Idle
                   ELSE IF call[p].ws = w THEN [call[p] EXCEPT !.raced = TRUE] ELSE call[p]]
    /\ UNCHANGED calls

\* A request arrives, within the bound, and is handled by q.
Free(q)     == call[q] = Idle /\ calls < MaxCalls
Counted     == calls < MaxCalls /\ calls' = calls + 1
Start(q, c) == call' = [call EXCEPT ![q] = c] /\ Counted

At(q, op, pc) == call[q].op = op /\ call[q].pc = pc

-----------------------------------------------------------------------------
(* handleCreateWorkspace: a single transaction.                            *)

handleCreateWorkspace(u, w) ==
    /\ requireUser(u)
    /\ CreateWorkspace(w, u)
    /\ Counted
    /\ UNCHANGED <<users, active, key, access, call, removed>>

(* handleSwitchWorkspace                                                   *)

\* Mutant: any workspace that exists will do.
SwitchAnywhere(q, u, w) ==
    /\ Free(q)
    /\ requireUser(u) /\ w \in spaces
    /\ Start(q, [Idle EXCEPT !.op = "switch", !.pc = "write", !.by = u, !.ws = w])
    /\ UNCHANGED <<directory, key, access, removed>>

SwitchBegin(q, u, w) ==
    /\ Free(q)
    /\ requireUser(u) /\ w \in spaces
    /\ role[w][u] # None
    /\ Start(q, [Idle EXCEPT !.op = "switch", !.pc = "write", !.by = u, !.ws = w])
    /\ UNCHANGED <<directory, key, access, removed>>

\* The column is written even if the answer, which needs GetWorkspace, fails.
SwitchWrite(q) ==
    /\ At(q, "switch", "write")
    /\ SetActiveWorkspace(call[q].by, call[q].ws)
    /\ Mint(call[q].by, call[q].ws) \/ UNCHANGED access
    /\ Answered(q)
    /\ UNCHANGED <<users, spaces, role, key, removed>>

(* handleAddMember                                                         *)

AddBegin(q, u, w, t, r) ==
    /\ Free(q)
    /\ requireUser(u) /\ w \in spaces
    /\ requireRole(w, u, IF r = "member" THEN "admin" ELSE "owner")
    /\ Start(q, [Idle EXCEPT !.op = "add", !.pc = "lookup", !.by = u, !.ws = w,
                            !.target = t, !.role = r])
    /\ UNCHANGED <<directory, key, access, removed>>

\* GetUserByEmail: the new member must have signed in before.
AddLookup(q) ==
    /\ At(q, "add", "lookup")
    /\ IF call[q].target \in users
       THEN Goto(q, [call[q] EXCEPT !.pc = "write"])
       ELSE Answered(q)
    /\ UNCHANGED <<directory, key, access, removed>>

AddWrite(q) ==
    LET c == call[q] IN
    /\ At(q, "add", "write")
    /\ \/ AddMember(c.ws, c.target, c.role) /\ Changed(q, c.ws)
       \/ role[c.ws][c.target] # None /\ Answered(q) /\ UNCHANGED role
    /\ UNCHANGED <<users, spaces, active, key, access, removed>>

(* handleUpdateMemberRole                                                  *)

UpdateBegin(q, u, w, t, r) ==
    /\ Free(q)
    /\ requireUser(u) /\ w \in spaces
    /\ requireRole(w, u, "owner")
    /\ Start(q, [Idle EXCEPT !.op = "update", !.pc = "current", !.by = u, !.ws = w,
                            !.target = t, !.role = r])
    /\ UNCHANGED <<directory, key, access, removed>>

\* GetMembership of the target; an owner who is to lose the role is counted.
UpdateCurrent(q) ==
    LET c == call[q]
        current == role[c.ws][c.target]
    IN
    /\ At(q, "update", "current")
    /\ IF current = None
       THEN Answered(q)
       ELSE Goto(q, [c EXCEPT !.raced = FALSE,
                              !.pc = IF current = "owner" /\ c.role # "owner"
                                     THEN "count" ELSE "write"])
    /\ UNCHANGED <<directory, key, access, removed>>

\* Mutant: off by one.
CountStepLate(q) ==
    LET c == call[q] IN
    /\ c.op \in {"update", "remove"} /\ c.pc = "count"
    /\ IF CountOwners(c.ws) < 1
       THEN Answered(q)
       ELSE Goto(q, [c EXCEPT !.pc = "write"])
    /\ UNCHANGED <<directory, key, access, removed>>

\* CountOwners, for a demotion and for a removal: 409 for the last owner.
CountStep(q) ==
    LET c == call[q] IN
    /\ c.op \in {"update", "remove"} /\ c.pc = "count"
    /\ IF CountOwners(c.ws) <= 1
       THEN Answered(q)
       ELSE Goto(q, [c EXCEPT !.pc = "write"])
    /\ UNCHANGED <<directory, key, access, removed>>

UpdateWrite(q) ==
    LET c == call[q] IN
    /\ At(q, "update", "write")
    /\ \/ UpdateMemberRole(c.ws, c.target, c.role) /\ Changed(q, c.ws)
       \/ role[c.ws][c.target] = None /\ Answered(q) /\ UNCHANGED role
    /\ UNCHANGED <<users, spaces, active, key, access, removed>>

(* handleRemoveMember, also used to leave                                  *)

RemoveBegin(q, u, w, t) ==
    /\ Free(q)
    /\ requireUser(u) /\ w \in spaces
    /\ role[w][t] # None
    /\ Start(q, [Idle EXCEPT !.op = "remove", !.pc = "authorize", !.by = u, !.ws = w,
                            !.target = t, !.seen = role[w][t]])
    /\ UNCHANGED <<directory, key, access, removed>>

RemoveAuthorize(q) ==
    LET c == call[q]
        minRole == IF c.target = c.by THEN "member"
                   ELSE IF c.seen = "member" THEN "admin" ELSE "owner"
    IN
    /\ At(q, "remove", "authorize")
    /\ IF requireRole(c.ws, c.by, minRole)
       THEN Goto(q, [c EXCEPT !.pc = IF c.seen = "owner" THEN "count" ELSE "write"])
       ELSE Answered(q)
    /\ UNCHANGED <<directory, key, access, removed>>

\* RemoveMember leaves active_workspace_id alone.
RemoveWrite(q) ==
    LET c == call[q] IN
    /\ At(q, "remove", "write")
    /\ \/ /\ RemoveMember(c.ws, c.target)
          /\ removed' = removed \cup {<<c.ws, c.target>>}
          /\ Changed(q, c.ws)
       \/ role[c.ws][c.target] = None /\ Answered(q) /\ UNCHANGED <<role, removed>>
    /\ UNCHANGED <<users, spaces, active, key, access>>

(* handleCreateAPIKey and handleRevokeAPIKey, for the token's workspace    *)

KeyBegin(q, op, u, w, k) ==
    /\ Free(q)
    /\ requireUser(u) /\ authMiddleware(u, w)
    /\ requireRole(w, u, "admin")
    /\ Start(q, [Idle EXCEPT !.op = op, !.pc = "write", !.by = u, !.ws = w, !.target = k])
    /\ UNCHANGED <<directory, key, access, removed>>

\* The id of the new key was drawn before the INSERT.
CreateAPIKey(q) ==
    LET c == call[q] IN
    /\ At(q, "createKey", "write")
    /\ key[c.target].state = "free"
    /\ key' = [key EXCEPT ![c.target] = [state |-> "live", ws |-> c.ws]]
    /\ Answered(q)
    /\ UNCHANGED <<directory, access, removed>>

RevokeAPIKey(q) ==
    LET c == call[q] IN
    /\ At(q, "revokeKey", "write")
    /\ key' = IF key[c.target] = [state |-> "live", ws |-> c.ws]
              THEN [key EXCEPT ![c.target].state = "revoked"] ELSE key
    /\ Answered(q)
    /\ UNCHANGED <<directory, access, removed>>

(* handleAPIKeyToken: verifyAPIKeyString, then Mint for the key.           *)

ExchangeBegin(q, k) ==
    /\ Free(q)
    /\ verifyAPIKeyString(k)
    /\ Start(q, [Idle EXCEPT !.op = "exchange", !.pc = "write", !.by = k, !.ws = key[k].ws,
                            !.target = k])
    /\ UNCHANGED <<directory, key, access, removed>>

ExchangeMint(q) ==
    /\ At(q, "exchange", "write")
    /\ Mint(call[q].by, call[q].ws)
    /\ Answered(q)
    /\ UNCHANGED <<directory, key, removed>>

-----------------------------------------------------------------------------
(* The environment.                                                        *)

\* The TTL of an access token runs out.
Expire(token) ==
    /\ token \in access
    /\ access' = access \ {token}
    /\ UNCHANGED <<directory, key, call, removed, calls>>

\* A statement fails, the client goes away (which cancels the request's
\* context) or the process dies: what was written stays.
Abort(q) ==
    /\ call[q] # Idle
    /\ Answered(q)
    /\ UNCHANGED <<directory, key, access, removed>>

Begin(q) ==
    \/ \E u \in Users, w \in Spaces : SwitchBegin(q, u, w)
    \/ \E u, t \in Users, w \in Spaces, r \in Grants :
          AddBegin(q, u, w, t, r) \/ UpdateBegin(q, u, w, t, r)
    \/ \E u, t \in Users, w \in Spaces : RemoveBegin(q, u, w, t)
    \/ \E u \in Users, w \in Spaces :
          \E k \in Keys, op \in {"createKey", "revokeKey"} : KeyBegin(q, op, u, w, k)
    \/ \E k \in Keys : ExchangeBegin(q, k)

Continue(q) ==
    \/ SwitchWrite(q)
    \/ AddLookup(q) \/ AddWrite(q)
    \/ UpdateCurrent(q) \/ CountStep(q) \/ UpdateWrite(q)
    \/ RemoveAuthorize(q) \/ RemoveWrite(q)
    \/ CreateAPIKey(q) \/ RevokeAPIKey(q)
    \/ ExchangeMint(q)

Handlers ==
    \/ \E q \in Requests : Begin(q) \/ Continue(q) \/ Abort(q)
    \/ \E u \in Users, w \in Spaces : handleCreateWorkspace(u, w)

WorkspaceNext == Handlers \/ \E token \in access : Expire(token)

WorkspaceSpec == WorkspaceInit /\ [][WorkspaceNext]_workspaceVars

-----------------------------------------------------------------------------
(* Properties.                                                             *)

\* The check in handleUpdateMemberRole and handleRemoveMember works as long
\* as the membership table holds still: the step that takes a workspace's
\* last owner belongs to a request whose reads were overtaken by another
\* change of the same workspace.
LastOwnerNeedsRace ==
    [][\A w \in Spaces :
          Owners(w) # {} /\ Owners(w)' = {} =>
             \E q \in Requests : call[q].raced /\ call[q].ws = w /\ call'[q] = Idle]_workspaceVars

\* Whatever is in flight when memberships change, an access token and the
\* stored active workspace only ever name a workspace their user belongs to
\* or was removed from.
ScopeIsMembership ==
    \A u \in Users, w \in Spaces :
        <<u, w>> \in access \/ active[u] = w => role[w][u] # None \/ <<w, u>> \in removed

\* Revocation of an API key: once its tokens have expired and no exchange
\* that began earlier is left, the key never gives access to anything again.
Dead(k) ==
    /\ key[k].state = "revoked"
    /\ \A w \in Spaces : <<k, w>> \notin access
    /\ \A q \in Requests : call[q].op = "exchange" => call[q].by # k

RevokedKeyIsDead == [][\A k \in Keys : Dead(k) => Dead(k)']_workspaceVars
=============================================================================
