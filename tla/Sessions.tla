------------------------------ MODULE Sessions ------------------------------
(***************************************************************************)
(* services/tenancy: sign-in over OIDC, refresh token rotation and logout  *)
(* (authflow.go with the client of oidc.go), beside the handlers of        *)
(* Workspaces, with which they share the tables.                           *)
(*                                                                         *)
(* A refresh token is used once; its successor continues the family.  The  *)
(* family is named by its first token.  Tokens expire by the clock; a      *)
(* request that is refused for that, or at its first statement for any     *)
(* other reason, has no effect and is not modelled.  A client may present  *)
(* any token it was ever given, twice and concurrently: tabs share the     *)
(* cookie and an answer that is lost leaves the previous one in place.     *)
(***************************************************************************)
EXTENDS Workspaces

CONSTANTS
    Arriving,   \* the people who sign in
    States,     \* OIDC login states
    Tokens,     \* refresh tokens
    Kids,       \* key ids of the identity provider, in the order they are used
    Visits      \* requests to the handlers of this module in flight

ASSUME SessionsAssumption ==
    /\ Arriving \subseteq Users
    /\ Kids \subseteq Nat /\ 1 \in Kids
    /\ None \notin States \cup Tokens \cup Kids

VARIABLES
    login,      \* login[s]: the row of tenancy_login_states
    refresh,    \* refresh[t]: the row of tenancy_refresh_tokens
    kid,        \* the key the provider signs with (external)
    jwks,       \* the key cache of OIDCClient: keys and whether it is still young
    visit       \* visit[v]: a request and how far its handler got

sessionVars == <<login, refresh, kid, jwks, visit>>
vars        == <<workspaceVars, sessionVars>>

NoToken == [user |-> None, family |-> None, state |-> None, used |-> FALSE, revoked |-> FALSE]
Away    == [op |-> "none", pc |-> "idle", state |-> None, user |-> None, token |-> None,
            family |-> None, ws |-> None, kid |-> None, doc |-> {}]
Stages  == {"idle", "exchange", "lookup", "fetch", "store", "relookup", "upsert", "bootstrap",
            "setActive", "mark", "user", "membership", "create", "revoke"}

\* Every variable holds values of its kind.
TypeOK ==
    /\ WorkspaceTypeOK
    /\ login \in [States -> {"free", "saved", "taken"}]
    /\ refresh \in [Tokens -> [user : Users \cup {None}, family : Tokens \cup {None},
                               state : States \cup {None}, used : BOOLEAN, revoked : BOOLEAN]]
    /\ kid \in Kids
    /\ jwks \in [keys : SUBSET Kids, young : BOOLEAN]
    /\ visit \in [Visits -> [op : {"none", "callback", "refresh", "logout"}, pc : Stages,
                             state : States \cup {None}, user : Users \cup {None},
                             token : Tokens \cup {None}, family : Tokens \cup {None},
                             ws : Spaces \cup {None}, kid : Kids \cup {None},
                             doc : SUBSET Kids]]

Init ==
    /\ WorkspaceInit
    /\ login = [s \in States |-> "free"]
    /\ refresh = [t \in Tokens |-> NoToken]
    /\ kid = 1
    /\ jwks = [keys |-> {}, young |-> FALSE]
    /\ visit = [v \in Visits |-> Away]

Step(v, x) == visit' = [visit EXCEPT ![v] = x]
End(v)     == Step(v, Away)
Stage(v, op, pc) == visit[v].op = op /\ visit[v].pc = pc

-----------------------------------------------------------------------------
(* handleLogin and handleCallback up to the verified identity.             *)

handleLogin(s) ==
    /\ login[s] = "free"
    /\ login' = [login EXCEPT ![s] = "saved"]
    /\ UNCHANGED <<workspaceVars, refresh, kid, jwks, visit>>

\* Mutant: the row is read and stays.
GetLoginState(v, s, u) ==
    /\ visit[v] = Away /\ login[s] = "saved"
    /\ \/ Step(v, [Away EXCEPT !.op = "callback", !.pc = "exchange", !.state = s, !.user = u])
       \/ End(v)
    /\ UNCHANGED <<workspaceVars, login, refresh, kid, jwks>>

\* TakeLoginState deletes the row and only then looks at its age.
TakeLoginState(v, s, u) ==
    /\ visit[v] = Away /\ login[s] = "saved"
    /\ login' = [login EXCEPT ![s] = "taken"]
    /\ \/ Step(v, [Away EXCEPT !.op = "callback", !.pc = "exchange", !.state = s, !.user = u])
       \/ End(v)                                    \* expired
    /\ UNCHANGED <<workspaceVars, refresh, kid, jwks>>

\* Exchange redeems the code for an ID token signed with the provider's key.
Exchange(v) ==
    /\ Stage(v, "callback", "exchange")
    /\ Step(v, [visit[v] EXCEPT !.pc = "lookup", !.kid = kid])
    /\ UNCHANGED <<workspaceVars, login, refresh, kid, jwks>>

\* The signature is good: from here on only the claims are used.
Verified(x) == [x EXCEPT !.pc = "upsert", !.kid = None, !.doc = {}]

\* keyForKid: a young cache that has the key is trusted; otherwise the JWKS is
\* fetched without the mutex, replaces the whole cache, and is looked up again.
keyForKid(v) ==
    /\ Stage(v, "callback", "lookup")
    /\ Step(v, IF visit[v].kid \in jwks.keys /\ jwks.young
               THEN Verified(visit[v]) ELSE [visit[v] EXCEPT !.pc = "fetch"])
    /\ UNCHANGED <<workspaceVars, login, refresh, kid, jwks>>

\* The provider publishes the key it signs with and the one before it.
Published == {kid, kid - 1} \cap Kids

\* Mutant: the loop over the document stops after its first key.
fetchOneKey(v) ==
    /\ Stage(v, "callback", "fetch")
    /\ \E k \in Published : Step(v, [visit[v] EXCEPT !.pc = "store", !.doc = {k}])
    /\ UNCHANGED <<workspaceVars, login, refresh, kid, jwks>>

fetchJWKS(v) ==
    /\ Stage(v, "callback", "fetch")
    /\ Step(v, [visit[v] EXCEPT !.pc = "store", !.doc = Published])
    /\ UNCHANGED <<workspaceVars, login, refresh, kid, jwks>>

StoreJWKS(v) ==
    /\ Stage(v, "callback", "store")
    /\ jwks' = [keys |-> visit[v].doc, young |-> TRUE]
    /\ Step(v, [visit[v] EXCEPT !.pc = "relookup"])
    /\ UNCHANGED <<workspaceVars, login, refresh, kid>>

RelookupKey(v) ==
    /\ Stage(v, "callback", "relookup")
    /\ IF visit[v].kid \in jwks.keys
       THEN Step(v, Verified(visit[v]))
       ELSE End(v)
    /\ UNCHANGED <<workspaceVars, login, refresh, kid, jwks>>

(* handleCallback: the user row and, at the first login, its workspace.    *)

\* UpsertUserByGoogleSub keeps active_workspace_id and returns it.
UpsertUser(v) ==
    LET u == visit[v].user IN
    /\ Stage(v, "callback", "upsert")
    /\ users' = users \cup {u}
    /\ Step(v, [visit[v] EXCEPT !.ws = active[u],
                                !.pc = IF active[u] = None THEN "bootstrap" ELSE "membership"])
    /\ UNCHANGED <<spaces, role, active, key, access, call, removed, calls, login, refresh, kid, jwks>>

\* bootstrapWorkspace: a transaction, then a second statement.
BootstrapCreate(v, w) ==
    /\ Stage(v, "callback", "bootstrap")
    /\ CreateWorkspace(w, visit[v].user)
    /\ Step(v, [visit[v] EXCEPT !.pc = "setActive", !.ws = w])
    /\ UNCHANGED <<users, active, key, access, call, removed, calls, login, refresh, kid, jwks>>

BootstrapActive(v) ==
    /\ Stage(v, "callback", "setActive")
    /\ SetActiveWorkspace(visit[v].user, visit[v].ws)
    /\ Step(v, [visit[v] EXCEPT !.pc = "membership"])
    /\ UNCHANGED <<users, spaces, role, key, access, call, removed, calls, login, refresh, kid, jwks>>

-----------------------------------------------------------------------------
(* issueSession, the end of handleCallback and of handleRefresh.           *)

\* Without a membership in the active workspace there is no session.
IssueMembership(v) ==
    LET x == visit[v] IN
    /\ x.pc = "membership"
    /\ IF x.ws # None /\ role[x.ws][x.user] # None
       THEN Step(v, [x EXCEPT !.pc = "create"])
       ELSE End(v)
    /\ UNCHANGED <<workspaceVars, login, refresh, kid, jwks>>

\* CreateRefreshToken, and the answer with both tokens.
IssueCreate(v, t) ==
    LET x == visit[v] IN
    /\ x.pc = "create"
    /\ refresh[t] = NoToken
    /\ refresh' = [refresh EXCEPT ![t] =
                      [user |-> x.user, family |-> IF x.family = None THEN t ELSE x.family,
                       state |-> x.state, used |-> FALSE, revoked |-> FALSE]]
    /\ Mint(x.user, x.ws)
    /\ End(v)
    /\ UNCHANGED <<directory, key, call, removed, calls, login, kid, jwks>>

-----------------------------------------------------------------------------
(* handleRefresh and handleLogout.                                         *)

\* Mutant: revoked_at is not looked at.
RefreshGetAny(v, t) ==
    LET row == refresh[t] IN
    /\ visit[v] = Away /\ row # NoToken
    /\ Step(v, [Away EXCEPT !.op = "refresh", !.pc = IF row.used THEN "revoke" ELSE "mark",
                            !.user = row.user, !.token = t, !.family = row.family])
    /\ UNCHANGED <<workspaceVars, login, refresh, kid, jwks>>

\* GetRefreshTokenByHash: a revoked token is refused, a used one costs the
\* family, and only a token that is neither may be rotated.
RefreshGet(v, t) ==
    LET row == refresh[t] IN
    /\ visit[v] = Away /\ row # NoToken
    /\ ~row.revoked
    /\ Step(v, [Away EXCEPT !.op = "refresh", !.pc = IF row.used THEN "revoke" ELSE "mark",
                            !.user = row.user, !.token = t, !.family = row.family])
    /\ UNCHANGED <<workspaceVars, login, refresh, kid, jwks>>

\* Mutant: the UPDATE does not ask for used_at IS NULL.
MarkUsedAnyway(v) ==
    /\ Stage(v, "refresh", "mark")
    /\ refresh' = [refresh EXCEPT ![visit[v].token].used = TRUE]
    /\ Step(v, [visit[v] EXCEPT !.pc = "user"])
    /\ UNCHANGED <<workspaceVars, login, kid, jwks>>

\* MarkRefreshTokenUsed: WHERE used_at IS NULL, whoever was first wins.
MarkRefreshTokenUsed(v) ==
    LET t == visit[v].token IN
    /\ Stage(v, "refresh", "mark")
    /\ \/ /\ refresh[t].used
          /\ End(v)
          /\ UNCHANGED refresh
       \/ /\ ~refresh[t].used
          /\ refresh' = [refresh EXCEPT ![t].used = TRUE]
          /\ Step(v, [visit[v] EXCEPT !.pc = "user", !.token = None])
    /\ UNCHANGED <<workspaceVars, login, kid, jwks>>

RefreshUser(v) ==
    /\ Stage(v, "refresh", "user")
    /\ Step(v, [visit[v] EXCEPT !.pc = "membership", !.ws = active[visit[v].user]])
    /\ UNCHANGED <<workspaceVars, login, refresh, kid, jwks>>

LogoutGet(v, t) ==
    /\ visit[v] = Away /\ refresh[t] # NoToken
    /\ Step(v, [Away EXCEPT !.op = "logout", !.pc = "revoke", !.family = refresh[t].family])
    /\ UNCHANGED <<workspaceVars, login, refresh, kid, jwks>>

\* RevokeRefreshFamily: every row of the family that exists now.
RevokeRefreshFamily(v) ==
    /\ visit[v].pc = "revoke"
    /\ refresh' = [t \in Tokens |->
                      IF refresh[t].family = visit[v].family
                      THEN [refresh[t] EXCEPT !.revoked = TRUE] ELSE refresh[t]]
    /\ End(v)
    /\ UNCHANGED <<workspaceVars, login, kid, jwks>>

-----------------------------------------------------------------------------
(* The environment.                                                        *)

\* A statement or a call of the provider fails, the ID token is not accepted,
\* the client goes away or the process dies: what was written stays.
Disconnect(v) ==
    /\ visit[v] # Away
    /\ End(v)
    /\ UNCHANGED <<workspaceVars, login, refresh, kid, jwks>>

RotateKey ==
    /\ kid + 1 \in Kids
    /\ kid' = kid + 1
    /\ UNCHANGED <<workspaceVars, login, refresh, jwks, visit>>

\* jwksMaxAge runs out.
AgeKeys ==
    /\ jwks.young
    /\ jwks' = [jwks EXCEPT !.young = FALSE]
    /\ UNCHANGED <<workspaceVars, login, refresh, kid, visit>>

Callback(v) ==
    \/ \E s \in States, u \in Arriving : TakeLoginState(v, s, u)
    \/ Exchange(v) \/ keyForKid(v) \/ fetchJWKS(v) \/ StoreJWKS(v) \/ RelookupKey(v)
    \/ UpsertUser(v)
    \/ \E w \in Spaces : BootstrapCreate(v, w)
    \/ BootstrapActive(v)

Issue(v) == IssueMembership(v) \/ \E t \in Tokens : IssueCreate(v, t)

Rotate(v) ==
    \/ \E t \in Tokens : RefreshGet(v, t) \/ LogoutGet(v, t)
    \/ MarkRefreshTokenUsed(v) \/ RefreshUser(v) \/ RevokeRefreshFamily(v)

\* Access tokens do not expire here: expiry only takes requests away.
Next ==
    \/ Handlers /\ UNCHANGED sessionVars
    \/ \E s \in States : handleLogin(s)
    \/ \E v \in Visits : Callback(v) \/ Issue(v) \/ Rotate(v) \/ Disconnect(v)
    \/ RotateKey \/ AgeKeys

Spec == Init /\ [][Next]_vars

-----------------------------------------------------------------------------
(* Properties.                                                             *)

Family(f)   == {t \in Tokens : refresh[t].family = f}
Unused(f)   == {t \in Family(f) : ~refresh[t].used}
Live(f)     == {t \in Unused(f) : ~refresh[t].revoked}

\* Refreshes of the family that have consumed a token and owe a successor.
Rotating(f) == {v \in Visits : /\ visit[v].op = "refresh" /\ visit[v].family = f
                               /\ visit[v].pc \in {"user", "membership", "create"}}

\* Rotation is exclusive: however many requests present tokens of a family at
\* once, it never has two tokens that could still be rotated, counting the
\* successor a refresh is about to create.
OneTokenPerFamily ==
    \A f \in Tokens : Cardinality(Unused(f)) + Cardinality(Rotating(f)) <= 1

\* A family without a live token, and without a refresh that was let in
\* while it had one, never comes back: a logout, a detected reuse or a
\* rotation that failed half-way ends the session for good.
Over(f) ==
    /\ Family(f) # {} /\ Live(f) = {}
    /\ \A v \in Visits : visit[v].op = "refresh" /\ visit[v].pc # "revoke" => visit[v].family # f

FamilyStaysDead == [][\A f \in Tokens : Over(f) => Over(f)']_vars

\* A login state opens at most one session, also when the callback is
\* delivered twice at the same time.
LoginStateIsSingleUse ==
    LET First == {t \in Tokens : refresh[t].family = t}
        Users_(s) == {t \in First : refresh[t].state = s} \cup {v \in Visits : visit[v].state = s}
    IN  \A s \in States : Cardinality(Users_(s)) <= 1

\* The JWKS cache refuses a key the provider publishes only if an older
\* document, fetched by another login, replaced the one this login fetched.
KeyIsFound ==
    [][\A v \in Visits :
          RelookupKey(v) /\ visit[v].kid \in Published /\ visit'[v] = Away =>
              jwks.keys # visit[v].doc]_vars
=============================================================================
