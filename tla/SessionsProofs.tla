--------------------------- MODULE SessionsProofs ---------------------------
(***************************************************************************)
(* Sign-in, rotation and logout, for any people, states, tokens, requests  *)
(* and signing keys, beside the handlers of Workspaces.                    *)
(*                                                                         *)
(* What a request holds when it reaches a statement (VisitShape) carries   *)
(* the proofs: the family it rotates is that of the token it presents and  *)
(* exists, the workspace it is about to sign for is one its user belongs   *)
(* to or was removed from, and the document it fetched is not older than   *)
(* the key it looks for.  Single use is stated by elements, not by         *)
(* cardinalities (Rotation, Claimed): of all that could use a family or a  *)
(* login state there are never two.                                        *)
(***************************************************************************)
EXTENDS Sessions, WorkspacesProofs

Records ==
    [op : {"none", "callback", "refresh", "logout"}, pc : Stages,
     state : States \cup {None}, user : Users \cup {None},
     token : Tokens \cup {None}, family : Tokens \cup {None},
     ws : Spaces \cup {None}, kid : Kids \cup {None}, doc : SUBSET Kids]

Issued(t) == refresh[t].family # None

\* A request of these handlers, by its operation and by its place.
VisitShape(x) ==
    /\ x.op = "none" => x.state = None /\ x.family = None /\ x.pc = "idle"
    /\ x.op = "callback" => /\ x.user \in Users /\ x.family = None
                            /\ x.pc \notin {"mark", "user", "revoke"}
    /\ x.op = "refresh" => /\ x.user \in Users /\ x.state = None
                           /\ x.pc \in {"mark", "user", "membership", "create", "revoke"}
    /\ x.op = "logout" => x.state = None /\ x.pc = "revoke"
    /\ x.op \in {"refresh", "logout"} => x.family \in Tokens /\ Issued(x.family)
    /\ x.pc = "mark" => x.token \in Tokens /\ refresh[x.token].family = x.family

\* What a request is about to sign for.
VisitScope(x) == x.pc \in {"setActive", "create"} => x.ws \in Spaces /\ Entitled(x.user, x.ws)

\* The key an ID token was signed with, and the document fetched to find it.
VisitKey(x) ==
    /\ x.pc \in {"lookup", "fetch", "store", "relookup"} => x.kid \in Kids /\ x.kid <= kid
    /\ x.pc \in {"store", "relookup"} =>
          \E n \in Kids : x.kid <= n /\ n <= kid /\ x.doc = {n, n - 1} \cap Kids

Visited == \A v \in Visits : VisitShape(visit[v]) /\ VisitScope(visit[v]) /\ VisitKey(visit[v])

\* A row names its user, and a family that exists.
Rows ==
    \A t \in Tokens :
        \/ refresh[t] = NoToken
        \/ refresh[t].user \in Users /\ refresh[t].family \in Tokens /\ Issued(refresh[t].family)

\* Of all tokens of a family that are not used and all refreshes that owe its
\* next token there is at most one.
Rotation ==
    \A f \in Tokens :
        /\ \A a, b \in Unused(f) : a = b
        /\ \A v, w \in Rotating(f) : v = w
        /\ Unused(f) = {} \/ Rotating(f) = {}

Opened(s)  == {t \in Tokens : refresh[t].family = t /\ refresh[t].state = s}
Opening(s) == {v \in Visits : visit[v].state = s}

\* A login state is used by taking its row, and then by one callback or one
\* session.
Claimed ==
    \A s \in States :
        /\ login[s] # "taken" => Opened(s) = {} /\ Opening(s) = {}
        /\ \A a, b \in Opened(s) : a = b
        /\ \A v, w \in Opening(s) : v = w
        /\ Opened(s) = {} \/ Opening(s) = {}

Inv == TypeOK /\ WorkspaceInv /\ Visited /\ Rows /\ Rotation /\ Claimed

-----------------------------------------------------------------------------
(* Rows and records.                                                       *)

LEMMA NoTokenShape ==
    ASSUME SessionsAssumption, NEW t \in Tokens
    PROVE  /\ refresh[t] = NoToken => refresh[t].family = None /\ refresh[t].family \notin Tokens
           /\ NoToken.family = None /\ NoToken.state = None /\ ~NoToken.used /\ ~NoToken.revoked
           /\ None \notin Tokens /\ None \notin States
BY DEF SessionsAssumption, NoToken

LEMMA AwayShape ==
    /\ Away \in Records /\ Away.op = "none" /\ Away.pc = "idle" /\ Away.state = None
    /\ Away.family = None
BY DEF Away, Records, Stages

LEMMA AwayVisited == VisitShape(Away) /\ VisitScope(Away) /\ VisitKey(Away)
BY AwayShape DEF VisitShape, VisitScope, VisitKey

\* A step of one request that leaves the tokens and the login states alone:
\* it is left at x, of which the invariant must hold.
LEMMA VisitMoves ==
    ASSUME SessionsAssumption, Inv, UNCHANGED <<login, refresh, kid>>, WorkspaceInv',
           jwks' \in [keys : SUBSET Kids, young : BOOLEAN],
           NEW v \in Visits, NEW x \in Records, Step(v, x),
           VisitShape(x), VisitKey(x),
           x.pc \in {"setActive", "create"} =>
               x.ws \in Spaces /\ (role'[x.ws][x.user] # None \/ <<x.ws, x.user>> \in removed'),
           x.state \in {None, visit[v].state},
           x.op = "refresh" /\ x.pc \in {"user", "membership", "create"} =>
               /\ visit[v].op = "refresh" /\ visit[v].pc \in {"user", "membership", "create"}
               /\ visit[v].family = x.family,
           \A u \in Users, w \in Spaces : Entitled(u, w) => Entitled(u, w)'
    PROVE  Inv'
<1>1. /\ visit' \in [Visits -> Records] /\ visit'[v] = x
      /\ \A w \in Visits \ {v} : visit'[w] = visit[w]
  BY DEF Inv, TypeOK, Step, Records
<1>2. TypeOK'
  BY <1>1 DEF Inv, TypeOK, WorkspaceInv, Records
<1>3. Visited'
  <2> SUFFICES ASSUME NEW w \in Visits
               PROVE  VisitShape(visit[w])' /\ VisitScope(visit[w])' /\ VisitKey(visit[w])'
    BY DEF Visited
  <2>1. CASE w = v
    BY <1>1, <2>1 DEF VisitShape, VisitScope, VisitKey, Issued, Entitled
  <2>2. CASE w # v
    <3>1. VisitShape(visit[w])' /\ VisitKey(visit[w])'
      <4>1. visit'[w] = visit[w] /\ VisitShape(visit[w]) /\ VisitKey(visit[w])
        BY <1>1, <2>2 DEF Inv, Visited
      <4>2. VisitShape(visit[w])'
        BY <4>1 DEF VisitShape, Issued
      <4>3. VisitKey(visit[w])'
        BY <4>1 DEF VisitKey
      <4> QED BY <4>2, <4>3
    <3>2. visit[w].pc \in {"setActive", "create"} =>
              visit[w].user \in Users /\ visit[w].ws \in Spaces /\ Entitled(visit[w].user, visit[w].ws)
      BY DEF Inv, TypeOK, Visited, VisitShape, VisitScope
    <3> QED BY <1>1, <2>2, <3>1, <3>2 DEF VisitScope, Entitled
  <2> QED BY <2>1, <2>2
<1>4. Rows'
  BY DEF Inv, Rows, Issued
<1>5. Rotation'
  <2> SUFFICES ASSUME NEW f \in Tokens
               PROVE  Unused(f)' = Unused(f) /\ Rotating(f)' \subseteq Rotating(f)
    BY DEF Inv, Rotation
  <2>1. Unused(f)' = Unused(f)
    BY DEF Unused, Family
  <2> QED BY <1>1, <2>1 DEF Rotating
<1>6. Claimed'
  <2> SUFFICES ASSUME NEW s \in States
               PROVE  Opened(s)' = Opened(s) /\ Opening(s)' \subseteq Opening(s)
    BY DEF Inv, Claimed
  <2>1. s # None
    BY DEF SessionsAssumption
  <2>2. Opened(s)' = Opened(s)
    BY DEF Opened
  <2> QED BY <1>1, <2>1, <2>2 DEF Opening
<1> QED BY <1>2, <1>3, <1>4, <1>5, <1>6 DEF Inv

\* The same, when the tables of Workspaces stay as they are too.
LEMMA OnlyVisit ==
    ASSUME SessionsAssumption, Inv, UNCHANGED <<workspaceVars, login, refresh, kid>>,
           jwks' \in [keys : SUBSET Kids, young : BOOLEAN],
           NEW v \in Visits, NEW x \in Records, Step(v, x),
           VisitShape(x), VisitScope(x), VisitKey(x),
           x.state \in {None, visit[v].state},
           x.op = "refresh" /\ x.pc \in {"user", "membership", "create"} =>
               /\ visit[v].op = "refresh" /\ visit[v].pc \in {"user", "membership", "create"}
               /\ visit[v].family = x.family
    PROVE  Inv'
<1>1. WorkspaceInv'
  BY WorkspaceStutter DEF Inv
<1>2. role' = role /\ removed' = removed
  BY DEF workspaceVars
<1>3. /\ x.pc \in {"setActive", "create"} =>
             x.ws \in Spaces /\ (role'[x.ws][x.user] # None \/ <<x.ws, x.user>> \in removed')
      /\ \A u \in Users, w \in Spaces : Entitled(u, w) => Entitled(u, w)'
  BY <1>2 DEF VisitScope, Entitled
<1> QED BY <1>1, <1>3, VisitMoves

\* A request ends without touching a table.
LEMMA VisitEnds ==
    ASSUME SessionsAssumption, Inv, NEW v \in Visits, End(v), UNCHANGED <<workspaceVars, login, refresh, kid, jwks>>
    PROVE  Inv'
<1>1. jwks' \in [keys : SUBSET Kids, young : BOOLEAN] /\ Step(v, Away)
  BY DEF Inv, TypeOK, End
<1> QED BY <1>1, AwayShape, AwayVisited, OnlyVisit

\* Moving on within a handler.
LEMMA VisitAt ==
    ASSUME Inv, NEW v \in Visits
    PROVE  visit[v] \in Records /\ VisitShape(visit[v]) /\ VisitScope(visit[v]) /\ VisitKey(visit[v])
BY DEF Inv, TypeOK, Records, Visited

LEMMA NextPlace ==
    ASSUME NEW x \in Records, NEW pc \in Stages, NEW y, y = [x EXCEPT !.pc = pc]
    PROVE  /\ y \in Records /\ y.pc = pc /\ y.op = x.op /\ y.state = x.state /\ y.user = x.user
           /\ y.token = x.token /\ y.family = x.family /\ y.ws = x.ws /\ y.kid = x.kid /\ y.doc = x.doc
BY DEF Records

-----------------------------------------------------------------------------
(* handleCallback up to the verified identity.                             *)

LEMMA ExchangeIDToken ==
    ASSUME SessionsAssumption, Inv, NEW v \in Visits, Exchange(v)
    PROVE  Inv'
<1> DEFINE y == [visit[v] EXCEPT !.pc = "lookup", !.kid = kid]
<1>1. /\ visit[v].op = "callback" /\ Step(v, y) /\ UNCHANGED <<workspaceVars, login, refresh, kid, jwks>>
      /\ jwks' \in [keys : SUBSET Kids, young : BOOLEAN] /\ kid \in Kids /\ kid <= kid
  BY DEF Exchange, Stage, Inv, TypeOK, SessionsAssumption
<1>2. /\ y \in Records /\ y.op = "callback" /\ y.pc = "lookup" /\ y.kid = kid /\ y.state = visit[v].state
      /\ y.user = visit[v].user /\ y.family = visit[v].family
  <2>1. visit[v] \in Records
    BY VisitAt
  <2> QED BY <1>1, <2>1 DEF Records, Stages
<1>3. VisitShape(y) /\ VisitScope(y) /\ VisitKey(y)
  BY <1>1, <1>2, VisitAt DEF VisitShape, VisitScope, VisitKey
<1> QED BY <1>1, <1>2, <1>3, OnlyVisit

LEMMA VerifiedShape ==
    ASSUME NEW x \in Records
    PROVE  /\ Verified(x) \in Records /\ Verified(x).op = x.op /\ Verified(x).pc = "upsert"
           /\ Verified(x).state = x.state /\ Verified(x).user = x.user /\ Verified(x).family = x.family
BY DEF Records, Stages, Verified

\* Both ways to a verified identity.
LEMMA VerifiedStep ==
    ASSUME SessionsAssumption, Inv, NEW v \in Visits, visit[v].op = "callback", Step(v, Verified(visit[v])),
           UNCHANGED <<workspaceVars, login, refresh, kid, jwks>>
    PROVE  Inv'
<1> DEFINE y == Verified(visit[v])
<1>1. jwks' \in [keys : SUBSET Kids, young : BOOLEAN]
  BY DEF Inv, TypeOK
<1>2. /\ y \in Records /\ y.op = "callback" /\ y.pc = "upsert" /\ y.state = visit[v].state
      /\ y.user = visit[v].user /\ y.family = visit[v].family
  BY VisitAt, VerifiedShape
<1>3. VisitShape(y) /\ VisitScope(y) /\ VisitKey(y)
  <2> HIDE DEF y
  <2> QED BY <1>2, VisitAt DEF VisitShape, VisitScope, VisitKey
<1> QED BY <1>1, <1>2, <1>3, OnlyVisit

LEMMA KeySearch ==
    ASSUME SessionsAssumption, Inv, NEW v \in Visits, keyForKid(v) \/ RelookupKey(v)
    PROVE  Inv'
<1>0. /\ visit[v].op = "callback" /\ UNCHANGED <<workspaceVars, login, refresh, kid, jwks>>
      /\ jwks' \in [keys : SUBSET Kids, young : BOOLEAN]
  BY DEF keyForKid, RelookupKey, Stage, Inv, TypeOK
<1>1. CASE Step(v, Verified(visit[v]))
  BY <1>0, <1>1, VerifiedStep
<1>2. CASE End(v)
  BY <1>0, <1>2, VisitEnds
<1>3. CASE visit[v].pc = "lookup" /\ Step(v, [visit[v] EXCEPT !.pc = "fetch"])
  <2> DEFINE y == [visit[v] EXCEPT !.pc = "fetch"]
  <2>1. /\ y \in Records /\ y.op = "callback" /\ y.pc = "fetch" /\ y.state = visit[v].state
        /\ y.user = visit[v].user /\ y.family = visit[v].family /\ y.kid = visit[v].kid
    BY <1>0, VisitAt, NextPlace DEF Stages
  <2>2. VisitShape(y) /\ VisitScope(y) /\ VisitKey(y)
    BY <1>0, <1>3, <2>1, VisitAt DEF VisitShape, VisitScope, VisitKey
  <2> QED BY <1>0, <1>3, <2>1, <2>2, OnlyVisit
<1> QED BY <1>1, <1>2, <1>3 DEF keyForKid, RelookupKey, Stage

\* The document is at least as new as the key: the provider signed before.
LEMMA FetchDocument ==
    ASSUME SessionsAssumption, Inv, NEW v \in Visits, fetchJWKS(v)
    PROVE  Inv'
<1> DEFINE y == [visit[v] EXCEPT !.pc = "store", !.doc = Published]
<1>1. /\ visit[v].op = "callback" /\ visit[v].pc = "fetch" /\ Step(v, y)
      /\ UNCHANGED <<workspaceVars, login, refresh, kid, jwks>>
      /\ jwks' \in [keys : SUBSET Kids, young : BOOLEAN] /\ kid \in Kids /\ kid <= kid
  BY DEF fetchJWKS, Stage, Inv, TypeOK, SessionsAssumption
<1>2. /\ y \in Records /\ y.op = "callback" /\ y.pc = "store" /\ y.state = visit[v].state
      /\ y.user = visit[v].user /\ y.family = visit[v].family /\ y.kid = visit[v].kid
      /\ y.doc = {kid, kid - 1} \cap Kids
  <2>1. visit[v] \in Records
    BY VisitAt
  <2> QED BY <1>1, <2>1 DEF Records, Stages, Published
<1>3. VisitShape(y) /\ VisitScope(y) /\ VisitKey(y)
  <2>1. y.kid \in Kids /\ y.kid <= kid
    BY <1>1, <1>2, VisitAt DEF VisitKey
  <2> HIDE DEF y
  <2> QED BY <1>1, <1>2, <2>1, VisitAt DEF VisitShape, VisitScope, VisitKey
<1> QED BY <1>1, <1>2, <1>3, OnlyVisit

LEMMA StoreDocument ==
    ASSUME SessionsAssumption, Inv, NEW v \in Visits, StoreJWKS(v)
    PROVE  Inv'
<1> DEFINE y == [visit[v] EXCEPT !.pc = "relookup"]
<1>1. /\ visit[v].op = "callback" /\ visit[v].pc = "store" /\ Step(v, y)
      /\ UNCHANGED <<workspaceVars, login, refresh, kid>>
      /\ jwks' = [keys |-> visit[v].doc, young |-> TRUE]
  BY DEF StoreJWKS, Stage
<1>2. jwks' \in [keys : SUBSET Kids, young : BOOLEAN]
  BY <1>1, VisitAt DEF Records
<1>3. /\ y \in Records /\ y.op = "callback" /\ y.pc = "relookup" /\ y.state = visit[v].state
      /\ y.user = visit[v].user /\ y.family = visit[v].family /\ y.kid = visit[v].kid /\ y.doc = visit[v].doc
  BY <1>1, VisitAt, NextPlace DEF Stages
<1>4. VisitShape(y) /\ VisitScope(y) /\ VisitKey(y)
  <2> HIDE DEF y
  <2> QED BY <1>1, <1>3, VisitAt DEF VisitShape, VisitScope, VisitKey
<1> QED BY <1>1, <1>2, <1>3, <1>4, OnlyVisit

-----------------------------------------------------------------------------
(* The user row, the first workspace and the membership.                   *)

LEMMA UpsertStep ==
    ASSUME SessionsAssumption, Inv, NEW v \in Visits, UpsertUser(v)
    PROVE  Inv'
<1> DEFINE u == visit[v].user
           pc == IF active[u] = None THEN "bootstrap" ELSE "membership"
           y == [visit[v] EXCEPT !.ws = active[u], !.pc = pc]
<1>1. /\ visit[v].op = "callback" /\ visit[v].pc = "upsert" /\ Step(v, y) /\ users' = users \cup {u}
      /\ UNCHANGED <<spaces, role, active, key, access, call, removed, calls, login, refresh, kid, jwks>>
  BY DEF UpsertUser, Stage
<1>2. /\ u \in Users /\ active[u] \in Spaces \cup {None} /\ visit[v] \in Records
      /\ jwks' \in [keys : SUBSET Kids, young : BOOLEAN]
  BY <1>1, VisitAt DEF VisitShape, Inv, TypeOK, WorkspaceTypeOK
<1>3. WorkspaceInv'
  BY <1>1, <1>2, DirectoryGrows DEF Inv, WorkspaceInv, WorkspaceTypeOK
<1>4. /\ y \in Records /\ y.op = "callback" /\ y.pc \in {"bootstrap", "membership"} /\ y.state = visit[v].state
      /\ y.user = visit[v].user /\ y.family = visit[v].family
  <2>1. pc \in {"bootstrap", "membership"} /\ pc \in Stages
    BY DEF Stages
  <2> HIDE DEF pc
  <2> QED BY <1>1, <1>2, <2>1 DEF Records
<1>5. VisitShape(y) /\ VisitKey(y)
  <2> HIDE DEF y
  <2> QED BY <1>1, <1>4, VisitAt DEF VisitShape, VisitKey
<1>6. \A w \in Spaces, t \in Users : Entitled(t, w) => Entitled(t, w)'
  BY <1>1 DEF Entitled
<1> HIDE DEF y
<1> QED BY <1>1, <1>2, <1>3, <1>4, <1>5, <1>6, VisitMoves

LEMMA BootstrapSteps ==
    ASSUME WorkspacesAssumption, SessionsAssumption, Inv, NEW v \in Visits, NEW w \in Spaces, BootstrapCreate(v, w)
    PROVE  Inv'
<1> DEFINE u == visit[v].user
           y == [visit[v] EXCEPT !.pc = "setActive", !.ws = w]
<1>1. /\ visit[v].op = "callback" /\ visit[v].pc = "bootstrap" /\ Step(v, y) /\ CreateWorkspace(w, u)
      /\ UNCHANGED <<users, active, key, access, call, removed, calls, login, refresh, kid, jwks>>
  BY DEF BootstrapCreate, Stage
<1>2. /\ u \in Users /\ visit[v] \in Records /\ jwks' \in [keys : SUBSET Kids, young : BOOLEAN]
      /\ users' \subseteq Users /\ calls' \in 0..MaxCalls /\ WorkspaceInv /\ WorkspaceTypeOK
  BY <1>1, VisitAt DEF VisitShape, Inv, TypeOK, WorkspaceTypeOK
<1>3. WorkspaceInv' /\ role'[w][u] # None
  BY <1>1, <1>2, WorkspaceAdded
<1>4. /\ y \in Records /\ y.op = "callback" /\ y.pc = "setActive" /\ y.state = visit[v].state
      /\ y.user = u /\ y.family = visit[v].family /\ y.ws = w
  BY <1>1, <1>2 DEF Records, Stages
<1>5. VisitShape(y) /\ VisitKey(y) /\ role'[y.ws][y.user] # None
  <2> HIDE DEF y
  <2> QED BY <1>1, <1>3, <1>4, VisitAt DEF VisitShape, VisitKey
<1>6. \A x \in Spaces, t \in Users : Entitled(t, x) => Entitled(t, x)'
  <2>1. role' = [role EXCEPT ![w][u] = "owner"] /\ "owner" \in Roles /\ "owner" # None
    BY <1>1 DEF CreateWorkspace, Roles, WorkspacesAssumption
  <2>2. /\ \A t \in Users \ {u} : role'[w][t] = role[w][t]
        /\ \A x \in Spaces \ {w} : role'[x] = role[x]
    BY <1>2, <2>1 DEF WorkspaceTypeOK
  <2> QED BY <1>1, <1>3, <2>2 DEF Entitled
<1> HIDE DEF y
<1> QED BY <1>1, <1>2, <1>3, <1>4, <1>5, <1>6, VisitMoves

LEMMA BootstrapActiveStep ==
    ASSUME SessionsAssumption, Inv, NEW v \in Visits, BootstrapActive(v)
    PROVE  Inv'
<1> DEFINE u == visit[v].user
           y == [visit[v] EXCEPT !.pc = "membership"]
<1>1. /\ visit[v].op = "callback" /\ visit[v].pc = "setActive" /\ Step(v, y)
      /\ active' = [active EXCEPT ![u] = visit[v].ws]
      /\ UNCHANGED <<users, spaces, role, key, access, call, removed, calls, login, refresh, kid, jwks>>
  BY DEF BootstrapActive, SetActiveWorkspace, Stage
<1>2. /\ u \in Users /\ visit[v].ws \in Spaces /\ Entitled(u, visit[v].ws) /\ visit[v] \in Records
      /\ jwks' \in [keys : SUBSET Kids, young : BOOLEAN]
      /\ active \in [Users -> Spaces \cup {None}] /\ access' \subseteq (Users \cup Keys) \X Spaces
      /\ users' \subseteq Users
  BY <1>1, VisitAt DEF VisitShape, VisitScope, Inv, TypeOK, WorkspaceTypeOK
<1>3. WorkspaceInv'
  <2>1. /\ active' \in [Users -> Spaces \cup {None}]
        /\ \A t \in Users, w \in Spaces : active'[t] = w => active[t] = w \/ Entitled(t, w)
    BY <1>1, <1>2
  <2> QED BY <1>1, <1>2, <2>1, DirectoryGrows DEF Inv
<1>4. /\ y \in Records /\ y.op = "callback" /\ y.pc = "membership" /\ y.state = visit[v].state
      /\ y.user = u /\ y.family = visit[v].family
  BY <1>1, <1>2, NextPlace DEF Stages
<1>5. VisitShape(y) /\ VisitKey(y)
  <2> HIDE DEF y
  <2> QED BY <1>1, <1>4, VisitAt DEF VisitShape, VisitKey
<1>6. \A w \in Spaces, t \in Users : Entitled(t, w) => Entitled(t, w)'
  BY <1>1 DEF Entitled
<1> HIDE DEF y
<1> QED BY <1>1, <1>2, <1>3, <1>4, <1>5, <1>6, VisitMoves

LEMMA MembershipStep ==
    ASSUME SessionsAssumption, Inv, NEW v \in Visits, IssueMembership(v)
    PROVE  Inv'
<1> DEFINE y == [visit[v] EXCEPT !.pc = "create"]
<1>1. /\ visit[v].pc = "membership" /\ UNCHANGED <<workspaceVars, login, refresh, kid, jwks>>
      /\ visit[v] \in Records /\ jwks' \in [keys : SUBSET Kids, young : BOOLEAN]
  BY VisitAt DEF IssueMembership, Inv, TypeOK
<1>2. CASE End(v)
  BY <1>1, <1>2, VisitEnds
<1>3. CASE visit[v].ws # None /\ role[visit[v].ws][visit[v].user] # None /\ Step(v, y)
  <2>1. /\ y \in Records /\ y.op = visit[v].op /\ y.pc = "create" /\ y.state = visit[v].state
        /\ y.user = visit[v].user /\ y.family = visit[v].family /\ y.ws = visit[v].ws
    BY <1>1, NextPlace DEF Stages
  <2>2. visit[v].ws \in Spaces
    BY <1>1, <1>3 DEF Records
  <2>3. VisitShape(y) /\ VisitScope(y) /\ VisitKey(y)
    <3> HIDE DEF y
    <3> QED BY <1>1, <1>3, <2>1, <2>2, VisitAt DEF VisitShape, VisitScope, VisitKey, Entitled
  <2> HIDE DEF y
  <2> QED BY <1>1, <1>3, <2>1, <2>3, OnlyVisit
<1> QED BY <1>2, <1>3 DEF IssueMembership

-----------------------------------------------------------------------------
(* handleRefresh and handleLogout up to their writes.                      *)

LEMMA PresentToken ==
    ASSUME SessionsAssumption, Inv, NEW v \in Visits, NEW t \in Tokens, RefreshGet(v, t) \/ LogoutGet(v, t)
    PROVE  Inv'
<1> DEFINE row == refresh[t]
<1>1. /\ Issued(t) /\ row.family \in Tokens /\ Issued(row.family) /\ row.user \in Users
      /\ UNCHANGED <<workspaceVars, login, refresh, kid, jwks>>
      /\ jwks' \in [keys : SUBSET Kids, young : BOOLEAN]
  BY DEF RefreshGet, LogoutGet, Issued, Inv, TypeOK, Rows
<1>2. CASE RefreshGet(v, t)
  <2> DEFINE pc == IF row.used THEN "revoke" ELSE "mark"
             y == [Away EXCEPT !.op = "refresh", !.pc = pc, !.user = row.user, !.token = t, !.family = row.family]
  <2>1. Step(v, y)
    BY <1>2 DEF RefreshGet
  <2>2. /\ y \in Records /\ y.op = "refresh" /\ y.pc \in {"revoke", "mark"} /\ y.state = None
        /\ y.user = row.user /\ y.token = t /\ y.family = row.family
    <3>1. pc \in {"revoke", "mark"} /\ pc \in Stages
      BY DEF Stages
    <3> HIDE DEF pc
    <3> QED BY <1>1, <3>1 DEF Away, Records
  <2>3. VisitShape(y) /\ VisitScope(y) /\ VisitKey(y)
    <3> HIDE DEF y
    <3> QED BY <1>1, <2>2 DEF VisitShape, VisitScope, VisitKey
  <2> HIDE DEF y
  <2> QED BY <1>1, <2>1, <2>2, <2>3, OnlyVisit
<1>3. CASE LogoutGet(v, t)
  <2> DEFINE y == [Away EXCEPT !.op = "logout", !.pc = "revoke", !.family = row.family]
  <2>1. Step(v, y)
    BY <1>3 DEF LogoutGet
  <2>2. y \in Records /\ y.op = "logout" /\ y.pc = "revoke" /\ y.state = None /\ y.family = row.family
    BY <1>1 DEF Away, Records, Stages
  <2>3. VisitShape(y) /\ VisitScope(y) /\ VisitKey(y)
    <3> HIDE DEF y
    <3> QED BY <1>1, <2>2 DEF VisitShape, VisitScope, VisitKey
  <2> HIDE DEF y
  <2> QED BY <1>1, <2>1, <2>2, <2>3, OnlyVisit
<1> QED BY <1>2, <1>3

LEMMA RefreshUserStep ==
    ASSUME SessionsAssumption, Inv, NEW v \in Visits, RefreshUser(v)
    PROVE  Inv'
<1> DEFINE y == [visit[v] EXCEPT !.pc = "membership", !.ws = active[visit[v].user]]
<1>1. /\ visit[v].op = "refresh" /\ visit[v].pc = "user" /\ Step(v, y)
      /\ UNCHANGED <<workspaceVars, login, refresh, kid, jwks>>
      /\ visit[v] \in Records /\ jwks' \in [keys : SUBSET Kids, young : BOOLEAN]
  BY VisitAt DEF RefreshUser, Stage, Inv, TypeOK
<1>2. active[visit[v].user] \in Spaces \cup {None}
  BY <1>1, VisitAt DEF VisitShape, Inv, TypeOK, WorkspaceTypeOK
<1>3. /\ y \in Records /\ y.op = "refresh" /\ y.pc = "membership" /\ y.state = visit[v].state
      /\ y.user = visit[v].user /\ y.family = visit[v].family
  BY <1>1, <1>2 DEF Records, Stages
<1>4. VisitShape(y) /\ VisitScope(y) /\ VisitKey(y)
  <2> HIDE DEF y
  <2> QED BY <1>1, <1>3, VisitAt DEF VisitShape, VisitScope, VisitKey
<1> HIDE DEF y
<1> QED BY <1>1, <1>3, <1>4, OnlyVisit

-----------------------------------------------------------------------------
(* The writes of tokens and login states.                                  *)

TokenRows ==
    [user : Users \cup {None}, family : Tokens \cup {None}, state : States \cup {None},
     used : BOOLEAN, revoked : BOOLEAN]

\* A request marks rows as used or revoked and is left at x.
LEMMA TokensMarked ==
    ASSUME SessionsAssumption, Inv, UNCHANGED <<workspaceVars, login, kid, jwks>>,
           NEW v \in Visits, NEW x \in Records, Step(v, x), VisitShape(x), VisitScope(x), VisitKey(x),
           x.state \in {None, visit[v].state},
           refresh' \in [Tokens -> TokenRows],
           \A t \in Tokens : /\ refresh'[t].user = refresh[t].user /\ refresh'[t].family = refresh[t].family
                             /\ refresh'[t].state = refresh[t].state,
           \A t \in Tokens : refresh[t] = NoToken => refresh'[t] = NoToken,
           Rotation'
    PROVE  Inv'
<1>1. /\ visit' \in [Visits -> Records] /\ visit'[v] = x
      /\ \A w \in Visits \ {v} : visit'[w] = visit[w]
  BY DEF Inv, TypeOK, Step, Records
<1>2. WorkspaceInv' /\ role' = role /\ removed' = removed
  BY WorkspaceStutter DEF Inv, workspaceVars
<1>3. TypeOK'
  BY <1>1, <1>2 DEF Inv, TypeOK, WorkspaceInv, Records, TokenRows
<1>4. Visited'
  <2> SUFFICES ASSUME NEW w \in Visits
               PROVE  VisitShape(visit[w])' /\ VisitScope(visit[w])' /\ VisitKey(visit[w])'
    BY DEF Visited
  <2>1. PICK y \in Records : y = visit'[w] /\ VisitShape(y) /\ VisitScope(y) /\ VisitKey(y)
    BY <1>1, VisitAt
  <2>2. VisitScope(visit[w])' /\ VisitKey(visit[w])'
    BY <1>2, <2>1 DEF VisitScope, Entitled, VisitKey
  <2>3. VisitShape(visit[w])'
    BY <2>1 DEF VisitShape, Issued
  <2> QED BY <2>2, <2>3
<1>5. Rows'
  BY DEF Inv, Rows, Issued
<1>6. Claimed'
  <2> SUFFICES ASSUME NEW s \in States
               PROVE  Opened(s)' = Opened(s) /\ Opening(s)' \subseteq Opening(s)
    BY DEF Inv, Claimed
  <2>1. s # None
    BY DEF SessionsAssumption
  <2>2. Opened(s)' = Opened(s)
    BY DEF Opened
  <2> QED BY <1>1, <2>1, <2>2 DEF Opening
<1> QED BY <1>2, <1>3, <1>4, <1>5, <1>6 DEF Inv

\* MarkRefreshTokenUsed: the token leaves Unused as its refresh enters
\* Rotating; whoever comes second finds it used.
LEMMA MarkStep ==
    ASSUME SessionsAssumption, Inv, NEW v \in Visits, MarkRefreshTokenUsed(v)
    PROVE  Inv'
<1> DEFINE t == visit[v].token
           y == [visit[v] EXCEPT !.pc = "user", !.token = None]
<1>1. /\ visit[v].op = "refresh" /\ visit[v].pc = "mark" /\ visit[v] \in Records
      /\ UNCHANGED <<workspaceVars, login, kid, jwks>>
  BY VisitAt DEF MarkRefreshTokenUsed, Stage
<1>2. CASE End(v) /\ UNCHANGED refresh
  BY <1>1, <1>2, VisitEnds
<1>3. CASE ~refresh[t].used /\ refresh' = [refresh EXCEPT ![t].used = TRUE] /\ Step(v, y)
  <2>0. PICK f \in Tokens : f = visit[v].family
    BY <1>1, VisitAt DEF VisitShape
  <2>1. t \in Tokens /\ refresh[t].family = f /\ refresh \in [Tokens -> TokenRows]
    BY <1>1, <2>0, VisitAt DEF VisitShape, Inv, TypeOK, TokenRows
  <2>2. /\ refresh' \in [Tokens -> TokenRows] /\ refresh'[t].used
        /\ \A u \in Tokens \ {t} : refresh'[u] = refresh[u]
        /\ \A u \in Tokens : /\ refresh'[u].user = refresh[u].user /\ refresh'[u].family = refresh[u].family
                             /\ refresh'[u].state = refresh[u].state
    BY <1>3, <2>1 DEF TokenRows
  <2>3. refresh[t] # NoToken
    BY <2>1, NoTokenShape
  <2>4. /\ y \in Records /\ y.op = "refresh" /\ y.pc = "user" /\ y.state = visit[v].state
        /\ y.user = visit[v].user /\ y.family = f
    BY <1>1, <2>0 DEF Records, Stages
  <2>5. VisitShape(y) /\ VisitScope(y) /\ VisitKey(y)
    <3> HIDE DEF y
    <3> QED BY <1>1, <2>0, <2>4, VisitAt DEF VisitShape, VisitScope, VisitKey
  <2>6. Rotation'
    <3>1. visit'[v] = y /\ \A w \in Visits \ {v} : visit'[w] = visit[w]
      BY <1>3 DEF Step, Inv, TypeOK
    <3>2. \A g \in Tokens : /\ Unused(g)' = Unused(g) \ {t}
                            /\ Rotating(g)' = IF g = f THEN Rotating(g) \cup {v} ELSE Rotating(g)
      <4> HIDE DEF y
      <4> QED BY <1>1, <2>1, <2>2, <2>4, <3>1 DEF Unused, Family, Rotating
    <3>3. t \in Unused(f)
      BY <1>3, <2>1 DEF Unused, Family
    <3>4. Unused(f)' = {} /\ Rotating(f)' = {v}
      <4>1. /\ \A a, b \in Unused(f) : a = b
            /\ Unused(f) = {} \/ Rotating(f) = {}
        BY DEF Inv, Rotation
      <4>2. Unused(f) = {t} /\ Rotating(f) = {}
        BY <3>3, <4>1
      <4>3. Unused(f)' = Unused(f) \ {t} /\ Rotating(f)' = Rotating(f) \cup {v}
        BY <3>2
      <4> QED BY <4>2, <4>3
    <3> SUFFICES ASSUME NEW g \in Tokens
                 PROVE  /\ \A a, b \in Unused(g)' : a = b
                        /\ \A w, z \in Rotating(g)' : w = z
                        /\ Unused(g)' = {} \/ Rotating(g)' = {}
      BY DEF Rotation
    <3>5. CASE g = f
      BY <3>4, <3>5
    <3>6. CASE g # f
      <4>1. Unused(g)' \subseteq Unused(g) /\ Rotating(g)' = Rotating(g)
        BY <3>2, <3>6
      <4>2. /\ \A a, b \in Unused(g) : a = b
            /\ \A w, z \in Rotating(g) : w = z
            /\ Unused(g) = {} \/ Rotating(g) = {}
        BY DEF Inv, Rotation
      <4> QED BY <4>1, <4>2
    <3> QED BY <3>5, <3>6
  <2> HIDE DEF y
  <2> QED BY <1>1, <1>3, <2>2, <2>3, <2>4, <2>5, <2>6, TokensMarked
<1> QED BY <1>1, <1>2, <1>3 DEF MarkRefreshTokenUsed

LEMMA RevokeStep ==
    ASSUME SessionsAssumption, Inv, NEW v \in Visits, RevokeRefreshFamily(v)
    PROVE  Inv'
<1>1. /\ visit[v].pc = "revoke" /\ Step(v, Away) /\ visit[v].family \in Tokens
      /\ UNCHANGED <<workspaceVars, login, kid, jwks>>
      /\ refresh' = [t \in Tokens |-> IF refresh[t].family = visit[v].family
                                      THEN [refresh[t] EXCEPT !.revoked = TRUE] ELSE refresh[t]]
  BY VisitAt DEF RevokeRefreshFamily, End, VisitShape, Records
<1>2. ASSUME NEW t \in Tokens
      PROVE  /\ refresh'[t] \in TokenRows
             /\ refresh'[t].user = refresh[t].user /\ refresh'[t].family = refresh[t].family
             /\ refresh'[t].state = refresh[t].state /\ refresh'[t].used = refresh[t].used
             /\ refresh[t] = NoToken => refresh'[t] = NoToken
  <2>1. refresh[t] \in TokenRows
    BY DEF Inv, TypeOK, TokenRows
  <2>2. refresh[t] = NoToken => refresh'[t] = refresh[t]
    BY <1>1, NoTokenShape
  <2>3. refresh'[t] = [refresh[t] EXCEPT !.revoked = TRUE] \/ refresh'[t] = refresh[t]
    BY <1>1
  <2> QED BY <2>1, <2>2, <2>3 DEF TokenRows
<1>3. refresh' \in [Tokens -> TokenRows]
  BY <1>1, <1>2
<1>4. Rotation'
  <2>1. visit'[v] = Away /\ \A w \in Visits \ {v} : visit'[w] = visit[w]
    BY <1>1 DEF Step, Inv, TypeOK
  <2>2. \A f \in Tokens : Unused(f)' = Unused(f) /\ Rotating(f)' \subseteq Rotating(f)
    BY <1>2, <2>1, AwayShape DEF Unused, Family, Rotating
  <2> QED BY <2>2 DEF Inv, Rotation
<1> QED BY <1>1, <1>2, <1>3, <1>4, AwayShape, AwayVisited, TokensMarked

\* The token of a finished callback or refresh: it replaces the request in
\* Rotating of its family, or it starts a family nobody knows yet.
LEMMA IssueStep ==
    ASSUME SessionsAssumption, WorkspacesAssumption, Inv, NEW v \in Visits, NEW t \in Tokens, IssueCreate(v, t)
    PROVE  Inv'
<1> DEFINE x == visit[v]
           row == [user |-> x.user, family |-> IF x.family = None THEN t ELSE x.family,
                   state |-> x.state, used |-> FALSE, revoked |-> FALSE]
<1>1. /\ x.pc = "create" /\ refresh[t] = NoToken /\ refresh' = [refresh EXCEPT ![t] = row]
      /\ access' = access \cup {<<x.user, x.ws>>} /\ Step(v, Away)
      /\ UNCHANGED <<users, spaces, role, active, key, call, removed, calls, login, kid, jwks>>
  BY DEF IssueCreate, Mint, End, directory
<1>2. /\ x \in Records /\ x.user \in Users /\ x.ws \in Spaces /\ Entitled(x.user, x.ws)
      /\ x.op = "callback" \/ x.op = "refresh"
      /\ x.op = "callback" => x.family = None
      /\ x.op = "refresh" => x.family \in Tokens /\ Issued(x.family) /\ x.state = None
  BY <1>1, VisitAt DEF VisitShape, VisitScope, Records
<1>3. /\ None \notin Tokens /\ None \notin States /\ ~Issued(t)
      /\ \A g \in Tokens : Issued(g) => g # t
  BY <1>1, <1>2, NoTokenShape DEF Issued
<1>f. PICK f \in Tokens : f = IF x.family = None THEN t ELSE x.family
  BY <1>2
<1>4. /\ visit' \in [Visits -> Records] /\ visit'[v] = Away
      /\ \A w \in Visits \ {v} : visit'[w] = visit[w]
  BY <1>1, AwayShape DEF Inv, TypeOK, Step, Records
<1>5. /\ row \in TokenRows /\ refresh' \in [Tokens -> TokenRows] /\ refresh'[t] = row
      /\ \A u \in Tokens \ {t} : refresh'[u] = refresh[u]
  <2>1. row \in TokenRows
    BY <1>2, <1>3, <1>f DEF TokenRows, Records
  <2> HIDE DEF row
  <2> QED BY <1>1, <2>1 DEF Inv, TypeOK, TokenRows
<1>6. /\ row.user = x.user /\ row.family = f /\ row.state = x.state /\ ~row.used
  BY <1>f
<1>7. \A g \in Tokens : Issued(g) => Issued(g)' /\ refresh'[g] = refresh[g]
  BY <1>3, <1>5 DEF Issued
<1>8. Issued(t)'
  BY <1>3, <1>5, <1>6, <1>f DEF Issued
<1>9. WorkspaceInv'
  <2>1. access' \subseteq (Users \cup Keys) \X Spaces /\ users' \subseteq Users
    BY <1>1, <1>2 DEF Inv, TypeOK, WorkspaceTypeOK
  <2>2. \A u \in Users, w \in Spaces : <<u, w>> \in access' => <<u, w>> \in access \/ Entitled(u, w)
    BY <1>1, <1>2
  <2>3. active' \in [Users -> Spaces \cup {None}]
    BY <1>1 DEF Inv, TypeOK, WorkspaceTypeOK
  <2> QED BY <1>1, <2>1, <2>2, <2>3, DirectoryGrows DEF Inv
<1> HIDE DEF row
<1>10. TypeOK'
  BY <1>1, <1>4, <1>5, <1>9 DEF Inv, TypeOK, WorkspaceInv, Records, TokenRows
<1>11. Visited'
  <2> SUFFICES ASSUME NEW w \in Visits
               PROVE  VisitShape(visit[w])' /\ VisitScope(visit[w])' /\ VisitKey(visit[w])'
    BY DEF Visited
  <2>1. PICK y \in Records : y = visit'[w] /\ VisitShape(y) /\ VisitScope(y) /\ VisitKey(y)
    BY <1>4, VisitAt, AwayVisited, AwayShape
  <2>2. VisitScope(visit[w])' /\ VisitKey(visit[w])'
    BY <1>1, <2>1 DEF VisitScope, Entitled, VisitKey
  <2>3. /\ y.family \in Tokens /\ Issued(y.family) => Issued(y.family)'
        /\ y.pc = "mark" => y.family \in Tokens
        /\ \A u \in Tokens : refresh[u].family \in Tokens => refresh'[u] = refresh[u]
    BY <1>1, <1>5, <1>7, <2>1, NoTokenShape DEF VisitShape, Records
  <2>4. VisitShape(visit[w])'
    BY <2>1, <2>3 DEF VisitShape, Issued
  <2> QED BY <2>2, <2>4
<1>12. Rows'
  <2> SUFFICES ASSUME NEW u \in Tokens
               PROVE  \/ refresh'[u] = NoToken
                      \/ refresh'[u].user \in Users /\ refresh'[u].family \in Tokens /\ refresh'[refresh'[u].family].family # None
    BY DEF Rows, Issued
  <2>1. CASE u = t
    <3>1. refresh'[u].user \in Users /\ refresh'[u].family = f
      BY <1>2, <1>5, <1>6, <2>1
    <3>2. refresh'[f].family # None
      BY <1>2, <1>f, <1>7, <1>8 DEF Issued
    <3> QED BY <3>1, <3>2
  <2>2. CASE u # t
    BY <1>5, <1>7, <2>2 DEF Inv, Rows, Issued
  <2> QED BY <2>1, <2>2
<1>13. Rotation'
  <2>1. \A g \in Tokens : /\ Unused(g)' = IF g = f THEN Unused(g) \cup {t} ELSE Unused(g)
                          /\ Rotating(g)' = Rotating(g) \ {v}
    <3>1. \A g \in Tokens : Unused(g)' = IF g = f THEN Unused(g) \cup {t} ELSE Unused(g)
      BY <1>1, <1>5, <1>6, NoTokenShape DEF Unused, Family
    <3>2. \A g \in Tokens : Rotating(g)' = Rotating(g) \ {v}
      BY <1>4, AwayShape DEF Rotating
    <3> QED BY <3>1, <3>2
  <2>2. Unused(f) = {} /\ Rotating(f) \ {v} = {}
    <3>1. CASE x.op = "refresh"
      <4>1. v \in Rotating(f)
        BY <1>1, <1>2, <1>3, <1>f, <3>1 DEF Rotating
      <4> QED BY <4>1 DEF Inv, Rotation
    <3>2. CASE x.op = "callback"
      <4>1. f = t
        BY <1>2, <1>f, <3>2
      <4>2. \A u \in Tokens : refresh[u].family # t
        BY <1>3, NoTokenShape DEF Inv, Rows
      <4>3. \A w \in Visits : visit[w].op = "refresh" => visit[w].family # t
        BY <1>3, VisitAt DEF VisitShape
      <4> QED BY <4>1, <4>2, <4>3 DEF Unused, Family, Rotating
    <3> QED BY <1>2, <3>1, <3>2
  <2> SUFFICES ASSUME NEW g \in Tokens
               PROVE  /\ \A a, b \in Unused(g)' : a = b
                      /\ \A w, z \in Rotating(g)' : w = z
                      /\ Unused(g)' = {} \/ Rotating(g)' = {}
    BY DEF Rotation
  <2>3. CASE g = f
    BY <2>1, <2>2, <2>3
  <2>4. CASE g # f
    <3>1. /\ \A a, b \in Unused(g) : a = b
          /\ \A w, z \in Rotating(g) : w = z
          /\ Unused(g) = {} \/ Rotating(g) = {}
      BY DEF Inv, Rotation
    <3> QED BY <2>1, <2>4, <3>1
  <2> QED BY <2>3, <2>4
<1>14. Claimed'
  <2> SUFFICES ASSUME NEW s \in States
               PROVE  /\ login[s] # "taken" => Opened(s)' = {} /\ Opening(s)' = {}
                      /\ \A a, b \in Opened(s)' : a = b
                      /\ \A w, z \in Opening(s)' : w = z
                      /\ Opened(s)' = {} \/ Opening(s)' = {}
    BY <1>1 DEF Claimed
  <2>1. /\ login[s] # "taken" => Opened(s) = {} /\ Opening(s) = {}
        /\ \A a, b \in Opened(s) : a = b
        /\ \A w, z \in Opening(s) : w = z
        /\ Opened(s) = {} \/ Opening(s) = {}
    BY DEF Inv, Claimed
  <2>2. Opening(s)' = Opening(s) \ {v} /\ Opened(s)' \subseteq Opened(s) \cup {t}
    BY <1>3, <1>4, <1>5, AwayShape DEF Opening, Opened
  <2>3. CASE x.state # s
    <3>1. Opened(s)' \subseteq Opened(s)
      BY <1>5, <1>6, <2>3 DEF Opened
    <3> QED BY <2>1, <2>2, <3>1
  <2>4. CASE x.state = s
    <3>1. v \in Opening(s)
      BY <2>4 DEF Opening
    <3>2. Opened(s) = {} /\ Opening(s) \ {v} = {}
      BY <2>1, <3>1
    <3> QED BY <2>1, <2>2, <3>1, <3>2
  <2> QED BY <2>3, <2>4
<1> QED BY <1>9, <1>10, <1>11, <1>12, <1>13, <1>14 DEF Inv

\* TakeLoginState: whoever deletes the row is the first to use the state.
LEMMA TakeStep ==
    ASSUME SessionsAssumption, Inv, NEW v \in Visits, NEW s \in States, NEW u \in Arriving, TakeLoginState(v, s, u)
    PROVE  Inv'
<1> DEFINE y == [Away EXCEPT !.op = "callback", !.pc = "exchange", !.state = s, !.user = u]
<1>1. /\ login[s] = "saved" /\ login' = [login EXCEPT ![s] = "taken"]
      /\ UNCHANGED <<workspaceVars, refresh, kid, jwks>>
      /\ u \in Users
  BY DEF TakeLoginState, SessionsAssumption
<1>2. PICK x \in Records : /\ Step(v, x) /\ VisitShape(x) /\ VisitScope(x) /\ VisitKey(x)
                           /\ x.state \in {None, s} /\ x.op # "refresh"
  <2>1. CASE Step(v, y)
    <3>1. /\ y \in Records /\ y.op = "callback" /\ y.pc = "exchange" /\ y.state = s /\ y.user = u
          /\ y.family = None
      BY <1>1 DEF Away, Records, Stages
    <3>2. VisitShape(y) /\ VisitScope(y) /\ VisitKey(y)
      <4> HIDE DEF y
      <4> QED BY <1>1, <3>1 DEF VisitShape, VisitScope, VisitKey
    <3> HIDE DEF y
    <3> QED BY <2>1, <3>1, <3>2
  <2>2. CASE End(v)
    BY <2>2, AwayShape, AwayVisited DEF End
  <2> QED BY <2>1, <2>2 DEF TakeLoginState
<1>3. /\ visit' \in [Visits -> Records] /\ visit'[v] = x
      /\ \A w \in Visits \ {v} : visit'[w] = visit[w]
  BY <1>2 DEF Inv, TypeOK, Step, Records
<1>4. WorkspaceInv' /\ role' = role /\ removed' = removed
  BY <1>1, WorkspaceStutter DEF Inv, workspaceVars
<1>5. TypeOK'
  BY <1>1, <1>3, <1>4 DEF Inv, TypeOK, WorkspaceInv, Records
<1>6. Visited'
  <2> SUFFICES ASSUME NEW w \in Visits
               PROVE  VisitShape(visit[w])' /\ VisitScope(visit[w])' /\ VisitKey(visit[w])'
    BY DEF Visited
  <2>1. PICK z \in Records : z = visit'[w] /\ VisitShape(z) /\ VisitScope(z) /\ VisitKey(z)
    BY <1>2, <1>3, VisitAt
  <2> QED BY <1>1, <1>4, <2>1 DEF VisitShape, VisitScope, VisitKey, Entitled, Issued
<1>7. Rows'
  BY <1>1 DEF Inv, Rows, Issued
<1>8. Rotation'
  <2>1. \A f \in Tokens : Unused(f)' = Unused(f) /\ Rotating(f)' \subseteq Rotating(f)
    BY <1>1, <1>2, <1>3 DEF Unused, Family, Rotating
  <2> QED BY <2>1 DEF Inv, Rotation
<1>9. Claimed'
  <2>1. \A z \in States : Opened(z)' = Opened(z)
    BY <1>1 DEF Opened
  <2>2. \A z \in States \ {s} : Opening(z)' \subseteq Opening(z) /\ login'[z] = login[z]
    BY <1>1, <1>2, <1>3 DEF Opening, Inv, TypeOK, SessionsAssumption
  <2>3. login'[s] = "taken" /\ Opened(s) = {} /\ Opening(s)' \subseteq {v}
    BY <1>1, <1>3 DEF Opening, Inv, TypeOK, Claimed
  <2> QED BY <2>1, <2>2, <2>3 DEF Inv, Claimed
<1> QED BY <1>4, <1>5, <1>6, <1>7, <1>8, <1>9 DEF Inv

-----------------------------------------------------------------------------
(* Everything else: no request of these handlers moves.                    *)

\* The handlers of Workspaces, a new login state, the provider and the clock.
LEMMA VisitsStay ==
    ASSUME SessionsAssumption, Inv, UNCHANGED <<refresh, visit>>, WorkspaceInv',
           \A u \in Users, w \in Spaces : Entitled(u, w) => Entitled(u, w)',
           kid' \in Kids, kid <= kid', jwks' \in [keys : SUBSET Kids, young : BOOLEAN],
           login' \in [States -> {"free", "saved", "taken"}],
           \A s \in States : login[s] = "taken" => login'[s] = "taken"
    PROVE  Inv'
<1>0. kid \in Nat /\ kid' \in Nat /\ Kids \subseteq Nat
  BY DEF SessionsAssumption, Inv, TypeOK
<1>1. TypeOK'
  BY DEF Inv, TypeOK, WorkspaceInv
<1>2. Visited'
  <2> SUFFICES ASSUME NEW w \in Visits
               PROVE  VisitShape(visit[w])' /\ VisitScope(visit[w])' /\ VisitKey(visit[w])'
    BY DEF Visited
  <2>1. PICK z \in Records : z = visit'[w] /\ VisitShape(z) /\ VisitScope(z) /\ VisitKey(z)
    BY VisitAt
  <2>2. VisitShape(visit[w])'
    BY <2>1 DEF VisitShape, Issued
  <2>3. VisitScope(visit[w])'
    <3>1. z.pc \in {"setActive", "create"} => z.user \in Users /\ z.ws \in Spaces /\ Entitled(z.user, z.ws)
      BY <2>1 DEF VisitShape, VisitScope, Records
    <3> QED BY <2>1, <3>1 DEF VisitScope, Entitled
  <2>4. VisitKey(visit[w])'
    <3>1. \A n \in Kids : n <= kid => n <= kid'
      BY <1>0
    <3>2. z.pc \in {"lookup", "fetch", "store", "relookup"} => z.kid \in Kids /\ z.kid <= kid'
      BY <2>1, <3>1 DEF VisitKey
    <3>3. z.pc \in {"store", "relookup"} =>
              \E n \in Kids : z.kid <= n /\ n <= kid' /\ z.doc = {n, n - 1} \cap Kids
      BY <2>1, <3>1 DEF VisitKey
    <3> QED BY <2>1, <3>2, <3>3 DEF VisitKey
  <2> QED BY <2>2, <2>3, <2>4
<1>3. Rows'
  BY DEF Inv, Rows, Issued
<1>4. Rotation'
  BY DEF Inv, Rotation, Unused, Family, Rotating
<1>5. Claimed'
  <2>1. \A s \in States : Opened(s)' = Opened(s) /\ Opening(s)' = Opening(s)
    BY DEF Opened, Opening
  <2> QED BY <2>1 DEF Inv, Claimed
<1> QED BY <1>1, <1>2, <1>3, <1>4, <1>5 DEF Inv

LEMMA HandlersStep ==
    ASSUME WorkspacesAssumption, SessionsAssumption, Inv, Handlers, UNCHANGED sessionVars
    PROVE  Inv'
<1>1. WorkspaceInv' /\ \A u \in Users, w \in Spaces : Entitled(u, w) => Entitled(u, w)'
  BY HandlersKeep, EntitledKept DEF Inv
<1>2. /\ UNCHANGED <<refresh, visit>> /\ kid' \in Kids /\ kid <= kid' /\ jwks' \in [keys : SUBSET Kids, young : BOOLEAN]
      /\ login' \in [States -> {"free", "saved", "taken"}]
      /\ \A s \in States : login[s] = "taken" => login'[s] = "taken"
  BY DEF sessionVars, Inv, TypeOK, SessionsAssumption
<1> QED BY <1>1, <1>2, VisitsStay

LEMMA OutsideSteps ==
    ASSUME SessionsAssumption, Inv,
           (\E s \in States : handleLogin(s)) \/ RotateKey \/ AgeKeys \/ UNCHANGED vars
    PROVE  Inv'
<1>1. UNCHANGED workspaceVars /\ UNCHANGED <<refresh, visit>>
  BY DEF handleLogin, RotateKey, AgeKeys, vars, sessionVars
<1>2. role' = role /\ removed' = removed
  BY <1>1 DEF workspaceVars
<1>3. WorkspaceInv' /\ \A u \in Users, w \in Spaces : Entitled(u, w) => Entitled(u, w)'
  BY <1>1, <1>2, WorkspaceStutter DEF Inv, Entitled
<1>4. kid' \in Kids /\ kid <= kid'
  BY DEF handleLogin, RotateKey, AgeKeys, vars, sessionVars, Inv, TypeOK, SessionsAssumption
<1>5. jwks' \in [keys : SUBSET Kids, young : BOOLEAN]
  BY DEF handleLogin, RotateKey, AgeKeys, vars, sessionVars, Inv, TypeOK
<1>6. /\ login' \in [States -> {"free", "saved", "taken"}]
      /\ \A s \in States : login[s] = "taken" => login'[s] = "taken"
  BY DEF handleLogin, RotateKey, AgeKeys, vars, sessionVars, Inv, TypeOK
<1> QED BY <1>1, <1>3, <1>4, <1>5, <1>6, VisitsStay

LEMMA Initially ==
    ASSUME WorkspacesAssumption, SessionsAssumption, Init
    PROVE  Inv
<1>1. WorkspaceInv
  BY WorkspaceInitially DEF Init
<1>2. TypeOK
  <2>1. NoToken \in TokenRows
    BY DEF NoToken, TokenRows
  <2> QED BY <1>1, <2>1, AwayShape DEF Init, TypeOK, WorkspaceInv, SessionsAssumption, TokenRows, Records
<1>3. Visited
  BY AwayVisited DEF Init, Visited
<1>4. Rows
  BY DEF Init, Rows
<1>5. Rotation /\ Claimed
  BY NoTokenShape, AwayShape DEF Init, Rotation, Claimed, Unused, Family, Rotating, Opened, Opening
<1> QED BY <1>1, <1>2, <1>3, <1>4, <1>5 DEF Inv

LEMMA Steps ==
    ASSUME WorkspacesAssumption, SessionsAssumption, Inv, [Next]_vars
    PROVE  Inv'
<1>1. ASSUME NEW v \in Visits, Callback(v) PROVE Inv'
  BY <1>1, TakeStep, ExchangeIDToken, KeySearch, FetchDocument, StoreDocument, UpsertStep, BootstrapSteps,
     BootstrapActiveStep DEF Callback
<1>2. ASSUME NEW v \in Visits, Issue(v) \/ Rotate(v) PROVE Inv'
  BY <1>2, MembershipStep, IssueStep, PresentToken, MarkStep, RefreshUserStep, RevokeStep DEF Issue, Rotate
<1>3. ASSUME NEW v \in Visits, Disconnect(v) PROVE Inv'
  BY <1>3, VisitEnds DEF Disconnect
<1> QED BY <1>1, <1>2, <1>3, HandlersStep, OutsideSteps DEF Next

LEMMA Invariance == Spec => []Inv
<1>1. Init => Inv
  BY Initially, WorkspacesAssumption, SessionsAssumption
<1>2. Inv /\ [Next]_vars => Inv'
  BY Steps, WorkspacesAssumption, SessionsAssumption
<1> QED BY <1>1, <1>2, PTL DEF Spec

-----------------------------------------------------------------------------
(* The theorems.                                                           *)

\* At most one element, counted.
LEMMA AtMostOne ==
    ASSUME NEW S, \A a, b \in S : a = b
    PROVE  Cardinality(S) = 0 \/ Cardinality(S) = 1
<1>1. CASE S = {}
  BY <1>1, FS_EmptySet
<1>2. ASSUME NEW a \in S PROVE Cardinality(S) = 1
  <2>1. S = {a}
    OBVIOUS
  <2> QED BY <2>1, FS_Singleton
<1> QED BY <1>1, <1>2

\* Rotation is exclusive: concurrent refreshes with the same cookie never
\* leave a family with two tokens that can still be rotated.
THEOREM RotationIsExclusive == Spec => []OneTokenPerFamily
<1>1. Inv => OneTokenPerFamily
  <2> SUFFICES ASSUME Inv, NEW f \in Tokens
               PROVE  Cardinality(Unused(f)) + Cardinality(Rotating(f)) <= 1
    BY DEF OneTokenPerFamily
  <2>1. /\ \A a, b \in Unused(f) : a = b
        /\ \A v, w \in Rotating(f) : v = w
        /\ Unused(f) = {} \/ Rotating(f) = {}
    BY DEF Inv, Rotation
  <2>2. /\ Cardinality(Unused(f)) \in {0, 1} /\ Cardinality(Rotating(f)) \in {0, 1}
        /\ Cardinality(Unused(f)) = 0 \/ Cardinality(Rotating(f)) = 0
    BY <2>1, AtMostOne, FS_EmptySet
  <2> QED BY <2>2
<1> QED BY <1>1, Invariance, PTL

\* A login state opens at most one session, however often and however
\* concurrently its callback is delivered.
THEOREM LoginOnce == Spec => []LoginStateIsSingleUse
<1>1. Inv => LoginStateIsSingleUse
  <2> SUFFICES ASSUME Inv, NEW s \in States
               PROVE  Cardinality({t \in {t \in Tokens : refresh[t].family = t} : refresh[t].state = s}
                                   \cup {v \in Visits : visit[v].state = s}) <= 1
    BY DEF LoginStateIsSingleUse
  <2>1. /\ \A a, b \in Opened(s) : a = b
        /\ \A v, w \in Opening(s) : v = w
        /\ Opened(s) = {} \/ Opening(s) = {}
    BY DEF Inv, Claimed
  <2>2. \A a, b \in Opened(s) \cup Opening(s) : a = b
    BY <2>1
  <2>3. {t \in {t \in Tokens : refresh[t].family = t} : refresh[t].state = s}
            \cup {v \in Visits : visit[v].state = s} = Opened(s) \cup Opening(s)
    BY DEF Opened, Opening
  <2> QED BY <2>2, <2>3, AtMostOne
<1> QED BY <1>1, Invariance, PTL

\* The scope of tokens holds beside sign-ins too.
THEOREM ScopeWithSessions == Spec => []ScopeIsMembership
<1>1. Inv => ScopeIsMembership
  BY DEF Inv, WorkspaceInv
<1> QED BY <1>1, Invariance, PTL

\* A login fails to find a key that is published only if another login's
\* older document replaced the one it fetched.
THEOREM PublishedKeyIsFound == Spec => KeyIsFound
<1>1. ASSUME Inv, NEW v \in Visits, RelookupKey(v), visit[v].kid \in Published, visit'[v] = Away
      PROVE  jwks.keys # visit[v].doc
  <2>1. visit[v].pc = "relookup" /\ visit[v].kid \notin jwks.keys
    <3>1. visit' = [visit EXCEPT ![v] = Verified(visit[v])] => visit'[v].pc = "upsert"
      BY <1>1, VisitAt, VerifiedShape DEF Inv, TypeOK
    <3> QED BY <1>1, <3>1, AwayShape DEF RelookupKey, Stage, Step
  <2>2. PICK n \in Kids : visit[v].kid <= n /\ n <= kid /\ visit[v].doc = {n, n - 1} \cap Kids
    BY <1>1, <2>1, VisitAt DEF VisitKey
  <2>3. visit[v].kid \in {n, n - 1} \cap Kids
    BY <1>1, <2>2, SessionsAssumption DEF Published, SessionsAssumption, Inv, TypeOK
  <2> QED BY <2>1, <2>2, <2>3
<1>2. Inv => [\A v \in Visits :
                 RelookupKey(v) /\ visit[v].kid \in Published /\ visit'[v] = Away =>
                     jwks.keys # visit[v].doc]_vars
  BY <1>1
<1> QED BY <1>2, Invariance, PTL DEF KeyIsFound

-----------------------------------------------------------------------------
(* A family that is over.                                                  *)

\* Which steps write tokens, and how.
LEMMA TokenWrites ==
    ASSUME Inv, [Next]_vars
    PROVE  \/ refresh' = refresh
           \/ \E v \in Visits : MarkRefreshTokenUsed(v) \/ RevokeRefreshFamily(v)
           \/ \E v \in Visits, t \in Tokens : IssueCreate(v, t)
BY DEF Next, vars, sessionVars, Callback, Issue, Rotate, handleLogin, TakeLoginState, Exchange, keyForKid,
       fetchJWKS, StoreJWKS, RelookupKey, UpsertUser, BootstrapCreate, BootstrapActive, IssueMembership,
       RefreshGet, LogoutGet, RefreshUser, Disconnect, RotateKey, AgeKeys

\* Marking and revoking bring no token back.
LEMMA NothingRevives ==
    ASSUME SessionsAssumption, Inv, NEW v \in Visits, MarkRefreshTokenUsed(v) \/ RevokeRefreshFamily(v), NEW t \in Tokens
    PROVE  /\ refresh'[t].family = refresh[t].family
           /\ refresh[t].used => refresh'[t].used
           /\ refresh[t].revoked => refresh'[t].revoked
<1>1. refresh \in [Tokens -> TokenRows]
  BY DEF Inv, TypeOK, TokenRows
<1>2. CASE MarkRefreshTokenUsed(v)
  BY <1>1, <1>2 DEF MarkRefreshTokenUsed, TokenRows
<1>3. CASE RevokeRefreshFamily(v)
  BY <1>1, <1>3 DEF RevokeRefreshFamily, TokenRows
<1> QED BY <1>2, <1>3

\* A refresh is let in by an unrevoked token, which it may rotate only if it
\* is not used; every other refresh was there before.
LEMMA RefreshesEvolve ==
    ASSUME SessionsAssumption, Inv, [Next]_vars, NEW v \in Visits, NEW f \in Tokens,
           visit'[v].op = "refresh", visit'[v].pc # "revoke", visit'[v].family = f
    PROVE  \/ visit[v].op = "refresh" /\ visit[v].pc # "revoke" /\ visit[v].family = f
           \/ Live(f) # {}
<1>0. visit \in [Visits -> Records] /\ \A w \in Visits : visit[w] \in Records /\ VisitShape(visit[w])
  BY VisitAt DEF Inv, TypeOK, Records
<1>1. CASE visit'[v] = visit[v]
  BY <1>1
<1>2. CASE visit'[v] # visit[v]
  <2>1. Callback(v) \/ Issue(v) \/ Rotate(v) \/ Disconnect(v)
    <3>1. ASSUME NEW w \in Visits, Callback(w) \/ Issue(w) \/ Rotate(w) \/ Disconnect(w), w # v
          PROVE  FALSE
      <4>1. \E x : Step(w, x)
        BY <3>1 DEF Callback, Issue, Rotate, TakeLoginState, Exchange, keyForKid, fetchJWKS, StoreJWKS, RelookupKey,
               UpsertUser, BootstrapCreate, BootstrapActive, IssueMembership, IssueCreate, RefreshGet, LogoutGet,
               MarkRefreshTokenUsed, RefreshUser, RevokeRefreshFamily, Disconnect, End
      <4> QED BY <1>0, <1>2, <3>1, <4>1 DEF Step
    <3> QED BY <1>2, <3>1 DEF Next, vars, sessionVars, handleLogin, RotateKey, AgeKeys
  <2>2. ASSUME End(v) PROVE FALSE
    BY <1>0, <2>2, AwayShape DEF End, Step
  <2>3. CASE Callback(v)
    <3>1. \A x : Step(v, x) => visit'[v] = x
      BY <1>0 DEF Step
    <3>2. CASE \E s \in States, u \in Arriving : TakeLoginState(v, s, u)
      BY <2>2, <3>1, <3>2 DEF TakeLoginState, Away
    <3>3. CASE Exchange(v) \/ fetchJWKS(v) \/ StoreJWKS(v)
      <4>1. visit[v] \in Records /\ visit[v].op = "callback"
        BY <1>0, <3>3 DEF Exchange, fetchJWKS, StoreJWKS, Stage
      <4>2. \/ visit'[v] = [visit[v] EXCEPT !.pc = "lookup", !.kid = kid]
            \/ visit'[v] = [visit[v] EXCEPT !.pc = "store", !.doc = Published]
            \/ visit'[v] = [visit[v] EXCEPT !.pc = "relookup"]
        BY <3>1, <3>3 DEF Exchange, fetchJWKS, StoreJWKS
      <4> QED BY <4>1, <4>2 DEF Records
    <3>4. CASE keyForKid(v) \/ RelookupKey(v)
      <4>1. visit[v].op = "callback" /\ visit[v] \in Records
        BY <1>0, <3>4 DEF keyForKid, RelookupKey, Stage
      <4>2. Step(v, Verified(visit[v])) \/ Step(v, [visit[v] EXCEPT !.pc = "fetch"])
        BY <2>2, <3>4 DEF keyForKid, RelookupKey
      <4> QED BY <3>1, <4>1, <4>2, VerifiedShape DEF Records
    <3>5. CASE UpsertUser(v) \/ BootstrapActive(v) \/ \E w \in Spaces : BootstrapCreate(v, w)
      <4>1. visit[v] \in Records /\ visit[v].op = "callback"
        BY <1>0, <3>5 DEF UpsertUser, BootstrapActive, BootstrapCreate, Stage
      <4>2. \/ \E a, p : visit'[v] = [visit[v] EXCEPT !.ws = a, !.pc = p]
            \/ visit'[v] = [visit[v] EXCEPT !.pc = "membership"]
            \/ \E w \in Spaces : visit'[v] = [visit[v] EXCEPT !.pc = "setActive", !.ws = w]
        BY <3>1, <3>5 DEF UpsertUser, BootstrapActive, BootstrapCreate
      <4> QED BY <4>1, <4>2 DEF Records
    <3> QED BY <2>3, <3>2, <3>3, <3>4, <3>5 DEF Callback
  <2>4. CASE IssueMembership(v)
    <3>1. Step(v, [visit[v] EXCEPT !.pc = "create"]) /\ visit[v].pc = "membership"
      BY <2>2, <2>4 DEF IssueMembership
    <3> QED BY <1>0, <3>1 DEF Step, Records
  <2>5. CASE \E t \in Tokens : IssueCreate(v, t)
    BY <2>2, <2>5 DEF IssueCreate
  <2>6. CASE Disconnect(v) \/ RevokeRefreshFamily(v)
    BY <2>2, <2>6 DEF Disconnect, RevokeRefreshFamily
  <2>7. CASE MarkRefreshTokenUsed(v)
    <3>1. Step(v, [visit[v] EXCEPT !.pc = "user", !.token = None]) /\ visit[v].pc = "mark"
      BY <2>2, <2>7 DEF MarkRefreshTokenUsed, Stage
    <3> QED BY <1>0, <3>1 DEF Step, Records
  <2>8. CASE RefreshUser(v)
    <3>1. Step(v, [visit[v] EXCEPT !.pc = "membership", !.ws = active[visit[v].user]]) /\ visit[v].pc = "user"
      BY <2>8 DEF RefreshUser, Stage
    <3> QED BY <1>0, <3>1 DEF Step, Records
  <2>9. ASSUME NEW t \in Tokens, LogoutGet(v, t) PROVE FALSE
    BY <1>0, <2>9 DEF LogoutGet, Step, Away
  <2>10. ASSUME NEW t \in Tokens, RefreshGet(v, t) PROVE Live(f) # {}
    <3>1. ~refresh[t].used /\ ~refresh[t].revoked /\ refresh[t].family = f
      BY <1>0, <2>10 DEF RefreshGet, Step, Away
    <3> QED BY <3>1 DEF Live, Unused, Family
  <2> QED BY <2>1, <2>3, <2>4, <2>5, <2>6, <2>7, <2>8, <2>9, <2>10 DEF Issue, Rotate
<1> QED BY <1>1, <1>2

LEMMA OverKept ==
    ASSUME SessionsAssumption, Inv, [Next]_vars, NEW f \in Tokens, Over(f)
    PROVE  Over(f)'
<1>0. /\ Family(f) # {} /\ Live(f) = {}
      /\ \A v \in Visits : visit[v].op = "refresh" /\ visit[v].pc # "revoke" => visit[v].family # f
  BY DEF Over
<1>1. \A v \in Visits : visit'[v].op = "refresh" /\ visit'[v].pc # "revoke" => visit'[v].family # f
  BY <1>0, RefreshesEvolve
<1>2. Family(f)' # {} /\ Live(f)' = {}
  <2>1. CASE refresh' = refresh
    BY <1>0, <2>1 DEF Family, Live, Unused
  <2>2. ASSUME NEW v \in Visits, MarkRefreshTokenUsed(v) \/ RevokeRefreshFamily(v)
        PROVE  Family(f)' # {} /\ Live(f)' = {}
    BY <1>0, <2>2, NothingRevives DEF Family, Live, Unused
  <2>3. ASSUME NEW v \in Visits, NEW t \in Tokens, IssueCreate(v, t)
        PROVE  Family(f)' # {} /\ Live(f)' = {}
    <3>1. /\ refresh[t] = NoToken /\ visit[v].pc = "create" /\ refresh \in [Tokens -> TokenRows]
          /\ refresh'[t].family = IF visit[v].family = None THEN t ELSE visit[v].family
          /\ \A u \in Tokens \ {t} : refresh'[u] = refresh[u]
      BY <2>3 DEF IssueCreate, Inv, TypeOK, TokenRows
    <3>2. /\ visit[v].op = "callback" => visit[v].family = None
          /\ visit[v].op \in {"callback", "refresh"}
      BY <3>1, VisitAt DEF VisitShape, Records
    <3>3. Issued(f) /\ f # t /\ t \notin Family(f)
      BY <1>0, <3>1, NoTokenShape DEF Family, Inv, Rows, Issued
    <3>4. refresh'[t].family # f
      BY <1>0, <3>1, <3>2, <3>3
    <3> QED BY <1>0, <3>1, <3>3, <3>4 DEF Family, Live, Unused
  <2> QED BY <2>1, <2>2, <2>3, TokenWrites
<1> QED BY <1>1, <1>2 DEF Over

\* A session that ended, by logout, by detected reuse or by a rotation that
\* failed half-way, never comes back.
THEOREM EndedForGood == Spec => FamilyStaysDead
<1>1. Inv /\ [Next]_vars => [\A f \in Tokens : Over(f) => Over(f)']_vars
  BY OverKept, SessionsAssumption
<1> QED BY <1>1, Invariance, PTL DEF Spec, FamilyStaysDead

=============================================================================
