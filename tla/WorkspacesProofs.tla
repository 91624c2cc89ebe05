-------------------------- MODULE WorkspacesProofs --------------------------
(***************************************************************************)
(* Tokens stay within memberships, a revoked key stays dead, and only an   *)
(* overtaken request can take the last owner, for any people, workspaces,  *)
(* keys and requests in flight.                                            *)
(*                                                                         *)
(* The strengthening says of each request what it knows: a switch that was *)
(* let in is for a member or a removed one (SwitchIsEntitled), an exchange *)
(* is for a key, and what a demotion or a removal has read is still true   *)
(* unless another request changed the workspace meanwhile (ReadsHold).     *)
(***************************************************************************)
EXTENDS Workspaces, FiniteSetTheorems, TLAPS

Entitled(u, w) == role[w][u] # None \/ <<w, u>> \in removed

\* The fields an operation uses are filled in.
CallShape(c) ==
    /\ c.op \in {"add", "update", "remove"} => c.ws \in spaces /\ c.target \in Users
    /\ c.op \in {"add", "update"} => c.role \in Roles
    /\ c.op = "switch" => c.by \in Users /\ c.ws \in Spaces
    /\ c.op = "exchange" => c.by \in Keys /\ c.ws \in Spaces
    /\ c.op \in {"createKey", "revokeKey"} => c.target \in Keys /\ c.ws \in Spaces

Shapes == \A q \in Requests : CallShape(call[q])

KeyShape == \A k \in Keys : key[k].state = "live" => key[k].ws \in Spaces

SwitchIsEntitled == \A q \in Requests : call[q].op = "switch" => Entitled(call[q].by, call[q].ws)

\* What a demotion or a removal has read of its target and of the owners.
Fresh(c) ==
    /\ c.op = "remove" /\ c.pc = "authorize" => role[c.ws][c.target] = c.seen
    /\ c.op \in {"update", "remove"} /\ c.pc = "count" => role[c.ws][c.target] = "owner"
    /\ /\ c.pc = "write"
       /\ c.op = "remove" \/ (c.op = "update" /\ c.role # "owner")
       /\ role[c.ws][c.target] = "owner"
       => \E o \in Users \ {c.target} : role[c.ws][o] = "owner"

ReadsHold == \A q \in Requests : ~call[q].raced => Fresh(call[q])

WorkspaceInv ==
    WorkspaceTypeOK /\ Shapes /\ KeyShape /\ SwitchIsEntitled /\ ReadsHold /\ ScopeIsMembership

-----------------------------------------------------------------------------
(* The operators of the model.                                             *)

\* One membership is written.
LEMMA MembershipWritten ==
    ASSUME WorkspaceTypeOK, NEW w \in Spaces, NEW t \in Users, NEW r \in Roles \cup {None},
           role' = [role EXCEPT ![w][t] = r]
    PROVE  /\ role' \in [Spaces -> [Users -> Roles \cup {None}]]
           /\ role'[w][t] = r
           /\ \A u \in Users \ {t} : role'[w][u] = role[w][u]
           /\ \A v \in Spaces \ {w} : role'[v] = role[v]
BY DEF WorkspaceTypeOK

LEMMA IdleShape ==
    /\ Idle \in Calls /\ Idle.op = "none" /\ Idle.pc = "idle" /\ ~Idle.raced
    /\ CallShape(Idle) /\ Fresh(Idle)
BY DEF Idle, Calls, Ops, Roles, CallShape, Fresh

\* An overtaken request is otherwise as it was.
LEMMA Overtaken ==
    ASSUME NEW c \in Calls, NEW d, d = [c EXCEPT !.raced = TRUE]
    PROVE  /\ d \in Calls /\ d.raced
           /\ d.op = c.op /\ d.pc = c.pc /\ d.by = c.by /\ d.ws = c.ws /\ d.target = c.target
           /\ d.role = c.role
BY DEF Calls

\* More than one owner, one of them u: there is another one.
LEMMA AnotherOwner ==
    ASSUME WorkspacesAssumption, NEW w \in Spaces, NEW u \in Users, ~(CountOwners(w) <= 1)
    PROVE  \E o \in Users \ {u} : role[w][o] = "owner"
<1> SUFFICES ASSUME Owners(w) \subseteq {u}
             PROVE  FALSE
  BY DEF Owners
<1>1. IsFiniteSet({u}) /\ Cardinality({u}) = 1
  BY FS_Singleton
<1>2. IsFiniteSet(Owners(w)) /\ Cardinality(Owners(w)) <= Cardinality({u})
  BY <1>1, FS_Subset
<1> QED BY <1>1, <1>2 DEF CountOwners

\* The steps of a request after which the memberships are as before: it is
\* left at c, of which the invariant must hold.
LEMMA RequestMoves ==
    ASSUME WorkspacesAssumption, WorkspaceInv, UNCHANGED <<users, spaces, role, removed>>,
           NEW q \in Requests, NEW c \in Calls, call' = [call EXCEPT ![q] = c], CallShape(c),
           c.op = "switch" => Entitled(c.by, c.ws), ~c.raced => Fresh(c),
           calls' \in 0..MaxCalls,
           key' \in [Keys -> [state : {"free", "live", "revoked"}, ws : Spaces \cup {None}]], KeyShape',
           active' \in [Users -> Spaces \cup {None}], access' \subseteq (Users \cup Keys) \X Spaces,
           \A u \in Users, w \in Spaces : active'[u] = w => active[u] = w \/ Entitled(u, w),
           \A u \in Users, w \in Spaces : <<u, w>> \in access' => <<u, w>> \in access \/ Entitled(u, w)
    PROVE  WorkspaceInv'
<1>1. call' \in [Requests -> Calls] /\ call'[q] = c /\ \A p \in Requests \ {q} : call'[p] = call[p]
  BY DEF WorkspaceInv, WorkspaceTypeOK
<1>2. WorkspaceTypeOK'
  BY <1>1 DEF WorkspaceInv, WorkspaceTypeOK
<1>3. Shapes'
  BY <1>1 DEF WorkspaceInv, Shapes, CallShape
<1>4. SwitchIsEntitled'
  BY <1>1 DEF WorkspaceInv, SwitchIsEntitled, Entitled
<1>5. ReadsHold'
  BY <1>1 DEF WorkspaceInv, ReadsHold, Fresh
<1>6. ScopeIsMembership'
  BY DEF WorkspaceInv, ScopeIsMembership, Entitled
<1> QED BY <1>2, <1>3, <1>4, <1>5, <1>6 DEF WorkspaceInv

\* A request writes a membership of its workspace and ends: what the others
\* have read of that workspace counts as overtaken.
LEMMA MembershipChanges ==
    ASSUME WorkspacesAssumption, WorkspaceInv, NEW q \in Requests, NEW w \in Spaces, NEW t \in Users,
           NEW r \in Roles \cup {None}, role' = [role EXCEPT ![w][t] = r], Changed(q, w),
           removed \subseteq removed', removed' \subseteq Spaces \X Users,
           r = None => <<w, t>> \in removed',
           UNCHANGED <<users, spaces, active, key, access>>
    PROVE  WorkspaceInv'
<1>1. /\ role' \in [Spaces -> [Users -> Roles \cup {None}]]
      /\ role'[w][t] = r
      /\ \A u \in Users \ {t} : role'[w][u] = role[w][u]
      /\ \A v \in Spaces \ {w} : role'[v] = role[v]
  <2>1. WorkspaceTypeOK
    BY DEF WorkspaceInv
  <2> QED BY <2>1 DEF WorkspaceTypeOK
<1>2. ASSUME NEW p \in Requests
      PROVE  /\ call[p] \in Calls /\ call'[p] \in Calls
             /\ \/ call'[p] = Idle
                \/ call'[p] = call[p] /\ call[p].ws # w
                \/ /\ call'[p].raced
                   /\ call'[p].op = call[p].op /\ call'[p].by = call[p].by /\ call'[p].ws = call[p].ws
                   /\ call'[p].target = call[p].target /\ call'[p].role = call[p].role
  <2>1. call[p] \in Calls
    BY DEF WorkspaceInv, WorkspaceTypeOK
  <2>2. \/ call'[p] = Idle
        \/ call'[p] = call[p] /\ call[p].ws # w
        \/ call'[p] = [call[p] EXCEPT !.raced = TRUE]
    BY DEF Changed
  <2> QED BY <2>1, <2>2, IdleShape, Overtaken
<1>3. WorkspaceTypeOK'
  <2>1. call' \in [Requests -> Calls] /\ calls' = calls
    BY <1>2 DEF Changed
  <2> QED BY <1>1, <2>1 DEF WorkspaceInv, WorkspaceTypeOK
<1>4. ASSUME NEW u \in Users, NEW v \in Spaces, Entitled(u, v)
      PROVE  role'[v][u] # None \/ <<v, u>> \in removed'
  BY <1>1, <1>4 DEF Entitled
<1>5. Shapes' /\ KeyShape'
  BY <1>2, IdleShape DEF WorkspaceInv, Shapes, CallShape, KeyShape
<1>6. SwitchIsEntitled'
  <2> SUFFICES ASSUME NEW p \in Requests, call'[p].op = "switch"
               PROVE  role'[call'[p].ws][call'[p].by] # None \/ <<call'[p].ws, call'[p].by>> \in removed'
    BY DEF SwitchIsEntitled, Entitled
  <2>1. call[p].op = "switch" /\ call'[p].by = call[p].by /\ call'[p].ws = call[p].ws
    BY <1>2, IdleShape
  <2>2. call[p].by \in Users /\ call[p].ws \in Spaces /\ Entitled(call[p].by, call[p].ws)
    BY <2>1 DEF WorkspaceInv, Shapes, CallShape, SwitchIsEntitled
  <2> QED BY <1>4, <2>1, <2>2
<1>7. ReadsHold'
  <2> SUFFICES ASSUME NEW p \in Requests, ~call'[p].raced
               PROVE  Fresh(call[p])' 
    BY DEF ReadsHold
  <2>1. CASE call'[p] = Idle
    BY <2>1 DEF Fresh, Idle
  <2>3. CASE call'[p] = call[p] /\ call[p].ws # w
    <3>1. Fresh(call[p]) /\ CallShape(call[p])
      BY <2>3 DEF WorkspaceInv, ReadsHold, Shapes
    <3>2. call[p].op \in {"update", "remove"} => role'[call[p].ws] = role[call[p].ws]
      BY <1>1, <2>3, <3>1 DEF CallShape, WorkspaceInv, WorkspaceTypeOK
    <3> QED BY <2>3, <3>1, <3>2 DEF Fresh
  <2> QED BY <1>2, <2>1, <2>3
<1>8. ScopeIsMembership'
  BY <1>4 DEF WorkspaceInv, ScopeIsMembership, Entitled
<1> QED BY <1>3, <1>5, <1>6, <1>7, <1>8 DEF WorkspaceInv

\* A new workspace with its owner: no request is about it yet.
LEMMA WorkspaceAdded ==
    ASSUME WorkspacesAssumption, WorkspaceInv, NEW w \in Spaces, NEW t \in Users, CreateWorkspace(w, t),
           UNCHANGED <<active, key, access, call, removed>>, users' \subseteq Users, calls' \in 0..MaxCalls
    PROVE  WorkspaceInv' /\ role'[w][t] # None
<1>0. /\ w \notin spaces /\ spaces' = spaces \cup {w} /\ role' = [role EXCEPT ![w][t] = "owner"]
      /\ "owner" \in Roles /\ "owner" # None
  BY DEF CreateWorkspace, Roles, WorkspacesAssumption
<1>1. /\ role' \in [Spaces -> [Users -> Roles \cup {None}]]
      /\ role'[w][t] = "owner"
      /\ \A u \in Users \ {t} : role'[w][u] = role[w][u]
      /\ \A v \in Spaces \ {w} : role'[v] = role[v]
  BY <1>0, MembershipWritten DEF WorkspaceInv
<1>2. WorkspaceTypeOK'
  BY <1>0, <1>1 DEF WorkspaceInv, WorkspaceTypeOK
<1>3. ASSUME NEW u \in Users, NEW v \in Spaces, Entitled(u, v)
      PROVE  role'[v][u] # None \/ <<v, u>> \in removed'
  BY <1>0, <1>1, <1>3 DEF Entitled
<1>4. Shapes' /\ KeyShape'
  BY <1>0 DEF WorkspaceInv, Shapes, CallShape, KeyShape
<1>5. SwitchIsEntitled' /\ ScopeIsMembership'
  BY <1>3 DEF WorkspaceInv, SwitchIsEntitled, ScopeIsMembership, Shapes, CallShape, Entitled
<1>6. ReadsHold'
  <2> SUFFICES ASSUME NEW p \in Requests, ~call[p].raced
               PROVE  Fresh(call[p])'
    BY DEF ReadsHold
  <2>1. Fresh(call[p]) /\ CallShape(call[p])
    BY DEF WorkspaceInv, ReadsHold, Shapes
  <2>2. call[p].op \in {"update", "remove"} => role'[call[p].ws] = role[call[p].ws]
    BY <1>0, <1>1, <2>1 DEF CallShape, WorkspaceInv, WorkspaceTypeOK
  <2> QED BY <2>1, <2>2 DEF Fresh
<1> QED BY <1>0, <1>1, <1>2, <1>4, <1>5, <1>6 DEF WorkspaceInv

-----------------------------------------------------------------------------
(* One lemma per handler.                                                  *)

\* A request whose step leaves all tables alone.
LEMMA OnlyRequest ==
    ASSUME WorkspacesAssumption, WorkspaceInv, UNCHANGED <<directory, key, access, removed>>,
           NEW q \in Requests, NEW c \in Calls, call' = [call EXCEPT ![q] = c], CallShape(c),
           c.op = "switch" => Entitled(c.by, c.ws), ~c.raced => Fresh(c), calls' \in 0..MaxCalls
    PROVE  WorkspaceInv'
<1>1. /\ UNCHANGED <<users, spaces, role, removed, key, active, access>>
      /\ key' \in [Keys -> [state : {"free", "live", "revoked"}, ws : Spaces \cup {None}]] /\ KeyShape'
      /\ active' \in [Users -> Spaces \cup {None}] /\ access' \subseteq (Users \cup Keys) \X Spaces
  BY DEF WorkspaceInv, WorkspaceTypeOK, KeyShape, directory
<1> QED BY <1>1, RequestMoves

\* A request is answered without touching a table, or given up.
LEMMA RequestEnds ==
    ASSUME WorkspacesAssumption, WorkspaceInv, UNCHANGED <<directory, key, access, removed>>,
           NEW q \in Requests, Answered(q)
    PROVE  WorkspaceInv'
<1>1. call' = [call EXCEPT ![q] = Idle] /\ calls' \in 0..MaxCalls
  BY DEF Answered, Goto, WorkspaceInv, WorkspaceTypeOK
<1> QED BY <1>1, IdleShape, OnlyRequest

LEMMA Counting ==
    ASSUME WorkspacesAssumption, WorkspaceInv, Counted
    PROVE  calls' \in 0..MaxCalls
BY DEF WorkspacesAssumption, WorkspaceInv, WorkspaceTypeOK, Counted

LEMMA Begins ==
    ASSUME WorkspacesAssumption, WorkspaceInv, NEW q \in Requests, Begin(q)
    PROVE  WorkspaceInv'
<1>0. spaces \subseteq Spaces /\ Grants \subseteq Roles /\ Spaces \cap {None} = {} /\ None \notin Users
  BY DEF WorkspacesAssumption, WorkspaceInv, WorkspaceTypeOK, Roles
<1>1. ASSUME NEW c \in Calls, Start(q, c), CallShape(c), c.op = "switch" => Entitled(c.by, c.ws),
             Fresh(c), UNCHANGED <<directory, key, access, removed>>
      PROVE  WorkspaceInv'
  BY <1>1, Counting, OnlyRequest DEF Start
<1>2. ASSUME NEW u \in Users, NEW w \in Spaces, SwitchBegin(q, u, w) PROVE WorkspaceInv'
  <2> DEFINE c == [Idle EXCEPT !.op = "switch", !.pc = "write", !.by = u, !.ws = w]
  <2>1. c \in Calls /\ CallShape(c) /\ Fresh(c) /\ c.by = u /\ c.ws = w
    BY DEF Idle, Calls, Ops, Roles, CallShape, Fresh
  <2>2. Start(q, c) /\ Entitled(u, w) /\ UNCHANGED <<directory, key, access, removed>>
    BY <1>2 DEF SwitchBegin, Entitled
  <2> QED BY <1>1, <2>1, <2>2
<1>3. ASSUME NEW u \in Users, NEW t \in Users, NEW w \in Spaces, NEW r \in Grants, AddBegin(q, u, w, t, r)
      PROVE  WorkspaceInv'
  <2> DEFINE c == [Idle EXCEPT !.op = "add", !.pc = "lookup", !.by = u, !.ws = w, !.target = t, !.role = r]
  <2>1. w \in spaces /\ Start(q, c) /\ UNCHANGED <<directory, key, access, removed>>
    BY <1>3 DEF AddBegin
  <2>2. c \in Calls /\ CallShape(c) /\ Fresh(c) /\ c.op # "switch"
    BY <1>0, <2>1 DEF Idle, Calls, Ops, CallShape, Fresh
  <2> QED BY <1>1, <2>1, <2>2
<1>4. ASSUME NEW u \in Users, NEW t \in Users, NEW w \in Spaces, NEW r \in Grants, UpdateBegin(q, u, w, t, r)
      PROVE  WorkspaceInv'
  <2> DEFINE c == [Idle EXCEPT !.op = "update", !.pc = "current", !.by = u, !.ws = w, !.target = t, !.role = r]
  <2>1. w \in spaces /\ Start(q, c) /\ UNCHANGED <<directory, key, access, removed>>
    BY <1>4 DEF UpdateBegin
  <2>2. c \in Calls /\ CallShape(c) /\ Fresh(c) /\ c.op # "switch"
    BY <1>0, <2>1 DEF Idle, Calls, Ops, CallShape, Fresh
  <2> QED BY <1>1, <2>1, <2>2
<1>5. ASSUME NEW u \in Users, NEW t \in Users, NEW w \in Spaces, RemoveBegin(q, u, w, t) PROVE WorkspaceInv'
  <2> DEFINE c == [Idle EXCEPT !.op = "remove", !.pc = "authorize", !.by = u, !.ws = w, !.target = t,
                              !.seen = role[w][t]]
  <2>1. w \in spaces /\ Start(q, c) /\ UNCHANGED <<directory, key, access, removed>>
    BY <1>5 DEF RemoveBegin
  <2>2. role[w][t] \in Roles \cup {None}
    BY DEF WorkspaceInv, WorkspaceTypeOK
  <2>3. c \in Calls /\ CallShape(c) /\ Fresh(c) /\ c.op # "switch"
    BY <1>0, <2>1, <2>2 DEF Idle, Calls, Ops, CallShape, Fresh
  <2> QED BY <1>1, <2>1, <2>3
<1>6. ASSUME NEW u \in Users, NEW w \in Spaces, NEW k \in Keys, NEW op \in {"createKey", "revokeKey"},
             KeyBegin(q, op, u, w, k)
      PROVE  WorkspaceInv'
  <2> DEFINE c == [Idle EXCEPT !.op = op, !.pc = "write", !.by = u, !.ws = w, !.target = k]
  <2>1. Start(q, c) /\ UNCHANGED <<directory, key, access, removed>>
    BY <1>6 DEF KeyBegin
  <2>2. c \in Calls /\ CallShape(c) /\ Fresh(c) /\ c.op # "switch"
    BY DEF Idle, Calls, Ops, CallShape, Fresh
  <2> QED BY <1>1, <2>1, <2>2
<1>7. ASSUME NEW k \in Keys, ExchangeBegin(q, k) PROVE WorkspaceInv'
  <2> DEFINE c == [Idle EXCEPT !.op = "exchange", !.pc = "write", !.by = k, !.ws = key[k].ws, !.target = k]
  <2>1. Start(q, c) /\ UNCHANGED <<directory, key, access, removed>> /\ key[k].ws \in Spaces
    BY <1>7 DEF ExchangeBegin, verifyAPIKeyString, WorkspaceInv, KeyShape
  <2>2. c \in Calls /\ CallShape(c) /\ Fresh(c) /\ c.op # "switch"
    BY <2>1 DEF Idle, Calls, Ops, CallShape, Fresh
  <2> QED BY <1>1, <2>1, <2>2
<1> QED BY <1>2, <1>3, <1>4, <1>5, <1>6, <1>7 DEF Begin

\* A request goes on: its operation and what it is about stay.
LEMMA GoesOn ==
    ASSUME WorkspacesAssumption, WorkspaceInv, NEW q \in Requests, NEW c \in Calls, Goto(q, c),
           c.op = call[q].op, c.by = call[q].by, c.ws = call[q].ws, c.target = call[q].target,
           c.role = call[q].role, ~c.raced => Fresh(c), UNCHANGED <<directory, key, access, removed>>
    PROVE  WorkspaceInv'
<1>1. call' = [call EXCEPT ![q] = c] /\ calls' \in 0..MaxCalls
  BY DEF Goto, WorkspaceInv, WorkspaceTypeOK
<1>2. CallShape(c) /\ (c.op = "switch" => Entitled(c.by, c.ws))
  BY DEF WorkspaceInv, Shapes, SwitchIsEntitled, CallShape, Entitled
<1> QED BY <1>1, <1>2, OnlyRequest

\* Moving to another step of the handler keeps the fields.
LEMMA NextStage ==
    ASSUME NEW c \in Calls, NEW pc \in {"idle", "lookup", "current", "authorize", "count", "write"},
           NEW d, d = [c EXCEPT !.pc = pc]
    PROVE  /\ d \in Calls /\ d.pc = pc
           /\ d.op = c.op /\ d.by = c.by /\ d.ws = c.ws /\ d.target = c.target /\ d.role = c.role
           /\ d.seen = c.seen /\ d.raced = c.raced
BY DEF Calls

LEMMA SwitchStep ==
    ASSUME WorkspacesAssumption, WorkspaceInv, NEW q \in Requests, SwitchWrite(q)
    PROVE  WorkspaceInv'
<1>1. call[q].by \in Users /\ call[q].ws \in Spaces /\ Entitled(call[q].by, call[q].ws)
  BY DEF SwitchWrite, At, WorkspaceInv, Shapes, CallShape, SwitchIsEntitled
<1>2. /\ call' = [call EXCEPT ![q] = Idle] /\ calls' \in 0..MaxCalls
      /\ UNCHANGED <<users, spaces, role, key, removed>>
      /\ active' = [active EXCEPT ![call[q].by] = call[q].ws]
      /\ access' = access \cup {<<call[q].by, call[q].ws>>} \/ access' = access
  BY DEF SwitchWrite, SetActiveWorkspace, Mint, Answered, Goto, WorkspaceInv, WorkspaceTypeOK
<1>3. /\ key' \in [Keys -> [state : {"free", "live", "revoked"}, ws : Spaces \cup {None}]] /\ KeyShape'
      /\ active' \in [Users -> Spaces \cup {None}] /\ access' \subseteq (Users \cup Keys) \X Spaces
  BY <1>1, <1>2 DEF WorkspaceInv, WorkspaceTypeOK, KeyShape
<1>4. /\ \A u \in Users, w \in Spaces : active'[u] = w => active[u] = w \/ Entitled(u, w)
      /\ \A u \in Users, w \in Spaces : <<u, w>> \in access' => <<u, w>> \in access \/ Entitled(u, w)
  BY <1>1, <1>2 DEF WorkspaceInv, WorkspaceTypeOK
<1> QED BY <1>2, <1>3, <1>4, IdleShape, RequestMoves

LEMMA AddSteps ==
    ASSUME WorkspacesAssumption, WorkspaceInv, NEW q \in Requests, AddLookup(q) \/ AddWrite(q)
    PROVE  WorkspaceInv'
<1>0. /\ call[q] \in Calls /\ call[q].op = "add" /\ call[q].ws \in Spaces /\ call[q].target \in Users
      /\ call[q].role \in Roles /\ None \notin Roles
  BY DEF AddLookup, AddWrite, At, WorkspacesAssumption, WorkspaceInv, WorkspaceTypeOK, Shapes, CallShape, Roles
<1>1. CASE AddLookup(q)
  <2>1. UNCHANGED <<directory, key, access, removed>>
    BY <1>1 DEF AddLookup
  <2>2. CASE Answered(q)
    BY <2>1, <2>2, RequestEnds
  <2>3. CASE Goto(q, [call[q] EXCEPT !.pc = "write"])
    <3> DEFINE c == [call[q] EXCEPT !.pc = "write"]
    <3>1. c \in Calls /\ c.op = "add" /\ c.by = call[q].by /\ c.ws = call[q].ws
          /\ c.target = call[q].target /\ c.role = call[q].role
      BY <1>0, NextStage
    <3>2. Fresh(c)
      BY <3>1 DEF Fresh
    <3> QED BY <1>0, <2>1, <2>3, <3>1, <3>2, GoesOn
  <2> QED BY <1>1, <2>2, <2>3 DEF AddLookup
<1>2. CASE AddWrite(q)
  <2>1. UNCHANGED <<users, spaces, active, key, access, removed>>
    BY <1>2 DEF AddWrite
  <2>2. CASE AddMember(call[q].ws, call[q].target, call[q].role) /\ Changed(q, call[q].ws)
    <3>1. removed' \subseteq Spaces \X Users
      BY <2>1 DEF WorkspaceInv, WorkspaceTypeOK
    <3> QED BY <1>0, <2>1, <2>2, <3>1, MembershipChanges DEF AddMember
  <2>3. CASE Answered(q) /\ UNCHANGED role
    BY <2>1, <2>3, RequestEnds DEF directory
  <2> QED BY <1>2, <2>2, <2>3 DEF AddWrite
<1> QED BY <1>1, <1>2

\* GetMembership of the target is fresh; so is what follows from it.
LEMMA UpdateCurrentStep ==
    ASSUME WorkspacesAssumption, WorkspaceInv, NEW q \in Requests, UpdateCurrent(q)
    PROVE  WorkspaceInv'
<1> DEFINE current == role[call[q].ws][call[q].target]
           pc == IF current = "owner" /\ call[q].role # "owner" THEN "count" ELSE "write"
           c == [call[q] EXCEPT !.raced = FALSE, !.pc = pc]
<1>0. call[q] \in Calls /\ call[q].op = "update" /\ UNCHANGED <<directory, key, access, removed>>
  BY DEF UpdateCurrent, At, WorkspaceInv, WorkspaceTypeOK
<1>1. CASE Answered(q)
  BY <1>0, <1>1, RequestEnds
<1>2. CASE Goto(q, c)
  <2>1. /\ c \in Calls /\ c.op = "update" /\ c.by = call[q].by /\ c.ws = call[q].ws
        /\ c.target = call[q].target /\ c.role = call[q].role /\ c.pc = pc
    <3>1. pc \in {"idle", "lookup", "current", "authorize", "count", "write"}
      OBVIOUS
    <3> HIDE DEF pc
    <3> QED BY <1>0, <3>1 DEF Calls
  <2>2. Fresh(c)
    BY <2>1 DEF Fresh
  <2> QED BY <1>0, <1>2, <2>1, <2>2, GoesOn
<1> QED BY <1>1, <1>2 DEF UpdateCurrent

\* CountOwners: whoever goes on has seen a second owner.
LEMMA CountSteps ==
    ASSUME WorkspacesAssumption, WorkspaceInv, NEW q \in Requests, CountStep(q)
    PROVE  WorkspaceInv'
<1> DEFINE c == [call[q] EXCEPT !.pc = "write"]
<1>0. /\ call[q] \in Calls /\ call[q].op \in {"update", "remove"} /\ UNCHANGED <<directory, key, access, removed>>
      /\ call[q].ws \in Spaces /\ call[q].target \in Users
  BY DEF CountStep, WorkspaceInv, WorkspaceTypeOK, Shapes, CallShape
<1>1. CASE Answered(q)
  BY <1>0, <1>1, RequestEnds
<1>2. CASE ~(CountOwners(call[q].ws) <= 1) /\ Goto(q, c)
  <2>1. /\ c \in Calls /\ c.op = call[q].op /\ c.by = call[q].by /\ c.ws = call[q].ws
        /\ c.target = call[q].target /\ c.role = call[q].role /\ c.pc = "write"
    BY <1>0, NextStage
  <2>2. \E o \in Users \ {call[q].target} : role[call[q].ws][o] = "owner"
    BY <1>0, <1>2, AnotherOwner
  <2>3. Fresh(c)
    BY <2>1, <2>2 DEF Fresh
  <2> QED BY <1>0, <1>2, <2>1, <2>3, GoesOn
<1> QED BY <1>1, <1>2 DEF CountStep

LEMMA UpdateWriteStep ==
    ASSUME WorkspacesAssumption, WorkspaceInv, NEW q \in Requests, UpdateWrite(q)
    PROVE  WorkspaceInv'
<1>0. /\ call[q].ws \in Spaces /\ call[q].target \in Users /\ call[q].role \in Roles /\ None \notin Roles
      /\ UNCHANGED <<users, spaces, active, key, access, removed>> /\ removed' \subseteq Spaces \X Users
  BY DEF UpdateWrite, At, WorkspacesAssumption, WorkspaceInv, WorkspaceTypeOK, Shapes, CallShape, Roles
<1>1. CASE UpdateMemberRole(call[q].ws, call[q].target, call[q].role) /\ Changed(q, call[q].ws)
  BY <1>0, <1>1, MembershipChanges DEF UpdateMemberRole
<1>2. CASE Answered(q) /\ UNCHANGED role
  BY <1>0, <1>2, RequestEnds DEF directory
<1> QED BY <1>1, <1>2 DEF UpdateWrite

LEMMA RemoveSteps ==
    ASSUME WorkspacesAssumption, WorkspaceInv, NEW q \in Requests, RemoveAuthorize(q) \/ RemoveWrite(q)
    PROVE  WorkspaceInv'
<1>0. call[q] \in Calls /\ call[q].op = "remove" /\ call[q].ws \in Spaces /\ call[q].target \in Users
  BY DEF RemoveAuthorize, RemoveWrite, At, WorkspaceInv, WorkspaceTypeOK, Shapes, CallShape
<1>1. CASE RemoveAuthorize(q)
  <2> DEFINE pc == IF call[q].seen = "owner" THEN "count" ELSE "write"
             c == [call[q] EXCEPT !.pc = pc]
  <2>1. UNCHANGED <<directory, key, access, removed>> /\ call[q].pc = "authorize"
    BY <1>1 DEF RemoveAuthorize, At
  <2>2. CASE Answered(q)
    BY <2>1, <2>2, RequestEnds
  <2>3. CASE Goto(q, c)
    <3>1. /\ c \in Calls /\ c.op = call[q].op /\ c.by = call[q].by /\ c.ws = call[q].ws
          /\ c.target = call[q].target /\ c.role = call[q].role /\ c.pc = pc /\ c.raced = call[q].raced
      BY <1>0, NextStage
    <3>2. ~call[q].raced => role[call[q].ws][call[q].target] = call[q].seen
      BY <1>0, <2>1 DEF WorkspaceInv, ReadsHold, Fresh
    <3>3. ~c.raced => Fresh(c)
      BY <1>0, <3>1, <3>2 DEF Fresh
    <3> QED BY <1>0, <2>1, <2>3, <3>1, <3>3, GoesOn
  <2> QED BY <1>1, <2>2, <2>3 DEF RemoveAuthorize
<1>2. CASE RemoveWrite(q)
  <2>1. UNCHANGED <<users, spaces, active, key, access>>
    BY <1>2 DEF RemoveWrite
  <2>2. CASE /\ RemoveMember(call[q].ws, call[q].target) /\ Changed(q, call[q].ws)
             /\ removed' = removed \cup {<<call[q].ws, call[q].target>>}
    <3>1. removed \subseteq removed' /\ removed' \subseteq Spaces \X Users
          /\ <<call[q].ws, call[q].target>> \in removed'
      BY <1>0, <2>2 DEF WorkspaceInv, WorkspaceTypeOK
    <3> QED BY <1>0, <2>1, <2>2, <3>1, MembershipChanges DEF RemoveMember
  <2>3. CASE Answered(q) /\ UNCHANGED <<role, removed>>
    BY <2>1, <2>3, RequestEnds DEF directory
  <2> QED BY <1>2, <2>2, <2>3 DEF RemoveWrite
<1> QED BY <1>1, <1>2

LEMMA KeySteps ==
    ASSUME WorkspacesAssumption, WorkspaceInv, NEW q \in Requests, CreateAPIKey(q) \/ RevokeAPIKey(q)
    PROVE  WorkspaceInv'
<1>0. call[q].target \in Keys /\ call[q].ws \in Spaces
  BY DEF CreateAPIKey, RevokeAPIKey, At, WorkspaceInv, Shapes, CallShape
<1>1. /\ call' = [call EXCEPT ![q] = Idle] /\ calls' \in 0..MaxCalls
      /\ UNCHANGED <<users, spaces, role, active, access, removed>>
  BY DEF CreateAPIKey, RevokeAPIKey, Answered, Goto, directory, WorkspaceInv, WorkspaceTypeOK
<1>2. /\ key' \in [Keys -> [state : {"free", "live", "revoked"}, ws : Spaces \cup {None}]] /\ KeyShape'
      /\ active' \in [Users -> Spaces \cup {None}] /\ access' \subseteq (Users \cup Keys) \X Spaces
  <2>1. /\ key \in [Keys -> [state : {"free", "live", "revoked"}, ws : Spaces \cup {None}]] /\ KeyShape
        /\ active' \in [Users -> Spaces \cup {None}] /\ access' \subseteq (Users \cup Keys) \X Spaces
    BY <1>1 DEF WorkspaceInv, WorkspaceTypeOK
  <2>2. CASE CreateAPIKey(q)
    BY <1>0, <2>1, <2>2 DEF CreateAPIKey, KeyShape
  <2>3. CASE RevokeAPIKey(q)
    BY <1>0, <2>1, <2>3 DEF RevokeAPIKey, KeyShape
  <2> QED BY <2>1, <2>2, <2>3
<1> QED BY <1>1, <1>2, IdleShape, RequestMoves

LEMMA ExchangeStep ==
    ASSUME WorkspacesAssumption, WorkspaceInv, NEW q \in Requests, ExchangeMint(q)
    PROVE  WorkspaceInv'
<1>0. call[q].by \in Keys /\ call[q].ws \in Spaces /\ Users \cap Keys = {}
  BY DEF ExchangeMint, At, WorkspacesAssumption, WorkspaceInv, Shapes, CallShape
<1>1. /\ call' = [call EXCEPT ![q] = Idle] /\ calls' \in 0..MaxCalls
      /\ UNCHANGED <<users, spaces, role, active, key, removed>>
      /\ access' = access \cup {<<call[q].by, call[q].ws>>}
  BY DEF ExchangeMint, Mint, Answered, Goto, directory, WorkspaceInv, WorkspaceTypeOK
<1>2. /\ key' \in [Keys -> [state : {"free", "live", "revoked"}, ws : Spaces \cup {None}]] /\ KeyShape'
      /\ active' \in [Users -> Spaces \cup {None}] /\ access' \subseteq (Users \cup Keys) \X Spaces
      /\ \A u \in Users, w \in Spaces : <<u, w>> \in access' => <<u, w>> \in access
  BY <1>0, <1>1 DEF WorkspaceInv, WorkspaceTypeOK, KeyShape
<1> QED BY <1>1, <1>2, IdleShape, RequestMoves

LEMMA HandlersKeep ==
    ASSUME WorkspacesAssumption, WorkspaceInv, Handlers
    PROVE  WorkspaceInv'
<1>1. ASSUME NEW q \in Requests, Begin(q) \/ Continue(q) \/ Abort(q) PROVE WorkspaceInv'
  <2>1. CASE Abort(q)
    BY <2>1, RequestEnds DEF Abort
  <2>2. CASE Continue(q)
    BY <2>2, SwitchStep, AddSteps, UpdateCurrentStep, CountSteps, UpdateWriteStep, RemoveSteps,
       KeySteps, ExchangeStep DEF Continue
  <2> QED BY <1>1, <2>1, <2>2, Begins
<1>2. ASSUME NEW u \in Users, NEW w \in Spaces, handleCreateWorkspace(u, w) PROVE WorkspaceInv'
  <2>1. /\ CreateWorkspace(w, u) /\ Counted /\ users' \subseteq Users
        /\ UNCHANGED <<active, key, access, call, removed>>
    BY <1>2 DEF handleCreateWorkspace, WorkspaceInv, WorkspaceTypeOK
  <2> QED BY <2>1, Counting, WorkspaceAdded
<1> QED BY <1>1, <1>2 DEF Handlers

LEMMA ExpireKeeps ==
    ASSUME WorkspacesAssumption, WorkspaceInv, NEW token \in access, Expire(token)
    PROVE  WorkspaceInv'
BY DEF WorkspaceInv, WorkspaceTypeOK, Shapes, CallShape, KeyShape, SwitchIsEntitled, Entitled, ReadsHold,
       Fresh, ScopeIsMembership, Expire, directory

LEMMA WorkspaceStutter ==
    ASSUME WorkspaceInv, UNCHANGED workspaceVars
    PROVE  WorkspaceInv'
BY DEF WorkspaceInv, WorkspaceTypeOK, Shapes, CallShape, KeyShape, SwitchIsEntitled, Entitled, ReadsHold,
       Fresh, ScopeIsMembership, workspaceVars

LEMMA WorkspaceInitially ==
    ASSUME WorkspacesAssumption, WorkspaceInit
    PROVE  WorkspaceInv
<1>1. WorkspaceTypeOK
  BY IdleShape DEF WorkspacesAssumption, WorkspaceInit, WorkspaceTypeOK, NoKey, Roles
<1>2. Shapes /\ KeyShape /\ SwitchIsEntitled /\ ReadsHold
  BY IdleShape DEF WorkspaceInit, Shapes, KeyShape, SwitchIsEntitled, ReadsHold, NoKey
<1>3. ScopeIsMembership
  BY DEF WorkspacesAssumption, WorkspaceInit, ScopeIsMembership
<1> QED BY <1>1, <1>2, <1>3 DEF WorkspaceInv

LEMMA WorkspaceInvariance == WorkspaceSpec => []WorkspaceInv
<1>1. WorkspaceInit => WorkspaceInv
  BY WorkspaceInitially, WorkspacesAssumption
<1>2. WorkspaceInv /\ [WorkspaceNext]_workspaceVars => WorkspaceInv'
  BY HandlersKeep, ExpireKeeps, WorkspaceStutter, WorkspacesAssumption DEF WorkspaceNext
<1> QED BY <1>1, <1>2, PTL DEF WorkspaceSpec

\* Whatever is in flight when memberships change, an access token and the
\* active workspace of a person name a workspace the person belongs to or was
\* removed from.
THEOREM TokensWithinMembership == WorkspaceSpec => []ScopeIsMembership
<1>1. WorkspaceInv => ScopeIsMembership
  BY DEF WorkspaceInv
<1> QED BY <1>1, WorkspaceInvariance, PTL

-----------------------------------------------------------------------------
(* Revocation.                                                             *)

\* A request that goes on does so on behalf of the same caller.
LEMMA RequestsEvolve ==
    ASSUME WorkspaceInv, NEW q \in Requests, Continue(q) \/ Abort(q), NEW p \in Requests
    PROVE  call'[p].op = "none" \/ (call'[p].op = call[p].op /\ call'[p].by = call[p].by)
<1>0. call \in [Requests -> Calls] /\ call[q] \in Calls
  BY DEF WorkspaceInv, WorkspaceTypeOK
<1>1. CASE Answered(q)
  BY <1>0, <1>1, IdleShape DEF Answered, Goto
<1>2. ASSUME NEW w, Changed(q, w)
      PROVE  call'[p].op = "none" \/ (call'[p].op = call[p].op /\ call'[p].by = call[p].by)
  BY <1>0, <1>2, IdleShape, Overtaken DEF Changed
<1>3. ASSUME NEW pc, Goto(q, [call[q] EXCEPT !.pc = pc])
      PROVE  call'[p].op = call[p].op /\ call'[p].by = call[p].by
  BY <1>0, <1>3 DEF Goto, Calls
<1>4. ASSUME NEW pc, Goto(q, [call[q] EXCEPT !.raced = FALSE, !.pc = pc])
      PROVE  call'[p].op = call[p].op /\ call'[p].by = call[p].by
  BY <1>0, <1>4 DEF Goto, Calls
<1>5. \/ Answered(q)
      \/ \E w : Changed(q, w)
      \/ \E pc : Goto(q, [call[q] EXCEPT !.pc = pc])
      \/ \E pc : Goto(q, [call[q] EXCEPT !.raced = FALSE, !.pc = pc])
  BY DEF Continue, SwitchWrite, AddLookup, AddWrite, UpdateCurrent, CountStep, UpdateWrite,
         RemoveAuthorize, RemoveWrite, CreateAPIKey, RevokeAPIKey, ExchangeMint, Abort
<1> QED BY <1>1, <1>2, <1>3, <1>4, <1>5

LEMMA DeadKept ==
    ASSUME WorkspacesAssumption, WorkspaceInv, Handlers, NEW k \in Keys, Dead(k)
    PROVE  Dead(k)'
<1>0. /\ key[k].state = "revoked" /\ k \notin Users /\ Idle.op = "none"
      /\ \A w \in Spaces : <<k, w>> \notin access
      /\ \A q \in Requests : call[q].op = "exchange" => call[q].by # k
      /\ key \in [Keys -> [state : {"free", "live", "revoked"}, ws : Spaces \cup {None}]]
      /\ call \in [Requests -> Calls]
  BY IdleShape DEF WorkspacesAssumption, WorkspaceInv, WorkspaceTypeOK, Dead
<1>1. ASSUME key'[k].state = "revoked", \A w \in Spaces : <<k, w>> \notin access',
             \A q \in Requests : call'[q].op = "exchange" => call'[q].by # k
      PROVE  Dead(k)'
  BY <1>1 DEF Dead
<1>2. ASSUME NEW q \in Requests, Begin(q) PROVE Dead(k)'
  <2>1. UNCHANGED <<key, access>>
    BY <1>2 DEF Begin, SwitchBegin, AddBegin, UpdateBegin, RemoveBegin, KeyBegin, ExchangeBegin
  <2>2. /\ \A p \in Requests \ {q} : call'[p] = call[p]
        /\ call'[q].op = "exchange" => call'[q].by # k
    <3>1. ASSUME NEW c, Start(q, c), c.op = "exchange" => c.by # k
          PROVE  /\ \A p \in Requests \ {q} : call'[p] = call[p]
                 /\ call'[q].op = "exchange" => call'[q].by # k
      BY <1>0, <3>1 DEF Start
    <3>2. CASE \E u \in Users, w \in Spaces : SwitchBegin(q, u, w)
      BY <3>1, <3>2 DEF SwitchBegin, Idle
    <3>3. CASE \E u, t \in Users, w \in Spaces, r \in Grants : AddBegin(q, u, w, t, r)
      BY <3>1, <3>3 DEF AddBegin, Idle
    <3>4. CASE \E u, t \in Users, w \in Spaces, r \in Grants : UpdateBegin(q, u, w, t, r)
      BY <3>1, <3>4 DEF UpdateBegin, Idle
    <3>5. CASE \E u, t \in Users, w \in Spaces : RemoveBegin(q, u, w, t)
      BY <3>1, <3>5 DEF RemoveBegin, Idle
    <3>6. CASE \E u \in Users, w \in Spaces :
                  \E j \in Keys, op \in {"createKey", "revokeKey"} : KeyBegin(q, op, u, w, j)
      BY <3>1, <3>6 DEF KeyBegin, Idle
    <3>7. CASE \E j \in Keys : ExchangeBegin(q, j)
      BY <1>0, <3>1, <3>7 DEF ExchangeBegin, verifyAPIKeyString, Idle
    <3> QED BY <1>2, <3>2, <3>3, <3>4, <3>5, <3>6, <3>7 DEF Begin
  <2> QED BY <1>0, <1>1, <2>1, <2>2
<1>3. ASSUME NEW q \in Requests, Continue(q) \/ Abort(q) PROVE Dead(k)'
  <2>1. key'[k].state = "revoked"
    BY <1>0, <1>3 DEF Continue, SwitchWrite, AddLookup, AddWrite, UpdateCurrent, CountStep, UpdateWrite,
           RemoveAuthorize, RemoveWrite, CreateAPIKey, RevokeAPIKey, ExchangeMint, Abort
  <2>2. \A w \in Spaces : <<k, w>> \notin access'
    BY <1>0, <1>3 DEF Continue, SwitchWrite, AddLookup, AddWrite, UpdateCurrent, CountStep, UpdateWrite,
           RemoveAuthorize, RemoveWrite, CreateAPIKey, RevokeAPIKey, ExchangeMint, Abort, Mint, At,
           WorkspaceInv, Shapes, CallShape
  <2>3. \A p \in Requests : call'[p].op = "exchange" => call'[p].by # k
    BY <1>0, <1>3, RequestsEvolve
  <2> QED BY <1>1, <2>1, <2>2, <2>3
<1>4. ASSUME NEW u \in Users, NEW w \in Spaces, handleCreateWorkspace(u, w) PROVE Dead(k)'
  BY <1>0, <1>1, <1>4 DEF handleCreateWorkspace
<1> QED BY <1>2, <1>3, <1>4 DEF Handlers

\* Once the tokens of a revoked key have expired and no exchange that began
\* before is left, the key never gives access again.
THEOREM RevocationIsFinal == WorkspaceSpec => RevokedKeyIsDead
<1>1. ASSUME WorkspaceInv, [WorkspaceNext]_workspaceVars, NEW k \in Keys, Dead(k) PROVE Dead(k)'
  <2>1. CASE UNCHANGED workspaceVars
    BY <1>1, <2>1 DEF Dead, workspaceVars
  <2>2. CASE \E token \in access : Expire(token)
    BY <1>1, <2>2 DEF Dead, Expire
  <2> QED BY <1>1, <2>1, <2>2, DeadKept, WorkspacesAssumption DEF WorkspaceNext
<1>2. WorkspaceInv /\ [WorkspaceNext]_workspaceVars
          => [\A k \in Keys : Dead(k) => Dead(k)']_workspaceVars
  BY <1>1
<1> QED BY <1>2, WorkspaceInvariance, PTL DEF WorkspaceSpec, RevokedKeyIsDead

-----------------------------------------------------------------------------
(* The last owner.                                                         *)

\* The step that takes the last owner of w is the write of a demotion or a
\* removal; what ReadsHold says of a request that was not overtaken would
\* leave another owner.
LEMMA LastOwnerStep ==
    ASSUME WorkspacesAssumption, WorkspaceInv, Handlers, NEW w \in Spaces, Owners(w) # {}, Owners(w)' = {}
    PROVE  \E q \in Requests : call[q].raced /\ call[q].ws = w /\ call'[q] = Idle
<1>0. PICK o \in Users : role[w][o] = "owner" /\ role'[w][o] # "owner"
  BY DEF Owners
<1>1. ASSUME NEW u \in Users, NEW v \in Spaces, handleCreateWorkspace(u, v) PROVE FALSE
  BY <1>0, <1>1 DEF handleCreateWorkspace, CreateWorkspace, WorkspaceInv, WorkspaceTypeOK
<1>2. PICK q \in Requests : Begin(q) \/ Continue(q) \/ Abort(q)
  BY <1>1 DEF Handlers
<1>3. AddWrite(q) \/ UpdateWrite(q) \/ RemoveWrite(q)
  BY <1>0, <1>2 DEF Begin, SwitchBegin, AddBegin, UpdateBegin, RemoveBegin, KeyBegin, ExchangeBegin,
         Continue, SwitchWrite, AddLookup, UpdateCurrent, CountStep, RemoveAuthorize, CreateAPIKey,
         RevokeAPIKey, ExchangeMint, Abort, directory
<1>4. /\ call[q].ws \in Spaces /\ call[q].target \in Users /\ Changed(q, call[q].ws)
      /\ \E r \in Roles \cup {None} : role' = [role EXCEPT ![call[q].ws][call[q].target] = r]
      /\ AddWrite(q) => role[call[q].ws][call[q].target] = None
  BY <1>0, <1>3 DEF AddWrite, UpdateWrite, RemoveWrite, AddMember, UpdateMemberRole, RemoveMember, At,
         WorkspaceInv, WorkspaceTypeOK, Shapes, CallShape
<1>5. /\ call[q].ws = w /\ call[q].target = o
      /\ \A u \in Users \ {o} : role'[w][u] = role[w][u]
  BY <1>0, <1>4, MembershipWritten DEF WorkspaceInv, WorkspaceTypeOK
<1>6. ~AddWrite(q)
  BY <1>0, <1>4, <1>5 DEF WorkspacesAssumption
<1>7. call'[q] = Idle
  BY <1>4 DEF Changed
<1>8. CASE ~call[q].raced
  <2>1. /\ call[q].pc = "write" /\ role[call[q].ws][call[q].target] = "owner"
        /\ call[q].op = "remove" \/ (call[q].op = "update" /\ call[q].role # "owner")
    BY <1>0, <1>3, <1>5, <1>6 DEF UpdateWrite, RemoveWrite, UpdateMemberRole, At, WorkspaceInv, WorkspaceTypeOK
  <2>2. \E u \in Users \ {o} : role[w][u] = "owner"
    BY <1>5, <1>8, <2>1 DEF WorkspaceInv, ReadsHold, Fresh
  <2> QED BY <1>5, <2>2 DEF Owners
<1> QED BY <1>5, <1>7, <1>8

\* The 409 for the last owner fails only when another request changed the
\* workspace between the reads of this one and its write.
THEOREM LastOwnerOnlyRaced == WorkspaceSpec => LastOwnerNeedsRace
<1>1. ASSUME WorkspaceInv, [WorkspaceNext]_workspaceVars, NEW w \in Spaces, Owners(w) # {}, Owners(w)' = {}
      PROVE  \E q \in Requests : call[q].raced /\ call[q].ws = w /\ call'[q] = Idle
  <2>1. CASE UNCHANGED workspaceVars
    BY <1>1, <2>1 DEF Owners, workspaceVars
  <2>2. CASE \E token \in access : Expire(token)
    BY <1>1, <2>2 DEF Owners, Expire, directory
  <2> QED BY <1>1, <2>1, <2>2, LastOwnerStep, WorkspacesAssumption DEF WorkspaceNext
<1>2. WorkspaceInv /\ [WorkspaceNext]_workspaceVars
          => [\A w \in Spaces : Owners(w) # {} /\ Owners(w)' = {} =>
                 \E q \in Requests : call[q].raced /\ call[q].ws = w /\ call'[q] = Idle]_workspaceVars
  BY <1>1
<1> QED BY <1>2, WorkspaceInvariance, PTL DEF WorkspaceSpec, LastOwnerNeedsRace

-----------------------------------------------------------------------------
(* For the modules that run beside the handlers.                           *)

\* Who was a member once stays entitled in the sense of ScopeIsMembership.
LEMMA EntitledKept ==
    ASSUME WorkspacesAssumption, WorkspaceInv, Handlers, NEW u \in Users, NEW w \in Spaces, Entitled(u, w)
    PROVE  Entitled(u, w)'
<1>1. removed \subseteq removed'
  <2>1. ASSUME NEW q \in Requests, Begin(q) PROVE removed \subseteq removed'
    BY <2>1 DEF Begin, SwitchBegin, AddBegin, UpdateBegin, RemoveBegin, KeyBegin, ExchangeBegin
  <2>2. ASSUME NEW q \in Requests, Continue(q) \/ Abort(q) PROVE removed \subseteq removed'
    BY <2>2 DEF Continue, SwitchWrite, AddLookup, AddWrite, UpdateCurrent, CountStep, UpdateWrite,
           RemoveAuthorize, RemoveWrite, CreateAPIKey, RevokeAPIKey, ExchangeMint, Abort
  <2> QED BY <2>1, <2>2 DEF Handlers, handleCreateWorkspace
<1> SUFFICES ASSUME role[w][u] # None, role'[w][u] = None
             PROVE  <<w, u>> \in removed'
  BY <1>1 DEF Entitled
<1>2. ASSUME NEW t \in Users, NEW v \in Spaces, handleCreateWorkspace(t, v) PROVE FALSE
  BY <1>2 DEF handleCreateWorkspace, CreateWorkspace, WorkspaceInv, WorkspaceTypeOK, WorkspacesAssumption
<1>3. PICK q \in Requests : Begin(q) \/ Continue(q) \/ Abort(q)
  BY <1>2 DEF Handlers
<1>4. AddWrite(q) \/ UpdateWrite(q) \/ RemoveWrite(q)
  BY <1>3 DEF Begin, SwitchBegin, AddBegin, UpdateBegin, RemoveBegin, KeyBegin, ExchangeBegin,
         Continue, SwitchWrite, AddLookup, UpdateCurrent, CountStep, RemoveAuthorize, CreateAPIKey,
         RevokeAPIKey, ExchangeMint, Abort, directory
<1>5. /\ call[q].ws \in Spaces /\ call[q].target \in Users
      /\ AddWrite(q) \/ UpdateWrite(q) => call[q].role \in Roles
  BY <1>4 DEF AddWrite, UpdateWrite, RemoveWrite, At, WorkspaceInv, WorkspaceTypeOK, Shapes, CallShape
<1>6. \E r \in Roles \cup {None} : /\ role' = [role EXCEPT ![call[q].ws][call[q].target] = r]
                                   /\ r = None => RemoveWrite(q)
  BY <1>4, <1>5 DEF AddWrite, UpdateWrite, RemoveWrite, AddMember, UpdateMemberRole, RemoveMember,
         WorkspacesAssumption, Roles
<1>7. RemoveWrite(q) /\ call[q].ws = w /\ call[q].target = u
  BY <1>5, <1>6, MembershipWritten DEF WorkspaceInv, WorkspaceTypeOK
<1> QED BY <1>7 DEF RemoveWrite

\* A sign-in adds a user, sets an active workspace or mints a token.
LEMMA DirectoryGrows ==
    ASSUME WorkspaceInv, UNCHANGED <<spaces, role, key, call, removed, calls>>, users' \subseteq Users,
           active' \in [Users -> Spaces \cup {None}], access' \subseteq (Users \cup Keys) \X Spaces,
           \A u \in Users, w \in Spaces : active'[u] = w => active[u] = w \/ Entitled(u, w),
           \A u \in Users, w \in Spaces : <<u, w>> \in access' => <<u, w>> \in access \/ Entitled(u, w)
    PROVE  WorkspaceInv'
<1>1. WorkspaceTypeOK' /\ Shapes' /\ KeyShape' /\ SwitchIsEntitled' /\ ReadsHold'
  BY DEF WorkspaceInv, WorkspaceTypeOK, Shapes, CallShape, KeyShape, SwitchIsEntitled, Entitled, ReadsHold, Fresh
<1>2. ScopeIsMembership'
  BY DEF WorkspaceInv, ScopeIsMembership, Entitled
<1> QED BY <1>1, <1>2 DEF WorkspaceInv
=============================================================================
