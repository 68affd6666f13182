------------------------------ MODULE Sessions ------------------------------
(***************************************************************************)
(* Use of product sessions and administration of users and roles: every    *)
(* protected call authorises its session, a logout revokes it, and         *)
(* administrators change user status and role assignments meanwhile.       *)
(*                                                                         *)
(* A transaction of the identity store takes row locks as it goes and      *)
(* keeps them to its end.  Sessions, users and role rows are read FOR      *)
(* UPDATE; an inserted row locks every row its foreign keys name FOR KEY   *)
(* SHARE, which waits for a FOR UPDATE and makes one wait.  A transaction  *)
(* is one action per lock it may wait for; what it writes becomes visible  *)
(* with its commit.  An exception rolls back, so the audit row of a denied *)
(* call and the revocation of an idle session are never stored: a denied   *)
(* call changes nothing.  PostgreSQL aborts one transaction of a cycle of  *)
(* waiters.  Sessions are the ones earlier confirmations created.          *)
(***************************************************************************)
EXTENDS Integers

CONSTANTS
    Users,      \* product_users
    Tokens,     \* session tokens, one product_sessions row each
    Clients,    \* threads that run a call
    Owner,      \* the user of each session
    System,     \* no actor: an operator's own tooling
    Unowned,     \* a resource without an owner
    Actions,    \* the protected actions tried
    RolesGiven, \* the roles administrators change
    IdleTime,   \* seven days, in ticks
    LastTick,    \* bound on the clock
    MaxRows     \* bound on active assignments of one role to one user

Roles == {"user", "operator", "administrator"}

ASSUME SessionAssumption ==
    /\ Owner \in [Tokens -> Users]
    /\ System \notin Users /\ Unowned \notin Users
    /\ RolesGiven \subseteq Roles
    /\ IdleTime \in Nat \ {0} /\ LastTick \in Nat /\ MaxRows \in Nat \ {0}

VARIABLES
    clock,       \* the clock
    status,    \* status of each user
    assigned,  \* number of active role_assignments of each user and role
    sessions,   \* revocation and last activity of each session
    client     \* the call each client is in

sessionVars == <<clock, status, assigned, sessions, client>>

-----------------------------------------------------------------------------
(* The policy                                                              *)

OpenActions ==
    {"auth.session.read", "auth.session.logout", "product.resource.create",
     "product.search_profile.create", "product.events.emit"}
OwnedActions ==
    {"product.resource.read", "product.resource.update", "product.resource.delete",
     "product.search_profile.read", "product.search_profile.update",
     "product.search_profile.status", "product.matches.read",
     "product.explanation.read", "product.comparison.read",
     "product.comparison.write", "product.listing.read"}
OperatorActions ==
    {"ops.identity.conflict.review", "ops.identity.invitation.preload",
     "ops.ingestion.batch.submit", "ops.ingestion.run.read",
     "ops.ingestion.quality.read"}
AdministratorActions ==
    {"admin.identity.user.status.change", "admin.identity.role.change"}

(* The roles of ACTION_RULES; an unknown action and the bootstrap have none. *)
AllowedRoles(action) ==
    CASE action \in OpenActions \cup OwnedActions -> Roles
      [] action \in OperatorActions -> {"operator", "administrator"}
      [] action \in AdministratorActions -> {"administrator"}
      [] OTHER -> {}

ActiveRoles(u) == {r \in Roles : assigned[u][r] > 0}

(* authorize_roles: ownership first, then the roles.                       *)
Permitted(u, action, owner) ==
    /\ action \in OwnedActions => owner = u
    /\ ActiveRoles(u) \cap AllowedRoles(action) # {}

IsAdministrator(u) ==
    status[u] = "active" /\ "administrator" \in ActiveRoles(u)

-----------------------------------------------------------------------------
(* Calls and row locks                                                     *)

SessionRow(t) == <<"session", t>>
UserRow(u) == <<"user", u>>
RoleRows(u, r) == <<"role", u, r>>

Rows ==
    {SessionRow(t) : t \in Tokens} \cup {UserRow(u) : u \in Users}
      \cup {RoleRows(u, r) : u \in Users, r \in Roles}

Locks == Rows \X {"update", "share"}

Idle == [pc |-> "idle", held |-> {}]

(* A client at pc waits for the row it Wants; `held` are its locks.  The   *)
(* other fields are the arguments of its call.                             *)
Authorizing ==
    [pc : {"session", "user"}, held : SUBSET Locks, call : {"authorize"},
     token : Tokens, at : 0..LastTick]
Allowed ==
    [pc : {"allowed"}, held : SUBSET Locks, call : {"authorize"},
     token : Tokens, at : 0..LastTick, action : Actions]
LoggingOut ==
    [pc : {"session", "revoke"}, held : SUBSET Locks, call : {"logout"},
     token : Tokens]
ChangingStatus ==
    [pc : {"actor", "target", "apply"}, held : SUBSET Locks,
     call : {"set_user_status"}, actor : Users \cup {System}, target : Users,
     to : {"active", "disabled"}]
ChangingRole ==
    [pc : {"actor", "role", "audit", "apply"}, held : SUBSET Locks,
     call : {"change_role"}, actor : Users \cup {System}, target : Users,
     role : RolesGiven, grant : BOOLEAN]
Bootstrapping ==
    [pc : {"target", "apply"}, held : SUBSET Locks, call : {"bootstrap"},
     target : Users]

Calls ==
    Authorizing \cup Allowed \cup LoggingOut \cup ChangingStatus
      \cup ChangingRole \cup Bootstrapping

SessionTypeOK ==
    /\ clock \in 0..LastTick
    /\ status \in [Users -> {"active", "disabled"}]
    /\ assigned \in [Users -> [Roles -> 0..MaxRows]]
    /\ sessions \in [Tokens -> [revoked : BOOLEAN, last : 0..LastTick]]
    /\ client \in [Clients -> {Idle} \cup Calls]

(* Confirmed users hold the role "user"; administrators were appointed.    *)
SessionInit ==
    /\ clock = 0
    /\ status = [u \in Users |-> "active"]
    /\ \E admins \in SUBSET Users :
         assigned = [u \in Users |-> [r \in Roles |->
           IF r = "user" \/ (r = "administrator" /\ u \in admins) THEN 1 ELSE 0]]
    /\ sessions = [t \in Tokens |-> [revoked |-> FALSE, last |-> 0]]
    /\ client = [p \in Clients |-> Idle]

(* The row a client's next statement locks, and how.                       *)
Wants(p) ==
    CASE client[p].pc = "session" -> <<SessionRow(client[p].token), "update">>
      [] client[p].pc = "user" -> <<UserRow(Owner[client[p].token]), "update">>
      [] client[p].pc = "actor" -> <<UserRow(client[p].actor), "update">>
      [] client[p].pc = "target" -> <<UserRow(client[p].target), "update">>
      [] client[p].pc = "role" -> <<RoleRows(client[p].target, client[p].role), "update">>
      [] client[p].pc = "audit" -> <<UserRow(client[p].target), "share">>
      [] OTHER -> <<>>

Conflict(lock, held) ==
    \E other \in held : lock[1] = other[1] /\ "update" \in {lock[2], other[2]}

(* Role rows to wait for exist only while the assignment is active.        *)
WaitsFor(p, q) ==
    /\ p # q /\ Wants(p) # <<>>
    /\ Conflict(Wants(p), client[q].held)
    /\ client[p].pc = "role" => assigned[client[p].target][client[p].role] > 0

Free(p) == \A q \in Clients : ~WaitsFor(p, q)

Goto(p, pc) == client' = [client EXCEPT ![p].pc = pc]
Lock(p, pc) ==
    client' = [client EXCEPT ![p].pc = pc, ![p].held = @ \cup {Wants(p)}]
End(p) == client' = [client EXCEPT ![p] = Idle]
Refuse(p) == End(p) /\ UNCHANGED <<clock, status, assigned, sessions>>
Begin(p, call) ==
    /\ client[p].pc = "idle"
    /\ client' = [client EXCEPT ![p] = call]
    /\ UNCHANGED <<clock, status, assigned, sessions>>

-----------------------------------------------------------------------------
(* authorize and logout                                                    *)

BeginAuthorize(p) ==
    \E t \in Tokens :
      Begin(p, [pc |-> "session", held |-> {}, call |-> "authorize", token |-> t,
                at |-> clock])

(* session_by_digest FOR UPDATE: a revoked or idle session is refused.     *)
IsIdleExpired(t, at) == at >= sessions[t].last + IdleTime

(* Mutant: the session is read without FOR UPDATE. *)
SessionUnlocked(p) ==
    /\ client[p].pc = "session" /\ client[p].call = "authorize"
    /\ Goto(p, "user")
    /\ UNCHANGED <<clock, status, assigned, sessions>>

ReadSession(p) ==
    /\ client[p].pc = "session" /\ client[p].call = "authorize" /\ Free(p)
    /\ Lock(p, "user")
    /\ UNCHANGED <<clock, status, assigned, sessions>>

(* user FOR UPDATE, then the checks in their order, then the policy.       *)
Accepts(p, action, owner) ==
    LET t == client[p].token  u == Owner[client[p].token] IN
    /\ ~sessions[t].revoked
    /\ ~IsIdleExpired(t, client[p].at)
    /\ status[u] = "active"
    /\ Permitted(u, action, owner)

(* Mutant: the user is read without FOR UPDATE. *)
UserUnlocked(p) ==
    /\ client[p].pc = "user"
    /\ \E action \in Actions, owner \in Users \cup {Unowned} :
         \/ /\ Accepts(p, action, owner)
            /\ client' = [client EXCEPT ![p] =
                 [pc |-> "allowed", held |-> client[p].held, call |-> "authorize",
                  token |-> client[p].token, at |-> client[p].at,
                  action |-> action]]
            /\ UNCHANGED <<clock, status, assigned, sessions>>
         \/ ~Accepts(p, action, owner) /\ Refuse(p)

Decide(p) ==
    /\ client[p].pc = "user" /\ Free(p)
    /\ \E action \in Actions, owner \in Users \cup {Unowned} :
         \/ /\ Accepts(p, action, owner)
            /\ client' = [client EXCEPT ![p] =
                 [pc |-> "allowed", held |-> client[p].held \cup {Wants(p)},
                  call |-> "authorize", token |-> client[p].token,
                  at |-> client[p].at, action |-> action]]
            /\ UNCHANGED <<clock, status, assigned, sessions>>
         \/ ~Accepts(p, action, owner) /\ Refuse(p)

(* The allowed call writes the whole session row as it read it.            *)
CommitAllowed(p) ==
    /\ client[p].pc = "allowed"
    /\ sessions' = [sessions EXCEPT ![client[p].token] =
                     [revoked |-> FALSE, last |-> client[p].at]]
    /\ End(p)
    /\ UNCHANGED <<clock, status, assigned>>

BeginLogout(p) ==
    \E t \in Tokens :
      Begin(p, [pc |-> "session", held |-> {}, call |-> "logout", token |-> t])

LogoutRead(p) ==
    /\ client[p].pc = "session" /\ client[p].call = "logout" /\ Free(p)
    /\ IF sessions[client[p].token].revoked THEN End(p) ELSE Lock(p, "revoke")
    /\ UNCHANGED <<clock, status, assigned, sessions>>

CommitLogout(p) ==
    /\ client[p].pc = "revoke"
    /\ sessions' = [sessions EXCEPT ![client[p].token].revoked = TRUE]
    /\ End(p)
    /\ UNCHANGED <<clock, status, assigned>>

-----------------------------------------------------------------------------
(* Administration                                                          *)

(* set_user_status and change_role start with _require_administrator.      *)
BeginChange(p) ==
    \E actor \in Users \cup {System}, target \in Users :
      \/ \E to \in {"active", "disabled"} :
           Begin(p, [pc |-> IF actor = System THEN "target" ELSE "actor",
                     held |-> {}, call |-> "set_user_status", actor |-> actor,
                     target |-> target, to |-> to])
      \/ \E role \in RolesGiven, grant \in BOOLEAN :
           Begin(p, [pc |-> IF actor = System THEN "role" ELSE "actor",
                     held |-> {}, call |-> "change_role", actor |-> actor,
                     target |-> target, role |-> role, grant |-> grant])

RequireAdministrator(p) ==
    /\ client[p].pc = "actor" /\ Free(p)
    /\ \/ /\ IsAdministrator(client[p].actor)
          /\ Lock(p, IF client[p].call = "change_role" THEN "role" ELSE "target")
          /\ UNCHANGED <<clock, status, assigned, sessions>>
       \/ ~IsAdministrator(client[p].actor) /\ Refuse(p)

ReadTarget(p) ==
    /\ client[p].pc = "target" /\ client[p].call = "set_user_status" /\ Free(p)
    /\ Lock(p, "apply")
    /\ UNCHANGED <<clock, status, assigned, sessions>>

SetUserStatus(p) ==
    /\ client[p].pc = "apply" /\ client[p].call = "set_user_status"
    /\ status' = [status EXCEPT ![client[p].target] = client[p].to]
    /\ End(p)
    /\ UNCHANGED <<clock, assigned, sessions>>

(* active_role FOR UPDATE: a role that is there is not granted again, one  *)
(* that is not there is not revoked.                                       *)
ReadRole(p) ==
    LET present == assigned[client[p].target][client[p].role] > 0 IN
    /\ client[p].pc = "role" /\ Free(p)
    /\ \/ /\ present # client[p].grant
          /\ IF present THEN Lock(p, "audit") ELSE Goto(p, "audit")
          /\ UNCHANGED <<clock, status, assigned, sessions>>
       \/ present = client[p].grant /\ Refuse(p)

(* Mutant: the change of a role leaves no audit row. *)
RoleUnaudited(p) ==
    /\ client[p].pc = "audit"
    /\ Goto(p, "apply")
    /\ UNCHANGED <<clock, status, assigned, sessions>>

(* The role row and the audit row both name the subject: a key share lock. *)
AuditRole(p) ==
    /\ client[p].pc = "audit" /\ Free(p)
    /\ Lock(p, "apply")
    /\ UNCHANGED <<clock, status, assigned, sessions>>

(* save_role inserts an active assignment or ends one.                     *)
SaveRole(u, role, n) == assigned' = [assigned EXCEPT ![u][role] = @ + n]

ChangeRole(p) ==
    /\ client[p].pc = "apply" /\ client[p].call = "change_role"
    /\ client[p].grant => assigned[client[p].target][client[p].role] < MaxRows
    /\ SaveRole(client[p].target, client[p].role, IF client[p].grant THEN 1 ELSE -1)
    /\ End(p)
    /\ UNCHANGED <<clock, status, sessions>>

(* bootstrap_administrator: no administrator may exist, read without lock. *)
BeginBootstrap(p) ==
    /\ \A u \in Users : "administrator" \notin ActiveRoles(u)
    /\ \E u \in Users :
         Begin(p, [pc |-> "target", held |-> {}, call |-> "bootstrap", target |-> u])

BootstrapRead(p) ==
    /\ client[p].pc = "target" /\ client[p].call = "bootstrap" /\ Free(p)
    /\ IF status[client[p].target] = "active" THEN Lock(p, "apply") ELSE End(p)
    /\ UNCHANGED <<clock, status, assigned, sessions>>

CommitBootstrap(p) ==
    /\ client[p].pc = "apply" /\ client[p].call = "bootstrap"
    /\ assigned[client[p].target]["administrator"] < MaxRows
    /\ SaveRole(client[p].target, "administrator", 1)
    /\ End(p)
    /\ UNCHANGED <<clock, status, sessions>>

-----------------------------------------------------------------------------
(* The database and the clock                                              *)

(* A transaction ends without effect: a deadlock's victim, or a lost       *)
(* connection or process.  Its locks go with it.                           *)
Abort(p) ==
    /\ client[p].pc # "idle"
    /\ Refuse(p)

ClockTick ==
    /\ clock < LastTick
    /\ clock' = clock + 1
    /\ UNCHANGED <<status, assigned, sessions, client>>

SessionNext ==
    \/ \E p \in Clients :
         \/ BeginAuthorize(p) \/ ReadSession(p) \/ Decide(p) \/ CommitAllowed(p)
         \/ BeginLogout(p) \/ LogoutRead(p) \/ CommitLogout(p)
         \/ BeginChange(p) \/ RequireAdministrator(p) \/ ReadTarget(p)
         \/ SetUserStatus(p) \/ ReadRole(p) \/ AuditRole(p) \/ ChangeRole(p)
         \/ BeginBootstrap(p) \/ BootstrapRead(p) \/ CommitBootstrap(p)
         \/ Abort(p)
    \/ ClockTick

SessionSpec == SessionInit /\ [][SessionNext]_sessionVars

-----------------------------------------------------------------------------
(* Properties                                                              *)

(* A revoked session stays revoked, although every allowed call writes the *)
(* whole row back from what it read (save_session upserts all columns).    *)
LogoutIsFinal ==
    [][\A t \in Tokens : sessions[t].revoked => sessions'[t].revoked]_sessionVars

(* From its decision to its commit, an allowed call rests on what is still *)
(* true in the database: its session is not revoked and not idle, its user *)
(* is active and holds a role the action takes.  A disabled user or a      *)
(* withdrawn role therefore never overlaps an allowed call, although the   *)
(* roles are read without any lock.                                        *)
AllowedIsCurrent ==
    \A p \in Clients :
      client[p].pc = "allowed" =>
        LET t == client[p].token IN
        /\ ~sessions[t].revoked
        /\ ~IsIdleExpired(t, client[p].at)
        /\ status[Owner[t]] = "active"
        /\ ActiveRoles(Owner[t]) \cap AllowedRoles(client[p].action) # {}

(* A change made for an actor commits only while the actor is an active    *)
(* administrator: two administrators who withdraw or disable each other    *)
(* cannot both succeed.                                                    *)
ActorIsAdministrator ==
    \A p \in Clients :
      (client[p].pc = "apply" /\ client[p].call # "bootstrap") =>
        (client[p].actor = System \/ IsAdministrator(client[p].actor))

=============================================================================
