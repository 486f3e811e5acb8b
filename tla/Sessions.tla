------------------------------ MODULE Sessions ------------------------------
(***************************************************************************)
(* Refresh-token sessions: crates/auth/src/sessions.rs over the tables of  *)
(* crates/auth/src/repository.rs.  A handler is a sequence of SQL          *)
(* statements with an await between them, and two handlers interleave at   *)
(* every await; each statement is therefore an action of its own and a     *)
(* request keeps in req what it read earlier.                              *)
(*                                                                         *)
(* A refresh token is 244 random bits and is stored hashed, so a token     *)
(* stands for the one session it was issued with: both are Sessions here.  *)
(***************************************************************************)
EXTENDS Naturals

CONSTANTS
  Users,        \* accounts
  Sessions,     \* session ids, each with the refresh token issued for it
  Requests,     \* handlers that may be in flight at the same time
  NoSession,    \* "not a session"
  RefreshTTL,   \* JwtService::refresh_ttl, in clock units
  PruneGrace,   \* the INTERVAL '1 day' of delete_expired
  MaxTime       \* bound on the clock

ASSUME SessionsAssumption ==
  /\ Users # {}
  /\ NoSession \notin Sessions
  /\ RefreshTTL \in Nat \ {0}
  /\ PruneGrace \in Nat
  /\ MaxTime \in Nat

VARIABLES
  now,      \* the clock
  account,  \* account[u]: no row yet, active, or suspended
  row,      \* row[s]: not inserted, live (revoked_at IS NULL), revoked, deleted
  owner,    \* owner[s]: user_id, meaningful once the row exists
  expires,  \* expires[s]: expires_at
  req,      \* req[r]: where handler r is, and what it holds
  parent,   \* history: the session whose token was exchanged for this one
  burned,   \* history: sessions that existed when reuse was detected
  contended,\* history: tokens whose rotation overlapped another use or a sweep
  overtaken \* history: handlers whose account was suspended after they read it

vars == <<now, account, row, owner, expires, req, parent, burned, contended, overtaken>>

AnyUser == CHOOSE u \in Users : TRUE
Idle == [pc |-> "idle", user |-> AnyUser, tok |-> NoSession]

Exists(s) == row[s] \in {"live", "revoked"}
SessionsOf(u) == {s \in Sessions : Exists(s) /\ owner[s] = u}

Goto(r, pc) == req' = [req EXCEPT ![r].pc = pc]
Done(r) == req' = [req EXCEPT ![r] = Idle]

-----------------------------------------------------------------------------
(* Accounts.  Registering inserts the user row, then starts a session;     *)
(* logging in reads is_active, then starts one.                            *)

Register(r, u) ==
  /\ req[r].pc = "idle"
  /\ account[u] = "none"
  /\ account' = [account EXCEPT ![u] = "active"]
  /\ req' = [req EXCEPT ![r] = [pc |-> "start", user |-> u, tok |-> NoSession]]
  /\ UNCHANGED <<now, row, owner, expires, parent, burned, contended, overtaken>>

Login(r, u) ==
  /\ req[r].pc = "idle"
  /\ account[u] = "active"
  /\ req' = [req EXCEPT ![r] = [pc |-> "start", user |-> u, tok |-> NoSession]]
  /\ UNCHANGED <<now, account, row, owner, expires, parent, burned, contended, overtaken>>

Suspend(u) ==
  /\ account[u] = "active"
  /\ account' = [account EXCEPT ![u] = "suspended"]
  /\ overtaken' = overtaken \union
       {r \in Requests : req[r].pc \in {"revoke", "start"} /\ req[r].user = u}
  /\ UNCHANGED <<now, row, owner, expires, req, parent, burned, contended>>

Reinstate(u) ==
  /\ account[u] = "suspended"
  /\ account' = [account EXCEPT ![u] = "active"]
  /\ UNCHANGED <<now, row, owner, expires, req, parent, burned, contended, overtaken>>

-----------------------------------------------------------------------------
RefreshExpiry == now + RefreshTTL

(* SessionManager::start.  The tok of the request is the session being     *)
(* rotated, or NoSession after a login.                                    *)

Start(r) ==
  /\ req[r].pc = "start"
  /\ \E s \in Sessions :
       /\ row[s] = "free"
       /\ row' = [row EXCEPT ![s] = "live"]
       /\ owner' = [owner EXCEPT ![s] = req[r].user]
       /\ expires' = [expires EXCEPT ![s] = RefreshExpiry]
       /\ parent' = [parent EXCEPT ![s] = req[r].tok]
  /\ Done(r)
  /\ overtaken' = overtaken \ {r}
  /\ UNCHANGED <<now, account, burned, contended>>

(* The handlers between reading a live token and starting its successor.   *)
Rotating(s) ==
  {r \in Requests : req[r].tok = s /\ req[r].pc \in {"user", "revoke", "start"}}

(* SessionManager::refresh: find the row, then act on what was read.       *)
RefreshFind(r, s) ==
  /\ req[r].pc = "idle"
  /\ Exists(s)
  /\ row[s] = "revoked" \/ expires[s] > now
  /\ req' = [req EXCEPT ![r] =
               [pc   |-> IF row[s] = "revoked" THEN "reuse" ELSE "user",
                user |-> owner[s],
                tok  |-> s]]
  /\ contended' = contended \union {t \in {s} : row[t] = "live" /\ Rotating(t) # {}}
  /\ UNCHANGED <<now, account, row, owner, expires, parent, burned, overtaken>>

(* Mutant: only the presented session is revoked again.                    *)
RefreshReuse_Single(r) ==
  /\ req[r].pc = "reuse"
  /\ burned' = burned \union SessionsOf(req[r].user)
  /\ contended' = contended \union {s \in SessionsOf(req[r].user) : Rotating(s) # {}}
  /\ Done(r)
  /\ UNCHANGED <<now, account, row, owner, expires, parent, overtaken>>

RefreshReuse(r) ==
  /\ req[r].pc = "reuse"
  /\ row' = [s \in Sessions |->
               IF s \in SessionsOf(req[r].user) THEN "revoked" ELSE row[s]]
  /\ burned' = burned \union SessionsOf(req[r].user)
  /\ contended' = contended \union {s \in SessionsOf(req[r].user) : Rotating(s) # {}}
  /\ Done(r)
  /\ UNCHANGED <<now, account, owner, expires, parent, overtaken>>

(* Mutant: the account is found, and its is_active is not looked at.       *)
RefreshUser_Unchecked(r) ==
  /\ req[r].pc = "user"
  /\ Goto(r, "revoke")
  /\ UNCHANGED <<now, account, row, owner, expires, parent, burned, contended, overtaken>>

RefreshUser(r) ==
  /\ req[r].pc = "user"
  /\ IF account[req[r].user] = "active" THEN Goto(r, "revoke") ELSE Done(r)
  /\ UNCHANGED <<now, account, row, owner, expires, parent, burned, contended, overtaken>>

(* Mutant: the rotated session is left live.                               *)
RefreshRevoke_Dropped(r) ==
  /\ req[r].pc = "revoke"
  /\ Goto(r, "start")
  /\ UNCHANGED <<now, account, row, owner, expires, parent, burned, contended, overtaken>>

(* sessions.revoke(session.id), whose "was it live" answer is dropped.     *)
RefreshRevoke(r) ==
  /\ req[r].pc = "revoke"
  /\ row' = [row EXCEPT ![req[r].tok] = IF @ = "live" THEN "revoked" ELSE @]
  /\ Goto(r, "start")
  /\ UNCHANGED <<now, account, owner, expires, parent, burned, contended, overtaken>>

(* SessionManager::end.                                                    *)
EndFind(r, s) ==
  /\ req[r].pc = "idle"
  /\ Exists(s)
  /\ req' = [req EXCEPT ![r] = [pc |-> "end", user |-> owner[s], tok |-> s]]
  /\ UNCHANGED <<now, account, row, owner, expires, parent, burned, contended, overtaken>>

EndRevoke(r) ==
  /\ req[r].pc = "end"
  /\ row' = [row EXCEPT ![req[r].tok] = IF @ = "live" THEN "revoked" ELSE @]
  /\ Done(r)
  /\ UNCHANGED <<now, account, owner, expires, parent, burned, contended, overtaken>>

(* StaffService::revoke_all_sessions: find the account, then delete from   *)
(* refresh_tokens.  No migration creates that table, the statement fails   *)
(* and the sessions table is left as it was.                               *)
ForceFind(r, u) ==
  /\ req[r].pc = "idle"
  /\ account[u] # "none"
  /\ req' = [req EXCEPT ![r] = [pc |-> "force", user |-> u, tok |-> NoSession]]
  /\ UNCHANGED <<now, account, row, owner, expires, parent, burned, contended, overtaken>>

ForceDelete(r) ==
  /\ req[r].pc = "force"
  /\ Done(r)
  /\ UNCHANGED <<now, account, row, owner, expires, parent, burned, contended, overtaken>>

(* A handler ends between two statements: a statement failed, the process  *)
(* died, or the client went away and the server dropped the handler.       *)
Drop(r) ==
  /\ req[r].pc # "idle"
  /\ Done(r)
  /\ overtaken' = overtaken \ {r}
  /\ UNCHANGED <<now, account, row, owner, expires, parent, burned, contended>>

(* The job auth.prune_expired_sessions.                                    *)
Prunable(s) == Exists(s) /\ expires[s] + PruneGrace < now

PruneExpired ==
  /\ \E s \in Sessions : Prunable(s)
  /\ row' = [s \in Sessions |-> IF Prunable(s) THEN "deleted" ELSE row[s]]
  /\ UNCHANGED <<now, account, owner, expires, req, parent, burned, contended, overtaken>>

Tick ==
  /\ now < MaxTime
  /\ now' = now + 1
  /\ UNCHANGED <<account, row, owner, expires, req, parent, burned, contended, overtaken>>

-----------------------------------------------------------------------------
Init ==
  /\ now = 0
  /\ account = [u \in Users |-> "none"]
  /\ row = [s \in Sessions |-> "free"]
  /\ owner = [s \in Sessions |-> AnyUser]
  /\ expires = [s \in Sessions |-> 0]
  /\ req = [r \in Requests |-> Idle]
  /\ parent = [s \in Sessions |-> NoSession]
  /\ burned = {}
  /\ contended = {}
  /\ overtaken = {}

Next ==
  \/ \E r \in Requests :
       \/ Start(r) \/ RefreshReuse(r) \/ RefreshUser(r) \/ RefreshRevoke(r)
       \/ EndRevoke(r) \/ ForceDelete(r) \/ Drop(r)
       \/ \E u \in Users : Register(r, u) \/ Login(r, u) \/ ForceFind(r, u)
       \/ \E s \in Sessions : RefreshFind(r, s) \/ EndFind(r, s)
  \/ \E u \in Users : Suspend(u) \/ Reinstate(u)
  \/ PruneExpired
  \/ Tick

Spec == Init /\ [][Next]_vars

-----------------------------------------------------------------------------
TypeOK ==
  /\ now \in Nat
  /\ account \in [Users -> {"none", "active", "suspended"}]
  /\ row \in [Sessions -> {"free", "live", "revoked", "deleted"}]
  /\ owner \in [Sessions -> Users]
  /\ expires \in [Sessions -> Nat]
  /\ req \in [Requests -> [pc : {"idle", "start", "reuse", "user", "revoke",
                                 "end", "force"},
                           user : Users,
                           tok : Sessions \union {NoSession}]]
  /\ parent \in [Sessions -> Sessions \union {NoSession}]
  /\ burned \subseteq Sessions
  /\ contended \subseteq Sessions
  /\ overtaken \subseteq Requests

(***************************************************************************)
(* A session that refresh handed out replaced one that no longer works:    *)
(* the old row is revoked (or gone) before the new one exists, whatever    *)
(* else is in flight.                                                      *)
(***************************************************************************)
ParentSpent ==
  \A s \in Sessions :
    parent[s] # NoSession => row[parent[s]] \in {"revoked", "deleted"}

(***************************************************************************)
(* "a stolen refresh token is usable at most once" (sessions.rs, refresh), *)
(* where the code keeps it: two sessions come from one token only          *)
(* if two refreshes of it overlapped, or one overlapped a sweep.           *)
(***************************************************************************)
SpentOnce ==
  \A s, t \in Sessions :
    s # t /\ parent[s] # NoSession /\ parent[s] = parent[t] => parent[s] \in contended

(***************************************************************************)
(* Reuse detection "ends every session for that account" (refresh): none   *)
(* of the sessions that existed at that moment works again, and neither    *)
(* does a session rotated out of one of them, unless the rotation was in   *)
(* flight across the sweep.                                                *)
(***************************************************************************)
TheftEndsFamily ==
  \A s \in Sessions :
    s \in burned \/ parent[s] \in burned \ contended => row[s] # "live"

(***************************************************************************)
(* "the account stops working everywhere at once" (StaffService::suspend), *)
(* as far as the code keeps it: login and refresh read is_active and start *)
(* the session some awaits later, so while an account is suspended each    *)
(* handler that had read it before lets one session in, and no other does. *)
(***************************************************************************)
SuspendedStayOut ==
  [][\A s \in Sessions :
       row[s] = "free" /\ row'[s] = "live" /\ account[owner'[s]] # "active" =>
         \E r \in overtaken \ overtaken' : req[r].user = owner'[s]]_vars

=============================================================================
