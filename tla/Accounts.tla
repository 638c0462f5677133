------------------------------ MODULE Accounts ------------------------------
(***************************************************************************)
(* Users and sessions: nvr/src/auth.rs and nvr/src/handler/user.rs over    *)
(* nvr-db's user and session rows.  A session is a row and, once used, an  *)
(* entry of a cache; a request is let in by the cache, or by the row, which *)
(* it then caches.  Revoking drops the cache entries first and the rows    *)
(* next, with an await between; nothing orders it with a validation or a   *)
(* login under way.                                                        *)
(***************************************************************************)
EXTENDS Naturals, Sequences, FiniteSets

CONSTANTS
  Users, Admin,   \* Admin: the user made at start when missing
  Passwords,
  DefaultPw,      \* the default administrator's password
  Tokens,         \* sessions that exist at first, and every login request
  AccReqs,        \* requests, each made at most once: [op, tok, user, pw, new, dev], dev: the
                  \* request to the devices that a "device" request carries
  Nobody

AccOps == {"login", "logout", "info", "password", "adduser", "removeuser", "device"}

ASSUME AccountsAssumption ==
  /\ Admin \in Users /\ DefaultPw \in Passwords /\ Nobody \notin Users \cup Passwords
  /\ \A r \in AccReqs : /\ r.op \in AccOps
                        /\ r.op = "login" => r \in Tokens
                        /\ r.op # "login" => r.tok \in Tokens
                        /\ r.user \in Users /\ r.pw \in Passwords /\ r.new \in Passwords

VARIABLES
  users,     \* user rows: user -> sequence of password versions [pw, gen]; kvs has no unique key
  session,   \* session rows: token -> user, Nobody without one
  cache,     \* CACHE: token -> user, Nobody without one
  expired,   \* tokens past their time
  acall,     \* request -> [pc, user]: user: whom the request was let in as
  (* Observation only. *)
  gen,       \* token -> the version of the password it was opened with
  version,   \* user -> number of passwords so far
  clean      \* user -> no revocation has overlapped a login or a validation of his, or another
             \* call that changes him, and none has failed

avars == <<users, session, cache, expired, acall, gen, version, clean>>

Row(r, v) == [pw |-> r, gen |-> v]
NotCalled == [pc |-> "never", user |-> Nobody]

AccInit(reqs, open) ==
  /\ users = [u \in Users |-> IF u = Admin \/ \E t \in Tokens : open[t] = u
                              THEN <<Row(DefaultPw, 1)>> ELSE <<>>]
  /\ session = open /\ cache = [t \in Tokens |-> Nobody] /\ expired = {}
  /\ acall = [r \in AccReqs |-> IF r \in reqs THEN [NotCalled EXCEPT !.pc = "due"] ELSE NotCalled]
  /\ gen = [t \in Tokens |-> 1] /\ version = [u \in Users |-> 1]
  /\ clean = [u \in Users |-> TRUE]

AccAt(r, pc) == acall[r].pc = pc
To(r, pc)    == acall' = [acall EXCEPT ![r].pc = pc]

\* Requests that are under way.
Resting == {"never", "due", "in", "done", "401", "error"}
Open == {r \in AccReqs : acall[r].pc \notin Resting}

\* Whose account an open request may touch: of a validation, the session's user.
About(r) ==
  IF acall[r].pc \in {"row", "keep", "drop"} THEN {session[r.tok], acall[r].user} \ {Nobody}
  ELSE IF r.op \in {"login", "adduser", "removeuser"} THEN {r.user} ELSE {acall[r].user}

\* Two requests overlap on a user: both are under way, one of them to change him.
Changing(r) == r.op \in {"logout", "password", "adduser", "removeuser"}
               /\ acall[r].pc \notin {"row", "keep", "drop"}
Overlap == {u \in Users : \E r, s \in Open : r # s /\ u \in About(r) \cap About(s) /\ Changing(r)}
Watch(bad) == LET over == Overlap' IN clean' = [u \in Users |-> clean[u] /\ u \notin over \cup bad]

Unseen == UNCHANGED <<gen, version>>

-----------------------------------------------------------------------------
(* require_auth.                                                           *)

\* validate: the cache decides, or the row must be read.
Validate(r) ==
  /\ AccAt(r, "due") /\ r.op # "login"
  /\ acall' = [acall EXCEPT ![r] =
       IF cache[r.tok] = Nobody THEN [pc |-> "row", user |-> Nobody]
       ELSE IF r.tok \in expired THEN [pc |-> "drop", user |-> cache[r.tok]]
       ELSE [pc |-> "in", user |-> cache[r.tok]]]
  /\ cache' = IF r.tok \in expired THEN [cache EXCEPT ![r.tok] = Nobody] ELSE cache
  /\ Unseen /\ UNCHANGED <<users, session, expired>> /\ Watch({})

\* get_by_token
ReadSession(r) ==
  /\ AccAt(r, "row")
  /\ acall' = [acall EXCEPT ![r] =
       IF session[r.tok] = Nobody THEN [pc |-> "401", user |-> Nobody]
       ELSE IF r.tok \in expired THEN [pc |-> "drop", user |-> session[r.tok]]
       ELSE [pc |-> "keep", user |-> session[r.tok]]]
  /\ Unseen /\ UNCHANGED <<users, session, cache, expired>> /\ Watch({})

KeepSession(r) ==
  /\ AccAt(r, "keep")
  /\ cache' = [cache EXCEPT ![r.tok] = acall[r].user] /\ To(r, "in")
  /\ Unseen /\ UNCHANGED <<users, session, expired>> /\ Watch({})

DropExpired(r) ==
  /\ AccAt(r, "drop")
  /\ session' = [session EXCEPT ![r.tok] = Nobody] /\ To(r, "401")
  /\ Unseen /\ UNCHANGED <<users, cache, expired>> /\ Watch({})

-----------------------------------------------------------------------------
(* login and create_session: a fresh token, named after the request.       *)

Current(u) == Head(users[u])

Verify(r) ==
  /\ r.op = "login" /\ AccAt(r, "due")
  /\ LET good == users[r.user] # <<>> /\ Current(r.user).pw = r.pw IN
     /\ To(r, IF good THEN "purge" ELSE "error")
     /\ gen' = IF good THEN [gen EXCEPT ![r] = Current(r.user).gen] ELSE gen
  /\ UNCHANGED <<users, session, cache, expired, version>> /\ Watch({})

\* delete_expired: rows only; the cache looks at the time itself.
Purge(r) ==
  /\ AccAt(r, "purge")
  /\ session' = [t \in Tokens |-> IF t \in expired THEN Nobody ELSE session[t]]
  /\ To(r, "insert")
  /\ Unseen /\ UNCHANGED <<users, cache, expired>> /\ Watch({})

InsertSession(r, ok) ==
  /\ AccAt(r, "insert")
  /\ session' = IF ok THEN [session EXCEPT ![r] = r.user] ELSE session
  /\ To(r, IF ok THEN "cache" ELSE "error")
  /\ Unseen /\ UNCHANGED <<users, cache, expired>> /\ Watch({})

CacheSession(r) ==
  /\ AccAt(r, "cache")
  /\ cache' = [cache EXCEPT ![r] = r.user] /\ To(r, "done")
  /\ Unseen /\ UNCHANGED <<users, session, expired>> /\ Watch({})

-----------------------------------------------------------------------------
(* The handlers behind require_auth.                                       *)

Info(r) ==
  /\ r.op = "info" /\ AccAt(r, "in") /\ To(r, "done")
  /\ Unseen /\ UNCHANGED <<users, session, cache, expired>> /\ Watch({})

\* revoke: the entry, then the row.
Logout(r) ==
  /\ r.op = "logout" /\ AccAt(r, "in")
  /\ cache' = [cache EXCEPT ![r.tok] = Nobody] /\ To(r, "delete")
  /\ Unseen /\ UNCHANGED <<users, session, expired>> /\ Watch({})

DeleteSession(r, ok) ==
  /\ r.op = "logout" /\ AccAt(r, "delete")
  /\ session' = IF ok THEN [session EXCEPT ![r.tok] = Nobody] ELSE session
  /\ To(r, IF ok THEN "done" ELSE "error")
  /\ Unseen /\ UNCHANGED <<users, cache, expired>> /\ Watch(IF ok THEN {} ELSE {acall[r].user})

\* change_password: read and verify.
CheckOld(r) ==
  /\ r.op = "password" /\ AccAt(r, "in")
  /\ LET u == acall[r].user IN
     To(r, IF users[u] # <<>> /\ Current(u).pw = r.pw THEN "update" ELSE "error")
  /\ Unseen /\ UNCHANGED <<users, session, cache, expired>> /\ Watch({})

\* UPDATE kvs: every row of the user, none when he is gone by now.
UpdateUser(r, ok) ==
  /\ AccAt(r, "update")
  /\ LET u == acall[r].user IN
     /\ users' = IF ok THEN [users EXCEPT ![u] =
                               [n \in DOMAIN users[u] |-> Row(r.new, version[u] + 1)]] ELSE users
     /\ version' = IF ok THEN [version EXCEPT ![u] = @ + 1] ELSE version
     /\ gen' = IF ok THEN [gen EXCEPT ![r.tok] = version[u] + 1] ELSE gen
  /\ To(r, IF ok THEN "revoke" ELSE "error")
  /\ UNCHANGED <<session, cache, expired>> /\ Watch({})

\* exists, in remove_user and add_user
RemoveUser(r) ==
  /\ r.op = "removeuser" /\ AccAt(r, "in")
  /\ To(r, IF r.user = acall[r].user \/ users[r.user] = <<>> THEN "error" ELSE "unuser")
  /\ Unseen /\ UNCHANGED <<users, session, cache, expired>> /\ Watch({})

DeleteUser(r, ok) ==
  /\ AccAt(r, "unuser")
  /\ users' = IF ok THEN [users EXCEPT ![r.user] = <<>>] ELSE users
  /\ To(r, IF ok THEN "revoke" ELSE "error")
  /\ Unseen /\ UNCHANGED <<session, cache, expired>> /\ Watch({})

\* revoke_user: all sessions of the user, but the caller's own when he changed his password.
Victim(r) == IF r.op = "password" THEN acall[r].user ELSE r.user
Spared(r) == IF r.op = "password" THEN {r.tok} ELSE {}

\* Mutant: the cache is left as it is.
M_Uncached(r) == cache

Uncached(r) == [t \in Tokens |-> IF cache[t] = Victim(r) /\ t \notin Spared(r) THEN Nobody ELSE cache[t]]

RevokeCache(r) ==
  /\ AccAt(r, "revoke")
  /\ cache' = Uncached(r) /\ To(r, "revokerows")
  /\ Unseen /\ UNCHANGED <<users, session, expired>> /\ Watch({})

RevokeRows(r, ok) ==
  /\ AccAt(r, "revokerows")
  /\ session' = IF ~ok THEN session
                ELSE [t \in Tokens |-> IF session[t] = Victim(r) /\ t \notin Spared(r) THEN Nobody
                                       ELSE session[t]]
  /\ To(r, IF ok THEN "done" ELSE "error")
  /\ Unseen /\ UNCHANGED <<users, cache, expired>> /\ Watch(IF ok THEN {} ELSE {Victim(r)})

AddUser(r) ==
  /\ r.op = "adduser" /\ AccAt(r, "in")
  /\ To(r, IF users[r.user] = <<>> THEN "newuser" ELSE "error")
  /\ Unseen /\ UNCHANGED <<users, session, cache, expired>> /\ Watch({})

InsertUser(r, ok) ==
  /\ AccAt(r, "newuser")
  /\ users' = IF ok THEN [users EXCEPT ![r.user] = Append(@, Row(r.pw, version[r.user] + 1))]
              ELSE users
  /\ version' = IF ok THEN [version EXCEPT ![r.user] = @ + 1] ELSE version
  /\ To(r, IF ok THEN "done" ELSE "error")
  /\ UNCHANGED <<session, cache, expired, gen>> /\ Watch({})

-----------------------------------------------------------------------------
\* Thirty days pass for a session.
Expire(t) ==
  /\ session[t] # Nobody /\ t \notin expired /\ expired' = expired \cup {t}
  /\ UNCHANGED <<users, session, cache, acall, gen, version, clean>>

\* The process ends and starts again: the cache is empty, and ensure_default_admin_user puts
\* the administrator back.  A revocation that was cut short leaves its rows.
AccRestart ==
  /\ cache' = [t \in Tokens |-> Nobody]
  /\ acall' = [r \in AccReqs |-> IF acall[r].pc \in {"never", "due"} THEN acall[r]
                                 ELSE [acall[r] EXCEPT !.pc = "done"]]
  /\ LET back == users[Admin] = <<>> IN
     /\ users' = IF back THEN [users EXCEPT ![Admin] = <<Row(DefaultPw, version[Admin] + 1)>>] ELSE users
     /\ version' = IF back THEN [version EXCEPT ![Admin] = @ + 1] ELSE version
  /\ clean' = [u \in Users |-> clean[u] /\ \A r \in Open : u \notin About(r)]
  /\ UNCHANGED <<session, expired, gen>>

AccStep(r) ==
  \/ Validate(r) \/ ReadSession(r) \/ KeepSession(r) \/ DropExpired(r)
  \/ Verify(r) \/ Purge(r) \/ CacheSession(r) \/ Info(r) \/ Logout(r) \/ CheckOld(r)
  \/ RemoveUser(r) \/ RevokeCache(r) \/ AddUser(r)
  \/ \E ok \in BOOLEAN : InsertSession(r, ok) \/ DeleteSession(r, ok) \/ UpdateUser(r, ok)
                         \/ DeleteUser(r, ok) \/ RevokeRows(r, ok) \/ InsertUser(r, ok)

-----------------------------------------------------------------------------
(* Property.                                                               *)

\* A token lets its bearer in.
Live(t) == t \notin expired /\ (cache[t] # Nobody \/ session[t] # Nobody)
Owner(t) == IF cache[t] # Nobody THEN cache[t] ELSE session[t]
Settled(u) == clean[u] /\ \A r \in Open : u \notin About(r)

\* Once a password change, a removal or a logout is through, the sessions it was to end are
\* ended, in the cache as in the table: a live session belongs to a user who exists, was opened
\* with his present password or by the change itself, and has a row that a later revocation will
\* find.  Revocations that overlapped a login, a validation or another change of the user, or
\* that failed at the table, are out of its reach (auth.rs:71-112).
SessionsCurrent ==
  \A t \in Tokens :
    Live(t) /\ Settled(Owner(t)) =>
      /\ users[Owner(t)] # <<>> /\ gen[t] = version[Owner(t)]
      /\ session[t] = Owner(t)

=============================================================================
