------------------------------- MODULE Access -------------------------------
(***************************************************************************)
(* Users, roles, permissions and visible features (services/users.py,      *)
(* services/roles.py, core/permissions.py, services/feature_visibility.py).*)
(* Every request reads a row, and writes in a second statement what it     *)
(* makes of it: the columns that differ from what it has read.  Requests   *)
(* overlap; the unique keys of the tables are all that keeps them apart.   *)
(***************************************************************************)
EXTENDS Integers

CONSTANTS
  Emails, Names, Subs, \* of the people who log in; Unset: no idp_sub
  Roles,               \* keys of the roles, "guest" among them
  System,              \* roles with is_system
  Actions,             \* ACTION_KEYS
  Defaults,            \* [Roles -> the actions it may do by default]
  Patches,             \* what is asked about a role: functions to BOOLEAN
  Features,            \* FEATURE_KEYS
  Requests,            \* requests that may overlap
  MaxCommits           \* bound: requests that are carried out

Unset == "none"
NoUser == [name |-> Unset, sub |-> Unset, role |-> Unset, active |-> FALSE]

VARIABLES
  users,  \* [Emails -> the row]
  perms,  \* [Roles -> the permissions stored, a partial function of Actions]
  shown,  \* [Features -> enabled], a partial function
  req,    \* [Requests -> what it asks, and what it has read]
  commits

vars == <<users, perms, shown, req, commits>>
Nothing == [kind |-> Unset]

Init ==
  /\ users = [e \in Emails |-> NoUser]
  /\ perms = [r \in Roles |-> [a \in {} |-> TRUE]]
  /\ shown = [f \in {} |-> TRUE]
  /\ req = [q \in Requests |-> Nothing]
  /\ commits = 0

(* What an administrator may ask about a user: a role, an access, or both. *)
Decisions ==
  [role : Roles] \union [active : BOOLEAN] \union [role : Roles, active : BOOLEAN]

(* A request arrives and reads its row. *)
Read(q, asked) ==
  /\ req[q] = Nothing
  /\ req' = [req EXCEPT ![q] = asked]
  /\ UNCHANGED <<users, perms, shown, commits>>

(* sync_login *)
Login(q) ==
  \E e \in Emails, n \in Names, s \in Subs \union {Unset} :
    Read(q, [kind |-> "login", email |-> e, name |-> n, sub |-> s, row |-> users[e]])

(* update_user: of a user that is there; a role that is not is refused. *)
UpdateUser(q) ==
  \E e \in Emails, asked \in Decisions :
    users[e] # NoUser /\ Read(q, [kind |-> "user", email |-> e, columns |-> asked, row |-> users[e]])

(* update_role_permissions: not of a system role. *)
UpdateRole(q) ==
  \E r \in Roles \ System, p \in Patches :
    Read(q, [kind |-> "role", role |-> r, patch |-> p, row |-> perms[r]])

(* update_feature_visibility *)
UpdateFeature(q) ==
  \E f \in Features, on \in BOOLEAN :
    Read(q, [kind |-> "feature", feature |-> f, enabled |-> on, known |-> f \in DOMAIN shown,
             row |-> IF f \in DOMAIN shown THEN shown[f] ELSE on])

Finish(q) == req' = [req EXCEPT ![q] = Nothing]
Commit(q) == commits < MaxCommits /\ commits' = commits + 1 /\ Finish(q)

(* What is new, and of the rest what was there. *)
Merged(new, old) ==
  [x \in DOMAIN new \union DOMAIN old |-> IF x \in DOMAIN new THEN new[x] ELSE old[x]]

(* Fault: the row is written whole. *)
Written_Whole(now, row, new) == new

(* The columns that differ from what was read. *)
Written(now, row, new) ==
  [c \in DOMAIN now |-> IF new[c] # row[c] THEN new[c] ELSE now[c]]

(* The keys: one row per email, and per identity. *)
SubFree(e, s) == s = Unset \/ \A o \in Emails \ {e} : users[o].sub # s

Guest(q) == [name |-> q.name, sub |-> q.sub, role |-> "guest", active |-> TRUE]

CommitLogin(q) ==
  LET r == req[q]
      new == IF r.row = NoUser THEN Guest(r)
             ELSE [r.row EXCEPT !.name = r.name, !.sub = IF r.sub = Unset THEN @ ELSE r.sub]
      row == IF r.row = NoUser THEN new ELSE Written(users[r.email], r.row, new)
  IN  /\ r.kind = "login"
      /\ IF (r.row = NoUser => users[r.email] = NoUser) /\ SubFree(r.email, row.sub)
         THEN users' = [users EXCEPT ![r.email] = row]
         ELSE UNCHANGED users \* the key is taken: an error
      /\ Commit(q)
      /\ UNCHANGED <<perms, shown>>

CommitUser(q) ==
  LET r == req[q]
  IN  /\ r.kind = "user"
      /\ users' = [users EXCEPT ![r.email] = Written(@, r.row, Merged(r.columns, r.row))]
      /\ Commit(q)
      /\ UNCHANGED <<perms, shown>>

(* One column holds all the permissions of a role. *)
CommitRole(q) ==
  LET r == req[q]
      merged == Merged(r.patch, r.row)
  IN  /\ r.kind = "role"
      /\ perms' = [perms EXCEPT ![r.role] = IF merged = r.row THEN @ ELSE merged]
      /\ Commit(q)
      /\ UNCHANGED <<users, shown>>

CommitFeature(q) ==
  LET r == req[q]
      Set == Merged([f \in {r.feature} |-> r.enabled], shown)
  IN  /\ r.kind = "feature"
      /\ shown' = IF r.known THEN (IF r.row # r.enabled THEN Set ELSE shown)
                  ELSE IF r.feature \in DOMAIN shown THEN shown \* the key is taken: an error
                  ELSE Set
      /\ Commit(q)
      /\ UNCHANGED <<users, perms>>

(* The database fails, or the process stops. *)
Fail(q) ==
  /\ req[q] # Nothing
  /\ Finish(q)
  /\ UNCHANGED <<users, perms, shown, commits>>

Next ==
  \E q \in Requests :
    \/ Login(q) \/ UpdateUser(q) \/ UpdateRole(q) \/ UpdateFeature(q)
    \/ CommitLogin(q) \/ CommitUser(q) \/ CommitRole(q) \/ CommitFeature(q) \/ Fail(q)

Spec == Init /\ [][Next]_vars

(* compute_role_matrix: what the roles may do. *)
Matrix ==
  [r \in Roles |-> {a \in Actions : \/ r \in System
                                    \/ IF a \in DOMAIN perms[r] THEN perms[r][a] ELSE a \in Defaults[r]}]

-----------------------------------------------------------------------------
(* Properties *)

(* Who commits in a step. *)
Commits(q, kind) == req[q].kind = kind /\ req'[q] = Nothing

(* What a person may do is decided by administrators: whatever requests    *)
(* overlap, a login never gives back a role or an access that was taken in *)
(* the meantime, a new user is a guest, an identity is of one user, and    *)
(* what a role may do changes only for actions that a request names, or,   *)
(* when two requests about a role overlap, back to what one has found.     *)
AdminsDecide ==
  [][/\ \A e \in Emails :
          /\ users[e] = NoUser => users'[e] = NoUser \/ users'[e].role = "guest"
          /\ \A c \in {"role", "active"} : users[e] # NoUser /\ users'[e][c] # users[e][c] =>
               \E q \in Requests : /\ Commits(q, "user") /\ req[q].email = e
                                   /\ c \in DOMAIN req[q].columns /\ users'[e][c] = req[q].columns[c]
          /\ \A o \in Emails \ {e} : users'[e].sub # Unset => users'[o].sub # users'[e].sub
     /\ \A r \in Roles, a \in Actions : (a \in Matrix[r]) # (a \in Matrix'[r]) =>
          \E q \in Requests : /\ Commits(q, "role") /\ req[q].role = r
                              /\ a \in DOMAIN req[q].patch \/ req[q].row # perms[r]]_vars
=============================================================================
