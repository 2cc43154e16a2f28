------------------------------ MODULE Accounts ------------------------------
(***************************************************************************)
(* The accounts of the web console and of the clients' logins: the table   *)
(* users (users.rs), its migration from four fixed roles to a tier and a   *)
(* set of permissions (db.rs), the credential of older versions kept in    *)
(* the table settings (settings.rs), the start of the server that brings   *)
(* them together (main.rs), tokens (auth.rs) and the requests that change  *)
(* accounts (http.rs), with the command line that sets a password.         *)
(*                                                                         *)
(* Every SQL statement or transaction is one step, so requests, which the  *)
(* server handles concurrently, interleave between a statement that reads  *)
(* and the one that writes.  The server can stop after any statement.      *)
(* Accounts are never deleted and never change tier, so a check of the     *)
(* tier is made in the step of the write it guards.                        *)
(***************************************************************************)
EXTENDS Naturals

CONSTANTS
    Ids,          \* account ids (fresh UUIDs)
    NoId,         \* no account
    Names,        \* login names, "superadmin" and "admin" among them
    NoName,       \* no name
    Passwords,    \* passwords, "default" and the "old" one among them
    NewPasswords, \* passwords somebody asks for
    LegacyUsers,  \* names the old credential may have
    Creations,    \* accounts an administrator asks for
    Patches,      \* changes an administrator asks for
    Requests,     \* HTTP requests handled at a time
    FixedSecret,  \* is OHMYDESK_JWT_SECRET set?
    CliName,      \* the --user of the command line, or NoName
    Databases,    \* what the server may find on its first start
    MaxRequests,  \* bound: requests that change accounts
    MaxStops,     \* bound: stops of the server, and runs of the command line
    MaxDbFailures \* bound: failed writes of the migration mark

ViewAssets == "view_assets"
ManageAssets == "manage_assets"
ManageUsers == "manage_users"

\* Permission::ASSIGNABLE and ::ALL.
Assignable == {ViewAssets, ManageAssets, "view_grid", "use_remote",
               "view_audit", "view_login_logs"}
All == Assignable \cup {ManageUsers}
Operator == {ViewAssets, "view_grid", "use_remote"}
Auditor  == {"view_audit", "view_login_logs"}

FixedRoles == {"superadmin", "admin", "operator", "auditor"}
Roles == FixedRoles \cup {"user"}   \* the last is the tier of the new schema

ASSUME AccountsAssumption ==
    /\ NoId \notin Ids /\ NoName \notin Names
    /\ {"superadmin", "admin"} \subseteq Names /\ {"default", "old"} \subseteq Passwords
    /\ Creations \subseteq [name : Names, grant : SUBSET All, enabled : {"keep", "off"}]
    /\ Patches \subseteq [granting : BOOLEAN, grant : SUBSET All,
                          name : Names \cup {NoName}, enabled : {"keep", "on", "off"}]
    /\ NewPasswords \subseteq Passwords /\ LegacyUsers \subseteq Names
    /\ FixedSecret \in BOOLEAN /\ CliName \in Names \cup {NoName}
    /\ Databases \subseteq {"fresh", "credential", "roles"}
    /\ MaxRequests \in Nat /\ MaxStops \in Nat /\ MaxDbFailures \in Nat

VARIABLES
    schema,    \* of the table users: "old" (four roles) or "new" (tier, permissions)
    users,     \* the table users
    copy,      \* users_new inside the migration's transaction
    settings,  \* the table settings
    proc,      \* the server and the command line: where their main stands
    req,       \* requests being handled
    token,     \* account -> the token its console holds
    secret,    \* generation of the signing key
    served, stops, failures,  \* counters of the bounds
    imports    \* history: accounts created from the old credential

accVars == <<schema, users, copy, settings, proc, req, token, secret,
             served, stops, failures, imports>>
tables == <<schema, users, copy, settings>>

NoAccount == [name |-> NoName, password |-> "none", role |-> "none",
              grant |-> {}, enabled |-> FALSE]
Account == [name : Names, password : Passwords, role : Roles,
            grant : SUBSET All, enabled : BOOLEAN] \cup {NoAccount}

Procs == {"server", "cli"}
Labels == {"down", "migrate", "copy", "credential", "superadmin", "import",
           "mark", "dropUser", "dropHash", "up", "find", "rename", "reset"}
Proc == [at : Labels, legacy : Names \cup {NoName}, target : Ids \cup {NoId}]
Off == [at |-> "down", legacy |-> NoName, target |-> NoId]

Req == [at : {"idle", "insert", "disable", "grant", "check", "rename",
              "enable", "available", "change"},
        id : Ids \cup {NoId}, name : Names \cup {NoName}, read : Names \cup {NoName},
        password : Passwords \cup {"none"},
        grant : SUBSET All, granting : BOOLEAN, enabled : {"keep", "on", "off"}]
NoReq == [at |-> "idle", id |-> NoId, name |-> NoName, read |-> NoName,
          password |-> "none",
          grant |-> {}, granting |-> FALSE, enabled |-> "keep"]

Claim == [name : Names \cup {NoName}, super : BOOLEAN, secret : Nat]
NoToken == [name |-> NoName, super |-> FALSE, secret |-> 0]

AccTypeOK ==
    /\ schema \in {"old", "new"}
    /\ users \in [Ids -> Account] /\ copy \in [Ids -> Account]
    /\ settings \in [done : BOOLEAN, user : Names \cup {NoName}, hash : BOOLEAN]
    /\ proc \in [Procs -> Proc]
    /\ req \in [Requests -> Req]
    /\ token \in [Ids -> Claim] /\ secret \in Nat
    /\ served \in 0 .. MaxRequests /\ stops \in 0 .. MaxStops
    /\ failures \in 0 .. MaxDbFailures /\ imports \in Nat

----------------------------------------------------------------------------
(* The table *)

Used(i) == users[i].role # "none"
Named(n) == {i \in Ids : Used(i) /\ users[i].name = n}
Holder(n) == IF Named(n) = {} THEN NoId ELSE CHOOSE i \in Named(n) : TRUE

\* A new UUID.
Unused == {i \in Ids : ~Used(i)}
Fresh == CHOOSE i \in Unused : TRUE

\* mutant: the column username has no UNIQUE constraint
UniqueNever(n, i) == TRUE

\* The constraint UNIQUE of the column username, for a row i to be named n.
Unique(n, i) == Named(n) \subseteq {i}

\* row_to_user: what a row grants.  The old roles are read like from_role_legacy
\* reads them, and so is a row of the new schema that stores no permission.
OfRole(role) ==
    CASE role = "superadmin" -> All
      [] role \in {"admin", "user"} -> Assignable
      [] role = "operator" -> Operator
      [] role = "auditor" -> Auditor
      [] role = "none" -> {}

Effective(row) ==
    IF row.role = "superadmin" \/ row.grant = {} THEN OfRole(row.role) ELSE row.grant

IsSuper(i) == users[i].role = "superadmin"

\* validate_assignable
Valid(grant) ==
    /\ grant \subseteq Assignable
    /\ ManageAssets \in grant => ViewAssets \in grant

NewRow(n, pw, role, grant) ==
    [name |-> n, password |-> pw, role |-> role, grant |-> grant, enabled |-> TRUE]

----------------------------------------------------------------------------
(* What the server finds on its first start *)

\* "fresh": an empty database.  "credential": a version before the table users
\* kept one administrator in settings.  "roles": the four fixed roles.
RoleRows(i) ==
    LET a == CHOOSE j \in Ids : TRUE
        b == CHOOSE j \in Ids \ {a} : TRUE
    IN IF i = a THEN NewRow("superadmin", "old", "superadmin", {})
       ELSE IF i = b THEN NewRow("admin", "old", "operator", {})
       ELSE NoAccount

AccInit ==
    \E d \in Databases, u \in LegacyUsers :
      /\ schema = IF d = "roles" THEN "old" ELSE "new"
      /\ users = [i \in Ids |-> IF d = "roles" THEN RoleRows(i) ELSE NoAccount]
      /\ copy = [i \in Ids |-> NoAccount]
      /\ settings = IF d = "credential"
                    THEN [done |-> FALSE, user |-> u, hash |-> TRUE]
                    ELSE [done |-> FALSE, user |-> NoName, hash |-> FALSE]
      /\ proc = [p \in Procs |-> Off]
      /\ req = [r \in Requests |-> NoReq]
      /\ token = [i \in Ids |-> NoToken]
      /\ secret = 0 /\ served = 0 /\ stops = 0 /\ failures = 0 /\ imports = 0

----------------------------------------------------------------------------
(* Starting (main.rs), and the command line set-password, which begins alike *)

web == <<req, token, secret, served>>
Goes(p, label) == proc' = [proc EXCEPT ![p].at = label]

\* The command line is run beside a server that is up or down, not while it
\* starts; the server is not started while the command line runs.
Launch(p) ==
    /\ proc[p].at = "down"
    /\ IF p = "cli" THEN proc["server"].at \in {"up", "down"} /\ stops < MaxStops
                    ELSE proc["cli"].at = "down"
    /\ proc' = [proc EXCEPT ![p] = [Off EXCEPT !.at = "migrate"]]
    /\ stops' = IF p = "cli" THEN stops + 1 ELSE stops
    /\ UNCHANGED <<tables, web, failures, imports>>

\* migrate_users_to_per_account_permissions: nothing to do, or a transaction
\* that builds users_new.
Migrate(p) ==
    /\ proc[p].at = "migrate"
    /\ Goes(p, IF schema = "new" THEN "credential" ELSE "copy")
    /\ copy' = [i \in Ids |-> NoAccount]
    /\ UNCHANGED <<schema, users, settings, web, stops, failures, imports>>

\* mutant: operators are forgotten in the table of roles
ConvertedButOperators(row) ==
    CASE row.role = "superadmin" -> [row EXCEPT !.grant = {}]
      [] row.role = "admin" -> [row EXCEPT !.role = "user", !.grant = Assignable]
      [] row.role = "auditor" -> [row EXCEPT !.role = "user", !.grant = Auditor]
      [] OTHER -> [row EXCEPT !.role = "user", !.grant = {}]

\* perms_for_legacy_role
Converted(row) ==
    CASE row.role = "superadmin" -> [row EXCEPT !.grant = {}]
      [] row.role = "admin" -> [row EXCEPT !.role = "user", !.grant = Assignable]
      [] row.role = "operator" -> [row EXCEPT !.role = "user", !.grant = Operator]
      [] row.role = "auditor" -> [row EXCEPT !.role = "user", !.grant = Auditor]
      [] OTHER -> [row EXCEPT !.role = "user", !.grant = {}]

Uncopied == {i \in Ids : Used(i) /\ copy[i] = NoAccount}

CopyRow(p) ==
    /\ proc[p].at = "copy"
    /\ \E i \in Uncopied : copy' = [copy EXCEPT ![i] = Converted(users[i])]
    /\ UNCHANGED <<schema, users, settings, proc, web, stops, failures, imports>>

\* DROP TABLE users, RENAME users_new, COMMIT.
Commit(p) ==
    /\ proc[p].at = "copy" /\ Uncopied = {}
    /\ users' = copy /\ schema' = "new"
    /\ Goes(p, "credential")
    /\ UNCHANGED <<copy, settings, web, stops, failures, imports>>

\* mutant: the mark that the credential was imported is not looked at
ReadCredentialAgain(p) ==
    /\ proc[p].at = "credential"
    /\ proc' = [proc EXCEPT ![p].at = "superadmin",
                            ![p].legacy = IF ~settings.hash THEN NoName ELSE settings.user]
    /\ UNCHANGED <<tables, web, stops, failures, imports>>

\* load_legacy_credential_for_migration: both keys, unless they were imported.
ReadCredential(p) ==
    /\ proc[p].at = "credential"
    /\ proc' = [proc EXCEPT ![p].at = "superadmin",
                            ![p].legacy = IF settings.done \/ ~settings.hash
                                          THEN NoName ELSE settings.user]
    /\ UNCHANGED <<tables, web, stops, failures, imports>>

\* UserStore::bootstrap, first half: the superadmin.
CreateSuperadmin(p) ==
    /\ proc[p].at = "superadmin"
    /\ IF Named("superadmin") # {} THEN users' = users
       ELSE /\ Unused # {}
            /\ users' = [users EXCEPT ![Fresh] = NewRow("superadmin", "default", "superadmin", {})]
    /\ Goes(p, IF proc[p].legacy = NoName THEN "up" ELSE "import")
    /\ UNCHANGED <<schema, copy, settings, web, stops, failures, imports>>

\* legacy_admin_username
ImportName(n) == IF n = "superadmin" THEN "admin" ELSE n

\* Second half: the credential becomes an account, unless the name is taken.
Import(p) ==
    LET n == ImportName(proc[p].legacy) IN
    /\ proc[p].at = "import"
    /\ IF Named(n) # {} THEN UNCHANGED <<users, imports>>
       ELSE /\ Unused # {}
            /\ users' = [users EXCEPT ![Fresh] = NewRow(n, "old", "user", Assignable)]
            /\ imports' = imports + 1
    /\ Goes(p, "mark")
    /\ UNCHANGED <<schema, copy, settings, web, stops, failures>>

\* One of the three best-effort writes of mark_credential_migrated.
Settles(p, from, to, after) ==
    /\ proc[p].at = from
    /\ \/ settings' = after /\ UNCHANGED failures
       \/ settings' = settings /\ failures < MaxDbFailures /\ failures' = failures + 1
    /\ Goes(p, to)
    /\ UNCHANGED <<schema, users, copy, web, stops, imports>>

MarkMigrated(p) ==
    \/ Settles(p, "mark", "dropUser", [settings EXCEPT !.done = TRUE])
    \/ Settles(p, "dropUser", "dropHash", [settings EXCEPT !.user = NoName])
    \/ Settles(p, "dropHash", "up", [settings EXCEPT !.hash = FALSE])

\* run_set_password goes on to find its account...
FindTarget ==
    LET wanted == IF CliName # NoName /\ Named(CliName) # {} THEN CliName
                  ELSE IF Named("admin") # {} THEN "admin" ELSE "superadmin"
    IN
    /\ proc["cli"].at = "up"
    /\ proc' = [proc EXCEPT !["cli"].at = "rename", !["cli"].target = Holder(wanted)]
    /\ UNCHANGED <<tables, web, stops, failures, imports>>

\* mutant: set_username renames the superadmin like any account
MayRenameAny(i, n) == Unique(n, i)

\* set_username refuses the superadmin and a name that is taken.
MayRename(i, n) == ~IsSuper(i) /\ Unique(n, i)

\* ... to rename it if --user asks for a name nobody has...
CliRename ==
    LET i == proc["cli"].target IN
    /\ proc["cli"].at = "rename"
    /\ IF CliName \in {NoName, users[i].name} THEN users' = users /\ Goes("cli", "reset")
       ELSE IF MayRename(i, CliName)
       THEN users' = [users EXCEPT ![i].name = CliName] /\ Goes("cli", "reset")
       ELSE users' = users /\ Goes("cli", "down")
    /\ UNCHANGED <<schema, copy, settings, web, stops, failures, imports>>

\* ... and to write its password.
CliReset(pw) ==
    /\ proc["cli"].at = "reset"
    /\ users' = [users EXCEPT ![proc["cli"].target].password = pw]
    /\ Goes("cli", "down")
    /\ UNCHANGED <<schema, copy, settings, web, stops, failures, imports>>

\* The command line can be interrupted at any point, too.
Interrupt ==
    /\ proc["cli"].at # "down" /\ stops < MaxStops
    /\ proc' = [proc EXCEPT !["cli"] = Off]
    /\ copy' = [i \in Ids |-> NoAccount]
    /\ stops' = stops + 1
    /\ UNCHANGED <<schema, users, settings, web, failures, imports>>

\* The server stops, at whatever point: an open transaction is rolled back,
\* requests are forgotten and, unless it is set, the signing key is lost.
Stop ==
    /\ proc["server"].at # "down" /\ stops < MaxStops
    /\ proc' = [proc EXCEPT !["server"] = Off]
    /\ copy' = [i \in Ids |-> NoAccount]
    /\ req' = [r \in Requests |-> NoReq]
    /\ secret' = IF FixedSecret THEN secret ELSE secret + 1
    /\ stops' = stops + 1
    /\ UNCHANGED <<schema, users, settings, token, served, failures, imports>>

----------------------------------------------------------------------------
(* Requests (http.rs) *)

start == <<schema, copy, settings, proc, secret, stops, failures, imports>>
Serving == proc["server"].at = "up"
Done(r) == req' = [req EXCEPT ![r] = NoReq]
At(r, label) == req' = [req EXCEPT ![r].at = label]
Begins(r, q) ==
    /\ Serving /\ req[r] = NoReq /\ served < MaxRequests
    /\ req' = [req EXCEPT ![r] = q] /\ served' = served + 1
    /\ UNCHANGED <<start, users, token>>

\* Auth::validate: the claims must agree with the account as it is now.
Admits(i) ==
    /\ token[i] # NoToken /\ token[i].secret = secret
    /\ users[i].enabled /\ token[i].name = users[i].name
    /\ token[i].super = IsSuper(i)

\* The guard of every request that manages accounts.
Administrator == \E i \in Ids : Admits(i) /\ ManageUsers \in Effective(users[i])

\* POST /api/login: the claims of the token are the account as it was read; a
\* token that ages while the login is logged is refused by Auth::validate, and
\* so is one that has expired, which takes away nothing but possibilities.
Login(n, pw) ==
    LET i == Holder(n) IN
    /\ Serving /\ i # NoId /\ users[i].enabled /\ users[i].password = pw
    /\ token' = [token EXCEPT ![i] =
                   [name |-> users[i].name, super |-> IsSuper(i), secret |-> secret]]
    /\ UNCHANGED <<start, users, req, served>>

\* POST /api/users: permissions, then the name, are checked...
Create(r, c) ==
    /\ Administrator /\ Valid(c.grant) /\ Named(c.name) = {}
    /\ Begins(r, [NoReq EXCEPT !.at = "insert", !.name = c.name, !.grant = c.grant,
                               !.enabled = c.enabled])

\* ... the row is inserted enabled, if the name is still free...
Insert(r) ==
    LET q == req[r] IN
    /\ q.at = "insert" /\ Unused # {}
    /\ IF Unique(q.name, NoId)
       THEN /\ users' = [users EXCEPT ![Fresh] = NewRow(q.name, "default", "user", q.grant)]
            /\ IF q.enabled = "off"
               THEN req' = [req EXCEPT ![r].at = "disable", ![r].id = Fresh]
               ELSE Done(r)
       ELSE UNCHANGED users /\ Done(r)
    /\ UNCHANGED <<start, token, served>>

\* ... and disabled by a second statement.
Disable(r) ==
    /\ req[r].at = "disable"
    /\ users' = [users EXCEPT ![req[r].id].enabled = FALSE]
    /\ Done(r)
    /\ UNCHANGED <<start, token, served>>

\* PATCH /api/users/:id sets permissions, then the name, then whether the
\* account is enabled, and stops at the first that is refused.
Patch(r, i, c) ==
    /\ Administrator /\ Used(i)
    /\ Begins(r, [NoReq EXCEPT !.at = "grant", !.id = i, !.granting = c.granting,
                               !.grant = c.grant, !.name = c.name, !.enabled = c.enabled])

\* UserStore::set_permissions
SetPermissions(r) ==
    LET q == req[r] IN
    /\ q.at = "grant"
    /\ IF ~q.granting THEN UNCHANGED users /\ At(r, "check")
       ELSE IF IsSuper(q.id) \/ ~Valid(q.grant) THEN UNCHANGED users /\ Done(r)
       ELSE users' = [users EXCEPT ![q.id].grant = q.grant] /\ At(r, "check")
    /\ UNCHANGED <<start, token, served>>

\* mutant: a request without a name takes the name away
CheckNameAlways(r) ==
    LET q == req[r] IN
    /\ q.at = "check"
    /\ IF MayRename(q.id, q.name) THEN At(r, "rename") ELSE Done(r)
    /\ UNCHANGED <<start, users, token, served>>

\* UserStore::set_username looks whether it may...
CheckName(r) ==
    LET q == req[r] IN
    /\ q.at = "check"
    /\ IF q.name = NoName THEN At(r, "enable")
       ELSE IF MayRename(q.id, q.name) THEN At(r, "rename")
       ELSE Done(r)
    /\ UNCHANGED <<start, users, token, served>>

\* ... and writes; the constraint on the column has the last word.
Rename(r) ==
    LET q == req[r] IN
    /\ q.at = "rename"
    /\ IF Unique(q.name, q.id)
       THEN users' = [users EXCEPT ![q.id].name = q.name] /\ At(r, "enable")
       ELSE UNCHANGED users /\ Done(r)
    /\ UNCHANGED <<start, token, served>>

\* UserStore::set_enabled does not disable the superadmin.
MayDisable(i) == ~IsSuper(i)

SetEnabled(r) ==
    LET q == req[r] IN
    /\ q.at = "enable"
    /\ users' = CASE q.enabled = "on" -> [users EXCEPT ![q.id].enabled = TRUE]
                  [] q.enabled = "off" /\ MayDisable(q.id) ->
                       [users EXCEPT ![q.id].enabled = FALSE]
                  [] OTHER -> users
    /\ Done(r)
    /\ UNCHANGED <<start, token, served>>

\* POST /api/users/:id/reset-password
ResetPassword(r, i, pw) ==
    /\ Serving /\ Administrator /\ Used(i) /\ served < MaxRequests
    /\ users' = [users EXCEPT ![i].password = pw]
    /\ served' = served + 1
    /\ UNCHANGED <<start, req, token>>

\* POST /api/me/password (change_credential) reads the account and checks the
\* old password...
ChangePassword(r, i, old, pw) ==
    /\ Admits(i) /\ users[i].password = old
    /\ Begins(r, [NoReq EXCEPT !.at = "available", !.id = i, !.password = pw,
                               !.read = users[i].name])

\* ... looks whether the name it read is free but for this account...
NameAvailable(r) ==
    LET q == req[r] IN
    /\ q.at = "available"
    /\ IF Unique(q.read, q.id) THEN At(r, "change") ELSE Done(r)
    /\ UNCHANGED <<start, users, token, served>>

\* ... and writes the password, and with it the name it read.
Change(r) ==
    LET q == req[r] IN
    /\ q.at = "change"
    /\ users' = IF Unique(q.read, q.id)
                THEN [users EXCEPT ![q.id].name = q.read, ![q.id].password = q.password]
                ELSE users
    /\ Done(r)
    /\ UNCHANGED <<start, token, served>>

AccNext ==
    \/ \E p \in Procs : \/ Launch(p) \/ Migrate(p) \/ CopyRow(p) \/ Commit(p)
                         \/ ReadCredential(p) \/ CreateSuperadmin(p) \/ Import(p)
                         \/ MarkMigrated(p)
    \/ FindTarget \/ CliRename \/ (\E pw \in NewPasswords : CliReset(pw))
    \/ Interrupt \/ Stop
    \/ \E n \in Names, pw \in Passwords : Login(n, pw)
    \/ \E r \in Requests :
          \/ \E c \in Creations : Create(r, c)
          \/ \E i \in Ids, c \in Patches : Patch(r, i, c)
          \/ \E i \in Ids, pw \in NewPasswords : ResetPassword(r, i, pw)
          \/ \E i \in Ids, old \in Passwords, pw \in NewPasswords : ChangePassword(r, i, old, pw)
          \/ Insert(r) \/ Disable(r) \/ SetPermissions(r)
          \/ CheckName(r) \/ Rename(r) \/ SetEnabled(r) \/ NameAvailable(r) \/ Change(r)

AccSpec == AccInit /\ [][AccNext]_accVars

----------------------------------------------------------------------------
(* Properties *)

\* No two accounts have one name, however requests that name accounts overlap:
\* the check is made in one statement and the write in another (users.rs).
NamesUnique == \A i, j \in Ids : Used(i) /\ Used(j) /\ users[i].name = users[j].name => i = j

\* A server that is up has one superadmin: named so, never disabled, and not
\* joined by a second one on a later start (users.rs, bootstrap looks for the
\* name alone).
OneSuperadmin ==
    Serving => \E i \in Ids : /\ IsSuper(i) /\ users[i].enabled
                              /\ users[i].name = "superadmin"
                              /\ \A j \in Ids : IsSuper(j) => j = i

\* The old credential becomes an account at most once, whatever start is
\* interrupted, whichever write of the mark fails, and whoever renames the
\* account (settings.rs: a renamed account is not to be revived).
ImportedOnce == imports <= 1

\* What the rows of a schema grant: of_role before the migration, row_to_user
\* after it.
GrantedBy(s, row) == IF s = "old" THEN OfRole(row.role) ELSE Effective(row)

\* Starting, stopping and the migration leave every account with its name, its
\* password and what it may do (db.rs: one transaction, no half state).
StartKeepsAccounts ==
    [][(\E p \in Procs : proc'[p] # proc[p] /\ proc[p].at \notin {"up", "rename", "reset"})
       => \A i \in Ids : Used(i) =>
            /\ users'[i].name = users[i].name /\ users'[i].password = users[i].password
            /\ users'[i].enabled = users[i].enabled
            /\ GrantedBy(schema', users'[i]) = GrantedBy(schema, users[i])]_accVars
=============================================================================
