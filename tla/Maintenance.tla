------------------------------ MODULE Maintenance ------------------------------
(***************************************************************************)
(* The database of a laptop and who may use it: the migrations, the        *)
(* upgrade (scripts/upgrade_database.py), the grants of the application's  *)
(* role and their check (backend/app/mvp_database.py), the check with      *)
(* which the application starts (scripts/app_launcher.sh), and the set-up  *)
(* of an administrator (scripts/setup_admin.py).                           *)
(*                                                                         *)
(* Runs of the scripts meet in the database only.  Each reads it, asks its *)
(* person or another program, and changes it in a later transaction.       *)
(***************************************************************************)
EXTENDS Integers, Sequences

CONSTANTS
    Upgrade,  \* runs of upgrade-database.sh
    Setup,    \* runs of setup-admin.sh, all for one username, each with its own password
    None

VARIABLES
    version,    \* alembic_version
    tables,     \* that are there
    usable,     \* tables the application's role has all its privileges on
    alterable,  \* histories it may also change: a grant made by hand
    upgrade,
    setup,
    account,    \* the username's: its password, who made it, and who set the password
    app         \* "down" or "up"

maintenanceVars == <<version, tables, usable, alterable, upgrade, setup, account, app>>

-----------------------------------------------------------------------------
location_directory == {"districts", "active"}
emergency_shelters == {"admins", "sessions", "limits", "shelters", "shelter_audit"}
admin_notifications == {"notifications"}
citizen_reports == {"reports", "images", "report_audit"}
telegram_subscriptions == {"subscriptions", "subscription_audit"}
report_position_provenance == {"positions"}
telegram_district_alerts == {"district_subscribers", "district_subscriptions", "district_audit", "district_notifications", "deliveries"}

Migrations == <<location_directory, emergency_shelters, admin_notifications, citizen_reports,
                telegram_subscriptions, report_position_provenance, telegram_district_alerts>>
\* get_current_head
Latest == Len(Migrations)

TablesOf(v) == UNION {Migrations[i] : i \in 1 .. v}

\* The tables the application needs, of every migration.
APP_PRIVILEGES == TablesOf(Latest)
Histories == {"shelter_audit", "report_audit", "subscription_audit", "district_audit", "deliveries"}

check_app_connection == APP_PRIVILEGES \subseteq tables /\ APP_PRIVILEGES \subseteq usable /\ Histories \cap alterable = {}

NewUpgrade == [pc |-> "new", from |-> 0]
NewSetup == [pc |-> "new", password |-> None, created |-> FALSE]

Init ==
    /\ version \in {5, Latest} /\ tables = TablesOf(version) /\ usable \in {{}, TablesOf(5), tables}
    /\ alterable \in {{}, {"shelter_audit"}}
    /\ upgrade = [u \in Upgrade |-> NewUpgrade] /\ setup = [s \in Setup |-> NewSetup]
    /\ account \in {None, [password |-> "old", made |-> "before", set |-> "before"]} /\ app = "down"

-----------------------------------------------------------------------------
To(u, pc) == upgrade' = [upgrade EXCEPT ![u].pc = pc]

\* The version that is there; with --check that is all.
Read(u, check) ==
    /\ upgrade[u].pc = "new"
    /\ To(u, IF check THEN "checked" ELSE IF version = Latest THEN "current" ELSE "behind")
    /\ UNCHANGED <<version, tables, usable, alterable, setup, account, app>>

\* command.upgrade reads it again, in the transaction of all migrations.
Begin(u) ==
    /\ upgrade[u].pc = "behind"
    /\ upgrade' = [upgrade EXCEPT ![u] = [pc |-> "migrating", from |-> version]]
    /\ UNCHANGED <<version, tables, usable, alterable, setup, account, app>>

\* A table that another run has created meanwhile cannot be created.
New(u) == TablesOf(Latest) \ TablesOf(upgrade[u].from)

Commit(u) ==
    /\ upgrade[u].pc = "migrating"
    /\ IF New(u) \cap tables = {}
       THEN tables' = tables \cup New(u) /\ version' = Latest /\ To(u, "current")
       ELSE UNCHANGED <<tables, version>> /\ To(u, "failed")
    /\ UNCHANGED <<usable, alterable, setup, account, app>>

\* grant_app_role gives what is needed, and takes nothing away.
grant_app_role(u) ==
    /\ upgrade[u].pc = "current"
    /\ IF APP_PRIVILEGES \subseteq tables
       THEN usable' = usable \cup APP_PRIVILEGES /\ To(u, "granted")
       ELSE UNCHANGED usable /\ To(u, "failed")
    /\ UNCHANGED <<version, tables, alterable, setup, account, app>>

\* As the application's role: "./floodpulse.sh will start", or not.
Verify(u) ==
    /\ upgrade[u].pc = "granted" /\ To(u, IF check_app_connection THEN "announced" ELSE "failed")
    /\ UNCHANGED <<version, tables, usable, alterable, setup, account, app>>

\* Out of reach, a role that may not be granted to, an interruption: the open
\* transaction is rolled back.
UpgradeFails(u) ==
    /\ upgrade[u].pc \in {"new", "behind", "migrating", "current", "granted"} /\ To(u, "failed")
    /\ UNCHANGED <<version, tables, usable, alterable, setup, account, app>>

\* A grant made by hand is taken back.
Repair ==
    /\ alterable # {} /\ alterable' = {}
    /\ UNCHANGED <<version, tables, usable, upgrade, setup, account, app>>

\* The start checks the schema, the grants and the histories before anything runs.
Launch ==
    /\ app = "down" /\ check_app_connection /\ app' = "up"
    /\ UNCHANGED <<version, tables, usable, alterable, upgrade, setup, account>>

Stop ==
    /\ app = "up" /\ app' = "down"
    /\ UNCHANGED <<version, tables, usable, alterable, upgrade, setup, account>>

-----------------------------------------------------------------------------
Stand(s, pc) == setup' = [setup EXCEPT ![s].pc = pc]

check_database(s) ==
    /\ setup[s].pc = "new" /\ Stand(s, IF version = Latest THEN "checked" ELSE "failed")
    /\ UNCHANGED <<version, tables, usable, alterable, upgrade, account, app>>

\* Whether the account is there is asked before the password is typed.
private_inputs(s, verifyOnly, password) ==
    /\ setup[s].pc = "checked"
    /\ setup' = [setup EXCEPT ![s].password = password,
           ![s].pc = IF verifyOnly # (account # None) THEN "failed" ELSE IF verifyOnly THEN "login" ELSE "typed"]
    /\ UNCHANGED <<version, tables, usable, alterable, upgrade, account, app>>

\* Mutant: that it was not there before is enough.
Believed == TRUE

\* provision looks for the account again and locks it; the username is unique.
Absent == account = None

Made(s) == [password |-> setup[s].password, made |-> s, set |-> s]

provision(s) ==
    /\ setup[s].pc = "typed"
    /\ IF Absent
       THEN account' = Made(s) /\ setup' = [setup EXCEPT ![s].pc = "login", ![s].created = TRUE]
       ELSE UNCHANGED account /\ Stand(s, "failed")
    /\ UNCHANGED <<version, tables, usable, alterable, upgrade, app>>

\* The account is made, but the run ends before it knows.
ProvisionUnanswered(s) ==
    /\ setup[s].pc = "typed" /\ Absent /\ account' = Made(s) /\ Stand(s, "failed")
    /\ UNCHANGED <<version, tables, usable, alterable, upgrade, app>>

\* A browser signs in at the running application, with the password typed.
verify_browser(s) ==
    /\ setup[s].pc = "login"
    /\ Stand(s, IF app = "up" /\ account.password = setup[s].password THEN "verified" ELSE "failed")
    /\ UNCHANGED <<version, tables, usable, alterable, upgrade, account, app>>

\* Cancelled, out of reach, a browser that does not pass or a receipt that cannot be
\* written; what has been created is said to be.
SetupFails(s) ==
    /\ setup[s].pc \in {"new", "checked", "typed", "login", "verified"} /\ Stand(s, "failed")
    /\ UNCHANGED <<version, tables, usable, alterable, upgrade, account, app>>

\* Another command resets a password, and only when told to.
ResetPassword ==
    /\ account # None /\ account' = [account EXCEPT !.password = "reset", !.set = "reset"]
    /\ UNCHANGED <<version, tables, usable, alterable, upgrade, setup, app>>

Next ==
    \/ \E u \in Upgrade :
          \/ \E check \in BOOLEAN : Read(u, check)
          \/ Begin(u) \/ Commit(u) \/ grant_app_role(u) \/ Verify(u) \/ UpgradeFails(u)
    \/ \E s \in Setup :
          \/ check_database(s) \/ provision(s) \/ ProvisionUnanswered(s) \/ verify_browser(s) \/ SetupFails(s)
          \/ \E verifyOnly \in BOOLEAN, password \in {s, "old"} : private_inputs(s, verifyOnly, password)
    \/ Repair \/ Launch \/ Stop \/ ResetPassword

Spec == Init /\ [][Next]_maintenanceVars

-----------------------------------------------------------------------------
(* Properties.                                                             *)

\* However two upgrades interleave, and wherever one breaks off, the schema is that
\* of its version; the application runs, or is said to start, only when it can use
\* every table of every migration and change no history (upgrade_database.py:61).
\* A set-up never changes an account it did not make ("this command never resets
\* accounts", setup_admin.py:94), and says it created one only if it did.
MaintenanceHonest ==
    /\ tables = UNION {Migrations[i] : i \in 1 .. version}
    /\ app = "up" \/ (\E u \in Upgrade : upgrade[u].pc = "announced") =>
          /\ version = Len(Migrations) /\ \A i \in DOMAIN Migrations : Migrations[i] \subseteq usable
          /\ alterable = {}
    /\ account # None => account.set \in {account.made, "reset"}
    /\ \A s \in Setup : setup[s].created => account # None /\ account.made = s
===============================================================================
