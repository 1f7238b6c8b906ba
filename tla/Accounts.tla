-------------------------------- MODULE Accounts --------------------------------
(***************************************************************************)
(* Administrator sessions and the attempt limits: ShelterStore.login,      *)
(* session and logout (backend/app/shelters.py), the password hasher       *)
(* (shelter_security.py), the set-up of an account                         *)
(* (provision_shelter_admin.py), and ReportStore.reserve (reports.py),     *)
(* which counts reports in the same table, under a lock of its own.        *)
(*                                                                         *)
(* A request reads the time first; the window it is counted in begins at   *)
(* the last quarter of an hour.  Only then does it wait for the lock under *)
(* which it is counted.  One account is modelled; its password is a        *)
(* number, raised by every reset.                                          *)
(***************************************************************************)
EXTENDS Integers, Sequences, FiniteSets

CONSTANTS
    Request,   \* logins and reports, each once
    Peer,      \* addresses they come from
    Maximum,   \* of a kind of key: "peer", "account", "total", "address"
    Window,    \* quarter of an hour
    Hour, Lifetime, Idle,   \* an hour, 8 hours, 30 minutes
    Gate,      \* passwords hashed at the same time
    Patience,  \* until a connection, the lock and the statements under it are waited for
    MaxReset,  \* bound: resets
    MaxClock,  \* bound
    None

VARIABLES
    clock,
    limits,    \* key |-> start of a window and attempts; no row is None
    password,  \* of the account
    sessions,
    attempt,   \* what each request is doing
    counted,   \* history: windows of the counted requests of each key, in order
    missed,    \* history: windows of the reports let through without being counted
    overtaken  \* history: logins whose password had been read when it was reset

accountVars == <<clock, limits, password, sessions, attempt, counted, missed, overtaken>>

LimitKey == ({"peer", "address"} \X Peer) \cup ({"account", "total"} \X {None})
Total == <<"total", None>>

-----------------------------------------------------------------------------
New == [pc |-> "new", kind |-> None, peer |-> None, at |-> 0, given |-> 0, read |-> None,
        row |-> FALSE, lost |-> {}]

\* Someone may have failed to log in, and reported, longer than an hour ago.
Earlier == [start |-> -(Hour + Window), attempts |-> 1]

Init ==
    /\ clock = 0 /\ password = 1 /\ sessions = {}
    /\ \E visitors \in {{}} \cup {{p} : p \in Peer} :
          limits = [k \in LimitKey |->
              IF visitors # {} /\ k[2] \in visitors \cup {None} THEN Earlier ELSE None]
    /\ counted = [k \in LimitKey |-> IF limits[k] = None THEN <<>> ELSE <<Earlier.start>>]
    /\ attempt = [r \in Request |-> New] /\ missed = [k \in LimitKey |-> <<>>] /\ overtaken = {}

\* A login with the password of some time, or a report; the time is read now.
Come(r, kind, peer, given) ==
    /\ attempt[r].pc = "new"
    /\ attempt' = [attempt EXCEPT ![r] =
           [New EXCEPT !.pc = "uncounted", !.kind = kind, !.peer = peer, !.at = clock, !.given = given]]
    /\ UNCHANGED <<clock, limits, password, sessions, counted, missed, overtaken>>

\* A request without a session is answered; what it came with is gone.
Over == [New EXCEPT !.pc = "over"]

Start(r) == attempt[r].at - (attempt[r].at % Window)
Used(table, k, start) == IF table[k] # None /\ table[k].start = start THEN table[k].attempts ELSE 0

May(table, k, start) == Used(table, k, start) < Maximum[k[1]]

\* A request of this window is counted for the keys.
Count(table, keys, start) ==
    /\ limits' = [k \in LimitKey |-> IF k \in keys
                    THEN [start |-> start, attempts |-> Used(table, k, start) + 1] ELSE table[k]]
    /\ counted' = [k \in LimitKey |-> IF k \in keys THEN Append(counted[k], start) ELSE counted[k]]

\* Rows of the hour before last go at every login.
Purged(start) == [k \in LimitKey |-> IF limits[k] # None /\ limits[k].start < start - Hour THEN None ELSE limits[k]]

\* The row of all reports, once updated, stays until its transaction is over.
Rewritten(k) == k = Total /\ \E r \in Request : attempt[r].pc = "address" /\ k \notin attempt[r].lost

\* login, under its lock: the address is counted even if the account is blocked.
\* With the count, the hash of the password is read.
CountLogin(r) ==
    LET peer == <<"peer", attempt[r].peer>>
        account == <<"account", None>>
        start == Start(r)
        table == Purged(start) IN
    /\ attempt[r].pc = "uncounted" /\ attempt[r].kind = "login"
    /\ \A k \in LimitKey : Rewritten(k) => table[k] = limits[k]
    /\ IF May(table, peer, start) /\ May(table, account, start)
       THEN /\ attempt' = [attempt EXCEPT ![r].pc = "counted", ![r].read = password]
            /\ Count(table, {peer, account}, start)
       ELSE /\ attempt' = [attempt EXCEPT ![r] = Over]
            /\ Count(table, IF May(table, peer, start) THEN {peer} ELSE {}, start)
    /\ UNCHANGED <<clock, password, sessions, missed, overtaken>>

\* reserve has its own lock, under which only the rows of reports change.
Reserving == {r \in Request : attempt[r].pc \in {"total", "address"}}

\* The row is looked up; what is refused leaves no trace.
Select(r, k, pc, lost) ==
    attempt' = [attempt EXCEPT ![r] = IF May(limits, k, Start(r))
                  THEN [@ EXCEPT !.pc = pc, !.row = (limits[k] # None), !.lost = lost] ELSE Over]

\* A row that was found and that a login has purged since: its update changes
\* nothing (reports.py:142, shelters.py:100).
Gone(r, k) == attempt[r].row /\ limits[k] = None

SelectTotal(r) ==
    /\ attempt[r].pc = "uncounted" /\ attempt[r].kind = "report" /\ Reserving = {}
    /\ Select(r, Total, "total", {})
    /\ UNCHANGED <<clock, limits, password, sessions, counted, missed, overtaken>>

\* The row of all reports is updated or inserted, seen by others at the commit.
SelectAddress(r) ==
    /\ attempt[r].pc = "total"
    /\ Select(r, <<"address", attempt[r].peer>>, "address", IF Gone(r, Total) THEN {Total} ELSE {})
    /\ UNCHANGED <<clock, limits, password, sessions, counted, missed, overtaken>>

\* The row of the address too, and the transaction commits.
CountReport(r) ==
    LET address == <<"address", attempt[r].peer>>
        lost == attempt[r].lost \cup IF Gone(r, address) THEN {address} ELSE {} IN
    /\ attempt[r].pc = "address"
    /\ attempt' = [attempt EXCEPT ![r] = Over]
    /\ Count(limits, {Total, address} \ lost, Start(r))
    /\ missed' = [k \in LimitKey |-> IF k \in lost THEN Append(missed[k], Start(r)) ELSE missed[k]]
    /\ UNCHANGED <<clock, password, sessions, overtaken>>

\* A request that is about to be counted.
Pending(r) == attempt[r].pc \in {"uncounted", "total", "address"}

\* execute: no connection, a statement that takes too long, or a deadlock of a purge
\* with a report: the transaction leaves no trace.
Unavailable(r) ==
    /\ Pending(r)
    /\ attempt' = [attempt EXCEPT ![r] = Over]
    /\ UNCHANGED <<clock, limits, password, sessions, counted, missed, overtaken>>

Hashing == {r \in Request : attempt[r].pc = "hashing"}

Hash(r) ==
    /\ attempt[r].pc = "counted" /\ Cardinality(Hashing) < Gate
    /\ attempt' = [attempt EXCEPT ![r].pc = "hashing"]
    /\ UNCHANGED <<clock, limits, password, sessions, counted, missed, overtaken>>

\* No place at the gate for a second: told to come back.
Busy(r) ==
    /\ attempt[r].pc = "counted" /\ Cardinality(Hashing) = Gate
    /\ attempt' = [attempt EXCEPT ![r] = Over]
    /\ UNCHANGED <<clock, limits, password, sessions, counted, missed, overtaken>>

Verify(r) ==
    /\ attempt[r].pc = "hashing"
    /\ attempt' = IF attempt[r].given = attempt[r].read THEN [attempt EXCEPT ![r].pc = "verified"]
                  ELSE [attempt EXCEPT ![r] = Over]
    /\ UNCHANGED <<clock, limits, password, sessions, counted, missed, overtaken>>

\* The session counts from when the login came.
Open(r) ==
    LET at == attempt[r].at IN
    /\ attempt[r].pc = "verified"
    /\ limits' = [limits EXCEPT ![<<"account", None>>] = None]
    /\ sessions' = {s \in sessions : s.expires > at} \cup
           {[by |-> r, password |-> attempt[r].read, seen |-> at, expires |-> at + Lifetime]}
    /\ attempt' = [attempt EXCEPT ![r].pc = "open"]
    /\ UNCHANGED <<clock, password, counted, missed, overtaken>>

Lapsed(s) == s.expires <= clock \/ s.seen + Idle <= clock

\* session, for every authorized request: one that is over is removed.
Use(s) ==
    /\ sessions' = (sessions \ {s}) \cup (IF Lapsed(s) THEN {} ELSE {[s EXCEPT !.seen = clock]})
    /\ UNCHANGED <<clock, limits, password, attempt, counted, missed, overtaken>>

logout(s) ==
    /\ ~Lapsed(s) /\ sessions' = sessions \ {s}
    /\ UNCHANGED <<clock, limits, password, attempt, counted, missed, overtaken>>

\* Mutant: who is logged in stays so.
Nobody == {}

\* Sessions that a reset ends: those there are.
Ended == sessions

\* provision --reset-password
Reset ==
    /\ password <= MaxReset /\ password' = password + 1
    /\ sessions' = sessions \ Ended
    /\ overtaken' = overtaken \cup {r \in Request : attempt[r].pc \in {"counted", "hashing", "verified"}}
    /\ UNCHANGED <<clock, limits, attempt, counted, missed>>

Tick ==
    /\ clock < MaxClock /\ (\A r \in Request : Pending(r) => attempt[r].at + Patience > clock)
    /\ clock' = clock + 1
    /\ UNCHANGED <<limits, password, sessions, attempt, counted, missed, overtaken>>

Next ==
    \/ \E r \in Request :
          \/ \E peer \in Peer : Come(r, "report", peer, 0)
          \/ \E peer \in Peer, given \in 1 .. MaxReset + 1 : Come(r, "login", peer, given)
          \/ CountLogin(r) \/ SelectTotal(r) \/ SelectAddress(r) \/ CountReport(r)
          \/ Unavailable(r) \/ Hash(r) \/ Busy(r) \/ Verify(r) \/ Open(r)
    \/ \E s \in sessions : Use(s) \/ logout(s)
    \/ Reset \/ Tick

Spec == Init /\ [][Next]_accountVars

-----------------------------------------------------------------------------
(* Properties.                                                             *)

\* Requests counted in a window after one of a later window.
Late(k) == {i \in DOMAIN counted[k] : \E j \in 1 .. i - 1 : counted[k][j] > counted[k][i]}
InWindow(k, w) == {i \in DOMAIN counted[k] : counted[k][i] = w}

\* No more logins of an address, reports of an address and reports in all are
\* counted in a quarter of an hour than allowed.  A request that waited for the
\* lock into the next quarter puts the count of that one back, once for each: the
\* window is chosen before the wait (shelters.py:95, reports.py:132).  And each
\* quarter at most one report is let through without being counted: a login may
\* delete the row, older than an hour, between reserve's select and its update
\* (reports.py:137-142 against shelters.py:100, under different locks).
AttemptsKept ==
    \A k \in LimitKey : k[1] # "account" =>
        /\ \A i \in DOMAIN counted[k] :
              Cardinality(InWindow(k, counted[k][i])) <= Maximum[k[1]] * (1 + Cardinality(Late(k)))
        /\ \A i, j \in DOMAIN missed[k] : missed[k][i] = missed[k][j] => i = j

\* Who is logged in gave the password of the account, and gave it since the last
\* reset, but for a login that was under way when the reset came.
SessionsEarned ==
    \A s \in sessions :
        /\ attempt[s.by].given = s.password
        /\ s.password # password => s.by \in overtaken
===============================================================================
