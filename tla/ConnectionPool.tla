----------------------------- MODULE ConnectionPool -----------------------------
(***************************************************************************)
(* The connections to the database, of which the process has so many       *)
(* (database_engine, backend/app/location_database.py), under the one      *)
(* transaction that takes two: the claim of a message that names a shelter *)
(* (NotificationStore.claim, notifications.py) holds a connection, the     *)
(* message's row and later the lock of the send limit, and asks for a      *)
(* second connection to read the shelter on.                               *)
(*                                                                         *)
(* What is waited for may be held by another claim that waits as well.     *)
(* Nothing but the time-outs of the pool and of statements ends such waits.*)
(* A step's wait stands for one statement's, though it may run several.    *)
(***************************************************************************)
EXTENDS Integers, FiniteSets

CONSTANTS
    Claim,            \* requests to send
    Message,          \* drafts
    Sheltered,        \* those that name a shelter
    Size,             \* pool_size with max_overflow
    PoolTimeout, StatementTimeout,
    MaxClock,         \* bound
    None

VARIABLES
    clock,
    out,       \* connections checked out
    row,       \* who has locked each message's row
    dispatch,  \* who has the lock of the send limit
    sent,      \* messages no longer drafts
    claim      \* where each claim is, until when it waits, and since when it is under way

poolVars == <<clock, out, row, dispatch, sent, claim>>

-----------------------------------------------------------------------------
Idle == [pc |-> "idle", message |-> None, until |-> 0, since |-> 0]

Init ==
    /\ clock = 0 /\ out = 0 /\ row = [m \in Message |-> None] /\ dispatch = None /\ sent = {}
    /\ claim = [c \in Claim |-> Idle]

Limit(pc) == IF pc \in {"connect", "second"} THEN PoolTimeout ELSE StatementTimeout

To(c, pc) == claim' = [claim EXCEPT ![c].pc = pc, ![c].until = clock + Limit(pc)]

\* The connections a claim has.
Has(pc) == CASE pc \in {"idle", "connect"} -> 0 [] pc = "shelter" -> 2 [] OTHER -> 1

\* Commit or rollback: locks and connections are given back.
Leave(c) ==
    /\ out' = out - Has(claim[c].pc)
    /\ row' = [m \in Message |-> IF row[m] = c THEN None ELSE row[m]]
    /\ dispatch' = IF dispatch = c THEN None ELSE dispatch
    /\ claim' = [claim EXCEPT ![c] = Idle]

Begin(c, m) ==
    /\ claim[c].pc = "idle"
    /\ claim' = [claim EXCEPT ![c] = [pc |-> "connect", message |-> m, until |-> clock + Limit("connect"), since |-> clock]]
    /\ UNCHANGED <<clock, out, row, dispatch, sent>>

\* engine.begin and engine.connect.
CheckOut(c) ==
    /\ out < Size /\ out' = out + 1
    /\ \/ claim[c].pc = "connect" /\ To(c, "row")
       \/ claim[c].pc = "second" /\ To(c, "shelter")
    /\ UNCHANGED <<clock, row, dispatch, sent>>

\* The row is locked, and the message is still a draft.
LockRow(c) ==
    LET m == claim[c].message IN
    /\ claim[c].pc = "row" /\ row[m] = None /\ m \notin sent
    /\ row' = [row EXCEPT ![m] = c]
    /\ To(c, IF m \in Sheltered THEN "second" ELSE "dispatch")
    /\ UNCHANGED <<clock, out, dispatch, sent>>

\* "Already claimed: never call Telegram again."
Claimed(c) ==
    /\ claim[c].pc = "row" /\ claim[c].message \in sent /\ row[claim[c].message] = None
    /\ Leave(c) /\ UNCHANGED <<clock, sent>>

\* available_shelter: the shelter is as it was reviewed, and its connection goes back.
ReadShelter(c) ==
    /\ claim[c].pc = "shelter" /\ out' = out - 1 /\ To(c, "dispatch")
    /\ UNCHANGED <<clock, row, dispatch, sent>>

LockDispatch(c) ==
    /\ claim[c].pc = "dispatch" /\ dispatch = None
    /\ dispatch' = c /\ To(c, "commit")
    /\ UNCHANGED <<clock, out, row, sent>>

Commit(c) ==
    /\ claim[c].pc = "commit"
    /\ sent' = sent \cup {claim[c].message} /\ Leave(c) /\ UNCHANGED clock

\* A refusal, an error, or what it waits for has not come in time.
Fail(c) ==
    /\ claim[c].pc # "idle"
    /\ Leave(c) /\ UNCHANGED <<clock, sent>>

\* No wait goes on past its time-out.
Tick ==
    /\ clock < MaxClock /\ \A c \in Claim : claim[c].pc # "idle" => claim[c].until > clock
    /\ clock' = clock + 1
    /\ UNCHANGED <<out, row, dispatch, sent, claim>>

Next ==
    \/ \E c \in Claim :
          \/ \E m \in Message : Begin(c, m)
          \/ CheckOut(c) \/ LockRow(c) \/ Claimed(c) \/ ReadShelter(c) \/ LockDispatch(c) \/ Commit(c) \/ Fail(c)
    \/ Tick

Spec == Init /\ [][Next]_poolVars

-----------------------------------------------------------------------------
(* Properties.                                                             *)

\* However claims keep each other waiting, each is over after its own waits: two
\* for a connection at most, four for statements; and when they are, no connection
\* and no lock is lost: those checked out are the ones claims hold, one each and a
\* second only to read a shelter, and a lock has a holder that is still there.
PoolKept ==
    LET Busy == {c \in Claim : claim[c].pc # "idle"}
        Holding == {c \in Busy : claim[c].pc # "connect"} IN
    /\ \A c \in Busy : clock - claim[c].since <= 2 * PoolTimeout + 4 * StatementTimeout
    /\ out = Cardinality(Holding) + Cardinality({c \in Busy : claim[c].pc = "shelter"}) /\ out <= Size
    /\ \A m \in Message : row[m] # None => row[m] \in Holding /\ claim[row[m]].message = m
    /\ dispatch # None => row[claim[dispatch].message] = dispatch
===============================================================================
