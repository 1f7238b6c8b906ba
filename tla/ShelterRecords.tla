---------------------------- MODULE ShelterRecords ----------------------------
(***************************************************************************)
(* Emergency shelters and their verification: ShelterStore.save, rows and  *)
(* history of backend/app/shelters.py.                                     *)
(*                                                                         *)
(* Administrators edit what their page showed.  A save takes its time and  *)
(* mode first, then waits for the shelter's row, compares the revision,    *)
(* writes the row with its audit entry and commits.  The public list shows *)
(* shelters that are open and were verified less than Valid hours ago.     *)
(***************************************************************************)
EXTENDS Integers, Sequences

CONSTANTS
    Shelter, Admin, Thread,
    Facts,       \* name, address, entrance, capacity, occupancy ...
    WithRoom,    \* the facts whose occupancy is below the capacity
    Modes,       \* values of SHELTER_DIRECTORY_MODE across restarts
    Valid,       \* VERIFICATION_HOURS
    MaxClock,    \* bound: hours that pass
    MaxRevision, \* bound: saves of one shelter
    None

ASSUME ShelterAssumption ==
    /\ WithRoom \subseteq Facts
    /\ Valid \in Nat \ {0} /\ MaxClock \in Nat /\ MaxRevision \in Nat \ {0}
    /\ Modes # {} /\ None \notin Admin \cup Facts \cup Shelter \cup 0..MaxClock

Status == {"pending", "open", "full", "closed"}

\* A row of emergency_shelters.
Row == [status : Status, facts : Facts, revision : 1..MaxRevision, mode : Modes,
        verifiedAt : 0..MaxClock \cup {None}, verifiedBy : Admin \cup {None}]

\* ShelterInput, without its revision: the four confirmations count only for
\* a shelter that is opened or filled.
Payload == [status : Status, facts : Facts, confirmed : BOOLEAN]

ASSUME NoneIsNoRow == None \notin Row

VARIABLES
    clock, mode,
    shelter, \* emergency_shelters, or None
    trail,   \* shelter_audit, in commit order
    task     \* what each thread is doing

vars == <<clock, mode, shelter, trail, task>>

-----------------------------------------------------------------------------
Idle == [pc |-> "idle", id |-> None, revision |-> 0, at |-> 0, old |-> None]

InMode(s) == shelter[s] # None /\ shelter[s].mode = mode

\* Mutant: the row is read without FOR UPDATE.
NeverLocked(s) == FALSE

\* A save has read the row and not committed.
Locked(s) == \E t \in Thread : task[t].pc = "locked" /\ task[t].id = s

Verified(p) == p.status \in {"open", "full"}

\* Mutant: the occupancy is not compared with the capacity.
AnyOccupancy(p) == Verified(p) => p.confirmed

\* What validation lets through: opening or filling a shelter takes the four
\* confirmations, and agrees with its occupancy.
Acceptable(p) ==
    /\ Verified(p) => p.confirmed
    /\ p.status = "open" => p.facts \in WithRoom
    /\ p.status = "full" => p.facts \notin WithRoom

\* Mutant: whoever closes a shelter is noted as its verifier.
CloserVerifies(a, p, at, old) ==
    IF Verified(p) THEN [at |-> at, by |-> a]
    ELSE IF old # None /\ p.status = "closed" /\ old.verifiedAt # None
    THEN [at |-> old.verifiedAt, by |-> a]
    ELSE [at |-> None, by |-> None]

\* A closed shelter keeps its last verification, a pending one loses it.
Verification(a, p, at, old) ==
    IF Verified(p) THEN [at |-> at, by |-> a]
    ELSE IF old # None /\ p.status = "closed"
    THEN [at |-> old.verifiedAt, by |-> old.verifiedBy]
    ELSE [at |-> None, by |-> None]

\* The row a save leaves behind.
Saved(a, p, at, old) ==
    [status |-> p.status, facts |-> p.facts, mode |-> mode,
     revision |-> IF old = None THEN 1 ELSE old.revision + 1,
     verifiedAt |-> Verification(a, p, at, old).at,
     verifiedBy |-> Verification(a, p, at, old).by]

Init ==
    /\ clock = 0 /\ mode \in Modes
    /\ shelter = [s \in Shelter |-> None]
    /\ trail = [s \in Shelter |-> <<>>]
    /\ task = [t \in Thread |-> Idle]

\* Mutant: a verification never expires.
NeverExpires(row) == row.status = "open"

\* What the public list shows, in the row's mode.
Listed(row) == row.status = "open" /\ row.verifiedAt > clock - Valid

-----------------------------------------------------------------------------
(* A save.                                                                 *)

\* save begins, and takes its time; an existing shelter comes with the revision
\* the page showed, which may be any there has been.
Begin(t, s, revision) ==
    /\ task[t] = Idle
    /\ IF s = None THEN revision = 0
       ELSE shelter[s] # None /\ revision \in 1..shelter[s].revision
    /\ task' = [task EXCEPT ![t] =
           [pc |-> "begun", id |-> s, revision |-> revision, at |-> clock, old |-> None]]
    /\ UNCHANGED <<clock, mode, shelter, trail>>

\* Mutant: the revision is not compared.
AnyRevision(t) == InMode(task[t].id) /\ ~Locked(task[t].id)

\* The row can be locked and still is what the page showed.
Unchanged(t) ==
    /\ InMode(task[t].id) /\ ~Locked(task[t].id)
    /\ task[t].revision = shelter[task[t].id].revision

Lock(t) ==
    /\ task[t].pc = "begun" /\ task[t].id # None
    /\ Unchanged(t)
    /\ shelter[task[t].id].revision < MaxRevision
    /\ task' = [task EXCEPT ![t] = [task[t] EXCEPT !.pc = "locked", !.old = shelter[task[t].id]]]
    /\ UNCHANGED <<clock, mode, shelter, trail>>

\* The row and its audit entry, committed.
Write(t, s, a, p) ==
    LET row == Saved(a, p, task[t].at, task[t].old) IN
    /\ Acceptable(p)
    /\ shelter' = [shelter EXCEPT ![s] = row]
    /\ trail' = [trail EXCEPT ![s] = Append(@,
           [at |-> task[t].at, by |-> a, confirmed |-> p.confirmed,
            before |-> task[t].old, after |-> row])]
    /\ task' = [task EXCEPT ![t] = Idle]
    /\ UNCHANGED <<clock, mode>>

Update(t, a, p) == task[t].pc = "locked" /\ Write(t, task[t].id, a, p)

\* A new shelter must be pending.
Create(t, s, a, p) ==
    /\ task[t].pc = "begun" /\ task[t].id = None /\ shelter[s] = None
    /\ p.status = "pending"
    /\ Write(t, s, a, p)

\* A refusal (404, 409, 422), a database error or a dead thread.
Fail(t) ==
    /\ task[t] # Idle
    /\ task' = [task EXCEPT ![t] = Idle]
    /\ UNCHANGED <<clock, mode, shelter, trail>>

-----------------------------------------------------------------------------
Restart ==
    /\ mode' \in Modes
    /\ task' = [t \in Thread |-> Idle]
    /\ UNCHANGED <<clock, shelter, trail>>

Tick ==
    /\ clock < MaxClock /\ clock' = clock + 1
    /\ UNCHANGED <<mode, shelter, trail, task>>

Next ==
    \/ \E t \in Thread, s \in Shelter \cup {None}, n \in 0..MaxRevision : Begin(t, s, n)
    \/ \E t \in Thread : Lock(t) \/ Fail(t)
    \/ \E t \in Thread, a \in Admin, p \in Payload :
          Update(t, a, p) \/ \E s \in Shelter : Create(t, s, a, p)
    \/ Restart \/ Tick

Spec == Init /\ [][Next]_vars

-----------------------------------------------------------------------------
(* Properties.                                                             *)

Entry == [at : 0..MaxClock, by : Admin, confirmed : BOOLEAN, before : Row \cup {None}, after : Row]
Task == [pc : {"idle", "begun", "locked"}, id : Shelter \cup {None},
         revision : 0..MaxRevision, at : 0..MaxClock, old : Row \cup {None}]

\* Rows and threads have their shape, an open shelter has room and a verifier,
\* and a shelter named in a request exists: none is ever deleted.
TypeOK ==
    /\ clock \in 0..MaxClock /\ mode \in Modes
    /\ shelter \in [Shelter -> Row \cup {None}]
    /\ \A s \in Shelter : shelter[s] # None =>
          /\ shelter[s].status = "open" => shelter[s].facts \in WithRoom
          /\ shelter[s].status = "full" => shelter[s].facts \notin WithRoom
          /\ shelter[s].status \in {"open", "full"} =>
                shelter[s].verifiedAt # None /\ shelter[s].verifiedBy # None
    /\ trail \in [Shelter -> Seq(Entry)]
    /\ task \in [Thread -> Task]
    /\ \A t \in Thread :
          /\ task[t].pc = "locked" => task[t].id \in Shelter
          /\ task[t].id # None => shelter[task[t].id] # None

\* The audit explains the row: entries join without a gap, none overwrites an
\* edit it has not seen, and the last one is the row.
TrailIsChain ==
    \A s \in Shelter :
        LET n == Len(trail[s]) IN
        /\ n = IF shelter[s] = None THEN 0 ELSE shelter[s].revision
        /\ n > 0 => trail[s][n].after = shelter[s] /\ trail[s][1].before = None
        /\ \A i \in 1..(n-1) : trail[s][i+1].before = trail[s][i].after

\* history sorts by time, although a save takes its time before it waits for
\* the row: the order of the entries is still the order of the edits.
HistoryInOrder ==
    \A s \in Shelter : \A i, j \in DOMAIN trail[s] : i < j => trail[s][i].at <= trail[s][j].at

\* Somebody opened or filled the shelter as the row says, with all
\* confirmations, and since then it was at most closed.
ConfirmedIn(row, entries) ==
    \E i \in DOMAIN entries :
        /\ entries[i].confirmed /\ Verified(entries[i].after)
        /\ entries[i].by = row.verifiedBy /\ entries[i].at = row.verifiedAt
        /\ \A j \in (i+1)..Len(entries) : entries[j].after.status = "closed"

\* Whoever a shelter names as its verifier did open or fill it, at that time;
\* nobody is named for a row that went back to pending or that they only closed.
VerifierNamed ==
    \A s \in Shelter : shelter[s] # None /\ shelter[s].verifiedAt # None
                          => ConfirmedIn(shelter[s], trail[s])

\* When the latest decision about each shelter was taken, and what the public
\* list of the shelter's mode shows of it.
Decided == [s \in Shelter |-> IF shelter[s] = None THEN 0 ELSE trail[s][Len(trail[s])].at]
Offer == [s \in Shelter |-> IF shelter[s] # None /\ Listed(shelter[s])
                            THEN shelter[s].facts ELSE None]

\* The public is offered a shelter only on the latest decision about it, with
\* the facts then confirmed and as long as that confirmation is valid.
Promise == INSTANCE ShelterOffer WITH decided <- Decided, offer <- Offer
OfferKept == Promise!Spec
=============================================================================
