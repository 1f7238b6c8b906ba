------------------------------ MODULE WebhookProxy ------------------------------
(***************************************************************************)
(* The ingress for Telegram's updates, scripts/telegram_webhook_proxy.py:  *)
(* it passes one kind of request on to the backend, in a thread for each   *)
(* connection, of which there are so many at a time and no more.           *)
(*                                                                         *)
(* A timer of each connection ends it after REQUEST_TIMEOUT, whatever it   *)
(* is doing, by shutting down the sockets it may be blocked on.  The timer *)
(* runs in a thread of its own, so its steps and the handler's interleave. *)
(***************************************************************************)
EXTENDS Naturals, FiniteSets

CONSTANTS
    Conn,   \* connections, each once
    Slots   \* connections handled at a time

VARIABLES
    slots,  \* free places
    conn    \* of each connection: its handler, its timer and its two sockets

proxyVars == <<slots, conn>>

-----------------------------------------------------------------------------
New == [pc |-> "new", timer |-> "off", expired |-> FALSE, client |-> "open", upstream |-> "none"]

Init == slots = Slots /\ conn = [c \in Conn |-> New]

Go(c, from, to) == conn[c].pc = from /\ conn' = [conn EXCEPT ![c].pc = to]

-----------------------------------------------------------------------------
\* Server.process_request: a connection without a place is closed at once.
Accept(c) == slots > 0 /\ Go(c, "new", "starting") /\ slots' = slots - 1
TurnAway(c) == slots = 0 /\ Go(c, "new", "closed") /\ UNCHANGED slots

\* No thread can be started for it.
NoThread(c) == Go(c, "starting", "closed") /\ slots' = slots + 1

\* setup arms the timer, unless no thread can be started for that.
setup(c) ==
    /\ conn[c].pc = "starting"
    /\ \/ conn' = [conn EXCEPT ![c].pc = "head", ![c].timer = "armed"]
       \/ conn' = [conn EXCEPT ![c].pc = "release"]
    /\ UNCHANGED slots

\* The head of the request is read and checked, in do_POST and denied.
Head(c) ==
    /\ conn[c].client = "open"
    /\ \E to \in {"body", "respond"} : Go(c, "head", to)
    /\ UNCHANGED slots

Body(c) ==
    /\ conn[c].client = "open" /\ Go(c, "body", "connecting")
    /\ UNCHANGED slots

\* The client sends too little, is silent for 10 seconds, or is shut down.
ClientEnds(c) ==
    /\ \E from \in {"head", "body"}, to \in {"respond", "finish"} : Go(c, from, to)
    /\ UNCHANGED slots

\* The request is on its way to the backend; only now is its socket known.
request(c) ==
    /\ \E to \in {"sent", "respond"} : Go(c, "connecting", to)
    /\ UNCHANGED slots

Assign(c) ==
    /\ conn[c].pc = "sent"
    /\ conn' = [conn EXCEPT ![c].pc = "check", ![c].upstream = "open"]
    /\ UNCHANGED slots

\* Mutant: the deadline is left to the timer alone.
Unnoticed(c) == FALSE

Late(c) == conn[c].expired

Shut(c) == [conn EXCEPT ![c].client = "shut", ![c].upstream = IF @ = "open" THEN "shut" ELSE @]

Check(c) ==
    /\ conn[c].pc = "check"
    /\ conn' = IF Late(c) THEN [Shut(c) EXCEPT ![c].pc = "finish"] ELSE [conn EXCEPT ![c].pc = "answering"]
    /\ UNCHANGED slots

\* The backend's answer, too long an answer, none for 12 seconds, or an error
\* because the socket is shut down.
Answered(c) == Go(c, "answering", "respond") /\ UNCHANGED slots

respond(c) == Go(c, "respond", "finish") /\ UNCHANGED slots

finish(c) ==
    /\ conn[c].pc = "finish"
    /\ conn' = [conn EXCEPT ![c].pc = "release", ![c].upstream = "none",
                            ![c].timer = IF @ = "armed" THEN "off" ELSE @]
    /\ UNCHANGED slots

Given(c) == slots + 1

\* process_request_thread, however the handler ended.
Release(c) == Go(c, "release", "closed") /\ slots' = Given(c)

\* expire, in the timer's thread: first the mark, then the sockets as they are.
Mark(c) ==
    /\ conn[c].timer = "armed"
    /\ conn' = [conn EXCEPT ![c].timer = "marked", ![c].expired = TRUE]
    /\ UNCHANGED slots

expire(c) ==
    /\ conn[c].timer = "marked"
    /\ conn' = [Shut(c) EXCEPT ![c].timer = "expired"]
    /\ UNCHANGED slots

Next ==
    \E c \in Conn :
        \/ Accept(c) \/ TurnAway(c) \/ NoThread(c) \/ setup(c) \/ Head(c) \/ Body(c) \/ ClientEnds(c)
        \/ request(c) \/ Assign(c) \/ Check(c) \/ Answered(c) \/ respond(c) \/ finish(c) \/ Release(c)
        \/ Mark(c) \/ expire(c)

Spec == Init /\ [][Next]_proxyVars

-----------------------------------------------------------------------------
(* Properties.                                                             *)

\* A place is taken by each connection that is handled and by no other, however
\* handlers end; and once the timer has done its work no handler can be blocked
\* any more: the socket it reads from is shut down ("absolute bound also covers
\* slow headers/body and slow upstream replies", telegram_webhook_proxy.py:28),
\* also if the deadline passed before that socket was known.
SlotsKept ==
    /\ slots + Cardinality({c \in Conn : conn[c].pc \notin {"new", "closed"}}) = Slots
    /\ \A c \in Conn : conn[c].timer = "expired" =>
           /\ conn[c].pc \in {"head", "body"} => conn[c].client = "shut"
           /\ conn[c].pc = "answering" => conn[c].upstream = "shut"
===============================================================================
