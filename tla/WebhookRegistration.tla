-------------------------- MODULE WebhookRegistration -------------------------
(***************************************************************************)
(* The one webhook of the Telegram bot: register of                        *)
(* scripts/telegram_webhook_setup.py, called by the full launcher, and     *)
(* deploy/telegram_webhook.py, called on the server.                       *)
(*                                                                         *)
(* Every run of the launcher has a tunnel address of its own, which stands *)
(* for the run here.  The launcher keeps in a signed receipt the address   *)
(* it last saw registered, and replaces nothing else.                      *)
(***************************************************************************)
CONSTANTS
    Run,      \* runs of the launcher, and their addresses
    Nowhere,  \* no webhook
    Server,   \* the address of the server
    Unsigned  \* no receipt

VARIABLES
    hook,      \* what Telegram has registered
    confirmed  \* the receipt webhook.json: the address it names, or Unsigned

hookVars == <<hook, confirmed>>

HookInit == hook = Nowhere /\ confirmed = Unsigned

\* Mutant: whatever is registered may be replaced.
AnyAddress(r) == {Nowhere, Server, confirmed} \cup Run

\* What a run may replace.
Replaceable(r) == {Nowhere, r, confirmed}

\* getWebhookInfo, before anything is changed.
MayRegister(r) == hook \in Replaceable(r)

\* setWebhook reaches Telegram; its answer may still be lost.
SetHook(r) == hook' = r /\ UNCHANGED confirmed

\* getWebhookInfo, after the change.
Verified(r) == hook = r

\* The receipt is written.
Confirm(r) == confirmed' = r /\ UNCHANGED hook

\* The server replaces whatever is registered.
TakeOver == hook # Server /\ hook' = Server /\ UNCHANGED confirmed
=============================================================================
