----------------------------- MODULE ReportLife -----------------------------
(***************************************************************************)
(* What a citizen is promised about a report: it is moderated once, at any *)
(* time its private data go all at once and for good, and nothing that was *)
(* removed ever comes back.                                                *)
(***************************************************************************)
CONSTANT Report
VARIABLES life,    \* the state of each report, "none" before it arrives
          private  \* the private data held: text (with position) and photo

Init == life = [r \in Report |-> "none"] /\ private = [r \in Report |-> {}]

Arrive(r) ==
    /\ life[r] = "none" /\ life'[r] = "SUBMITTED"
    /\ private'[r] \in {{"text"}, {"text", "photo"}}

Moderate(r) ==
    /\ \/ life[r] = "SUBMITTED" /\ life'[r] = "UNDER_REVIEW"
       \/ life[r] = "UNDER_REVIEW" /\ life'[r] \in {"APPROVED", "REJECTED"}
    /\ private'[r] = private[r]

Withdraw(r) ==
    /\ life[r] \notin {"none", "WITHDRAWN"}
    /\ life'[r] = "WITHDRAWN" /\ private'[r] = {}

ForgetPhoto(r) == life'[r] = life[r] /\ private'[r] = private[r] \ {"photo"}

Next == \A r \in Report : Arrive(r) \/ Moderate(r) \/ Withdraw(r) \/ ForgetPhoto(r)
                             \/ UNCHANGED <<life[r], private[r]>>

Spec == Init /\ [][Next]_<<life, private>>
=============================================================================
