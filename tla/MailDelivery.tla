---------------------------- MODULE MailDelivery ----------------------------
(***************************************************************************)
(* What the e-mail queue promises about one message: it may have been      *)
(* delivered only while its run was waiting for that, a further copy is    *)
(* sent only if every earlier one is known not to be delivered or an       *)
(* operator accepted a duplicate, and the verdict shown is true.           *)
(***************************************************************************)
CONSTANTS Messages, Numbers     \* messages, and numbers of their attempts

VARIABLES
    copies,     \* the attempts whose body a server has, or may have
    arrived,    \* ... of these, the ones it accepted
    consented,  \* the attempts made after an operator accepted a duplicate
    verdict     \* what the run says about its message

mailVars == <<copies, arrived, consented, verdict>>

Verdicts == {"pending", "delivered", "not_delivered", "unknown"}

MailInit ==
    /\ copies = [m \in Messages |-> {}]
    /\ arrived = [m \in Messages |-> {}]
    /\ consented = [m \in Messages |-> {}]
    /\ verdict = [m \in Messages |-> "pending"]

\* A server receives the body of attempt n.
Submit(m, n) ==
    /\ verdict[m] = "pending"
    /\ n \notin copies[m]
    /\ copies[m] = {} \/ n \in consented[m]
    /\ copies' = [copies EXCEPT ![m] = @ \cup {n}]
    /\ UNCHANGED <<arrived, consented, verdict>>

\* A server accepts what it received, or drops it.
Arrive(m, n) ==
    /\ n \in copies[m]
    /\ arrived' = [arrived EXCEPT ![m] = @ \cup {n}]
    /\ UNCHANGED <<copies, consented, verdict>>

Discard(m, n) ==
    /\ n \in copies[m] \ arrived[m]
    /\ copies' = [copies EXCEPT ![m] = @ \ {n}]
    /\ UNCHANGED <<arrived, consented, verdict>>

\* The run settles.  Not knowing is always true; the other verdicts are not.
Report(m, v) ==
    /\ verdict[m] = "pending"
    /\ v = "delivered" => arrived[m] # {}
    /\ v = "not_delivered" => copies[m] = {}
    /\ verdict' = [verdict EXCEPT ![m] = v]
    /\ UNCHANGED <<copies, arrived, consented>>

\* A settled message is tried again, as attempt n, unless it was delivered.
Reopen(m, n) ==
    /\ verdict[m] \in {"not_delivered", "unknown"}
    /\ \/ consented' = [consented EXCEPT ![m] = @ \cup {n}]
       \/ copies[m] = {} /\ UNCHANGED consented
    /\ verdict' = [verdict EXCEPT ![m] = "pending"]
    /\ UNCHANGED <<copies, arrived>>

MailNext ==
    \E m \in Messages :
        \/ \E n \in Numbers : Submit(m, n) \/ Arrive(m, n) \/ Discard(m, n) \/ Reopen(m, n)
        \/ \E v \in Verdicts \ {"pending"} : Report(m, v)

MailSpec == MailInit /\ [][MailNext]_mailVars
=============================================================================
