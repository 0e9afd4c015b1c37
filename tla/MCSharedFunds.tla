----------------------------- MODULE MCSharedFunds -----------------------------
(***************************************************************************)
(* A small instance of Service for TLC: two subscriptions of one customer, *)
(* whose balance covers one charge, with a record of what the at-risk      *)
(* monitor found payable.                                                  *)
(***************************************************************************)
EXTENDS Service

\* Charges checked ahead of their date and found payable, since the last subscription.
VARIABLE cleared

SharedInit == Init /\ cleared = {}

SharedNext ==
    /\ Next
    /\ cleared' =
          IF \E s \in Sub : subs[s].state = "none" /\ subs'[s].state # "none" THEN {}
          ELSE IF CheckCard /\ ~frozen /\ now < look.due
          THEN cleared \cup {<<look.sub, look.due>>}
          ELSE cleared

SharedSpec == SharedInit /\ [][SharedNext]_<<vars, cleared>>

Exists(s) == subs[s].state # "none"

\* The monitor looked at the next charge of every subscription before its date, with all of
\* them made, and let each pass.
AllCleared == \A s \in Sub : Exists(s) => \E due \in 0..(MaxTime + Period) : <<s, due>> \in cleared

\* What atrisk.ts says of the monitor, that it predicts failing renewals before the charge
\* date: when it looked at everything that was to come and nobody moved money or froze the
\* card, a charge that fails for the balance or the card was announced.
WarnedFirst ==
    [][\A s \in Sub :
          LET due == subs[s].nextChargeAt
          IN  /\ <<"attempt_failed", s, due>> \in alerts' \ alerts
              /\ subs[s].state = "Active" /\ ~Payable /\ AllCleared
              => <<"at_risk", s, due>> \in alerts]_<<vars, cleared>>

=============================================================================
