------------------------------ MODULE MCMerchant ------------------------------
(***************************************************************************)
(* Small instance of the merchant's dashboard for TLC: the lists read from *)
(* feed and chain, and the webhook console with the nudge.  The two share  *)
(* no state: in a behaviour one of them is in use, and the other stays as  *)
(* it was before anything happened to it.                                  *)
(***************************************************************************)
EXTENDS MCDashboard, Console

VARIABLE open       \* the part in use

MerchantInit ==
    /\ open \in {"lists", "console"}
    /\ Init /\ ConsoleInit
    /\ open # "lists" => history = (CHOOSE h \in Histories : TRUE) /\ address = NoWallet
    /\ open # "console" => created = 0

MerchantNext ==
    /\ UNCHANGED open
    /\ \/ open = "lists" /\ Next /\ UNCHANGED consoleVars
       \/ open = "console" /\ ConsoleNext /\ UNCHANGED vars

\* None of the fair actions of the other part is enabled: nothing is stored or asked there.
MerchantSpec ==
    /\ MerchantInit /\ [][MerchantNext]_<<open, vars, consoleVars>>
    /\ Fairness /\ ConsoleFairness

=============================================================================
