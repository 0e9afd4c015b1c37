-------------------------------- MODULE MCPayer --------------------------------
(***************************************************************************)
(* Small instance of the payer's side for TLC: the budget an agent's       *)
(* client keeps, two metered routes of different price and one that is     *)
(* free, and the gallery of cards.  The three share no state: in a         *)
(* behaviour one of them is in use, and the others stay as they were       *)
(* before anything happened to them.                                       *)
(***************************************************************************)
EXTENDS ClientPolicy, Metering, CardDrawer

MCRoute == {"GET /quote", "GET /deep", "GET /health"}
MCRateCard == [r \in {"GET /quote", "GET /deep"} |-> IF r = "GET /quote" THEN 1 ELSE 2]

VARIABLE open       \* the part in use

PayerInit ==
    /\ open \in {"client", "routes", "cards"}
    /\ Init /\ MeteringInit /\ DrawerInit
    /\ open # "cards" => chain = NoRows

PayerNext ==
    /\ UNCHANGED open
    /\ \/ open = "client" /\ Next /\ UNCHANGED <<meteringVars, drawerVars>>
       \/ open = "routes" /\ MeteringNext /\ UNCHANGED <<vars, drawerVars>>
       \/ open = "cards" /\ DrawerNext /\ UNCHANGED <<vars, meteringVars>>

\* None of the fair actions of the gallery is enabled while another part is in use.
PayerSpec ==
    /\ PayerInit /\ [][PayerNext]_<<open, vars, meteringVars, drawerVars>>
    /\ DrawerFairness

=============================================================================
