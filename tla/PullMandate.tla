----------------------------- MODULE PullMandate -----------------------------
(***************************************************************************)
(* What a subscription promises its payer, with the cards, plans and       *)
(* tokens of contracts/src/SubscriptionManager.sol left out.  A mandate    *)
(* allows money to be taken once for each due time, no earlier than that   *)
(* time and no later than Window after it; taking moves the due time past  *)
(* the present; a mandate whose window was missed lapses; a mandate that   *)
(* lapsed or was cancelled is over.                                        *)
(***************************************************************************)
EXTENDS Integers, Sequences

CONSTANTS
    Id,         \* mandates
    Sum,        \* sums that may be taken
    Time,       \* the values of the clock and of due times
    Window      \* time a due payment stays takeable

VARIABLES
    clock,
    mandate,    \* [Id -> status and next due time]
    taken       \* [Id -> the payments taken, oldest first]

Status == {"none", "open", "cancelled", "lapsed"}

MandateInit ==
    /\ clock = 0
    /\ mandate = [i \in Id |-> [status |-> "none", due |-> 0]]
    /\ taken = [i \in Id |-> <<>>]

Pass ==
    /\ clock' \in Time /\ clock' >= clock
    /\ UNCHANGED <<mandate, taken>>

Open(i) ==
    /\ mandate[i].status = "none"
    /\ \E due \in Time : /\ due >= clock
                        /\ mandate' = [mandate EXCEPT ![i] = [status |-> "open", due |-> due]]
    /\ UNCHANGED <<clock, taken>>

Take(i, sum) ==
    /\ mandate[i].status = "open"
    /\ mandate[i].due <= clock /\ clock <= mandate[i].due + Window
    /\ \E due \in Time : /\ due > clock /\ due > mandate[i].due + Window
                        /\ mandate' = [mandate EXCEPT ![i].due = due]
    /\ taken' = [taken EXCEPT ![i] =
                    Append(@, [due |-> mandate[i].due, at |-> clock, amount |-> sum])]
    /\ UNCHANGED clock

End(i, status) ==
    /\ mandate[i].status = "open"
    /\ mandate' = [mandate EXCEPT ![i].status = status]
    /\ UNCHANGED <<clock, taken>>

Cancel(i) == End(i, "cancelled")

Lapse(i) == clock > mandate[i].due + Window /\ End(i, "lapsed")

MandateNext ==
    \/ Pass
    \/ \E i \in Id : Open(i) \/ Cancel(i) \/ Lapse(i) \/ \E s \in Sum : Take(i, s)

MandateSpec == MandateInit /\ [][MandateNext]_<<clock, mandate, taken>>

---------------------------------------------------------------------------
(* Property. *)

\* No double charge: of two payments taken on one mandate, the later one was due
\* only after the window of the earlier one had closed, and each was taken in its
\* own window.
OncePerWindow ==
    \A i \in Id : \A m \in DOMAIN taken[i] :
        /\ taken[i][m].due <= taken[i][m].at
        /\ taken[i][m].at <= taken[i][m].due + Window
        /\ \A n \in DOMAIN taken[i] :
              m < n => taken[i][m].due + Window < taken[i][n].due

=============================================================================
