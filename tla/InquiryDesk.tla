---------------------------- MODULE InquiryDesk ----------------------------
(***************************************************************************)
(* What the inquiry service promises a client, as the file of inquiries    *)
(* shows it: an inquiry received is quoted at the quoted price and then    *)
(* done; its terms never change, nor does its price once it is quoted; no  *)
(* stage is skipped, repeated or forgotten.                                *)
(***************************************************************************)
CONSTANTS Ids,          \* inquiry ids
          Terms,        \* what an inquiry is about: bond, side and quantity
          QuotedPrice,  \* the price every inquiry is quoted at
          Unquoted      \* the price of an inquiry nobody quoted

VARIABLE desk           \* desk[id]: the inquiry as it stands

Nothing == [state |-> "NONE"]

Init == desk = [id \in Ids |-> Nothing]

\* An inquiry may also arrive in a later stage, from a client that was quoted elsewhere.
Arrive(id) ==
    /\ desk[id].state = "NONE"
    /\ \E state \in {"RECEIVED", "QUOTED", "DONE"}, terms \in Terms :
          desk' = [desk EXCEPT ![id] = [state |-> state, terms |-> terms, price |-> Unquoted]]

SendQuote(id) ==
    /\ desk[id].state = "RECEIVED"
    /\ desk' = [desk EXCEPT ![id].state = "QUOTED", ![id].price = QuotedPrice]

Finish(id) ==
    /\ desk[id].state = "QUOTED"
    /\ desk' = [desk EXCEPT ![id].state = "DONE"]

Next == \E id \in Ids : Arrive(id) \/ SendQuote(id) \/ Finish(id)

\* Each stage follows from the one before it.
Lives == Init /\ [][Next]_desk

\* The service handles by itself whatever has arrived.
Spec == /\ Lives
        /\ \A id \in Ids : WF_desk(SendQuote(id)) /\ WF_desk(Finish(id))
=============================================================================
