------------------------------- MODULE SmsInbox -------------------------------
(* What the SMS pipeline promises about a received message, whatever path  *)
(* it appears under and however often it is read: it is claimed for an     *)
(* announcement at most once, and once it has been announced or filed in   *)
(* silence it is never claimed again.  A claim may be lost (the daemon     *)
(* dies before the fanout), never repeated.                                *)
CONSTANT Msgs
VARIABLE status

(* unseen:  neither announced nor in the history                           *)
(* claimed: filed, and its announcement is under way                       *)
(* told:    filed and announced                                            *)
(* quiet:   filed, and not to be announced                                 *)
(* erased:  deleted from the history by the user                           *)
Status == {"unseen", "claimed", "told", "quiet", "erased"}

Moves == {<<"unseen", "claimed">>, <<"unseen", "quiet">>,
          <<"claimed", "told">>, <<"claimed", "quiet">>,
          <<"claimed", "erased">>, <<"told", "erased">>, <<"quiet", "erased">>}

Init == status = [m \in Msgs |-> "unseen"]

OneClaim(s) == \A m, n \in Msgs : s[m] = "claimed" /\ s[n] = "claimed" => m = n

Next == /\ status' \in [Msgs -> Status]
        /\ \A m \in Msgs : status'[m] # status[m]
                              => <<status[m], status'[m]>> \in Moves
        /\ OneClaim(status')

Spec == Init /\ [][Next]_status
=============================================================================
