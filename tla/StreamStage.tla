----------------------------- MODULE StreamStage -----------------------------
(***************************************************************************)
(* What a stage of the oxideav streaming interface promises its client,    *)
(* whatever its law and whether it converts when it is fed (the encoders)  *)
(* or when it is drained (the decoders):                                   *)
(*   - an accepted input is owed exactly one answer, fixed when the input  *)
(*     is accepted;                                                        *)
(*   - answers are handed out in the order of acceptance, each once;       *)
(*   - a call that accepts nothing and answers nothing changes no debt;    *)
(*   - flushing cancels no debt, and a stage that announces the end does   *)
(*     so only while it owes nothing.                                      *)
(* It is external to src/: the Decoder and Encoder traits are declared in  *)
(* oxideav-core, and this is the contract the code in src/ relies on.      *)
(***************************************************************************)
EXTENDS Naturals, Sequences

CONSTANTS Capacity,        \* how many answers the stage may owe, at least 1
          AnnouncesEnd,    \* TRUE: draining after a flush reports Eof
          NeutralStatuses  \* statuses of calls that change no debt

VARIABLES due,    \* the answers owed, oldest first
          ended,  \* the client has been promised an Eof
          reply   \* what the last call returned

vars == <<due, ended, reply>>

Init == due = <<>> /\ ended = FALSE /\ reply = [status |-> "idle"]

Accept ==
    /\ Len(due) < Capacity
    /\ Len(due') = Len(due) + 1
    /\ SubSeq(due', 1, Len(due)) = due
    /\ reply' = [status |-> "accepted"]
    /\ UNCHANGED ended

Answer ==
    /\ due # <<>>
    /\ reply' = Head(due)
    /\ due' = Tail(due)
    /\ UNCHANGED ended

Starve ==
    /\ due = <<>>
    /\ reply' = [status |-> IF ended THEN "eof" ELSE "need_more"]
    /\ UNCHANGED <<due, ended>>

End ==
    /\ ended' = (ended \/ AnnouncesEnd)
    /\ reply' = [status |-> "flushed"]
    /\ UNCHANGED due

Neutral ==
    /\ reply'.status \in NeutralStatuses
    /\ UNCHANGED <<due, ended>>

Next == Accept \/ Answer \/ Starve \/ End \/ Neutral

Spec == Init /\ [][Next]_vars
=============================================================================
