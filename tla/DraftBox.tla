------------------------------ MODULE DraftBox ------------------------------
(***************************************************************************)
(* What held drafts promise: a message is made from a draft only for a     *)
(* sender that was admitted while the draft was held, once for each        *)
(* admission, and a draft that left the held state never gets back to it.  *)
(* HeldDrafts implements it.                                               *)
(***************************************************************************)
EXTENDS Naturals

CONSTANTS Drafts, Senders

VARIABLES state, admitted, posted

box == <<state, admitted, posted>>

BoxInit ==
    /\ state = [d \in Drafts |-> "none"]
    /\ admitted = [d \in Drafts |-> {}]
    /\ posted = [d \in Drafts |-> 0]

\* A draft is created.
Hold(d) ==
    /\ state[d] = "none"
    /\ state' = [state EXCEPT ![d] = "held"]
    /\ UNCHANGED <<admitted, posted>>

\* A sender finds the draft held.
Admit(d, s) ==
    /\ state[d] = "held"
    /\ admitted' = [admitted EXCEPT ![d] = @ \cup {s}]
    /\ UNCHANGED <<state, posted>>

\* Senders give up: refused, failed, or lost in a crash.
Withdraw(gone) ==
    /\ admitted' = [d \in Drafts |-> admitted[d] \ gone]
    /\ UNCHANGED <<state, posted>>

\* An admitted sender posts, and is admitted no more.
Post(d, s) ==
    /\ s \in admitted[d]
    /\ admitted' = [admitted EXCEPT ![d] = @ \ {s}]
    /\ posted' = [posted EXCEPT ![d] = @ + 1]
    /\ UNCHANGED state

\* Held drafts are sent, cancelled or expired.
Close(some) ==
    /\ \A d \in some : state[d] = "held"
    /\ state' = [d \in Drafts |-> IF d \in some THEN "closed" ELSE state[d]]
    /\ UNCHANGED <<admitted, posted>>

BoxNext ==
    \/ \E d \in Drafts : Hold(d)
    \/ \E d \in Drafts, s \in Senders : Admit(d, s) \/ Post(d, s)
    \/ \E gone \in SUBSET Senders : Withdraw(gone)
    \/ \E some \in SUBSET Drafts : Close(some)

BoxSpec == BoxInit /\ [][BoxNext]_box
=============================================================================
