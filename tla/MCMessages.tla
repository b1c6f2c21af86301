----------------------------- MODULE MCMessages -----------------------------
(***************************************************************************)
(* Instances of Messages for TLC.                                          *)
(***************************************************************************)
EXTENDS Messages, TLC

CONSTANTS m1, m2, u1, u2, r1, r2

MCAuthor == m1 :> u1 @@ m2 :> u2

\* Readers and authors are not interchangeable; requests are.
Interchangeable == Permutations({r1, r2})

\* Bound: with pins or mentions, only behaviours in which no frame and no answer arrives.
\* What readers are shown does not affect what is pinned and noted, nor the reverse.
ReadersApart ==
    \/ /\ \A a \in attached : a[1] # "pin"
       /\ \A m \in Messages, u \in Members : note[m][u] = "none"
    \/ \A u \in Readers : /\ answer[u] = NoAnswer
                          /\ \A m \in Messages : shown[u][m] \in {Nothing, Unseen}

\* What readers were shown of a message that is astray is never looked at again: the
\* message is left out of ReadersAgree until Crash makes everything Unseen.  States that
\* differ in nothing else are the same to TLC.
Remembered ==
    <<member, row, attached, note, req, astray,
      [u \in Readers |-> [m \in Messages |-> IF m \in astray THEN Nothing ELSE shown[u][m]]],
      [u \in Readers |-> [m \in Messages |->
          IF m \in astray /\ answer[u][m] # Nothing THEN 0 ELSE answer[u][m]]]>>
=============================================================================
