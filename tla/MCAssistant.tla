------------------------------ MODULE MCAssistant ------------------------------
(* Instances of Assistant for TLC. *)
EXTENDS Assistant
CONSTANTS h1, h2, e1, r1, r2, q1, q2, a1, a2

\* The texts are alike: what one question cached may answer the other.
MCSimilar == {q1, q2} \X {q1, q2}

\* The first chat asks q1 of a1; the others ask it or something alike, or the
\* same of another alert.
MCAbout == [h \in {h1, h2, e1} |->
              IF h = h1 THEN {<<q1, a1>>} ELSE {<<q1, a1>>, <<q2, a1>>, <<q1, a2>>}]

\* Chats that share the caches; reloads before, between and after a chat.
MCArrivals == {<<h1, h2, e1>>, <<h1, r1, r2>>, <<r1, h1, r2>>,
               <<r1, r2, e1>>, <<e1, r1, h1>>}

=============================================================================
