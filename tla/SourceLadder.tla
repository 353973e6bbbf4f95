----------------------------- MODULE SourceLadder -----------------------------
(***************************************************************************)
(* What failover promises of the sources of one download: they are asked   *)
(* in the order of their rank, each is given up before the next is chosen, *)
(* and only the chosen one is ever asked to send.                          *)
(***************************************************************************)
EXTENDS Naturals

CONSTANT Sources  \* how many there are

VARIABLES
  chosen,  \* the source that is asked, 0 at first
  sending  \* the sources whose peers have the download in a queue or send it

Init == chosen = 0 /\ sending = {}

Choose(c) == sending = {} /\ c > chosen /\ chosen' = c /\ UNCHANGED sending
Ask == sending = {} /\ chosen # 0 /\ sending' = {chosen} /\ UNCHANGED chosen
Ends == sending' = {} /\ UNCHANGED chosen

Next == Ask \/ Ends \/ \E c \in 1..Sources: Choose(c)

Spec == Init /\ [][Next]_<<chosen, sending>>
=============================================================================
