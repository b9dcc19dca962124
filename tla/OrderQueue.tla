----------------------------- MODULE OrderQueue -----------------------------
(***************************************************************************)
(* What client and server promise to the operator together: the orders     *)
(* (reset, conf, start, stop) are carried out on the board in the order in *)
(* which they were given, each once, over whatever connections they went.  *)
(* None is passed over: an order that the server could not be given is not *)
(* followed by one that it is, unless the server has gone.                 *)
(***************************************************************************)
EXTENDS Naturals, Sequences

CONSTANT Order      \* what can be ordered

VARIABLES orders,   \* orders given
          executed, \* orders carried out
          lost      \* TRUE: the server no longer promises anything

vars == <<orders, executed, lost>>

Init == orders = << >> /\ executed = << >> /\ lost = FALSE

Give ==
  /\ \E o \in Order : orders' = Append(orders, o)
  /\ UNCHANGED <<executed, lost>>

Execute ==
  /\ Len(executed) < Len(orders)
  /\ executed' = Append(executed, orders[Len(executed) + 1])
  /\ UNCHANGED <<orders, lost>>

Lose == lost' = TRUE /\ UNCHANGED <<orders, executed>>

Next == Give \/ Execute \/ Lose

Spec == Init /\ [][Next]_vars /\ WF_vars(~lost /\ Execute)
=============================================================================
