---------------------------- MODULE MCCommandBus ----------------------------
(***************************************************************************)
(* Small instances of CommandBus.                                          *)
(***************************************************************************)
EXTENDS CommandBusProperties

\* One aggregate, one event, one handler of it.
OneAggregate == {"cart"}
OneId == {"x"}
OneIdOf == [a \in OneAggregate |-> "x"]
OneTarget == [c \in Command |-> "cart"]
OneName == {"opened"}
OneSubscription == <<"opened">>

\* Deliveries 1 and 2 are of the same command.
Redelivered == <<"c1", "c1", "c2">>

\* Three commands; two handlers of one event around a handler of another.
ThreeCommands == <<"c1", "c2", "c3">>
TwoNames == {"opened", "closed"}
ThreeSubscriptions == <<"opened", "closed", "opened">>

\* Carts and orders: two commands on a cart, one on an order.
TwoAggregates == {"cart", "order"}
CartOrOrder == [c \in Command |-> IF c = "c3" THEN "order" ELSE "cart"]
SharedIdOf == [a \in TwoAggregates |-> "x"]
NoSubscription == << >>

\* A user besides, with an id of its own.
FourCommands == <<"c1", "c2", "c3", "c4">>
ThreeAggregates == {"cart", "order", "user"}
CartOrderOrUser ==
  [c \in Command |-> CASE c = "c3" -> "order" [] c = "c4" -> "user" [] OTHER -> "cart"]
TwoIds == {"x", "y"}
SomeIdOf == [a \in ThreeAggregates |-> IF a = "user" THEN "y" ELSE "x"]

=============================================================================
