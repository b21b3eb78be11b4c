-------------------------------- MODULE MCRouter -------------------------------
(***************************************************************************)
(* RouterSystem for TLC, with addresses of three bits.                     *)
(***************************************************************************)
EXTENDS RouterSystem

RouteTo(prefix, length, next_hop, itf) ==
  [prefix |-> prefix, length |-> length, next_hop |-> next_hop, itf |-> itf]

MCInterface == <<2, 3>>

\* 4/1 is attached to interface 1; 6/2, part of it, is behind a gateway that may
\* change; 0/0 is the default route that the code has built in.
MCRoutes ==
  {RouteTo(4, 1, Direct, 1), RouteTo(6, 2, 5, 0), RouteTo(6, 2, 1, 1), RouteTo(0, 0, DefaultRouter, 0)}

\* Two networks that begin at the same address.
NestedRoutes == {RouteTo(4, 1, 5, 0), RouteTo(4, 2, 6, 1)}

\* A default route other than the built-in one.
DefaultRoutes == {RouteTo(0, 0, 5, 0)}

\* A network that was behind a gateway becomes directly attached.
AttachedRoutes == {RouteTo(4, 1, 5, 0), RouteTo(4, 1, Direct, 0)}

================================================================================
