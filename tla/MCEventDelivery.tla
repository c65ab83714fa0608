---------------------------- MODULE MCEventDelivery ----------------------------
(***************************************************************************)
(* Two publishing modules. The command c1 of cmd may be restarted and so   *)
(* has two events; that of shop, c2, has one. Three services handle events *)
(* of the same name: read's for cmd, mail's for cmd, and read's for shop.  *)
(* The first event of c3 has no subscriber; that of its second attempt is  *)
(* malformed.                                                              *)
(***************************************************************************)
EXTENDS EventDelivery

CONSTANTS c1, c2, c3, e1, e2, e3, e4, e5, cmd, shop, read, mail, added, closed

MCEmits == c1 :> <<e1, e2>> @@ c2 :> <<e3>> @@ c3 :> <<e4, e5>>

MCPublisher == e1 :> cmd @@ e2 :> cmd @@ e3 :> shop @@ e4 :> cmd @@ e5 :> cmd

MCName == e1 :> added @@ e2 :> added @@ e3 :> added @@ e4 :> closed @@ e5 :> added

MCServices == <<
  [eventName |-> added, eventModuleName |-> cmd, moduleName |-> read],
  [eventName |-> added, eventModuleName |-> cmd, moduleName |-> mail],
  [eventName |-> added, eventModuleName |-> shop, moduleName |-> read] >>
===============================================================================
