------------------------------ MODULE Validators ------------------------------
(***************************************************************************)
(* Validation of a value by the validator of a field and those of the       *)
(* fields below it, however deep they are nested.                           *)
(***************************************************************************)
EXTENDS ValidationRules

RECURSIVE Validate(_, _)

Validate(f, v) == Validated(f, v, Validate)
===============================================================================
