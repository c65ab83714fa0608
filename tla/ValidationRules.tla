---------------------------- MODULE ValidationRules ----------------------------
(***************************************************************************)
(* The rules of a field validator, one operator per class of rules/, the    *)
(* order in which validateByRules runs them, and what the validator of one  *)
(* field makes of their answers and of the results of the fields below it.  *)
(*                                                                         *)
(* A JavaScript value is a record tagged with its type. A validator is a    *)
(* record [attrName, isRequired, isArray, arrayConfig, dataType, rules,     *)
(* dtoMap], a rule a record [name, arg].                                    *)
(***************************************************************************)
EXTENDS Integers, Sequences, SequencesExt

Undefined == [t |-> "undefined"]
Null == [t |-> "null"]
Bool(b) == [t |-> "boolean", b |-> b]
Num(n) == [t |-> "number", sort |-> "finite", n |-> n]
NotFinite == {[t |-> "number", sort |-> s, n |-> 0] : s \in {"NaN", "Infinity", "-Infinity"}}
Str(s) == [t |-> "string", s |-> s]    \* a sequence of characters
Arr(items) == [t |-> "array", items |-> items]
Dto(attrs) == [t |-> "object", attrs |-> attrs]

Get(dto, attr) == IF attr \in DOMAIN dto.attrs THEN dto.attrs[attr] ELSE Undefined

-------------------------------------------------------------------------------
\* rules/type-rules.

IsStringType(v) == v.t = "string"
IsBooleanType(v) == v.t = "boolean"
IsNumberType(v) == v.t = "number"
IsArrayType(v) == v.t = "array"
IsDTOType(v) == v.t = "object"

\* rules/assert-rules.

CannotBeNull(v) == v # Null
CannotBeUndefined(v) == v # Undefined
CannotBeNullable(v) == v # Undefined /\ v # Null
CannotBeEmptyString(v) == v.t = "string" => v.s # <<>>
MustBeFilledString(v) == v.t = "string" /\ v.s # <<>>
CannotBeEmptyArray(v) == v.t = "array" /\ v.items # <<>>
MaxArrayElementsCount(v, max) == Len(v.items) <= max
MinArrayElementsCount(v, min) == Len(v.items) >= min
CannotBeInfinity(v) == v.t = "number" => v.sort \notin {"Infinity", "-Infinity"}
CannotBeNan(v) == v.sort # "NaN"

\* rules/nullable-rules.

CanBeNullable(v) == v = Undefined \/ v = Null
CanBeOnlyNull(v) == v = Null
CanBeOnlyUndefined(v) == v = Undefined

\* rules/validate-rules/number and timestamp: of finite numbers.

MaxNumber(v, max) == v.n <= max
MinNumber(v, min) == v.n >= min
PositiveNumber(v) == v.n >= 0
RangeNumber(v, min, max) == v.n >= min /\ v.n <= max
IsTimestamp(v) == v.n > 0
MaxDate(v, max) == v.n <= max
MinDate(v, min) == v.n >= min
RangeDate(v, min, max) == v.n >= min /\ v.n <= max

\* rules/validate-rules/string: a regex is the set of the strings it matches.

Latin == {"a", "B"}
Cyrillic == {"ya"}
Spaces == {" "}

ContainedOnlyChars(v, chars) == \A i \in DOMAIN v.s : v.s[i] \in chars
ContainedAllChars(v, chars) == chars \subseteq Range(v.s)
NoContainedChars(v, chars) == ~\E c \in chars : c \in Range(v.s)
EqualCharsCount(v, count) == Len(v.s) = count
MaxCharsCount(v, count) == Len(v.s) <= count
MinCharsCount(v, count) == Len(v.s) >= count
RegexMatches(v, regex) == v.s \in regex
RegexDoesntMatch(v, regex) == v.s \notin regex
NoContainedSpace(v) == NoContainedChars(v, Spaces)
OnlyOf(v, alphabet) == v.s # <<>> /\ Range(v.s) \subseteq alphabet
OnlyLatinicOrCyrillic(v) ==
  OnlyOf(v, Latin \union {" "}) \/ OnlyOf(v, Cyrillic \union {" "})
OnlyDashAndLatinicOrCyrillic(v) ==
  OnlyOf(v, Latin \union {"-"}) \/ OnlyOf(v, Cyrillic \union {"-"})
StringChoice(v, choices) == v.s \in choices
TextStrictEqual(v, text) == text = v.s

-------------------------------------------------------------------------------
\* ValidationRule.

Holds(rule, v) ==
  \/ rule.name = "isString" /\ IsStringType(v)
  \/ rule.name = "isBoolean" /\ IsBooleanType(v)
  \/ rule.name = "isNumber" /\ IsNumberType(v)
  \/ rule.name = "isArray" /\ IsArrayType(v)
  \/ rule.name = "isDto" /\ IsDTOType(v)
  \/ rule.name = "cannotBeNullable" /\ CannotBeNullable(v)
  \/ rule.name = "cannotBeEmptyString" /\ CannotBeEmptyString(v)
  \/ rule.name = "cannotBeEmptyArray" /\ CannotBeEmptyArray(v)
  \/ rule.name = "maxElements" /\ MaxArrayElementsCount(v, rule.arg)
  \/ rule.name = "minElements" /\ MinArrayElementsCount(v, rule.arg)
  \/ rule.name = "cannotBeInfinity" /\ CannotBeInfinity(v)
  \/ rule.name = "cannotBeNan" /\ CannotBeNan(v)
  \/ rule.name = "canBeNullable" /\ CanBeNullable(v)
  \/ rule.name = "positive" /\ PositiveNumber(v)
  \/ rule.name = "maxNumber" /\ MaxNumber(v, rule.arg)
  \/ rule.name = "minChars" /\ MinCharsCount(v, rule.arg)
  \/ rule.name = "maxChars" /\ MaxCharsCount(v, rule.arg)
  \/ rule.name = "onlyLatinicOrCyrillic" /\ OnlyLatinicOrCyrillic(v)
  \/ rule.name = "noSpace" /\ NoContainedSpace(v)

Rule(name) == [name |-> name, arg |-> 0]
Limit(name, arg) == [name |-> name, arg |-> arg]

NullableRules == {"canBeNullable"}
ValidateRules ==
  {"positive", "maxNumber", "minChars", "maxChars", "onlyLatinicOrCyrillic", "noSpace"}

\* Mutant: a null that is allowed does not end the validation.
BehaviourPastNull(rule, v) ==
  IF rule.name \in NullableRules \/ Holds(rule, v) THEN "SuccessRunNextRule"
  ELSE IF rule.name \in ValidateRules THEN "SaveErrorAndRunNextRule"
  ELSE "SaveErrorAndBreakValidation"

\* The answer of a rule: rules of type and assertion stop at an error, rules of
\* validation do not.
Behaviour(rule, v) ==
  IF rule.name \in NullableRules
  THEN IF Holds(rule, v) THEN "SuccessBreakValidation" ELSE "SuccessRunNextRule"
  ELSE IF Holds(rule, v) THEN "SuccessRunNextRule"
  ELSE IF rule.name \in ValidateRules THEN "SaveErrorAndRunNextRule"
  ELSE "SaveErrorAndBreakValidation"

-------------------------------------------------------------------------------
\* FieldValidator.

Breaks == {"SuccessBreakValidation", "SaveErrorAndBreakValidation"}
Saves == {"SaveErrorAndRunNextRule", "SaveErrorAndBreakValidation"}

\* The rules run in their order, up to the first whose answer breaks the validation; the
\* errors are the rules that gave one, in the same order.
ValidateByRules(v, rules) ==
  LET ran == {n \in DOMAIN rules : \A i \in 1..(n - 1) : Behaviour(rules[i], v) \notin Breaks}
  IN [errors |-> {rules[n] : n \in {m \in ran : Behaviour(rules[m], v) \in Saves}},
      break |-> \E n \in ran : Behaviour(rules[n], v) \in Breaks]

\* getRequiredOrNullableRules, that of literals for strings.
RequiredOrNullableRules(f) ==
  IF ~f.isRequired THEN <<Rule("canBeNullable")>>
  ELSE <<Rule("cannotBeNullable")>>
       \o (IF f.dataType = "string" THEN <<Rule("cannotBeEmptyString")>> ELSE <<>>)

TypeCheckRules(f) ==
  IF f.dataType = "dto" THEN <<Rule("isDto")>>
  ELSE IF f.dataType = "number"
    THEN <<Rule("isNumber"), Rule("cannotBeInfinity"), Rule("cannotBeNan")>>
  ELSE IF f.dataType = "boolean" THEN <<Rule("isBoolean")>>
  ELSE <<Rule("isString")>>

\* The constructor refuses other array configurations; -1 is undefined.
ArrayConfigOk(c) == c.max < 0 \/ c.min <= c.max

ArrayAssertionRules(c) ==
  <<Rule("isArray")>>
  \o (IF c.mustBeFilled THEN <<Rule("cannotBeEmptyArray")>> ELSE <<>>)
  \o (IF c.max >= 0 THEN <<Limit("maxElements", c.max)>> ELSE <<>>)
  \o (IF c.min >= 0 THEN <<Limit("minElements", c.min)>> ELSE <<>>)

ArrayWhole == "___array_whole_value_validation_error___"
DtoWhole == "___dto_whole_value_validation_error___"

\* A result is its errors by key, of rules or of the fields below.
Success == <<>>
RuleErrors(key, errors) ==
  IF errors = {} THEN Success ELSE [k \in {key} |-> [rules |-> errors, fields |-> Success]]
FieldErrors(key, results) ==
  IF results = Success THEN Success ELSE [k \in {key} |-> [rules |-> {}, fields |-> results]]

FailKey(f) == IF f.dataType = "dto" THEN DtoWhole ELSE f.attrName

\* The errors of the attributes, by key: those of a later one over those of an earlier.
Merged(results) ==
  [key \in UNION {DOMAIN results[i] : i \in DOMAIN results} |->
     results[Max({i \in DOMAIN results : key \in DOMAIN results[i]})][key]]

\* validateValue of the literal and of the dto validator, by the results of its attributes.
ValueErrors(f, v, results) ==
  LET nullable == ValidateByRules(v, RequiredOrNullableRules(f))
      type == ValidateByRules(v, TypeCheckRules(f))
  IN IF ~f.isArray /\ nullable.break THEN RuleErrors(FailKey(f), nullable.errors)
     ELSE IF type.errors # {} THEN RuleErrors(FailKey(f), type.errors)
     ELSE IF f.dataType = "dto" THEN FieldErrors(f.attrName, Merged(results))
     ELSE RuleErrors(f.attrName, ValidateByRules(v, f.rules).errors)

\* validateArray, by the results of its elements: they are not checked for null
\* themselves, their type is.
ArrayErrors(f, v, results) ==
  LET nullable == ValidateByRules(v, RequiredOrNullableRules(f))
      whole == ValidateByRules(v, ArrayAssertionRules(f.arrayConfig))
      bad == {i \in DOMAIN results : results[i] # Success}
  IN IF nullable.break THEN RuleErrors(ArrayWhole, nullable.errors)
     ELSE IF whole.errors # {} THEN RuleErrors(ArrayWhole, whole.errors)
     ELSE [k \in {ToString(i - 1) : i \in bad} |->
             [rules |-> {}, fields |-> results[CHOOSE i \in bad : ToString(i - 1) = k]]]

\* validateValue, validateArray and validate, by the validate of the fields below.
ValidateValue(f, v, Below(_, _)) ==
  ValueErrors(f, v, [i \in DOMAIN f.dtoMap |-> Below(f.dtoMap[i], Get(v, f.dtoMap[i].attrName))])

ValidateArray(f, v, Below(_, _)) ==
  ArrayErrors(f, v, [i \in DOMAIN v.items |-> ValidateValue(f, v.items[i], Below)])

Validated(f, v, Below(_, _)) ==
  IF f.isArray THEN ValidateArray(f, v, Below) ELSE ValidateValue(f, v, Below)
===============================================================================
