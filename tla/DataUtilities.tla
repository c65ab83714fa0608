---------------------------- MODULE DataUtilities ----------------------------
(***************************************************************************)
(* The utilities of core for objects, arrays, sets, enumerations and flags, *)
(* and the aggregate's output that is made with them. Values are those of   *)
(* Validators; an object's attributes are a function from their names.      *)
(***************************************************************************)
EXTENDS Validators

IsDto(v) == v.t = "object"

Thrown == [t |-> "thrown"]

Only(attrs, names) == [k \in names |-> attrs[k]]

-------------------------------------------------------------------------------
\* DtoUtility.

ExcludeAttrs(obj, names) == Only(obj, DOMAIN obj \ names)

ExtendAttrs(obj, new) == new @@ obj

RECURSIVE ReplaceAttrs(_, _), HardReplaceAttrs(_, _)

ReplaceAttrs(obj, new) ==
  [k \in DOMAIN obj |->
     IF k \notin DOMAIN new \/ new[k] = Undefined THEN obj[k]
     ELSE IF IsDto(obj[k]) /\ IsDto(new[k])
          THEN Dto(ReplaceAttrs(obj[k].attrs, new[k].attrs))
     ELSE new[k]]

HardReplaceAttrs(obj, new) ==
  [k \in DOMAIN obj |->
     IF k \notin DOMAIN new THEN obj[k]
     ELSE IF IsDto(obj[k]) /\ IsDto(new[k])
          THEN Dto(HardReplaceAttrs(obj[k].attrs, new[k].attrs))
     ELSE new[k]]

MergeObjects(first, second) ==
  [k \in DOMAIN first \union DOMAIN second |->
     IF Get(Dto(first), k) # Undefined THEN first[k] ELSE Get(Dto(second), k)]

GetUniqueKeys(objects) == UNION {DOMAIN objects[i] : i \in DOMAIN objects}

\* Of two keys that cb makes equal the later one stays: keys is the order of the object.
EditKeys(obj, keys, cb) ==
  [n \in {cb[k] : k \in DOMAIN obj} |->
     obj[keys[CHOOSE i \in DOMAIN keys :
       /\ cb[keys[i]] = n
       /\ \A j \in DOMAIN keys : cb[keys[j]] = n => j <= i]]]

EditValues(obj, cb) == [k \in DOMAIN obj |-> cb[obj[k]]]

RECURSIVE GetValueByDeepAttr(_, _), DeepDelete(_, _)

\* Undefined where there is no such path.
GetValueByDeepAttr(v, path) ==
  IF path = <<>> THEN v
  ELSE IF IsDto(v) /\ Head(path) \in DOMAIN v.attrs
       THEN GetValueByDeepAttr(v.attrs[Head(path)], Tail(path))
  ELSE Undefined

\* Mutant: the path is deleted from its first level.
DeleteFirstLevel(v, path) ==
  IF IsDto(v) THEN Dto(ExcludeAttrs(v.attrs, {Head(path)})) ELSE v

\* delete of an attribute an array or a scalar does not have leaves it; of a null, or
\* two levels below what is undefined or null, it throws.
DeepDelete(v, path) ==
  LET key == Head(path)
  IN IF v = Null THEN Thrown
     ELSE IF Len(path) = 1
       THEN IF IsDto(v) THEN Dto(ExcludeAttrs(v.attrs, {key})) ELSE v
     ELSE IF v = Undefined THEN Thrown
     ELSE LET below == DeepDelete(IF IsDto(v) THEN Get(v, key) ELSE Undefined, Tail(path))
          IN IF below = Thrown THEN Thrown
             ELSE IF ~IsDto(v) \/ key \notin DOMAIN v.attrs THEN v
             ELSE Dto([v.attrs EXCEPT ![key] = below])

ExcludeDeepAttrs(obj, paths) ==
  FoldLeft(LAMBDA v, path : IF v = Thrown THEN v ELSE DeepDelete(v, path), obj, paths)

\* AggregateRootHelper: what leaves the aggregate, in answers and in its events.
GetOutput(aggregate) ==
  [attrs |-> ExcludeDeepAttrs(aggregate.attrs, aggregate.noOutKeys),
   meta |-> [name |-> aggregate.name, version |-> aggregate.version]]

RegisterEvent(aggregate, name, attrs) ==
  [aggregate EXCEPT !.events =
     Append(@, [name |-> name, attrs |-> attrs, aRoot |-> GetOutput(aggregate)])]

CleanEvents(aggregate) == [aggregate EXCEPT !.events = <<>>]

\* The constructor throws for a version or attributes that are not valid.
NewAggregate(name, validator, attrs, version, noOutKeys) ==
  IF version < 0 \/ Validate(validator, attrs) # Success THEN Thrown
  ELSE [t |-> "aggregate", name |-> name, attrs |-> attrs, version |-> version,
        noOutKeys |-> noOutKeys, events |-> <<>>]

-------------------------------------------------------------------------------
\* ArrayUtility and SetUtils.

\* What each turn of the loop of shuffle drew is in draws, from the last index down.
Shuffle(seq, draws) ==
  LET swap[i \in 1..Len(seq)] ==
        LET a == IF i = Len(seq) THEN seq ELSE swap[i + 1]
        IN IF i = 1 THEN a ELSE [a EXCEPT ![i] = a[draws[i]], ![draws[i]] = a[i]]
  IN IF seq = <<>> THEN seq ELSE swap[1]

ZipValues(a, b) ==
  LET At(s, i) == IF i <= Len(s) THEN s[i] ELSE Undefined
      longer == IF Len(a) > Len(b) THEN a ELSE b
  IN [i \in DOMAIN longer |-> <<At(a, i), At(b, i)>>]

RemoveDuplicateValues(seq) ==
  FoldLeft(LAMBDA other, x : IF Contains(other, x) THEN other ELSE Append(other, x), <<>>, seq)

ArrayValuesAreEqual(a, b) == Len(a) = Len(b) /\ \A i \in DOMAIN a : Contains(b, a[i])

ArraysEqualAsSet(a, b) ==
  ArrayValuesAreEqual(RemoveDuplicateValues(a), RemoveDuplicateValues(b))

SetDifference(a, b) == {x \in a : x \notin b}
SetIntersection(a, b) == {x \in a : x \in b}
SetUnion(a, b) == a \union b
Join(table) == UNION {Range(table[i]) : i \in DOMAIN table}

-------------------------------------------------------------------------------
\* eNumUtility: a numeric enumeration holds the names of its numbers as well.

GetNumberEnumKeys(eNum) == SelectSeq(eNum.keys, LAMBDA k : k \in eNum.names)
GetNumberEnumValues(eNum) ==
  [i \in DOMAIN GetNumberEnumKeys(eNum) |-> eNum.values[GetNumberEnumKeys(eNum)[i]]]

\* A string enumeration holds nothing else than its names.
GetStringEnumKeys(eNum) == eNum.keys
GetStringEnumValues(eNum) == [i \in DOMAIN eNum.keys |-> eNum.values[eNum.keys[i]]]

\* The first of keys that has the value.
GetKeyByValue(eNum, value, keys) ==
  LET i == SelectInSeq(keys, LAMBDA k : eNum.values[k] = value)
  IN IF i = 0 THEN Thrown ELSE keys[i]

-------------------------------------------------------------------------------
\* BinaryKeyFlag and the logger's modes: a number is its set of bits.

loggerModes == [info |-> 0, warn |-> 1, error |-> 2, fatal |-> 3]

GetFlagKeys(bits) == {k \in DOMAIN loggerModes : loggerModes[k] \in bits}
OrFlags(keys) == {loggerModes[k] : k \in keys}
FlagState(mode) ==
  CASE mode = {"all"} -> OrFlags(DOMAIN loggerModes)
    [] mode = {"off"} -> {}
    [] OTHER -> OrFlags(mode)
IsAny(bits, keys) == \E k \in keys : loggerModes[k] \in bits
IsAll(bits, keys) == \A k \in keys : loggerModes[k] \in bits

Bits(n) == {i \in 0..7 : (n \div 2^i) % 2 = 1}

\* getEnvLogMode: LOG_MODE is a number or another word, the empty one is the number 0;
\* nothing set where it says nothing. What it finds first is kept for the process.
EnvLogMode(env) ==
  CASE env.t = "undefined" -> {}
    [] env.t = "string" ->
         IF env.s \in {"all", "off"} \union DOMAIN loggerModes THEN {env.s} ELSE {}
    [] env.t = "number" ->
         IF env.n = 0 THEN {"off"} ELSE IF env.n < 0 THEN {} ELSE GetFlagKeys(Bits(env.n))

\* BaseLogger: the dispatcher is made once, setLogMode changes only what getLogMode says.
NewLogger(mode) == [logMode |-> mode, dispatcher |-> FlagState(mode)]
SetLogMode(logger, mode) == [logger EXCEPT !.logMode = mode]
Writes(logger, level) == IsAny(logger.dispatcher, {level})

\* CompositeLogger: those of its loggers that write.
CompositeWrites(loggers, level) == {i \in DOMAIN loggers : Writes(loggers[i], level)}
===============================================================================
