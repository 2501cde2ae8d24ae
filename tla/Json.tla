--------------------------------- MODULE Json ---------------------------------
(***************************************************************************)
(* json_get and json_compare of source/json.c over json-c values.  A      *)
(* value is a record whose type field is json_object_get_type and whose   *)
(* other field, named after the type, holds what the json_object_get_*    *)
(* accessor returns: a boolean, an int, a double (an integer here, as     *)
(* only == is applied to it), a string as a sequence of characters that   *)
(* may hold ChNul, the items of an array, or the members of an object (a  *)
(* function from its keys, which are unique).                              *)
(***************************************************************************)
EXTENDS Integers, Sequences, FiniteSets, Bitwise, CString

JNull == [type |-> "null"]
JBool(b) == [type |-> "boolean", bool |-> b]
JInt(n) == [type |-> "int", int |-> n]
JDouble(d) == [type |-> "double", dbl |-> d]
JString(s) == [type |-> "string", str |-> s]
JArray(items) == [type |-> "array", items |-> items]
JObject(members) == [type |-> "object", members |-> members]

json_type_any == -2
NoJson == [none |-> TRUE]          \* a NULL json_object pointer

JSON_COMPARE_FLAG_STRICT_OBJECTS == 1
JSON_COMPARE_FLAG_STRICT_ARRAYS == 2

\* json_get(obj, name, type): the member, if there is one and, unless type
\* is json_type_any, of that type; else NULL.
JsonGet(obj, name, type) ==
    CASE name \notin DOMAIN obj.members -> NoJson
      [] type # json_type_any /\ obj.members[name].type # type -> NoJson
      [] OTHER -> obj.members[name]

\* json_copy: a new object holding the same member values (json_object_get
\* shares them).
JsonCopy(obj) == JObject(obj.members)

\* json_compare_string: equal lengths, then strcmp, which stops at the
\* first NUL.
JsonCompareString(obj, pattern) ==
    /\ Len(pattern.str) = Len(obj.str)
    /\ CStr(pattern.str \o <<ChNul>>) = CStr(obj.str \o <<ChNul>>)

RECURSIVE JsonCompare(_, _, _)

\* Mutant: the strict array comparison without its length check.
JsonCompareArrayNoLength(obj, pattern, flags) ==
    IF (flags & JSON_COMPARE_FLAG_STRICT_ARRAYS) # 0
    THEN \A idx \in 1..Len(pattern.items) :
            idx <= Len(obj.items) /\ JsonCompare(obj.items[idx], pattern.items[idx], flags)
    ELSE \A p \in 1..Len(pattern.items) :
            \E o \in 1..Len(obj.items) : JsonCompare(obj.items[o], pattern.items[p], flags)

\* Mutant: the search for a pattern item stops before obj's last item.
JsonCompareArraySkipLast(obj, pattern, flags) ==
    IF (flags & JSON_COMPARE_FLAG_STRICT_ARRAYS) # 0
    THEN /\ Len(obj.items) = Len(pattern.items)
         /\ \A idx \in 1..Len(pattern.items) :
               JsonCompare(obj.items[idx], pattern.items[idx], flags)
    ELSE \A p \in 1..Len(pattern.items) :
            \E o \in 1..Len(obj.items) - 1 : JsonCompare(obj.items[o], pattern.items[p], flags)

\* json_compare_array: with strict arrays, the same length and item by
\* item; else every pattern item matches some item of obj, in any order.
JsonCompareArray(obj, pattern, flags) ==
    IF (flags & JSON_COMPARE_FLAG_STRICT_ARRAYS) # 0
    THEN /\ Len(obj.items) = Len(pattern.items)
         /\ \A idx \in 1..Len(pattern.items) :
               JsonCompare(obj.items[idx], pattern.items[idx], flags)
    ELSE \A p \in 1..Len(pattern.items) :
            \E o \in 1..Len(obj.items) : JsonCompare(obj.items[o], pattern.items[p], flags)

\* json_compare_object: with strict objects, the same number of members;
\* every pattern key in obj with a matching value; with strict objects,
\* every key of obj in the pattern.
JsonCompareObject(obj, pattern, flags) ==
    LET strict == (flags & JSON_COMPARE_FLAG_STRICT_OBJECTS) # 0
    IN /\ strict => Cardinality(DOMAIN obj.members) = Cardinality(DOMAIN pattern.members)
       /\ \A key \in DOMAIN pattern.members :
             /\ key \in DOMAIN obj.members
             /\ JsonCompare(obj.members[key], pattern.members[key], flags)
       /\ strict => DOMAIN obj.members \subseteq DOMAIN pattern.members

\* json_compare(obj, pattern, flags): the same type, then by type; null
\* matches null.
JsonCompare(obj, pattern, flags) ==
    /\ pattern.type = obj.type
    /\ CASE pattern.type = "object" -> JsonCompareObject(obj, pattern, flags)
         [] pattern.type = "array" -> JsonCompareArray(obj, pattern, flags)
         [] pattern.type = "string" -> JsonCompareString(obj, pattern)
         [] pattern.type = "boolean" -> obj.bool = pattern.bool
         [] pattern.type = "int" -> obj.int = pattern.int
         [] pattern.type = "double" -> obj.dbl = pattern.dbl
         [] pattern.type = "null" -> TRUE
         [] OTHER -> FALSE

JsonFlags == 0..3
=============================================================================
