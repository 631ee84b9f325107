---------------------------- MODULE WhereFilter ----------------------------
(***************************************************************************)
(* How the where and order by of a query look at one object:               *)
(* callbacks/sql_where_process.go and executeOrderBy of callbacks/list.go. *)
(* ListQuery says which conditions a query has, this module what one       *)
(* condition means.                                                        *)
(*                                                                         *)
(* The value of a field and the literal of a condition are texts, and what *)
(* a text is depends on who parses it.  A text is a record of what the     *)
(* parsers make of it: its place in the byte order, its lower case form,   *)
(* its number, its day and its clock (None when it is no number or time),  *)
(* whether strconv.ParseBool takes it, what fmt prints of it once it has   *)
(* been parsed, and the lower case patterns it begins with, ends with and  *)
(* contains.  A time with a clock is written as RFC 3339 has it.           *)
(***************************************************************************)
EXTENDS Integers, Sequences

CONSTANT None  \* no number, no time, no such field

Text == [word : Nat, fold : Nat, num : Int \cup {None}, bool : BOOLEAN,
         printed : Nat,
         day : Nat \cup {None}, clock : 0..99 \cup {None},
         starts : SUBSET Nat, ends : SUBSET Nat, holds : SUBSET Nat]

\* utils.ParseTime; strconv.ParseFloat.
IsTime(t) == t.day # None
IsNumber(t) == t.num # None

\* Mutant of DetectType: numbers are looked for before booleans.
DetectTypeNumbersFirst(t) ==
    IF IsNumber(t) THEN "number"
    ELSE IF t.bool THEN "boolean"
    ELSE IF IsTime(t) THEN "time" ELSE "string"

\* utils.DetectType: ParseBool goes first, and it takes "1" and "0".
DetectType(t) ==
    IF t.bool THEN "boolean"
    ELSE IF IsNumber(t) THEN "number"
    ELSE IF IsTime(t) THEN "time" ELSE "string"

\* The moment of a text; a date alone is midnight.
Moment(t) == 100 * t.day + (IF t.clock = None THEN 0 ELSE t.clock)

\* "=": without regard to case; a field that must be a moment is one in full.
CompareValue(field, t) ==
    CASE DetectType(t) = "string" -> field.fold = t.fold
      [] DetectType(t) = "number" -> field.num = t.num
      [] DetectType(t) = "time" -> /\ IsTime(field) /\ field.clock # None
                                   /\ Moment(field) = Moment(t)
      [] OTHER -> FALSE

\* "like": a pattern with a % before it, after it, on both sides or without.
\* Without one it may have been taken for a boolean, a number or a time.
CompareLike(field, t, percent) ==
    CASE percent = "both" -> t.fold \in field.holds
      [] percent = "after" -> t.fold \in field.starts
      [] percent = "before" -> t.fold \in field.ends
      [] OTHER -> field.fold = t.printed

Ordered(op, a, b) ==
    CASE op = ">" -> a > b [] op = "<" -> a < b
      [] op = ">=" -> a >= b [] op = "<=" -> a <= b

\* compareGreater and the three like it: numbers and moments only.
CompareOrder(op, field, t) ==
    CASE DetectType(t) = "number" -> IsNumber(field) /\ Ordered(op, field.num, t.num)
      [] DetectType(t) = "time" -> IsTime(field) /\ Ordered(op, Moment(field), Moment(t))
      [] OTHER -> FALSE

\* Mutant of CompareIn: only what is written the same.
CompareInAsWritten(field, list) == \E t \in list : field.word = t.word

\* "in": as numbers, as times (the same day, or the same clock on any day)
\* or as they are written.  The list itself is a string, so its members are
\* never taken for booleans.
CompareIn(field, list) ==
    \E t \in list :
        \/ IsNumber(field) /\ field.num = t.num
        \/ /\ IsTime(field) /\ IsTime(t)
           /\ field.day = t.day \/ (t.clock # None /\ field.clock = t.clock)
        \/ field.word = t.word

\* Mutant of CompareBetween: the upper bound is excluded.
CompareBetweenBelow(field, from, to) ==
    IF \A t \in {field, from, to} : IsNumber(t)
    THEN field.num >= from.num /\ field.num < to.num
    ELSE IF \A t \in {field, from, to} : IsTime(t)
    THEN Moment(field) >= Moment(from) /\ Moment(field) < Moment(to)
    ELSE field.word >= from.word /\ field.word < to.word

\* "between": numbers if all three are, else times, else strings.
CompareBetween(field, from, to) ==
    IF \A t \in {field, from, to} : IsNumber(t)
    THEN field.num >= from.num /\ field.num <= to.num
    ELSE IF \A t \in {field, from, to} : IsTime(t)
    THEN Moment(field) >= Moment(from) /\ Moment(field) <= Moment(to)
    ELSE field.word >= from.word /\ field.word <= to.word

\* Does one value pass the operator, the negation of a negative one left out?
Compare(field, c) ==
    CASE c.op \in {"=", "!="} -> CompareValue(field, c.value)
      [] c.op \in {">", "<", ">=", "<="} -> CompareOrder(c.op, field, c.value)
      [] c.op = "like" -> CompareLike(field, c.value, c.percent)
      [] c.op \in {"in", "not in"} -> CompareIn(field, c.list)
      [] c.op \in {"between", "not between"} -> CompareBetween(field, c.from, c.to)

Negative == {"!=", "not in", "not between"}

\* Mutant of MatchCondition: a list passes a negative operator by one value.
MatchConditionAny(fields, c) ==
    /\ fields # {}
    /\ \E f \in fields : Compare(f, c) = (c.op \notin Negative)

\* matchCondition over the values that a path leads to, several when it goes
\* through lists: a positive operator needs one that passes, a negative one
\* needs all.  An object without the field passes neither.
MatchCondition(fields, c) ==
    /\ fields # {}
    /\ IF c.op \in Negative THEN \A f \in fields : ~Compare(f, c)
                            ELSE \E f \in fields : Compare(f, c)

\* getFieldValues: a path through a list collects from every item that has
\* the rest of it.  The [key=value] of a path restricts a list of maps, but
\* what a decoder makes is a list of anything, and there it is dropped.
FieldValues(items, field) ==
    {item[field] : item \in {i \in items : field \in DOMAIN i}} \ {None}

\* Mutant of Less: descending is not ascending.
LessNegated(a, b, desc) ==
    IF desc /\ DetectType(a) = "string" THEN (IF a.word < b.word THEN "not" ELSE "less")
    ELSE IF a.word < b.word THEN "less" ELSE "not"

\* The comparison of executeOrderBy: "less", "not", or the panic of a type
\* assertion when the second value is not of the type of the first.
Less(a, b, desc) ==
    LET kind == DetectType(a)
        before(x, y) == IF (IF desc THEN x > y ELSE x < y) THEN "less" ELSE "not"
    IN  IF kind \in {"string", "number"} /\ DetectType(b) # kind THEN "panic"
        ELSE CASE kind = "string" -> before(a.word, b.word)
               [] kind = "number" -> before(a.num, b.num)
               [] kind = "time" /\ IsTime(b) -> before(Moment(a), Moment(b))
               [] OTHER -> "not"

\* The page that offset and limit leave of a list.
Page(list, offset, limit) ==
    SubSeq(list, offset + 1, IF limit > 0 /\ offset + limit < Len(list)
                             THEN offset + limit ELSE Len(list))

\* ParsePagination
PageSize(asked) == IF asked < 1 THEN 10 ELSE IF asked > 300 THEN 300 ELSE asked
Offset(page, size) == (IF page < 1 THEN 0 ELSE page - 1) * size

\* Mutant of TotalPages: a page that is not full is not counted.
TotalPagesFull(total, size) == total \div size

\* BuildPaginatedResult
TotalPages(total, size) ==
    total \div size + (IF total % size > 0 THEN 1 ELSE 0)
=============================================================================
