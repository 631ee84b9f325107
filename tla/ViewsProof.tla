----------------------------- MODULE ViewsProof -----------------------------
(***************************************************************************)
(* What a query means is consistent (QueriesAreConsistent), for any texts, *)
(* page sizes and tables of resources.  Every step asks and answers at     *)
(* once, so nothing needs to be strengthened: each lemma named ...Step     *)
(* shows one conjunct of the answer just given, of the operators that      *)
(* compute it.                                                             *)
(***************************************************************************)
EXTENDS Views, WellFoundedInduction, TLAPS

\* A step of a kind is that kind's action.
LEMMA EachKind ==
    ASSUME ViewsNext
    PROVE  /\ Asked("where")' => Where
           /\ Asked("range")' => WhereRange
           /\ Asked("order")' => OrderBy
           /\ Asked("pages")' => Paginate
           /\ Asked("nodes")' => NodesOfPod
           /\ Asked("ingresses")' => IngressesOfPod
           /\ Asked("pods")' => PodsOfOwner
           /\ Asked("relatives")' => RelativesOfPod
           /\ Asked("counts")' => PodsOfNode
           /\ Asked("top")' => TopOfNodes
           /\ Asked("usage")' => Usage
           /\ Asked("table")' => KindOfTable
           /\ Asked("resource")' => ResourceOfKind
           /\ Asked("conflicts")' => ConflictsOfRules
           /\ Asked("backends")' => BackendsOfRules
<1>1. Where => asked'.kind = "where"
  BY DEF Where, Ask
<1>2. WhereRange => asked'.kind = "range"
  <2> SUFFICES ASSUME WhereRange PROVE asked'.kind = "range"
    OBVIOUS
  <2>1. PICK f \in Texts, x \in Texts, y \in Texts,
             op \in {"in", "not in", "between", "not between"} :
            Ask("range", [fields |-> {f},
                          cond |-> [op |-> op, list |-> {x, y}, from |-> x, to |-> y]])
    BY DEF WhereRange
  <2> QED
    BY <2>1 DEF Ask
<1>3. OrderBy => asked'.kind = "order"
  BY DEF OrderBy, Ask
<1>4. Paginate => asked'.kind = "pages"
  BY DEF Paginate, Ask
<1>5. NodesOfPod => asked'.kind = "nodes"
  BY DEF NodesOfPod, Ask
<1>6. IngressesOfPod => asked'.kind = "ingresses"
  BY DEF IngressesOfPod, Ask
<1>7. PodsOfOwner => asked'.kind = "pods"
  BY DEF PodsOfOwner, Ask
<1>8. RelativesOfPod => asked'.kind = "relatives"
  BY DEF RelativesOfPod, Ask
<1>9. PodsOfNode => asked'.kind = "counts"
  BY DEF PodsOfNode, Ask
<1>10. TopOfNodes => asked'.kind = "top"
  BY DEF TopOfNodes, Ask
<1>11. Usage => asked'.kind = "usage"
  BY DEF Usage, Ask
<1>12. KindOfTable => asked'.kind = "table"
  BY DEF KindOfTable, Ask
<1>13. ResourceOfKind => asked'.kind = "resource"
  BY DEF ResourceOfKind, Ask
<1>14. ConflictsOfRules => asked'.kind = "conflicts"
  BY DEF ConflictsOfRules, Ask
<1>15. BackendsOfRules => asked'.kind = "backends"
  BY DEF BackendsOfRules, Ask
<1> QED
  BY <1>1, <1>2, <1>3, <1>4, <1>5, <1>6, <1>7, <1>8, <1>9, <1>10, <1>11, <1>12, <1>13, <1>14, <1>15
     DEF ViewsNext, Asked

\* A positive operator and its negation, on whatever values.
LEMMA Complement ==
    ASSUME NEW fields, NEW c, NEW d,
           c.op \notin Negative, d.op \in Negative,
           \A f \in fields : Compare(f, c) <=> Compare(f, d)
    PROVE  IF fields = {} THEN ~MatchCondition(fields, c) /\ ~MatchCondition(fields, d)
           ELSE MatchCondition(fields, c) # MatchCondition(fields, d)
BY DEF MatchCondition

\* The step asked whether the values of a field meet the condition c.
Was(kind, fields, c) ==
    /\ asked' = [kind |-> kind, arg |-> [fields |-> fields, cond |-> c]]
    /\ reply' = MatchCondition(fields, c)

WhereConditions ==
    [op : {"=", "!=", ">", "<", ">=", "<=", "like"}, value : Texts,
     percent : {"no", "before", "after", "both"}]

RangeConditions ==
    [op : {"in", "not in", "between", "not between"}, list : SUBSET Texts,
     from : Texts, to : Texts]

\* What Where and WhereRange ask.
LEMMA AskedWhere ==
    ASSUME Where
    PROVE  \E fields \in SUBSET Texts, c \in WhereConditions : Was("where", fields, c)
<1>1. PICK f \in Texts, g \in Texts : \E fields \in {{}, {f, g}}, t \in Texts,
           op \in {"=", "!=", ">", "<", ">=", "<=", "like"},
           percent \in {"no", "before", "after", "both"} :
        LET c == [op |-> op, value |-> t, percent |-> percent] IN
        /\ op # "like" => percent = "no"
        /\ Ask("where", [fields |-> fields, cond |-> c])
        /\ reply' = MatchCondition(fields, c)
  BY DEF Where
<1>4. PICK fields \in {{}, {f, g}}, t \in Texts,
           op \in {"=", "!=", ">", "<", ">=", "<=", "like"},
           percent \in {"no", "before", "after", "both"} :
        LET c == [op |-> op, value |-> t, percent |-> percent] IN
        /\ op # "like" => percent = "no"
        /\ Ask("where", [fields |-> fields, cond |-> c])
        /\ reply' = MatchCondition(fields, c)
  BY <1>1
<1> DEFINE c == [op |-> op, value |-> t, percent |-> percent]
<1>2. c \in WhereConditions
  BY DEF WhereConditions
<1>3. Was("where", fields, c)
  BY <1>4 DEF Was, Ask
<1> HIDE DEF c
<1> QED
  BY <1>2, <1>3

\* The same of lists and intervals.
LEMMA AskedRange ==
    ASSUME WhereRange
    PROVE  \E f \in Texts, c \in RangeConditions : Was("range", {f}, c)
<1>1. PICK f \in Texts, x \in Texts, y \in Texts,
           op \in {"in", "not in", "between", "not between"} :
        LET c == [op |-> op, list |-> {x, y}, from |-> x, to |-> y] IN
        /\ Ask("range", [fields |-> {f}, cond |-> c])
        /\ reply' = MatchCondition({f}, c)
  BY DEF WhereRange
<1> DEFINE c == [op |-> op, list |-> {x, y}, from |-> x, to |-> y]
<1>2. c \in RangeConditions
  BY DEF RangeConditions
<1>3. Was("range", {f}, c)
  BY <1>1 DEF Was, Ask
<1> HIDE DEF c
<1> QED
  BY <1>2, <1>3

\* A positive operator and its negation compare alike and are read opposite ways.
LEMMA NegationStep == ViewsNext => NegationsComplement'
<1> SUFFICES ASSUME ViewsNext PROVE NegationsComplement'
  OBVIOUS
<1> DEFINE other(op) == CASE op = "=" -> "!=" [] op = "in" -> "not in"
                          [] op = "between" -> "not between" [] OTHER -> None
<1>1. CASE Where
  <2>1. PICK fields \in SUBSET Texts, c \in WhereConditions : Was("where", fields, c)
    BY <1>1, AskedWhere
  <2> DEFINE d == [c EXCEPT !.op = other(c.op)]
  <2>2. c.op # "=" => other(c.op) = None
    BY DEF WhereConditions
  <2>3. c.op = "=" => d.op = "!=" /\ d.value = c.value
    BY DEF WhereConditions
  <2>4. c.op = "=" => c.op \notin Negative /\ d.op \in Negative
                      /\ \A f : Compare(f, c) <=> Compare(f, d)
    BY <2>3 DEF Negative, Compare
  <2>5. c.op = "=" => IF fields = {} THEN ~MatchCondition(fields, c) /\ ~MatchCondition(fields, d)
                      ELSE MatchCondition(fields, c) # MatchCondition(fields, d)
    BY <2>4, Complement
  <2>6. asked'.arg.cond = c /\ asked'.arg.fields = fields /\ reply' = MatchCondition(fields, c)
    BY <2>1 DEF Was
  <2> QED
    BY <2>2, <2>5, <2>6 DEF NegationsComplement
<1>2. CASE WhereRange
  <2>1. PICK f \in Texts, c \in RangeConditions : Was("range", {f}, c)
    BY <1>2, AskedRange
  <2> DEFINE d == [c EXCEPT !.op = other(c.op)]
             positive == c.op \in {"in", "between"}
  <2>2. ~positive => other(c.op) = None
    BY DEF RangeConditions
  <2>3. positive => /\ d.op = IF c.op = "in" THEN "not in" ELSE "not between"
                    /\ d.list = c.list /\ d.from = c.from /\ d.to = c.to
    BY DEF RangeConditions
  <2>4. positive => c.op \notin Negative /\ d.op \in Negative
                    /\ \A g : Compare(g, c) <=> Compare(g, d)
    <3>1. CASE c.op = "in"
      BY <2>3, <3>1 DEF Negative, Compare
    <3>2. CASE c.op = "between"
      BY <2>3, <3>2 DEF Negative, Compare
    <3> QED
      BY <3>1, <3>2
  <2>5. positive => MatchCondition({f}, c) # MatchCondition({f}, d)
    BY <2>4, Complement
  <2>6. asked'.arg.cond = c /\ asked'.arg.fields = {f} /\ reply' = MatchCondition({f}, c)
    BY <2>1 DEF Was
  <2> QED
    BY <2>2, <2>5, <2>6 DEF NegationsComplement
<1> QED BY <1>1, <1>2, EachKind DEF NegationsComplement

\* An interval is >= its lower end and <= its upper end, as numbers or as times.
LEMMA RangeStep == ViewsNext => RangesAgree'
<1> SUFFICES ASSUME ViewsNext, Asked("range")' PROVE RangesAgree'
  BY DEF RangesAgree
<1>1. PICK f \in Texts, c \in RangeConditions : Was("range", {f}, c)
  BY AskedRange, EachKind
<1> DEFINE low == [op |-> ">=", value |-> c.from]
           high == [op |-> "<=", value |-> c.to]
<1>2. \A type \in {"number", "time"} :
          (/\ c.op = "between"
           /\ \A t \in {f} \cup {c.from, c.to} : DetectType(t) = type)
          => (Compare(f, c) <=> Compare(f, low) /\ Compare(f, high))
  <2>1. f \in Text /\ c.from \in Text /\ c.to \in Text
    BY TextsAssumption DEF RangeConditions
  <2>2. SUFFICES ASSUME NEW type \in {"number", "time"}, c.op = "between",
                        DetectType(f) = type, DetectType(c.from) = type, DetectType(c.to) = type
                 PROVE  Compare(f, c) <=> Compare(f, low) /\ Compare(f, high)
    OBVIOUS
  <2>3. /\ Compare(f, c) <=> CompareBetween(f, c.from, c.to)
        /\ Compare(f, low) <=> CompareOrder(">=", f, c.from)
        /\ Compare(f, high) <=> CompareOrder("<=", f, c.to)
    BY <2>2 DEF Compare
  <2>4. CASE type = "number"
    <3>1. IsNumber(f) /\ IsNumber(c.from) /\ IsNumber(c.to)
      BY <2>2, <2>4 DEF DetectType
    <3> QED
      BY <2>2, <2>3, <2>4, <3>1 DEF CompareBetween, CompareOrder, Ordered
  <2>5. CASE type = "time"
    <3>1. /\ IsTime(f) /\ IsTime(c.from) /\ IsTime(c.to)
          /\ ~IsNumber(f) /\ ~IsNumber(c.from) /\ ~IsNumber(c.to)
      BY <2>2, <2>5 DEF DetectType
    <3> QED
      BY <2>2, <2>3, <2>5, <3>1 DEF CompareBetween, CompareOrder, Ordered
  <2> QED
    BY <2>4, <2>5
<1>3. /\ MatchCondition({f}, c) <=> IF c.op \in Negative THEN ~Compare(f, c) ELSE Compare(f, c)
      /\ MatchCondition({f}, low) <=> Compare(f, low)
      /\ MatchCondition({f}, high) <=> Compare(f, high)
  BY DEF MatchCondition, Negative
<1>4. asked'.arg.cond = c /\ asked'.arg.fields = {f} /\ reply' = MatchCondition({f}, c)
  BY <1>1 DEF Was
<1>5. \A type \in {"number", "time"} :
          (/\ c.op = "between"
           /\ \A t \in {f} \cup {c.from, c.to} : DetectType(t) = type)
          => MatchCondition({f}, c) = (MatchCondition({f}, low) /\ MatchCondition({f}, high))
  <2>1. MatchCondition({f}, c) \in BOOLEAN
    BY DEF MatchCondition
  <2> QED
    BY <1>2, <1>3, <2>1 DEF Negative
<1> HIDE DEF low, high
<1>6. (/\ c.op = "between"
       /\ \E type \in {"number", "time"} :
              \A t \in {f} \cup {c.from, c.to} : DetectType(t) = type)
      => reply' = (MatchCondition({f}, low) /\ MatchCondition({f}, high))
  BY <1>4, <1>5
<1> QED
  BY <1>4, <1>6 DEF RangesAgree, low, high

\* A moment tells its day.
LEMMA DayOfMoment ==
    ASSUME NEW d \in Nat, NEW e \in Nat, NEW c \in 0..99, NEW k \in 0..99,
           100 * d + c = 100 * e + k
    PROVE  d = e
<1>1. ~(d < e)
  OBVIOUS
<1>2. ~(e < d)
  OBVIOUS
<1> QED
  BY <1>1, <1>2

\* What is equal as a text of some type is in a list with it.
LEMMA EqualIsIn ==
    ASSUME NEW f \in Text, NEW t \in Text, NEW list, t \in list,
           f.fold = f.word, t.fold = t.word, CompareValue(f, t)
    PROVE  CompareIn(f, list)
<1>1. CASE DetectType(t) = "string"
  BY <1>1 DEF CompareValue, CompareIn
<1>2. CASE DetectType(t) = "number"
  <2>1. t.num # None /\ f.num = t.num
    BY <1>2 DEF CompareValue, DetectType, IsNumber
  <2> QED
    BY <2>1 DEF CompareIn, IsNumber
<1>3. CASE DetectType(t) = "time"
  <2>1. /\ IsTime(t) /\ IsTime(f) /\ f.clock # None
        /\ Moment(f) = Moment(t)
    BY <1>3 DEF CompareValue, DetectType
  <2>2. /\ f.day \in Nat /\ t.day \in Nat /\ f.clock \in 0..99
        /\ t.clock # None => t.clock \in 0..99
    BY <2>1 DEF Text, IsTime
  <2>3. f.day = t.day
    <3> DEFINE clock == IF t.clock = None THEN 0 ELSE t.clock
    <3>1. clock \in 0..99
      BY <2>2
    <3>2. 100 * f.day + f.clock = 100 * t.day + clock
      BY <2>1 DEF Moment
    <3> HIDE DEF clock
    <3> QED
      BY <2>2, <3>1, <3>2, DayOfMoment
  <2> QED
    BY <2>1, <2>3 DEF CompareIn
<1> QED
  BY <1>1, <1>2, <1>3 DEF CompareValue, DetectType

\* The only value of a field is not in a list, hence equals no member of it.
LEMMA InStep == ViewsNext => EqualsImpliesIn'
<1> SUFFICES ASSUME ViewsNext, Asked("range")' PROVE EqualsImpliesIn'
  BY DEF EqualsImpliesIn
<1>1. PICK f \in Texts, c \in RangeConditions : Was("range", {f}, c)
  BY AskedRange, EachKind
<1>2. asked'.arg.cond = c /\ asked'.arg.fields = {f} /\ reply' = MatchCondition({f}, c)
  BY <1>1 DEF Was
<1>3. c.op = "in" => (MatchCondition({f}, c) <=> CompareIn(f, c.list))
  BY DEF MatchCondition, Compare, Negative
<1>4. f \in Text /\ c.list \subseteq Text
  BY TextsAssumption DEF RangeConditions
<1> QED
  BY <1>2, <1>3, <1>4, EqualIsIn DEF EqualsImpliesIn

\* What order by compares with, between texts of one type.
LEMMA LessIsOrder ==
    ASSUME NEW a \in Text, NEW b \in Text, NEW desc \in BOOLEAN,
           DetectType(a) = DetectType(b)
    PROVE  \/ /\ DetectType(a) = "boolean"
              /\ Less(a, b, desc) # "less"
           \/ /\ DetectType(a) = "string" /\ a.word \in Nat /\ b.word \in Nat
              /\ Less(a, b, desc) = "less" <=> IF desc THEN a.word > b.word ELSE a.word < b.word
           \/ /\ DetectType(a) = "number" /\ a.num \in Int /\ b.num \in Int
              /\ Less(a, b, desc) = "less" <=> IF desc THEN a.num > b.num ELSE a.num < b.num
           \/ /\ DetectType(a) = "time" /\ Moment(a) \in Nat /\ Moment(b) \in Nat
              /\ Less(a, b, desc) = "less" <=> IF desc THEN Moment(a) > Moment(b)
                                                       ELSE Moment(a) < Moment(b)
<1>1. DetectType(a) = "number" => a.num \in Int /\ b.num \in Int
  BY DEF DetectType, IsNumber, Text
<1>2. DetectType(a) = "time" => IsTime(b) /\ Moment(a) \in Nat /\ Moment(b) \in Nat
  BY DEF DetectType, IsTime, Moment, Text
<1>3. a.word \in Nat /\ b.word \in Nat
  BY DEF Text
<1>4. DetectType(a) \in {"boolean", "string", "number", "time"}
  BY DEF DetectType
<1>5. CASE DetectType(a) = "boolean"
  BY <1>5 DEF Less
<1>6. CASE DetectType(a) = "string"
  BY <1>3, <1>6 DEF Less
<1>7. CASE DetectType(a) = "number"
  BY <1>1, <1>7 DEF Less
<1>8. CASE DetectType(a) = "time"
  BY <1>2, <1>8 DEF Less
<1> QED
  BY <1>4, <1>5, <1>6, <1>7, <1>8

\* Less is asymmetric and transitive, and turned around by desc, type by type.
LEMMA OrderStep == ViewsNext => SortsByAStrictOrder'
<1> SUFFICES ASSUME ViewsNext, Asked("order")' PROVE SortsByAStrictOrder'
  BY DEF SortsByAStrictOrder
<1>1. PICK a \in Texts, b \in Texts, desc \in BOOLEAN :
          /\ Ask("order", [a |-> a, b |-> b, desc |-> desc])
          /\ reply' = Less(a, b, desc)
  BY EachKind DEF OrderBy
<1>2. /\ asked'.arg.a = a /\ asked'.arg.b = b /\ asked'.arg.desc = desc
  BY <1>1 DEF Ask
<1>3. Texts \subseteq Text
  BY TextsAssumption
<1>4. SUFFICES ASSUME DetectType(a) = DetectType(b)
               PROVE  /\ ~(reply' = "less" /\ Less(b, a, desc) = "less")
                      /\ (reply' = "less") = (Less(b, a, ~desc) = "less")
                      /\ \A c \in Texts : DetectType(c) = DetectType(a) =>
                             (reply' = "less" /\ Less(b, c, desc) = "less"
                                  => Less(a, c, desc) = "less")
  BY <1>2 DEF SortsByAStrictOrder
<1>5. ~(reply' = "less" /\ Less(b, a, desc) = "less")
  BY <1>1, <1>3, <1>4, LessIsOrder
<1>6. (reply' = "less") <=> (Less(b, a, ~desc) = "less")
  BY <1>1, <1>3, <1>4, LessIsOrder
<1>7. ASSUME NEW c \in Texts, DetectType(c) = DetectType(a),
             reply' = "less", Less(b, c, desc) = "less"
      PROVE  Less(a, c, desc) = "less"
  <2>1. DetectType(b) = DetectType(c) /\ DetectType(a) = DetectType(c) /\ Less(a, b, desc) = "less"
    BY <1>1, <1>4, <1>7
  <2> QED
    BY <1>3, <1>4, <1>7, <2>1, LessIsOrder
<1> QED
  BY <1>5, <1>6, <1>7

\* Division with a remainder.
LEMMA DivMod ==
    ASSUME NEW n \in Nat, NEW s \in Nat \ {0}
    PROVE  /\ n \div s \in Nat /\ n % s \in 0..s - 1
           /\ n = s * (n \div s) + (n % s)
OBVIOUS

\* A multiple of s that is greater is so by s at least.
LEMMA Multiples ==
    ASSUME NEW s \in Nat, NEW a \in Int, NEW b \in Int, a < b
    PROVE  s * a \in Int /\ s * b \in Int /\ s * a + s <= s * b
<1>1. s * (b - a - 1) >= 0
  OBVIOUS
<1>2. s * (b - a - 1) = s * b - s * a - s
  OBVIOUS
<1> QED BY <1>1, <1>2

\* Which items are on a page of a list of numbers.
LEMMA OnPage ==
    ASSUME NEW total \in Nat, NEW size \in 1..300, NEW p \in Nat \ {0}
    PROVE  LET page == Page([i \in 1..total |-> i], Offset(p, size), size)
           IN  \A i \in Nat : size * (p - 1) < total =>
                   (i \in Range(page) <=> i \in 1..total /\ size * (p - 1) < i /\ i <= size * p)
<1> DEFINE list == [i \in 1..total |-> i]
           off == size * (p - 1)
           end == IF off + size < total THEN off + size ELSE total
<1>1. off \in Nat /\ off + size = size * p
  OBVIOUS
<1>2. Offset(p, size) = off
  BY DEF Offset
<1>3. list \in Seq(Nat) /\ Len(list) = total
  OBVIOUS
<1>4. Page(list, off, size) = SubSeq(list, off + 1, end)
  BY <1>3 DEF Page
<1> HIDE DEF off
<1>5. SUFFICES ASSUME off < total, NEW i \in Nat
               PROVE  i \in Range(Page(list, off, size))
                          <=> i \in 1..total /\ off < i /\ i <= off + size
  BY <1>1, <1>2 DEF off
<1>6. /\ end \in Nat /\ off < end /\ end <= total
  BY <1>1, <1>5
<1>7. /\ DOMAIN SubSeq(list, off + 1, end) = 1..end - off
      /\ \A k \in 1..end - off : SubSeq(list, off + 1, end)[k] = off + k
  BY <1>1, <1>3, <1>6
<1>8. i \in Range(SubSeq(list, off + 1, end)) <=> \E k \in 1..end - off : i = off + k
  BY <1>7 DEF Range
<1>9. (\E k \in 1..end - off : i = off + k) <=> off < i /\ i <= end
  <2>1. ASSUME off < i, i <= end
        PROVE  \E k \in 1..end - off : i = off + k
    <3>1. i - off \in 1..end - off /\ i = off + (i - off)
      BY <1>1, <1>6, <2>1
    <3> QED
      BY <3>1
  <2> QED
    BY <1>1, <1>6, <2>1
<1> HIDE DEF list, end
<1>10. i \in Range(Page(list, off, size)) <=> off < i /\ i <= end
  BY <1>4, <1>8, <1>9
<1> QED
  BY <1>1, <1>6, <1>10 DEF end

\* The pages that are counted are the ones that begin before the end.
LEMMA PagesCounted ==
    ASSUME NEW total \in Nat, NEW size \in 1..300
    PROVE  /\ TotalPages(total, size) \in Nat
           /\ total <= size * TotalPages(total, size)
           /\ \A p \in 1..TotalPages(total, size) : size * (p - 1) < total
<1> DEFINE q == total \div size
           r == total % size
           pages == TotalPages(total, size)
<1>1. q \in Nat /\ r \in 0..size - 1 /\ total = size * q + r
  BY DivMod
<1>2. pages = q + (IF r > 0 THEN 1 ELSE 0)
  BY DEF TotalPages
<1> HIDE DEF q, r, pages
<1>3. size * (q + 1) = size * q + size /\ size * q \in Nat
  BY <1>1
<1>4. pages \in Nat /\ total <= size * pages
  BY <1>1, <1>2, <1>3
<1>5. ASSUME NEW p \in 1..pages
      PROVE  size * (p - 1) < total
  <2>1. CASE p - 1 < q
    <3>1. size * (p - 1) \in Int /\ size * (p - 1) + size <= size * q
      BY <1>1, <2>1, Multiples
    <3> QED
      BY <1>1, <1>3, <3>1
  <2>2. CASE p - 1 = q
    BY <1>1, <1>2, <1>3, <1>5, <2>2
  <2> QED
    BY <1>1, <1>2, <1>5, <2>1, <2>2
<1> QED
  BY <1>4, <1>5 DEF pages

\* Item i is on page (i - 1) \div size + 1 and on no other, and no page is empty.
LEMMA PagesStep == ViewsNext => PagesAreTheList'
<1> SUFFICES ASSUME ViewsNext, Asked("pages")' PROVE PagesAreTheList'
  BY DEF PagesAreTheList
<1>1. PICK total \in PageLengths, wanted \in PageSizes :
          /\ Ask("pages", [total |-> total, size |-> wanted])
          /\ reply' = [pages |-> TotalPages(total, PageSize(wanted)),
                       page |-> [p \in 1..TotalPages(total, PageSize(wanted)) |->
                           Page([i \in 1..total |-> i], Offset(p, PageSize(wanted)),
                                PageSize(wanted))]]
  BY EachKind DEF Paginate
<1> DEFINE size == PageSize(wanted)
           pages == TotalPages(total, size)
           page(p) == Page([i \in 1..total |-> i], Offset(p, size), size)
<1>2. size \in 1..300 /\ total \in Nat
  BY PagesAssumption DEF PageSize
<1>3. /\ asked'.arg.total = total
      /\ reply'.pages = pages
      /\ \A p \in 1..pages : reply'.page[p] = page(p)
  BY <1>1 DEF Ask
<1> HIDE DEF size
<1>4. pages \in Nat /\ total <= size * pages /\ \A p \in 1..pages : size * (p - 1) < total
  BY <1>2, PagesCounted
<1>5. \A p \in 1..pages, i \in Nat :
          i \in Range(page(p)) <=> i \in 1..total /\ size * (p - 1) < i /\ i <= size * p
  <2> SUFFICES ASSUME NEW p \in 1..pages
               PROVE  \A i \in Nat : i \in Range(page(p))
                          <=> i \in 1..total /\ size * (p - 1) < i /\ i <= size * p
    OBVIOUS
  <2>1. p \in Nat \ {0} /\ size * (p - 1) < total
    BY <1>4
  <2>2. \A i \in Nat : size * (p - 1) < total =>
            (i \in Range(page(p)) <=> i \in 1..total /\ size * (p - 1) < i /\ i <= size * p)
    BY <1>2, <2>1, OnPage
  <2> QED
    BY <2>1, <2>2
<1> HIDE DEF pages, page
<1>6. ASSUME NEW i \in 1..total
      PROVE  \E p \in 1..pages : {q \in 1..pages : i \in Range(page(q))} = {p}
  <2> DEFINE k == (i - 1) \div size
  <2>1. k \in Nat /\ size * k \in Int /\ size * k < i /\ i <= size * k + size
    BY <1>2, DivMod
  <2> HIDE DEF k
  <2>2. size * (k + 1) = size * k + size
    BY <1>2, <2>1
  <2>3. k + 1 \in 1..pages
    <3>1. ~(pages < k)
      <4>1. SUFFICES ASSUME pages < k PROVE FALSE
        OBVIOUS
      <4>2. size * pages \in Int /\ size * pages + size <= size * k
        BY <1>2, <1>4, <2>1, <4>1, Multiples
      <4> QED
        BY <1>2, <1>4, <2>1, <4>2
    <3>2. pages # k
      BY <1>2, <1>4, <2>1
    <3> QED
      BY <1>4, <2>1, <3>1, <3>2
  <2>4. i \in Range(page(k + 1))
    BY <1>5, <2>1, <2>2, <2>3
  <2>5. ASSUME NEW q \in 1..pages, i \in Range(page(q))
        PROVE  q = k + 1
    <3>1. size * (q - 1) < i /\ i <= size * q
      BY <1>5, <2>5
    <3>2. ~(q < k + 1)
      <4>1. SUFFICES ASSUME q < k + 1 PROVE FALSE
        OBVIOUS
      <4>2. q = k \/ (q < k /\ size * q \in Int /\ size * q + size <= size * k)
        BY <1>2, <1>4, <2>1, <4>1, Multiples
      <4> QED
        BY <1>2, <2>1, <3>1, <4>2
    <3>3. ~(k + 1 < q)
      <4>1. SUFFICES ASSUME k + 1 < q PROVE FALSE
        OBVIOUS
      <4>2. k < q - 1 /\ q - 1 \in Int
        BY <1>4, <2>1, <4>1
      <4>3. size * (q - 1) \in Int /\ size * k + size <= size * (q - 1)
        BY <1>2, <2>1, <4>2, Multiples
      <4> QED
        BY <1>2, <2>1, <3>1, <4>3
    <3> QED
      BY <1>4, <2>1, <3>2, <3>3
  <2> QED
    BY <2>3, <2>4, <2>5
<1>7. ASSUME NEW p \in 1..pages
      PROVE  page(p) # << >>
  <2>1. size * (p - 1) \in Nat
    BY <1>2, <1>4
  <2>2. size * (p - 1) + 1 \in 1..total /\ size * (p - 1) + 1 <= size * p
    <3>1. size * p = size * (p - 1) + size
      BY <1>2, <1>4
    <3> QED
      BY <1>2, <1>4, <2>1, <3>1
  <2>3. size * (p - 1) + 1 \in Range(page(p))
    BY <1>5, <2>1, <2>2
  <2> QED
    BY <2>3 DEF Range
<1> QED
  BY <1>3, <1>6, <1>7 DEF PagesAreTheList

\* A set of numbers that is not empty has a least element.
LEMMA Least ==
    ASSUME NEW S \in SUBSET Nat, S # {}
    PROVE  \E n \in S : \A m \in S : n <= m
<1> DEFINE R == OpToRel(<, Nat)
<1>1. IsWellFoundedOn(R, Nat)
  BY NatLessThanWellFounded
<1>2. \A y, x \in Nat : <<y, x>> \in R <=> y < x
  BY DEF OpToRel
<1> HIDE DEF R
<1>3. PICK n \in S : \A m \in S : ~(<<m, n>> \in R)
  BY <1>1, WFMin
<1>4. \A m \in S : m \in Nat /\ n \in Nat
  OBVIOUS
<1>5. \A m \in S : ~(m < n)
  BY <1>2, <1>3, <1>4, Zenon
<1> QED
  BY <1>4, <1>5

\* The first place of a sequence that is in a set.
LEMMA FirstPlace ==
    ASSUME NEW apis \in ApiTables, NEW T \in SUBSET DOMAIN apis, T # {}
    PROVE  \E i \in T : \A j \in 1..i - 1 : j \in DOMAIN apis /\ j \notin T
<1>1. DOMAIN apis = 1..Len(apis) /\ Len(apis) \in Nat
  BY ApiTablesAssumption
<1>2. PICK i \in T : \A j \in T : i <= j
  BY <1>1, Least
<1> QED
  BY <1>1, <1>2

\* Nothing in a table is mistaken for NotFound.
LEMMA InTable ==
    ASSUME NEW apis \in ApiTables, NEW i \in DOMAIN apis
    PROVE  NotFound \notin {apis[i], GVK(apis[i]), GVR(apis[i])}
BY ApiTablesAssumption DEF Range

\* The place i is the first of the table that is in T.
FirstWith(apis, T, i) == i \in T /\ \A j \in 1..i - 1 : j \in DOMAIN apis /\ j \notin T

\* A lookup finds the first resource of a group, version and kind.
LEMMA LookupByGVK ==
    ASSUME NEW apis \in ApiTables, NEW gvk
    PROVE  LET T == {i \in DOMAIN apis : GVK(apis[i]) = gvk}
           IN  /\ T = {} => GetGVRByGVK(apis, gvk) = NotFound
               /\ T # {} => \E i : FirstWith(apis, T, i) /\ GetGVRByGVK(apis, gvk) = GVR(apis[i])
<1> DEFINE T == {i \in DOMAIN apis : GVK(apis[i]) = gvk}
           Is(i) == GVK(apis[i]) = gvk /\ \A j \in 1..i - 1 : GVK(apis[j]) # gvk
<1>1. CASE T = {}
  BY <1>1 DEF GetGVRByGVK, First, Answered
<1>2. CASE T # {}
  <2> DEFINE i == CHOOSE i \in DOMAIN apis : Is(i)
  <2>1. \E k \in DOMAIN apis : Is(k)
    BY <1>2, FirstPlace
  <2>2. i \in DOMAIN apis /\ Is(i)
    BY <2>1
  <2>3. First(apis, LAMBDA r : GVK(r) = gvk) = apis[i]
    BY <1>2 DEF First
  <2> HIDE DEF i
  <2>4. GetGVRByGVK(apis, gvk) = GVR(apis[i])
    BY <2>2, <2>3, InTable DEF GetGVRByGVK, Answered
  <2>5. FirstWith(apis, T, i)
    <3>1. i \in T /\ DOMAIN apis = 1..Len(apis) /\ Len(apis) \in Nat
      BY <2>2, ApiTablesAssumption
    <3> QED
      BY <2>2, <3>1 DEF FirstWith
  <2> QED
    BY <1>2, <2>4, <2>5
<1> QED
  BY <1>1, <1>2

\* A lookup finds the first resource of a kind, of whatever group.
LEMMA LookupByKind ==
    ASSUME NEW apis \in ApiTables, NEW kind
    PROVE  LET T == {i \in DOMAIN apis : apis[i].kind = kind}
           IN  /\ T = {} => GetGVRByKind(apis, kind) = NotFound
               /\ T # {} => \E i : FirstWith(apis, T, i) /\ GetGVRByKind(apis, kind) = GVR(apis[i])
<1> DEFINE T == {i \in DOMAIN apis : apis[i].kind = kind}
           Is(i) == apis[i].kind = kind /\ \A j \in 1..i - 1 : ~(apis[j].kind = kind)
<1>1. CASE T = {}
  BY <1>1 DEF GetGVRByKind, First, Answered
<1>2. CASE T # {}
  <2> DEFINE i == CHOOSE i \in DOMAIN apis : Is(i)
  <2>1. \E k \in DOMAIN apis : Is(k)
    BY <1>2, FirstPlace
  <2>2. i \in DOMAIN apis /\ Is(i)
    BY <2>1
  <2>3. First(apis, LAMBDA r : r.kind = kind) = apis[i]
    BY <1>2 DEF First
  <2> HIDE DEF i
  <2>4. GetGVRByKind(apis, kind) = GVR(apis[i])
    BY <2>2, <2>3, InTable DEF GetGVRByKind, Answered
  <2>5. FirstWith(apis, T, i)
    <3>1. i \in T /\ DOMAIN apis = 1..Len(apis) /\ Len(apis) \in Nat
      BY <2>2, ApiTablesAssumption
    <3> QED
      BY <2>2, <3>1 DEF FirstWith
  <2> QED
    BY <1>2, <2>4, <2>5
<1> QED
  BY <1>1, <1>2

\* A lookup finds the kind of the first resource that bears a table name.
LEMMA LookupByName ==
    ASSUME NEW apis \in ApiTables, NEW table
    PROVE  LET T == {i \in DOMAIN apis : table \in TableNames(apis[i])}
           IN  /\ T = {} => From(apis, table) = NotFound
               /\ T # {} => \E i : FirstWith(apis, T, i) /\ From(apis, table) = GVK(apis[i])
<1> DEFINE T == {i \in DOMAIN apis : table \in TableNames(apis[i])}
           Is(i) == table \in TableNames(apis[i])
                    /\ \A j \in 1..i - 1 : ~(table \in TableNames(apis[j]))
<1>1. CASE T = {}
  BY <1>1 DEF From, FindGVKByTableNameInApiResources, First, Answered
<1>2. CASE T # {}
  <2> DEFINE i == CHOOSE i \in DOMAIN apis : Is(i)
  <2>1. \E k \in DOMAIN apis : Is(k)
    BY <1>2, FirstPlace
  <2>2. i \in DOMAIN apis /\ Is(i)
    BY <2>1
  <2>3. First(apis, LAMBDA r : table \in TableNames(r)) = apis[i]
    BY <1>2 DEF First
  <2> HIDE DEF i
  <2>4. From(apis, table) = GVK(apis[i])
    BY <2>2, <2>3, InTable DEF From, FindGVKByTableNameInApiResources, Answered
  <2>5. FirstWith(apis, T, i)
    <3>1. i \in T /\ DOMAIN apis = 1..Len(apis) /\ Len(apis) \in Nat
      BY <2>2, ApiTablesAssumption
    <3> QED
      BY <2>2, <3>1 DEF FirstWith
  <2> QED
    BY <1>2, <2>4, <2>5
<1> QED
  BY <1>1, <1>2

\* By name to the first place that bears it, and by that kind to the first place
\* that has it, which is no later.
LEMMA TableStep == ViewsNext => TablesLeadToTheirResource'
<1> SUFFICES ASSUME ViewsNext, Asked("table")' PROVE TablesLeadToTheirResource'
  BY DEF TablesLeadToTheirResource
<1>1. PICK apis \in ApiTables : \E table :
          /\ Ask("table", [apis |-> apis, table |-> table])
          /\ reply' = From(apis, table)
  BY EachKind DEF KindOfTable
<1>2. PICK table :
          /\ Ask("table", [apis |-> apis, table |-> table])
          /\ reply' = From(apis, table)
  BY <1>1
<1>3. asked'.arg.apis = apis /\ asked'.arg.table = table
  BY <1>2 DEF Ask
<1> DEFINE T == {i \in DOMAIN apis : table \in TableNames(apis[i])}
<1>4. CASE T = {}
  <2>1. reply' = NotFound
    BY <1>2, <1>4, LookupByName
  <2>2. \A r \in Range(apis) : table \notin TableNames(r)
    BY <1>4 DEF Range
  <2>3. \A r \in Range(apis) : table \notin r.short \cup ({r.lower} \cap {r.singular})
    BY <2>2 DEF TableNames
  <2> QED
    BY <1>3, <2>1, <2>3 DEF TablesLeadToTheirResource
<1>5. CASE T # {}
  <2>1. PICK i : FirstWith(apis, T, i) /\ reply' = GVK(apis[i])
    BY <1>2, <1>5, LookupByName
  <2>2. i \in DOMAIN apis /\ table \in TableNames(apis[i]) /\ reply' # NotFound
    BY <2>1, InTable DEF FirstWith
  <2> DEFINE U == {j \in DOMAIN apis : GVK(apis[j]) = GVK(apis[i])}
  <2>3. PICK j : FirstWith(apis, U, j) /\ GetGVRByGVK(apis, GVK(apis[i])) = GVR(apis[j])
    <3>1. U # {}
      BY <2>2
    <3> QED
      BY <3>1, LookupByGVK
  <2>4. j \in 1..i /\ GVK(apis[j]) = GVK(apis[i])
    <3>1. DOMAIN apis = 1..Len(apis) /\ Len(apis) \in Nat
      BY ApiTablesAssumption
    <3>2. j \in U /\ ~(i \in 1..j - 1)
      BY <2>2, <2>3 DEF FirstWith
    <3> QED
      BY <2>2, <3>1, <3>2
  <2> QED
    BY <1>3, <2>1, <2>2, <2>3, <2>4 DEF TablesLeadToTheirResource
<1> QED
  BY <1>4, <1>5

\* A kind that one group and version alone has is at the same first place, by kind
\* or in full.
LEMMA KindStep == ViewsNext => KindsResolveInFull'
<1> SUFFICES ASSUME ViewsNext, Asked("resource")' PROVE KindsResolveInFull'
  BY DEF KindsResolveInFull
<1>1. PICK apis \in ApiTables : \E gvk :
          /\ Ask("resource", [apis |-> apis, gvk |-> gvk])
          /\ reply' = [known |-> IsBuiltinResourceByGVK(apis, gvk),
                       byKind |-> ParseGVK2GVR(apis, CRDs, <<gvk>>, NotFound),
                       byGVK |-> GetGVRByGVK(apis, gvk)]
  BY EachKind DEF ResourceOfKind
<1>2. PICK gvk :
          /\ Ask("resource", [apis |-> apis, gvk |-> gvk])
          /\ reply' = [known |-> IsBuiltinResourceByGVK(apis, gvk),
                       byKind |-> ParseGVK2GVR(apis, CRDs, <<gvk>>, NotFound),
                       byGVK |-> GetGVRByGVK(apis, gvk)]
  BY <1>1
<1>3. /\ asked'.arg.apis = apis /\ asked'.arg.gvk = gvk
      /\ reply'.known = IsBuiltinResourceByGVK(apis, gvk)
      /\ reply'.byKind = ParseGVK2GVR(apis, CRDs, <<gvk>>, NotFound)
      /\ reply'.byGVK = GetGVRByGVK(apis, gvk)
  BY <1>2 DEF Ask
<1> DEFINE T == {i \in DOMAIN apis : GVK(apis[i]) = gvk}
<1>4. IsBuiltinResourceByGVK(apis, gvk) <=> T # {}
  BY DEF IsBuiltinResourceByGVK, Range
<1>5. CASE T = {}
  <2>1. GetGVRByGVK(apis, gvk) = NotFound
    BY <1>5, LookupByGVK
  <2>2. IsBuiltinResourceByGVK(apis, gvk) = FALSE
    BY <1>4, <1>5 DEF IsBuiltinResourceByGVK
  <2> QED
    BY <1>3, <2>1, <2>2 DEF KindsResolveInFull
<1>6. CASE T # {}
  <2>1. PICK i : FirstWith(apis, T, i) /\ GetGVRByGVK(apis, gvk) = GVR(apis[i])
    BY <1>6, LookupByGVK
  <2>2. i \in DOMAIN apis /\ GVK(apis[i]) = gvk
        /\ gvk # NotFound /\ GetGVRByGVK(apis, gvk) # NotFound
    BY <2>1, InTable DEF FirstWith
  <2>3. IsBuiltinResourceByGVK(apis, gvk) = TRUE
    BY <1>4, <1>6 DEF IsBuiltinResourceByGVK
  <2>4. ASSUME \A r \in Range(apis) : r.kind = gvk.kind => GVK(r) = gvk
        PROVE  ParseGVK2GVR(apis, CRDs, <<gvk>>, NotFound) = GetGVRByGVK(apis, gvk)
    <3>1. GetGVK(<<gvk>>, NotFound) = gvk
      BY <2>2 DEF GetGVK, First
    <3>2. gvk.kind = apis[i].kind
      BY <2>2 DEF GVK
    <3>3. IsBuiltinResource(apis, gvk.kind)
      BY <2>2, <3>2 DEF IsBuiltinResource, Range
    <3>4. ParseGVK2GVR(apis, CRDs, <<gvk>>, NotFound) = GetGVRByKind(apis, gvk.kind)
      BY <2>2, <3>1, <3>3 DEF ParseGVK2GVR
    <3> DEFINE K == {k \in DOMAIN apis : apis[k].kind = gvk.kind}
    <3>5. K = T
      <4>1. \A k \in DOMAIN apis : apis[k] \in Range(apis)
        BY DEF Range
      <4>2. \A k \in DOMAIN apis : GVK(apis[k]) = gvk => apis[k].kind = gvk.kind
        BY DEF GVK
      <4> QED
        BY <2>4, <4>1, <4>2
    <3>6. PICK k : FirstWith(apis, K, k) /\ GetGVRByKind(apis, gvk.kind) = GVR(apis[k])
      BY <1>6, <3>5, LookupByKind
    <3>7. i = k
      <4>1. DOMAIN apis = 1..Len(apis) /\ Len(apis) \in Nat
        BY ApiTablesAssumption
      <4>2. /\ i \in T /\ \A j \in 1..i - 1 : j \notin T
            /\ k \in T /\ \A j \in 1..k - 1 : j \notin T
        BY <2>1, <3>5, <3>6 DEF FirstWith
      <4> HIDE DEF T, K
      <4>3. i \in Nat \ {0} /\ k \in Nat \ {0}
        BY <4>1, <4>2 DEF T
      <4> QED
        BY <4>2, <4>3
    <3> QED
      BY <2>1, <3>4, <3>6, <3>7
  <2> QED
    BY <1>3, <2>2, <2>3, <2>4 DEF KindsResolveInFull
<1> QED
  BY <1>5, <1>6

-----------------------------------------------------------------------------

\* What a query means is consistent: which objects meet it, in which order
\* they come, on which page, and which resource it is about.
THEOREM QueriesAgree == ViewsSpec => []QueriesAreConsistent
<1>1. ViewsInit => QueriesAreConsistent
  BY DEF ViewsInit, QueriesAreConsistent, NegationsComplement, RangesAgree, EqualsImpliesIn,
         SortsByAStrictOrder, PagesAreTheList, TablesLeadToTheirResource,
         KindsResolveInFull, Asked
<1>2. QueriesAreConsistent /\ [ViewsNext]_viewsVars => QueriesAreConsistent'
  <2>1. CASE ViewsNext
    BY <2>1, NegationStep, RangeStep, InStep, OrderStep, PagesStep, TableStep, KindStep
       DEF QueriesAreConsistent
  <2>2. CASE UNCHANGED viewsVars
    <3>1. asked' = asked /\ reply' = reply
      BY <2>2 DEF viewsVars
    <3>2. NegationsComplement => NegationsComplement'
      BY <3>1 DEF NegationsComplement, Asked
    <3>3. RangesAgree => RangesAgree'
      BY <3>1 DEF RangesAgree, Asked
    <3>4. EqualsImpliesIn => EqualsImpliesIn'
      BY <3>1 DEF EqualsImpliesIn, Asked
    <3>5. SortsByAStrictOrder => SortsByAStrictOrder'
      BY <3>1 DEF SortsByAStrictOrder, Asked
    <3>6. PagesAreTheList => PagesAreTheList'
      BY <3>1 DEF PagesAreTheList, Asked
    <3>7. TablesLeadToTheirResource => TablesLeadToTheirResource'
      BY <3>1 DEF TablesLeadToTheirResource, Asked
    <3>8. KindsResolveInFull => KindsResolveInFull'
      BY <3>1 DEF KindsResolveInFull, Asked
    <3> QED
      BY <3>2, <3>3, <3>4, <3>5, <3>6, <3>7, <3>8 DEF QueriesAreConsistent
  <2> QED
    BY <2>1, <2>2
<1> QED
  BY <1>1, <1>2, PTL DEF ViewsSpec
=============================================================================
