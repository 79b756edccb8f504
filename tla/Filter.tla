------------------------------- MODULE Filter -------------------------------
(***************************************************************************)
(* internal/backend/filter.go: the filter expressions of a list query.  A  *)
(* recursive descent over tokens, with one place where a parenthesis may   *)
(* open a value or a condition and the parser tries the one and then the   *)
(* other, and a left-to-right evaluation in which a room may lack a field  *)
(* and a text may read as a number.                                        *)
(*                                                                         *)
(* What a parser or an evaluation returns is a set of one result, or the   *)
(* empty set for an error.  The state is the filter as the lexer hands it  *)
(* out, token by token.                                                    *)
(***************************************************************************)
EXTENDS Integers, Sequences, Bitwise

CONSTANTS
  Fields,        \* identifiers
  Literals,      \* numbers and quoted strings ...
  ValueOf,       \* ... literal |-> its value
  CompareOps,    \* the comparison tokens in use
  Texts,         \* what a field may hold
  NumOf,         \* text |-> the number ParseInt reads in it, or NaN
  FormatInt,     \* number |-> its text
  Rank,          \* text |-> its place in the order of strings
  Fold,          \* text |-> its representative up to case
  NaN,
  Absent,        \* a field the room does not have
  MaxTokens,     \* bounds the filter
  FreeTokens     \* filters up to here are any tokens; longer ones have
                 \* operands and operators in turn and parentheses that
                 \* can still be closed

Operands == Fields \cup Literals
Tokens == Operands \cup CompareOps \cup {"(", ")", "&", "and", "or"}

VARIABLE filter

-----------------------------------------------------------------------------
(* The parser.  Trees are tuples that begin with their kind.               *)

Result(tree, at) == {[tree |-> tree, at |-> at]}
Tok(i) == IF i <= Len(filter) THEN filter[i] ELSE "eof"
Closed(results) == {r \in results : Tok(r.at) = ")"}

RECURSIVE ParseBitwise(_), BitwiseRest(_, _), ParseOr(_), OrRest(_, _), AndRest(_, _)

ParsePrimary(i) ==
  IF Tok(i) \in Operands THEN Result(<<"operand", Tok(i)>>, i + 1)
  ELSE IF Tok(i) = "("
       THEN {[tree |-> <<"group", r.tree>>, at |-> r.at + 1] : r \in Closed(ParseBitwise(i + 1))}
  ELSE {}

BitwiseRest(left, i) ==
  IF Tok(i) # "&" THEN Result(left, i)
  ELSE UNION {BitwiseRest(<<"&", left, r.tree>>, r.at) : r \in ParsePrimary(i + 1)}

ParseBitwise(i) == UNION {BitwiseRest(r.tree, r.at) : r \in ParsePrimary(i)}

ParseComparison(i) ==
  UNION {{[tree |-> <<Tok(l.at), l.tree, r.tree>>, at |-> r.at] :
            r \in ParseBitwise(l.at + 1)} :
         l \in {v \in ParseBitwise(i) : Tok(v.at) \in CompareOps}}

\* Faulty: a parenthesis always opens a condition.
ParseFactorAsCondition(i) ==
  IF Tok(i) # "(" THEN ParseComparison(i)
  ELSE {[tree |-> r.tree, at |-> r.at + 1] : r \in Closed(ParseOr(i + 1))}

(* A parenthesised value that a comparison follows at once is read again   *)
(* as that comparison's left side; anything else must be a condition.      *)
ParseFactor(i) ==
  LET compared == {r \in Closed(ParseBitwise(i + 1)) : Tok(r.at + 1) \in CompareOps}
  IN  IF Tok(i) # "(" \/ compared # {} THEN ParseComparison(i)
      ELSE {[tree |-> r.tree, at |-> r.at + 1] : r \in Closed(ParseOr(i + 1))}

AndRest(left, i) ==
  IF Tok(i) # "and" THEN Result(left, i)
  ELSE UNION {AndRest(<<"and", left, r.tree>>, r.at) : r \in ParseFactor(i + 1)}

ParseAnd(i) == UNION {AndRest(r.tree, r.at) : r \in ParseFactor(i)}

OrRest(left, i) ==
  IF Tok(i) # "or" THEN Result(left, i)
  ELSE UNION {OrRest(<<"or", left, r.tree>>, r.at) : r \in ParseAnd(i + 1)}

ParseOr(i) == UNION {OrRest(r.tree, r.at) : r \in ParseAnd(i)}

CompileFilter ==
  IF filter = << >> THEN {<<"true">>}
  ELSE {r.tree : r \in {q \in ParseOr(1) : Tok(q.at) = "eof"}}

-----------------------------------------------------------------------------
(* Evaluation.  A value is a number with its text, or a text.              *)

Number(n) == [kind |-> "number", num |-> n, text |-> FormatInt[n]]
String(t) == [kind |-> "string", num |-> NumOf[t], text |-> t]

\* Faulty: a field the room lacks reads as the empty text.
FieldValueOrEmpty(t) ==
  IF t = Absent THEN {String("")}
  ELSE IF NumOf[t] # NaN THEN {Number(NumOf[t])} ELSE {String(t)}

(* A field that reads as a number is that number, and forgets its text.    *)
FieldValue(t) ==
  IF t = Absent THEN {}
  ELSE IF NumOf[t] # NaN THEN {Number(NumOf[t])} ELSE {String(t)}

Values(tree, room) ==
  LET RECURSIVE values(_)
      values(e) ==
        CASE e[1] = "operand" -> IF e[2] \in Fields THEN FieldValue(room[e[2]])
                                 ELSE {ValueOf[e[2]]}
          [] e[1] = "group"   -> values(e[2])
          [] e[1] = "&"       ->
               LET ints(x) == {v.num : v \in values(x)} \ {NaN}
               IN  {Number(l & r) : l \in ints(e[2]), r \in ints(e[3])}
  IN  values(tree)

(* Two numbers are compared as numbers, anything else as text.             *)
CompareValues(op, l, r) ==
  LET numeric == l.num # NaN /\ r.num # NaN
      a == IF numeric THEN l.num ELSE Rank[l.text]
      b == IF numeric THEN r.num ELSE Rank[r.text]
  IN  CASE op = "=" -> a = b
        [] op = "!=" -> a # b
        [] op = "<" -> a < b
        [] op = ">" -> a > b
        [] op = "<=" -> a <= b
        [] op = ">=" -> a >= b
        [] op = "like" -> Fold[l.text] = Fold[r.text]

(* "and" and "or" leave their right side alone once the left has decided,  *)
(* errors included.                                                        *)
Match(tree, room) ==
  LET RECURSIVE eval(_)
      eval(e) ==
        CASE e[1] = "true" -> {TRUE}
          [] e[1] = "and"  -> IF eval(e[2]) = {TRUE} THEN eval(e[3]) ELSE eval(e[2])
          [] e[1] = "or"   -> IF eval(e[2]) = {FALSE} THEN eval(e[3]) ELSE eval(e[2])
          [] OTHER -> {CompareValues(e[1], l, r) : l \in Values(e[2], room),
                                                   r \in Values(e[3], room)}
  IN  eval(tree)

(* FindServers skips a room whose evaluation fails.                        *)
Listed(tree, room) == Match(tree, room) = {TRUE}

-----------------------------------------------------------------------------
Count(t) == Len(SelectSeq(filter, LAMBDA x : x = t))
ExpectsOperand == filter = << >> \/ filter[Len(filter)] \notin Operands \cup {")"}

Wellformed(t) ==
  LET depth == Count("(") - Count(")")
  IN  /\ ExpectsOperand <=> t \in Operands \cup {"("}
      /\ t = ")" => depth > 0
      /\ t = "(" => depth + Len(filter) < MaxTokens

(* lexer.next *)
Lex(t) ==
  /\ Len(filter) < MaxTokens
  /\ Len(filter) < FreeTokens \/ Wellformed(t)
  /\ filter' = Append(filter, t)

Init == filter = << >>
Next == \E t \in Tokens : Lex(t)
Spec == Init /\ [][Next]_filter

-----------------------------------------------------------------------------
(* The grammar, as the trees of a sequence of tokens.                      *)
Before(s, k) == SubSeq(s, 1, k - 1)
After(s, k) == SubSeq(s, k + 1, Len(s))
Inside(s) == SubSeq(s, 2, Len(s) - 1)
Bracketed(s) == Len(s) > 2 /\ s[1] = "(" /\ s[Len(s)] = ")"
Places(s, ops) == {k \in 2..(Len(s) - 1) : s[k] \in ops}

RECURSIVE Bitwises(_), Ors(_)

Primaries(s) ==
  IF Len(s) = 1 /\ s[1] \in Operands THEN {<<"operand", s[1]>>}
  ELSE IF Bracketed(s) THEN {<<"group", t>> : t \in Bitwises(Inside(s))} ELSE {}

Bitwises(s) ==
  Primaries(s) \cup
  UNION {{<<"&", l, r>> : l \in Bitwises(Before(s, k)), r \in Primaries(After(s, k))} :
         k \in Places(s, {"&"})}

(* A left side may be a group or a chain, not a chain that begins with a   *)
(* group: "(a & b) & c = d" is not a filter although "c & (a & b) = d" is. *)
LeftSides(s) ==
  IF s[1] = "(" THEN Primaries(s) ELSE Bitwises(s)

Comparisons(s) ==
  UNION {{<<s[k], l, r>> : l \in LeftSides(Before(s, k)), r \in Bitwises(After(s, k))} :
         k \in Places(s, CompareOps)}

Factors(s) == Comparisons(s) \cup (IF Bracketed(s) THEN Ors(Inside(s)) ELSE {})

RECURSIVE Ands(_)
Ands(s) ==
  Factors(s) \cup
  UNION {{<<"and", l, r>> : l \in Ands(Before(s, k)), r \in Factors(After(s, k))} :
         k \in Places(s, {"and"})}

Ors(s) ==
  Ands(s) \cup
  UNION {{<<"or", l, r>> : l \in Ors(Before(s, k)), r \in Ands(After(s, k))} :
         k \in Places(s, {"or"})}

(* The parser accepts exactly the filters of the grammar and reads each in *)
(* its one way, with & binding tighter than comparisons, these tighter     *)
(* than "and", and "and" tighter than "or", all from the left.  The one    *)
(* token of decision after a closed value, and the return to the place     *)
(* before the parenthesis, lose no filter and find no second reading       *)
(* (filter.go:181-198, 419-585).                                           *)
ParserFollowsGrammar ==
  CompileFilter = IF filter = << >> THEN {<<"true">>} ELSE Ors(filter)

(* A field a room does not advertise can hide the room but not list it: a  *)
(* room listed without the field is listed whatever the field holds.  This *)
(* rests on the error of an unknown field reaching the top from wherever   *)
(* it is read, "!=" and the short cuts of "and" and "or" included          *)
(* (filter.go:268-345, backend.go:181-185).                                *)
MissingFieldsOnlyHide ==
  \A tree \in CompileFilter :
    \A room \in [Fields -> Texts \cup {Absent}], f \in Fields, t \in Texts :
      room[f] = Absent /\ Listed(tree, room)
      => Listed(tree, [room EXCEPT ![f] = t])
=============================================================================
