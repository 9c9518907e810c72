------------------------------ MODULE Strings ------------------------------
(***************************************************************************)
(* The methods of strings, the functions of the module `string`, and the   *)
(* conversions int() and str().                                            *)
(*                                                                         *)
(* A character is its code point; letters, digits and white space are      *)
(* those of ASCII.  str() is left out of instances (whose methods it       *)
(* calls), functions and iterators; it shows the elements of a set in the  *)
(* order they came in, the code as they are hashed.                        *)
(***************************************************************************)
EXTENDS Objects

UpperCase == 65..90
LowerCase == 97..122
LettersOf == UpperCase \cup LowerCase
DigitsOf == 48..57
White == (9..13) \cup {32}
Newline == 10
Return == 13
Blank == 32
PlusSign == 43
MinusSign == 45
Dot == 46
Colon == 58
LeftBrace == 123
RightBrace == 125

Upper(s) == [i \in DOMAIN s |-> IF s[i] \in LowerCase THEN s[i] - 32 ELSE s[i]]
Lower(s) == [i \in DOMAIN s |-> IF s[i] \in UpperCase THEN s[i] + 32 ELSE s[i]]
AllIn(s, chars) == s # <<>> /\ \A i \in DOMAIN s : s[i] \in chars
(* All that have a case have this one, and one has.                        *)
CasedAs(s, case) == LET cased == ToSet(s) \cap LettersOf IN cased # {} /\ cased \subseteq case
(* A letter that follows no letter begins a word.                          *)
Title(s) ==
  [i \in DOMAIN s |-> IF i > 1 /\ s[i - 1] \in LettersOf THEN Lower(s)[i] ELSE Upper(s)[i]]
Capitalized(s) == [i \in DOMAIN s |-> IF i > 1 THEN Lower(s)[i] ELSE Upper(s)[i]]

TrimStart(s) == LET kept == {i \in DOMAIN s : s[i] \notin White} IN SubSeq(s, Min(kept \cup {Len(s) + 1}), Len(s))
TrimEnd(s) == LET kept == {i \in DOMAIN s : s[i] \notin White} IN SubSeq(s, 1, Max(kept \cup {0}))

(* The first place where sub is in s, 0 if there is none; what is before   *)
(* it and what is after.                                                   *)
Occurs(s, sub) == {i \in 1..Len(s) - Len(sub) + 1 : SubSeq(s, i, i + Len(sub) - 1) = sub}
FirstPlace(s, sub) == LET at == Occurs(s, sub) IN IF at = {} THEN 0 ELSE Min(at)
BeforeFirst(s, sub) == SubSeq(s, 1, FirstPlace(s, sub) - 1)
AfterFirst(s, sub) == SubSeq(s, FirstPlace(s, sub) + Len(sub), Len(s))
Cut(s, sep) == IF FirstPlace(s, sep) = 0 THEN <<s, <<>>>> ELSE <<BeforeFirst(s, sep), AfterFirst(s, sep)>>

RECURSIVE SplitBy(_, _)
SplitBy(s, sep) ==
  IF FirstPlace(s, sep) = 0 THEN <<s>> ELSE <<BeforeFirst(s, sep)>> \o SplitBy(AfterFirst(s, sep), sep)
JoinedBy(sep, parts) ==
  IF parts = <<>> THEN <<>> ELSE FoldLeft(LAMBDA r, part : r \o sep \o part, Head(parts), Tail(parts))
(* An empty string is found before, between and after all characters.      *)
Replaced(s, old, new) ==
  IF old = <<>> THEN new \o FlattenSeq([i \in DOMAIN s |-> <<s[i]>> \o new]) ELSE JoinedBy(new, SplitBy(s, old))

SplitWhere(s, chars) ==
  FoldLeft(LAMBDA parts, c : IF c \in chars THEN Append(parts, <<>>)
                             ELSE [parts EXCEPT ![Len(parts)] = Append(@, c)], <<<<>>>>, s)
Words(s) == SelectSeq(SplitWhere(s, White), LAMBDA word : word # <<>>)
(* "\r\n" ends one line, and what ends the last begins none.               *)
LinesIn(s) ==
  LET lines == SplitWhere(Replaced(s, <<Return, Newline>>, <<Newline>>), {Newline, Return})
  IN  IF Last(lines) = <<>> THEN Front(lines) ELSE lines

(* <<>> if the bounds are the wrong way round, else what is between them.  *)
Between(s, start, end) ==
  LET n == Len(s)
      bound(i) == IF i < 0 THEN Clamp(n + i, 0, n) ELSE Clamp(i, 0, n)
  IN  IF bound(start) > bound(end) THEN <<>> ELSE <<SubSeq(s, bound(start) + 1, bound(end))>>

-----------------------------------------------------------------------------
(* Conversions.                                                            *)
RECURSIVE Decimal(_), Shown(_, _)
Decimal(n) ==
  IF n < 0 THEN <<MinusSign>> \o Decimal(-n)
  ELSE (IF n < 10 THEN <<>> ELSE Decimal(n \div 10)) \o <<48 + (n % 10)>>
Comma == <<44, Blank>>
List(h, s) == JoinedBy(Comma, [i \in DOMAIN s |-> Shown(h, s[i])])
PairShown(h, pair) == Shown(h, pair[1]) \o <<Colon, Blank>> \o Shown(h, pair[2])
Shown(h, v) ==
  CASE v.t = "str" -> v.v
    [] v.t = "int" -> Decimal(v.v)
    [] v.t = "bool" -> IF v.v = 1 THEN <<116, 114, 117, 101>> ELSE <<102, 97, 108, 115, 101>>
    [] v.t = "nil" -> <<110, 105, 108>>
    [] v.t = "list" -> <<91>> \o List(h, h[v.v]) \o <<93>>
    [] v.t = "tuple" -> <<40>> \o List(h, v.v) \o (IF Len(v.v) = 1 THEN <<44, 41>> ELSE <<41>>)
    [] v.t = "set" -> <<LeftBrace>> \o List(h, h[v.v]) \o <<RightBrace>>
    [] v.t = "dict" ->
         <<LeftBrace>> \o JoinedBy(Comma, [i \in DOMAIN h[v.v] |-> PairShown(h, h[v.v][i])]) \o <<RightBrace>>

Signs == {PlusSign, MinusSign}
ValueOfDigits(s) == FoldLeft(LAMBDA n, c : 10 * n + c - 48, 0, s)
ParsedInt(h, s) ==
  LET signed == s # <<>> /\ s[1] \in Signs
      digits == IF signed THEN Tail(s) ELSE s
  IN  IF ~AllIn(digits, DigitsOf) THEN Wrong
      ELSE Checked(h, IF signed /\ s[1] = MinusSign THEN -ValueOfDigits(digits) ELSE ValueOfDigits(digits))
ToInt(h, v) ==
  CASE v.t \in {"int", "bool"} -> Fine(h, Number(v.v))
    [] v.t = "str" -> ParsedInt(h, v.v)
    [] OTHER -> Wrong

(* `{}` is the next argument, `{:.Nf}` the next number with N decimals (an *)
(* integer has zeros there), `{{` and `}}` are braces; nothing else may    *)
(* stand in braces.                                                        *)
Decimals(n) == IF n = 0 THEN <<>> ELSE <<Dot>> \o [i \in 1..n |-> 48]
IsSpec(spec) == Len(spec) = 3 /\ spec[1] = Dot /\ spec[2] \in DigitsOf /\ spec[3] = 102
RECURSIVE Formatted(_, _, _, _)
Formatted(h, t, args, sofar) ==
  LET next == IF Len(t) > 1 THEN t[2] ELSE 0
      rest == SubSeq(t, 3, Len(t))
      spec == BeforeFirst(rest, <<RightBrace>>)
  IN  CASE t = <<>> -> Fine(h, Text(sofar))
        [] t # <<>> /\ t[1] \notin {LeftBrace, RightBrace} -> Formatted(h, Tail(t), args, Append(sofar, t[1]))
        [] t # <<>> /\ t[1] \in {LeftBrace, RightBrace} /\ next = t[1] -> Formatted(h, rest, args, Append(sofar, t[1]))
        [] t # <<>> /\ t[1] = LeftBrace /\ next = RightBrace ->
             IF args = <<>> THEN Wrong ELSE Formatted(h, rest, Tail(args), sofar \o Shown(h, args[1]))
        [] t # <<>> /\ t[1] = LeftBrace /\ next = Colon ->
             IF RightBrace \notin ToSet(rest) THEN Wrong
             ELSE IF ~IsSpec(spec) \/ args = <<>> THEN Wrong
             ELSE IF args[1].t # "int" THEN Wrong
             ELSE Formatted(h, AfterFirst(rest, <<RightBrace>>), Tail(args),
                            sofar \o Decimal(args[1].v) \o Decimals(spec[2] - 48))
        [] OTHER -> Wrong

-----------------------------------------------------------------------------
(* What takes strings; the i-th argument is one, or an integer.            *)
HasType(args, i, t) == Len(args) >= i /\ args[i].t = t
Texts(s) == [i \in DOMAIN s |-> Text(s[i])]
Padding(name, s, fill, n) ==
  LET padding(k) == [i \in 1..k |-> fill]
  IN  CASE name = "pad_start" -> padding(n) \o s
        [] name = "pad_end" -> s \o padding(n)
        [] name = "center" -> padding(n \div 2) \o s \o padding(n - n \div 2)
(* A pad is looked at only if it is needed.                                *)
Padded(h, name, args) ==
  LET s == args[1].v
      missing == args[2].v - Len(s)
  IN  IF Len(args) \notin 2..3 \/ ~HasType(args, 1, "str") \/ ~HasType(args, 2, "int") THEN Wrong
      ELSE IF missing <= 0 THEN Fine(h, args[1])
      ELSE IF Len(args) = 2 THEN Fine(h, Text(Padding(name, s, Blank, missing)))
      ELSE IF args[3].t # "str" \/ args[3].v = <<>> THEN Wrong
      ELSE Fine(h, Text(Padding(name, s, args[3].v[1], missing)))
(* Zeros go behind the sign.                                               *)
ZeroFilled(s, n) ==
  LET at == IF s # <<>> /\ s[1] \in Signs THEN 1 ELSE 0
  IN  SubSeq(s, 1, at) \o [i \in 1..Max({0, n - Len(s)}) |-> 48] \o SubSeq(s, at + 1, Len(s))
Join(h, args) ==
  IF ~HasType(args, 1, "str") \/ ~HasType(args, 2, "list") THEN Wrong
  ELSE LET items == h[args[2].v]
       IN  IF \E i \in DOMAIN items : items[i].t # "str" THEN Wrong
           ELSE Fine(h, Text(JoinedBy(args[1].v, [i \in DOMAIN items |-> items[i].v])))

StringMethods ==
  {"length", "upper", "lower", "strip", "split", "join", "replace", "contains", "startswith", "endswith", "index", "slice"}
(* The receiver is args[1].                                                *)
StringResult(h, name, args) ==
  LET s == args[1].v
      n == Len(args) - 1
      sub == args[2].v
  IN  CASE name = "str.length" -> Fine(h, Number(Len(s)))
        [] name = "str.upper" -> Fine(h, Text(Upper(s)))
        [] name = "str.lower" -> Fine(h, Text(Lower(s)))
        [] name = "str.strip" -> Fine(h, Text(TrimEnd(TrimStart(s))))
        [] name = "str.split" /\ n = 0 -> NewList(h, Texts(Words(s)))
        [] name = "str.join" -> Join(h, args)
        [] name = "str.slice" ->
             IF ~HasType(args, 2, "int") \/ (n > 1 /\ ~HasType(args, 3, "int")) THEN Wrong
             ELSE LET part == Between(s, args[2].v, IF n > 1 THEN args[3].v ELSE Len(s))
                  IN  IF part = <<>> THEN Wrong ELSE Fine(h, Text(part[1]))
        [] OTHER ->
             IF ~HasType(args, 2, "str") THEN Wrong
             ELSE CASE name = "str.split" -> IF sub = <<>> THEN Wrong ELSE NewList(h, Texts(SplitBy(s, sub)))
                    [] name = "str.replace" ->
                         IF HasType(args, 3, "str") THEN Fine(h, Text(Replaced(s, sub, args[3].v))) ELSE Wrong
                    [] name = "str.contains" -> Fine(h, Bool(Occurs(s, sub) # {}))
                    [] name = "str.startswith" -> Fine(h, Bool(IsPrefix(sub, s)))
                    [] name = "str.endswith" -> Fine(h, Bool(IsSuffix(sub, s)))
                    [] name = "str.index" ->
                         IF FirstPlace(s, sub) = 0 THEN Wrong ELSE Fine(h, Number(FirstPlace(s, sub) - 1))

Variable == -1
StringArity ==
  [format |-> Variable, repeat |-> 2, reverse |-> 1, is_alpha |-> 1, is_digit |-> 1, count |-> Variable, find |-> 2,
   title |-> 1, capitalize |-> 1, pad_start |-> Variable, pad_end |-> Variable, center |-> Variable, zfill |-> 2,
   split_lines |-> 1, trim_start |-> 1, trim_end |-> 1, is_alnum |-> 1, is_space |-> 1, is_upper |-> 1, is_lower |-> 1,
   cut |-> 2, fields |-> 1, join |-> Variable]
MaxRepeat == 1000000
(* Those of one string; those of a string and an integer, of two strings.  *)
OfOne(h, name, s) ==
  CASE name = "reverse" -> Fine(h, Text(Reverse(s)))
    [] name = "is_alpha" -> Fine(h, Bool(AllIn(s, LettersOf)))
    [] name = "is_digit" -> Fine(h, Bool(AllIn(s, DigitsOf)))
    [] name = "is_alnum" -> Fine(h, Bool(AllIn(s, LettersOf \cup DigitsOf)))
    [] name = "is_space" -> Fine(h, Bool(AllIn(s, White)))
    [] name = "is_upper" -> Fine(h, Bool(CasedAs(s, UpperCase)))
    [] name = "is_lower" -> Fine(h, Bool(CasedAs(s, LowerCase)))
    [] name = "title" -> Fine(h, Text(Title(s)))
    [] name = "capitalize" -> Fine(h, Text(Capitalized(s)))
    [] name = "trim_start" -> Fine(h, Text(TrimStart(s)))
    [] name = "trim_end" -> Fine(h, Text(TrimEnd(s)))
    [] name = "split_lines" -> NewList(h, Texts(LinesIn(s)))
    [] name = "fields" -> NewList(h, Texts(Words(s)))
OfTwo(h, name, s, sub) ==
  CASE name = "find" -> Fine(h, Number(FirstPlace(s, sub) - 1))
    [] name = "count" -> Fine(h, Number(IF sub = <<>> THEN 0 ELSE Len(SplitBy(s, sub)) - 1))
    [] name = "cut" -> IF sub = <<>> THEN Wrong ELSE Fine(h, Tuple(Texts(Cut(s, sub))))
StringFunction(h, name, args) ==
  CASE name = "join" -> IF Len(args) = 2 THEN Join(h, args) ELSE Wrong
    [] name \in {"pad_start", "pad_end", "center"} -> Padded(h, name, args)
    [] name = "count" /\ Len(args) # 2 -> Wrong
    [] ~HasType(args, 1, "str") -> Wrong
    [] name = "format" -> Formatted(h, args[1].v, Tail(args), <<>>)
    [] name = "repeat" ->
         IF ~HasType(args, 2, "int") THEN Wrong
         ELSE IF args[2].v \notin 0..MaxRepeat THEN Wrong ELSE Fine(h, Text(Repeated(args[1].v, args[2].v)))
    [] name = "zfill" -> IF HasType(args, 2, "int") THEN Fine(h, Text(ZeroFilled(args[1].v, args[2].v))) ELSE Wrong
    [] name \in {"find", "count", "cut"} ->
         IF HasType(args, 2, "str") THEN OfTwo(h, name, args[1].v, args[2].v) ELSE Wrong
    [] OTHER -> OfOne(h, name, args[1].v)
=============================================================================
