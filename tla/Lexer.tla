-------------------------------- MODULE Lexer --------------------------------
(***************************************************************************)
(* The lexer: from the characters of a line to its tokens, and which ends  *)
(* of lines are tokens.                                                    *)
(*                                                                         *)
(* A line is a string without its newline; TLC takes strings apart with    *)
(* Len and SubSeq.  A token is [t, v, line]: t its kind, "name", "reserved"*)
(* and "value" with the name or the value v, else the token as it is       *)
(* written.  A function that reads takes a position and returns [at, e],   *)
(* where it stopped and what it found.  Position 0 is an error.            *)
(***************************************************************************)
EXTENDS Integers, Sequences, FiniteSets, SequencesExt

Error == [at |-> 0, e |-> <<>>]
Found(at, e) == [at |-> at, e |-> e]

(* Characters.                                                             *)
CharsOf(s) == {SubSeq(s, j, j) : j \in 1..Len(s)}
Decimals == CharsOf("0123456789")
Letters == CharsOf("abcdefghijklmnopqrstuvwxyzABCDEFGHIJKLMNOPQRSTUVWXYZ_")
WordChars == Decimals \cup Letters
Spaces == CharsOf(" \t\r")
End == "end of line"
CharAt(s, i) == IF i <= Len(s) THEN SubSeq(s, i, i) ELSE End
Slice(s, i, end) == SubSeq(s, i, end - 1)
RECURSIVE Past(_, _, _)
Past(s, i, chars) == IF CharAt(s, i) \in chars THEN Past(s, i + 1, chars) ELSE i

-----------------------------------------------------------------------------
(* Words.                                                                  *)
Keywords ==
  {"var", "const", "fn", "return", "if", "elif", "else", "while", "for", "in", "break", "continue", "class",
   "self", "super", "true", "false", "nil", "and", "or", "not", "try", "except", "finally", "defer", "with",
   "throw", "async", "await", "go", "import", "from", "as", "yield", "nonlocal", "global", "select", "case",
   "default", "is"}
ReservedWords == {"export", "match"}
Token(t, v) == [t |-> t, v |-> v]
Literal(type, v) == Token("value", [t |-> type, v |-> v])
ReadIdentifier(s, i) ==
  LET end == Past(s, i, WordChars)
      word == Slice(s, i, end)
  IN  Found(end, CASE word \in {"true", "false"} -> Literal("bool", IF word = "true" THEN 1 ELSE 0)
                   [] word \in Keywords \ {"true", "false"} -> Token(word, 0)
                   [] word \in ReservedWords -> Token("reserved", word)
                   [] OTHER -> Token("name", word))

-----------------------------------------------------------------------------
(* Numbers.  LiteralBits stands for the 64 bits of an i64.                 *)
LiteralBits == 12
MaxLiteral == 2^(LiteralBits - 1) - 1
HexDigits == "0123456789abcdef"
Upper == [c \in CharsOf("ABCDEF") |->
            CASE c = "A" -> "a" [] c = "B" -> "b" [] c = "C" -> "c" [] c = "D" -> "d" [] c = "E" -> "e" [] c = "F" -> "f"]
DigitValue == [c \in CharsOf(HexDigits) \cup DOMAIN Upper |->
                 LET d == IF c \in DOMAIN Upper THEN Upper[c] ELSE c
                 IN  CHOOSE n \in 0..15 : SubSeq(HexDigits, n + 1, n + 1) = d]
Base == [c \in CharsOf("xXbBoO") |-> CASE c \in {"x", "X"} -> 16 [] c \in {"b", "B"} -> 2 [] c \in {"o", "O"} -> 8]

(* The digits from i on; what is more than an integer holds is an error.   *)
RECURSIVE ReadDigits(_, _, _, _)
ReadDigits(s, i, base, n) ==
  LET c == CharAt(s, i)
  IN  IF n > MaxLiteral THEN Error
      ELSE IF c \in DOMAIN DigitValue /\ DigitValue[c] < base THEN ReadDigits(s, i + 1, base, n * base + DigitValue[c])
      ELSE Found(i, Literal("int", n))
ReadBase(s, i, base) ==
  LET n == ReadDigits(s, i, base, 0)
  IN  IF n.at = i THEN Error ELSE n

ReadExponent(s, i) ==
  LET first == IF CharAt(s, i) \in {"+", "-"} THEN i + 1 ELSE i
      end == Past(s, first, Decimals)
  IN  IF end = first THEN Error ELSE Found(end, Slice(s, i, end))

(* A float keeps its three parts.  An e after digits is an exponent's, a   *)
(* point without a digit is not the number's, and no digit follows a 0.    *)
ReadNumber(s, i) ==
  LET int == IF CharAt(s, i) = "0" THEN i + 1 ELSE Past(s, i, Decimals)
      point == CharAt(s, int) = "." /\ CharAt(s, int + 1) \in Decimals
      frac == IF point THEN Past(s, int + 1, Decimals) ELSE int
      parts == <<Slice(s, i, int), IF point THEN Slice(s, int + 1, frac) ELSE "">>
      exp == ReadExponent(s, frac + 1)
  IN  CASE CharAt(s, i) = "0" /\ CharAt(s, int) \in DOMAIN Base -> ReadBase(s, int + 1, Base[CharAt(s, int)])
        [] CharAt(s, frac) \in {"e", "E"} ->
             IF exp.at = 0 THEN Error ELSE Found(exp.at, Literal("float", Append(parts, exp.e)))
        [] CharAt(s, frac) \notin {"e", "E"} /\ point -> Found(frac, Literal("float", Append(parts, "")))
        [] CharAt(s, i) = "0" /\ CharAt(s, int) \in Decimals -> Error
        [] OTHER -> ReadDigits(s, i, 10, 0)

-----------------------------------------------------------------------------
(* Strings: their characters.                                              *)
Escapes == [c \in CharsOf("\"\\ntr0") |->
              CASE c = "n" -> "\n" [] c = "t" -> "\t" [] c = "r" -> "\r" [] c = "0" -> "NUL" [] OTHER -> c]
RECURSIVE ReadString(_, _, _)
ReadString(s, i, sofar) ==
  LET c == CharAt(s, i)
      escaped == CharAt(s, i + 1)
  IN  CASE c \in {End, "\r"} -> Error
        [] c = "\"" -> Found(i + 1, Literal("str", sofar))
        [] c = "\\" -> IF escaped \in DOMAIN Escapes THEN ReadString(s, i + 2, Append(sofar, Escapes[escaped])) ELSE Error
        [] OTHER -> ReadString(s, i + 1, Append(sofar, c))

-----------------------------------------------------------------------------
(* Operators and brackets: a character more as long as one goes on.        *)
GoesOn(op) ==
  CASE op \in {"=", "!", "+", "%", "&", "|", "^", ":", "**", "//", "<<", ">>"} -> {"="}
    [] op = "-" -> {"=", ">"}
    [] op = "*" -> {"=", "*"}
    [] op = "/" -> {"=", "/"}
    [] op = "<" -> {"=", "<", "-"}
    [] op = ">" -> {"=", ">"}
    [] op \in {".", ".."} -> {"."}
    [] OTHER -> {}
SymbolChars == CharsOf("()[]{}+-*/%=!<>&|^~,.:;@")
RECURSIVE ReadSymbol(_, _, _)
ReadSymbol(s, i, end) ==
  LET op == Slice(s, i, end)
  IN  IF CharAt(s, end) \in GoesOn(op) THEN ReadSymbol(s, i, end + 1)
      ELSE IF op = "!" THEN Error
      ELSE Found(end, Token(op, 0))

ReadToken(s, i) ==
  LET c == CharAt(s, i)
  IN  CASE c \in Decimals -> ReadNumber(s, i)
        [] c = "\"" -> ReadString(s, i + 1, <<>>)
        [] c \in Letters -> ReadIdentifier(s, i)
        [] c \in SymbolChars -> ReadSymbol(s, i, i + 1)
        [] OTHER -> Error

(* The tokens of the n-th line; a comment goes to its end.                 *)
Misread == "misread"
RECURSIVE ReadLine(_, _, _)
ReadLine(s, n, i) ==
  LET begin == Past(s, i, Spaces)
      one == ReadToken(s, begin)
  IN  IF CharAt(s, begin) \in {End, "#"} THEN <<>>
      ELSE IF one.at = 0 THEN <<[t |-> Misread, v |-> 0, line |-> n]>>
      ELSE <<[t |-> one.e.t, v |-> one.e.v, line |-> n]>> \o ReadLine(s, n, one.at)
RECURSIVE ReadText(_, _)
ReadText(lines, n) == IF n > Len(lines) THEN <<>> ELSE <<ReadLine(lines[n], n, 1)>> \o ReadText(lines, n + 1)

-----------------------------------------------------------------------------
(* Ends of lines.                                                          *)
Opens == {"(", "[", "{"}
Closes == {")", "]", "}"}
Matching(t) == CASE t \in {"(", ")"} -> "(" [] t \in {"[", "]"} -> "[" [] t \in {"{", "}"} -> "{"
AssignOps == {"=", "+=", "-=", "*=", "/=", "//=", "%=", "**=", "&=", "|=", "^=", "<<=", ">>="}
Comparisons == {"==", "!=", "<", ">", "<=", ">=", "in", "is"}
Arithmetic == {"+", "-", "*", "/", "//", "%", "**", "&", "|", "^", "<<", ">>"}

(* The tokens after which a newline never ends the statement.              *)
Continuations ==
  AssignOps \cup {":="} \cup Comparisons \cup Arithmetic \cup {"and", "or", "not", ".", "->", ","} \cup Opens

Newline == "newline"
NewlineCounts_Always(last, depth) == TRUE
NewlineCounts(last, depth) ==
  /\ last # Newline
  /\ \A b \in Opens : depth[b] = 0
  /\ last \notin Continuations

(* The brackets that are open after some tokens.                           *)
RECURSIVE OpenAfter(_, _), ReadLines(_, _, _)
OpenAfter(depth, line) ==
  IF line = <<>> THEN depth
  ELSE LET t == Head(line).t
           after == CASE t \in Opens -> [depth EXCEPT ![t] = @ + 1]
                      [] t \in Closes -> [depth EXCEPT ![Matching(t)] = IF @ = 0 THEN 0 ELSE @ - 1]
                      [] OTHER -> depth
       IN  OpenAfter(after, Tail(line))
ReadLines(lines, depth, last) ==
  IF lines = <<>> THEN <<>>
  ELSE LET line == Head(lines)
           after == OpenAfter(depth, line)
           prev == IF line = <<>> THEN last ELSE Last(line).t
           end == IF NewlineCounts(prev, after) THEN <<[t |-> Newline, v |-> 0, line |-> 0]>> ELSE <<>>
       IN  line \o end \o ReadLines(Tail(lines), after, IF end = <<>> THEN prev ELSE Newline)
NextTokens(lines) == ReadLines(lines, [b \in Opens |-> 0], "start")
=============================================================================
