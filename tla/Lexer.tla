-------------------------------- MODULE Lexer -------------------------------
(***************************************************************************)
(* What stands before the configuration parser: readToken and              *)
(* readUntilFalse over the stream of characters (lexer.go, lexerStream.go) *)
(* and, for the text of a condition, toWhenExpression with its own lexer   *)
(* (expression.go, expression_lexer.go).  A character stands for itself;   *)
(* "else", "and", "or", "not", "in", "true", "==", "=~", "&&" and "||"     *)
(* stand for a run of letters, or of signs, that one loop takes together.  *)
(* Positions are one more than the code's.  Line and column of a token     *)
(* serve only the text of errors and are left out.                         *)
(***************************************************************************)
EXTENDS Integers, SequencesExt

CONSTANT Sources  \* texts: chars; and, when it is made of one condition, its terms and connectors

VARIABLES
  source,    \* the text
  position,  \* lexerStream.position
  scan,      \* the loop of readUntilFalse: its condition, the buffer, the open quote
  tokens,    \* what readToken has returned
  cond,      \* toWhenExpression: its text, start and position, stage and the values so far
  ending     \* "", or how the lexing ended: "eof", "error", "panics"
lxVars == <<source, position, scan, tokens, cond, ending>>

Quotes == {"'", "\""}
Digits == {"1"}
Letters == {"a", "x", "i", "f", "else", "and", "or", "not", "in", "true"}
Numeric == Digits \cup {".", "-"}
Spaces == {" ", "\n"}
Marks == {"{", "}", "[", "]", ","}
Chars == source.chars
Length == Len(Chars)
NoScan == [until |-> "", buffer |-> <<>>, quoted |-> ""]
NoCond == [text |-> <<>>, start |-> 1, at |-> 1, stage |-> "", out |-> <<>>]

LXInit ==
  /\ source \in Sources /\ position = 1 /\ scan = NoScan
  /\ tokens = <<>> /\ cond = NoCond /\ ending = ""
-----------------------------------------------------------------------------
CanRead == position <= Length
\* readCharacter, rewind.
MoveTo(p) == position' = p
Emits(kind, value) == tokens' = Append(tokens, [kind |-> kind, value |-> value])
Ends(how) == ending' = how /\ UNCHANGED <<position, scan, tokens, cond>>
Idle == scan = NoScan /\ cond.stage \in {"", "done"} /\ ending = ""
Token(kind, value, p) == Emits(kind, value) /\ MoveTo(p) /\ UNCHANGED <<scan, cond, ending>>
Until(what, p) == scan' = [until |-> what, buffer |-> <<>>, quoted |-> ""] /\ MoveTo(p) /\ UNCHANGED <<tokens, cond, ending>>

\* One turn of readToken's loop, by the character it reads.
ReadToken ==
  /\ Idle /\ (tokens # <<>> => Last(tokens).kind # "EOF")
  /\ IF ~CanRead THEN Token("EOF", <<>>, position) ELSE
     LET c == Chars[position] IN
     CASE c \in Spaces -> MoveTo(position + 1) /\ UNCHANGED <<scan, tokens, cond, ending>>
       [] c = "#" -> Until("newline", position + 1)
       [] c \in Marks -> Token(c, <<c>>, position + 1)
       [] c = "=" -> IF position = Length THEN Ends("panics")
                     ELSE IF Chars[position + 1] = ">" THEN Token("=>", <<"=", ">">>, position + 2) ELSE Token("=>", <<"=">>, position + 1)
       [] c \in Numeric -> Until("number", position)
       [] c \in Letters -> Until("word", position)
       [] c \in Quotes -> Until(c, position + 1)
       [] OTHER -> Ends("error")

\* What ParseInt and ParseFloat take.
IsNumber(b) ==
  /\ \E i \in DOMAIN b : b[i] \in Digits
  /\ \A i \in DOMAIN b : b[i] \in Digits \/ b[i] = "." \/ (b[i] = "-" /\ i = 1)
  /\ Cardinality({i \in DOMAIN b : b[i] = "."}) <= 1

Found(kind, p) ==
  /\ tokens' = Append(tokens, [kind |-> kind, value |-> scan.buffer])
  /\ scan' = NoScan /\ MoveTo(p) /\ UNCHANGED ending
Plainly(kind, p) == Found(kind, p) /\ UNCHANGED cond
\* parseWHEN hands the text of a condition to toWhenExpression.
Condition(kind, p) ==
  /\ Found(kind, p)
  /\ cond' = [NoCond EXCEPT !.text = scan.buffer, !.stage = "fix"]
ScanEnds(how) == ending' = how /\ UNCHANGED <<position, scan, tokens, cond>>
Rescan(what, p) == scan' = [scan EXCEPT !.until = what, !.buffer = <<>>] /\ MoveTo(p) /\ UNCHANGED <<tokens, cond, ending>>
Else == IF position + 2 <= Length /\ SubSeq(Chars, position, position + 2) = <<" ", "i", "f">> THEN "if" ELSE "no"
\* The look for " if" after an else reads up to three characters.
ElsePanics == \E k \in 0..2 : position + k = Length + 1 /\ SubSeq(Chars, position, Length) = SubSeq(<<" ", "i", "f">>, 1, k)

\* What readToken makes of what readUntilFalse has returned; completed: the
\* loop ended at a character, before which the stream is at p.
Returned(completed, p) ==
  CASE scan.until = "newline" -> Plainly("comment", p)
    [] scan.until = "number" -> IF IsNumber(scan.buffer) THEN Plainly("number", p) ELSE ScanEnds("error")
    [] scan.until \in Quotes -> IF completed THEN Plainly("string", p + 1) ELSE ScanEnds("error")
    [] scan.until \in {"if", "elseif"} -> Condition(scan.until, p)
    [] scan.until = "word" /\ scan.buffer = <<"i", "f">> -> Rescan("if", p)
    [] scan.until = "word" /\ scan.buffer = <<"else">> ->
         (IF ElsePanics THEN ScanEnds("panics") ELSE IF Else = "if" THEN Rescan("elseif", p + 3) ELSE Plainly("else", p))
    [] OTHER -> Plainly(IF scan.buffer = <<"true">> THEN "bool" ELSE "string", p)
Admits(c) ==
  CASE scan.until = "newline" -> c # "\n"
    [] scan.until = "number" -> c \in Numeric
    [] scan.until = "word" -> c \in Letters \cup Digits
    [] scan.until \in {"if", "elseif"} -> c # "{"
    [] OTHER -> c # scan.until

\* Mutant: the quotes of a condition are not followed.
Takes_Unquoted(k, quoted) ==
  /\ scan' = [scan EXCEPT !.buffer = Append(@, Chars[position + k - 1])]
  /\ MoveTo(position + k) /\ UNCHANGED <<tokens, cond, ending>>
Takes(k, quoted) ==
  /\ scan' = [scan EXCEPT !.buffer = Append(@, Chars[position + k - 1]), !.quoted = quoted]
  /\ MoveTo(position + k) /\ UNCHANGED <<tokens, cond, ending>>
\* One turn of readUntilFalse's loop.  Only the condition of an if handles quotes.
ReadUntilFalse ==
  /\ scan # NoScan /\ ending = ""
  /\ IF ~CanRead THEN Returned(FALSE, position) ELSE
     LET c == Chars[position] IN
     CASE c = "\\" -> IF position = Length THEN ScanEnds("panics") ELSE Takes(2, scan.quoted)
       [] c \in Spaces /\ scan.until = "number" -> Returned(TRUE, position + 1)
       [] scan.until = "if" /\ scan.quoted # "" -> Takes(1, IF c = scan.quoted THEN "" ELSE scan.quoted)
       [] scan.until = "if" /\ scan.quoted = "" /\ c \in Quotes -> Takes(1, c)
       [] OTHER -> IF Admits(c) THEN Takes(1, scan.quoted) ELSE Returned(TRUE, position)
-----------------------------------------------------------------------------
(* toWhenExpression. *)
Text == cond.text
SetCond(c) == cond' = c /\ UNCHANGED <<source, position, scan, tokens, ending>>
At(t, p, part) == p + Len(part) - 1 <= Len(t) /\ SubSeq(t, p, p + Len(part) - 1) = part
HasPart(t, part) == \E p \in DOMAIN t : At(t, p, part)
NotIn == <<"not", " ", "in">>
\* fixNotInExpr: the text between two " && " or " || " is negated as a whole,
\* for the first "not in" in it.
\* Mutant: an alternative is negated with the one before it.
CutsOf_And(t) == {p \in DOMAIN t : At(t, p, <<" ", "&&", " ">>)}
CutsOf(t) == {p \in DOMAIN t : At(t, p, <<" ", "&&", " ">>) \/ At(t, p, <<" ", "||", " ">>)}
Negated(t) ==
  IF ~HasPart(t, NotIn) THEN t
  ELSE LET p == CHOOSE q \in DOMAIN t : At(t, q, NotIn) /\ \A r \in 1..q - 1 : ~At(t, r, NotIn)
       IN <<"!", " ", "(">> \o SubSeq(t, 1, p - 1) \o SubSeq(t, p + 2, Len(t)) \o <<")">>
Fixed(t) ==
  LET cuts == SetToSortSeq(CutsOf(t), <)
      parts == Len(cuts) + 1
      from(i) == IF i = 1 THEN 1 ELSE cuts[i - 1] + 3
      upto(i) == IF i = parts THEN Len(t) ELSE cuts[i] - 1
      link(i) == IF i = parts THEN <<>> ELSE SubSeq(t, cuts[i], cuts[i] + 2)
  IN FlattenSeq([i \in 1..parts |-> Negated(SubSeq(t, from(i), upto(i))) \o link(i)])
FixNotInExpr == /\ cond.stage = "fix"
                /\ SetCond([cond EXCEPT !.text = Fixed(@), !.stage = "ident"])

\* The first position from p on whose character is not in S.
Past(S, p) == CHOOSE q \in p..Len(Text) + 1 : (q = Len(Text) + 1 \/ Text[q] \notin S) /\ \A r \in p..q - 1 : Text[r] \in S
Signs == {"=", "==", "=~", "!", "<", ">", "~", "*", "+", "-", "|", "&", "^", "&&", "||"}
Inner == <<"]", "[">>
Value(kind, v) ==
  CASE kind = "logical" -> (IF v = <<"and">> THEN <<"&&">> ELSE IF v = <<"or">> THEN <<"||">> ELSE v)
    [] kind = "prefix" -> IF v = <<"not">> THEN <<"!">> ELSE v
    [] kind = "string" -> <<"'">> \o v \o <<"'">>
    [] kind = "variable" -> FlattenSeq([i \in DOMAIN v |-> IF At(v, i, Inner) THEN <<".">> ELSE IF i > 1 /\ At(v, i - 1, Inner) THEN <<>> ELSE <<v[i]>>])
    [] kind = "clause" -> <<"(">>
    [] kind = "close" -> <<")">>
    [] OTHER -> v
Lexed(kind, from, p, stage) ==
  SetCond([cond EXCEPT !.out = Append(@, Value(kind, SubSeq(Text, from, p - 1))), !.at = p, !.start = p, !.stage = stage])
KindOf(word) ==
  CASE word \in {<<"==">>, <<"=~">>, <<"in">>, <<">">>, <<"<">>} -> "comparator"
    [] word \in {<<"and">>, <<"or">>, <<"&&">>, <<"||">>} -> "logical"
    [] word \in {<<"+">>, <<"-">>, <<"*">>, <<"|">>, <<"&">>, <<"^">>} -> "modifier"
    [] word \in {<<"!">>, <<"not">>, <<"~">>} -> "prefix"
    [] word = <<"true">> -> "boolean"
    [] OTHER -> "function"
\* lexIdent, and lexVariable.
LexIdent ==
  /\ cond.stage = "ident"
  /\ LET p == Past(Spaces, cond.at) IN
     IF p > Len(Text) THEN SetCond([cond EXCEPT !.stage = "done"]) ELSE
     LET c == Text[p] IN
     CASE c = "[" -> LET q == Past(Letters \cup Digits \cup {"[", "]", "-"}, p + 1) IN Lexed(IF q = p + 1 THEN "clause" ELSE "variable", p, q, "ident")
       [] c = "(" -> Lexed("clause", p, p + 1, "ident")
       [] c \in {")", "]"} -> Lexed("close", p, p + 1, "ident")
       [] c = "," -> Lexed("separator", p, p + 1, "ident")
       [] c \in Quotes -> SetCond([cond EXCEPT !.start = p + 1, !.at = p + 1, !.stage = "string"])
       [] c \in Digits -> Lexed("numeric", p, Past(Digits \cup {"."}, p), "ident")
       [] OTHER -> LET q == Past(Letters \cup Signs, p + 1)
                   IN Lexed(KindOf(SubSeq(Text, p, q - 1)), p, q, IF SubSeq(Text, p, q - 1) = <<"=~">> THEN "regex" ELSE "ident")
\* After =~ a slash begins a pattern.
LexRegex ==
  /\ cond.stage = "regex"
  /\ LET p == Past(Spaces, cond.at) IN
     IF p <= Len(Text) /\ Text[p] = "/" THEN SetCond([cond EXCEPT !.start = p + 1, !.at = p + 1, !.stage = "pattern"])
     ELSE SetCond([cond EXCEPT !.start = p, !.at = p, !.stage = "ident"])
\* lexString and lexPattern: at the end of the text Next returns the same for ever.
LexQuoted ==
  /\ cond.stage \in {"string", "pattern"}
  /\ LET stops == IF cond.stage = "string" THEN Quotes ELSE {"/"}
         closing == {p \in cond.at..Len(Text) : Text[p] \in stops}
     IN IF closing = {} THEN SetCond([cond EXCEPT !.stage = "spins"])
        ELSE LET p == CHOOSE q \in closing : \A r \in closing : q <= r
             IN SetCond([cond EXCEPT !.out = Append(@, Value("string", SubSeq(Text, cond.start, p - 1))), !.at = p + 1, !.start = p + 1, !.stage = "ident"])

LXNext == \/ (ReadToken \/ ReadUntilFalse) /\ UNCHANGED source
          \/ FixNotInExpr \/ LexIdent \/ LexRegex \/ LexQuoted
LXSpec == LXInit /\ [][LXNext]_lxVars
-----------------------------------------------------------------------------
(* The tokens as the text shows them, from each of its positions on. *)
InText == 1..Length
\* A character is escaped by an odd number of backslashes since a before it.
Escaped(a, q) ==
  LET others == {r \in a - 1..q - 1 : r = a - 1 \/ Chars[r] # "\\"}
  IN (q - 1 - (CHOOSE r \in others : \A o \in others : o <= r)) % 2 = 1
Escapes(a, q) == Chars[q] = "\\" /\ ~Escaped(a, q)
Unescaped(a, q) == FlattenSeq([i \in 1..q - a |-> IF Escapes(a, a + i - 1) THEN <<>> ELSE <<Chars[a + i - 1]>>])
\* The quote that is open at each position of a condition that begins at a.
OpenAt(a) ==
  LET open[q \in a..Length + 1] ==
        IF q = a THEN "" ELSE
        LET c == Chars[q - 1] o == open[q - 1] IN
        IF Escapes(a, q - 1) \/ Escaped(a, q - 1) THEN o
        ELSE IF o = "" THEN (IF c \in Quotes THEN c ELSE "") ELSE IF c = o THEN "" ELSE o
  IN open
Stop(a, Halts(_), quotes) ==
  LET stops == {q \in a..Length : Halts(Chars[q]) /\ ~Escapes(a, q) /\ ~Escaped(a, q) /\ (quotes => OpenAt(a)[q] = "")} \cup {Length + 1}
  IN CHOOSE q \in stops : \A r \in stops : q <= r
IfAt(q) == q + 2 <= Length /\ SubSeq(Chars, q, q + 2) = <<" ", "i", "f">>
Written ==
  LET read[p \in 1..Length + 1] ==
        IF p = Length + 1 THEN <<<<"EOF">>>> ELSE
        LET c == Chars[p]
            upTo(a, Halts(_), quotes, Then(_, _)) ==
              LET q == Stop(a, Halts, quotes)
              IN IF q = Length + 1 /\ a <= Length /\ Escapes(a, Length) THEN <<<<"panics">>>> ELSE Then(q, Unescaped(a, q))
            then(kind, text, q) == <<<<kind, text>>>> \o read[q]
            condition(kind, a) == upTo(a, LAMBDA x : x = "{", kind = "if", LAMBDA q, text : then(kind, text, q))
        IN CASE c \in Spaces -> read[p + 1]
             [] c \in Marks -> then(c, <<c>>, p + 1)
             [] c = "#" -> upTo(p + 1, LAMBDA x : x = "\n", FALSE, LAMBDA q, text : then("comment", text, q))
             [] c = "=" -> (IF p = Length THEN <<<<"panics">>>> ELSE LET q == IF Chars[p + 1] = ">" THEN p + 2 ELSE p + 1 IN then("=>", SubSeq(Chars, p, q - 1), q))
             [] c \in Numeric -> upTo(p, LAMBDA x : x \notin Numeric, FALSE, LAMBDA q, text : IF IsNumber(text) THEN then("number", text, q) ELSE <<<<"error">>>>)
             [] c \in Quotes -> upTo(p + 1, LAMBDA x : x = c, FALSE, LAMBDA q, text : IF q = Length + 1 THEN <<<<"error">>>> ELSE then("string", text, q + 1))
             [] c \in Letters -> upTo(p, LAMBDA x : x \notin Letters \cup Digits, FALSE, LAMBDA q, text :
                  CASE text = <<"i", "f">> -> condition("if", q)
                    [] text = <<"else">> -> (IF \E k \in 0..2 : SubSeq(Chars, q, Length) = SubSeq(<<" ", "i", "f">>, 1, k) THEN <<<<"panics">>>>
                                             ELSE IF IfAt(q) THEN condition("elseif", q + 3) ELSE then("else", text, q))
                    [] OTHER -> then(IF text = <<"true">> THEN "bool" ELSE "string", text, q))
             [] OTHER -> <<<<"error">>>>
  IN read[1]

Finished == ending # "" \/ (tokens # <<>> /\ Last(tokens).kind = "EOF")
Given == [i \in DOMAIN tokens |-> IF tokens[i].kind = "EOF" THEN <<"EOF">> ELSE <<tokens[i].kind, tokens[i].value>>] \o (IF ending = "" THEN <<>> ELSE <<<<ending>>>>)
\* The lexer gives the tokens of the text, with what they hold, up to its end,
\* to what it refuses, or to where it reads past the end: after a "=" or an
\* "else" at the end, or a backslash (readToken, readUntilFalse).
LexedAsWritten == Finished => Given = Written

\* A condition as its writer means it: each term, negated where it says "not
\* in", and what links them.
Meant ==
  FlattenSeq([i \in DOMAIN source.terms |->
    LET t == source.terms[i]
        link == IF i = Len(source.terms) THEN <<>> ELSE <<Value("logical", <<source.links[i]>>)>>
    IN (IF t.negated THEN <<<<"!">>, <<"(">>>> \o t.when \o <<<<")">>>> ELSE t.when) \o link])
\* fixNotInExpr knows only && and ||, a quoted text or a pattern must hold no
\* quote at all, and no brace after an else.
Simple ==
  /\ source.terms # <<>>
  /\ \A i \in DOMAIN source.terms :
       LET t == source.terms[i] IN
       /\ ~t.mixed /\ (t.braced => tokens[1].kind = "if")
       /\ t.negated => \A j \in DOMAIN source.links : j \in {i - 1, i} => source.links[j] \in {"&&", "||"}
\* What the conditional evaluates is the condition that was written, and only a
\* text that quotes a quote keeps the parser from returning (toWhenExpression).
ConditionMeant ==
  /\ cond.stage = "done" /\ Simple => cond.out = Meant
  /\ cond.stage = "spins" => source.terms = <<>> \/ ~Simple
=============================================================================
