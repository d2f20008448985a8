---------------------------- MODULE LogstashParser --------------------------
(***************************************************************************)
(* The configuration parser (entrypoint/parser/logstash/parser.go), whose  *)
(* functions call each other for each construct: a stack of frames, one    *)
(* for each call, and one step for each token.  A token is the string it   *)
(* is written with: a name stands for itself, "if" for an if with its      *)
(* condition, "if?" for one whose condition is wrong, "#" for a comment,   *)
(* "1" for a number or boolean, "!" for what the lexer refuses.  Maps with *)
(* the keys 0, 1, ... are sequences; those of the codecs and the settings  *)
(* of a plugin are one.                                                    *)
(***************************************************************************)
EXTENDS Integers, SequencesExt

CONSTANTS
  Names,     \* tokens that are TokenString
  Tokens,    \* all tokens but "EOF"
  MaxTokens  \* bound: tokens of a file

VARIABLES
  read,    \* the tokens so far
  frames,  \* the calls: what is parsed, at which point, with what it has got
  parsed,  \* config.Sections
  outcome, \* "parsing", "parsed", "refused" or "panics"
  trace    \* history: positions of the tokens passed over; a key of a hash was given twice;
           \* the sections, from where to where
lpVars == <<read, frames, parsed, outcome, trace>>

SectionNames == {"input", "filter", "output"}
Of(what, name) == [what |-> what, at |-> "open", name |-> name, label |-> "", parts |-> <<>>]
PSInit ==
  /\ read = <<>> /\ frames = <<Of("config", "")>> /\ outcome = "parsing"
  /\ parsed = << >> /\ trace = [passed |-> {}, twice |-> FALSE, sections |-> <<>>]
-----------------------------------------------------------------------------
Top == Last(frames)
Now == Len(read) + 1
Stays == UNCHANGED <<parsed, outcome, trace>>
Calls(what, name) == frames' = Append(frames, Of(what, name)) /\ Stays
At(at) == frames' = [frames EXCEPT ![Len(frames)].at = at] /\ Stays
Passes == trace' = [trace EXCEPT !.passed = @ \cup {Now}] /\ UNCHANGED <<frames, parsed, outcome>>
Ends(o) == outcome' = o /\ UNCHANGED <<frames, parsed, trace>>

\* A call returns x, which its caller appends to what it has.
Returned(stack, x) == [Front(stack) EXCEPT ![Len(stack) - 1].parts = Append(@, x)]
\* A hash has the last value of a key.
Settled(stack, v) ==
  LET x == [what |-> "setting", name |-> Last(stack).name, parts |-> <<v>>]
      same == {i \in DOMAIN stack[Len(stack) - 1].parts : stack[Len(stack) - 1].parts[i].name = x.name}
  IN IF stack[Len(stack) - 1].what = "hash" /\ same # {}
     THEN [Front(stack) EXCEPT ![Len(stack) - 1].parts = ReplaceAt(@, CHOOSE i \in same : TRUE, x)]
     ELSE Returned(stack, x)
Twice(k) == Top.what = "hash" /\ \E i \in DOMAIN Top.parts : Top.parts[i].name = k

\* Parse: a right brace is passed over.
InConfig(t) ==
  /\ Top.what = "config"
  /\ CASE t = "EOF" -> Ends("parsed")
       [] t \in {"#", "}"} -> Passes
       [] t \in SectionNames -> /\ frames' = Append(frames, Of("section", t)) /\ UNCHANGED <<parsed, outcome>>
                                /\ trace' = [trace EXCEPT !.sections = Append(@, [name |-> t, from |-> Now + 2, to |-> 0])]
       [] OTHER -> Ends("refused")
\* The brace of a section, a branch or a plugin, which may have a label before it.
Branches == {"if", "else if", "else"}
Opens(t) ==
  /\ Top.what \in {"section", "plugin"} \cup Branches /\ Top.at \in {"open", "labelled"}
  /\ CASE t = "{" -> At("body")
       [] t \in Names /\ Top.what = "plugin" /\ Top.at = "open" ->
            frames' = [frames EXCEPT ![Len(frames)] = [@ EXCEPT !.at = "labelled", !.label = t]] /\ Stays
       [] OTHER -> Ends("refused")

\* A section takes the place of one of its name.
SectionEnds ==
  /\ frames' = Front(frames) /\ UNCHANGED outcome
  /\ parsed' = [n \in DOMAIN parsed \cup {Top.name} |-> IF n = Top.name THEN Top.parts ELSE parsed[n]]
  /\ trace' = [trace EXCEPT !.sections[Len(trace.sections)].to = Now - 1]
Branch == [what |-> Top.what, parts |-> Top.parts]
\* Mutant: the branch of an else is a plugin of its own.
ElseEnds_Apart == frames' = Returned(frames, [what |-> "when", parts |-> <<Branch>>]) /\ Stays
\* The branch of an else is added to the plugin before it, which must be an if.
ElseEnds ==
  LET before == frames[Len(frames) - 1].parts IN
  IF before = <<>> \/ Last(before).what # "when" THEN Ends("panics")
  ELSE /\ frames' = [Front(frames) EXCEPT ![Len(frames) - 1].parts[Len(before)].parts = Append(@, Branch)]
       /\ Stays
\* parseSection and parseWHEN.
InBlock(t) ==
  /\ Top.what \in {"section"} \cup Branches /\ Top.at = "body"
  /\ CASE t = "#" -> Passes
       [] t \in Names -> Calls("plugin", t)
       [] t \in Branches -> Calls(t, "")
       [] t = "}" -> CASE Top.what = "section" -> SectionEnds
                       [] Top.what = "if" -> frames' = Returned(frames, [what |-> "when", parts |-> <<Branch>>]) /\ Stays
                       [] OTHER -> ElseEnds
       [] OTHER -> Ends("refused")

PluginTokens == {"#", ",", "}"} \cup Names
\* The body of parsePlugin's loop with a token, on the given calls: what is none
\* of its cases is passed over.
PluginGets(stack, t) ==
  /\ frames' = CASE t = "codec" -> Append(stack, Of("codec", ""))
                 [] t \in Names \ {"codec"} -> Append(stack, Of("setting", t))
                 [] t = "}" -> Returned(stack, Last(stack))
                 [] OTHER -> stack
  /\ trace' = [trace EXCEPT !.passed = IF t \in {"}"} \cup Names THEN @ ELSE @ \cup {Now}]
  /\ UNCHANGED <<parsed, outcome>>
InPlugin(t) ==
  /\ Top.what = "plugin" /\ Top.at = "body"
  /\ IF t \in PluginTokens THEN PluginGets(frames, t) ELSE Ends("refused")

\* Mutant: the token after the name of a codec without settings is not given back.
CodecName_Drops(t) ==
  /\ Top.what = "codec" /\ Top.at = "named"
  /\ IF t = "{" THEN At("body")
     ELSE frames' = Returned(frames, Top) /\ trace' = [trace EXCEPT !.passed = @ \cup {Now}] /\ UNCHANGED <<parsed, outcome>>
\* parseCodec: what follows the name of a codec, if not its settings, is the
\* plugin's next token, which is not checked again.
CodecName(t) ==
  /\ Top.what = "codec" /\ Top.at = "named"
  /\ IF t = "{" THEN At("body") ELSE PluginGets(Returned(frames, [Top EXCEPT !.at = "bare"]), t)
InCodec(t) ==
  /\ Top.what = "codec" /\ Top.at # "named"
  /\ CASE Top.at = "open" /\ t = "=>" -> At("assigned")
       [] Top.at = "assigned" /\ t \in Names -> frames' = [frames EXCEPT ![Len(frames)] = [@ EXCEPT !.at = "named", !.name = t]] /\ Stays
       [] Top.at = "body" /\ t \in {"#", ","} -> Passes
       [] Top.at = "body" /\ t \in Names -> Calls("setting", t)
       [] Top.at = "body" /\ t = "}" -> frames' = Returned(frames, Top) /\ Stays
       [] OTHER -> Ends("refused")
\* parseSetting, parseArray and parseHash; an array has no booleans in it.
Settles(stack, v) ==
  /\ frames' = Settled(stack, v) /\ UNCHANGED <<parsed, outcome>>
  /\ trace' = [trace EXCEPT !.twice = @ \/ Len(Settled(stack, v)[Len(stack) - 1].parts) = Len(stack[Len(stack) - 1].parts)]
InSetting(t) ==
  /\ Top.what = "setting"
  /\ CASE Top.at = "open" /\ t = "=>" -> At("assigned")
       [] Top.at = "assigned" /\ t \in Names \cup {"1"} -> Settles(frames, [what |-> "scalar", name |-> t])
       [] Top.at = "assigned" /\ t = "[" -> Calls("array", "")
       [] Top.at = "assigned" /\ t = "{" -> Calls("hash", "")
       [] OTHER -> Ends("refused")
InArray(t) ==
  /\ Top.what = "array"
  /\ CASE t \in {"#", ","} -> Passes
       [] t \in Names \cup {"1"} -> frames' = [frames EXCEPT ![Len(frames)].parts = Append(@, [what |-> "scalar", name |-> t])] /\ Stays
       [] t = "]" -> Settles(Front(frames), Top)
       [] OTHER -> Ends("refused")
InHash(t) ==
  /\ Top.what = "hash"
  /\ CASE t \in {"#", ","} -> Passes
       [] t \in Names -> Calls("setting", t)
       [] t = "}" -> Settles(Front(frames), Top)
       [] OTHER -> Ends("refused")

\* getToken: what the lexer refuses ends the parsing; but for the token after a
\* codec's name.
Parses(t) ==
  InConfig(t) \/ Opens(t) \/ InBlock(t) \/ InPlugin(t) \/ CodecName(t) \/ InCodec(t) \/ InSetting(t) \/ InArray(t) \/ InHash(t)
PSNext ==
  /\ outcome = "parsing" /\ Len(read) < MaxTokens
  /\ \E t \in Tokens \cup {"EOF"} :
       /\ Now > 1 /\ Last(read) = "EOF" => t = "EOF"
       /\ read' = Append(read, t) /\ Parses(t)
PSSpec == PSInit /\ [][PSNext]_lpVars
-----------------------------------------------------------------------------
\* The tokens of what was parsed; branches without their if are none of it.
RECURSIVE Written(_)
WrittenAll(parts) == FlattenSeq([i \in DOMAIN parts |-> Written(parts[i])])
Written(x) ==
  CASE x.what = "scalar" -> <<x.name>>
    [] x.what = "setting" -> <<x.name, "=>">> \o WrittenAll(x.parts)
    [] x.what = "array" -> <<"[">> \o WrittenAll(x.parts) \o <<"]">>
    [] x.what = "hash" -> <<"{">> \o WrittenAll(x.parts) \o <<"}">>
    [] x.what = "codec" -> <<"codec", "=>", x.name>> \o IF x.at = "bare" THEN <<>> ELSE <<"{">> \o WrittenAll(x.parts) \o <<"}">>
    [] x.what = "plugin" -> <<x.name>> \o (IF x.label = "" THEN <<>> ELSE <<x.label>>) \o <<"{">> \o WrittenAll(x.parts) \o <<"}">>
    [] x.what \in Branches -> <<x.what, "{">> \o WrittenAll(x.parts) \o <<"}">>
    [] x.what = "when" -> IF Head(x.parts).what = "if" THEN WrittenAll(x.parts) ELSE <<>>
Plain(from, to) ==
  LET kept == SelectSeq([i \in 1..to |-> i], LAMBDA i : i >= from /\ i \notin trace.passed)
  IN [j \in DOMAIN kept |-> read[kept[j]]]

\* What is parsed is what is written: the last section of each name has its
\* plugins, branches, codecs and settings nested and ordered as its text, to the
\* last token but commas and comments and, after a codec without settings, one
\* token of any kind; braces too many after a section are passed over.
ParsedAsWritten ==
  outcome = "parsed" /\ ~trace.twice =>
    \A n \in DOMAIN parsed :
      LET s == Last(SelectSeq(trace.sections, LAMBDA x : x.name = n))
      IN /\ WrittenAll(parsed[n]) = Plain(s.from, s.to)
         /\ \A i \in trace.passed \cap (s.from..s.to) : read[i] \in {",", "#"} \/ (read[i-2] = "=>" /\ read[i-3] = "codec")
=============================================================================
