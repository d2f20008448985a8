------------------------------- MODULE MCConfigs ----------------------------
(***************************************************************************)
(* Inputs for TLC.  Configurations: up to two filters of every kind,       *)
(* conditionals of one and two branches with and without else, nested      *)
(* once, up to two outputs, and inputs that use files.                     *)
(***************************************************************************)
EXTENDS PipelineBuilder

\* Files whose first and last filters are plain, or whose outputs are.
plainFiles ==
  [inner |-> Config(<<Plain>>, <<Plain, If(<<Branch(FALSE, <<Plain>>)>>), Plain>>, <<>>),
   one   |-> Config(<<Plain>>, <<Plain>>, <<>>),
   out   |-> Config(<<>>, <<>>, <<Plain>>),
   tail  |-> Config(<<>>, <<Plain, Plain>>, <<Plain, Plain>>)]

bodies == {<<>>, <<Plain>>, <<Plain, Use("one")>>}
conditionals ==
  {If(<<Branch(FALSE, b)>>) : b \in bodies} \cup
  {If(<<Branch(FALSE, b), Branch(e, c)>>) : e \in BOOLEAN, b, c \in bodies}
nested == If(<<Branch(FALSE, <<If(<<Branch(FALSE, <<Plain>>), Branch(TRUE, <<Plain>>)>>)>>)>>)
filters == {Plain, Use("inner"), UseList(<<"inner", "one">>), Route(<<"out">>), nested} \cup conditionals
outputs == {Plain, Use("tail"), UseList(<<"tail", "out">>),
            If(<<Branch(FALSE, <<Plain, Plain>>), Branch(TRUE, <<Plain>>)>>),
            If(<<Branch(FALSE, <<Plain, Use("out")>>)>>)}
upToTwo(S) == {<<>>} \cup {<<a>> : a \in S} \cup {<<a, b>> : a, b \in S}

plainConfigs ==
  {Config(i, f, o) : i \in {<<Plain>>, <<Plain, Use("inner")>>, <<UseList(<<"one", "inner">>)>>},
                     f \in upToTwo(filters), o \in {<<Plain>>, <<Plain, Use("tail")>>}}
  \cup {Config(<<Plain>>, f, o) : f \in {<<>>} \cup {<<c>> : c \in conditionals}, o \in upToTwo(outputs)}

\* Bodies posted to the http server: all good, a bad record in between, one that
\* is neither object, list nor text, the end of the input for a record, nothing.
postedBodies ==
  {<<"good", "good">>, <<"good", "bad", "good">>, <<"good", "odd">>, <<"good", "end">>, <<>>}

\* Events of three fields at most, and what mutate is told to do with them: one
\* option that is a map and two more, a rename that meets other options among them.
texts == {<<"a">>, <<"1">>, <<"a", "b">>}
fieldValues ==
  {[is |-> "text", of |-> t] : t \in texts} \cup {[is |-> "integer", of |-> <<"1">>]} \cup
  {[is |-> "list", of |-> <<[is |-> "text", of |-> <<"a">>], [is |-> "text", of |-> <<"1">>]>>], [is |-> "list", of |-> <<>>]}
mutableEvents == [{"x", "y"} -> fieldValues] \cup [{"x"} -> fieldValues]
entry(f, t) == [field |-> f, to |-> t]
entryLists(name) ==
  CASE name = "rename" -> {<<entry("x", "z")>>, <<entry("x", "y")>>, <<entry("x", "y"), entry("y", "x")>>}
    [] name = "merge" -> {<<entry("x", "y")>>, <<entry("z", "y"), entry("y", "x")>>}
    [] name = "convert" -> {<<entry("x", "integer"), entry("y", "string")>>, <<entry("z", "integer")>>}
    [] OTHER -> {<<entry("x", "n"), entry("z", "n")>>, <<entry("y", "n")>>}
optionNames == {"add_field", "update", "remove_field", "rename", "uppercase", "remove_all_but", "convert", "join", "split", "strip", "merge"}
mutations ==
  UNION {[S -> UNION {entryLists(n) : n \in S}] : S \in {{a, b} : a, b \in optionNames} \cup {{"rename", "join", "merge"}, {"split", "convert", "merge"}}}
mutateOptions == {o \in mutations : \A n \in DOMAIN o : o[n] \in entryLists(n)}

\* The environment the process was started with; os.Setenv refuses "x=".
inherited == [n \in {"PATH", "x="} |-> IF n = "PATH" THEN "v1" ELSE "unset"]

\* Tags as they come, of every kind; options of two tags.
taggedEvents ==
  {[is |-> "none", names |-> <<>>], [is |-> "text", names |-> <<"a">>]} \cup
  {[is |-> k, names |-> n] : k \in {"list", "strings"}, n \in {<<"a">>, <<"a", "b">>, <<"c", "b", "a">>, <<"a", "b", "c", "d">>}}
tagOptions == {<<>>, <<"a">>, <<"b">>, <<"c">>, <<"a", "b">>, <<"b", "c">>, <<"a", "c">>, <<"d", "a">>}

\* File systems for Locations: main.conf and the file it uses are in d, a file of
\* the same name and folders may be where the process is, "w".
word == [kind |-> "word"]
fileRef(form, path) == [form |-> form, path |-> path, text |-> <<[kind |-> "junk"]>>]
useOf(ref, var) == [kind |-> "use", ref |-> ref, var |-> var]
templateOf(ref, var) == [kind |-> "template", ref |-> ref, var |-> var]
hole(name, default) == [kind |-> "hole", name |-> name, default |-> default]
node(kind, text) == [kind |-> kind, text |-> text]
absent == node("absent", <<>>)
folder == node("dir", <<>>)
nested_conf == fileRef("rel", <<"s", "n.conf">>)
deep_conf == fileRef("rel", <<"n.conf">>)
mainTexts ==
  {<<word, useOf(nested_conf, [N |-> <<word>>])>>,
   <<useOf(deep_conf, <<>>), useOf(nested_conf, <<>>)>>,
   <<hole("N", <<word>>), templateOf(fileRef("dot", <<"t">>), [N |-> <<hole("M", <<>>)>>])>>}
nestedTexts ==
  {<<hole("N", <<>>), hole("M", <<word, word>>), useOf(deep_conf, <<>>), templateOf(fileRef("rel", <<"t">>), [M |-> <<word>>])>>,
   <<hole("M", <<>>), hole("N", <<hole("M", <<>>), word>>)>>}
treePaths ==
  {<<"w">>, <<"w", "n.conf">>, <<"w", "f">>, <<"w", "f", "a.conf">>, <<"w", "f", "b.conf">>, <<"w", "e">>,
   <<"d">>, <<"d", "main.conf">>, <<"d", "s">>, <<"d", "s", "n.conf">>, <<"d", "s", "t">>, <<"d", "t">>}
treeConfPaths == {<<"w", "n.conf">>, <<"w", "f", "a.conf">>, <<"w", "f", "b.conf">>, <<"d", "main.conf">>, <<"d", "s", "n.conf">>}
trees ==
  {[p \in treePaths |->
      CASE p \in {<<"w">>, <<"w", "f">>, <<"w", "e">>, <<"d">>, <<"d", "s">>} -> folder
        [] p \in {<<"w", "n.conf">>, <<"w", "f", "b.conf">>} -> (IF more THEN node("file", <<word>>) ELSE absent)
        [] p = <<"w", "f", "a.conf">> -> node("file", <<word>>)
        [] p = <<"d", "main.conf">> -> node("file", main)
        [] p = <<"d", "s", "n.conf">> -> node("file", nest)
        [] OTHER -> (IF more THEN absent ELSE node("file", <<word, hole("N", <<word>>), hole("M", <<>>)>>))] :
     main \in mainTexts, nest \in nestedTexts, more \in BOOLEAN}
served ==
  [p \in {<<"h", "main.conf">>, <<"h", "s", "n.conf">>, <<"h", "n.conf">>, <<"h", "s", "t">>} |->
     CASE p = <<"h", "main.conf">> -> <<useOf(nested_conf, [N |-> <<word>>]), templateOf(fileRef("rel", <<"t">>), <<>>)>>
       [] p = <<"h", "s", "n.conf">> -> <<hole("N", <<>>), templateOf(fileRef("dot", <<"t">>), <<>>)>>
       [] OTHER -> <<word>>]
environment == [M |-> <<word, word>>, X |-> <<>>]
inlineText == [form |-> "rel", path |-> <<"no such name">>, text |-> <<useOf(fileRef("rel", <<"n.conf">>), <<>>), hole("M", <<>>)>>]
runArguments ==
  {<<fileRef("abs", <<"d", "main.conf">>), fileRef("rel", <<"e">>)>>, <<fileRef("url", <<"h", "main.conf">>), inlineText>>,
   <<fileRef("rel", <<"f">>)>>, <<fileRef("rel", <<"n.conf">>), fileRef("abs", <<"d", "s", "n.conf">>)>>}

\* Events and filters for Filters; the texts an expression may meet.
valued(is, of) == [is |-> is, of |-> of]
filterTexts == {"1", "ab", "{}", "a=1 b=1 a=2 a=1"}
filteredEvents ==
  LET values == {valued("text", <<t>>) : t \in filterTexts} \cup
                {valued("list", <<>>), valued("list", <<"ab", "1">>), valued("strings", <<"a=1 b=1 a=2 a=1", "1", "a=2">>), valued("object", <<>>)}
  IN [{"message"} -> values] \cup [{"message", "x"} -> values] \cup
     {[message |-> v, tags |-> valued(is, <<"ab">>)] : v \in values, is \in {"text", "strings"}}
jsonObjects == [t \in {"{}"} |-> [x |-> valued("text", <<"ab">>)]]
dateResults ==
  [d \in {"UNIX_MS", "DD"} |-> [t \in filterTexts |->
     IF d = "UNIX_MS" THEN (IF t \in {"1", "ab", "{}"} THEN "panic" ELSE "error") ELSE IF t = "1" THEN "date" ELSE "error"]]
captured ==
  [p \in {"word", "pair", "digit"} |->
     CASE p = "word" -> [t \in {"ab"} |-> [x |-> valued("text", <<"ab">>)]]
       [] p = "pair" -> [t \in {"ab", "{}"} |-> [message |-> valued("text", <<"1">>), y |-> valued("text", <<"ab">>)]]
       [] p = "digit" -> [t \in {"1"} |-> [y |-> valued("text", <<"1">>)]]]
textPairs ==
  [t \in filterTexts \cup {"a=2"} |->
     CASE t = "a=1 b=1 a=2 a=1" -> <<<<"a", "1">>, <<"b", "1">>, <<"a", "2">>, <<"a", "1">>>>
       [] t = "a=2" -> <<<<"a", "2">>>> [] OTHER -> <<>>]
evaluations ==
  [x \in {"is word", "copy", "length"} |-> [t \in filterTexts \cup {"", "true", "false", "2"} |->
     CASE x = "is word" -> (IF t = "" THEN "error" ELSE IF t = "ab" THEN "true" ELSE "false")
       [] x = "copy" -> (IF t \in {"", "{}"} THEN "error" ELSE t) [] x = "length" -> (IF t = "" THEN "error" ELSE "2")]]
asking(f, x) == [reads |-> f, is |-> x]
statelessFilters ==
  {[kind |-> "date", field |-> "message", layouts |-> l] : l \in {<<"DD">>, <<"DD", "UNIX_MS">>, <<"UNIX_MS", "DD">>}} \cup
  {[kind |-> "json", field |-> "message", skip |-> b] : b \in BOOLEAN} \cup
  {[kind |-> "split", field |-> "message", target |-> "x"]} \cup
  {[kind |-> "exec", target |-> t, stdin |-> b, readsInput |-> c] : t \in {".", "x"}, b \in BOOLEAN, c \in BOOLEAN} \cup
  {[kind |-> "template", target |-> "x", text |-> asking("x", "copy")]} \cup
  {[kind |-> "html", fields |-> {"x"}]} \cup
  {[kind |-> "uuid", overwrite |-> b, target |-> "x"] : b \in BOOLEAN} \cup
  {[kind |-> "drop", percentage |-> n] : n \in {0, 50, 100}} \cup
  {[kind |-> "blacklist", field |-> "message", terms |-> {"1", "ab"}]} \cup
  {[kind |-> "whitelist", field |-> "x", terms |-> {"1", "ab"}, ignoreMissing |-> b] : b \in BOOLEAN} \cup
  {[kind |-> "route", condition |-> c, fork |-> b] : c \in {<<>>, <<asking("x", "is word")>>}, b \in BOOLEAN} \cup
  {[kind |-> "when", expressions |-> <<asking("x", "is word"), asking("message", "is word"), asking("message", "copy")>>]} \cup
  {[kind |-> "kv", field |-> "message", include |-> i, exclude |-> {"b"}, duplicates |-> b, defaults |-> {"a", "c"}] : i \in {{}, {"a", "b"}}, b \in BOOLEAN} \cup
  {[kind |-> "grok", match |-> m, break |-> b] :
     m \in {[message |-> <<"digit", "pair", "word">>, x |-> <<"word", "digit">>], [message |-> <<"word">>, x |-> <<"pair">>]}, b \in BOOLEAN} \cup
  {[kind |-> "eval", templates |-> t, expressions |-> e] :
     t \in {[message |-> asking("message", "copy"), y |-> asking("x", "length")], [f \in {} |-> asking("x", "copy")]},
     e \in {[x |-> asking("x", "copy"), z |-> asking("x", "is word")], [z |-> asking("z", "copy"), w |-> asking("message", "length")], [x |-> asking("y", "is word")]}}

\* Texts for the Lexer: all of three characters, and what may follow an if, an
\* else and a number; conditions of up to two terms behind an if and an else if.
characters == {"i", "f", "a", "else", "1", "-", "'", "\"", "\\", "\n", " ", "#", "{", "=", ">", "?"}
textsOf(S, n) == UNION {[1..k -> S] : k \in 0..n}
term(text, when, negated, mixed, braced) == [text |-> text, when |-> when, negated |-> negated, mixed |-> mixed, braced |-> braced]
conditionTerms ==
  LET x == <<"[", "x", "]">> text(q, t) == <<q>> \o t \o <<q>> IN
  {term(x \o <<"==">> \o text("'", <<"a">>), <<x, <<"==">>, text("'", <<"a">>)>>, FALSE, FALSE, FALSE),
   term(<<"[", "x", "]", "[", "a", "]", " ", "=~", " ", "/", "a", "?", "/">>, <<<<"[", "x", ".", "a", "]">>, <<"=~">>, text("'", <<"a", "?">>)>>, FALSE, FALSE, FALSE),
   term(text("\"", <<"a">>) \o <<" ", "not", " ", "in", " ">> \o x, <<text("'", <<"a">>), <<"in">>, x>>, TRUE, FALSE, FALSE),
   term(<<"!", "(">> \o x \o <<")">>, <<<<"!">>, <<"(">>, x, <<")">>>>, FALSE, FALSE, FALSE),
   term(x \o <<" ", "==", " ">> \o text("\"", <<"a", "'", "x">>), <<x, <<"==">>, text("'", <<"a", "'", "x">>)>>, FALSE, TRUE, FALSE),
   term(text("'", <<"a", "{">>) \o <<" ", "in", " ", "[", "a", ",", " ", "1", "]">>, <<text("'", <<"a", "{">>), <<"in">>, <<"[", "a">>, <<",">>, <<"1">>, <<")">>>>, FALSE, FALSE, TRUE)}
conditional(head, terms, links) ==
  [chars |-> head \o (IF Len(terms) = 1 THEN terms[1].text ELSE terms[1].text \o <<" ", links[1], " ">> \o terms[2].text) \o <<" ", "{">>,
   terms |-> terms, links |-> links]
lexedTexts ==
  {[chars |-> t, terms |-> <<>>, links |-> <<>>] :
     t \in textsOf(characters, 3)
          \cup {<<"i", "f">> \o u : u \in textsOf({"'", "\"", "{", "\\", "a"}, 4)}
          \cup {<<"else">> \o u : u \in textsOf({" ", "i", "f", "{", "'"}, 4)}
          \cup {<<"1">> \o u : u \in textsOf({"1", "-", ".", " ", "\\"}, 3)}} \cup
  UNION {{conditional(h, <<a>>, <<>>) : h \in {<<"i", "f", " ">>, <<"else", " ", "i", "f", " ">>}} : a \in conditionTerms} \cup
  {conditional(h, <<a, b>>, <<l>>) : h \in {<<"i", "f", " ">>, <<"else", " ", "i", "f", " ">>}, a, b \in conditionTerms, l \in {"&&", "||", "and", "or"}}

\* Options as commands declare them, and configurations of up to two of them, or
\* three with a word at the end.
declaredAs(type, required, default) == [type |-> type, required |-> required, default |-> default]
declarations ==
  {[b |-> declaredAs("bool", FALSE, <<"true">>), s |-> declaredAs("string", FALSE, <<"d">>), n |-> declaredAs("int", TRUE, <<"1">>)],
   [b |-> declaredAs("bool", TRUE, <<"false">>), l |-> declaredAs("[]string", FALSE, <<<<"d">>>>), m |-> declaredAs("map[string]string", FALSE, {<<"k", "d">>})],
   [s |-> declaredAs("string", TRUE, <<"">>), l |-> declaredAs("[]int", FALSE, <<<<"1">>>>)]}
configured ==
  [b |-> {valued("bool", "true"), valued("bool", "false"), valued("string", "true")},
   s |-> {valued("string", ""), valued("string", "a"), valued("string", "%{f}"), valued("integer", "1"), valued("float", "1"), valued("bool", "true")},
   n |-> {valued("integer", "2"), valued("string", "1"), valued("string", "a")},
   l |-> {valued("list", <<>>), valued("list", <<valued("string", "%{f}"), valued("string", "b")>>), valued("list", <<valued("integer", "2"), valued("float", "2")>>), valued("string", "a")},
   m |-> {valued("map", <<>>), valued("map", [k |-> valued("string", "a"), h |-> valued("string", "b")]), valued("map", [k |-> valued("integer", "1")])},
   interval |-> {valued("string", "a")}] @@ ("_" :> {valued("string", "a"), valued("integer", "1")})
xprocessorConfigs ==
  UNION {{o \in [S -> UNION {configured[k] : k \in S}] : \A k \in S : o[k] \in configured[k]} :
           S \in {{a, b} : a, b \in DOMAIN configured} \cup {{"s", "b", "_"}, {"b", "n", "interval"}}}

\* Mails: each template missing, fine or bad, pictures embedded or not; events of
\* up to two pictures, of which one cannot be decoded, with data of every kind.
mailOptions ==
  {[subject |-> s, html |-> h, body |-> b, embeds |-> e, images |-> <<<<"here">>, <<"nowhere">>>>,
    attachments |-> <<<<"beside">>, <<"nowhere">>, <<"here">>>>, data |-> {"x", "y", "z"}] :
     s \in {"fine", "bad"}, h \in {"none", "fine"}, b \in {"fine", "bad"}, e \in BOOLEAN}
mailEvents ==
  {[pictures |-> p, data |-> d] :
     p \in {<<>>, <<"base64">>, <<"base64", "base64">>, <<"text", "base64">>},
     d \in {[x |-> "base64", y |-> "bytes"], [x |-> "text", z |-> "other"]}}

\* What statsd counts: names that meet when they are resolved, values of every kind.
meterOptions ==
  {[sender |-> s, count |-> c, increment |-> i, decrement |-> <<"n">>, gauge |-> [n |-> "%{f}"], timing |-> <<>>, set |-> [u |-> "a", v |-> "1"]] :
     s \in {"a.b", "%{f}"}, c \in {[n |-> "%{f}", m |-> "1", o |-> "a"], "%{f}" :> "2"}, i \in {<<>>, <<"n", "%{f}", "n">>, <<"n", "n">>}}

\* Inputs that read in a goroutine, with the options that tell them apart.
inlets ==
  [plugin : {"unix"}, mode : {"server", "client", "odd"}, timeout : BOOLEAN]
  \cup [plugin : {"udp", "syslog", "elasticsearch", "imap", "stop"}]
  \cup [plugin : {"twitter"}, ignores : BOOLEAN] \cup [plugin : {"event"}, interval : BOOLEAN]

\* What is asked of the console.
consoleForms ==
  [does : {"show", "create", "delete"}, of : {"pipelines", "assets", "xprocessors"}, u : {1}, fields : {<<>>}, file : {"long"}]
  \cup [does : {"update"}, of : {"pipelines"}, u : {1}, fields : {[label |-> "l", auto_start |-> "on"]}, file : {""}]
  \cup [does : {"update"}, of : {"xprocessors"}, u : {1}, fields : {[label |-> "l", stream |-> "on"]}, file : {""}]
  \cup [does : {"update", "replace"}, of : {"assets"}, u : {1}, fields : {<<>>}, file : {"long"}]
  \cup [does : {"start", "stop"}, of : {"pipelines"}, u : {1}, fields : {<<>>}, file : {""}]
  \cup [does : {"play"}, of : {"playground"}, u : {0}, fields : {<<>>}, file : {"good", "other", "bad"}]
  \cup [does : {"exit"}, of : {"playground"}, u : {0}, fields : {<<>>}, file : {""}]
  \cup [does : {"address"}, of : {"settings"}, u : {0}, fields : {<<>>}, file : {"nowhere"}]

\* Agents to configure: every plugin with one of its options in every way, two of
\* those that Configure itself looks at, and codecs of every role; alone, after an
\* input that consumes at once, and before an agent that is refused.
Table == INSTANCE Configure WITH Pipelines <- {}, wanted <- <<>>, making <- <<>>, ready <- <<>>, started <- "no", left <- {}
required(p) == [o \in Table!Plugins[p].required \ Table!Plugins[p].preset |-> "some"]
waysOf(kind) == {"some", "zero", "wrong"} \cup (IF kind \in {"number", "table"} THEN {"odd"} ELSE {})
dropped(o, given) == [q \in DOMAIN given \ {o} |-> given[q]]
optionsOf(p) == DOMAIN Table!Plugins[p].kinds \ {"codec"}
varied(p, given) == UNION {{dropped(o, given)} \cup {(o :> v) @@ given : v \in waysOf(Table!Plugins[p].kinds[o])} : o \in optionsOf(p)}
telling == {"body", "compare_field", "count", "expressions", "interval", "location", "match", "port", "search_base", "sincedb_path", "statement", "templates", "terms"}
bothTelling(p) ==
  {a @@ b @@ required(p) : a, b \in UNION {{o :> v : v \in waysOf(Table!Plugins[p].kinds[o])} : o \in telling \cap optionsOf(p)}}
coded == {{}, {"any"}, {"enc"}, {"dec"}, {"enc", "dec"}, {"odd"}}
agentOf(p, given, codecs) == [plugin |-> p, given |-> given, codecs |-> codecs]
agentsAlone ==
  UNION {{agentOf(p, g, {}) : g \in varied(p, required(p)) \cup bothTelling(p)} \cup {agentOf(p, required(p), c) : c \in coded} : p \in DOMAIN Table!Plugins}
agentsPlain == {agentOf(p, required(p), {}) : p \in DOMAIN Table!Plugins}
refusedAgent == agentOf("date", "match" :> "wrong", {})
configurablePipelines ==
  {<<a>> : a \in agentsAlone} \cup {<<agentOf("input_rabbitmq", required("input_rabbitmq"), {}), a>> : a \in agentsPlain}
  \cup {<<a, refusedAgent>> : a \in agentsPlain}

\* Agents to schedule: up to three, with labels they share or not.
star == -1
fields(f, more) == [kind |-> "fields", fields |-> f, more |-> more]
plannings ==
  {[kind |-> k] : k \in {"none", "every", "blank"}} \cup {[kind |-> "word", hour |-> 12], fields(<<5, 4, star, star, star>>, 0), fields(<<5, 4, star, star, star>>, 1),
   fields(<<4, star, star, star>>, 1), fields(<<0, 5, 4, star, star, 6>>, 0), fields(<<0, 5, 24, star, star, star>>, 0)}
scheduledAgents(S) == [label : {"a", "b"}, planning : S]
schedules ==
  {<<a>> : a \in scheduledAgents(plannings)}
  \cup {<<a, b>> : a \in scheduledAgents({[kind |-> "none"], [kind |-> "every"]}), b \in scheduledAgents(plannings)}
  \cup {<<[label |-> "a", planning |-> [kind |-> "every"]], a, b>> : a, b \in scheduledAgents({[kind |-> "none"], [kind |-> "every"]})}
alike(i, j) == {(i :> p) @@ (j :> p) : p \in schedules}
every(l) == [label |-> l, planning |-> [kind |-> "every"]]
changed(i, j) == {(i :> <<every("a")>>) @@ (j :> <<every(l), [label |-> "a", planning |-> [kind |-> "none"]]>>) : l \in {"a", "b"}}

\* The options of the filters geoip and digest.
geoOptions == [web : BOOLEAN, type : {"city", "asn"}]
digestOptions == {[interval |-> TRUE, count |-> 2], [interval |-> FALSE, count |-> 1], [interval |-> FALSE, count |-> 2]}
=============================================================================
