------------------------------ MODULE Filters -------------------------------
(***************************************************************************)
(* Receive of the processors that keep nothing between events: kv, grok,   *)
(* eval, date, json, split, exec, html, template, uuid, drop, blacklist,   *)
(* whitelist, route and when.  A behaviour is one event in one of them.    *)
(* The loops that range over a Go map take its entries in any order.  What *)
(* a text parses to, matches or evaluates to is given.                     *)
(***************************************************************************)
EXTENDS Integers, SequencesExt

Text(t) == [is |-> "text", of |-> <<t>>]
Missing == [is |-> "missing", of |-> <<>>]

CONSTANTS
  Filters,   \* processors: their kind and options
  Events,    \* fields of the events: field -> value
  Objects,   \* text -> the fields of the JSON object it is
  Dates,     \* layout -> text -> "date", "error", or "panic" of a text too short for it
  Captures,  \* pattern -> text -> the fields that it captures, if it matches
  Pairs,     \* text -> its <<key, value>> pairs
  Evaluated  \* expression -> text of the field it reads -> "true", "false", a text, "error"

VARIABLES
  filter,
  came,   \* the fields of the event as it came
  event,  \* fields; how often marked by the common options and as a failure
  todo,   \* the entries of the map that is ranged over
  met,    \* something matched, or failed, before
  sent,   \* events and the ports they were sent to
  at      \* "receive", "templates", "range", "done", "panic", "stuck"
fiVars == <<filter, came, event, todo, met, sent, at>>

FIInit ==
  /\ filter \in Filters /\ came \in Events /\ event = [fields |-> came, common |-> 0, failed |-> 0]
  /\ todo = {} /\ met = FALSE /\ sent = <<>> /\ at = "receive"
-----------------------------------------------------------------------------
\* ValueForPath gives the first of a list, ValueForPathString nothing but a text.
ValueIn(fields, f) == IF f \in DOMAIN fields THEN fields[f] ELSE Missing
First(v) == IF v.is # "list" THEN v ELSE IF v.of = <<>> THEN Missing ELSE Text(Head(v.of))
HasText(f) == First(ValueIn(event.fields, f)).is = "text"
TextIn(fields, f) == IF First(ValueIn(fields, f)).is = "text" THEN Head(First(ValueIn(fields, f)).of) ELSE ""
Value(f) == ValueIn(event.fields, f)
TextOf(f) == TextIn(event.fields, f)

Set(e, fields) == [e EXCEPT !.fields = fields @@ @]
Common(e) == [e EXCEPT !.common = @ + 1]
Failure(e) == [e EXCEPT !.failed = @ + 1]
To(port, e) == [port |-> port, event |-> e]
Is(kind) == filter.kind = kind /\ at = "receive"
\* Receive ends when it has sent these.
Ends(sends) == sent' = sends /\ at' = "done" /\ UNCHANGED <<filter, came, event, todo, met>>
Goes(where) == at' = where /\ UNCHANGED <<filter, came, event, todo, met, sent>>
-----------------------------------------------------------------------------
Date ==
  /\ Is("date")
  /\ LET tried == {i \in DOMAIN filter.layouts : HasText(filter.field) /\ Dates[filter.layouts[i]][TextOf(filter.field)] # "error"}
         first == CHOOSE i \in tried : \A j \in tried : i <= j
     IN IF tried = {} THEN Ends(<<To(0, Failure(event))>>)
        ELSE IF Dates[filter.layouts[first]][TextOf(filter.field)] = "panic" THEN Goes("panic")
        ELSE Ends(<<To(0, Common(Set(event, ("@timestamp" :> Text(filter.layouts[first])))))>>)

Json ==
  /\ Is("json")
  /\ IF ~HasText(filter.field) THEN Ends(<<>>)
     ELSE IF TextOf(filter.field) \in DOMAIN Objects THEN Ends(<<To(0, Common(Set(event, Objects[TextOf(filter.field)])))>>)
     ELSE Ends(IF filter.skip THEN <<>> ELSE <<To(0, Failure(event))>>)

\* The elements of a list, else the value: the terminator is not looked for.
Split ==
  /\ Is("split")
  /\ LET v == Value(filter.field)
         parts == IF v.is = "list" THEN [i \in DOMAIN v.of |-> Text(v.of[i])] ELSE IF v = Missing THEN <<>> ELSE <<v>>
     IN Ends(IF parts = <<>> THEN <<To(1, event)>>
             ELSE [i \in DOMAIN parts |-> To(0, Common(Set(event, (filter.target :> parts[i]))))])

\* The command's output, if it ends with success and prints no error.  Its input
\* is only closed when something was written to it, and written before its output
\* is read.  Output "null" is no map to put the time into.
Exec ==
  /\ Is("exec")
  /\ \/ filter.readsInput /\ Goes("stuck")
     \/ /\ filter.readsInput => filter.stdin
        /\ \/ Ends(<<>>)
           \/ \E output \in DOMAIN Objects \cup {"", "null"} :
                IF filter.target # "." THEN Ends(<<To(0, Common(Set(event, (filter.target :> Text(output)))))>>)
                ELSE IF output = "null" THEN Goes("panic")
                ELSE IF output = "" THEN Ends(<<To(0, Failure(event))>>)
                ELSE Ends(<<To(0, Common([event EXCEPT !.fields = ("@timestamp" :> Value("@timestamp")) @@ Objects[output]]))>>)

Template ==
  /\ Is("template")
  /\ LET text == Evaluated[filter.text.is][TextOf(filter.text.reads)]
     IN Ends(IF text = "error" THEN <<>> ELSE <<To(0, Common(Set(event, (filter.target :> Text(text)))))>>)

\* A document that cannot be parsed: the tags are taken for strings.
Html ==
  /\ Is("html")
  /\ \/ Value("tags").is \in {"text", "list"} /\ Goes("panic")
     \/ Value("tags").is \notin {"text", "list"} /\ Ends(<<To(0, Failure(event))>>)
     \/ Ends(<<To(0, Common(Set(event, [f \in filter.fields |-> Text("")])))>>)

Uuid ==
  /\ Is("uuid")
  /\ \/ Ends(<<To(0, event)>>)
     \/ Ends(<<To(0, Common(IF ~filter.overwrite /\ Value(filter.target) # Missing THEN event
                            ELSE Set(event, (filter.target :> Text("uuid")))))>>)

\* percentage 100, 0 or between.
Drop ==
  /\ Is("drop")
  /\ \/ filter.percentage > 0 /\ Ends(<<>>)
     \/ filter.percentage < 100 /\ Ends(<<To(0, Common(event))>>)

Blacklist == Is("blacklist") /\ Ends(IF TextOf(filter.field) \in filter.terms THEN <<To(0, Common(event))>> ELSE <<>>)
Whitelist ==
  /\ Is("whitelist")
  /\ Ends(IF (~HasText(filter.field) /\ filter.ignoreMissing) \/ (HasText(filter.field) /\ TextOf(filter.field) \in filter.terms)
          THEN <<>> ELSE <<To(0, Common(event))>>)
-----------------------------------------------------------------------------
\* An expression is true when its value is, or is no boolean.
Evaluates(x) == Evaluated[x.is][TextOf(x.reads)]
Holds(x) == Evaluates(x) \notin {"false", "error"}
Route ==
  /\ Is("route")
  /\ IF filter.condition # <<>> /\ Evaluates(filter.condition[1]) = "error" THEN Ends(<<>>)
     ELSE LET result == filter.condition = <<>> \/ Holds(filter.condition[1])
              e == Common(event)
          IN Ends(CASE result /\ filter.fork -> <<To(1, e), To(0, e)>>
                    [] result /\ ~filter.fork -> <<To(0, e)>>
                    [] ~result -> <<To(1, e)>>)

\* Mutant: an expression that fails ends the conditional.
When_Fails ==
  /\ Is("when")
  /\ LET true == {i \in DOMAIN filter.expressions : Evaluates(filter.expressions[i]) # "false"}
         first == CHOOSE i \in true : \A j \in true : i <= j
     IN Ends(IF true = {} \/ ~Holds(filter.expressions[first]) THEN <<>> ELSE <<To(first - 1, event)>>)
\* The port of the first expression that is true; one that fails is passed over.
When ==
  /\ Is("when")
  /\ LET true == {i \in DOMAIN filter.expressions : Holds(filter.expressions[i])}
     IN Ends(IF true = {} THEN <<>> ELSE <<To((CHOOSE i \in true : \A j \in true : i <= j) - 1, event)>>)
-----------------------------------------------------------------------------
\* parse; the prefix and trim_value are put on the value.
Included(key) == IF filter.include # {} THEN key \in filter.include ELSE key \notin filter.exclude
\* Mutant: a duplicate is only looked for at the end.
KvPair_Last(kv, pair) ==
  IF ~Included(pair[1]) THEN kv
  ELSE IF pair[1] \notin DOMAIN kv THEN (pair[1] :> <<pair[2]>>) @@ kv
  ELSE IF ~filter.duplicates /\ pair[2] = Last(kv[pair[1]]) THEN kv
  ELSE [kv EXCEPT ![pair[1]] = Append(@, pair[2])]
KvPair(kv, pair) ==
  IF ~Included(pair[1]) THEN kv
  ELSE IF pair[1] \notin DOMAIN kv THEN (pair[1] :> <<pair[2]>>) @@ kv
  ELSE IF ~filter.duplicates /\ pair[2] \in ToSet(kv[pair[1]]) THEN kv
  ELSE [kv EXCEPT ![pair[1]] = Append(@, pair[2])]
PairsOf(v) ==
  LET texts == CASE First(v).is = "text" -> First(v).of [] First(v).is = "strings" -> v.of [] OTHER -> <<>>
  IN FlattenSeq([i \in DOMAIN texts |-> Pairs[texts[i]]])
Parsed(kv, pairs) == FoldLeft(KvPair, kv, pairs)
\* One value is a text, more are strings; the default keys come with parsed ones.
Kv ==
  /\ Is("kv")
  /\ LET kv == Parsed(<<>>, PairsOf(Value(filter.field)))
         parsed == Set(event, [k \in DOMAIN kv |-> [is |-> IF Len(kv[k]) = 1 THEN "text" ELSE "strings", of |-> kv[k]]])
         missing == {k \in filter.defaults : k \notin DOMAIN parsed.fields}
     IN Ends(<<To(0, IF kv = <<>> THEN event ELSE Common(Set(parsed, [k \in missing |-> Text("default")])))>>)
-----------------------------------------------------------------------------
\* grok: the fields of match in any order, the patterns of each in theirs.
GrokBegins == Is("grok") /\ todo' = DOMAIN filter.match /\ at' = "range" /\ UNCHANGED <<filter, came, event, met, sent>>
\* The next pattern of a field, on what those before left of it.
Grokked(f) ==
  LET Pattern(acc, p) ==
        IF (filter.break /\ acc.met) \/ TextIn(acc.fields, f) \notin DOMAIN Captures[p] THEN acc
        ELSE [fields |-> Captures[p][TextIn(acc.fields, f)] @@ acc.fields, met |-> TRUE]
  IN FoldLeft(Pattern, [fields |-> event.fields, met |-> FALSE], filter.match[f])
\* Mutant: the next field is tried although one matched.
GrokField_All(f) ==
  /\ filter.kind = "grok" /\ at = "range" /\ f \in todo
  /\ todo' = todo \ {f}
  /\ event' = [event EXCEPT !.fields = Grokked(f).fields] /\ met' = (met \/ Grokked(f).met)
  /\ UNCHANGED <<filter, came, sent, at>>
GrokField(f) ==
  /\ filter.kind = "grok" /\ at = "range" /\ f \in todo /\ ~(filter.break /\ met)
  /\ todo' = todo \ {f}
  /\ event' = [event EXCEPT !.fields = Grokked(f).fields] /\ met' = (met \/ Grokked(f).met)
  /\ UNCHANGED <<filter, came, sent, at>>
GrokEnds ==
  /\ filter.kind = "grok" /\ at = "range" /\ (todo = {} \/ (filter.break /\ met))
  /\ Ends(<<To(0, IF met THEN Common(event) ELSE Failure(event))>>)

\* eval: templates, then expressions, each in any order; an entry reads a field
\* and sets the one it is named for.
EvalBegins ==
  /\ Is("eval") /\ todo' = DOMAIN filter.templates /\ at' = "templates"
  /\ UNCHANGED <<filter, came, event, met, sent>>
EvalTemplate(f) ==
  /\ at = "templates" /\ f \in todo
  /\ IF Evaluates(filter.templates[f]) = "error" THEN Ends(<<>>)
     ELSE /\ event' = Set(event, (f :> Text(Evaluates(filter.templates[f]))))
          /\ todo' = todo \ {f}
          /\ UNCHANGED <<filter, came, met, sent, at>>
EvalTemplated ==
  /\ at = "templates" /\ todo = {}
  /\ todo' = DOMAIN filter.expressions /\ at' = "range"
  /\ UNCHANGED <<filter, came, event, met, sent>>
EvalExpression(f) ==
  /\ filter.kind = "eval" /\ at = "range" /\ f \in todo
  /\ LET value == Evaluates(filter.expressions[f]) IN
     IF value = "error" THEN met' = TRUE /\ UNCHANGED event
     ELSE event' = Set(event, (f :> Text(value))) /\ UNCHANGED met
  /\ todo' = todo \ {f}
  /\ UNCHANGED <<filter, came, sent, at>>
\* Mutant: the common options are applied whatever failed.
EvalEnds_Always == filter.kind = "eval" /\ at = "range" /\ todo = {} /\ Ends(<<To(0, Common(event))>>)
EvalEnds == filter.kind = "eval" /\ at = "range" /\ todo = {} /\ Ends(<<To(0, IF met THEN event ELSE Common(event))>>)

FINext ==
  \/ Date \/ Json \/ Split \/ Exec \/ Template \/ Html \/ Uuid \/ Drop \/ Blacklist \/ Whitelist
  \/ Route \/ When \/ Kv \/ GrokBegins \/ GrokEnds \/ EvalBegins \/ EvalTemplated \/ EvalEnds
  \/ \E f \in todo : GrokField(f) \/ EvalTemplate(f) \/ EvalExpression(f)
FISpec == FIInit /\ [][FINext]_fiVars
-----------------------------------------------------------------------------
FITypeOK ==
  /\ filter \in Filters /\ came \in Events
  /\ event.common = 0 /\ event.failed = 0 /\ \A f \in DOMAIN event.fields : event.fields[f].is \in {"text", "list", "strings", "object", "missing"}
  /\ met \in BOOLEAN /\ at \in {"receive", "templates", "range", "done", "panic", "stuck"}
  /\ \A i \in DOMAIN sent : sent[i].port \in 0..2

\* What is sent is marked as done or as failed, never twice; it is as it came
\* unless it is marked as done, or some of eval's expressions failed, not all.
MarkedByOutcome ==
  \A i \in DOMAIN sent :
    LET e == sent[i].event IN
    /\ e.common + e.failed <= 1
    /\ e.fields # came /\ e.common = 0 => filter.kind = "eval" /\ met
    /\ e.common = 1 /\ filter.kind = "eval" => \A f \in DOMAIN filter.expressions : f \in DOMAIN e.fields
    /\ e.common = 0 /\ e.failed = 0 => filter.kind \in {"eval", "kv", "split", "uuid", "when"}

\* The values of a key are those of its pairs in their order, each once if so
\* configured; no other key comes with them but the defaults that were missing.
KvOfPairs ==
  filter.kind = "kv" /\ at = "done" =>
    LET pairs == PairsOf(ValueIn(came, filter.field))
        Of(k) == [i \in DOMAIN SelectSeq(pairs, LAMBDA p : p[1] = k) |-> SelectSeq(pairs, LAMBDA p : p[1] = k)[i][2]]
        Once(s) == FoldLeft(LAMBDA r, v : IF v \in ToSet(r) THEN r ELSE Append(r, v), <<>>, s)
        keys == {k \in {pairs[i][1] : i \in DOMAIN pairs} : Included(k)}
        fields == sent[1].event.fields
    IN /\ \A k \in keys : fields[k].of = IF filter.duplicates THEN Of(k) ELSE Once(Of(k))
       /\ \A f \in DOMAIN came \ keys : fields[f] = came[f]
       /\ DOMAIN fields = DOMAIN came \cup keys \cup (IF keys = {} THEN {} ELSE filter.defaults)

\* In whatever order the patterns and the expressions are taken: a break on
\* match leaves the captures of one pattern, the first of its field to match;
\* entries of which none reads what another sets are evaluated on the event as
\* it came.
GrokBreaks ==
  filter.kind = "grok" /\ filter.break /\ at = "done" =>
    LET Firsts(f) == {i \in DOMAIN filter.match[f] : TextIn(came, f) \in DOMAIN Captures[filter.match[f][i]] /\
                        \A j \in 1..i - 1 : TextIn(came, f) \notin DOMAIN Captures[filter.match[f][j]]}
    IN IF \A f \in DOMAIN filter.match : Firsts(f) = {} THEN sent[1].event.failed = 1
       ELSE \E f \in DOMAIN filter.match : \E i \in Firsts(f) :
              sent[1].event.fields = Captures[filter.match[f][i]][TextIn(came, f)] @@ came
EvalAsCame ==
  filter.kind = "eval" /\ at = "done" /\ sent # <<>> =>
    LET entries == {<<f, filter.templates[f]>> : f \in DOMAIN filter.templates} \cup {<<f, filter.expressions[f]>> : f \in DOMAIN filter.expressions}
        ValueOf(x) == Evaluated[x.is][TextIn(came, x.reads)]
    IN (\A x, y \in entries : x # y => x[2].reads # y[1] /\ x[1] # y[1]) =>
         \A x \in entries :
           IF ValueOf(x[2]) # "error" THEN sent[1].event.fields[x[1]] = Text(ValueOf(x[2]))
           ELSE sent[1].event.common = 0 /\ (x[1] \in DOMAIN came => sent[1].event.fields[x[1]] = came[x[1]])

\* when sends an event at most once, to the port of its first true expression
\* whatever the others are; route sends it once, and twice only when it forks:
\* what goes to the next processor went to the branch before.
RoutedOnce ==
  /\ filter.kind = "when" /\ at = "done" =>
       LET Port(i) == i \in DOMAIN filter.expressions /\ Evaluated[filter.expressions[i].is][TextIn(came, filter.expressions[i].reads)] \notin {"false", "error"}
       IN IF sent = <<>> THEN \A i \in DOMAIN filter.expressions : ~Port(i)
          ELSE Len(sent) = 1 /\ Port(sent[1].port + 1) /\ \A i \in 1..sent[1].port : ~Port(i)
  /\ filter.kind = "route" /\ Len(sent) > 1 => filter.fork /\ sent[1].port = 1 /\ sent[2] = To(0, sent[1].event) /\ Len(sent) = 2
=============================================================================
