---------------------------- MODULE MutateFilter -----------------------------
(***************************************************************************)
(* mutate, and the tags of events.                                         *)
(***************************************************************************)
EXTENDS Integers, SequencesExt

(***************************************************************************)
(* The mutate filter (processors/filter-mutate/mutate.go): Receive applies *)
(* the options one after the other, each entry by entry; the entries of a  *)
(* map come in any order.  A value is a text, by its words between         *)
(* separators, an integer, or a list of these; what the options do to the  *)
(* letters of a word is left out.  Paths are a library's (clbanning/mxj):  *)
(* one finds the elements of a list in its place.                          *)
(***************************************************************************)
CONSTANTS
  Events,  \* functions from fields to values
  Options  \* functions from some options to sequences of [field, to]

VARIABLES
  event,   \* the fields
  option,  \* the options; the how-manieth is applied; the entries of it that are left
  before   \* history: the event as it came
muVars == <<event, option, before>>

\* In the order of Receive; those of Maps are maps.
Order == <<"add_field", "update", "replace", "remove_field", "rename", "uppercase", "lowercase",
           "remove_all_but", "convert", "join", "gsub", "split", "strip", "merge">>
Maps == {"add_field", "update", "replace", "rename", "convert", "join", "split", "merge"}
Words(ws) == [is |-> "text", of |-> ws]
Integer == [is |-> "integer", of |-> <<"1">>]  \* the number of the word "1"
List(values) == [is |-> "list", of |-> values]
Given(o, name) == IF name \in DOMAIN o THEN o[name] ELSE <<>>
MUInit ==
  /\ event \in Events /\ before = event
  /\ \E o \in Options : option = [all |-> o, nr |-> 1, left |-> Given(o, Order[1])]
-----------------------------------------------------------------------------
\* ValuesForPath; Exists.
Found(f) == IF f \notin DOMAIN event THEN <<>> ELSE IF event[f].is = "list" THEN event[f].of ELSE <<event[f]>>
Exists(f) == Found(f) # <<>>
IsText(f) == Exists(f) /\ Found(f)[1].is = "text"
SetTo(f, v) == [x \in DOMAIN event \cup {f} |-> IF x = f THEN v ELSE event[x]]

AddField(e) == IF Exists(e.field) THEN event ELSE SetTo(e.field, Words(<<e.to>>))
UpdateField(e) == IF Exists(e.field) THEN SetTo(e.field, Words(<<e.to>>)) ELSE event
RemoveField(e) == [x \in DOMAIN event \ {e.field} |-> event[x]]
\* A name that is taken at the first level is lost: RenameKey looks for it below "".
RenameField(e) ==
  IF Exists(e.field) THEN [x \in (DOMAIN event \cup {e.to}) \ {e.field} |-> IF x = e.to THEN event[e.field] ELSE event[x]] ELSE event
\* uppercase, lowercase, gsub, strip: of a list, the first element takes its place.
Rewrite(e) == IF IsText(e.field) THEN SetTo(e.field, Found(e.field)[1]) ELSE event
\* convertValue, or the value if it cannot be converted; here too a list of one is
\* replaced by its element.
Converted(v, kind) ==
  CASE v = Words(<<"1">>) /\ kind = "integer" -> Integer
    [] v = Integer /\ kind = "string" -> Words(<<"1">>)
    [] OTHER -> v
ConvertField(e) ==
  LET all == [i \in DOMAIN Found(e.field) |-> Converted(Found(e.field)[i], e.to)] IN
  CASE Len(all) > 1 -> SetTo(e.field, List(all))
    [] Len(all) = 1 -> SetTo(e.field, all[1])
    [] OTHER -> event
JoinField(e) ==
  IF Exists(e.field) THEN SetTo(e.field, Words(FlattenSeq([i \in DOMAIN Found(e.field) |-> Found(e.field)[i].of]))) ELSE event
\* What is not a text is split as "".
SplitField(e) ==
  LET words == IF IsText(e.field) THEN Found(e.field)[1].of ELSE <<"">> IN
  IF Exists(e.field) THEN SetTo(e.field, List([i \in DOMAIN words |-> Words(<<words[i]>>)])) ELSE event
\* Mutant: the source's values replace those of the destination.
MergeField_Replaces(e) ==
  IF Exists(e.field) /\ Exists(e.to) THEN SetTo(e.field, List(Found(e.to))) ELSE event
\* The destination's values, then the source's, each once.
MergeField(e) ==
  LET all == Found(e.field) \o Found(e.to)
      firsts == SelectSeq([i \in DOMAIN all |-> i], LAMBDA i : \A j \in 1..i-1 : all[j] # all[i])
  IN IF Exists(e.field) /\ Exists(e.to) THEN SetTo(e.field, List([k \in DOMAIN firsts |-> all[firsts[k]]])) ELSE event

Current == Order[option.nr]
Applied(e) ==
  CASE Current = "add_field" -> AddField(e)
    [] Current \in {"update", "replace"} -> UpdateField(e)
    [] Current = "remove_field" -> RemoveField(e)
    [] Current = "rename" -> RenameField(e)
    [] Current \in {"uppercase", "lowercase", "gsub", "strip"} -> Rewrite(e)
    [] Current = "convert" -> ConvertField(e)
    [] Current = "join" -> JoinField(e)
    [] Current = "split" -> SplitField(e)
    [] Current = "merge" -> MergeField(e)
Applying == option.nr <= Len(Order) /\ option.left # <<>>
ApplyEntry ==
  /\ Applying /\ Current # "remove_all_but"
  /\ \E i \in (IF Current \in Maps THEN DOMAIN option.left ELSE {1}) :
       event' = Applied(option.left[i]) /\ option' = [option EXCEPT !.left = RemoveAt(@, i)]
  /\ UNCHANGED before
\* ValueForPath, of a list its first element, into a new event.
RemoveAllBut ==
  /\ Applying /\ Current = "remove_all_but"
  /\ event' = [f \in {e.field : e \in ToSet(option.left)} \cap {x \in DOMAIN event : Exists(x)} |-> Found(f)[1]]
  /\ option' = [option EXCEPT !.left = <<>>] /\ UNCHANGED before
NextOption ==
  /\ option.nr <= Len(Order) /\ option.left = <<>>
  /\ option' = [option EXCEPT !.nr = @ + 1, !.left = IF option.nr < Len(Order) THEN Given(option.all, Order[option.nr + 1]) ELSE <<>>]
  /\ UNCHANGED <<event, before>>
MUNext == ApplyEntry \/ RemoveAllBut \/ NextOption
MUSpec == MUInit /\ [][MUNext]_muVars
-----------------------------------------------------------------------------
IsValue(v) == v.is \in {"text", "integer"} \/ (v.is = "list" /\ \A i \in DOMAIN v.of : v.of[i].is \in {"text", "integer"})
MUTypeOK == option.nr \in 1..Len(Order)+1 /\ \A f \in DOMAIN event : IsValue(event[f])

Received == option.nr > Len(Order)
Entries(name) == ToSet(Given(option.all, name))
Fields(names) == UNION {{e.field : e \in Entries(n)} : n \in names}
WordsIn(v) == UNION {ToSet(x.of) : x \in IF v.is = "list" THEN ToSet(v.of) ELSE {v}}
Home(f) == IF f \in Fields({"rename"}) THEN (CHOOSE e \in Entries("rename") : e.field = f).to ELSE f
\* What the configuration says is to go, or is known to lose words: a name that is
\* taken, an option for texts that meets a list, a split that meets an integer.
GivenUp(f) ==
  \/ f \in Fields({"update", "replace", "remove_field"}) \cup {e.to : e \in Entries("rename")}
  \/ Fields({"remove_all_but"}) # {} /\ Home(f) \notin Fields({"remove_all_but"})
  \/ /\ before[f].is = "list"
     /\ Home(f) \in Fields({"uppercase", "lowercase", "remove_all_but"}) \cup (Fields({"gsub", "split", "strip"}) \ Fields({"join"}))
  \/ /\ Home(f) \in Fields({"split"}) \ Fields({"join"})
     /\ before[f].is = "integer" \/ Home(f) \in Fields({"convert"})
  \/ /\ Home(f) \in Fields({"split"}) /\ Home(f) \in Fields({"strip"})
\* In whatever order the entries of the maps come, no word of a field is lost but
\* those given up, and what is merged into a field is found there.
WordsKept ==
  Received =>
    /\ \A f \in DOMAIN before : GivenUp(f) \/ before[f].of = <<>> \/ (Exists(Home(f)) /\ WordsIn(before[f]) \subseteq WordsIn(event[Home(f)]))
    /\ \A e \in Entries("merge") :
         Exists(e.field) /\ Exists(e.to) /\ e.to \notin Fields({"merge"}) => WordsIn(event[e.to]) \subseteq WordsIn(event[e.field])
-----------------------------------------------------------------------------
(***************************************************************************)
(* The tags of an event (processors/field.go), as the common options and   *)
(* mutate add and remove them.  RemoveTags ranges over the slice while it  *)
(* moves the elements of the same memory: the range has the slice's first  *)
(* length, and reads what is there by then.                                *)
(***************************************************************************)
CONSTANTS
  Tagged,    \* the tags of events as they come: what they are, "none", "text", "list"
             \* (decoded), "strings" (added by a filter), and their names
  Additions, \* add_tag
  Removals   \* remove_tag, no name twice

VARIABLES
  slice,   \* what the tags are; the memory; how much of it they are
  todo,    \* the options
  ranging, \* RemoveTags: at "add" (before it), "assert", "range", "done" or "panics"; the index
  came     \* history: the tags before they are added to; when all are there
tagVars == <<slice, todo, ranging, came>>

Slice(is, names) == [is |-> is, mem |-> names, len |-> Len(names)]
Tags == SubSeq(slice.mem, 1, slice.len)
ETInit ==
  /\ slice \in {Slice(t.is, t.names) : t \in Tagged} /\ came = <<slice>>
  /\ todo \in [add : Additions, remove : Removals] /\ ranging = [at |-> "add", i |-> 1]
-----------------------------------------------------------------------------
\* Of a decoded list, ValueForPath gives the first element.
CurrentTags == IF slice.is = "list" THEN <<Head(slice.mem)>> ELSE slice.mem
\* Mutant: a tag that is there is added again.
AddTags_Again ==
  /\ ranging.at = "add" /\ ranging' = [ranging EXCEPT !.at = "assert"]
  /\ slice' = IF todo.add = <<>> THEN slice ELSE Slice("strings", CurrentTags \o todo.add)
  /\ came' = Append(came, slice') /\ UNCHANGED todo
AddTags ==
  /\ ranging.at = "add" /\ ranging' = [ranging EXCEPT !.at = "assert"]
  /\ slice' = IF todo.add = <<>> THEN slice
              ELSE Slice("strings", CurrentTags \o SelectSeq(todo.add, LAMBDA t : t \notin ToSet(CurrentTags)))
  /\ came' = Append(came, slice') /\ UNCHANGED todo
\* RemoveTags; the type assertion panics.
RemoveTags ==
  /\ ranging.at = "assert"
  /\ ranging' = [ranging EXCEPT !.at = CASE todo.remove = <<>> \/ slice.is = "none" -> "done"
                  [] slice.is = "strings" -> "range"
                  [] OTHER -> "panics"]
  /\ UNCHANGED <<slice, todo, came>>
\* append(ct[:i], ct[i+1:]...)
Deleted(i) ==
  [slice EXCEPT !.mem = [j \in DOMAIN @ |-> IF j \in i..slice.len-1 THEN @[j+1] ELSE @[j]], !.len = @ - 1]
RangeOver(next) ==
  LET i == ranging.i  hit == slice.mem[i] \in ToSet(todo.remove) IN
  /\ ranging.at = "range"
  /\ IF hit /\ i > slice.len THEN ranging' = [ranging EXCEPT !.at = "panics"] /\ UNCHANGED slice
     ELSE /\ slice' = IF hit THEN next ELSE slice
          /\ ranging' = IF i = Len(slice.mem) THEN [ranging EXCEPT !.at = "done"] ELSE [ranging EXCEPT !.i = i + 1]
  /\ UNCHANGED <<todo, came>>
\* Mutant: the last element is deleted in its place.
RangeTag_Last == RangeOver(Deleted(slice.len))
RangeTag == RangeOver(Deleted(ranging.i))
ETNext == AddTags \/ RemoveTags \/ RangeTag
ETSpec == ETInit /\ [][ETNext]_tagVars
-----------------------------------------------------------------------------
ETTypeOK == ranging.i \in 1..Len(slice.mem)+1 /\ slice.is \in {"none", "text", "list", "strings"} /\ slice.len \in 0..Len(slice.mem) /\ Len(came) \in 1..2

Without(names) == SelectSeq(names, LAMBDA t : t \notin ToSet(todo.remove))
\* The tags that an event has, but those of a decoded list after the first, stay in
\* their order with the added ones after them, each once if it was.  Of these at
\* most one may be removed; then it is, alone.  With two, others stay in their
\* order, if RemoveTags does not panic.
TagsAsConfigured ==
  Len(came) = 2 =>
    LET old == came[1].mem  all == came[2].mem
        some == \E i \in DOMAIN all : all[i] \in ToSet(todo.remove)
        two == \E i, j \in DOMAIN all : i < j /\ {all[i], all[j]} \subseteq ToSet(todo.remove)
    IN /\ came[1].is # "list" \/ todo.add = <<>> => old = SubSeq(all, 1, Len(old))
       /\ ToSet(todo.add) \subseteq ToSet(all)
       /\ IsInjective(old) /\ IsInjective(todo.add) => IsInjective(all)
       /\ ranging.at = "done" => Without(Tags) = Without(all) /\ (~two /\ came[2].is = "strings" => Tags = Without(all))
       /\ ranging.at = "panics" => two \/ came[2].is \in {"text", "list"}
=============================================================================
