----------------------------- MODULE Locations ------------------------------
(***************************************************************************)
(* How `bitfan run` finds its configurations, the files they use and the   *)
(* templates of their agents (entrypoint/entrypoint.go, commons/           *)
(* location.go, cmd/bitfan/commands/run.go).  A path is a sequence of      *)
(* names; a reference is what an argument or an option holds: a path, or   *)
(* text that is no path.  Of a text only what is resolved is kept: its     *)
(* uses, its templates, its ${NAME:default} holes.                         *)
(***************************************************************************)
EXTENDS Integers, SequencesExt

Absent == [kind |-> "absent", text |-> <<>>]
Directory == [kind |-> "dir", text |-> <<>>]
File(text) == [kind |-> "file", text |-> text]
\* form: "url", "abs", "rel", or "dot" for a relative one that begins with ./
Ref(form, path) == [form |-> form, path |-> path, text |-> <<[kind |-> "junk"]>>]
PlainText(text) == [form |-> "rel", path |-> <<"no such name">>, text |-> text]
Word == [kind |-> "word"]
UseOf(ref, var) == [kind |-> "use", ref |-> ref, var |-> var]
TemplateOf(ref, var) == [kind |-> "template", ref |-> ref, var |-> var]
Hole(name, default) == [kind |-> "hole", name |-> name, default |-> default]
IsUse(t) == t.kind = "use"
IsTemplate(t) == t.kind = "template"
IsHole(t) == t.kind = "hole"
NoVar == <<>>

CONSTANTS
  Here,       \* the process's working directory
  Trees,      \* file systems: paths -> nodes
  Paths,      \* the paths of Trees
  ConfPaths,  \* those of them with the extension .conf
  Web,        \* what is served: paths -> texts
  Env,        \* the environment: names -> texts
  Arguments,  \* command lines
  MaxEdits,   \* bound: files that come or go meanwhile
  MaxDepth    \* bound: files that use each other

VARIABLES
  tree,    \* the file system
  given,   \* the arguments
  listed,  \* how many of them are in the list of entrypoints
  items,   \* the entrypoints not started yet
  stack,   \* the files being built, the last on top: index in opened, uses left
  agents,  \* agents with a template, not configured yet
  opened,  \* every text that was read, and for what
  started, \* the entrypoints whose pipeline is started
  run,     \* "list", "build", "start", "running", "fatal"
  edits
loVars == <<tree, given, listed, items, stack, agents, opened, started, run, edits>>
-----------------------------------------------------------------------------
InFs(path, full, cwl) == [kind |-> "fs", path |-> path, full |-> full, cwl |-> cwl, text |-> <<>>]
OnWeb(path, cwl) == [kind |-> "url", path |-> path, full |-> path, cwl |-> cwl, text |-> <<>>]
Inline(text, cwl) == [kind |-> "inline", path |-> <<>>, full |-> <<>>, cwl |-> cwl, text |-> text]
NotFound == [kind |-> "none"]

\* os.Stat, filepath.Abs, filepath.Join; a working location is a directory or
\* the address of one.
There(p) == p \in Paths /\ tree[p].kind # "absent"
FromHere(ref) == IF ref.form = "abs" THEN ref.path ELSE Here \o ref.path
Beside(cwl, ref) == cwl.path \o ref.path
Dir(path) == [url |-> FALSE, path |-> path]
\* Mutant: the working location first.
New_BesideFirst(ref, cwl) ==
  IF ref.form = "url" THEN OnWeb(ref.path, cwl)
  ELSE IF ~cwl.url /\ There(Beside(cwl, ref)) THEN InFs(FromHere(ref), Beside(cwl, ref), cwl)
  ELSE IF There(FromHere(ref)) THEN InFs(FromHere(ref), FromHere(ref), cwl)
  ELSE IF cwl.url THEN OnWeb(Beside(cwl, ref), cwl) ELSE NotFound
\* entrypoint.New(ref, cwl, CONTENT_REF).
New(ref, cwl) ==
  IF ref.form = "url" THEN OnWeb(ref.path, cwl)
  ELSE IF There(FromHere(ref)) THEN InFs(FromHere(ref), FromHere(ref), cwl)
  ELSE IF ~cwl.url /\ There(Beside(cwl, ref)) THEN InFs(FromHere(ref), Beside(cwl, ref), cwl)
  ELSE IF cwl.url THEN OnWeb(Beside(cwl, ref), cwl) ELSE NotFound
\* commons.NewLocation: what is no location is the text itself.
NewLocation(ref, cwl) ==
  IF New(ref, cwl) = NotFound \/ (New(ref, cwl).kind = "url" /\ ref.form \in {"abs", "rel"})
  THEN Inline(ref.text, cwl) ELSE New(ref, cwl)

\* expandFilePath.
Expanded(path) ==
  IF tree[path].kind = "file" THEN <<path>>
  ELSE SetToSeq({p \in ConfPaths : There(p) /\ Front(p) = path})
\* AddEntrypoint: the entrypoint, or one for each of several files, whose
\* FullPath is not set.
AddEntrypoint(loc) ==
  IF loc.kind # "fs" THEN <<loc>>
  ELSE IF ~There(loc.path) THEN <<>>
  ELSE IF Len(Expanded(loc.path)) = 1 THEN <<loc>>
  ELSE [i \in DOMAIN Expanded(loc.path) |-> InFs(Expanded(loc.path)[i], <<>>, loc.cwl)]
-----------------------------------------------------------------------------
\* Each hole of the text in turn is replaced wherever it then is.
Replace(text, hole, by) == FlattenSeq([i \in DOMAIN text |-> IF text[i] = hole THEN by ELSE <<text[i]>>])
\* Mutant: the environment before var.
Value_EnvFirst(hole, var) ==
  IF hole.name \in DOMAIN Env THEN Env[hole.name] ELSE IF hole.name \in DOMAIN var THEN var[hole.name] ELSE hole.default
Value(hole, var) ==
  IF hole.name \in DOMAIN var THEN var[hole.name] ELSE IF hole.name \in DOMAIN Env THEN Env[hole.name] ELSE hole.default
Substituted(text, var) ==
  FoldLeft(LAMBDA t, hole : Replace(t, hole, Value(hole, var)), text, SelectSeq(text, IsHole))

\* content, ContentWithOptions: the text of a location, whatever status it was
\* served with; a directory, or a path that is not set, cannot be read.
Readable(loc) == loc.kind = "fs" => There(loc.full) /\ tree[loc.full].kind = "file"
Served(path) == IF path \in DOMAIN Web THEN Web[path] ELSE <<[kind |-> "junk"]>>
Raw(loc) == CASE loc.kind = "inline" -> loc.text [] loc.kind = "url" -> Served(loc.full) [] loc.kind = "fs" -> tree[loc.full].text
\* Mutant: the working location stays that of the file that uses it.
ContentDir_Same(loc) == loc.cwl
ContentDir(loc) == IF loc.kind = "inline" THEN loc.cwl ELSE [url |-> loc.kind = "url", path |-> Front(loc.full)]

\* What is read, for which reference, named by which of the texts before.
Opening(ref, loc, by, var) ==
  [ref |-> ref, kind |-> loc.kind, full |-> loc.full, by |-> by, var |-> var, cwl |-> ContentDir(loc),
   raw |-> Raw(loc), text |-> Substituted(Raw(loc), var)]
Parsed(text) == \A i \in DOMAIN text : text[i].kind # "junk"
Fatal == run' = "fatal"
-----------------------------------------------------------------------------
LOInit ==
  /\ tree \in Trees /\ given \in Arguments /\ listed = 0
  /\ items = <<>> /\ stack = <<>> /\ agents = <<>> /\ opened = <<>> /\ started = <<>>
  /\ run = "list" /\ edits = 0

\* An argument that is no location is a configuration; an error of AddEntrypoint
\* is ignored.
ListArgument ==
  /\ run = "list" /\ listed < Len(given)
  /\ LET ref == given[listed + 1]
         loc == New(ref, Dir(Here))
         ep == IF loc = NotFound THEN Inline(ref.text, Dir(Here)) ELSE loc
     IN items' = items \o [i \in DOMAIN AddEntrypoint(ep) |-> [loc |-> AddEntrypoint(ep)[i], for |-> listed + 1]]
  /\ listed' = listed + 1
  /\ UNCHANGED <<tree, given, stack, agents, opened, started, run, edits>>
AllListed ==
  /\ run = "list" /\ listed = Len(given)
  /\ run' = "build"
  /\ UNCHANGED <<tree, given, listed, items, stack, agents, opened, started, edits>>

\* content and the parser; the agents with templates are configured when the
\* pipeline starts, in the working location of their text.
Build(ref, loc, by, var, below) ==
  IF ~Readable(loc) THEN Fatal /\ UNCHANGED <<stack, agents, opened>>
  ELSE LET o == Opening(ref, loc, by, var) IN
    /\ opened' = Append(opened, o)
    /\ IF ~Parsed(o.text) THEN Fatal /\ UNCHANGED <<stack, agents>>
       ELSE /\ stack' = Append(below, [text |-> Len(opened) + 1, uses |-> SelectSeq(o.text, IsUse)])
            /\ agents' = agents \o [i \in DOMAIN SelectSeq(o.text, IsTemplate) |->
                                     [template |-> SelectSeq(o.text, IsTemplate)[i], by |-> Len(opened) + 1]]
            /\ UNCHANGED run

\* Entrypoint.Pipeline, of the next in the list.
BuildNext ==
  /\ run = "build" /\ stack = <<>> /\ items # <<>>
  /\ Build(given[Head(items).for], Head(items).loc, 0, NoVar, <<>>)
  /\ UNCHANGED <<tree, given, listed, items, started, edits>>
\* parseConfigLocation, entrypointContent.
BuildUsed ==
  /\ run = "build" /\ stack # <<>> /\ Last(stack).uses # <<>> /\ Len(stack) < MaxDepth
  /\ LET use == Head(Last(stack).uses)
         loc == New(use.ref, opened[Last(stack).text].cwl)
         below == Append(Front(stack), [Last(stack) EXCEPT !.uses = Tail(@)])
     IN IF loc = NotFound THEN Fatal /\ UNCHANGED <<stack, agents, opened>>
        ELSE Build(use.ref, loc, Last(stack).text, use.var, below)
  /\ UNCHANGED <<tree, given, listed, items, started, edits>>
Built ==
  /\ run = "build" /\ stack # <<>> /\ Last(stack).uses = <<>>
  /\ stack' = Front(stack)
  /\ run' = IF Len(stack) = 1 THEN "start" ELSE "build"
  /\ UNCHANGED <<tree, given, listed, items, agents, opened, started, edits>>

\* Configure, in core.Pipeline.Start: the template is read, or is the option itself.
ConfigureAgent ==
  /\ run = "start" /\ agents # <<>>
  /\ LET a == Head(agents)
         loc == NewLocation(a.template.ref, opened[a.by].cwl)
     IN IF Readable(loc) THEN opened' = Append(opened, Opening(a.template.ref, loc, a.by, a.template.var)) /\ UNCHANGED run
                         ELSE Fatal /\ UNCHANGED opened
  /\ agents' = Tail(agents)
  /\ UNCHANGED <<tree, given, listed, items, stack, started, edits>>
StartPipeline ==
  /\ run = "start" /\ agents = <<>>
  /\ started' = Append(started, Head(items).for) /\ items' = Tail(items)
  /\ run' = "build"
  /\ UNCHANGED <<tree, given, listed, stack, agents, opened, edits>>
Running ==
  /\ run = "build" /\ stack = <<>> /\ items = <<>>
  /\ run' = "running"
  /\ UNCHANGED <<tree, given, listed, items, stack, agents, opened, started, edits>>

\* External: a file is written or removed meanwhile.
EditFile ==
  /\ edits < MaxEdits /\ run \notin {"running", "fatal"}
  /\ \E p \in ConfPaths : \E node \in {Absent, File(<<Word>>)} : tree[p] # node /\ tree' = [tree EXCEPT ![p] = node]
  /\ edits' = edits + 1
  /\ UNCHANGED <<given, listed, items, stack, agents, opened, started, run>>

LONext ==
  \/ ListArgument \/ AllListed \/ BuildNext \/ BuildUsed \/ Built
  \/ ConfigureAgent \/ StartPipeline \/ Running \/ EditFile
LOSpec == LOInit /\ [][LONext]_loVars
-----------------------------------------------------------------------------
LOTypeOK ==
  /\ tree \in [Paths -> {Absent, Directory} \cup {File(tree[p].text) : p \in Paths}] /\ listed \in 0..Len(given)
  /\ \A i \in DOMAIN items : items[i].for \in 1..listed
  /\ Len(stack) <= MaxDepth /\ \A i \in DOMAIN stack : stack[i].text \in DOMAIN opened
  /\ \A i \in DOMAIN opened : opened[i].kind \in {"fs", "url", "inline"} /\ opened[i].by \in 0..i - 1
  /\ run \in {"list", "build", "start", "running", "fatal"} /\ edits \in 0..MaxEdits

\* A relative reference is looked for in the process's own directory, then next
\* to the file that holds it, however deep that file is used; a file is never
\* read for a text, and a text is only taken as itself when there is no file.
ResolvedBeside ==
  edits = 0 =>
    \A i \in DOMAIN opened :
      LET o == opened[i]
          holder == IF o.by = 0 \/ opened[o.by].kind = "inline" THEN Here ELSE Front(opened[o.by].full) IN
      o.ref.form \in {"rel", "dot"} =>
        /\ o.kind = "fs" /\ There(Here \o o.ref.path) => o.full = Here \o o.ref.path
        /\ o.kind # "inline" /\ ~There(Here \o o.ref.path) => o.full = holder \o o.ref.path
        /\ o.kind # "fs" => ~There(Here \o o.ref.path)
        /\ o.kind = "inline" => ~There(holder \o o.ref.path) \/ (o.by # 0 /\ opened[o.by].kind = "url")

\* In what is read every hole has the value of var, else of the environment,
\* else its default, when no value brings a hole of the text with it.
HolesFilled ==
  \A i \in DOMAIN opened :
    LET o == opened[i]
        Meant(t) == IF ~IsHole(t) THEN <<t>>
                    ELSE IF t.name \in DOMAIN o.var THEN o.var[t.name]
                    ELSE IF t.name \in DOMAIN Env THEN Env[t.name] ELSE t.default
        holes == {t \in ToSet(o.raw) : IsHole(t)}
    IN (\A t \in holes : holes \cap ToSet(Meant(t)) = {}) => o.text = FlattenSeq([k \in DOMAIN o.raw |-> Meant(o.raw[k])])

\* When the program is running every argument was started, once and in order,
\* but the directories without a .conf; with a directory that has some, it never
\* runs: the entrypoints made of one cannot be read.
ArgumentsStarted ==
  edits = 0 /\ run = "running" =>
    LET Folder(k) == given[k].form # "url" /\ There(FromHere(given[k])) /\ tree[FromHere(given[k])].kind = "dir" IN
    /\ started = SelectSeq([k \in DOMAIN given |-> k], LAMBDA k : ~Folder(k))
    /\ \A k \in DOMAIN given : Folder(k) => Expanded(FromHere(given[k])) = <<>>
=============================================================================
