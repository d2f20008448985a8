------------------------------ MODULE Configure -----------------------------
(***************************************************************************)
(* What Pipeline.Start does before anything is started: it builds the      *)
(* agents one after the other, and each decodes its options over its       *)
(* presets, validates them (processors/base.go) and does what is left of   *)
(* its Configure.  The first that is refused ends the start.               *)
(* A value is "some", "zero" (empty, 0, false), "wrong" (of a kind the     *)
(* option cannot be decoded from) or "odd" (a negative number, a table     *)
(* with an element that is no text); an option of the processor may be     *)
(* "unset" or "preset" too, or "both" for a table added to its preset.     *)
(***************************************************************************)
EXTENDS Integers, SequencesExt

CONSTANT
  Pipelines  \* lists of agents, inputs first: the plugin, the options it is given, the
             \* roles of its codecs ("any" without one, "odd" of an unknown charset)

VARIABLES
  wanted,   \* the agents that are not configured
  making,   \* the one at hand: at, its options, its codecs, its forgotten error
  ready,    \* those that are
  started,  \* "no", "yes", "refused" or "crash"
  left      \* plugins of which something goes on: a goroutine or a connection
cgVars == <<wanted, making, ready, started, left>>
-----------------------------------------------------------------------------
(* The options of the plugins, by kind; those with a preset; the required  *)
(* ones; the presets of the codec.                                         *)
Kinds(texts, numbers, flags, lists, tables) ==
  [o \in texts |-> "text"] @@ [o \in numbers |-> "number"] @@ [o \in flags |-> "flag"] @@
  [o \in lists |-> "list"] @@ [o \in tables |-> "table"]
CommonOptions == Kinds({"type"}, {}, {"trace"}, {"add_tag", "remove_field", "remove_tag"}, {"add_field"})
Squash(kinds) == kinds @@ CommonOptions
Codec(kinds) == kinds @@ [codec |-> "codec"]
Plugin(kinds, preset, required, codecs) == [kinds |-> kinds, preset |-> preset, required |-> required, codecs |-> codecs]
Plainly(kinds) == Plugin(Squash(kinds), {}, {}, {})

KvOptions ==
  Plugin(Squash(Kinds({"field_split", "prefix", "source", "target", "trim_key", "trim_value", "value_split"}, {},
                      {"allow_duplicate_values", "include_brackets", "recursive"}, {"exclude_keys", "include_keys"}, {"default_keys"})),
         {"allow_duplicate_values", "field_split", "include_brackets", "source", "value_split"}, {}, {})
GrokOptions ==
  Plugin(Squash(Kinds({}, {}, {"break_on_match", "keep_empty_captures", "named_capture_only"}, {"patterns_dir", "tag_on_failure"}, {"match"})),
         {"named_capture_only", "break_on_match", "tag_on_failure"}, {"match"}, {})
DateOptions == Plugin(Squash(Kinds({"target", "timezone"}, {}, {}, {"match", "tag_on_failure"}, {})), {"target", "tag_on_failure"}, {"match"}, {})
HtmlOptions == Plugin(Squash(Kinds({"source_field"}, {}, {}, {"tag_on_failure"}, {"text", "size"})), {"source_field", "tag_on_failure"}, {}, {})
JsonOptions == Plugin(Squash(Kinds({"source", "target"}, {}, {"skip_on_invalid_json"}, {"tag_on_failure"}, {})), {"tag_on_failure"}, {"source"}, {})
EvalOptions == Plainly(Kinds({}, {}, {}, {}, {"expressions", "templates", "var"}))
ChangeOptions == Plugin(Squash(Kinds({"compare_field"}, {"timeframe"}, {"ignore_missing"}, {}, {})), {"ignore_missing"}, {"compare_field"}, {})
NewtermOptions == Plugin(Squash(Kinds({"compare_field"}, {}, {"ignore_missing"}, {"terms"}, {})), {"ignore_missing"}, {"compare_field"}, {})
WhitelistOptions == [NewtermOptions EXCEPT !.required = {"compare_field", "terms"}]
BlacklistOptions == Plugin(Squash(Kinds({"compare_field"}, {}, {}, {"terms"}, {})), {}, {"compare_field", "terms"}, {})
DigestOptions == Plainly(Kinds({"key_map", "interval"}, {"count"}, {}, {}, {}))
SplitOptions == Plainly(Kinds({"field", "target", "terminator"}, {}, {}, {}, {}))
UuidOptions == Plugin(Squash(Kinds({"target"}, {}, {"overwrite"}, {}, {})), {}, {"target"}, {})
DropOptions == Plugin(Squash(Kinds({}, {"percentage"}, {}, {}, {})), {"percentage"}, {}, {})
SleepOptions == Plainly(Kinds({}, {"time"}, {}, {}, {}))
MutateOptions ==
  Plugin(Kinds({}, {}, {}, {"add_tag", "gsub", "lowercase", "remove_field", "remove_tag", "strip", "uppercase", "remove_all_but"},
               {"add_field", "convert", "join", "merge", "rename", "replace", "split", "update"}), {}, {}, {})
ExecOptions == Plugin(Squash(Codec(Kinds({"command", "target"}, {}, {"stdin"}, {"args"}, {}))), {"target"}, {"command"}, {})
TemplateOptions == Plugin(Squash(Kinds({"location", "target"}, {}, {}, {}, {"var"})), {"target"}, {"location"}, {})
RouteOptions == Plugin(Squash(Kinds({"condition"}, {}, {"fork"}, {"path"}, {"var"})), {}, {"path"}, {})

StdinOptions == Plugin(Squash(Codec(Kinds({}, {}, {"eof_exit"}, {}, {}))), {}, {}, {"dec"})
TailOptions ==
  Plugin(Squash(Codec(Kinds({"delimiter", "max_open_files", "sincedb_path", "start_position"},
                            {"close_older", "discover_interval", "ignore_older", "sincedb_write_interval", "stat_interval"}, {}, {"exclude", "path"}, {}))),
         {"start_position", "sincedb_path", "sincedb_write_interval", "stat_interval", "discover_interval"}, {"path"}, {"dec"})
FileOptions ==
  Plugin(Squash(Codec(Kinds({"sincedb_path", "target"}, {"read_older", "discover_interval", "ignore_older", "max_open_files"}, {}, {"exclude", "path"}, {}))),
         {"max_open_files", "discover_interval", "read_older", "sincedb_path", "target"}, {"path"}, {"dec"})
Pop3Options ==
  Plugin(Squash(Kinds({"interval", "host", "username", "password", "sincedb_path"}, {"port", "dial_timeout"},
                      {"secure", "delete", "strip_attachments", "verify_cert", "add_raw_message", "add_all_headers"}, {}, {})),
         {"interval", "delete", "verify_cert", "dial_timeout", "sincedb_path"}, {"host", "username", "password"}, {})
LdapOptions ==
  Plugin(Squash(Kinds({"host", "bind_dn", "bind_password", "base_dn", "search_base", "search_filter", "search_scope", "event_by", "interval", "target"},
                      {"port", "size_limit", "paging_size"}, {}, {"search_attributes"}, {"var"})),
         {"event_by", "target", "search_scope", "port", "search_filter", "paging_size"}, {"host", "port", "base_dn", "search_filter"}, {})
SqlOptions ==
  Plugin(Squash(Kinds({"driver", "event_by", "statement", "interval", "connection_string", "target"}, {}, {}, {}, {"var"})),
         {"event_by", "target"}, {"driver", "statement", "connection_string"}, {})
PollerOptions ==
  Plugin(Squash(Codec(Kinds({"interval", "method", "body", "url", "target"}, {}, {"ignore_failure"}, {}, {"headers", "var"}))),
         {"method", "target", "ignore_failure"}, {"url"}, {"dec"})
BeatsOptions ==
  Plugin(Squash(Kinds({"host", "ssl_certificate", "ssl_key", "ssl_key_passphrase", "ssl_verify_mode"}, {"congestion_threshold", "port"}, {"ssl"},
                      {"ssl_certificate_authorities"}, {})), {"congestion_threshold", "host", "port", "ssl_verify_mode"}, {}, {})
HttpServerOptions == Plugin(Squash(Codec(Kinds({"uri"}, {}, {}, {"body"}, {"headers"}))), {"uri", "body"}, {}, {})
ExecInputOptions == Plugin(Squash(Codec(Kinds({"command", "interval"}, {}, {}, {"args"}, {}))), {}, {}, {"dec"})
RabbitInputOptions ==
  Plugin(Kinds({"codec", "exchange", "host", "key", "password", "queue", "user", "vhost"},
               {"ack_batch_size", "connect_retry_interval", "heartbeat", "port", "prefetch_count"},
               {"ack", "auto_delete", "durable", "exclusive", "metadata_enabled", "passive", "ssl", "verify_ssl"}, {"tags"}, {"add_field", "arguments"}),
         {"ack", "ack_batch_size", "codec", "connect_retry_interval", "password", "port", "prefetch_count", "user", "vhost"}, {}, {})
WebsocketInOptions == Plugin(Squash(Codec(Kinds({"uri"}, {"max_message_size"}, {}, {}, {}))), {"uri"}, {}, {"dec"})
WebfanOptions == Plugin(Squash(Codec(Kinds({"uri", "pipeline"}, {}, {}, {}, {"headers"}))), {}, {"uri", "pipeline"}, {})

WebsocketOptions == Plugin(Codec(Kinds({"uri"}, {}, {}, {}, {})), {"uri"}, {}, {"enc"})
HttpoutOptions == Plugin(Codec(Kinds({"uri"}, {}, {}, {}, {"headers"})), {"uri", "headers"}, {}, {"enc"})
StdoutOptions == Plugin(Codec(Kinds({}, {}, {}, {}, {})), {}, {}, {"enc"})
HttpOptions ==
  Plugin(Codec(Kinds({"url", "http_method"}, {"pool_max", "connect_timeout", "request_timeout", "batch_interval", "batch_size", "retry_interval"}, {"keepalive"},
                     {"retryable_codes", "ignorable_codes"}, {"add_field", "headers"})),
         {"http_method", "keepalive", "pool_max", "connect_timeout", "request_timeout", "headers", "retryable_codes", "ignorable_codes",
          "batch_interval", "batch_size", "retry_interval"}, {"url"}, {"enc"})
TcpOptions ==
  Plugin(Codec(Kinds({"host"}, {"port", "request_timeout", "retry_interval"}, {"keepalive"}, {}, {})), {"keepalive", "request_timeout", "retry_interval"},
         {"host", "port"}, {"enc"})
FileOutputOptions ==
  Plugin(Kinds({"codec", "path"}, {"dir_mode", "file_mode", "flush_interval"}, {"create_if_deleted"}, {}, {}),
         {"codec", "create_if_deleted", "dir_mode", "file_mode", "flush_interval"}, {"path"}, {})
RabbitOutputOptions ==
  Plugin(Kinds({"exchange", "exchange_type", "host", "key", "password", "user", "vhost"}, {"connect_retry_interval", "connection_timeout", "heartbeat", "port"},
               {"durable", "passive", "persistent", "ssl", "verify_ssl"}, {"tags"}, {"add_field", "arguments"}),
         {"connect_retry_interval", "durable", "password", "persistent", "port", "user", "vhost"}, {"exchange", "exchange_type"}, {})
MongodbOptions == Plugin(Kinds({"collection", "database", "uri"}, {"retry_delay"}, {"generateid", "isodate"}, {}, {}), {"retry_delay"}, {}, {})

Plugins ==
  [kv |-> KvOptions, grok |-> GrokOptions, date |-> DateOptions, html |-> HtmlOptions, json |-> JsonOptions, eval |-> EvalOptions, change |-> ChangeOptions,
   newterm |-> NewtermOptions, whitelist |-> WhitelistOptions, blacklist |-> BlacklistOptions, digest |-> DigestOptions, split |-> SplitOptions,
   uuid |-> UuidOptions, drop |-> DropOptions, sleep |-> SleepOptions, mutate |-> MutateOptions, exec |-> ExecOptions, template |-> TemplateOptions,
   route |-> RouteOptions, stdin |-> StdinOptions, tail |-> TailOptions, readfile |-> FileOptions, pop3 |-> Pop3Options, ldap |-> LdapOptions, sql |-> SqlOptions,
   http_poller |-> PollerOptions, beats |-> BeatsOptions, httpserver |-> HttpServerOptions, input_exec |-> ExecInputOptions, input_rabbitmq |-> RabbitInputOptions,
   input_websocket |-> WebsocketInOptions, webfan |-> WebfanOptions, websocket |-> WebsocketOptions, httpout |-> HttpoutOptions, stdout |-> StdoutOptions,
   output_http |-> HttpOptions, output_tcp |-> TcpOptions, output_file |-> FileOutputOptions, output_rabbitmq |-> RabbitOutputOptions, mongodb |-> MongodbOptions]
-----------------------------------------------------------------------------
Nothing == [at |-> "none", opt |-> <<>>, codecs |-> {}, err |-> FALSE]
CGInit ==
  /\ wanted \in Pipelines /\ making = Nothing /\ ready = <<>> /\ started = "no" /\ left = {}
Agent == wanted[1]
Asks(o) == o \in DOMAIN Agent.given
Given(o) == IF Asks(o) THEN Agent.given[o] ELSE "absent"
KindsOf(agent) == Plugins[agent.plugin].kinds
At(place) == started = "no" /\ wanted # <<>> /\ making.at = place
Of(S) == Agent.plugin \in S
Ends(how) == started' = how /\ making' = Nothing /\ UNCHANGED <<wanted, ready>>
Refuse == Ends("refused")
Crash == Ends("crash")
Accept(opt, codecs) ==
  /\ ready' = Append(ready, [asked |-> Agent, opt |-> opt, codecs |-> codecs])
  /\ wanted' = Tail(wanted) /\ making' = Nothing /\ UNCHANGED started
Kept == UNCHANGED left
Leaves == left' = left \cup {Agent.plugin}

\* The presets.  grok takes a table of texts only: its lists of patterns have no type
\* that the parser makes.
Preset ==
  /\ At("none") /\ Kept
  /\ IF Of({"grok"}) /\ Given("match") \notin {"some", "zero"} THEN Refuse
     ELSE /\ making' = [at |-> "decode", codecs |-> Plugins[Agent.plugin].codecs, err |-> FALSE,
                        opt |-> [o \in DOMAIN KindsOf(Agent) |-> IF o \in Plugins[Agent.plugin].preset THEN "preset" ELSE "unset"]]
          /\ UNCHANGED <<wanted, ready, started>>

\* Mutant: an option that is off, or 0, or empty is not decoded.
Decoded_Zero(o) ==
  LET was == making.opt[o] IN
  IF Given(o) \in {"absent", "wrong", "zero"} THEN was
  ELSE IF KindsOf(Agent)[o] = "table" /\ was = "preset" THEN "both" ELSE Given(o)
\* mapstructure.WeakDecode of one option: a table is added to what is there.
Decoded(o) ==
  LET was == making.opt[o]  table == KindsOf(Agent)[o] = "table" IN
  CASE Given(o) \in {"absent", "wrong"} -> was
    [] table /\ was = "preset" -> IF Given(o) = "zero" THEN was ELSE "both"
    [] OTHER -> Given(o)
\* The codecs come as an object of their own, whatever the option is.
IsWrong(o) == Given(o) = "wrong" \/ (o = "codec" /\ KindsOf(Agent)[o] = "text" /\ Agent.codecs # {})
\* Mutant: an option that is there is not looked at.
Misses_Unset(o, opt) == opt[o] = "unset"
\* validator: only a text or a number can be given and still not be there.
Misses(o, opt) == opt[o] = "unset" \/ (opt[o] = "zero" /\ KindsOf(Agent)[o] \in {"text", "number"})
Codecs == IF Agent.codecs = {} \/ "codec" \notin DOMAIN KindsOf(Agent) THEN making.codecs ELSE Agent.codecs
ConfigureAndValidate ==
  LET opt == [o \in DOMAIN making.opt |-> Decoded(o)]
      err == \/ \E o \in DOMAIN making.opt : IsWrong(o)
             \/ \E o \in Plugins[Agent.plugin].required : Misses(o, opt)
  IN /\ At("decode") /\ Kept
     /\ IF err /\ ~Of({"eval", "http_poller", "readfile", "newterm"}) THEN Refuse
        ELSE making' = [at |-> "own", opt |-> opt, codecs |-> Codecs, err |-> err] /\ UNCHANGED <<wanted, ready, started>>

Own(S) == At("own") /\ Of(S)
Has(o) == making.opt[o] \in {"some", "preset", "both", "odd"}
\* The error of ConfigureAndValidate, when it was kept until here.
Return == IF making.err THEN Refuse ELSE Accept(making.opt, making.codecs)
\* A location that cannot be read, a template that is none, a server that does not answer.
Fails(needed) == needed /\ Refuse
OwnSteps == {"date", "eval", "digest", "whitelist", "blacklist", "template", "pop3", "ldap", "sql", "http_poller", "grok", "httpserver", "webfan", "stdout", "input_rabbitmq"}
ConfigureOthers == Own(DOMAIN Plugins \ OwnSteps) /\ Return /\ Kept
\* Match[0] of a list that is empty, but there.
ConfigureDate == Own({"date"}) /\ Kept /\ (IF Has("match") THEN Return ELSE Crash)
ConfigureGrok == Own({"grok"}) /\ Kept /\ (Fails(Has("patterns_dir")) \/ Return)
\* An expression's error, or none, takes the place of the earlier error.
ConfigureEval ==
  LET both == Has("expressions") IN
  /\ Own({"eval"}) /\ Kept
  /\ \/ Fails(Has("templates") \/ both)
     \/ IF ~both /\ ~Has("templates") THEN Refuse
        ELSE IF making.opt["expressions"] = "odd" THEN Crash
        ELSE IF both THEN Accept(making.opt, making.codecs) ELSE Return
ConfigureDigest ==
  /\ Own({"digest"}) /\ Kept
  /\ IF making.opt["count"] = "odd" \/ ~(Has("interval") \/ Has("count")) THEN Refuse ELSE Return
ConfigureTerms == Own({"whitelist", "blacklist"}) /\ Kept /\ (IF Has("terms") THEN Return ELSE Refuse)
ConfigureTemplate == Own({"template"}) /\ Kept /\ (Fails(TRUE) \/ Return)
ConfigurePoller == Own({"http_poller"}) /\ Kept /\ (Fails(Has("body")) \/ Return)
\* Mutant: the client that was tried is not closed.
ConfigurePop3_Open ==
  LET opt == [making.opt EXCEPT !["sincedb_path"] = IF @ = "preset" THEN "some" ELSE @, !["port"] = IF @ \in {"unset", "zero"} THEN "some" ELSE @]
  IN Own({"pop3"}) /\ \/ Crash /\ Kept
                      \/ (Refuse \/ Accept(opt, making.codecs)) /\ Leaves
\* A client is tried, and closed: of a server that cannot be reached there is none to
\* close, which ends the program.
ConfigurePop3 ==
  LET opt == [making.opt EXCEPT !["sincedb_path"] = IF @ = "preset" THEN "some" ELSE @, !["port"] = IF @ \in {"unset", "zero"} THEN "some" ELSE @]
  IN Own({"pop3"}) /\ Kept /\ (Refuse \/ Crash \/ Accept(opt, making.codecs))
\* The connection is closed again, unless its user is refused.
ConfigureLdap ==
  /\ Own({"ldap"})
  /\ \/ Refuse /\ Kept
     \/ Fails(Has("bind_dn")) /\ Leaves
     \/ Accept([making.opt EXCEPT !["search_base"] = IF @ \in {"unset", "zero"} THEN making.opt["base_dn"] ELSE @], making.codecs) /\ Kept
\* The statement's location, its template and the driver; then the database, which is
\* left open when it does not answer.
ConfigureSql == Own({"sql"}) /\ ((Refuse /\ Kept) \/ ((Refuse \/ Return) /\ Leaves))
\* Mutant: they are found only when no codec is given.
ConfigureAnswers_All ==
  /\ Own({"httpserver", "webfan"}) /\ Kept
  /\ Accept(making.opt, IF making.codecs = {} THEN {"enc", "dec"} ELSE making.codecs)
\* What the pages are encoded and decoded with, if it is not given.
ConfigureAnswers ==
  LET enc == making.codecs \cup {"enc"} IN
  Own({"httpserver", "webfan"}) /\ Kept /\ Accept(making.opt, IF enc \cap {"dec", "any", "odd"} = {} THEN enc \cup {"dec"} ELSE enc)
\* The encoder is made at once.
ConfigureStdout ==
  /\ Own({"stdout"}) /\ Kept
  /\ CASE "enc" \in making.codecs -> Fails(Agent.codecs # {}) \/ Return
       [] "odd" \in making.codecs -> Crash
       [] "any" \in making.codecs -> Refuse \/ Return
       [] OTHER -> Refuse
\* It consumes from now on.
ConfigureRabbit == Own({"input_rabbitmq"}) /\ Return /\ Leaves
StartAll == started = "no" /\ wanted = <<>> /\ started' = "yes" /\ UNCHANGED <<wanted, making, ready, left>>

CGNext ==
  \/ Preset \/ ConfigureAndValidate \/ ConfigureOthers \/ ConfigureDate \/ ConfigureGrok \/ ConfigureEval \/ ConfigureDigest \/ ConfigureTerms
  \/ ConfigureTemplate \/ ConfigurePoller \/ ConfigurePop3 \/ ConfigureLdap \/ ConfigureSql \/ ConfigureAnswers \/ ConfigureStdout \/ ConfigureRabbit \/ StartAll
-----------------------------------------------------------------------------
\* What an option is given it has, also nothing, 0 and false; but a table is added to
\* its preset, and pop3 and ldap find a port, a mark and a base for the missing ones.
\* What no one gave is as preset.
Found(plugin) == CASE plugin = "pop3" -> {"port", "sincedb_path"} [] plugin = "ldap" -> {"search_base"} [] OTHER -> {}
AskedIsHad ==
  \A i \in DOMAIN ready : LET a == ready[i].asked  opt == ready[i].opt  preset == Plugins[a.plugin].preset IN
    \A o \in DOMAIN opt \ Found(a.plugin) :
      LET table == KindsOf(a)[o] = "table" IN
      IF o \in DOMAIN a.given /\ a.given[o] # "wrong" THEN opt[o] = a.given[o] \/ (table /\ o \in preset /\ opt[o] \in {"both", "preset"})
      ELSE opt[o] = IF o \in preset THEN "preset" ELSE "unset"
\* An agent with an option of a wrong kind, or without one it requires or an empty one
\* (but an empty list or table will do), is not
\* configured, but eval if it has an expression.
WrongIsRefused ==
  \A i \in DOMAIN ready : LET a == ready[i].asked IN
    \/ /\ \A o \in DOMAIN a.given \cap DOMAIN KindsOf(a) : a.given[o] # "wrong"
       /\ \A o \in Plugins[a.plugin].required :
            IF o \in DOMAIN a.given THEN a.given[o] = "zero" => KindsOf(a)[o] \in {"list", "table"} ELSE o \in Plugins[a.plugin].preset
       /\ "codec" \in DOMAIN KindsOf(a) /\ KindsOf(a)["codec"] = "text" => a.codecs = {}
    \/ a.plugin = "eval" /\ "expressions" \in DOMAIN a.given
\* A configured agent has the codec it uses, unless it was given one of the other role
\* alone: that takes away what was preset.
CodecAtHand ==
  \A i \in DOMAIN ready : LET a == ready[i].asked  codecs == ready[i].codecs  needs == Plugins[a.plugin].codecs IN
    /\ needs \subseteq codecs \/ {"any", "odd"} \cap codecs # {} \/ (a.codecs # {} /\ a.codecs \cap needs = {})
    /\ a.plugin \in {"httpserver", "webfan"} => "enc" \in codecs /\ {"dec", "any", "odd"} \cap codecs # {}
    /\ a.codecs # {} /\ "codec" \in DOMAIN KindsOf(a) => a.codecs \subseteq codecs
\* A pipeline that is refused leaves nothing that goes on, but the consumer of the
\* rabbitmq input, the database of sql and the connection of an ldap user that was refused;
\* and no configuration ends the program but a date with an empty match, an expression that
\* is no text, a printer with a wrong charset, and a mailbox that cannot be reached.
RefusedIsGone ==
  /\ started = "refused" => left \subseteq {"input_rabbitmq", "ldap", "sql"}
  /\ started = "crash" => LET a == Agent IN
       \/ a.plugin = "pop3"
       \/ a.plugin = "date" /\ Given("match") = "zero"
       \/ a.plugin = "eval" /\ Given("expressions") = "odd"
       \/ a.plugin = "stdout" /\ a.codecs = {"odd"}
=============================================================================
