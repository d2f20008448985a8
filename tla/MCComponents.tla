---------------------------- MODULE MCComponents ----------------------------
(***************************************************************************)
(* The components that keep their state to themselves, side by side: a     *)
(* behaviour is one of them at work, in variables all of them share. Two   *)
(* workers, tickers, clients, peers or requests each.                      *)
(***************************************************************************)
EXTENDS FiniteSets, TLC, MCConfigs, Components

CONSTANTS c1, c2

VARIABLES  \* those of the component at work, but for the builder and those of Components
  v1, v2, v3, v4, v5, v6, v7, v8, v9, v10

PL == INSTANCE Pollers WITH Polls <- {c1, c2}, MaxRows <- 2, MaxLinks <- 3, Resources
      <- {"uid"}, DryRun <- FALSE, Uid <- "uid", Delete <- TRUE, MaxMails <- 3, MaxWoes <-
      2, asks <- v1, poll <- v2, session <- v3, links <- v4, request <- v5, ended <- v6,
      died <- v7, mixed <- v8, mailbox <- v1, visit <- v2, mailed <- v3, woes <- v4, offsets
      <- v5, stored <- v6, saver <- v7, looping <- v8
Streaming == INSTANCE Commands WITH Stream <- TRUE, Pipe <- 2, MaxEvents <- 5, Ticks
      <- {c1, c2}, Plain <- FALSE, MaxLines <- 2, stdin <- v1, command <- v2, stdout <- v3,
      reading <- v4, worker <- v5, results <- v6, tick <- v1, loop <- v2, input <- v3
OneByOne == INSTANCE Commands WITH Stream <- FALSE, Pipe <- 1, MaxEvents <- 4, Ticks
      <- {c1, c2}, Plain <- TRUE, MaxLines <- 2, stdin <- v1, command <- v2, stdout <- v3,
      reading <- v4, worker <- v5, results <- v6, tick <- v1, loop <- v2, input <- v3
DE == INSTANCE Decoders WITH MaxRead <- 4, MaxDecoded <- 5, reader <- v1, decoder <-
      v2, given <- v3, err <- v4
Nesting == INSTANCE LogstashParser WITH Names <- {"input"}, Tokens <- {"input", "{",
      "}", "if", "else"}, MaxTokens <- 14, read <- v1, frames <- v2, parsed <- v3, outcome
      <- v4, trace <- v5
Settings == INSTANCE LogstashParser WITH Names <- {"input", "codec"}, Tokens <-
      {"input", "codec", "{", "#", "}", "=>", "1", "[", "]"}, MaxTokens <- 10, read <- v1,
      frames <- v2, parsed <- v3, outcome <- v4, trace <- v5
MU == INSTANCE MutateFilter WITH Events <- mutableEvents, Options <- mutateOptions,
      Tagged <- taggedEvents, Additions <- tagOptions, Removals <- tagOptions, event <- v1,
      option <- v2, before <- v3, slice <- v1, todo <- v2, ranging <- v3, came <- v4
FI == INSTANCE Filters WITH Filters <- statelessFilters, Events <- filteredEvents,
      Objects <- jsonObjects, Dates <- dateResults, Captures <- captured, Pairs <-
      textPairs, Evaluated <- evaluations, filter <- v1, came <- v2, event <- v3, todo <-
      v4, met <- v5, sent <- v6, at <- v7
LO == INSTANCE Locations WITH Here <- <<"w">>, Trees <- trees, Paths <- treePaths,
      ConfPaths <- treeConfPaths, Web <- served, Env <- environment, Arguments <-
      runArguments, MaxEdits <- 1, MaxDepth <- 4, tree <- v1, given <- v2, listed <- v3,
      items <- v4, stack <- v5, agents <- v6, opened <- v7, started <- v8, run <- v9, edits
      <- v10
Planned == INSTANCE Scheduler WITH Instances <- {c1, c2}, Plans <- alike(c1, c2),
      Readers <- {"asks"}, AtOnce <- 1, entries <- v1, arrays <- v2, planned <- v3, work <-
      v4, reading <- v5, registry <- v6, mixed <- v7
Twice == INSTANCE Scheduler WITH Instances <- {c1, c2}, Plans <- changed(c1, c2),
      Readers <- {"asks"}, AtOnce <- 2, entries <- v1, arrays <- v2, planned <- v3, work <-
      v4, reading <- v5, registry <- v6, mixed <- v7
XP == INSTANCE XProcessors WITH Declarations <- declarations, Configurations <-
      xprocessorConfigs, Limits <- {0, 1, 2}, Records <- 4, Askers <- {c1, c2}, Uuids <-
      {"u"}, Labels <- {"l", "k"}, Codes <- {"c", "d"}, Clients <- {c1, c2}, Keys <- 1..2,
      Names <- DOMAIN inherited, Values <- {"v1", "v2"}, Settable <- {"PATH"}, Inherited <-
      inherited, Unset <- "unset", declared <- v1, flags <- v2, args <- v3, command <- v4,
      feed <- v1, handing <- v2, hands <- v3, waiting <- v4, processed <- v5, records <- v1,
      asked <- v2, told <- v3, rivals <- v4, stored <- v1, env <- v2, request <- v3, blurred
      <- v4
Sinking == INSTANCE Sinks WITH Mailers <- {c1, c2}, MailOptions <- mailOptions,
      MailEvents <- mailEvents, MaxMails <- 2, Indexers <- {c1, c2}, Days <- {"d1", "d2"},
      MaxIndexed <- 3, MeterOptions <- meterOptions, MeterEvents <- {"1", "n"}, Numerals <-
      {"1", "2"}, mailOpt <- v1, images <- v2, spool <- v3, mailing <- v4, mailed <- v5,
      elastic <- v1, indexing <- v2, lastIndex <- v3, cluster <- v4, indexed <- v5, meterOpt
      <- v1, statsd <- v2, metering <- v3, metrics <- v4
CO == INSTANCE Console WITH Browsers <- {c1, c2}, Forms <- consoleForms, MaxPages <-
      3, console <- v1, stored <- v2, ups <- v3, page <- v4, rivals <- v5
CG == INSTANCE Configure WITH Pipelines <- configurablePipelines, wanted <- v1, making
      <- v2, ready <- v3, started <- v4, left <- v5
LX == INSTANCE Lexer WITH Sources <- lexedTexts, source <- v1, position <- v2, scan <-
      v3, tokens <- v4, cond <- v5, ending <- v6

\* The variables behind those of the component at work stay as they are.
Beyond10 == UNCHANGED <<pbVars, clientVars, inputVars, filterVars, outputVars>>
Beyond9 == UNCHANGED v10 /\ Beyond10
Beyond8 == UNCHANGED v9 /\ Beyond9
Beyond7 == UNCHANGED v8 /\ Beyond8
Beyond6 == UNCHANGED v7 /\ Beyond7
Beyond5 == UNCHANGED v6 /\ Beyond6
Beyond4 == UNCHANGED v5 /\ Beyond5
Beyond3 == UNCHANGED v4 /\ Beyond4
Beyond2 == UNCHANGED v3 /\ Beyond3
Beyond1 == UNCHANGED v2 /\ Beyond2
Unused10 == config = 0 /\ built = 0
Unused9 == v10 = 0 /\ Unused10
Unused8 == v9 = 0 /\ Unused9
Unused7 == v8 = 0 /\ Unused8
Unused6 == v7 = 0 /\ Unused7
Unused5 == v6 = 0 /\ Unused6
Unused4 == v5 = 0 /\ Unused5
Unused3 == v4 = 0 /\ Unused4
Unused2 == v3 = 0 /\ Unused3
Unused1 == v2 = 0 /\ Unused2

Init ==
  /\ \/ at_work \in clientParts \cup inputParts \cup filterParts \cup outputParts /\ v1 = 0 /\ Unused1
     \/ at_work = "pollers" /\ PL!PLInit /\ Unused8
     \/ at_work = "pop3" /\ PL!PPInit /\ Unused8
     \/ at_work = "stream" /\ Streaming!SPInit /\ Unused6
     \/ at_work = "no stream" /\ OneByOne!SPInit /\ Unused6
     \/ at_work = "decoders" /\ DE!DEInit /\ Unused4
     \/ at_work = "parser" /\ Nesting!PSInit /\ Unused5
     \/ at_work = "settings parser" /\ Settings!PSInit /\ Unused5
     \/ at_work = "mutate" /\ MU!MUInit /\ Unused3
     \/ at_work = "tags" /\ MU!ETInit /\ Unused4
     \/ at_work = "filters" /\ FI!FIInit /\ Unused7
     \/ at_work = "locations" /\ LO!LOInit /\ Unused10
     \/ at_work = "scheduler" /\ Planned!SCInit /\ Unused7
     \/ at_work = "scheduler twice" /\ Twice!SCInit /\ Unused7
     \/ at_work = "exec" /\ Streaming!EXInit /\ Unused3
     \/ at_work = "plain exec" /\ OneByOne!EXInit /\ Unused3
     \/ at_work = "xprocessor options" /\ XP!CLInit /\ Unused4
     \/ at_work = "xprocessor" /\ XP!XRInit /\ Unused5
     \/ at_work = "stored xprocessors" /\ XP!XSInit /\ Unused4
     \/ at_work = "environment" /\ XP!ENInit /\ Unused4
     \/ at_work = "email" /\ Sinking!EMInit /\ Unused5
     \/ at_work = "elasticsearch" /\ Sinking!ESInit /\ Unused5
     \/ at_work = "statsd" /\ Sinking!SDInit /\ Unused4
     \/ at_work = "console" /\ CO!COInit /\ Unused5
     \/ at_work = "configure" /\ CG!CGInit /\ Unused5
     \/ at_work = "lexer" /\ LX!LXInit /\ Unused6
     \/ at_work = "builder" /\ PBInit /\ v1 = 0 /\ v2 = 0 /\ v3 = 0 /\ v4 = 0 /\ v5 = 0 /\ v6 = 0 /\ v7 = 0 /\ v8 = 0 /\ v9 = 0 /\ v10 = 0
  /\ ClientsInit /\ InputsInit /\ FiltersInit /\ OutputsInit

Next ==
  /\ \/ ClientsNext /\ UNCHANGED <<v1, v2, v3, v4, v5, v6, v7, v8, v9, v10, pbVars, inputVars, filterVars, outputVars>>
     \/ InputsNext /\ UNCHANGED <<v1, v2, v3, v4, v5, v6, v7, v8, v9, v10, pbVars, clientVars, filterVars, outputVars>>
     \/ FiltersNext /\ UNCHANGED <<v1, v2, v3, v4, v5, v6, v7, v8, v9, v10, pbVars, clientVars, inputVars, outputVars>>
     \/ OutputsNext /\ UNCHANGED <<v1, v2, v3, v4, v5, v6, v7, v8, v9, v10, pbVars, clientVars, inputVars, filterVars>>
     \/ at_work = "pollers" /\ PL!PLNext /\ Beyond8
     \/ at_work = "pop3" /\ PL!PPNext /\ Beyond8
     \/ at_work = "stream" /\ Streaming!SPNext /\ Beyond6
     \/ at_work = "no stream" /\ OneByOne!SPNext /\ Beyond6
     \/ at_work = "decoders" /\ DE!DENext /\ Beyond4
     \/ at_work = "parser" /\ Nesting!PSNext /\ Beyond5
     \/ at_work = "settings parser" /\ Settings!PSNext /\ Beyond5
     \/ at_work = "mutate" /\ MU!MUNext /\ Beyond3
     \/ at_work = "tags" /\ MU!ETNext /\ Beyond4
     \/ at_work = "filters" /\ FI!FINext /\ Beyond7
     \/ at_work = "locations" /\ LO!LONext /\ Beyond10
     \/ at_work = "scheduler" /\ Planned!SCNext /\ Beyond7
     \/ at_work = "scheduler twice" /\ Twice!SCNext /\ Beyond7
     \/ at_work = "exec" /\ Streaming!EXNext /\ Beyond3
     \/ at_work = "plain exec" /\ OneByOne!EXNext /\ Beyond3
     \/ at_work = "xprocessor options" /\ XP!CLNext /\ Beyond4
     \/ at_work = "xprocessor" /\ XP!XRNext /\ Beyond5
     \/ at_work = "stored xprocessors" /\ XP!XSNext /\ Beyond4
     \/ at_work = "environment" /\ XP!ENNext /\ Beyond4
     \/ at_work = "email" /\ Sinking!EMNext /\ Beyond5
     \/ at_work = "elasticsearch" /\ Sinking!ESNext /\ Beyond5
     \/ at_work = "statsd" /\ Sinking!SDNext /\ Beyond4
     \/ at_work = "console" /\ CO!CONext /\ Beyond5
     \/ at_work = "configure" /\ CG!CGNext /\ Beyond5
     \/ at_work = "lexer" /\ LX!LXNext /\ Beyond6
     \/ at_work = "builder" /\ PBNext /\ UNCHANGED <<v1, v2, v3, v4, v5, v6, v7, v8, v9, v10, clientVars, inputVars, filterVars, outputVars>>
  /\ UNCHANGED at_work

vars == <<at_work, v1, v2, v3, v4, v5, v6, v7, v8, v9, v10, pbVars, clientVars, inputVars, filterVars, outputVars>>
Spec == Init /\ [][Next]_vars

\* Two workers, tickers, clients, peers or requests are alike: no order is kept
\* of them, and a component with one of them never has a state with the other.
Symmetry == Permutations({c1, c2})
-----------------------------------------------------------------------------
(* The properties of the modules, each for its component. *)

\* Each component's state is of the kinds its module names.
TypeOK ==
  /\ ClientsTypeOK /\ InputsTypeOK /\ FiltersTypeOK /\ OutputsTypeOK
  /\ at_work = "pollers" => PL!PLTypeOK
  /\ at_work = "pop3" => PL!PPTypeOK
  /\ at_work = "stream" => Streaming!SPTypeOK
  /\ at_work = "no stream" => OneByOne!SPTypeOK
  /\ at_work = "decoders" => DE!DETypeOK
  /\ at_work = "mutate" => MU!MUTypeOK
  /\ at_work = "tags" => MU!ETTypeOK
  /\ at_work = "filters" => FI!FITypeOK
  /\ at_work = "locations" => LO!LOTypeOK
  /\ at_work = "exec" => Streaming!EXTypeOK
  /\ at_work = "plain exec" => OneByOne!EXTypeOK
  /\ at_work = "environment" => XP!ENTypeOK

\* An external command's records come back once and in order, it gets its
\* options as configured or refuses, and stops when all were received. A mail
\* has the pictures and files of its event unless it was made beside another;
\* elasticsearch gets each event once under its index, which was made sure of
\* first, if the server is a 6; statsd all that is configured. mutate invents
\* and drops no word but what its options say; tags are added and removed as
\* the options say; what the filters that keep nothing send is marked as done
\* or failed, once; kv, grok and eval give what the event that came says, in
\* whatever order they take their entries; route and when send an event once,
\* or a copy with it. The decoders give the lines of their input in order and
\* none twice; multiline events are whole; the rows of csv and w3c are named
\* by the columns that apply to them. pop3 deletes and marks as seen only
\* mails that were sent, and sends none twice unless a mark was taken back;
\* exec sends all that a command printed, unless a decoding failed or Stop
\* came, and with the plain codec nothing; ldap, sql and the http poller send
\* what a poll read, in order and once, and polls that do not overlap ask
\* with their own event and leave nothing open. The jobs that make them tick
\* come when their schedule says, end with their agents, and are listed as
\* planned.
ProcessingSound ==
  /\ at_work = "stream" => Streaming!EventsReturn /\ Streaming!SentLate
  /\ at_work = "no stream" => OneByOne!EventsReturn /\ OneByOne!SentLate
  /\ at_work = "xprocessor options" => XP!OptionsArrive
  /\ at_work = "xprocessor" => XP!StopsAfterAll
  /\ at_work = "email" => Sinking!MailIsWhole
  /\ at_work = "elasticsearch" => Sinking!EventsIndexed
  /\ at_work = "statsd" => Sinking!MetricsAsConfigured
  /\ at_work = "mutate" => MU!WordsKept
  /\ at_work = "tags" => MU!TagsAsConfigured
  /\ at_work = "filters" => FI!MarkedByOutcome /\ FI!KvOfPairs /\ FI!GrokBreaks /\
         FI!EvalAsCame /\ FI!RoutedOnce
  /\ at_work = "decoders" => DE!LinesGiven /\ DE!EventsWhole /\ DE!RowsNamed
  /\ at_work = "pop3" => PL!NoMailLost /\ PL!SentOnce
  /\ at_work = "exec" => Streaming!OutputCaptured
  /\ at_work = "plain exec" => OneByOne!OutputCaptured
  /\ at_work = "pollers" => PL!PolledInOrder /\ PL!PollsAlone /\ PL!DiesAway
  /\ at_work = "scheduler" => Planned!JobsEnd /\ Planned!ListedAsPlanned /\
         Planned!FiresAsMeant
  /\ at_work = "scheduler twice" => Twice!JobsEnd /\ Twice!ReadAsListed /\
         Twice!FiresAsMeant

\* The lexer gives the tokens of its text, and a condition what its writer
\* meant unless it mixes quotes or and with not in. A configuration that is
\* accepted is parsed as it is written, and an event's trip over the agents
\* built of it is the one that is written, for every file the bounds allow; a
\* configured agent has the options and codecs it was given, the presets of
\* the others, and none of a wrong kind, and a pipeline that is refused
\* leaves nothing that goes on but what its modules name; the environment its
\* templates read is the stored one, unless two records or requests were
\* about a name at a time, and so are the stored processors. The console says
\* that it started, stopped or changed something only when the API did, and
\* runs one playground as asked, unless two are asked for at a time or a call
\* is lost. Used files and templates are found in the process's directory or
\* beside the file that names them, their holes filled, and every argument of
\* run is started.
ConfigSound ==
  /\ at_work = "parser" => Nesting!ParsedAsWritten
  /\ at_work = "settings parser" => Settings!ParsedAsWritten
  /\ at_work = "builder" => TripsAsWritten
  /\ at_work = "configure" => CG!AskedIsHad /\ CG!WrongIsRefused /\ CG!CodecAtHand
         /\ CG!RefusedIsGone
  /\ at_work = "lexer" => LX!LexedAsWritten /\ LX!ConditionMeant
  /\ at_work = "environment" => XP!EnvMirrorsStore
  /\ at_work = "stored xprocessors" => XP!StoredAsAnswered
  /\ at_work = "console" => CO!SuccessIsTrue /\ CO!PlaysAsAsked /\ CO!SavedAsSent
  /\ at_work = "locations" => LO!ResolvedBeside /\ LO!HolesFilled /\
         LO!ArgumentsStarted
=============================================================================
