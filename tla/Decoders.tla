------------------------------ MODULE Decoders ------------------------------
(***************************************************************************)
(* The decoders (codecs/*/decoder.go), and a consumer that calls Decode    *)
(* until it returns an error, asking More before or not.  What the reader  *)
(* holds is a sequence of lines (rows of csv and w3c, values of json) of   *)
(* the kinds a decoder tells apart; a line stands for its number.          *)
(***************************************************************************)
EXTENDS Integers, SequencesExt

CONSTANTS
  MaxRead,    \* bound: lines
  MaxDecoded  \* bound: results

VARIABLES
  reader,  \* the lines by kind; how many are read; what comes then, "eof" or "fails"
  decoder, \* the codec and what it is told; more, memory, columnnames and title
  given,   \* what Decode gave: lines, and the line the columns are named by
  err      \* "none", or what ended the loop: "EOF", "error", "panic"; "over" (More)
deVars == <<reader, decoder, given, err>>

Kinds(codec) ==
  CASE codec = "multiline" -> {"match", "blank match", "other", "blank"}
    [] codec \in {"line", "plain"} -> {"other"}
    [] codec \in {"json", "json_lines", "csv"} -> {"other", "broken"}
    [] codec = "w3c" -> {"other", "broken", "comment", "fields"}
\* what: multiline's; names: autogenerate_column_names; asks: the consumer.
Decoder(codec, what, names, asks) ==
  [codec |-> codec, what |-> what, names |-> names, asks |-> asks, more |-> TRUE, memory |-> <<>>, columns |-> 0, title |-> TRUE]
DEInit ==
  \E codec \in {"multiline", "line", "plain", "json", "json_lines", "csv", "w3c"} :
    /\ \E what \in {"previous", "next"}, names, asks \in BOOLEAN :
         /\ (codec = "multiline" \/ what = "next") /\ (codec \in {"csv", "w3c"} \/ names)
         /\ decoder = Decoder(codec, what, names, asks)
    /\ reader \in {[lines |-> s, read |-> 0, ends |-> e] : s \in SeqOf(Kinds(codec), MaxRead), e \in {"eof", "fails"}}
    /\ given = <<>> /\ err = "none"
-----------------------------------------------------------------------------
Next == reader.read + 1
AtEnd == reader.read = Len(reader.lines)
Kind == reader.lines[Next]
Reads == reader' = [reader EXCEPT !.read = @ + 1]
Gives(lines) == given' = Append(given, [lines |-> lines, columns |-> decoder.columns])
\* More, as the consumer asks it before each call; json's looks at the reader.
MoreOf == IF decoder.codec = "json" THEN ~AtEnd ELSE decoder.more
Called(codecs) == err = "none" /\ decoder.codec \in codecs /\ (decoder.asks => MoreOf) /\ Len(given) < MaxDecoded
NoMore ==
  /\ err = "none" /\ decoder.asks /\ ~MoreOf
  /\ err' = "over" /\ UNCHANGED <<reader, decoder, given>>

\* A line that json_lines cannot decode gives nil.
LineDecode ==
  /\ Called({"line", "json_lines"}) /\ ~AtEnd /\ Reads
  /\ Gives(IF Kind = "broken" THEN <<>> ELSE <<Next>>)
  /\ decoder' = [decoder EXCEPT !.more = TRUE] /\ UNCHANGED err
\* A scanner ends when its reader fails.
ScanEnds ==
  /\ Called({"line", "json_lines", "multiline"}) /\ AtEnd
  /\ decoder' = [decoder EXCEPT !.more = FALSE] /\ err' = "EOF" /\ UNCHANGED <<reader, given>>

\* The memory of multiline is "" also when it is a single blank line.
Matches == Kind \in {"match", "blank match"}
Blank == Kind \in {"blank", "blank match"}
Alone == IF Blank THEN <<>> ELSE <<Next>>
Keep(memory) == decoder' = [decoder EXCEPT !.more = TRUE, !.memory = memory]
\* Mutant: the line that ends an event is not kept for the next.
PreviousDecode_Forgets ==
  /\ Called({"multiline"}) /\ ~AtEnd /\ decoder.what = "previous" /\ Reads /\ UNCHANGED err
  /\ IF Matches THEN Keep(Append(decoder.memory, Next)) /\ UNCHANGED given
     ELSE IF decoder.memory = <<>> THEN Keep(Alone) /\ UNCHANGED given
     ELSE Gives(decoder.memory) /\ Keep(<<>>)
\* One line of a call, which goes on unless it gives something.
PreviousDecode ==
  /\ Called({"multiline"}) /\ ~AtEnd /\ decoder.what = "previous" /\ Reads /\ UNCHANGED err
  /\ IF Matches THEN Keep(Append(decoder.memory, Next)) /\ UNCHANGED given
     ELSE IF decoder.memory = <<>> THEN Keep(Alone) /\ UNCHANGED given
     ELSE Gives(decoder.memory) /\ Keep(Alone)
NextDecode ==
  /\ Called({"multiline"}) /\ ~AtEnd /\ decoder.what = "next" /\ Reads /\ UNCHANGED err
  /\ IF Matches
     THEN Keep(IF decoder.memory = <<>> THEN Alone ELSE Append(decoder.memory, Next)) /\ UNCHANGED given
     ELSE Gives(Append(decoder.memory, Next)) /\ Keep(<<>>)

PlainDecode ==
  /\ Called({"plain"}) /\ decoder' = [decoder EXCEPT !.more = FALSE]
  /\ reader' = [reader EXCEPT !.read = Len(reader.lines)]
  /\ IF reader.ends = "fails" THEN err' = "error" /\ UNCHANGED given
     ELSE Gives([i \in 1..Len(reader.lines) - reader.read |-> reader.read + i]) /\ UNCHANGED err

JsonDecode ==
  /\ Called({"json"}) /\ UNCHANGED decoder
  /\ IF AtEnd THEN err' = (IF reader.ends = "eof" THEN "EOF" ELSE "error") /\ UNCHANGED <<reader, given>>
     ELSE /\ Reads
          /\ IF Kind = "broken" THEN err' = "error" /\ UNCHANGED given ELSE Gives(<<Next>>) /\ UNCHANGED err

\* csv and w3c know no error but EOF: the record of another is nil.
RowsEnd ==
  /\ Called({"csv", "w3c"}) /\ AtEnd /\ reader.ends = "eof"
  /\ decoder' = [decoder EXCEPT !.more = FALSE] /\ err' = "EOF" /\ UNCHANGED <<reader, given>>
NoRecord == IF AtEnd THEN reader.ends = "fails" ELSE Kind = "broken"
ReadsRow == IF AtEnd THEN UNCHANGED reader ELSE Reads
\* Mutant: the names are taken from every record.
CsvDecode_Titles ==
  /\ Called({"csv"}) /\ ~(AtEnd /\ reader.ends = "eof") /\ ReadsRow /\ UNCHANGED err
  /\ IF decoder.title /\ decoder.names
     THEN decoder' = [decoder EXCEPT !.columns = IF NoRecord THEN 0 ELSE Next] /\ UNCHANGED given
     ELSE Gives(IF NoRecord THEN <<>> ELSE <<Next>>) /\ UNCHANGED decoder
CsvDecode ==
  /\ Called({"csv"}) /\ ~(AtEnd /\ reader.ends = "eof") /\ ReadsRow /\ UNCHANGED err
  /\ IF decoder.title /\ decoder.names
     THEN decoder' = [decoder EXCEPT !.columns = IF NoRecord THEN 0 ELSE Next, !.title = FALSE] /\ UNCHANGED given
     ELSE Gives(IF NoRecord THEN <<>> ELSE <<Next>>) /\ UNCHANGED decoder
W3cDecode ==
  /\ Called({"w3c"}) /\ ~(AtEnd /\ reader.ends = "eof") /\ ReadsRow
  /\ IF NoRecord THEN err' = "panic" /\ UNCHANGED <<decoder, given>>
     ELSE /\ UNCHANGED err
          /\ CASE Kind = "other" -> Gives(<<Next>>) /\ UNCHANGED decoder
               [] Kind = "fields" /\ decoder.names -> decoder' = [decoder EXCEPT !.columns = Next] /\ UNCHANGED given
               [] OTHER -> UNCHANGED <<decoder, given>>

DENext ==
  \/ NoMore \/ LineDecode \/ ScanEnds \/ PreviousDecode \/ NextDecode \/ PlainDecode \/ JsonDecode
  \/ RowsEnd \/ CsvDecode \/ W3cDecode
DESpec == DEInit /\ [][DENext]_deVars
-----------------------------------------------------------------------------
DETypeOK ==
  /\ reader.read \in 0..Len(reader.lines) /\ decoder.columns \in 0..reader.read
  /\ Len(given) <= MaxDecoded /\ err \in {"none", "EOF", "error", "panic", "over"}

Of(kind) == {i \in 1..reader.read : reader.lines[i] = kind}
Results == FlattenSeq([i \in DOMAIN given |-> given[i].lines])
\* What was read is given in order and once: all but what is broken, names the
\* columns or is a comment, but for blank lines of multiline and what it still
\* remembers; plain drops all when its reader fails.
LinesGiven ==
  LET all == Results \o decoder.memory
      title == IF decoder.codec = "csv" /\ ~decoder.title THEN {1} ELSE {}
      unread == IF decoder.codec = "plain" /\ err = "error" THEN 1..reader.read ELSE {}
      dropped == Of("broken") \cup Of("comment") \cup Of("fields") \cup title \cup unread IN
  /\ \A i \in 2..Len(all) : all[i-1] < all[i]
  /\ \A i \in 1..reader.read : i \notin ToSet(all) => i \in dropped \cup Of("blank") \cup Of("blank match")
  /\ err \in {"EOF", "over"} => reader.read = Len(reader.lines)

\* An event of multiline is one of the text: lines that belong to the previous
\* after one that does not, lines that belong to the next before one that does
\* not; only the first line, or one after a blank line, may begin it otherwise.
\* The last event of "previous" stays in the memory, which nobody asks for,
\* unless a blank line ends the file.
EventsWhole ==
  decoder.codec = "multiline" =>
    /\ \A g \in DOMAIN given :
         LET e == given[g].lines
             inner == IF decoder.what = "previous" THEN Tail(e) ELSE Front(e)
             outer == IF decoder.what = "previous" THEN Head(e) ELSE Last(e) IN
         /\ \A i \in ToSet(inner) : reader.lines[i] \in {"match", "blank match"}
         /\ reader.lines[outer] \in {"match", "blank match"} =>
              decoder.what = "previous" /\ (outer = 1 \/ reader.lines[outer - 1] = "blank")
    /\ decoder.what = "previous" /\ err = "EOF" /\ reader.read > 0 /\ Last(reader.lines) # "blank" =>
         decoder.memory # <<>> /\ Last(decoder.memory) = reader.read

\* A row has the names of the last line before it that names columns; a result
\* without lines is a broken line, or a reader that ended.
RowsNamed ==
  \A g \in DOMAIN given :
    LET e == given[g] IN
    /\ e.lines # <<>> /\ decoder.codec = "w3c" /\ decoder.names =>
         e.columns = (IF \E i \in Of("fields") : i < e.lines[1]
                      THEN CHOOSE i \in Of("fields") : i < e.lines[1] /\ \A j \in i+1..e.lines[1] - 1 : j \notin Of("fields")
                      ELSE 0)
    /\ decoder.codec = "csv" => e.columns = (IF decoder.names /\ reader.lines # <<>> /\ reader.lines[1] = "other" THEN 1 ELSE 0)
    /\ e.lines = <<>> => decoder.codec \in {"json_lines", "csv", "plain"} /\ (Of("broken") # {} \/ AtEnd)
=============================================================================
