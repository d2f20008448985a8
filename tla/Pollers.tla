------------------------------ MODULE Pollers ------------------------------
(***************************************************************************)
(* The inputs that poll: pop3, and one poll of ldap, sql or the http       *)
(* poller at each tick.                                                    *)
(***************************************************************************)
EXTENDS Integers, SequencesExt, SinceDB

(***************************************************************************)
(* The inputs that ask and send what they get, at a Tick or for an event:  *)
(* ldap, sql and httppoller.  The scheduler starts each Tick in a          *)
(* goroutine of its own, so polls overlap; they share the processor's      *)
(* fields: ldap its connection, the http poller its request.  Of rows and  *)
(* records only their number in the answer is kept.                        *)
(***************************************************************************)
CONSTANTS
  Polls,     \* Ticks and Receives
  MaxRows,   \* bound: rows of an answer
  MaxLinks   \* bound: connections to the directory

VARIABLES
  asks,    \* kind, byRow of event_by, paging, ignoreFailure
  poll,    \* at, rows read, sent events, failed; its deferred Close and its search's link; what it asked with
  session, \* ldap: p.l, a link or 0 for nil
  links,   \* ldap: "unused", "open", "closed"
  request, \* http: the polls whose body is in p.request
  ended,   \* Stop came
  died,    \* a panic ended the program
  mixed    \* two polls were at it at a time
plVars == <<asks, poll, session, links, request, ended, died, mixed>>

NoPoll == [at |-> "idle", read |-> 0, sent |-> <<>>, failed |-> FALSE, closes |-> 0, uses |-> 0, asked |-> {}]
\* Configure of ldap tries a connection and closes it.
PLInit ==
  /\ asks \in [kind : {"ldap", "sql", "http"}, byRow : BOOLEAN, paging : BOOLEAN, ignoreFailure : BOOLEAN]
  /\ asks.kind # "ldap" => ~asks.paging
  /\ asks.kind = "http" => asks.byRow
  /\ asks.kind # "http" => ~asks.ignoreFailure
  /\ poll = [p \in Polls |-> NoPoll] /\ session = 1 /\ request = {}
  /\ links = [l \in 1..MaxLinks |-> IF l = 1 THEN "closed" ELSE "unused"]
  /\ ended = FALSE /\ died = FALSE /\ mixed = FALSE
-----------------------------------------------------------------------------
At(p, where) == ~died /\ poll[p].at = where
Steps(p, fields) == poll' = [poll EXCEPT ![p] = fields @@ @]
Moves(p, where) == Steps(p, [at |-> where])
Fails(p, where) == Steps(p, [at |-> where, failed |-> TRUE])
Dies == died' = TRUE /\ UNCHANGED <<poll, links>>
Busy(p) == poll[p].at \notin {"idle", "done"}
Upto(n) == [i \in 1..n |-> i]

\* Tick calls Receive.
Begins(p) ==
  /\ At(p, "idle")
  /\ Moves(p, CASE asks.kind = "ldap" -> "dial" [] asks.kind = "sql" -> "query" [] asks.kind = "http" -> "get")
  /\ mixed' = (mixed \/ \E q \in Polls : Busy(q))
  /\ UNCHANGED <<asks, session, links, request, ended, died>>
-----------------------------------------------------------------------------
\* initConn, whose errors Receive ignores: a dial that fails leaves nil.
DialLdap(p) ==
  /\ At(p, "dial")
  /\ \/ \E l \in 1..MaxLinks :
          /\ links[l] = "unused" /\ \A k \in 1..l - 1 : links[k] # "unused"
          /\ session' = l /\ links' = [links EXCEPT ![l] = "open"] /\ Moves(p, "bind")
     \/ session' = 0 /\ Fails(p, "defer") /\ UNCHANGED links
  /\ UNCHANGED <<asks, request, ended, died, mixed>>
BindLdap(p) ==
  /\ At(p, "bind")
  /\ IF session = 0 THEN Dies ELSE (Moves(p, "defer") \/ Fails(p, "defer")) /\ UNCHANGED <<links, died>>
  /\ UNCHANGED <<asks, session, request, ended, mixed>>
\* Mutant: the search is without the deferred Close.
DeferClose_Not(p) == At(p, "defer") /\ Moves(p, "search") /\ UNCHANGED <<asks, session, links, request, ended, died, mixed>>
\* defer p.l.Close() takes the connection there is now.
DeferClose(p) ==
  /\ At(p, "defer")
  /\ Steps(p, [at |-> "search", closes |-> session])
  /\ UNCHANGED <<asks, session, links, request, ended, died, mixed>>
SearchLdap(p) ==
  /\ At(p, "search")
  /\ IF session = 0 THEN Dies ELSE Steps(p, [at |-> "entries", uses |-> session]) /\ UNCHANGED <<links, died>>
  /\ UNCHANGED <<asks, session, request, ended, mixed>>
\* An error gives the entries read before with paging, else no result at all.
EntryRead(p) ==
  /\ At(p, "entries")
  /\ \/ links[poll[p].uses] = "open" /\ poll[p].read < MaxRows /\ Steps(p, [read |-> poll[p].read + 1]) /\ UNCHANGED <<links, died>>
     \/ links[poll[p].uses] = "open" /\ Moves(p, "records") /\ UNCHANGED <<links, died>>
     \/ IF asks.paging THEN Fails(p, "records") /\ UNCHANGED <<links, died>>
        ELSE died' = TRUE /\ Fails(p, "entries") /\ UNCHANGED links
  /\ UNCHANGED <<asks, session, request, ended, mixed>>
\* Mutant: the first entry is sent again for each.
Records_First(p) == [i \in 1..poll[p].read |-> <<1>>]
\* An event for each, or one for all.
Records(p) == IF asks.byRow THEN [i \in 1..poll[p].read |-> <<i>>] ELSE <<Upto(poll[p].read)>>
SendEntries(p) ==
  /\ At(p, "records")
  /\ Steps(p, [at |-> "return", sent |-> Records(p)])
  /\ UNCHANGED <<asks, session, links, request, ended, died, mixed>>
Deferred(p) ==
  /\ At(p, "return")
  /\ IF poll[p].closes = 0 THEN Dies ELSE links' = [links EXCEPT ![poll[p].closes] = "closed"] /\ Moves(p, "done") /\ UNCHANGED died
  /\ UNCHANGED <<asks, session, request, ended, mixed>>
-----------------------------------------------------------------------------
\* The database is closed for who asks after Stop; rows under way go on.
QuerySql(p) ==
  /\ At(p, "query")
  /\ \/ ~ended /\ Steps(p, [at |-> "rows", uses |-> 1])
     \/ Fails(p, "done")
  /\ UNCHANGED <<asks, session, links, request, ended, died, mixed>>
\* Scan; an error returns with the rows open.
RowRead(p) ==
  /\ At(p, "rows") /\ poll[p].read < MaxRows
  /\ \/ Steps(p, [read |-> poll[p].read + 1,
                  sent |-> IF asks.byRow THEN Append(poll[p].sent, <<poll[p].read + 1>>) ELSE poll[p].sent])
     \/ Fails(p, "done")
  /\ UNCHANGED <<asks, session, links, request, ended, died, mixed>>
\* Next gives no more, at the end or at an error: rows.Err is not asked.
RowsEnd(p) ==
  /\ At(p, "rows")
  /\ Steps(p, [at |-> "done", uses |-> 0, sent |-> IF asks.byRow THEN poll[p].sent ELSE <<Upto(poll[p].read)>>])
  /\ UNCHANGED <<asks, session, links, request, ended, died, mixed>>
-----------------------------------------------------------------------------
\* p.request.Get clears the request that all polls share, and Send adds to it.
GetHttp(p) == At(p, "get") /\ request' = {} /\ Moves(p, "send") /\ UNCHANGED <<asks, session, links, ended, died, mixed>>
SendHttp(p) == At(p, "send") /\ request' = request \cup {p} /\ Moves(p, "end") /\ UNCHANGED <<asks, session, links, ended, died, mixed>>
EndHttp(p) ==
  /\ At(p, "end")
  /\ \/ Steps(p, [at |-> "decode", asked |-> request])
     \/ Steps(p, [at |-> "done", asked |-> request, failed |-> TRUE, sent |-> IF asks.ignoreFailure THEN <<>> ELSE <<<<>>>>])
  /\ UNCHANGED <<asks, session, links, request, ended, died, mixed>>
\* The request's maps are written by two at a time.
ClashHttp == ~died /\ (\E p, q \in Polls : p # q /\ poll[p].at \in {"send", "end"} /\ poll[q].at = "get") /\ Dies
             /\ UNCHANGED <<asks, session, request, ended, mixed>>
\* A record, then a look at q, closed by Stop.
DecodeHttp(p) ==
  /\ At(p, "decode")
  /\ \/ /\ poll[p].read < MaxRows
        /\ Steps(p, [at |-> IF ended THEN "done" ELSE "decode", read |-> poll[p].read + 1, sent |-> Append(poll[p].sent, <<poll[p].read + 1>>)])
     \/ Fails(p, "done")
     \/ Moves(p, "done")
  /\ UNCHANGED <<asks, session, links, request, ended, died, mixed>>
-----------------------------------------------------------------------------
PLStop ==
  /\ ~died /\ ~ended /\ ended' = TRUE
  /\ IF asks.kind # "ldap" THEN UNCHANGED <<poll, links, died>>
     ELSE IF session = 0 THEN Dies ELSE links' = [links EXCEPT ![session] = "closed"] /\ UNCHANGED <<poll, died>>
  /\ UNCHANGED <<asks, session, request, mixed>>

PLNext ==
  \/ PLStop \/ ClashHttp
  \/ \E p \in Polls :
       \/ Begins(p) \/ DialLdap(p) \/ BindLdap(p) \/ DeferClose(p) \/ SearchLdap(p) \/ EntryRead(p) \/ SendEntries(p) \/ Deferred(p)
       \/ QuerySql(p) \/ RowRead(p) \/ RowsEnd(p) \/ GetHttp(p) \/ SendHttp(p) \/ EndHttp(p) \/ DecodeHttp(p)
PLSpec == PLInit /\ [][PLNext]_plVars
-----------------------------------------------------------------------------
PLTypeOK ==
  /\ \A p \in Polls : poll[p].read \in 0..MaxRows /\ poll[p].asked \subseteq Polls
                      /\ poll[p].closes \in 0..MaxLinks /\ poll[p].uses \in 0..MaxLinks
  /\ session \in 0..MaxLinks /\ \A l \in 1..MaxLinks : links[l] \in {"unused", "open", "closed"}
  /\ request \subseteq Polls /\ ended \in BOOLEAN /\ died \in BOOLEAN /\ mixed \in BOOLEAN

\* The events of a poll hold what it read, in order and once, whoever else polls
\* meanwhile; a poll that did not fail sent all of it.
PolledInOrder ==
  \A p \in Polls :
    LET rows == FlattenSeq(poll[p].sent) IN
    /\ IsPrefix(rows, Upto(poll[p].read))
    /\ poll[p].at = "done" /\ ~poll[p].failed => rows = Upto(poll[p].read)

\* While no two polls overlap each asks with its own event's body, and leaves
\* neither a connection nor, unless a row could not be read, rows open.
PollsAlone ==
  ~mixed =>
    /\ \A p \in Polls : poll[p].asked \subseteq {p}
    /\ ~died /\ (\A p \in Polls : ~Busy(p)) =>
         /\ \A l \in 1..MaxLinks : links[l] # "open"
         /\ asks.kind = "sql" => \A p \in Polls : poll[p].uses # 0 => poll[p].failed

\* A poll alone only ends the program when the directory is away, or without
\* paging does not answer.
DiesAway == died /\ ~mixed => asks.kind = "ldap" /\ (session = 0 \/ (~asks.paging /\ \E p \in Polls : poll[p].failed))
-----------------------------------------------------------------------------
(***************************************************************************)
(* The pop3 input (processors/pop3): a tick lists the mailbox, leaves out  *)
(* the mails up to the one whose UID it has in its SinceDB, and sends the  *)
(* others, oldest first, each of which it marks to be deleted.  The server *)
(* (external) deletes what is marked when the session is quit, and has one *)
(* session at a time.  Mails are numbered as they arrive.                  *)
(***************************************************************************)
CONSTANTS
  Delete,    \* the option
  Uid,       \* the resource of the SinceDB
  MaxMails,  \* bound: mails that arrive
  MaxWoes    \* bound: failures, exits, and mails deleted by others

VARIABLES
  mailbox,  \* the mails in it, in order; how many arrived; the bad ones, that no one can read
  visit,  \* at "none", "open", "set" or "dele"; its connection works; mails left to do;
            \* mails marked
  mailed,   \* history: mails sent; deleted by the program; by others
  woes      \* failures so far
popVars == <<mailbox, visit, mailed, woes, sinceVars>>

NoSession == [at |-> "none", up |-> FALSE, todo |-> <<>>, marked |-> {}]
PPInit ==
  /\ mailbox \in {[mails |-> <<>>, last |-> 0, bad |-> b] : b \in {{}} \cup {{m} : m \in 1..MaxMails}}
  /\ visit = NoSession /\ woes = 0
  /\ mailed = [sent |-> <<>>, deleted |-> {}, others |-> {}]
  /\ stored = <<>> /\ NewSinceDB
-----------------------------------------------------------------------------
Arrive ==
  /\ mailbox.last < MaxMails
  /\ mailbox' = [mailbox EXCEPT !.mails = Append(@, mailbox.last + 1), !.last = @ + 1]
  /\ UNCHANGED <<visit, mailed, woes, sinceVars>>
LessMails(mails, gone) == SelectSeq(mails, LAMBDA m : m \notin gone)
OthersDelete ==
  /\ woes < MaxWoes /\ woes' = woes + 1 /\ visit.at = "none"
  /\ \E m \in ToSet(mailbox.mails) :
       /\ mailbox' = [mailbox EXCEPT !.mails = LessMails(@, {m})]
       /\ mailed' = [mailed EXCEPT !.others = @ \cup {m}]
  /\ UNCHANGED <<visit, sinceVars>>

\* Receive and UidlAll: from the newest on, until the UID that was seen last.
LastSeen == IF InMap(Uid) THEN offsets[Uid] ELSE OffsetStored(Uid)
Unseen(mails) ==
  LET from == IF LastSeen \in ToSet(mails) THEN CHOOSE i \in DOMAIN mails : mails[i] = LastSeen ELSE 0
  IN SubSeq(mails, from + 1, Len(mails))
\* Mutant: the mails are done as they were collected, newest first.
Login_NewestFirst ==
  /\ visit.at = "none"
  /\ visit' = [at |-> "open", up |-> TRUE, todo |-> Reverse(Unseen(mailbox.mails)), marked |-> {}]
  /\ UNCHANGED <<mailbox, mailed, woes, sinceVars>>
Login ==
  /\ visit.at = "none"
  /\ visit' = [at |-> "open", up |-> TRUE, todo |-> Unseen(mailbox.mails), marked |-> {}]
  /\ UNCHANGED <<mailbox, mailed, woes, sinceVars>>
Goes(at) == visit' = [visit EXCEPT !.at = at]
\* The connection is lost, which a later command finds out.
Disconnected ==
  /\ visit.at # "none" /\ visit.up /\ woes < MaxWoes /\ woes' = woes + 1
  /\ visit' = [visit EXCEPT !.up = FALSE] /\ UNCHANGED <<mailbox, mailed, sinceVars>>

\* QUIT deletes the marked mails.
Quit ==
  /\ visit.at = "open" /\ visit.todo = <<>> /\ visit' = NoSession
  /\ IF visit.up THEN /\ mailbox' = [mailbox EXCEPT !.mails = LessMails(@, visit.marked)]
                        /\ mailed' = [mailed EXCEPT !.deleted = @ \cup visit.marked]
     ELSE UNCHANGED <<mailbox, mailed>>
  /\ UNCHANGED <<woes, sinceVars>>
\* RETR fails, and what came is no mail: the marks are taken back, and the mails
\* after this one wait for another tick.
RetrFails ==
  /\ visit.at = "open" /\ visit.todo # <<>>
  /\ IF visit.up THEN woes < MaxWoes /\ woes' = woes + 1 ELSE UNCHANGED woes
  /\ visit' = [visit EXCEPT !.todo = <<>>, !.marked = {}]
  /\ UNCHANGED <<mailbox, mailed, sinceVars>>
\* A mail that came but cannot be read: as above, and the marks stay.
Unreadable ==
  /\ visit.at = "open" /\ visit.up /\ visit.todo # <<>> /\ Head(visit.todo) \in mailbox.bad
  /\ visit' = [visit EXCEPT !.todo = <<>>]
  /\ UNCHANGED <<mailbox, mailed, woes, sinceVars>>
PPSend ==
  /\ visit.at = "open" /\ visit.up /\ visit.todo # <<>> /\ Head(visit.todo) \notin mailbox.bad
  /\ mailed' = [mailed EXCEPT !.sent = Append(@, Head(visit.todo))]
  /\ Goes("set") /\ UNCHANGED <<mailbox, woes, sinceVars>>
\* Four seconds later.
PPSet ==
  /\ visit.at = "set" /\ SetRessourceOffset(Uid, Head(visit.todo))
  /\ visit' = IF Delete THEN [visit EXCEPT !.at = "dele"] ELSE [visit EXCEPT !.at = "open", !.todo = Tail(@)]
  /\ UNCHANGED <<mailbox, mailed, woes, stored, saver, looping>>
\* An error of DELE ends the loop.
Dele ==
  /\ visit.at = "dele"
  /\ visit' = IF visit.up THEN [visit EXCEPT !.at = "open", !.todo = Tail(@), !.marked = @ \cup {Head(visit.todo)}]
                ELSE [visit EXCEPT !.at = "open", !.todo = <<>>]
  /\ UNCHANGED <<mailbox, mailed, woes, sinceVars>>

\* The program exits and another begins, as when the server cannot be reached: the
\* client that could not be made is closed.  (Stop waits for the visit and leaves
\* the SinceDB to its looper, which it does not end.)
PPRestart ==
  /\ woes < MaxWoes /\ woes' = woes + 1
  /\ visit' = NoSession
  /\ offsets' = <<>> /\ saver' = [s \in Savers |-> Idle] /\ looping' = TRUE
  /\ UNCHANGED <<mailbox, mailed, stored>>

PPSaver == (\E s \in Savers : SaveStep(s)) \/ LooperTick
Mailing == Login \/ Quit \/ RetrFails \/ Unreadable \/ PPSend \/ PPSet \/ Dele
PPNext ==
  \/ Arrive \/ OthersDelete \/ Disconnected \/ Mailing \/ PPRestart
  \/ PPSaver /\ UNCHANGED <<mailbox, visit, mailed, woes>>
PPSpec == PPInit /\ [][PPNext]_popVars
-----------------------------------------------------------------------------
PPTypeOK ==
  /\ visit.at \in {"none", "open", "set", "dele"} /\ visit.up \in BOOLEAN
  /\ ToSet(mailbox.mails) \subseteq 1..MaxMails /\ mailbox.last \in 0..MaxMails
  /\ DOMAIN offsets \subseteq {Uid} /\ DOMAIN stored \subseteq {Uid} /\ woes \in 0..MaxWoes

Mails == 1..mailbox.last
\* The program deletes no mail that it has not sent, and passes none over: before
\* a mail that was sent, all were, or others had deleted them.  Exits, lost
\* connections and marks taken back change nothing of it.
NoMailLost ==
  /\ Mails \ ToSet(mailbox.mails) \subseteq mailed.deleted \cup mailed.others
  /\ mailed.deleted \subseteq ToSet(mailed.sent)
  /\ \A m \in ToSet(mailed.sent) : 1..m \subseteq ToSet(mailed.sent) \cup mailed.others

\* While nothing fails a mail is sent once, also when one that cannot be read
\* stops every tick, which leaves itself and all after it in the mailbox.
SentOnce ==
  woes = 0 => /\ IsInjective(mailed.sent)
              /\ \A m \in ToSet(mailed.sent), b \in mailbox.bad : m < b
=============================================================================
