-------------------------- MODULE ProcessorProofs --------------------------
(***************************************************************************)
(* The safety properties of the processors of Components that come after   *)
(* an input, for any number of workers and any bound on what they do: the  *)
(* filters that remember, for any terms, values, addresses, cache sizes    *)
(* and options, and the outputs that gather events or share a connection,  *)
(* for any sizes of batches and pools.                                     *)
(***************************************************************************)
EXTENDS Components, FiniteSetTheorems, SequenceTheorems, TLAPS

(***************************************************************************)
(* newterm.                                                                *)
(***************************************************************************)
\* What a worker holds is a term, but for an event without the field that it
\* sends, and a term it is about to pass it did not pass before.
Holds ==
  \A w \in Filters :
    /\ filtering[w].pc = "idle" => filtering[w].term = "none"
    /\ filtering[w].pc \in {"search", "append"} => filtering[w].term # "none"
    /\ filtering[w].pc \in {"append", "send"} /\ filtering[w].term # "none" => passed[w][filtering[w].term] = 0
    /\ filtering[w].pc = "send" /\ filtering[w].term # "none" => filtering[w].term \in terms

\* The list has what was passed, and what is new in it was passed or will be.
Passes(w, t) == passed[w][t] > 0 \/ (filtering[w].pc = "send" /\ filtering[w].term = t)
ListTrue ==
  /\ \A w \in Filters, t \in Terms : passed[w][t] > 0 => t \in terms
  /\ \A t \in terms \ Configured : \E w \in Filters : Passes(w, t)
  /\ \A t \in Terms : seen[t] > 0 => t \in terms \/ \E w \in Filters : filtering[w].term = t

NTInv == NTTypeOK /\ OncePerWorker /\ Holds /\ ListTrue

LEMMA HeldIs == Terms \subseteq Held /\ "none" \in Held /\ \A t \in Held : t \in Terms \/ t = "none"
BY DEF Held

NTPlaces == {"idle", "search", "append", "send"}
LEMMA NTFields ==
  ASSUME NTTypeOK
  PROVE  /\ \A w \in Filters, t \in Held : passed[w][t] \in Nat
         /\ \A w \in Filters : filtering[w].pc \in NTPlaces /\ filtering[w].term \in Held
<1>1. \A w \in Filters : passed[w] \in [Held -> Nat] BY DEF NTTypeOK
<1>2. \A w \in Filters, t \in Held : passed[w][t] \in Nat BY <1>1
<1>3. \A w \in Filters : filtering[w] \in [pc : NTPlaces, term : Held] BY DEF NTTypeOK, NTPlaces
<1>4. QED BY <1>2, <1>3

LEMMA NTStarts == ASSUME FilterBounds, NTInit PROVE NTInv
<1>1. /\ "none" \notin Terms /\ Configured \subseteq Terms /\ terms = Configured /\ Terms \subseteq Held
      /\ "none" \in Held
  BY HeldIs DEF FilterBounds, NTInit
<1>2. \A w \in Filters : filtering[w] = Resting /\ Resting.pc = "idle" /\ Resting.term = "none"
  BY DEF NTInit, Resting
<1>3. \A w \in Filters, t \in Held : passed[w][t] = 0
  <2>1. \A w \in Filters : passed[w] = [t \in Held |-> 0] BY DEF NTInit
  <2>2. QED BY <2>1
<1>4. \A t \in Held : seen[t] = 0 BY DEF NTInit
<1>5. NTTypeOK
  <2>1. [t \in Held |-> 0] \in [Held -> Nat] OBVIOUS
  <2>2. Resting \in [pc : {"idle", "search", "append", "send"}, term : Held] BY <1>1 DEF Resting
  <2>3. passed \in [Filters -> [Held -> Nat]] BY <2>1 DEF NTInit
  <2>4. filtering \in [Filters -> [pc : {"idle", "search", "append", "send"}, term : Held]] BY <2>2 DEF NTInit
  <2>5. seen \in [Held -> Nat] BY DEF NTInit
  <2>6. QED BY <1>1, <2>3, <2>4, <2>5 DEF NTTypeOK
<1>6. OncePerWorker
  <2>1. \A w \in Filters, t \in Terms : passed[w][t] = 0 BY <1>1, <1>3
  <2>2. QED BY <2>1 DEF OncePerWorker
<1>9. Holds BY <1>2 DEF Holds
<1>7. ListTrue
  <2>1. \A w \in Filters, t \in Terms : ~(passed[w][t] > 0) BY <1>1, <1>3
  <2>2. \A t \in Terms : ~(seen[t] > 0) BY <1>1, <1>4
  <2>3. QED BY <1>1, <2>1, <2>2 DEF ListTrue
<1>8. QED BY <1>5, <1>6, <1>7, <1>9 DEF NTInv

LEMMA NTReceives == ASSUME FilterBounds, NTInv, NEW w \in Filters, NTReceive(w) PROVE NTInv'
<1>1. /\ terms' = terms /\ passed' = passed /\ NTTypeOK /\ filtering[w].pc = "idle" /\ filtering[w].term = "none"
      /\ "none" \notin Terms /\ terms \subseteq Terms
  BY DEF NTReceive, NTInv, NTTypeOK, Holds, FilterBounds
<1>2. PICK t \in Held : /\ seen' = [seen EXCEPT ![t] = @ + 1]
                        /\ \/ t = "none" /\ filtering' = filtering
                           \/ t = "none" /\ filtering' = [filtering EXCEPT ![w] = [pc |-> "send", term |-> t]]
                           \/ t \in Terms /\ filtering' = [filtering EXCEPT ![w] = [pc |-> "search", term |-> t]]
  BY DEF NTReceive, NTStep, Held
<1>3. NTTypeOK'
  <2>1. seen' \in [Held -> Nat] BY <1>1, <1>2 DEF NTTypeOK
  <2>2. filtering' \in [Filters -> [pc : {"idle", "search", "append", "send"}, term : Held]]
    BY <1>1, <1>2 DEF NTTypeOK
  <2>3. QED BY <1>1, <2>1, <2>2 DEF NTTypeOK
<1>4. \A v \in Filters : \/ filtering'[v] = filtering[v]
                         \/ v = w /\ filtering'[v].pc = "send" /\ filtering'[v].term = "none"
                         \/ v = w /\ filtering'[v].pc = "search" /\ filtering'[v].term = t /\ t \in Terms
  BY <1>1, <1>2 DEF NTTypeOK
<1>5. Holds'
  <2>1. Holds BY DEF NTInv
  <2>2. QED BY <1>1, <1>4, <2>1 DEF Holds
<1>6. ListTrue'
  <2>1. ListTrue BY DEF NTInv
  <2>2. \A u \in terms \ Configured : \E v \in Filters : Passes(v, u)'
    <3>1. TAKE u \in terms \ Configured
    <3>2. PICK v \in Filters : Passes(v, u) BY <2>1 DEF ListTrue
    <3>3. v = w => ~(filtering[v].pc = "send" /\ filtering[v].term = u) BY <1>1
    <3>4. v # w => filtering'[v] = filtering[v] BY <1>4
    <3>5. QED BY <1>1, <3>2, <3>3, <3>4 DEF Passes
  <2>3. \A u \in Terms : seen'[u] > 0 => u \in terms \/ \E v \in Filters : filtering'[v].term = u
    <3>1. SUFFICES ASSUME NEW u \in Terms, seen'[u] > 0, u \notin terms PROVE \E v \in Filters : filtering'[v].term = u
      OBVIOUS
    <3>2. CASE u = t
      <4>1. t \in Terms /\ filtering' = [filtering EXCEPT ![w] = [pc |-> "search", term |-> t]] BY <1>1, <1>2, <3>2
      <4>2. filtering'[w].term = t BY <1>1, <4>1 DEF NTTypeOK
      <4>3. QED BY <3>2, <4>2
    <3>3. CASE u # t
      <4>1. seen[u] > 0 BY <1>1, <1>2, <3>1, <3>3 DEF NTTypeOK, Held
      <4>2. PICK v \in Filters : filtering[v].term = u BY <2>1, <3>1, <4>1 DEF ListTrue
      <4>3. v # w BY <1>1, <4>2
      <4>4. QED BY <1>4, <4>2, <4>3
    <3>4. QED BY <3>2, <3>3
  <2>4. QED BY <1>1, <2>1, <2>2, <2>3 DEF ListTrue
<1>7. QED BY <1>1, <1>3, <1>5, <1>6 DEF NTInv, OncePerWorker

LEMMA NTSearches == ASSUME FilterBounds, NTInv, NEW w \in Filters, NTSearch(w) PROVE NTInv'
<1>1. /\ terms' = terms /\ passed' = passed /\ seen' = seen /\ NTTypeOK /\ filtering[w].pc = "search"
      /\ filtering[w].term \in Terms /\ "none" \notin Terms
  BY DEF NTSearch, NTInv, NTTypeOK, Holds, FilterBounds, Held
<1> DEFINE t == filtering[w].term
<1>2. PICK new \in [pc : {"idle", "append"}, term : Held] :
        /\ filtering' = [filtering EXCEPT ![w] = new]
        /\ \/ t \in terms /\ new.pc = "idle" /\ new.term = "none"
           \/ t \notin terms /\ new.pc = "append" /\ new.term = t
  <2>1. "none" \in Held /\ t \in Held BY <1>1 DEF Held
  <2>2. CASE t \in terms
    <3> DEFINE new == [pc |-> "idle", term |-> "none"]
    <3>1. filtering' = [filtering EXCEPT ![w] = new] BY <2>2 DEF NTSearch, NTStep
    <3>2. new \in [pc : {"idle", "append"}, term : Held] /\ new.pc = "idle" /\ new.term = "none" BY <2>1
    <3> HIDE DEF new
    <3>3. QED BY <2>2, <3>1, <3>2
  <2>3. CASE t \notin terms
    <3> DEFINE new == [pc |-> "append", term |-> t]
    <3>1. filtering' = [filtering EXCEPT ![w] = new] BY <2>3 DEF NTSearch, NTStep
    <3>2. new \in [pc : {"idle", "append"}, term : Held] /\ new.pc = "append" /\ new.term = t BY <2>1
    <3> HIDE DEF new
    <3>3. QED BY <2>3, <3>1, <3>2
  <2>4. QED BY <2>2, <2>3
<1>3. NTTypeOK' BY <1>1, <1>2 DEF NTTypeOK
<1>4. filtering'[w] = new /\ \A v \in Filters \ {w} : filtering'[v] = filtering[v] BY <1>1, <1>2 DEF NTTypeOK
<1>5. Holds'
  <2>1. Holds BY DEF NTInv
  <2>2. t \notin terms => passed[w][t] = 0
    <3>1. passed[w][t] \in Nat BY <1>1, NTFields
    <3>2. t \in Terms /\ ListTrue BY <1>1 DEF NTInv
    <3>3. QED BY <3>1, <3>2 DEF ListTrue
  <2>3. new.term # "none" => new.pc = "append" /\ new.term = t /\ t \notin terms BY <1>2
  <2>4. QED BY <1>1, <1>2, <1>4, <2>1, <2>2, <2>3 DEF Holds
<1>6. ListTrue'
  <2>1. ListTrue BY DEF NTInv
  <2>2. \A u \in terms \ Configured : \E v \in Filters : Passes(v, u)'
    <3>1. TAKE u \in terms \ Configured
    <3>2. PICK v \in Filters : Passes(v, u) BY <2>1 DEF ListTrue
    <3>3. v = w => ~(filtering[v].pc = "send" /\ filtering[v].term = u) BY <1>1
    <3>4. QED BY <1>1, <1>4, <3>2, <3>3 DEF Passes
  <2>3. \A u \in Terms : seen[u] > 0 => u \in terms \/ \E v \in Filters : filtering'[v].term = u
    <3>1. SUFFICES ASSUME NEW u \in Terms, seen[u] > 0, u \notin terms PROVE \E v \in Filters : filtering'[v].term = u
      OBVIOUS
    <3>2. PICK v \in Filters : filtering[v].term = u BY <2>1, <3>1 DEF ListTrue
    <3>3. QED BY <1>2, <1>4, <3>1, <3>2
  <2>4. QED BY <1>1, <2>1, <2>2, <2>3 DEF ListTrue
<1>7. QED BY <1>1, <1>3, <1>5, <1>6 DEF NTInv, OncePerWorker

LEMMA NTAppends == ASSUME FilterBounds, NTInv, NEW w \in Filters, NTAppend(w) PROVE NTInv'
<1>1. /\ passed' = passed /\ seen' = seen /\ NTTypeOK /\ filtering[w].pc = "append"
      /\ filtering[w].term \in Terms /\ "none" \notin Terms
  BY DEF NTAppend, NTInv, NTTypeOK, Holds, FilterBounds, Held
<1> DEFINE t == filtering[w].term
<1>2. filtering' = [filtering EXCEPT ![w] = [pc |-> "send", term |-> t]] /\ terms' = terms \cup {t}
  BY DEF NTAppend, NTStep
<1>3. NTTypeOK' BY <1>1, <1>2 DEF NTTypeOK, Held
<1>4. /\ filtering'[w] = [pc |-> "send", term |-> t]
      /\ \A v \in Filters \ {w} : filtering'[v] = filtering[v]
  BY <1>1, <1>2 DEF NTTypeOK
<1> HIDE DEF t
<1>5. filtering[w].term = t BY DEF t
<1>6. Holds'
  <2>1. Holds BY DEF NTInv
  <2>2. QED BY <1>1, <1>2, <1>4, <1>5, <2>1 DEF Holds
<1>7. ListTrue'
  <2>1. ListTrue BY DEF NTInv
  <2>2. \A u \in terms' \ Configured : \E v \in Filters : Passes(v, u)'
    <3>1. TAKE u \in terms' \ Configured
    <3>2. CASE u = t BY <1>4, <3>2 DEF Passes
    <3>3. CASE u # t
      <4>1. PICK v \in Filters : Passes(v, u)
        BY <1>2, <2>1, <3>3 DEF ListTrue
      <4>2. v = w => ~(filtering[v].pc = "send" /\ filtering[v].term = u) BY <1>1
      <4>3. QED BY <1>1, <1>4, <4>1, <4>2 DEF Passes
    <3>4. QED BY <3>2, <3>3
  <2>3. \A u \in Terms : seen[u] > 0 => u \in terms' \/ \E v \in Filters : filtering'[v].term = u
    BY <1>2, <1>4, <1>5, <2>1 DEF ListTrue
  <2>4. QED BY <1>1, <1>2, <2>1, <2>2, <2>3 DEF ListTrue
<1>8. QED BY <1>1, <1>3, <1>6, <1>7 DEF NTInv, OncePerWorker

LEMMA NTSends == ASSUME FilterBounds, NTInv, NEW w \in Filters, NTSend(w) PROVE NTInv'
<1>1. /\ terms' = terms /\ seen' = seen /\ NTTypeOK /\ filtering[w].pc = "send" /\ filtering[w].term \in Held
      /\ "none" \notin Terms /\ terms \subseteq Terms
  BY DEF NTSend, NTInv, NTTypeOK, FilterBounds
<1> DEFINE t == filtering[w].term
<1>2. /\ filtering' = [filtering EXCEPT ![w] = [pc |-> "idle", term |-> "none"]]
      /\ passed' = [passed EXCEPT ![w][t] = @ + 1]
  BY DEF NTSend, NTStep
<1>3. passed \in [Filters -> [Held -> Nat]] /\ filtering \in [Filters -> [pc : {"idle", "search", "append", "send"}, term : Held]]
  BY <1>1 DEF NTTypeOK
<1>4. /\ filtering'[w] = [pc |-> "idle", term |-> "none"]
      /\ \A v \in Filters \ {w} : filtering'[v] = filtering[v]
  BY <1>2, <1>3
<1> HIDE DEF t
<1>5. filtering[w].term = t BY DEF t
<1>6. /\ passed'[w][t] = passed[w][t] + 1
      /\ \A v \in Filters, u \in Held : v # w \/ u # t => passed'[v][u] = passed[v][u]
  BY <1>1, <1>2, <1>3, <1>5
<1>7. NTTypeOK'
  <2>1. passed[w] \in [Held -> Nat] /\ [passed[w] EXCEPT ![t] = passed[w][t] + 1] \in [Held -> Nat]
    BY <1>1, <1>3, <1>5
  <2>2. passed' \in [Filters -> [Held -> Nat]] BY <1>2, <1>3, <2>1
  <2>3. QED BY <1>1, <1>2, <2>2 DEF NTTypeOK, Held
<1>8. OncePerWorker' /\ Holds'
  <2>1. OncePerWorker /\ Holds BY DEF NTInv
  <2>2. t \in Terms => passed[w][t] = 0 /\ passed'[w][t] = 1 BY <1>1, <1>5, <1>6, <2>1 DEF Holds
  <2>3. OncePerWorker' BY <1>6, <2>1, <2>2 DEF OncePerWorker, Held
  <2>4. Holds' BY <1>1, <1>3, <1>4, <1>6, <2>1 DEF Holds
  <2>5. QED BY <2>3, <2>4
<1>9. ListTrue'
  <2>1. ListTrue BY DEF NTInv
  <2>2. \A v \in Filters, u \in Terms : passed'[v][u] > 0 => u \in terms
    <3>1. t \in Terms => t \in terms BY <1>1, <1>5 DEF NTInv, Holds
    <3>2. QED BY <1>6, <2>1, <3>1 DEF ListTrue, Held
  <2>3. \A u \in terms \ Configured : \E v \in Filters : Passes(v, u)'
    <3>1. TAKE u \in terms \ Configured
    <3>2. PICK v \in Filters : Passes(v, u) BY <2>1 DEF ListTrue
    <3>3. u \in Held /\ passed[w][t] \in Nat /\ passed[v][u] \in Nat BY <1>1, <1>3, <1>5 DEF Held
    <3>4. CASE v = w /\ u = t BY <1>6, <3>3, <3>4 DEF Passes
    <3>5. CASE v = w /\ u # t BY <1>5, <1>6, <3>2, <3>3, <3>5 DEF Passes
    <3>6. CASE v # w BY <1>4, <1>6, <3>2, <3>3, <3>6 DEF Passes
    <3>7. QED BY <3>4, <3>5, <3>6
  <2>4. \A u \in Terms : seen[u] > 0 => u \in terms \/ \E v \in Filters : filtering'[v].term = u
    <3>1. SUFFICES ASSUME NEW u \in Terms, seen[u] > 0, u \notin terms PROVE \E v \in Filters : filtering'[v].term = u
      OBVIOUS
    <3>2. PICK v \in Filters : filtering[v].term = u BY <2>1, <3>1 DEF ListTrue
    <3>3. v # w BY <1>1, <3>1, <3>2 DEF NTInv, Holds
    <3>4. QED BY <1>4, <3>2, <3>3
  <2>5. QED BY <1>1, <2>2, <2>3, <2>4 DEF ListTrue
<1>10. QED BY <1>7, <1>8, <1>9 DEF NTInv

LEMMA NTSteps == ASSUME FilterBounds, NTInv, [NTNext]_ntVars PROVE NTInv'
<1>1. CASE UNCHANGED ntVars BY <1>1 DEF ntVars, NTInv, NTTypeOK, OncePerWorker, Holds, ListTrue, Passes
<1>2. CASE NTNext BY <1>2, NTReceives, NTSearches, NTAppends, NTSends DEF NTNext
<1>3. QED BY <1>1, <1>2

LEMMA NTSounds == ASSUME FilterBounds, NTInv PROVE OncePerWorker /\ NewTermPasses
<1>1. ASSUME NEW t \in Terms \ Configured, seen[t] > 0, \A w \in Filters : filtering[w].term # t
      PROVE  \E w \in Filters : passed[w][t] > 0
  <2>1. t \in terms BY <1>1 DEF NTInv, ListTrue
  <2>2. PICK w \in Filters : Passes(w, t) BY <1>1, <2>1 DEF NTInv, ListTrue
  <2>3. QED BY <1>1, <2>2 DEF Passes
<1>2. QED BY <1>1 DEF NTInv, NewTermPasses
-----------------------------------------------------------------------------
(***************************************************************************)
(* change.                                                                 *)
(***************************************************************************)
\* Who has the mutex, what the fields say of the last event, and that the
\* timer can be reached as long as there is one.
Mutexed ==
  /\ doing \in {"reset", "judge"} => mu = "worker"
  /\ doing \in {"idle", "lock", "stop", "drain", "stopped"} => mu = "nobody"
Remembers ==
  /\ first <=> heard = "none"
  /\ mu = "nobody" /\ ~first => lastValue = heard
  /\ doing \in {"reset", "judge"} => lastValue = value /\ (~first => was = heard)
Reachable == timer # "off" => hop

CFInv == CFTypeOK /\ Mutexed /\ Remembers /\ Reachable /\ PassesExactlyChanges /\ StoppedHasNoTimer

LEMMA CFStarts == ASSUME FilterBounds, CFInit PROVE CFInv
<1>1. NoValue \in Texts /\ "none" \notin Texts /\ MaxChanges \in Nat BY DEF Texts, FilterBounds
<1>2. CFTypeOK
  <2>1. verdict \in [before : Texts \cup {"none"}, value : Texts, passed : BOOLEAN] BY <1>1 DEF CFInit
  <2>2. {lastValue, was, value} \subseteq Texts /\ heard \in Texts \cup {"none"} /\ changes \in 0..MaxChanges
    BY <1>1 DEF CFInit
  <2>3. {first, hop} \subseteq BOOLEAN /\ timer \in {"off", "armed", "fired"} /\ mu \in {"nobody", "worker"}
    BY DEF CFInit
  <2>4. doing \in {"idle", "lock", "reset", "judge", "stop", "drain", "blocked", "panic", "stopped"} BY DEF CFInit
  <2>5. QED BY <2>1, <2>2, <2>3, <2>4 DEF CFTypeOK
<1>3. QED BY <1>1, <1>2 DEF CFInit, CFInv, Mutexed, Remembers, Reachable, PassesExactlyChanges, StoppedHasNoTimer

LEMMA CFSteps == ASSUME FilterBounds, CFInv, [CFNext]_cfVars PROVE CFInv'
<1>1. CFTypeOK /\ "none" \notin Texts /\ MaxChanges \in Nat /\ Timeframe \in BOOLEAN BY DEF FilterBounds, CFInv
<1>2. CFTypeOK'
  <2>1. CASE UNCHANGED cfVars BY <1>1, <2>1 DEF cfVars, CFTypeOK
  <2>2. CASE CFReceive BY <1>1, <2>2 DEF CFReceive, CFTypeOK
  <2>3. CASE CFLock BY <1>1, <2>3 DEF CFLock, CFTypeOK
  <2>4. CASE ResetTimer BY <1>1, <2>4 DEF ResetTimer, CFTypeOK
  <2>5. CASE CFJudge
    <3>1. [before |-> heard, value |-> value, passed |-> ~first /\ was # value]
            \in [before : Texts \cup {"none"}, value : Texts, passed : BOOLEAN]
      BY <1>1 DEF CFTypeOK
    <3>2. QED BY <1>1, <2>5, <3>1 DEF CFJudge, CFTypeOK
  <2>6. CASE Expire BY <1>1, <2>6 DEF Expire, CFTypeOK
  <2>7. CASE ForgetValue
    <3>1. NoValue \in Texts BY DEF Texts
    <3>2. QED BY <1>1, <2>7, <3>1 DEF ForgetValue, CFTypeOK
  <2>8. CASE CFStop \/ StopTimer \/ DrainTimer BY <1>1, <2>8 DEF CFStop, StopTimer, DrainTimer, CFTypeOK
  <2>9. QED BY <2>1, <2>2, <2>3, <2>4, <2>5, <2>6, <2>7, <2>8 DEF CFNext, CFWorker
<1> USE DEF CFInv, Mutexed, Remembers, Reachable, PassesExactlyChanges, StoppedHasNoTimer
<1>3. CASE UNCHANGED cfVars BY <1>2, <1>3 DEF cfVars
<1>4. CASE CFReceive BY <1>2, <1>4 DEF CFReceive
<1>5. CASE CFLock BY <1>2, <1>5 DEF CFLock
<1>6. CASE ResetTimer BY <1>1, <1>2, <1>6 DEF ResetTimer, CFTypeOK
\* The verdict: was is the value heard before, if there is one.
<1>7. CASE CFJudge
  <2>1. /\ doing = "judge" /\ mu = "worker" /\ lastValue = value /\ value \in Texts /\ first \in BOOLEAN
        /\ timer' = timer /\ hop' = hop /\ lastValue' = lastValue /\ value' = value /\ was' = was
        /\ first' = FALSE /\ heard' = value /\ mu' = "nobody" /\ doing' = "idle"
    BY <1>1, <1>7 DEF CFJudge, CFTypeOK
  <2>2. verdict'.passed <=> verdict'.before \notin {"none", verdict'.value}
    BY <1>1, <1>7, <2>1 DEF CFJudge
  <2>3. QED BY <1>1, <1>2, <2>1, <2>2
<1>8. CASE Expire BY <1>2, <1>8 DEF Expire
<1>9. CASE ForgetValue BY <1>2, <1>9 DEF ForgetValue
<1>10. CASE CFStop BY <1>1, <1>2, <1>10 DEF CFStop, CFTypeOK
<1>11. CASE StopTimer BY <1>1, <1>2, <1>11 DEF StopTimer, CFTypeOK
<1>12. CASE DrainTimer BY <1>1, <1>2, <1>12 DEF DrainTimer, CFTypeOK
<1>13. QED BY <1>3, <1>4, <1>5, <1>6, <1>7, <1>8, <1>9, <1>10, <1>11, <1>12 DEF CFNext, CFWorker
-----------------------------------------------------------------------------
(***************************************************************************)
(* digest.                                                                 *)
(***************************************************************************)
Inside(t) == ticking[t] \in TickPlaces
InDigest == \E t \in DigestThreads : ticking[t] \in {"send", "clear"}

\* Only a tick works at a digest when there is an interval, only Receive when
\* there is none; and until two ticks overlap one thread does.  The n-th digest
\* is then of the n-th map, the last of which is no digest's but for a while.
OneAtWork ==
  /\ Inside("worker") => ~digestOpt.interval
  /\ \A t \in Tickers : ticking[t] # "idle" => digestOpt.interval /\ Inside(t)
  /\ ~overlapped => \A t, u \in DigestThreads : Inside(t) /\ Inside(u) => t = u
EachOnce ==
  ~overlapped =>
    /\ \A d \in 1..Len(digests) : digests[d].map = d
    /\ Len(maps) = Len(digests) + (IF InDigest THEN 0 ELSE 1)
DGRanges ==
  /\ digestOpt \in [interval : BOOLEAN, count : Nat] /\ DGTypeOK
  /\ ticking["worker"] \in {"count", "merge"} => digested > 0
  /\ Len(maps) > 0

DGInv == DGRanges /\ OneAtWork /\ EachOnce

LEMMA DGStarts == ASSUME FilterBounds, DGInit PROVE DGInv
<1>1. /\ "worker" \notin Tickers /\ DigestSettings \subseteq [interval : BOOLEAN, count : Nat] /\ MaxDigested \in Nat
  BY DEF FilterBounds
<1>2. /\ digestOpt \in [interval : BOOLEAN, count : Nat] /\ packets = 0 /\ loaded = 0 /\ digested = 0
      /\ maps = <<{}>> /\ digests = <<>> /\ lost = {} /\ overlapped = FALSE /\ fatal = FALSE
      /\ \A t \in DigestThreads : ticking[t] = "idle"
  BY <1>1 DEF DGInit
<1>3. maps \in Seq(SUBSET (1..MaxDigested)) /\ Len(maps) = 1
  <2>1. {} \in SUBSET (1..MaxDigested) OBVIOUS
  <2>2. QED BY <1>2, <2>1
<1>4. digests \in Seq([map : Nat, held : Nat]) /\ Len(digests) = 0 BY <1>2
<1>5. ticking \in [DigestThreads -> {"idle", "count", "merge"} \cup TickPlaces] BY DEF DGInit
<1>6. "worker" \in DigestThreads /\ Tickers \subseteq DigestThreads /\ \A t \in DigestThreads : ~Inside(t)
  BY <1>2 DEF DigestThreads, Inside, TickPlaces
<1>7. DGRanges
  <2>1. packets \in Nat /\ loaded \in Nat /\ digested \in 0..MaxDigested BY <1>1, <1>2
  <2>2. lost \subseteq 1..MaxDigested /\ {overlapped, fatal} \subseteq BOOLEAN BY <1>2
  <2>3. DGTypeOK BY <1>3, <1>4, <1>5, <2>1, <2>2 DEF DGTypeOK
  <2>4. ticking["worker"] = "idle" BY <1>2, <1>6
  <2>5. QED BY <1>2, <1>3, <2>3, <2>4 DEF DGRanges
<1>8. OneAtWork BY <1>2, <1>6 DEF OneAtWork
<1>9. ~InDigest BY <1>2 DEF InDigest
<1>10. EachOnce BY <1>3, <1>4, <1>9 DEF EachOnce
<1>11. QED BY <1>7, <1>8, <1>10 DEF DGInv
-----------------------------------------------------------------------------
\* The steps of Receive.
LEMMA DGMerges == ASSUME FilterBounds, DGInv, DGReceive \/ DGCount \/ MergeEvent PROVE DGInv'
<1>1. /\ DGRanges /\ OneAtWork /\ EachOnce /\ "worker" \in DigestThreads /\ "worker" \notin Tickers
      /\ Tickers \subseteq DigestThreads /\ MaxDigested \in Nat
  BY DEF DGInv, FilterBounds, DigestThreads
<1>2. /\ digestOpt' = digestOpt /\ digests' = digests /\ overlapped' = overlapped
      /\ ticking["worker"] \in {"idle", "count", "merge"}
  BY DEF DGReceive, DGCount, MergeEvent
<1>3. PICK place \in {"idle", "count", "merge", "build"} :
        /\ ticking' = [ticking EXCEPT !["worker"] = place]
        /\ place = "build" => ~digestOpt.interval
        /\ place \in {"count", "merge"} => digested' > 0
  <2>1. CASE DGReceive
    <3>1. digested' = digested + 1 /\ digested \in Nat BY <1>1, <2>1 DEF DGReceive, DGRanges, DGTypeOK
    <3>2. QED BY <2>1, <3>1 DEF DGReceive, DGGo
  <2>2. CASE DGCount BY <1>1, <2>2 DEF DGCount, DGGo, DGRanges
  <2>3. CASE MergeEvent BY <1>1, <2>3 DEF MergeEvent, DGGo
  <2>4. QED BY <2>1, <2>2, <2>3
<1>4. Len(maps') = Len(maps) /\ maps' \in Seq(SUBSET (1..MaxDigested))
  <2>1. maps \in Seq(SUBSET (1..MaxDigested)) /\ Len(maps) \in 1..Len(maps) BY <1>1 DEF DGRanges, DGTypeOK
  <2>2. CASE maps' = maps BY <2>1, <2>2
  <2>3. CASE MergeEvent /\ maps' = [maps EXCEPT ![Len(maps)] = @ \cup {digested}]
    <3>1. digested \in 1..MaxDigested BY <1>1, <2>3 DEF MergeEvent, DGRanges, DGTypeOK
    <3>2. maps[Len(maps)] \in SUBSET (1..MaxDigested) BY <2>1, ElementOfSeq
    <3>3. maps[Len(maps)] \cup {digested} \in SUBSET (1..MaxDigested) BY <3>1, <3>2
    <3>4. QED BY <2>1, <2>3, <3>3, ExceptSeq
  <2>4. QED BY <2>2, <2>3 DEF DGReceive, DGCount, MergeEvent
<1>5. /\ packets' \in Nat /\ loaded' \in Nat /\ digested' \in 0..MaxDigested /\ lost' \subseteq 1..MaxDigested
      /\ fatal' \in BOOLEAN
  <2>1. /\ packets \in Nat /\ loaded \in Nat /\ digested \in 0..MaxDigested /\ lost \subseteq 1..MaxDigested
        /\ fatal \in BOOLEAN
        /\ ticking["worker"] \in {"count", "merge"} => digested > 0
    BY <1>1 DEF DGRanges, DGTypeOK
  <2>2. CASE DGReceive
    <3>1. packets' = packets /\ loaded' = packets /\ digested' = digested + 1 /\ digested < MaxDigested /\ lost' = lost /\ fatal' = fatal
      BY <2>2 DEF DGReceive
    <3>2. QED BY <1>1, <2>1, <3>1
  <2>3. CASE DGCount
    <3>1. packets' = loaded + 1 /\ loaded' = loaded /\ digested' = digested /\ lost' = lost /\ fatal' = fatal
      BY <2>3 DEF DGCount
    <3>2. QED BY <1>1, <2>1, <3>1
  <2>4. CASE MergeEvent
    <3>1. digested \in 1..MaxDigested BY <1>1, <2>1, <2>4 DEF MergeEvent, DGRanges
    <3>2. QED BY <2>1, <2>4, <3>1 DEF MergeEvent
  <2>5. QED BY <2>2, <2>3, <2>4
<1>6. /\ ticking' \in [DigestThreads -> {"idle", "count", "merge"} \cup TickPlaces] /\ ticking'["worker"] = place
      /\ \A t \in DigestThreads \ {"worker"} : ticking'[t] = ticking[t]
  BY <1>1, <1>3 DEF DGRanges, DGTypeOK, TickPlaces
<1>7. DGRanges' BY <1>1, <1>2, <1>3, <1>4, <1>5, <1>6 DEF DGRanges, DGTypeOK
<1>8. OneAtWork'
  <2>1. Inside("worker")' => place = "build" BY <1>3, <1>6 DEF Inside, TickPlaces
  <2>2. \A t \in Tickers : t \in DigestThreads \ {"worker"} /\ ticking'[t] = ticking[t] /\ Inside(t)' = Inside(t)
    BY <1>1, <1>6 DEF Inside
  <2>3. \A t \in DigestThreads : t = "worker" \/ t \in Tickers BY DEF DigestThreads
  <2>4. ~digestOpt.interval => \A t \in Tickers : ~Inside(t) BY <1>1 DEF OneAtWork, Inside, TickPlaces
  <2>5. QED BY <1>1, <1>2, <1>3, <2>1, <2>2, <2>3, <2>4 DEF OneAtWork
<1>9. EachOnce'
  <2>1. ticking["worker"] \notin {"send", "clear"} /\ ticking'["worker"] \notin {"send", "clear"} BY <1>2, <1>3, <1>6
  <2>2. InDigest' <=> InDigest BY <1>6, <2>1 DEF InDigest
  <2>3. QED BY <1>1, <1>2, <1>4, <2>2 DEF EachOnce
<1>10. QED BY <1>7, <1>8, <1>9 DEF DGInv

\* A tick begins.
LEMMA DGTicks == ASSUME FilterBounds, DGInv, NEW t \in Tickers, DGTick(t) PROVE DGInv'
<1>1. /\ DGRanges /\ OneAtWork /\ EachOnce /\ "worker" \in DigestThreads /\ "worker" \notin Tickers
      /\ Tickers \subseteq DigestThreads /\ digestOpt.interval /\ ticking[t] = "idle" /\ t \in DigestThreads /\ t # "worker"
  BY DEF DGInv, FilterBounds, DigestThreads, DGTick
<1>2. /\ digestOpt' = digestOpt /\ packets' = packets /\ maps' = maps /\ loaded' = loaded /\ digests' = digests
      /\ lost' = lost /\ digested' = digested /\ fatal' = fatal /\ ticking' = [ticking EXCEPT ![t] = "build"]
      /\ overlapped' = (overlapped \/ \E u \in Tickers : ticking[u] # "idle")
  BY DEF DGTick, DGGo
<1>3. /\ ticking' \in [DigestThreads -> {"idle", "count", "merge"} \cup TickPlaces] /\ ticking'[t] = "build"
      /\ \A u \in DigestThreads \ {t} : ticking'[u] = ticking[u]
  BY <1>1, <1>2 DEF DGRanges, DGTypeOK, TickPlaces
<1>4. DGRanges'
  <2>1. overlapped' \in BOOLEAN BY <1>1, <1>2 DEF DGRanges, DGTypeOK
  <2>2. QED BY <1>1, <1>2, <1>3, <2>1 DEF DGRanges, DGTypeOK
<1>5. OneAtWork'
  <2>1. Inside(t)' /\ \A u \in DigestThreads \ {t} : Inside(u)' = Inside(u) BY <1>3 DEF Inside, TickPlaces
  <2>2. ~overlapped' => ~overlapped /\ \A u \in DigestThreads : ~Inside(u)
    <3>1. \A u \in DigestThreads : u = "worker" \/ u \in Tickers BY DEF DigestThreads
    <3>2. QED BY <1>1, <1>2, <3>1 DEF OneAtWork, Inside, TickPlaces
  <2>3. QED BY <1>1, <1>2, <1>3, <2>1, <2>2 DEF OneAtWork
<1>6. EachOnce'
  <2>1. InDigest' <=> InDigest BY <1>1, <1>3 DEF InDigest
  <2>2. ~overlapped' => ~overlapped BY <1>2
  <2>3. QED BY <1>1, <1>2, <2>1, <2>2 DEF EachOnce
<1>7. QED BY <1>4, <1>5, <1>6 DEF DGInv

\* The steps of a thread that makes a digest, which goes on inside or rests.
LEMMA DGGoesOn ==
  ASSUME FilterBounds, DGInv, NEW t \in DigestThreads, Inside(t), NEW place \in {"idle", "send", "clear", "zero"},
         ticking' = [ticking EXCEPT ![t] = place],
         UNCHANGED <<digestOpt, loaded, lost, digested, overlapped, fatal>>,
         packets' \in Nat, maps' \in Seq(SUBSET (1..MaxDigested)), Len(maps') > 0,
         digests' \in Seq([map : Nat, held : Nat])
  PROVE  /\ DGRanges' /\ OneAtWork' /\ ticking'[t] = place
         /\ ~overlapped => (InDigest <=> ticking[t] \in {"send", "clear"}) /\ (InDigest' <=> place \in {"send", "clear"})
<1>1. /\ DGRanges /\ OneAtWork /\ "worker" \in DigestThreads /\ "worker" \notin Tickers
      /\ Tickers \subseteq DigestThreads
  BY DEF DGInv, FilterBounds, DigestThreads
<1>2. /\ ticking' \in [DigestThreads -> {"idle", "count", "merge"} \cup TickPlaces] /\ ticking'[t] = place
      /\ \A u \in DigestThreads \ {t} : ticking'[u] = ticking[u]
  BY <1>1 DEF DGRanges, DGTypeOK, TickPlaces
<1>3. DGRanges'
  <2>1. ticking'["worker"] \in {"count", "merge"} => ticking["worker"] \in {"count", "merge"} BY <1>1, <1>2
  <2>2. DGTypeOK' BY <1>1, <1>2 DEF DGRanges, DGTypeOK
  <2>3. QED BY <1>1, <2>1, <2>2 DEF DGRanges
<1>4. \A u \in DigestThreads : /\ Inside(u)' => Inside(u)
                               /\ ticking'[u] # "idle" /\ ticking[u] # "idle" /\ Inside(u) => Inside(u)'
                               /\ ticking'[u] # "idle" => ticking[u] # "idle"
  BY <1>2 DEF Inside, TickPlaces
<1>5. OneAtWork' BY <1>1, <1>4 DEF OneAtWork
<1>6. ASSUME ~overlapped
      PROVE  (InDigest <=> ticking[t] \in {"send", "clear"}) /\ (InDigest' <=> place \in {"send", "clear"})
  <2>1. \A u \in DigestThreads \ {t} : ~Inside(u) BY <1>1, <1>6 DEF OneAtWork
  <2>2. \A u \in DigestThreads \ {t} : ticking[u] \notin {"send", "clear"} BY <2>1 DEF Inside, TickPlaces
  <2>3. QED BY <1>2, <2>2 DEF InDigest
<1>7. QED BY <1>2, <1>3, <1>5, <1>6

LEMMA DGDigests ==
  ASSUME FilterBounds, DGInv, NEW t \in DigestThreads, BuildDigest(t) \/ DGSent(t) \/ ClearValues(t) \/ ZeroPackets(t)
  PROVE  DGInv'
<1>1. /\ DGRanges /\ EachOnce /\ MaxDigested \in Nat /\ packets \in Nat /\ maps \in Seq(SUBSET (1..MaxDigested))
      /\ Len(maps) > 0 /\ Len(maps) \in Nat /\ digests \in Seq([map : Nat, held : Nat]) /\ Len(digests) \in Nat
  BY DEF DGInv, DGRanges, DGTypeOK, FilterBounds
<1>2. CASE BuildDigest(t)
  <2> DEFINE one == [map |-> Len(maps), held |-> Cardinality(maps[Len(maps)])]
  <2>1. one \in [map : Nat, held : Nat]
    <3>1. Len(maps) \in 1..Len(maps) BY <1>1
    <3>2. maps[Len(maps)] \in SUBSET (1..MaxDigested) BY <1>1, <3>1, ElementOfSeq
    <3>3. IsFiniteSet(1..MaxDigested) BY <1>1, FS_Interval
    <3>4. IsFiniteSet(maps[Len(maps)]) BY <3>2, <3>3, FS_Subset
    <3>5. Cardinality(maps[Len(maps)]) \in Nat BY <3>4, FS_CardinalityType
    <3>6. QED BY <1>1, <3>5
  <2>2. /\ digests' = Append(digests, one) /\ ticking' = [ticking EXCEPT ![t] = "send"] /\ maps' = maps
        /\ packets' = packets /\ ticking[t] = "build" /\ Inside(t)
        /\ UNCHANGED <<digestOpt, loaded, lost, digested, overlapped, fatal>>
    BY <1>2 DEF BuildDigest, DGGo, Inside, TickPlaces
  <2>3. one.map = Len(maps) OBVIOUS
  <2> HIDE DEF one
  <2>4. /\ digests' \in Seq([map : Nat, held : Nat]) /\ Len(digests') = Len(digests) + 1
        /\ digests'[Len(digests) + 1] = one /\ \A d \in 1..Len(digests) : digests'[d] = digests[d]
    BY <1>1, <2>1, <2>2, AppendProperties
  <2>5. /\ DGRanges' /\ OneAtWork'
        /\ ~overlapped => (InDigest <=> ticking[t] \in {"send", "clear"}) /\ (InDigest' <=> "send" \in {"send", "clear"})
    BY <1>1, <2>2, <2>4, DGGoesOn
  <2>6. ASSUME ~overlapped PROVE EachOnce'
    <3>1. ~InDigest /\ InDigest' BY <2>2, <2>5, <2>6
    <3>2. Len(maps) = Len(digests) + 1 /\ \A d \in 1..Len(digests) : digests[d].map = d BY <1>1, <2>6, <3>1 DEF EachOnce
    <3>3. \A d \in 1..Len(digests') : digests'[d].map = d
      <4>1. TAKE d \in 1..Len(digests')
      <4>2. d \in 1..Len(digests) \/ d = Len(digests) + 1 BY <1>1, <2>4
      <4>3. QED BY <2>3, <2>4, <3>2, <4>2
    <3>4. Len(maps') = Len(digests') BY <2>2, <2>4, <3>2
    <3>5. QED BY <1>1, <2>4, <3>1, <3>3, <3>4 DEF EachOnce
  <2>7. overlapped' = overlapped BY <2>2
  <2>8. QED BY <2>5, <2>6, <2>7 DEF DGInv, EachOnce
<1>3. CASE DGSent(t)
  <2>1. /\ ticking' = [ticking EXCEPT ![t] = "clear"] /\ maps' = maps /\ digests' = digests
        /\ packets' = packets /\ ticking[t] = "send" /\ Inside(t)
        /\ UNCHANGED <<digestOpt, loaded, lost, digested, overlapped, fatal>>
    BY <1>3 DEF DGSent, DGGo, Inside, TickPlaces
  <2>2. /\ DGRanges' /\ OneAtWork'
        /\ ~overlapped => (InDigest <=> ticking[t] \in {"send", "clear"}) /\ (InDigest' <=> "clear" \in {"send", "clear"})
    BY <1>1, <2>1, DGGoesOn
  <2>3. QED BY <1>1, <2>1, <2>2 DEF DGInv, EachOnce
<1>4. CASE ClearValues(t)
  <2>1. /\ ticking' = [ticking EXCEPT ![t] = "zero"] /\ maps' = Append(maps, {}) /\ digests' = digests
        /\ packets' = packets /\ ticking[t] = "clear" /\ Inside(t)
        /\ UNCHANGED <<digestOpt, loaded, lost, digested, overlapped, fatal>>
    BY <1>4 DEF ClearValues, DGGo, Inside, TickPlaces
  <2>2. maps' \in Seq(SUBSET (1..MaxDigested)) /\ Len(maps') = Len(maps) + 1
    <3>1. {} \in SUBSET (1..MaxDigested) OBVIOUS
    <3>2. QED BY <1>1, <2>1, <3>1, AppendProperties
  <2>3. /\ DGRanges' /\ OneAtWork'
        /\ ~overlapped => (InDigest <=> ticking[t] \in {"send", "clear"}) /\ (InDigest' <=> "zero" \in {"send", "clear"})
    <3>1. packets' \in Nat /\ digests' \in Seq([map : Nat, held : Nat]) /\ Len(maps') > 0 BY <1>1, <2>1, <2>2
    <3>2. QED BY <2>1, <2>2, <3>1, DGGoesOn
  <2>4. QED BY <1>1, <2>1, <2>2, <2>3 DEF DGInv, EachOnce
<1>5. CASE ZeroPackets(t)
  <2>1. /\ ticking' = [ticking EXCEPT ![t] = "idle"] /\ maps' = maps /\ digests' = digests
        /\ packets' = 0 /\ ticking[t] = "zero" /\ Inside(t)
        /\ UNCHANGED <<digestOpt, loaded, lost, digested, overlapped, fatal>>
    BY <1>5 DEF ZeroPackets, DGGo, Inside, TickPlaces
  <2>2. /\ DGRanges' /\ OneAtWork'
        /\ ~overlapped => (InDigest <=> ticking[t] \in {"send", "clear"}) /\ (InDigest' <=> "idle" \in {"send", "clear"})
    BY <1>1, <2>1, DGGoesOn
  <2>3. QED BY <1>1, <2>1, <2>2 DEF DGInv, EachOnce
<1>6. QED BY <1>2, <1>3, <1>4, <1>5

LEMMA DGSteps == ASSUME FilterBounds, DGInv, [DGNext]_digestVars PROVE DGInv'
<1>1. CASE UNCHANGED digestVars
  <2>1. /\ DGRanges' <=> DGRanges
    BY <1>1 DEF digestVars, DGRanges, DGTypeOK
  <2>2. OneAtWork' <=> OneAtWork BY <1>1 DEF digestVars, OneAtWork, Inside
  <2>3. EachOnce' <=> EachOnce BY <1>1 DEF digestVars, EachOnce, InDigest
  <2>4. QED BY <2>1, <2>2, <2>3 DEF DGInv
<1>2. CASE DGNext BY <1>2, DGMerges, DGTicks, DGDigests DEF DGNext
<1>3. QED BY <1>1, <1>2

LEMMA DGSounds == ASSUME DGInv PROVE NoEventDropped /\ DigestedOnce
<1>1. /\ Len(maps) \in Nat /\ Len(digests) \in Nat BY DEF DGInv, DGRanges, DGTypeOK
<1>2. ASSUME ~overlapped, NEW i \in 1..(Len(maps) - 1) PROVE \E d \in 1..Len(digests) : digests[d].map = i
  <2>1. Len(maps) <= Len(digests) + 1 BY <1>1, <1>2 DEF DGInv, EachOnce
  <2>2. i \in 1..Len(digests) BY <1>1, <2>1
  <2>3. QED BY <1>2, <2>2 DEF DGInv, EachOnce
<1>3. ASSUME ~overlapped, NEW d \in 1..Len(digests), NEW e \in 1..Len(digests), d # e PROVE digests[d].map # digests[e].map
  BY <1>3 DEF DGInv, EachOnce
<1>4. QED BY <1>2, <1>3 DEF NoEventDropped, DigestedOnce
-----------------------------------------------------------------------------
(***************************************************************************)
(* geoip.                                                                  *)
(***************************************************************************)
\* The cache, as a sequence.
EntryOnce(s) == \A i, j \in 1..Len(s) : s[i].ip = s[j].ip => i = j

LEMMA RemoveAtIs ==
  ASSUME NEW S, NEW s \in Seq(S), NEW i \in 1..Len(s)
  PROVE  /\ RemoveAt(s, i) \in Seq(S) /\ Len(RemoveAt(s, i)) = Len(s) - 1
         /\ \A j \in 1..(Len(s) - 1) : RemoveAt(s, i)[j] = IF j < i THEN s[j] ELSE s[j + 1]
<1> DEFINE a == SubSeq(s, 1, i - 1)  b == SubSeq(s, i + 1, Len(s))
<1>1. Len(s) \in Nat /\ i \in Nat /\ 1 <= i /\ i <= Len(s) /\ \A j \in 1..Len(s) : s[j] \in S BY ElementOfSeq
<1>2. a \in Seq(S) /\ Len(a) = i - 1 /\ \A j \in 1..(i - 1) : a[j] = s[j]
  <2>1. 1 \in Int /\ i - 1 \in Int /\ \A j \in 1..(i - 1) : s[j] \in S BY <1>1
  <2>2. QED BY <1>1, <2>1, SubSeqProperties
<1>3. b \in Seq(S) /\ Len(b) = Len(s) - i /\ \A j \in 1..(Len(s) - i) : b[j] = s[i + j]
  <2>1. i + 1 \in Int /\ Len(s) \in Int /\ \A j \in (i + 1)..Len(s) : s[j] \in S BY <1>1
  <2>2. b \in Seq(S) /\ Len(b) = (IF i + 1 <= Len(s) THEN Len(s) - (i + 1) + 1 ELSE 0) BY <2>1, SubSeqProperties
  <2>3. Len(b) = Len(s) - i BY <1>1, <2>2
  <2>4. \A j \in 1..(Len(s) - (i + 1) + 1) : b[j] = s[i + 1 + j - 1] BY <2>1, SubSeqProperties
  <2>5. \A j \in 1..(Len(s) - i) : b[j] = s[i + j]
    <3>1. TAKE j \in 1..(Len(s) - i)
    <3>2. j \in 1..(Len(s) - (i + 1) + 1) /\ i + 1 + j - 1 = i + j BY <1>1
    <3>3. QED BY <2>4, <3>2
  <2>6. QED BY <2>2, <2>3, <2>5
<1>4. RemoveAt(s, i) = a \o b BY DEF RemoveAt
<1> HIDE DEF a, b
<1>5. /\ a \o b \in Seq(S) /\ Len(a \o b) = Len(a) + Len(b)
      /\ \A j \in 1..(Len(a) + Len(b)) : (a \o b)[j] = IF j <= Len(a) THEN a[j] ELSE b[j - Len(a)]
  BY <1>2, <1>3, ConcatProperties
<1>6. ASSUME NEW j \in 1..(Len(s) - 1) PROVE (a \o b)[j] = IF j < i THEN s[j] ELSE s[j + 1]
  <2>1. j \in 1..(Len(a) + Len(b)) BY <1>1, <1>2, <1>3
  <2>2. CASE j < i
    <3>1. j <= Len(a) /\ j \in 1..(i - 1) BY <1>1, <1>2, <2>2
    <3>2. QED BY <1>2, <1>5, <2>1, <2>2, <3>1
  <2>3. CASE ~(j < i)
    <3>1. ~(j <= Len(a)) /\ j - Len(a) \in 1..(Len(s) - i) /\ i + (j - Len(a)) = j + 1 BY <1>1, <1>2, <2>3
    <3>2. QED BY <1>3, <1>5, <2>1, <2>3, <3>1
  <2>4. QED BY <2>2, <2>3
<1>7. QED BY <1>1, <1>2, <1>3, <1>4, <1>5, <1>6

\* An entry is moved to the end.
LEMMA UsedKeeps ==
  ASSUME NEW S, NEW s \in Seq(S), NEW i \in 1..Len(s), EntryOnce(s)
  PROVE  LET t == Append(RemoveAt(s, i), s[i]) IN
         /\ t \in Seq(S) /\ Len(t) = Len(s) /\ EntryOnce(t)
         /\ \A j \in 1..Len(t) : \E k \in 1..Len(s) : t[j] = s[k]
         /\ \A k \in 1..Len(s) : \E j \in 1..Len(t) : t[j] = s[k]
<1> DEFINE r == RemoveAt(s, i)  t == Append(r, s[i])
<1>1. Len(s) \in Nat /\ s[i] \in S BY ElementOfSeq
<1>2. r \in Seq(S) /\ Len(r) = Len(s) - 1 /\ \A j \in 1..(Len(s) - 1) : r[j] = IF j < i THEN s[j] ELSE s[j + 1]
  BY RemoveAtIs
<1> HIDE DEF r
<1>3. t \in Seq(S) /\ Len(t) = Len(s) /\ t[Len(s)] = s[i] /\ \A j \in 1..(Len(s) - 1) : t[j] = r[j]
  BY <1>1, <1>2, AppendProperties
<1> HIDE DEF t
<1> DEFINE at(j) == IF j = Len(s) THEN i ELSE IF j < i THEN j ELSE j + 1
<1>4. \A j \in 1..Len(s) : at(j) \in 1..Len(s) /\ t[j] = s[at(j)]
  <2>1. TAKE j \in 1..Len(s)
  <2>2. CASE j = Len(s) BY <1>3, <2>2
  <2>3. CASE j # Len(s)
    <3>1. j \in 1..(Len(s) - 1) BY <1>1, <2>3
    <3>2. t[j] = IF j < i THEN s[j] ELSE s[j + 1] BY <1>2, <1>3, <3>1
    <3>3. QED BY <1>1, <2>3, <3>1, <3>2
  <2>4. QED BY <2>2, <2>3
<1>5. \A j, k \in 1..Len(s) : at(j) = at(k) => j = k BY <1>1
<1>6. \A k \in 1..Len(s) : \E j \in 1..Len(s) : at(j) = k
  <2>1. TAKE k \in 1..Len(s)
  <2>2. CASE k = i
    <3>1. Len(s) \in 1..Len(s) /\ at(Len(s)) = k BY <1>1, <2>2
    <3>2. QED BY <3>1
  <2>3. CASE k < i
    <3>1. at(k) = k BY <1>1, <2>3
    <3>2. QED BY <3>1
  <2>4. CASE k > i
    <3>1. k - 1 \in 1..Len(s) /\ at(k - 1) = k BY <1>1, <2>4
    <3>2. QED BY <3>1
  <2>5. QED BY <1>1, <2>2, <2>3, <2>4
<1> HIDE DEF at
<1>7. EntryOnce(t)
  <2>1. SUFFICES ASSUME NEW j \in 1..Len(s), NEW k \in 1..Len(s), t[j].ip = t[k].ip PROVE j = k
    BY <1>3 DEF EntryOnce
  <2>2. s[at(j)].ip = s[at(k)].ip /\ at(j) \in 1..Len(s) /\ at(k) \in 1..Len(s) BY <1>4, <2>1
  <2>3. at(j) = at(k) BY <2>2 DEF EntryOnce
  <2>4. QED BY <1>5, <2>3
<1>8. \A k \in 1..Len(s) : \E j \in 1..Len(t) : t[j] = s[k]
  <2>1. TAKE k \in 1..Len(s)
  <2>2. PICK j \in 1..Len(s) : at(j) = k BY <1>6
  <2>3. QED BY <1>3, <1>4, <2>2
<1>9. \A j \in 1..Len(t) : \E k \in 1..Len(s) : t[j] = s[k] BY <1>3, <1>4
<1>10. t \in Seq(S) /\ Len(t) = Len(s) BY <1>3
<1>11. QED BY <1>7, <1>8, <1>9, <1>10 DEF t, r

\* An entry is removed, or none was there.
LEMMA WithoutKeeps ==
  ASSUME NEW S, cached \in Seq(S), EntryOnce(cached), NEW ip
  PROVE  LET r == CachedWithout(ip) IN
         /\ r \in Seq(S) /\ Len(r) <= Len(cached) /\ Len(r) \in Nat /\ EntryOnce(r)
         /\ \A j \in 1..Len(r) : r[j].ip # ip /\ \E k \in 1..Len(cached) : r[j] = cached[k]
<1>1. Len(cached) \in Nat /\ DOMAIN cached = 1..Len(cached) OBVIOUS
<1>2. CASE Cached(ip) = {}
  <2>1. CachedWithout(ip) = cached BY <1>2 DEF CachedWithout
  <2>2. \A j \in 1..Len(cached) : cached[j].ip # ip BY <1>1, <1>2 DEF Cached
  <2>3. QED BY <1>1, <2>1, <2>2
<1>3. CASE Cached(ip) # {}
  <2> DEFINE i == CHOOSE i \in Cached(ip) : TRUE
  <2>1. i \in Cached(ip) BY <1>3
  <2>2. CachedWithout(ip) = RemoveAt(cached, i) BY <1>3 DEF CachedWithout
  <2> HIDE DEF i
  <2>3. i \in 1..Len(cached) /\ cached[i].ip = ip BY <1>1, <2>1 DEF Cached
  <2> DEFINE r == RemoveAt(cached, i)  at(j) == IF j < i THEN j ELSE j + 1
  <2>4. r \in Seq(S) /\ Len(r) = Len(cached) - 1 /\ \A j \in 1..(Len(cached) - 1) : r[j] = IF j < i THEN cached[j] ELSE cached[j + 1]
    BY <2>3, RemoveAtIs
  <2> HIDE DEF r
  <2>5. \A j \in 1..Len(r) : at(j) \in 1..Len(cached) /\ at(j) # i /\ r[j] = cached[at(j)] BY <1>1, <2>3, <2>4
  <2>6. \A j, k \in 1..Len(r) : at(j) = at(k) => j = k BY <1>1, <2>3, <2>4
  <2> HIDE DEF at
  <2>7. EntryOnce(r)
    <3>1. SUFFICES ASSUME NEW j \in 1..Len(r), NEW k \in 1..Len(r), r[j].ip = r[k].ip PROVE j = k BY DEF EntryOnce
    <3>2. cached[at(j)].ip = cached[at(k)].ip /\ at(j) \in 1..Len(cached) /\ at(k) \in 1..Len(cached) BY <2>5, <3>1
    <3>3. at(j) = at(k) BY <3>2 DEF EntryOnce
    <3>4. QED BY <2>6, <3>3
  <2>8. ASSUME NEW j \in 1..Len(r) PROVE r[j].ip # ip /\ \E k \in 1..Len(cached) : r[j] = cached[k]
    <3>1. at(j) \in 1..Len(cached) /\ at(j) # i /\ r[j] = cached[at(j)] BY <2>5
    <3>2. cached[at(j)].ip # cached[i].ip BY <2>3, <3>1 DEF EntryOnce
    <3>3. QED BY <2>3, <3>1, <3>2
  <2>9. Len(r) <= Len(cached) /\ Len(r) \in Nat BY <1>1, <2>3, <2>4
  <2>10. QED BY <2>2, <2>4, <2>7, <2>8, <2>9 DEF r
<1>4. QED BY <1>2, <1>3

\* The least recently used entries are evicted.
LEMMA TrimmedKeeps ==
  ASSUME NEW S, NEW s \in Seq(S), EntryOnce(s), CacheSize \in Nat
  PROVE  LET t == Trimmed(s) IN
         /\ t \in Seq(S) /\ Len(t) <= CacheSize /\ EntryOnce(t)
         /\ \A j \in 1..Len(t) : \E k \in 1..Len(s) : t[j] = s[k]
<1> DEFINE m == IF Len(s) > CacheSize THEN Len(s) - CacheSize ELSE 0  t == SubSeq(s, 1 + m, Len(s))
<1>1. Len(s) \in Nat /\ m \in Nat /\ m <= Len(s) /\ Len(s) - m <= CacheSize OBVIOUS
<1>2. Trimmed(s) = t BY DEF Trimmed
<1> HIDE DEF m
<1>3. 1 + m \in Int /\ Len(s) \in Int /\ \A j \in (1 + m)..Len(s) : s[j] \in S
  <2>1. \A j \in 1..Len(s) : s[j] \in S BY ElementOfSeq
  <2>2. QED BY <1>1, <2>1
<1>4. t \in Seq(S) /\ Len(t) = IF 1 + m <= Len(s) THEN Len(s) - (1 + m) + 1 ELSE 0 BY <1>3, SubSeqProperties
<1>5. \A j \in 1..(Len(s) - (1 + m) + 1) : t[j] = s[1 + m + j - 1] BY <1>3, SubSeqProperties
<1>6. Len(t) = Len(s) - m BY <1>1, <1>4
<1> HIDE DEF t
<1>7. \A j \in 1..Len(t) : m + j \in 1..Len(s) /\ t[j] = s[m + j]
  <2>1. TAKE j \in 1..Len(t)
  <2>2. j \in 1..(Len(s) - (1 + m) + 1) /\ 1 + m + j - 1 = m + j /\ m + j \in 1..Len(s) BY <1>1, <1>6
  <2>3. QED BY <1>5, <2>2
<1>8. EntryOnce(t)
  <2>1. SUFFICES ASSUME NEW j \in 1..Len(t), NEW k \in 1..Len(t), t[j].ip = t[k].ip PROVE j = k BY DEF EntryOnce
  <2>2. s[m + j].ip = s[m + k].ip /\ m + j \in 1..Len(s) /\ m + k \in 1..Len(s) BY <1>7, <2>1
  <2>3. m + j = m + k BY <2>2 DEF EntryOnce
  <2>4. QED BY <1>1, <1>6, <2>3
<1>9. QED BY <1>1, <1>2, <1>4, <1>6, <1>7, <1>8
-----------------------------------------------------------------------------
GeoRecords ==
  [options : GeoOptions, etag : Nat, database : Nat, at : {"start", "idle", "body", "crash"}, release : Nat,
   fetched : Nat, lost : BOOLEAN, failed : BOOLEAN]
LookerRecords ==
  [pc : {"idle", "get", "miss", "set", "answer", "tag"}, ip : Addresses \cup {NoValue}, read : Nat, record : Nat]
CacheEntries == [ip : Addresses, record : Nat]
LocatedRecords == [latest : [Addresses -> Nat], overlaps : SUBSET (Addresses \cup {NoValue}), count : Nat]

GITyped ==
  /\ geo \in GeoRecords /\ locating \in [Lookers -> LookerRecords] /\ cached \in Seq(CacheEntries)
  /\ located \in LocatedRecords
Looking ==
  \A w \in Lookers : /\ locating[w].pc \in {"get", "miss", "set", "answer"} => locating[w].ip \in Addresses
                     /\ locating[w].pc # "idle" => geo.at # "start"

\* What a refresh leaves: the etag is of the release fetched last, and there is
\* no database only after a failure or with an etag that stands for none.
Refreshed ==
  /\ geo.options.web => geo.etag = geo.fetched
  /\ geo.at = "body" => geo.options.web
  /\ geo.options.web /\ ~geo.lost /\ geo.at \in {"start", "idle"} => geo.database = geo.etag
  /\ geo.at # "start" /\ geo.database = 0 => geo.failed \/ geo.options.web
  /\ geo.at = "crash" => geo.failed \/ geo.options.web
  /\ geo.fetched <= geo.release

\* No record is of a release newer than the database in use, if there is one,
\* or than the next one can be.
Newest == IF geo.options.web THEN geo.fetched ELSE geo.release
Known(v) == v <= Newest /\ (geo.database = 0 \/ v <= geo.database)
Kept == {cached[i] : i \in 1..Len(cached)}
AllKnown ==
  /\ geo.database <= Newest
  /\ \A a \in Addresses : Known(located.latest[a])
  /\ \A e \in Kept : Known(e.record)
  /\ \A w \in Lookers : Known(locating[w].read) /\ Known(locating[w].record)

\* An address no two looked up at a time: who misses it is alone with it until
\* it has set it, and who has an answer has the one in the cache.
OnIt(w, ip) == locating[w].ip = ip /\ locating[w].pc \in {"miss", "set", "answer"}
Alone(w) ==
  LET l == locating[w] IN
  l.ip \notin located.overlaps =>
    /\ l.pc \in {"miss", "set"} =>
         (\A e \in Kept : e.ip # l.ip) /\ \A v \in Lookers : v # w => ~OnIt(v, l.ip)
    /\ l.pc = "set" => located.latest[l.ip] <= l.read
    /\ l.pc = "answer" =>
         /\ located.latest[l.ip] <= l.record
         /\ \A v \in Lookers : locating[v].pc = "answer" /\ locating[v].ip = l.ip => locating[v].record = l.record
         /\ \A e \in Kept : e.ip = l.ip => e.record = l.record
Cache ==
  /\ EntryOnce(cached) /\ Len(cached) <= CacheSize
  /\ \A e \in Kept : e.ip \notin located.overlaps => located.latest[e.ip] <= e.record

GIInv == GITyped /\ Looking /\ Refreshed /\ AllKnown /\ (\A w \in Lookers : Alone(w)) /\ Cache

LEMMA GIStarts == ASSUME FilterBounds, GIInit PROVE GIInv
<1>1. PICK o \in GeoOptions : geo = [options |-> o, etag |-> 0, database |-> 0, at |-> "start", release |-> 1,
                                    fetched |-> 0, lost |-> FALSE, failed |-> FALSE]
  BY DEF GIInit
<1>2. /\ geo \in GeoRecords /\ geo.etag = 0 /\ geo.database = 0 /\ geo.at = "start" /\ geo.release = 1 /\ geo.fetched = 0
      /\ geo.lost = FALSE /\ geo.failed = FALSE /\ CacheSize \in Nat
  BY <1>1 DEF GeoRecords, FilterBounds
<1>3. /\ GINone \in LookerRecords /\ GINone.pc = "idle" /\ GINone.read = 0 /\ GINone.record = 0
  BY DEF GINone, LookerRecords
<1>4. locating \in [Lookers -> LookerRecords] /\ \A w \in Lookers : locating[w] = GINone BY <1>3 DEF GIInit
<1>5. cached \in Seq(CacheEntries) /\ Len(cached) = 0 /\ Kept = {} BY DEF GIInit, Kept
<1>6. located \in LocatedRecords /\ \A a \in Addresses : located.latest[a] = 0
  <2>1. [a \in Addresses |-> 0] \in [Addresses -> Nat] OBVIOUS
  <2>2. QED BY <2>1 DEF GIInit, LocatedRecords
<1>7. Looking BY <1>3, <1>4 DEF Looking
<1>8. Refreshed BY <1>2 DEF Refreshed
<1>9. \A v : v = 0 => Known(v) BY <1>2 DEF Known, Newest
<1>10. AllKnown
  <2>1. geo.database <= Newest BY <1>2 DEF Newest
  <2>2. QED BY <1>3, <1>4, <1>5, <1>6, <1>9, <2>1 DEF AllKnown
<1>11. \A w \in Lookers : Alone(w) BY <1>3, <1>4 DEF Alone
<1>12. Cache BY <1>2, <1>5 DEF Cache, EntryOnce
<1>13. QED BY <1>2, <1>4, <1>5, <1>6, <1>7, <1>8, <1>10, <1>11, <1>12 DEF GITyped, GIInv

LEMMA KeptEntries ==
  ASSUME GITyped
  PROVE  \A e \in Kept : e \in CacheEntries /\ e.ip \in Addresses /\ e.record \in Nat
<1>1. cached \in Seq(CacheEntries) BY DEF GITyped
<1>2. \A i \in 1..Len(cached) : cached[i] \in CacheEntries BY <1>1, ElementOfSeq
<1>3. \A e \in Kept : e \in CacheEntries BY <1>2 DEF Kept
<1>4. QED BY <1>3 DEF CacheEntries

\* A refresh, a new release, and the end of the program leave the workers alone.
LEMMA GeoMoves ==
  ASSUME GIInv, UNCHANGED <<locating, cached, located>>, geo' \in GeoRecords, Refreshed',
         geo.at # "start" => geo'.at # "start", Newest <= Newest', geo'.database \in {0, geo.database, Newest'},
         Newest \in Nat, Newest' \in Nat
  PROVE  GIInv'
<1>1. GITyped /\ Looking /\ AllKnown /\ Cache BY DEF GIInv
<1>2. GITyped' /\ Kept' = Kept BY <1>1 DEF GITyped, Kept
<1>3. Looking' BY <1>1 DEF Looking
<1>4. ASSUME NEW v \in Nat, Known(v) PROVE Known(v)'
  <2>1. geo.database \in Nat /\ geo.database <= Newest /\ v <= Newest /\ (geo.database = 0 \/ v <= geo.database)
    BY <1>1, <1>4 DEF AllKnown, GITyped, GeoRecords, Known
  <2>2. v <= Newest' /\ (geo'.database = 0 \/ v <= geo'.database) BY <2>1
  <2>3. QED BY <2>2 DEF Known
<1>5. AllKnown'
  <2>1. geo'.database <= Newest' BY <1>1 DEF AllKnown, GITyped, GeoRecords
  <2>2. \A a \in Addresses : Known(located.latest[a])'
    <3>1. \A a \in Addresses : located.latest[a] \in Nat BY <1>1 DEF GITyped, LocatedRecords
    <3>2. QED BY <1>1, <1>4, <3>1 DEF AllKnown, Known
  <2>3. \A e \in Kept : Known(e.record)'
    <3>1. \A e \in Kept : e.record \in Nat BY <1>1, KeptEntries
    <3>2. QED BY <1>1, <1>4, <3>1 DEF AllKnown, Known
  <2>4. \A w \in Lookers : Known(locating[w].read)' /\ Known(locating[w].record)'
    <3>1. \A w \in Lookers : locating[w].read \in Nat /\ locating[w].record \in Nat BY <1>1 DEF GITyped, LookerRecords
    <3>2. QED BY <1>1, <1>4, <3>1 DEF AllKnown, Known
  <2>5. QED BY <1>2, <2>1, <2>2, <2>3, <2>4 DEF AllKnown, Known
<1>6. \A w \in Lookers : Alone(w)' BY <1>2 DEF GIInv, Alone, OnIt
<1>7. Cache' BY <1>1, <1>2 DEF Cache, EntryOnce
<1>8. QED BY <1>2, <1>3, <1>5, <1>6, <1>7 DEF GIInv
-----------------------------------------------------------------------------
LEMMA GeoSteps == ASSUME FilterBounds, GIInv, Release \/ Refresh \/ ReadBody PROVE GIInv'
<1>1. /\ geo \in GeoRecords /\ Refreshed /\ geo.options \in GeoOptions /\ geo.options.web \in BOOLEAN
      /\ geo.database \in Nat /\ geo.release \in Nat /\ geo.fetched \in Nat /\ geo.etag \in Nat
      /\ geo.fetched <= geo.release
  BY DEF GIInv, GITyped, GeoRecords, FilterBounds, Refreshed
<1>2. CASE Release
  <2>1. geo' = [geo EXCEPT !.release = geo.release + 1] /\ UNCHANGED <<locating, cached, located>> BY <1>2 DEF Release
  <2>2. /\ geo' \in GeoRecords /\ geo'.release = geo.release + 1 /\ geo'.options = geo.options /\ geo'.etag = geo.etag
        /\ geo'.database = geo.database /\ geo'.at = geo.at /\ geo'.fetched = geo.fetched /\ geo'.lost = geo.lost
        /\ geo'.failed = geo.failed
    BY <1>1, <2>1 DEF GeoRecords
  <2>3. Refreshed' BY <1>1, <2>2 DEF Refreshed
  <2>4. Newest \in Nat /\ Newest' \in Nat /\ Newest <= Newest' BY <1>1, <2>2 DEF Newest
  <2>5. QED BY <2>1, <2>2, <2>3, <2>4, GeoMoves
<1>3. CASE Refresh /\ OpenFile
  <2>1. PICK d \in {0, geo.release} :
          geo' = [geo EXCEPT !.at = "idle", !.database = d, !.failed = geo.failed \/ d = 0]
    BY <1>3 DEF OpenFile, Replaces
  <2>2. ~geo.options.web /\ geo.at \in {"start", "idle"} /\ UNCHANGED <<locating, cached, located>>
    BY <1>3 DEF OpenFile, Refresh
  <2>3. d \in Nat /\ (geo.failed \/ d = 0) \in BOOLEAN BY <1>1 DEF GeoRecords
  <2>4. /\ geo' \in GeoRecords /\ geo'.release = geo.release /\ geo'.options = geo.options /\ geo'.etag = geo.etag
        /\ geo'.database = d /\ geo'.at = "idle" /\ geo'.fetched = geo.fetched /\ geo'.lost = geo.lost
        /\ geo'.failed = (geo.failed \/ d = 0)
    BY <1>1, <2>1, <2>3 DEF GeoRecords
  <2>5. Refreshed' BY <1>1, <2>2, <2>4 DEF Refreshed
  <2>6. Newest \in Nat /\ Newest' = Newest /\ Newest = geo.release BY <1>1, <2>2, <2>4 DEF Newest
  <2>7. Newest <= Newest' /\ geo'.database \in {0, geo.database, Newest'} BY <2>4, <2>6
  <2>8. QED BY <2>2, <2>4, <2>5, <2>6, <2>7, GeoMoves
\* The program ends, the server refuses or has nothing new, or a body comes.
<1>4. CASE Refresh /\ AskServer
  <2>1. geo.options.web /\ geo.at \in {"start", "idle"} /\ UNCHANGED <<locating, cached, located>>
    BY <1>4 DEF AskServer, Refresh
  <2>2. \/ geo' = [geo EXCEPT !.at = "idle", !.failed = TRUE]
        \/ geo' = [geo EXCEPT !.at = "idle"]
        \/ geo' = [geo EXCEPT !.at = "crash"]
        \/ geo' = [geo EXCEPT !.at = "body", !.etag = geo.release, !.fetched = geo.release]
    BY <1>4 DEF AskServer, Refuses, GeoAt
  <2>3. /\ geo' \in GeoRecords /\ geo'.release = geo.release /\ geo'.options = geo.options /\ geo'.database = geo.database
        /\ geo'.lost = geo.lost
    <3>1. CASE geo' = [geo EXCEPT !.at = "idle", !.failed = TRUE] BY <1>1, <3>1 DEF GeoRecords
    <3>2. CASE geo' = [geo EXCEPT !.at = "idle"] BY <1>1, <3>2 DEF GeoRecords
    <3>3. CASE geo' = [geo EXCEPT !.at = "crash"] BY <1>1, <3>3 DEF GeoRecords
    <3>4. CASE geo' = [geo EXCEPT !.at = "body", !.etag = geo.release, !.fetched = geo.release]
      BY <1>1, <3>4 DEF GeoRecords
    <3>5. QED BY <2>2, <3>1, <3>2, <3>3, <3>4
  <2>4. \/ geo'.at \in {"idle", "crash"} /\ geo'.etag = geo.etag /\ geo'.fetched = geo.fetched
        \/ geo'.at = "body" /\ geo'.etag = geo.release /\ geo'.fetched = geo.release
    BY <1>1, <2>2 DEF GeoRecords
  <2>5. Refreshed' BY <1>1, <2>1, <2>3, <2>4 DEF Refreshed
  <2>6. Newest \in Nat /\ Newest' \in Nat /\ Newest <= Newest' BY <1>1, <2>1, <2>3, <2>4 DEF Newest
  <2>7. geo'.at # "start" BY <2>4
  <2>8. QED BY <2>1, <2>3, <2>5, <2>6, <2>7, GeoMoves
<1>5. CASE ReadBody
  <2>1. geo.at = "body" /\ geo.options.web /\ geo.etag = geo.fetched /\ UNCHANGED <<locating, cached, located>>
    BY <1>1, <1>5 DEF ReadBody, Refreshed
  <2>2. \/ geo' = [geo EXCEPT !.at = "idle", !.lost = TRUE, !.failed = TRUE]
        \/ geo' = [geo EXCEPT !.at = "idle", !.database = 0, !.lost = TRUE, !.failed = TRUE]
        \/ geo' = [geo EXCEPT !.at = "idle", !.database = geo.fetched, !.failed = geo.failed \/ geo.fetched = 0]
    BY <1>5 DEF ReadBody, Replaces
  <2>3. (geo.failed \/ geo.fetched = 0) \in BOOLEAN BY <1>1 DEF GeoRecords
  <2>4. /\ geo' \in GeoRecords /\ geo'.release = geo.release /\ geo'.options = geo.options /\ geo'.at = "idle"
        /\ geo'.etag = geo.etag /\ geo'.fetched = geo.fetched
    <3>1. CASE geo' = [geo EXCEPT !.at = "idle", !.lost = TRUE, !.failed = TRUE] BY <1>1, <3>1 DEF GeoRecords
    <3>2. CASE geo' = [geo EXCEPT !.at = "idle", !.database = 0, !.lost = TRUE, !.failed = TRUE]
      BY <1>1, <3>2 DEF GeoRecords
    <3>3. CASE geo' = [geo EXCEPT !.at = "idle", !.database = geo.fetched, !.failed = geo.failed \/ geo.fetched = 0]
      BY <1>1, <2>3, <3>3 DEF GeoRecords
    <3>4. QED BY <2>2, <3>1, <3>2, <3>3
  <2>5. \/ geo'.database \in {geo.database, 0} /\ geo'.lost = TRUE
        \/ geo'.database = geo.fetched /\ geo'.lost = geo.lost
    BY <1>1, <2>2 DEF GeoRecords
  <2>6. Refreshed' BY <1>1, <2>1, <2>4, <2>5 DEF Refreshed
  <2>7. Newest \in Nat /\ Newest' = Newest /\ Newest = geo.fetched BY <1>1, <2>1, <2>4 DEF Newest
  <2>8. Newest <= Newest' /\ geo'.database \in {0, geo.database, Newest'} BY <2>5, <2>7
  <2>9. QED BY <2>1, <2>4, <2>6, <2>7, <2>8, GeoMoves
<1>6. QED BY <1>2, <1>3, <1>4, <1>5 DEF Refresh
-----------------------------------------------------------------------------
\* A worker whose record changes; the cache may, in its order only.
LEMMA LookerMoves ==
  ASSUME GIInv, NEW w \in Lookers, NEW new \in LookerRecords,
         locating' = [locating EXCEPT ![w] = new], geo' = geo,
         cached' \in Seq(CacheEntries), EntryOnce(cached)', Len(cached') <= CacheSize, Kept' = Kept,
         located' \in LocatedRecords, located'.latest = located.latest, located.overlaps \subseteq located'.overlaps,
         new.pc \in {"get", "miss", "set", "answer"} => new.ip \in Addresses,
         new.pc # "idle" => geo.at # "start",
         Known(new.read), Known(new.record),
         new.pc \in {"miss", "set", "answer"} =>
           new.ip = locating[w].ip /\ (locating[w].pc \in {"miss", "set", "answer"} \/ new.ip \in located'.overlaps
              \/ \A v \in Lookers : v # w => ~(OnIt(v, new.ip) /\ locating[v].pc \in {"miss", "set"})),
         Alone(w)',
         \A v \in Lookers : v # w /\ locating[v].ip \notin located'.overlaps /\ locating[v].pc = "answer"
            /\ new.pc = "answer" /\ new.ip = locating[v].ip => new.record = locating[v].record
  PROVE  GIInv'
<1>1. GITyped /\ Looking /\ Refreshed /\ AllKnown /\ Cache /\ \A v \in Lookers : Alone(v) BY DEF GIInv
<1>2. locating'[w] = new /\ \A v \in Lookers : v # w => locating'[v] = locating[v] BY <1>1 DEF GITyped
<1>3. GITyped' /\ Kept' = Kept BY <1>1 DEF GITyped
<1>4. Looking' BY <1>1, <1>2 DEF Looking
<1>5. Refreshed' BY <1>1 DEF Refreshed
<1>6. AllKnown'
  <2>1. \A v \in Lookers : Known(locating'[v].read) /\ Known(locating'[v].record) BY <1>1, <1>2 DEF AllKnown
  <2>2. QED BY <1>1, <1>3, <2>1 DEF AllKnown, Known, Newest
<1>7. Cache' BY <1>1, <1>3 DEF Cache
<1>8. ASSUME NEW v \in Lookers, v # w PROVE Alone(v)'
  <2>1. SUFFICES ASSUME locating[v].ip \notin located'.overlaps PROVE Alone(v)'
    BY <1>2, <1>8 DEF Alone
  <2>2. locating'[v] = locating[v] /\ locating[v].ip \notin located.overlaps /\ Alone(v) BY <1>1, <1>2, <1>8, <2>1
  <2> DEFINE ip == locating[v].ip
  <2>3. ASSUME locating[v].pc \in {"miss", "set"}, new.ip = ip, new.pc \in {"miss", "set", "answer"} PROVE FALSE
    <3>1. ~OnIt(w, ip) BY <1>8, <2>2, <2>3 DEF Alone
    <3>2. OnIt(v, ip) BY <2>3 DEF OnIt
    <3>3. locating[w].pc \notin {"miss", "set", "answer"} /\ new.ip \notin located'.overlaps BY <2>1, <2>3, <3>1 DEF OnIt
    <3>4. QED BY <1>8, <2>3, <3>2, <3>3
  <2>4. ASSUME locating[v].pc \in {"miss", "set"}, NEW u \in Lookers, u # v PROVE ~OnIt(u, ip)'
    <3>1. CASE u = w BY <1>2, <2>3, <2>4, <3>1 DEF OnIt
    <3>2. CASE u # w
      <4>1. ~OnIt(u, ip) /\ locating'[u] = locating[u] BY <1>2, <2>2, <2>4, <3>2 DEF Alone
      <4>2. QED BY <2>2, <4>1 DEF OnIt
    <3>3. QED BY <3>1, <3>2
  <2>5. ASSUME locating[v].pc = "answer", NEW u \in Lookers, locating'[u].pc = "answer", locating'[u].ip = ip
        PROVE  locating'[u].record = locating[v].record
    <3>1. CASE u = w BY <1>2, <1>8, <2>1, <2>5, <3>1
    <3>2. CASE u # w BY <1>2, <2>2, <2>5, <3>2 DEF Alone
    <3>3. QED BY <3>1, <3>2
  <2>6. locating[v].pc \in {"miss", "set"} => \A e \in Kept : e.ip # ip BY <2>2 DEF Alone
  <2>7. locating[v].pc = "set" => located.latest[ip] <= locating[v].read BY <2>2 DEF Alone
  <2>8. locating[v].pc = "answer" => /\ located.latest[ip] <= locating[v].record
                                    /\ \A e \in Kept : e.ip = ip => e.record = locating[v].record
    BY <2>2 DEF Alone
  <2>9. QED BY <1>3, <2>2, <2>4, <2>5, <2>6, <2>7, <2>8 DEF Alone, OnIt
<1>9. QED BY <1>3, <1>4, <1>5, <1>6, <1>7, <1>8 DEF GIInv
-----------------------------------------------------------------------------
LEMMA CacheStays ==
  ASSUME GIInv, cached' = cached
  PROVE  cached' \in Seq(CacheEntries) /\ EntryOnce(cached)' /\ Len(cached') <= CacheSize /\ Kept' = Kept
BY DEF GIInv, GITyped, Cache, EntryOnce, Kept

LEMMA LookerFields ==
  ASSUME GIInv, NEW w \in Lookers
  PROVE  /\ locating[w] \in LookerRecords /\ locating[w].read \in Nat /\ locating[w].record \in Nat
         /\ Known(locating[w].read) /\ Known(locating[w].record) /\ Known(0)
         /\ Alone(w) /\ geo \in GeoRecords /\ located \in LocatedRecords
<1>1. locating[w] \in LookerRecords /\ geo \in GeoRecords /\ located \in LocatedRecords BY DEF GIInv, GITyped
<1>2. locating[w].read \in Nat /\ locating[w].record \in Nat BY <1>1 DEF LookerRecords
<1>3. Known(locating[w].read) /\ Known(locating[w].record) /\ Alone(w) BY DEF GIInv, AllKnown
<1>4. Known(0)
  <2>1. geo.database \in Nat /\ geo.fetched \in Nat /\ geo.release \in Nat BY <1>1 DEF GeoRecords
  <2>2. QED BY <2>1 DEF Known, Newest
<1>5. QED BY <1>1, <1>2, <1>3, <1>4

LEMMA NoLooker == GINone \in LookerRecords /\ GINone.pc = "idle" /\ GINone.read = 0 /\ GINone.record = 0
BY DEF GINone, LookerRecords

\* An event comes, or is sent with the tags of a failure.
LEMMA GILocates == ASSUME FilterBounds, GIInv, NEW w \in Lookers, Locate(w) \/ TagFailure(w) PROVE GIInv'
<1>1. /\ locating[w] \in LookerRecords /\ Known(0) /\ located \in LocatedRecords /\ locating \in [Lookers -> LookerRecords]
      /\ NoValue \notin Addresses
  BY LookerFields DEF GIInv, GITyped, FilterBounds
<1>2. geo' = geo /\ cached' = cached BY DEF Locate, TagFailure
<1>3. cached' \in Seq(CacheEntries) /\ EntryOnce(cached)' /\ Len(cached') <= CacheSize /\ Kept' = Kept
  BY <1>2, CacheStays
<1>4. located' \in LocatedRecords /\ located'.latest = located.latest /\ located'.overlaps = located.overlaps
  <2>1. CASE Locate(w)
    <3>1. located' = [located EXCEPT !.count = located.count + 1] BY <2>1 DEF Locate
    <3>2. located.count + 1 \in Nat BY <1>1 DEF LocatedRecords
    <3>3. QED BY <1>1, <3>1, <3>2 DEF LocatedRecords
  <2>2. CASE TagFailure(w) BY <1>1, <2>2 DEF TagFailure
  <2>3. QED BY <2>1, <2>2
<1>5. PICK new \in LookerRecords :
        /\ locating' = [locating EXCEPT ![w] = new] /\ new.pc \in {"idle", "get", "tag"} /\ new.read = 0 /\ new.record = 0
        /\ new.pc = "get" => new.ip \in Addresses
        /\ new.pc # "idle" => geo.at # "start"
  <2>1. CASE Locate(w)
    <3>1. PICK ip \in Addresses \cup {NoValue} :
            locating' = [locating EXCEPT ![w] = [pc |-> IF ip = NoValue THEN "tag" ELSE "get", ip |-> ip, read |-> 0, record |-> 0]]
      BY <2>1 DEF Locate
    <3> DEFINE new == [pc |-> IF ip = NoValue THEN "tag" ELSE "get", ip |-> ip, read |-> 0, record |-> 0]
    <3>2. new \in LookerRecords BY DEF LookerRecords
    <3>3. geo.at # "start" BY <2>1 DEF Locate
    <3>4. new.pc = "get" => new.ip \in Addresses OBVIOUS
    <3>5. new.pc \in {"idle", "get", "tag"} /\ new.read = 0 /\ new.record = 0 OBVIOUS
    <3>6. QED BY <3>1, <3>2, <3>3, <3>4, <3>5
  <2>2. CASE TagFailure(w) BY <2>2, NoLooker DEF TagFailure
  <2>3. QED BY <2>1, <2>2
<1>6. locating'[w] = new BY <1>1, <1>5
<1>7. Alone(w)' BY <1>5, <1>6 DEF Alone
<1>8. QED BY <1>1, <1>2, <1>3, <1>4, <1>5, <1>7, LookerMoves

\* The database is read, or the address is none, or there is no database.
LEMMA GIReads == ASSUME FilterBounds, GIInv, NEW w \in Lookers, GetInfo(w) PROVE GIInv'
<1> DEFINE l == locating[w]
<1>1. /\ l \in LookerRecords /\ Known(l.read) /\ Known(l.record) /\ l.record \in Nat /\ located \in LocatedRecords
      /\ locating \in [Lookers -> LookerRecords] /\ l.pc = "miss" /\ geo \in GeoRecords /\ l.ip \in Addresses
      /\ Alone(w) /\ geo.at # "start" /\ cached' = cached /\ located' = located
  BY LookerFields DEF GIInv, GITyped, GetInfo, LookerAt, Looking
<1>2. cached' \in Seq(CacheEntries) /\ EntryOnce(cached)' /\ Len(cached') <= CacheSize /\ Kept' = Kept
  BY <1>1, CacheStays
<1>3. CASE geo' = geo /\ locating' = [locating EXCEPT ![w].pc = "tag"]
  <2> DEFINE new == [l EXCEPT !.pc = "tag"]
  <2>1. /\ locating' = [locating EXCEPT ![w] = new] /\ new \in LookerRecords /\ new.pc = "tag" /\ new.read = l.read
        /\ new.record = l.record
    BY <1>1, <1>3 DEF LookerRecords
  <2> HIDE DEF new, l
  <2>2. locating'[w] = new BY <1>1, <2>1
  <2>3. Alone(w)' BY <2>1, <2>2 DEF Alone
  <2>4. QED BY <1>1, <1>2, <1>3, <2>1, <2>3, LookerMoves
<1>4. CASE geo.database = 0 /\ GeoAt("crash") /\ UNCHANGED <<locating, cached, located>>
  <2>1. geo' = [geo EXCEPT !.at = "crash"] BY <1>4 DEF GeoAt
  <2>2. /\ geo' \in GeoRecords /\ geo'.release = geo.release /\ geo'.options = geo.options /\ geo'.at = "crash"
        /\ geo'.etag = geo.etag /\ geo'.fetched = geo.fetched /\ geo'.failed = geo.failed /\ geo'.database = geo.database
    BY <1>1, <2>1 DEF GeoRecords
  <2>3. Refreshed' BY <1>1, <1>4, <2>2 DEF GIInv, Refreshed
  <2>4. Newest' = Newest /\ Newest \in Nat
    <3>1. geo.fetched \in Nat /\ geo.release \in Nat BY <1>1 DEF GeoRecords
    <3>2. QED BY <2>2, <3>1 DEF Newest
  <2>5. QED BY <1>4, <2>2, <2>3, <2>4, GeoMoves
<1>5. CASE geo.database # 0 /\ geo' = geo /\ locating' = [locating EXCEPT ![w].pc = "set", ![w].read = geo.database]
  <2> DEFINE new == [l EXCEPT !.pc = "set", !.read = geo.database]
  <2>1. geo.database \in Nat BY <1>1 DEF GeoRecords
  <2>2. /\ locating' = [locating EXCEPT ![w] = new] /\ new \in LookerRecords /\ new.pc = "set" /\ new.read = geo.database
        /\ new.record = l.record /\ new.ip = l.ip
    BY <1>1, <1>5, <2>1 DEF LookerRecords
  <2>3. Known(new.read)
    <3>1. geo.database <= Newest BY DEF GIInv, AllKnown
    <3>2. QED BY <2>1, <2>2, <3>1 DEF Known
  <2>4. located.latest[l.ip] <= geo.database
    <3>1. Known(located.latest[l.ip]) BY <1>1 DEF GIInv, AllKnown
    <3>2. QED BY <1>5, <3>1 DEF Known
  <2>5. locating'[w] = new /\ \A v \in Lookers : v # w => locating'[v] = locating[v] BY <1>1, <2>2
  <2>6. Alone(w)'
    <3>1. SUFFICES ASSUME l.ip \notin located.overlaps
                   PROVE  (\A e \in Kept : e.ip # l.ip) /\ \A v \in Lookers : v # w => ~OnIt(v, l.ip)'
      BY <1>1, <1>2, <2>2, <2>4, <2>5 DEF Alone
    <3>2. (\A e \in Kept : e.ip # l.ip) /\ \A v \in Lookers : v # w => ~OnIt(v, l.ip) BY <1>1, <3>1 DEF Alone
    <3>3. QED BY <2>5, <3>2 DEF OnIt
  <2> HIDE DEF new
  <2>7. new.ip = locating[w].ip /\ locating[w].pc \in {"miss", "set", "answer"} BY <1>1, <2>2
  <2> HIDE DEF l
  <2>8. QED BY <1>1, <1>2, <1>5, <2>2, <2>3, <2>6, <2>7, LookerMoves
<1>6. QED BY <1>1, <1>3, <1>4, <1>5 DEF GetInfo
-----------------------------------------------------------------------------
\* The cache's goroutine is asked.
LEMMA GIAsks == ASSUME FilterBounds, GIInv, NEW w \in Lookers, CacheGet(w) PROVE GIInv'
<1> DEFINE l == locating[w]
<1>1. /\ l \in LookerRecords /\ Known(l.read) /\ Known(l.record) /\ located \in LocatedRecords
      /\ locating \in [Lookers -> LookerRecords] /\ l.pc = "get" /\ l.ip \in Addresses
      /\ geo.at # "start" /\ geo' = geo /\ cached \in Seq(CacheEntries) /\ EntryOnce(cached) /\ Len(cached) <= CacheSize
      /\ GITyped
  BY LookerFields DEF GIInv, GITyped, CacheGet, LookerAt, Looking, Cache
<1> DEFINE others == {locating[v].ip : v \in {v \in Lookers \ {w} : Cached(l.ip) = {} /\ locating[v].ip = l.ip
                                                 /\ locating[v].pc \in {"miss", "set", "answer"}}}
<1>2. /\ located' = [located EXCEPT !.overlaps = located.overlaps \cup others]
      /\ others \subseteq {l.ip}
      /\ Cached(l.ip) = {} => \A v \in Lookers : v # w /\ OnIt(v, l.ip) => l.ip \in others
  BY DEF CacheGet, OnIt
<1> HIDE DEF others
<1>3. /\ located' \in LocatedRecords /\ located'.latest = located.latest /\ located.overlaps \subseteq located'.overlaps
      /\ located'.overlaps = located.overlaps \cup others
  <2>1. located.overlaps \cup others \in SUBSET (Addresses \cup {NoValue}) BY <1>1, <1>2 DEF LocatedRecords
  <2>2. QED BY <1>1, <1>2, <2>1 DEF LocatedRecords
<1>4. DOMAIN cached = 1..Len(cached) BY <1>1
<1>5. CASE Cached(l.ip) = {} /\ locating' = [locating EXCEPT ![w].pc = "miss"] /\ cached' = cached
  <2> DEFINE new == [l EXCEPT !.pc = "miss"]
  <2>1. /\ locating' = [locating EXCEPT ![w] = new] /\ new \in LookerRecords /\ new.pc = "miss" /\ new.ip = l.ip
        /\ new.read = l.read /\ new.record = l.record
    BY <1>1, <1>5 DEF LookerRecords
  <2> HIDE DEF new
  <2>2. cached' \in Seq(CacheEntries) /\ EntryOnce(cached)' /\ Len(cached') <= CacheSize /\ Kept' = Kept
    BY <1>5, CacheStays
  <2>3. locating'[w] = new /\ \A v \in Lookers : v # w => locating'[v] = locating[v] BY <1>1, <2>1
  <2>4. \A e \in Kept : e.ip # l.ip BY <1>4, <1>5 DEF Kept, Cached
  <2>5. l.ip \in located'.overlaps \/ \A v \in Lookers : v # w => ~OnIt(v, l.ip) BY <1>2, <1>3, <1>5
  <2>6. Alone(w)'
    <3>1. PICK ip \in Addresses : ip = l.ip BY <1>1
    <3>2. ip \in located'.overlaps \/ \A v \in Lookers : v # w => ~OnIt(v, ip) BY <2>5, <3>1
    <3>3. \A v \in Lookers : v # w => (OnIt(v, ip)' <=> OnIt(v, ip)) BY <2>3 DEF OnIt
    <3>4. ip \in located'.overlaps \/ \A v \in Lookers : v # w => ~OnIt(v, ip)' BY <3>2, <3>3
    <3>5. locating'[w].ip = ip /\ locating'[w].pc = "miss" BY <2>1, <2>3, <3>1
    <3>6. \A e \in Kept' : e.ip # ip BY <2>2, <2>4, <3>1
    <3>7. QED BY <3>4, <3>5, <3>6 DEF Alone
  <2>7. /\ new.ip = locating[w].ip
        /\ new.ip \in located'.overlaps \/ \A v \in Lookers : v # w => ~(OnIt(v, new.ip) /\ locating[v].pc \in {"miss", "set"})
    BY <2>1, <2>5
  <2>8. Known(new.read) /\ Known(new.record) /\ new.ip \in Addresses BY <1>1, <2>1
  <2> HIDE DEF l
  <2>9. QED BY <1>1, <1>3, <2>1, <2>2, <2>6, <2>7, <2>8, LookerMoves
<1>6. ASSUME NEW i \in Cached(l.ip), cached' = Append(RemoveAt(cached, i), cached[i]),
             locating' = [locating EXCEPT ![w].pc = "answer", ![w].record = cached[i].record]
      PROVE  GIInv'
  <2>1. i \in 1..Len(cached) /\ cached[i].ip = l.ip BY <1>4 DEF Cached
  <2>2. PICK s \in Seq(CacheEntries) : s = Append(RemoveAt(cached, i), cached[i]) /\ Len(s) = Len(cached) /\ EntryOnce(s)
           /\ (\A j \in 1..Len(s) : \E k \in 1..Len(cached) : s[j] = cached[k])
           /\ (\A k \in 1..Len(cached) : \E j \in 1..Len(s) : s[j] = cached[k])
    <3> DEFINE t == Append(RemoveAt(cached, i), cached[i])
    <3>1. cached \in Seq(CacheEntries) /\ i \in 1..Len(cached) /\ EntryOnce(cached) BY <1>1, <2>1
    <3>2. t \in Seq(CacheEntries) /\ Len(t) = Len(cached) /\ EntryOnce(t) BY ONLY <3>1, UsedKeeps, Zenon
    <3>3. \A j \in 1..Len(t) : \E k \in 1..Len(cached) : t[j] = cached[k] BY ONLY <3>1, UsedKeeps, Zenon
    <3>4. \A k \in 1..Len(cached) : \E j \in 1..Len(t) : t[j] = cached[k] BY ONLY <3>1, UsedKeeps, Zenon
    <3> HIDE DEF t
    <3>5. QED BY <3>2, <3>3, <3>4 DEF t
  <2>21. cached' = s BY <1>6, <2>2
  <2>3. Kept' = Kept
    <3>1. Kept' = {s[j] : j \in 1..Len(s)} BY <2>21 DEF Kept
    <3>2. Kept = {cached[k] : k \in 1..Len(cached)} BY DEF Kept
    <3>3. ASSUME NEW j \in 1..Len(s) PROVE s[j] \in Kept
      <4>1. PICK k \in 1..Len(cached) : s[j] = cached[k] BY <2>2
      <4>2. QED BY <3>2, <4>1
    <3>4. ASSUME NEW k \in 1..Len(cached) PROVE cached[k] \in Kept'
      <4>1. PICK j \in 1..Len(s) : s[j] = cached[k] BY <2>2
      <4>2. QED BY <3>1, <4>1
    <3>5. QED BY <3>1, <3>2, <3>3, <3>4
  <2>4. cached' \in Seq(CacheEntries) /\ EntryOnce(cached)' /\ EntryOnce(cached') BY <2>2, <2>21 DEF EntryOnce
  <2>5. PICK e \in Kept : e = cached[i] BY <2>1 DEF Kept
  <2>6. e.record \in Nat /\ Known(e.record) /\ e.ip = l.ip BY <1>1, <2>1, <2>5, KeptEntries DEF GIInv, AllKnown
  <2> DEFINE new == [l EXCEPT !.pc = "answer", !.record = e.record]
  <2>7. /\ locating' = [locating EXCEPT ![w] = new] /\ new \in LookerRecords /\ new.pc = "answer" /\ new.ip = l.ip
        /\ new.read = l.read /\ new.record = e.record
    BY <1>1, <1>6, <2>5, <2>6 DEF LookerRecords
  <2> HIDE DEF new
  <2>8. locating'[w] = new /\ \A v \in Lookers : v # w => locating'[v] = locating[v] BY <1>1, <2>7
  \* Nobody misses or sets what is there, and who has an answer has this one.
  <2>9. ASSUME l.ip \notin located.overlaps, NEW v \in Lookers, locating[v].ip = l.ip
        PROVE  /\ locating[v].pc \notin {"miss", "set"}
               /\ locating[v].pc = "answer" => locating[v].record = e.record
    BY <2>6, <2>9 DEF GIInv, Alone
  <2>10. Cached(l.ip) # {} /\ others = {} BY <1>2, <1>6 DEF others
  <2>11. located'.overlaps = located.overlaps BY <1>3, <2>10
  <2>12. \A f \in Kept : f.ip = l.ip => f.record = e.record
    <3>1. SUFFICES ASSUME NEW f \in Kept, f.ip = l.ip PROVE f.record = e.record OBVIOUS
    <3>2. PICK k \in 1..Len(cached) : f = cached[k] BY DEF Kept
    <3>3. k = i BY <1>1, <2>1, <3>1, <3>2 DEF EntryOnce
    <3>4. QED BY <2>5, <3>2, <3>3
  <2>13. Alone(w)'
    <3>1. SUFFICES ASSUME l.ip \notin located.overlaps
                   PROVE  /\ located.latest[l.ip] <= e.record
                          /\ \A v \in Lookers : locating'[v].pc = "answer" /\ locating'[v].ip = l.ip => locating'[v].record = e.record
      BY <1>3, <2>3, <2>7, <2>8, <2>11, <2>12 DEF Alone
    <3>2. located.latest[l.ip] <= e.record BY <2>6, <3>1 DEF GIInv, Cache
    <3>3. QED BY <2>7, <2>8, <2>9, <3>1, <3>2
  <2>14. /\ new.ip = locating[w].ip
         /\ new.ip \in located'.overlaps \/ \A v \in Lookers : v # w => ~(OnIt(v, new.ip) /\ locating[v].pc \in {"miss", "set"})
    BY <2>7, <2>9, <2>11 DEF OnIt
  <2>15. \A v \in Lookers : v # w /\ locating[v].ip \notin located'.overlaps /\ locating[v].pc = "answer"
            /\ new.pc = "answer" /\ new.ip = locating[v].ip => new.record = locating[v].record
    BY <2>7, <2>9, <2>11
  <2>16. Known(new.read) /\ Known(new.record) /\ new.ip \in Addresses BY <1>1, <2>6, <2>7
  <2>17. Len(cached') <= CacheSize BY <1>1, <2>2, <2>21
  <2> HIDE DEF l
  <2>18. QED BY <1>1, <1>3, <2>2, <2>3, <2>4, <2>7, <2>13, <2>14, <2>15, <2>16, <2>17, LookerMoves
<1>7. QED BY <1>5, <1>6 DEF CacheGet

\* What was read is put into the cache, and the least recently used goes.
LEMMA GISets == ASSUME FilterBounds, GIInv, NEW w \in Lookers, CacheSet(w) PROVE GIInv'
<1> DEFINE l == locating[w]
<1>1. /\ l \in LookerRecords /\ Known(l.read) /\ l.read \in Nat /\ located' = located /\ located \in LocatedRecords
      /\ locating \in [Lookers -> LookerRecords] /\ l.pc = "set" /\ l.ip \in Addresses /\ geo' = geo
      /\ cached \in Seq(CacheEntries) /\ EntryOnce(cached) /\ GITyped /\ CacheSize \in Nat /\ Alone(w)
  BY LookerFields DEF GIInv, GITyped, CacheSet, LookerAt, Looking, Cache, FilterBounds
<1> DEFINE e == [ip |-> l.ip, record |-> l.read]  r == CachedWithout(l.ip)  s == Append(r, e)
<1>2. e \in CacheEntries /\ e.ip = l.ip /\ e.record = l.read BY <1>1 DEF CacheEntries
<1>3. cached' = Trimmed(s) /\ locating' = [locating EXCEPT ![w].pc = "answer", ![w].record = l.read] BY DEF CacheSet
<1>4. /\ r \in Seq(CacheEntries) /\ Len(r) \in Nat /\ EntryOnce(r)
      /\ \A j \in 1..Len(r) : r[j].ip # l.ip /\ \E k \in 1..Len(cached) : r[j] = cached[k]
  BY <1>1, WithoutKeeps
<1> HIDE DEF e, r
<1>5. s \in Seq(CacheEntries) /\ Len(s) = Len(r) + 1 /\ s[Len(r) + 1] = e /\ \A j \in 1..Len(r) : s[j] = r[j]
  BY <1>2, <1>4, AppendProperties
<1> HIDE DEF s
<1>6. EntryOnce(s)
  <2>1. SUFFICES ASSUME NEW j \in 1..Len(s), NEW k \in 1..Len(s), s[j].ip = s[k].ip PROVE j = k BY DEF EntryOnce
  <2>2. (j \in 1..Len(r) \/ j = Len(r) + 1) /\ (k \in 1..Len(r) \/ k = Len(r) + 1) BY <1>4, <1>5
  <2>3. CASE j \in 1..Len(r) /\ k \in 1..Len(r) BY <1>4, <1>5, <2>1, <2>3 DEF EntryOnce
  <2>4. CASE j = Len(r) + 1 /\ k \in 1..Len(r) BY <1>2, <1>4, <1>5, <2>1, <2>4
  <2>5. CASE k = Len(r) + 1 /\ j \in 1..Len(r) BY <1>2, <1>4, <1>5, <2>1, <2>5
  <2>6. QED BY <2>2, <2>3, <2>4, <2>5
<1>7. /\ cached' \in Seq(CacheEntries) /\ Len(cached') <= CacheSize /\ EntryOnce(cached')
      /\ \A j \in 1..Len(cached') : \E k \in 1..Len(s) : cached'[j] = s[k]
  <2>1. s \in Seq(CacheEntries) /\ EntryOnce(s) /\ CacheSize \in Nat BY <1>1, <1>5, <1>6
  <2>2. /\ Trimmed(s) \in Seq(CacheEntries) /\ Len(Trimmed(s)) <= CacheSize /\ EntryOnce(Trimmed(s))
        /\ \A j \in 1..Len(Trimmed(s)) : \E k \in 1..Len(s) : Trimmed(s)[j] = s[k]
    BY ONLY <2>1, TrimmedKeeps, Zenon
  <2>3. QED BY ONLY <1>3, <2>2
<1>8. \A f \in Kept' : f = e \/ (f \in Kept /\ f.ip # l.ip)
  <2>1. TAKE f \in Kept'
  <2>2. PICK j \in 1..Len(cached') : f = cached'[j] BY DEF Kept
  <2>3. PICK k \in 1..Len(s) : f = s[k] BY <1>7, <2>2
  <2>4. CASE k = Len(r) + 1 BY <1>5, <2>3, <2>4
  <2>5. CASE k \in 1..Len(r)
    <3>1. f = r[k] BY <1>5, <2>3, <2>5
    <3>2. PICK i \in 1..Len(cached) : f = cached[i] BY <1>4, <2>5, <3>1
    <3>3. QED BY <1>4, <2>5, <3>1, <3>2 DEF Kept
  <2>6. QED BY <1>4, <1>5, <2>3, <2>4, <2>5
<1> DEFINE new == [l EXCEPT !.pc = "answer", !.record = l.read]
<1>9. /\ locating' = [locating EXCEPT ![w] = new] /\ new \in LookerRecords /\ new.pc = "answer" /\ new.ip = l.ip
      /\ new.read = l.read /\ new.record = l.read
  BY <1>1, <1>3 DEF LookerRecords
<1> HIDE DEF new
<1>10. locating'[w] = new /\ \A v \in Lookers : v # w => locating'[v] = locating[v] BY <1>1, <1>9
<1>11. GITyped' BY <1>1, <1>7, <1>9 DEF GITyped
<1>12. Looking' BY <1>1, <1>9, <1>10 DEF GIInv, Looking
<1>13. Refreshed' BY <1>1 DEF GIInv, Refreshed
<1>14. AllKnown'
  <2>1. AllKnown BY DEF GIInv
  <2>2. \A f \in Kept' : Known(f.record) BY <1>1, <1>2, <1>8, <2>1 DEF AllKnown
  <2>3. \A v \in Lookers : Known(locating'[v].read) /\ Known(locating'[v].record) BY <1>1, <1>9, <1>10, <2>1 DEF AllKnown
  <2>4. QED BY <1>1, <2>1, <2>2, <2>3 DEF AllKnown, Known, Newest
<1>15. ASSUME l.ip \notin located.overlaps
       PROVE  located.latest[l.ip] <= l.read /\ \A v \in Lookers : v # w => ~OnIt(v, l.ip)
  BY <1>1, <1>15 DEF Alone
<1>16. Cache'
  <2>1. EntryOnce(cached)' BY <1>7 DEF EntryOnce
  <2>2. \A f \in Kept : f.ip \notin located.overlaps => located.latest[f.ip] <= f.record BY DEF GIInv, Cache
  <2>3. \A f \in Kept' : f.ip \notin located.overlaps => located.latest[f.ip] <= f.record BY <1>2, <1>8, <1>15, <2>2
  <2>4. QED BY <1>1, <1>7, <2>1, <2>3 DEF Cache
<1>17. Alone(w)'
  <2>1. SUFFICES ASSUME l.ip \notin located.overlaps
                 PROVE  /\ located.latest[l.ip] <= l.read
                        /\ \A v \in Lookers : locating'[v].pc = "answer" /\ locating'[v].ip = l.ip => locating'[v].record = l.read
                        /\ \A f \in Kept' : f.ip = l.ip => f.record = l.read
    BY <1>1, <1>9, <1>10 DEF Alone
  <2>2. \A v \in Lookers : v # w => ~(locating'[v].pc = "answer" /\ locating'[v].ip = l.ip)
    BY <1>10, <1>15, <2>1 DEF OnIt
  <2>3. QED BY <1>2, <1>8, <1>9, <1>10, <1>15, <2>1, <2>2
<1>18. ASSUME NEW v \in Lookers, v # w PROVE Alone(v)'
  <2>1. locating'[v] = locating[v] /\ Alone(v) BY <1>10, <1>18 DEF GIInv
  <2>2. CASE locating[v].ip = l.ip
    <3>1. locating[v].ip \in located.overlaps \/ ~OnIt(v, l.ip) BY <1>15, <1>18, <2>2
    <3>2. QED BY <1>1, <2>1, <2>2, <3>1 DEF Alone, OnIt
  <2>3. CASE locating[v].ip # l.ip
    <3>1. \A u \in Lookers : locating'[u].ip = locating[u].ip /\ (locating'[u].ip = locating[v].ip => locating'[u] = locating[u])
      BY <1>9, <1>10, <2>3
    <3>2. \A f \in Kept' : f.ip = locating[v].ip => f \in Kept BY <1>2, <1>8, <2>3
    <3>3. QED BY <1>1, <2>1, <3>1, <3>2 DEF Alone, OnIt
  <2>4. QED BY <2>2, <2>3
<1>19. QED BY <1>11, <1>12, <1>13, <1>14, <1>16, <1>17, <1>18 DEF GIInv

\* The event is sent with its record.
LEMMA GIAnswers == ASSUME FilterBounds, GIInv, NEW w \in Lookers, Answer(w) PROVE GIInv'
<1> DEFINE l == locating[w]
<1>1. /\ l \in LookerRecords /\ Known(l.record) /\ l.record \in Nat /\ located \in LocatedRecords /\ Known(0)
      /\ locating \in [Lookers -> LookerRecords] /\ l.pc = "answer" /\ l.ip \in Addresses /\ geo' = geo
      /\ cached' = cached /\ GITyped /\ Alone(w)
      /\ locating' = [locating EXCEPT ![w] = GINone] /\ located' = [located EXCEPT !.latest[l.ip] = l.record]
  BY LookerFields DEF GIInv, GITyped, Answer, LookerAt, Looking
<1>2. cached' \in Seq(CacheEntries) /\ EntryOnce(cached)' /\ Len(cached') <= CacheSize /\ Kept' = Kept
  BY <1>1, CacheStays
<1>3. /\ located' \in LocatedRecords /\ located'.overlaps = located.overlaps /\ located'.latest[l.ip] = l.record
      /\ \A a \in Addresses : a # l.ip => located'.latest[a] = located.latest[a]
  <2> DEFINE new == [located.latest EXCEPT ![l.ip] = l.record]
  <2>1. located.latest \in [Addresses -> Nat] BY <1>1 DEF LocatedRecords
  <2>2. new \in [Addresses -> Nat] /\ new[l.ip] = l.record /\ \A a \in Addresses : a # l.ip => new[a] = located.latest[a]
    BY <1>1, <2>1
  <2>3. located' = [located EXCEPT !.latest = new] BY <1>1
  <2> HIDE DEF new
  <2>4. located' \in LocatedRecords /\ located'.overlaps = located.overlaps /\ located'.latest = new
    BY <1>1, <2>2, <2>3 DEF LocatedRecords
  <2>5. QED BY <2>2, <2>4
<1>4. locating'[w] = GINone /\ \A v \in Lookers : v # w => locating'[v] = locating[v] BY <1>1
<1>5. GITyped' BY <1>1, <1>2, <1>3, NoLooker DEF GITyped
<1>6. Looking' BY <1>1, <1>4, NoLooker DEF GIInv, Looking
<1>7. Refreshed' BY <1>1 DEF GIInv, Refreshed
<1>8. AllKnown'
  <2>1. AllKnown BY DEF GIInv
  <2>2. \A a \in Addresses : Known(located'.latest[a]) BY <1>1, <1>3, <2>1 DEF AllKnown
  <2>3. \A v \in Lookers : Known(locating'[v].read) /\ Known(locating'[v].record) BY <1>1, <1>4, <2>1, NoLooker DEF AllKnown
  <2>4. QED BY <1>1, <1>2, <2>1, <2>2, <2>3 DEF AllKnown, Known, Newest
<1>9. Cache'
  <2>1. Cache /\ \A e \in Kept : e.ip \in Addresses BY <1>1, KeptEntries DEF GIInv
  <2>2. ASSUME NEW e \in Kept, e.ip \notin located.overlaps PROVE located'.latest[e.ip] <= e.record
    <3>1. CASE e.ip = l.ip
      <4>1. e.record = l.record BY <1>1, <2>2, <3>1 DEF Alone
      <4>2. QED BY <1>1, <1>3, <3>1, <4>1
    <3>2. CASE e.ip # l.ip BY <1>3, <2>1, <2>2, <3>2 DEF Cache
    <3>3. QED BY <3>1, <3>2
  <2>3. QED BY <1>2, <1>3, <2>2 DEF Cache
<1>10. Alone(w)' BY <1>4, NoLooker DEF Alone
<1>11. ASSUME NEW v \in Lookers, v # w PROVE Alone(v)'
  <2>1. locating'[v] = locating[v] /\ Alone(v) BY <1>4, <1>11 DEF GIInv
  <2>2. SUFFICES ASSUME locating[v].ip \notin located.overlaps, locating[v].pc \in {"miss", "set", "answer"} PROVE Alone(v)'
    BY <1>3, <2>1 DEF Alone
  <2>3. \A u \in Lookers : locating'[u] = locating[u] \/ locating'[u].pc = "idle" BY <1>4, NoLooker
  <2>4. locating[v].pc \in {"miss", "set"} => locating[v].ip # l.ip
    <3>1. locating[v].ip = l.ip => OnIt(w, locating[v].ip) BY <1>1 DEF OnIt
    <3>2. QED BY <1>11, <2>1, <2>2, <3>1 DEF Alone
  <2>5. locating[v].ip \in Addresses BY <2>2 DEF GIInv, Looking
  <2>6. locating[v].pc = "set" => located'.latest[locating[v].ip] <= locating[v].read
    BY <1>3, <2>1, <2>2, <2>4, <2>5 DEF Alone
  <2>7. locating[v].pc = "answer" => located'.latest[locating[v].ip] <= locating[v].record
    <3>1. SUFFICES ASSUME locating[v].pc = "answer" PROVE located'.latest[locating[v].ip] <= locating[v].record OBVIOUS
    <3>2. CASE locating[v].ip = l.ip
      <4>1. locating[v].record = l.record BY <1>1, <2>2, <3>1, <3>2 DEF Alone
      <4>2. QED BY <1>1, <1>3, <3>2, <4>1
    <3>3. CASE locating[v].ip # l.ip BY <1>3, <2>1, <2>2, <2>5, <3>1, <3>3 DEF Alone
    <3>4. QED BY <3>2, <3>3
  <2>8. \A u \in Lookers : OnIt(u, locating[v].ip)' => OnIt(u, locating[v].ip)
    BY <2>1, <2>3 DEF OnIt
  <2>9. QED BY <1>2, <1>3, <2>1, <2>2, <2>3, <2>6, <2>7, <2>8 DEF Alone, OnIt
<1>12. QED BY <1>5, <1>6, <1>7, <1>8, <1>9, <1>10, <1>11 DEF GIInv

LEMMA GISteps == ASSUME FilterBounds, GIInv, [GINext]_giVars PROVE GIInv'
<1>1. CASE UNCHANGED giVars
  <2>1. geo' = geo /\ locating' = locating /\ cached' = cached /\ located' = located BY <1>1 DEF giVars
  <2>2. GITyped' /\ Looking' /\ Refreshed' BY <2>1 DEF GIInv, GITyped, Looking, Refreshed
  <2>3. Kept' = Kept BY <2>1 DEF Kept
  <2>4. AllKnown' BY <2>1, <2>3 DEF GIInv, AllKnown, Known, Newest
  <2>5. \A w \in Lookers : Alone(w)' BY <2>1, <2>3 DEF GIInv, Alone, OnIt
  <2>6. Cache' BY <2>1, <2>3 DEF GIInv, Cache, EntryOnce
  <2>7. QED BY <2>2, <2>4, <2>5, <2>6 DEF GIInv
<1>2. CASE GINext BY <1>2, GeoSteps, GILocates, GIAsks, GIReads, GISets, GIAnswers DEF GINext
<1>3. QED BY <1>1, <1>2

LEMMA GISounds == ASSUME GIInv PROVE EtagNamesDatabase /\ GeoNeverOlder /\ CacheWithin
<1>1. EtagNamesDatabase BY DEF GIInv, Refreshed, EtagNamesDatabase
<1>2. GeoNeverOlder
  <2>1. ASSUME NEW w \in Lookers, locating[w].pc = "answer", locating[w].ip \notin located.overlaps
        PROVE  locating[w].record >= located.latest[locating[w].ip]
    <3>1. locating[w].ip \in Addresses BY <2>1 DEF GIInv, Looking
    <3>2. locating[w].record \in Nat BY LookerFields
    <3>3. located.latest[locating[w].ip] \in Nat BY <3>1 DEF GIInv, GITyped, LocatedRecords
    <3>4. located.latest[locating[w].ip] <= locating[w].record BY <2>1 DEF GIInv, Alone
    <3>5. QED BY <3>2, <3>3, <3>4
  <2>2. QED BY <2>1 DEF GeoNeverOlder
<1>3. CacheWithin
  <2>1. DOMAIN cached = 1..Len(cached) BY DEF GIInv, GITyped
  <2>2. QED BY <2>1 DEF GIInv, Cache, EntryOnce, Refreshed, CacheWithin
<1>4. QED BY <1>1, <1>2, <1>3
-----------------------------------------------------------------------------
(* The theorems: each filter's, and of the filters side by side. *)
LEMMA FilterBoundsHold == FilterBounds
BY FilterBounds DEF FilterBounds

\* newterm: a worker passes a term once at most, however the workers' searches
\* of the list and their appends to it interleave, and a term that was received
\* and is not configured was passed by one of them once none is at it any
\* more, for any number of workers and terms.
THEOREM NewTermHolds == NTSpec => [](OncePerWorker /\ NewTermPasses)
<1>1. NTInit => NTInv BY FilterBoundsHold, NTStarts
<1>2. NTInv /\ [NTNext]_ntVars => NTInv' BY FilterBoundsHold, NTSteps
<1>3. NTInv => OncePerWorker /\ NewTermPasses BY FilterBoundsHold, NTSounds
<1> QED BY <1>1, <1>2, <1>3, PTL DEF NTSpec

\* change: an event is sent if and only if its value differs from that of the
\* event before it and the filter has not forgotten that one, whenever the
\* timer's callback gets the mutex; a stopped filter has no timer.
THEOREM ChangeHolds == CFSpec => [](PassesExactlyChanges /\ StoppedHasNoTimer)
<1>1. CFInit => CFInv BY FilterBoundsHold, CFStarts
<1>2. CFInv /\ [CFNext]_cfVars => CFInv' BY FilterBoundsHold, CFSteps
<1>3. CFInv => PassesExactlyChanges /\ StoppedHasNoTimer BY DEF CFInv
<1> QED BY <1>1, <1>2, <1>3, PTL DEF CFSpec

\* geoip: the etag names the database in use unless a body was lost; an
\* address that is looked up by one worker at a time is never answered from
\* an older release than before; and the cache has an address once and keeps
\* its size, for any number of workers, addresses and releases.
THEOREM GeoHolds == GISpec => [](EtagNamesDatabase /\ GeoNeverOlder /\ CacheWithin)
<1>1. GIInit => GIInv BY FilterBoundsHold, GIStarts
<1>2. GIInv /\ [GINext]_giVars => GIInv' BY FilterBoundsHold, GISteps
<1>3. GIInv => EtagNamesDatabase /\ GeoNeverOlder /\ CacheWithin BY GISounds
<1> QED BY <1>1, <1>2, <1>3, PTL DEF GISpec

\* digest: every map but the last was sent in a digest, and in one only, as
\* long as no tick begins while another is alive: whatever Receive and a tick
\* do to each other, with an interval or a count.
THEOREM DigestHolds == DGSpec => [](NoEventDropped /\ DigestedOnce)
<1>1. DGInit => DGInv BY FilterBoundsHold, DGStarts
<1>2. DGInv /\ [DGNext]_digestVars => DGInv' BY FilterBoundsHold, DGSteps
<1>3. DGInv => NoEventDropped /\ DigestedOnce BY DGSounds
<1> QED BY <1>1, <1>2, <1>3, PTL DEF DGSpec

\* Side by side.  Those that are not at work stay as they began.
FiltersInv ==
  /\ at_work = "newterm" => NTInv
  /\ at_work = "change" => CFInv
  /\ at_work = "geoip" => GIInv
  /\ at_work = "digest" => DGInv

LEMMA FiltersStart == ASSUME FilterBounds, FiltersInit PROVE FiltersInv
BY NTStarts, CFStarts, GIStarts, DGStarts DEF FiltersInit, FiltersInv

LEMMA FiltersStep ==
  ASSUME FilterBounds, FiltersInv, [FiltersNext /\ UNCHANGED at_work]_<<at_work, filterVars>>
  PROVE  FiltersInv'
<1>1. at_work' = at_work OBVIOUS
<1>2. CASE at_work = "newterm"
  <2>1. NTInv /\ [NTNext]_ntVars BY <1>2 DEF FiltersInv, FiltersNext, filterVars
  <2>2. QED BY <1>1, <1>2, <2>1, NTSteps DEF FiltersInv
<1>3. CASE at_work = "change"
  <2>1. CFInv /\ [CFNext]_cfVars BY <1>3 DEF FiltersInv, FiltersNext, filterVars
  <2>2. QED BY <1>1, <1>3, <2>1, CFSteps DEF FiltersInv
<1>4. CASE at_work = "geoip"
  <2>1. GIInv /\ [GINext]_giVars BY <1>4 DEF FiltersInv, FiltersNext, filterVars
  <2>2. QED BY <1>1, <1>4, <2>1, GISteps DEF FiltersInv
<1>5. CASE at_work = "digest"
  <2>1. DGInv /\ [DGNext]_digestVars BY <1>5 DEF FiltersInv, FiltersNext, filterVars
  <2>2. QED BY <1>1, <1>5, <2>1, DGSteps DEF FiltersInv
<1>6. QED BY <1>1, <1>2, <1>3, <1>4, <1>5 DEF FiltersInv

\* What the filters that keep a state promise, of whichever is at work.
THEOREM FiltersSoundHolds == FiltersSpec => []FiltersSound
<1>1. FiltersInit => FiltersInv BY FilterBoundsHold, FiltersStart
<1>2. FiltersInv /\ [FiltersNext /\ UNCHANGED at_work]_<<at_work, filterVars>> => FiltersInv'
  BY FilterBoundsHold, FiltersStep
<1>3. FiltersInv => FiltersSound
  <2>1. at_work = "newterm" /\ FiltersInv => OncePerWorker /\ NewTermPasses BY FilterBoundsHold, NTSounds DEF FiltersInv
  <2>2. at_work = "change" /\ FiltersInv => PassesExactlyChanges /\ StoppedHasNoTimer BY DEF FiltersInv, CFInv
  <2>3. at_work = "geoip" /\ FiltersInv => EtagNamesDatabase /\ GeoNeverOlder /\ CacheWithin BY GISounds DEF FiltersInv
  <2>4. at_work = "digest" /\ FiltersInv => NoEventDropped /\ DigestedOnce BY DGSounds DEF FiltersInv
  <2>5. QED BY <2>1, <2>2, <2>3, <2>4 DEF FiltersSound
<1> QED BY <1>1, <1>2, <1>3, PTL DEF FiltersSpec

\* Their states are of the kinds the module names.
THEOREM FiltersTypesHold == FiltersSpec => []FiltersTypeOK
<1>1. FiltersInit => FiltersInv BY FilterBoundsHold, FiltersStart
<1>2. FiltersInv /\ [FiltersNext /\ UNCHANGED at_work]_<<at_work, filterVars>> => FiltersInv'
  BY FilterBoundsHold, FiltersStep
<1>3. FiltersInv => FiltersTypeOK BY DEF FiltersInv, NTInv, CFInv, DGInv, DGRanges, FiltersTypeOK
<1> QED BY <1>1, <1>2, <1>3, PTL DEF FiltersSpec
-----------------------------------------------------------------------------
(***************************************************************************)
(* Sequences of events put together.                                       *)
(***************************************************************************)
Rising(s) == \A i, j \in 1..Len(s) : i < j => s[i] < s[j]

LEMMA ToSetIs == ASSUME NEW s \in Seq(Nat) PROVE ToSet(s) = {s[i] : i \in 1..Len(s)}
<1>1. DOMAIN s = 1..Len(s) OBVIOUS
<1>2. QED BY <1>1 DEF ToSet

LEMMA ToSetJoined ==
  ASSUME NEW s \in Seq(Nat), NEW t \in Seq(Nat)
  PROVE  s \o t \in Seq(Nat) /\ ToSet(s \o t) = ToSet(s) \cup ToSet(t)
<1> DEFINE j == s \o t
<1>1. /\ j \in Seq(Nat) /\ Len(j) = Len(s) + Len(t)
      /\ \A i \in 1..Len(s) + Len(t) : j[i] = IF i <= Len(s) THEN s[i] ELSE t[i - Len(s)]
  BY ConcatProperties
<1> HIDE DEF j
<1>2. Len(s) \in Nat /\ Len(t) \in Nat OBVIOUS
<1>3. ASSUME NEW x \in ToSet(j) PROVE x \in ToSet(s) \cup ToSet(t)
  <2>1. PICK i \in 1..Len(j) : x = j[i] BY <1>1, <1>3, ToSetIs
  <2>2. CASE i <= Len(s) BY <1>1, <1>2, <2>1, <2>2, ToSetIs
  <2>3. CASE i > Len(s)
    <3>1. i - Len(s) \in 1..Len(t) /\ x = t[i - Len(s)] BY <1>1, <1>2, <2>1, <2>3
    <3>2. QED BY <3>1, ToSetIs
  <2>4. QED BY <1>2, <2>1, <2>2, <2>3
<1>4. ASSUME NEW x \in ToSet(s) PROVE x \in ToSet(j)
  <2>1. PICK i \in 1..Len(s) : x = s[i] BY <1>4, ToSetIs
  <2>2. i \in 1..Len(j) /\ j[i] = x BY <1>1, <1>2, <2>1
  <2>3. QED BY <1>1, <2>2, ToSetIs
<1>5. ASSUME NEW x \in ToSet(t) PROVE x \in ToSet(j)
  <2>1. PICK i \in 1..Len(t) : x = t[i] BY <1>5, ToSetIs
  <2>2. i + Len(s) \in 1..Len(j) /\ j[i + Len(s)] = t[(i + Len(s)) - Len(s)]
    <3>1. i + Len(s) \in 1..Len(s) + Len(t) /\ ~(i + Len(s) <= Len(s)) BY <1>2, <2>1
    <3>2. QED BY <1>1, <3>1
  <2>3. (i + Len(s)) - Len(s) = i BY <1>2, <2>1
  <2>4. QED BY <1>1, <2>1, <2>2, <2>3, ToSetIs
<1>6. ToSet(j) = ToSet(s) \cup ToSet(t) BY <1>3, <1>4, <1>5
<1>7. QED BY <1>1, <1>6 DEF j

LEMMA RisingJoined ==
  ASSUME NEW s \in Seq(Nat), NEW t \in Seq(Nat)
  PROVE  Rising(s \o t) <=> Rising(s) /\ Rising(t) /\ \A x \in ToSet(s), y \in ToSet(t) : x < y
<1> DEFINE j == s \o t
<1>1. /\ j \in Seq(Nat) /\ Len(j) = Len(s) + Len(t)
      /\ \A i \in 1..Len(s) + Len(t) : j[i] = IF i <= Len(s) THEN s[i] ELSE t[i - Len(s)]
  BY ConcatProperties
<1> HIDE DEF j
<1>2. Len(s) \in Nat /\ Len(t) \in Nat OBVIOUS
<1>3. \A i \in 1..Len(s) : i \in 1..Len(j) /\ j[i] = s[i] BY <1>1, <1>2
<1>4. \A i \in 1..Len(t) : i + Len(s) \in 1..Len(j) /\ j[i + Len(s)] = t[i]
  <2>1. TAKE i \in 1..Len(t)
  <2>2. i + Len(s) \in 1..Len(j) /\ j[i + Len(s)] = t[(i + Len(s)) - Len(s)]
    <3>1. i + Len(s) \in 1..Len(s) + Len(t) /\ ~(i + Len(s) <= Len(s)) BY <1>2
    <3>2. QED BY <1>1, <3>1
  <2>3. (i + Len(s)) - Len(s) = i BY <1>2
  <2>4. QED BY <2>2, <2>3
<1>5. ASSUME Rising(j) PROVE Rising(s) /\ Rising(t) /\ \A x \in ToSet(s), y \in ToSet(t) : x < y
  <2>1. Rising(s) BY <1>2, <1>3, <1>5 DEF Rising
  <2>2. Rising(t)
    <3>1. SUFFICES ASSUME NEW a \in 1..Len(t), NEW b \in 1..Len(t), a < b PROVE t[a] < t[b] BY DEF Rising
    <3>2. a + Len(s) < b + Len(s) BY <1>2, <3>1
    <3>3. QED BY <1>4, <1>5, <3>2 DEF Rising
  <2>3. ASSUME NEW x \in ToSet(s), NEW y \in ToSet(t) PROVE x < y
    <3>1. PICK a \in 1..Len(s) : x = s[a] BY <2>3, ToSetIs
    <3>2. PICK b \in 1..Len(t) : y = t[b] BY <2>3, ToSetIs
    <3>3. a < b + Len(s) BY <1>2, <3>1, <3>2
    <3>4. QED BY <1>3, <1>4, <1>5, <3>1, <3>2, <3>3 DEF Rising
  <2>4. QED BY <2>1, <2>2, <2>3
<1>6. ASSUME Rising(s), Rising(t), \A x \in ToSet(s), y \in ToSet(t) : x < y PROVE Rising(j)
  <2>1. SUFFICES ASSUME NEW a \in 1..Len(j), NEW b \in 1..Len(j), a < b PROVE j[a] < j[b] BY DEF Rising
  <2>2. CASE b <= Len(s)
    <3>1. a \in 1..Len(s) /\ b \in 1..Len(s) BY <1>1, <1>2, <2>1, <2>2
    <3>2. QED BY <1>3, <1>6, <2>1, <3>1 DEF Rising
  <2>3. CASE b > Len(s) /\ a <= Len(s)
    <3>1. a \in 1..Len(s) /\ b - Len(s) \in 1..Len(t) BY <1>1, <1>2, <2>1, <2>3
    <3>2. j[a] = s[a] /\ j[b] = t[b - Len(s)]
      <4>1. j[a] = s[a] BY <1>3, <3>1
      <4>2. b = (b - Len(s)) + Len(s) BY <1>1, <2>3
      <4>3. j[b] = t[b - Len(s)] BY <1>4, <3>1, <4>2
      <4>4. QED BY <4>1, <4>3
    <3>3. s[a] \in ToSet(s) /\ t[b - Len(s)] \in ToSet(t) BY <3>1, ToSetIs
    <3>4. QED BY <1>6, <3>2, <3>3
  <2>4. CASE a > Len(s)
    <3>1. a - Len(s) \in 1..Len(t) /\ b - Len(s) \in 1..Len(t) /\ a - Len(s) < b - Len(s)
      BY <1>1, <1>2, <2>1, <2>4
    <3>2. j[a] = t[a - Len(s)] /\ j[b] = t[b - Len(s)] BY <1>1, <1>2, <2>1, <2>4
    <3>3. QED BY <1>6, <3>1, <3>2 DEF Rising
  <2>5. QED BY <1>1, <1>2, <2>1, <2>2, <2>3, <2>4
<1>7. QED BY <1>5, <1>6 DEF j

LEMMA EmptyOrOne ==
  /\ <<>> \in Seq(Nat) /\ Rising(<<>>) /\ ToSet(<<>>) = {}
  /\ \A n \in Nat : <<n>> \in Seq(Nat) /\ Rising(<<n>>) /\ ToSet(<<n>>) = {n}
<1>1. <<>> \in Seq(Nat) /\ Len(<<>>) = 0 OBVIOUS
<1>2. Rising(<<>>) /\ ToSet(<<>>) = {}
  <2>1. 1..0 = {} OBVIOUS
  <2>2. Rising(<<>>) BY <1>1, <2>1 DEF Rising
  <2>3. ToSet(<<>>) = {} BY <1>1, <2>1, ToSetIs
  <2>4. QED BY <2>2, <2>3
<1>3. ASSUME NEW n \in Nat PROVE <<n>> \in Seq(Nat) /\ Rising(<<n>>) /\ ToSet(<<n>>) = {n}
  <2>1. <<n>> \in Seq(Nat) /\ Len(<<n>>) = 1 /\ <<n>>[1] = n OBVIOUS
  <2>2. 1..1 = {1} OBVIOUS
  <2>3. ToSet(<<n>>) = {n} BY <2>1, <2>2, ToSetIs
  <2>4. Rising(<<n>>) BY <2>1, <2>2 DEF Rising
  <2>5. QED BY <2>1, <2>3, <2>4
<1>4. QED BY <1>1, <1>2, <1>3

Before(s, t) == \A x \in ToSet(s), y \in ToSet(t) : x < y

LEMMA FourJoined ==
  ASSUME NEW p \in Seq(Nat), NEW q \in Seq(Nat), NEW r \in Seq(Nat), NEW s \in Seq(Nat),
         Rising(p), Rising(q), Rising(r), Rising(s), Before(p, q), Before(p, r), Before(p, s),
         Before(q, r), Before(q, s), Before(r, s)
  PROVE  /\ p \o q \o r \o s \in Seq(Nat) /\ Rising(p \o q \o r \o s)
         /\ ToSet(p \o q \o r \o s) = ToSet(p) \cup ToSet(q) \cup ToSet(r) \cup ToSet(s)
<1> DEFINE a == p \o q
           b == a \o r
           c == b \o s
<1>1. a \in Seq(Nat) /\ ToSet(a) = ToSet(p) \cup ToSet(q) BY ToSetJoined
<1>2. Rising(a) BY RisingJoined DEF Before
<1> HIDE DEF a
<1>3. b \in Seq(Nat) /\ ToSet(b) = ToSet(a) \cup ToSet(r) BY <1>1, ToSetJoined
<1>4. \A x \in ToSet(a), y \in ToSet(r) : x < y BY <1>1 DEF Before
<1>5. Rising(b) BY <1>1, <1>2, <1>4, RisingJoined
<1> HIDE DEF b
<1>6. c \in Seq(Nat) /\ ToSet(c) = ToSet(b) \cup ToSet(s) BY <1>3, ToSetJoined
<1>7. \A x \in ToSet(b), y \in ToSet(s) : x < y BY <1>1, <1>3 DEF Before
<1>8. Rising(c) BY <1>3, <1>5, <1>7, RisingJoined
<1>9. QED BY <1>1, <1>3, <1>6, <1>8 DEF a, b, c

(***************************************************************************)
(* The http output.                                                        *)
(***************************************************************************)
MusterPlaces == {"select", "slot", "last slot", "gone"}
Batches == [items : Seq(Nat), at : {"send", "retry"}]
Fates == [sent : Seq(Nat), refused : SUBSET Nat, dropped : SUBSET Nat]
HOTyped ==
  /\ given \in [count : 0..MaxGiven, waits : BOOLEAN]
  /\ muster \in [at : MusterPlaces, items : Seq(Nat), timer : BOOLEAN, tick : BOOLEAN]
  /\ IsFiniteSet(firing) /\ firing \subseteq Batches
  /\ fate \in Fates /\ halt \in {"no", "shutdown", "closed", "returned", "crash"}

WithinLimits ==
  /\ PoolMax # 0 => Cardinality(firing) <= PoolMax
  /\ PoolMax = 1 => \A b, c \in firing : b = c
  /\ BatchSize # 0 =>
       /\ Len(muster.items) <= BatchSize /\ \A b \in firing : Len(b.items) <= BatchSize
       /\ muster.at = "select" => Len(muster.items) < BatchSize
\* What was fired is older than what is collected.
Ages ==
  /\ Rising(muster.items)
  /\ \A b \in firing : Rising(b.items) /\ Before(b.items, muster.items)
Taken == IF given.waits THEN given.count - 1 ELSE given.count
Accounted == (given.waits => given.count > 0) /\ 1..Taken = ToSet(muster.items) \cup Fired \cup Settled
Stopping ==
  /\ halt \in {"shutdown", "closed", "returned"} => ~given.waits
  /\ fate.dropped # {} => halt # "no"
  /\ muster.at = "gone" => muster.items = <<>>
  /\ halt = "returned" => muster.at = "gone" /\ firing = {}
HOInv == HOTyped /\ WithinLimits /\ Ages /\ Accounted /\ SentInOrder /\ Stopping

LEMMA HOStarts == ASSUME OutputBounds, HOInit PROVE HOInv
<1>1. BatchSize \in Nat /\ PoolMax \in Nat /\ MaxGiven \in Nat BY DEF OutputBounds
<1>2. given.count = 0 /\ given.waits = FALSE /\ muster.at = "select" /\ muster.items = <<>> /\ firing = {}
      /\ fate.sent = <<>> /\ fate.refused = {} /\ fate.dropped = {} /\ halt = "no"
  BY DEF HOInit
<1>3. HOTyped
  <2>1. given \in [count : 0..MaxGiven, waits : BOOLEAN] BY <1>1 DEF HOInit
  <2>2. muster \in [at : MusterPlaces, items : Seq(Nat), timer : BOOLEAN, tick : BOOLEAN]
    BY EmptyOrOne DEF HOInit, MusterPlaces
  <2>3. fate \in Fates BY EmptyOrOne DEF HOInit, Fates
  <2>4. QED BY <1>2, <2>1, <2>2, <2>3, FS_EmptySet DEF HOTyped
<1>4. WithinLimits
  <2>1. Cardinality(firing) = 0 /\ Len(muster.items) = 0 BY <1>2, FS_EmptySet
  <2>2. QED BY <1>1, <1>2, <2>1 DEF WithinLimits
<1>5. Ages BY <1>2, EmptyOrOne DEF Ages
<1>6. Accounted
  <2>1. Fired = {} /\ Settled = {} BY <1>2, EmptyOrOne DEF Fired, Settled, ServerHas
  <2>2. Taken = 0 /\ 1..0 = {} BY <1>2 DEF Taken
  <2>3. QED BY <1>2, <2>1, <2>2, EmptyOrOne DEF Accounted
<1>7. SentInOrder
  <2>1. DOMAIN fate.sent = {} BY <1>2
  <2>2. QED BY <2>1 DEF SentInOrder
<1>8. Stopping BY <1>2 DEF Stopping
<1>9. QED BY <1>3, <1>4, <1>5, <1>6, <1>7, <1>8 DEF HOInv

LEMMA HOReceives == ASSUME OutputBounds, HOInv, HOReceive PROVE HOInv'
<1> HOTyped BY DEF HOInv
<1>1. /\ halt = "no" /\ given.waits = FALSE /\ given.count < MaxGiven
      /\ given' = [count |-> given.count + 1, waits |-> TRUE]
      /\ UNCHANGED <<muster, firing, fate, halt>>
  BY DEF HOReceive, HOTyped
<1>2. given.count \in 0..MaxGiven /\ given'.count = given.count + 1 /\ given'.waits = TRUE BY <1>1 DEF HOTyped
<1>3. given' \in [count : 0..MaxGiven, waits : BOOLEAN]
  <2>1. given.count + 1 \in 0..MaxGiven BY <1>1, <1>2 DEF OutputBounds
  <2>2. QED BY <1>1, <2>1
<1>4. HOTyped' BY <1>1, <1>3 DEF HOTyped
<1>5. Taken' = Taken BY <1>1, <1>2 DEF Taken
<1>6. Accounted'
  <2>1. given'.count > 0 BY <1>2
  <2>2. Fired' = Fired /\ Settled' = Settled BY <1>1 DEF Fired, Settled, ServerHas
  <2>3. QED BY <1>1, <1>5, <2>1, <2>2 DEF HOInv, Accounted
<1>7. QED BY <1>1, <1>4, <1>6 DEF HOInv, WithinLimits, Ages, SentInOrder, Stopping

\* What of the worker changes when it has collected an event.
Musters == [at : MusterPlaces, items : Seq(Nat), timer : BOOLEAN, tick : BOOLEAN]
LEMMA CollectedIs ==
  ASSUME NEW m \in Musters
  PROVE  /\ Collected(m) \in Musters /\ Collected(m).items = m.items /\ Collected(m).at \in {m.at, "slot"}
         /\ BatchSize # 0 /\ Len(m.items) >= BatchSize => Collected(m).at = "slot"
<1> DEFINE a == [m EXCEPT !.at = "slot"]
           b == [m EXCEPT !.timer = TRUE, !.tick = FALSE]
<1>1. a \in Musters /\ a.items = m.items /\ a.at = "slot" BY DEF Musters, MusterPlaces
<1>2. b \in Musters /\ b.items = m.items /\ b.at = m.at BY DEF Musters
<1> HIDE DEF a, b
<1>3. CASE BatchSize # 0 /\ Len(m.items) >= BatchSize
  <2>1. Collected(m) = a BY <1>3 DEF Collected, a
  <2>2. QED BY <1>1, <2>1
<1>4. CASE ~(BatchSize # 0 /\ Len(m.items) >= BatchSize)
  <2>1. Collected(m) = b \/ Collected(m) = m BY <1>4 DEF Collected, b
  <2>2. QED BY <1>2, <1>4, <2>1
<1>5. QED BY <1>3, <1>4

LEMMA HOTakes == ASSUME OutputBounds, HOInv, MusterTake PROVE HOInv'
<1> HOTyped BY DEF HOInv
<1> DEFINE n == given.count
           m == [muster EXCEPT !.items = Append(@, n)]
<1>1. /\ muster.at = "select" /\ given.waits = TRUE /\ muster' = Collected(m)
      /\ given' = [given EXCEPT !.waits = FALSE] /\ UNCHANGED <<firing, fate, halt>>
  BY DEF MusterTake, HOTyped
<1>2. n \in Nat /\ n > 0 /\ BatchSize \in Nat BY <1>1 DEF HOTyped, HOInv, Accounted, OutputBounds
<1>3. given' \in [count : 0..MaxGiven, waits : BOOLEAN] /\ given'.count = n /\ given'.waits = FALSE
  BY <1>1 DEF HOTyped
<1>4. muster \in Musters /\ muster.items \in Seq(Nat) BY DEF HOTyped, Musters
<1> HIDE DEF n
<1>5. Append(muster.items, n) = muster.items \o <<n>> /\ Append(muster.items, n) \in Seq(Nat)
      /\ Len(Append(muster.items, n)) = Len(muster.items) + 1
  BY <1>2, <1>4, AppendIsConcat, AppendProperties
<1>6. m \in Musters /\ m.items = Append(muster.items, n) /\ m.at = "select" BY <1>1, <1>4, <1>5 DEF Musters
<1> HIDE DEF m
<1>7. /\ muster' \in Musters /\ muster'.items = muster.items \o <<n>> /\ muster'.at \in {"select", "slot"}
      /\ BatchSize # 0 /\ Len(muster'.items) >= BatchSize => muster'.at = "slot"
      /\ Len(muster'.items) = Len(muster.items) + 1
  BY <1>1, <1>5, <1>6, CollectedIs
<1>8. HOTyped' BY <1>1, <1>3, <1>7 DEF HOTyped, Musters
<1>9. <<n>> \in Seq(Nat) /\ Rising(<<n>>) /\ ToSet(<<n>>) = {n} BY <1>2, EmptyOrOne
<1>10. ToSet(muster'.items) = ToSet(muster.items) \cup {n} BY <1>4, <1>7, <1>9, ToSetJoined
<1>11. Taken = n - 1 /\ Taken' = n BY <1>1, <1>3 DEF Taken, n
<1>12. Accounted /\ \A x \in ToSet(muster.items) \cup Fired : x < n
  <2>1. Accounted BY DEF HOInv
  <2>2. \A x \in ToSet(muster.items) \cup Fired : x \in 1..n - 1 BY <1>11, <2>1 DEF Accounted
  <2>3. QED BY <1>2, <2>1, <2>2
<1>13. Ages'
  <2>1. Rising(muster'.items)
    <3>1. \A x \in ToSet(muster.items), y \in ToSet(<<n>>) : x < y BY <1>9, <1>12
    <3>2. QED BY <1>4, <1>7, <1>9, <3>1, RisingJoined DEF HOInv, Ages
  <2>2. ASSUME NEW b \in firing PROVE Rising(b.items) /\ Before(b.items, muster'.items)
    <3>1. ToSet(b.items) \subseteq Fired BY DEF Fired
    <3>2. QED BY <1>10, <1>12, <3>1 DEF HOInv, Ages, Before
  <2>3. QED BY <1>1, <2>1, <2>2 DEF Ages
<1>14. Accounted'
  <2>1. Fired' = Fired /\ Settled' = Settled BY <1>1 DEF Fired, Settled, ServerHas
  <2>2. 1..n = 1..n - 1 \cup {n} BY <1>2
  <2>3. QED BY <1>3, <1>10, <1>11, <1>12, <2>1, <2>2 DEF Accounted
<1>15. WithinLimits'
  <2>1. Len(muster.items) \in Nat BY <1>4
  <2>2. QED BY <1>1, <1>2, <1>7, <2>1 DEF HOInv, WithinLimits
<1>16. QED BY <1>1, <1>3, <1>7, <1>8, <1>13, <1>14, <1>15 DEF HOInv, SentInOrder, Stopping

\* The worker moves on with what it collected.
LEMMA HOMoves ==
  ASSUME HOInv, muster' \in Musters, muster'.items = muster.items, UNCHANGED <<given, firing, fate>>,
         halt' \in {"no", "shutdown", "closed", "returned", "crash"},
         muster'.at = "select" => muster.at = "select", muster'.at = "gone" => muster.items = <<>>,
         halt = "returned" => muster.at = "gone",
         halt = "returned" => muster'.at = "gone",
         halt = "no" \/ halt' # "no",
         halt' \in {"shutdown", "closed", "returned"} => ~given.waits,
         halt' = "returned" => muster'.at = "gone" /\ firing = {}
  PROVE  HOInv'
<1>1. HOTyped' BY DEF HOInv, HOTyped, Musters
<1>2. WithinLimits' /\ Ages' BY DEF HOInv, WithinLimits, Ages
<1>3. Accounted'
  <2>1. Fired' = Fired /\ Settled' = Settled /\ Taken' = Taken BY DEF Fired, Settled, ServerHas, Taken
  <2>2. QED BY <2>1 DEF HOInv, Accounted
<1>4. SentInOrder' BY DEF HOInv, SentInOrder
<1>5. Stopping' BY DEF HOInv, Stopping
<1>6. QED BY <1>1, <1>2, <1>3, <1>4, <1>5 DEF HOInv

LEMMA HOLaunches == ASSUME OutputBounds, HOInv, Launch PROVE HOInv'
<1> HOTyped BY DEF HOInv
<1> DEFINE b == [items |-> muster.items, at |-> "send"]
<1>1. /\ muster.at \in {"slot", "last slot"} /\ HasSlot /\ firing' = firing \cup {b}
      /\ muster' = [muster EXCEPT !.at = IF @ = "slot" THEN "select" ELSE "gone", !.items = <<>>, !.timer = FALSE]
      /\ UNCHANGED <<given, fate, halt>>
  BY DEF Launch
<1>2. BatchSize \in Nat /\ PoolMax \in Nat BY DEF OutputBounds
<1>3. muster \in Musters /\ muster.items \in Seq(Nat) BY DEF HOTyped, Musters
<1>4. b \in Batches /\ b.items = muster.items BY <1>3 DEF Batches
<1> HIDE DEF b
<1>5. muster' \in Musters /\ muster'.items = <<>> /\ muster'.at \in {"select", "gone"}
  <2>1. \A at \in {"select", "gone"} : [muster EXCEPT !.at = at, !.items = <<>>, !.timer = FALSE] \in Musters
                                       /\ [muster EXCEPT !.at = at, !.items = <<>>, !.timer = FALSE].items = <<>>
                                       /\ [muster EXCEPT !.at = at, !.items = <<>>, !.timer = FALSE].at = at
    BY <1>3, EmptyOrOne DEF Musters, MusterPlaces
  <2>2. PICK at \in {"select", "gone"} : muster' = [muster EXCEPT !.at = at, !.items = <<>>, !.timer = FALSE] BY <1>1
  <2>3. QED BY <2>1, <2>2
<1>6. IsFiniteSet(firing') /\ Cardinality(firing') <= Cardinality(firing) + 1 /\ Cardinality(firing) \in Nat
      /\ Cardinality(firing') \in Nat
  <2>1. IsFiniteSet(firing) BY DEF HOTyped
  <2>2. IsFiniteSet(firing \cup {b}) /\ Cardinality(firing \cup {b}) = IF b \in firing THEN Cardinality(firing) ELSE Cardinality(firing) + 1
    BY <2>1, FS_AddElement
  <2>3. Cardinality(firing) \in Nat BY <2>1, FS_CardinalityType
  <2>4. firing' = firing \cup {b} BY <1>1
  <2>5. QED BY <2>2, <2>3, <2>4
<1>7. HOTyped' BY <1>1, <1>4, <1>5, <1>6 DEF HOTyped, Musters
<1>8. WithinLimits'
  <2>0. PoolMax = 0 \/ Cardinality(firing) < PoolMax BY <1>1 DEF HasSlot
  <2>1. PoolMax # 0 => Cardinality(firing') <= PoolMax BY <1>2, <1>6, <2>0
  <2>2. ASSUME PoolMax = 1 PROVE \A x, y \in firing' : x = y
    <3>1. Cardinality(firing) = 0 BY <1>6, <2>0, <2>2
    <3>2. firing = {} BY <3>1, FS_EmptySet DEF HOTyped
    <3>3. QED BY <1>1, <3>2
  <2>3. ASSUME BatchSize # 0
        PROVE  /\ Len(muster'.items) <= BatchSize /\ \A x \in firing' : Len(x.items) <= BatchSize
               /\ muster'.at = "select" => Len(muster'.items) < BatchSize
    <3>1. Len(muster'.items) = 0 BY <1>5
    <3>2. \A x \in firing' : Len(x.items) <= BatchSize BY <1>1, <1>4, <2>3 DEF HOInv, WithinLimits
    <3>3. QED BY <1>2, <2>3, <3>1, <3>2
  <2>4. QED BY <2>1, <2>2, <2>3 DEF WithinLimits
<1>9. Ages'
  <2>1. Rising(muster'.items) BY <1>5, EmptyOrOne
  <2>2. \A x \in firing' : Rising(x.items) BY <1>1, <1>4 DEF HOInv, Ages
  <2>3. \A x \in firing' : Before(x.items, muster'.items) BY <1>5, EmptyOrOne DEF Before
  <2>4. QED BY <2>1, <2>2, <2>3 DEF Ages
<1>10. Accounted'
  <2>1. Fired' = Fired \cup ToSet(muster.items) BY <1>1, <1>4 DEF Fired
  <2>2. Settled' = Settled /\ Taken' = Taken BY <1>1 DEF Settled, ServerHas, Taken
  <2>3. ToSet(muster'.items) = {} BY <1>5, EmptyOrOne
  <2>4. QED BY <1>1, <2>1, <2>2, <2>3 DEF HOInv, Accounted
<1>11. SentInOrder' BY <1>1 DEF HOInv, SentInOrder
<1>12. Stopping'
  <2>1. halt # "returned" BY <1>1 DEF HOInv, Stopping
  <2>2. QED BY <1>1, <1>5, <2>1 DEF HOInv, Stopping
<1>13. QED BY <1>7, <1>8, <1>9, <1>10, <1>11, <1>12 DEF HOInv

\* The state of a batch changes, or it leaves.
LEMMA FiringMoves ==
  ASSUME OutputBounds, HOInv, NEW b \in firing, NEW at \in {"send", "retry"},
         firing' \in {firing \ {b}, (firing \ {b}) \cup {[b EXCEPT !.at = at]}}
  PROVE  /\ IsFiniteSet(firing') /\ firing' \subseteq Batches
         /\ PoolMax # 0 => Cardinality(firing') <= PoolMax
         /\ \A x \in firing' : \E y \in firing : x.items = y.items
         /\ \A x, y \in firing' : (\A v, w \in firing : v = w) => x = y
         /\ Fired' \cup ToSet(b.items) = Fired
         /\ firing' # firing \ {b} => Fired' = Fired
<1> DEFINE c == [b EXCEPT !.at = at]
           rest == firing \ {b}
<1> HOTyped BY DEF HOInv
<1>1. b \in Batches /\ c \in Batches /\ c.items = b.items BY DEF HOTyped, Batches
<1> HIDE DEF c
<1>2. IsFiniteSet(firing) /\ firing \subseteq Batches BY DEF HOTyped
<1>3. IsFiniteSet(rest) /\ Cardinality(rest) = Cardinality(firing) - 1 BY <1>2, FS_RemoveElement
<1>4. IsFiniteSet(rest \cup {c})
      /\ Cardinality(rest \cup {c}) = IF c \in rest THEN Cardinality(rest) ELSE Cardinality(rest) + 1
  BY <1>3, FS_AddElement
<1>5. Cardinality(firing) \in Nat BY <1>2, FS_CardinalityType
<1>6. firing' = rest \/ firing' = rest \cup {c} BY DEF c
<1>7. IsFiniteSet(firing') /\ Cardinality(firing') <= Cardinality(firing)
  <2>1. CASE firing' = rest BY <1>3, <1>5, <2>1
  <2>2. CASE firing' = rest \cup {c} BY <1>3, <1>4, <1>5, <2>2
  <2>3. QED BY <1>6, <2>1, <2>2
<1>8. firing' \subseteq Batches BY <1>1, <1>2, <1>6
<1>9. PoolMax # 0 => Cardinality(firing') <= PoolMax
  <2>1. ASSUME PoolMax # 0 PROVE Cardinality(firing) <= PoolMax BY <2>1 DEF HOInv, WithinLimits
  <2>2. ASSUME PoolMax # 0 PROVE Cardinality(firing') <= PoolMax
    <3>1. Cardinality(firing') \in Nat BY <1>7, FS_CardinalityType
    <3>2. PoolMax \in Nat BY DEF OutputBounds
    <3>3. QED BY <1>5, <1>7, <2>1, <2>2, <3>1, <3>2
  <2>3. QED BY <2>2
<1>10. \A x \in firing' : \E y \in firing : x.items = y.items BY <1>1, <1>6
<1>11. \A x, y \in firing' : (\A v, w \in firing : v = w) => x = y BY <1>6
<1>12. Fired' \cup ToSet(b.items) = Fired /\ (firing' # firing \ {b} => Fired' = Fired)
  <2>1. \A e : e \in Fired <=> \E x \in firing : e \in ToSet(x.items) BY DEF Fired
  <2>2. \A e : e \in Fired' <=> \E x \in firing' : e \in ToSet(x.items) BY DEF Fired
  <2>3. firing = rest \cup {b} OBVIOUS
  <2>4. \A e : e \in Fired <=> e \in ToSet(b.items) \/ \E x \in rest : e \in ToSet(x.items) BY <2>1, <2>3
  <2> HIDE DEF rest
  <2>5. CASE firing' = rest
    <3>1. \A e : e \in Fired' \cup ToSet(b.items) <=> e \in Fired BY <2>2, <2>4, <2>5
    <3>2. QED BY <2>5, <3>1 DEF rest
  <2>6. CASE firing' = rest \cup {c}
    <3>1. \A e : e \in Fired' <=> e \in ToSet(c.items) \/ \E x \in rest : e \in ToSet(x.items) BY <2>2, <2>6
    <3>2. \A e : e \in Fired' <=> e \in Fired BY <1>1, <2>4, <3>1
    <3>3. Fired' = Fired BY <3>2
    <3>4. \A e : e \in Fired' \cup ToSet(b.items) <=> e \in Fired BY <2>4, <3>3
    <3>5. QED BY <3>3, <3>4
  <2>7. QED BY <1>6, <2>5, <2>6
<1>13. QED BY <1>7, <1>8, <1>9, <1>10, <1>11, <1>12

\* What the server gets first is the next in order when one batch is sent at a
\* time.
LEMMA HOSends ==
  ASSUME HOInv, NEW b \in firing, fate' = ServerGets(b)
  PROVE  /\ fate' \in Fates /\ SentInOrder' /\ fate'.dropped = fate.dropped
         /\ Settled' = Settled \cup ToSet(b.items)
<1> HOTyped BY DEF HOInv
<1> DEFINE old == fate.sent
           new == b.items
<1>1. fate \in Fates /\ old \in Seq(Nat) /\ new \in Seq(Nat) BY DEF HOTyped, Fates, Batches
<1>2. CASE ToSet(new) \subseteq ServerHas
  <2>1. fate' = fate BY <1>2 DEF ServerGets
  <2>2. Settled' = Settled /\ ToSet(new) \subseteq Settled BY <1>2, <2>1 DEF Settled, ServerHas
  <2>3. QED BY <1>1, <2>1, <2>2 DEF HOInv, SentInOrder
<1>3. CASE ~(ToSet(new) \subseteq ServerHas)
  <2> DEFINE all == old \o new
  <2>1. fate' = [fate EXCEPT !.sent = all] BY <1>3 DEF ServerGets
  <2>2. /\ all \in Seq(Nat) /\ Len(all) = Len(old) + Len(new)
        /\ \A i \in 1..Len(old) + Len(new) : all[i] = IF i <= Len(old) THEN old[i] ELSE new[i - Len(old)]
    BY <1>1, ConcatProperties
  <2>3. ToSet(all) = ToSet(old) \cup ToSet(new) BY <1>1, ToSetJoined
  <2> HIDE DEF all
  <2>4. fate' \in Fates /\ fate'.sent = all /\ fate'.refused = fate.refused /\ fate'.dropped = fate.dropped
    BY <1>1, <2>1, <2>2 DEF Fates
  <2>5. Settled' = Settled \cup ToSet(new) BY <2>3, <2>4 DEF Settled, ServerHas
  <2> HIDE DEF old, new
  <2> DEFINE Earlier(i) == {all[j] : j \in 1..i - 1} \cup fate.refused \cup fate.dropped
  <2>6. Len(old) \in Nat /\ Len(new) \in Nat /\ DOMAIN all = 1..Len(all) /\ DOMAIN old = 1..Len(old) BY <1>1, <2>2
  <2>7. ASSUME PoolMax = 1, NEW i \in 1..Len(old), NEW e \in 1..all[i] - 1 PROVE e \in Earlier(i)
    <3>1. all[i] = old[i] /\ i \in DOMAIN old
      <4>1. i \in 1..Len(old) + Len(new) /\ i <= Len(old) BY <2>6, <2>7
      <4>2. all[i] = old[i] BY <2>2, <4>1
      <4>3. QED BY <2>6, <2>7, <4>2
    <3>2. e \in {old[j] : j \in 1..i-1} \cup fate.refused \cup fate.dropped
      BY <2>7, <3>1 DEF HOInv, SentInOrder, old
    <3>3. \A j \in 1..i - 1 : all[j] = old[j]
      <4>1. \A j \in 1..i - 1 : j \in 1..Len(old) + Len(new) /\ j <= Len(old) BY <2>6, <2>7
      <4>2. QED BY <2>2, <4>1
    <3>4. QED BY <3>2, <3>3
  <2>8. ASSUME PoolMax = 1, NEW i \in Len(old) + 1..Len(all), NEW e \in 1..all[i] - 1 PROVE e \in Earlier(i)
    <3> DEFINE k == i - Len(old)
    <3>1. k \in 1..Len(new) /\ all[i] = new[k] /\ new[k] \in ToSet(new)
      <4>1. i \in 1..Len(old) + Len(new) /\ ~(i <= Len(old)) /\ k \in 1..Len(new) BY <2>2, <2>6, <2>8
      <4>2. all[i] = new[k] BY <2>2, <4>1
      <4>3. QED BY <1>1, <4>1, <4>2, ToSetIs
    <3>2. new[k] \in 1..Taken /\ Accounted
      <4>1. ToSet(new) \subseteq Fired BY DEF Fired, new
      <4>2. QED BY <3>1, <4>1 DEF HOInv, Accounted
    <3>3. e \in 1..Taken
      <4>1. Taken \in Int BY DEF Taken, HOTyped
      <4>2. QED BY <3>1, <3>2, <4>1
    <3>4. \A x \in firing : x = b BY <2>8 DEF HOInv, WithinLimits
    <3>5. Fired = ToSet(new) BY <3>4 DEF Fired, new
    <3>6. e \notin ToSet(muster.items)
      <4>1. \A x \in ToSet(new), y \in ToSet(muster.items) : x < y BY DEF HOInv, Ages, Before, new
      <4>2. CASE e \in ToSet(muster.items)
        <5>1. new[k] < e BY <3>1, <4>1, <4>2
        <5>2. new[k] \in Int /\ e \in Int /\ e < new[k] BY <3>1, <3>2
        <5>3. QED BY <5>1, <5>2
      <4>3. QED BY <4>2
    <3>7. e \in ToSet(new) \cup ToSet(old) \cup fate.refused \cup fate.dropped
      BY <3>2, <3>3, <3>5, <3>6 DEF Accounted, Settled, ServerHas, old
    <3>8. CASE e \in ToSet(new)
      <4>1. PICK j \in 1..Len(new) : e = new[j] BY <1>1, <3>8, ToSetIs
      <4>2. j < k
        <5>1. new[j] < new[k] BY <3>1, <4>1, <3>2
        <5>2. Rising(new) BY DEF HOInv, Ages, new
        <5>3. k < j => new[k] < new[j] BY <3>1, <5>2 DEF Rising
        <5>4. new[j] \in Nat /\ new[k] \in Nat
          <6>1. \A x \in 1..Len(new) : new[x] \in Nat BY <1>1
          <6>2. QED BY <3>1, <4>1, <6>1
        <5>5. j # k /\ ~(k < j) BY <5>1, <5>3, <5>4
        <5>6. j \in Int /\ k \in Int BY <3>1
        <5>7. QED BY <5>5, <5>6
      <4>3. j + Len(old) \in 1..i - 1 BY <2>6, <3>1, <4>2
      <4>4. all[j + Len(old)] = e
        <5>1. j + Len(old) \in 1..Len(old) + Len(new) /\ ~(j + Len(old) <= Len(old)) BY <2>6, <4>1
        <5>2. all[j + Len(old)] = new[(j + Len(old)) - Len(old)] BY <2>2, <5>1
        <5>3. (j + Len(old)) - Len(old) = j BY <2>6
        <5>4. QED BY <4>1, <5>2, <5>3
      <4>5. QED BY <4>3, <4>4
    <3>9. CASE e \in ToSet(old)
      <4>1. PICK j \in 1..Len(old) : e = old[j] BY <1>1, <3>9, ToSetIs
      <4>2. j \in 1..i - 1 /\ all[j] = old[j]
        <5>1. j \in 1..Len(old) + Len(new) /\ j <= Len(old) /\ j \in 1..i - 1 BY <2>6, <2>8, <4>1
        <5>2. QED BY <2>2, <5>1
      <4>3. QED BY <4>1, <4>2
    <3>10. QED BY <3>7, <3>8, <3>9
  <2>9. ASSUME PoolMax = 1, NEW i \in 1..Len(all), NEW e \in 1..all[i] - 1 PROVE e \in Earlier(i)
    <3>1. i \in 1..Len(old) \/ i \in Len(old) + 1..Len(all) BY <2>2, <2>6, <2>9
    <3>2. QED BY <2>7, <2>8, <2>9, <3>1
  <2>10. SentInOrder' BY <2>4, <2>6, <2>9 DEF SentInOrder
  <2>11. QED BY <2>4, <2>5, <2>10 DEF new
<1>4. QED BY <1>2, <1>3

\* An attempt to send a batch, and what becomes of the batch.
LEMMA HOFires ==
  ASSUME OutputBounds, HOInv, NEW b \in firing, NEW at \in {"send", "retry"},
         firing' \in {firing \ {b}, (firing \ {b}) \cup {[b EXCEPT !.at = at]}},
         UNCHANGED <<given, muster, halt>>, fate' \in Fates, SentInOrder',
         Settled' \in {Settled, Settled \cup ToSet(b.items)},
         firing' = firing \ {b} => Settled' = Settled \cup ToSet(b.items),
         fate'.dropped = fate.dropped \/ halt # "no"
  PROVE  HOInv'
<1> HOTyped BY DEF HOInv
<1>1. /\ IsFiniteSet(firing') /\ firing' \subseteq Batches
      /\ PoolMax # 0 => Cardinality(firing') <= PoolMax
      /\ \A x \in firing' : \E y \in firing : x.items = y.items
      /\ \A x, y \in firing' : (\A v, w \in firing : v = w) => x = y
      /\ Fired' \cup ToSet(b.items) = Fired
      /\ firing' # firing \ {b} => Fired' = Fired
  BY FiringMoves
<1>2. HOTyped' BY <1>1 DEF HOTyped
<1>3. WithinLimits' BY <1>1 DEF HOInv, WithinLimits
<1>4. Ages' BY <1>1 DEF HOInv, Ages
<1>5. Accounted'
  <2>1. Fired' \cup Settled' = Fired \cup Settled BY <1>1
  <2>2. Taken' = Taken BY DEF Taken
  <2>3. QED BY <2>1, <2>2 DEF HOInv, Accounted
<1>6. Stopping'
  <2>1. halt # "returned" BY DEF HOInv, Stopping
  <2>2. QED BY <2>1 DEF HOInv, Stopping
<1>7. QED BY <1>2, <1>3, <1>4, <1>5, <1>6 DEF HOInv

\* Events that are refused or given up do not change what was sent.
LEMMA HOGivesUp ==
  ASSUME HOInv, NEW b \in firing,
         \/ fate' = [fate EXCEPT !.refused = @ \cup ToSet(b.items)]
         \/ fate' = [fate EXCEPT !.dropped = @ \cup ToSet(b.items)]
  PROVE  fate' \in Fates /\ SentInOrder' /\ Settled' = Settled \cup ToSet(b.items)
<1> HOTyped BY DEF HOInv
<1>1. ToSet(b.items) \subseteq Nat
  <2>1. b.items \in Seq(Nat) BY DEF HOTyped, Batches
  <2>2. \A i \in 1..Len(b.items) : b.items[i] \in Nat BY <2>1
  <2>3. ToSet(b.items) = {b.items[i] : i \in 1..Len(b.items)} BY <2>1, ToSetIs
  <2>4. QED BY <2>2, <2>3
<1>2. /\ fate' \in Fates /\ fate'.sent = fate.sent /\ fate.refused \subseteq fate'.refused
      /\ fate.dropped \subseteq fate'.dropped
      /\ fate'.refused \cup fate'.dropped = fate.refused \cup fate.dropped \cup ToSet(b.items)
  BY <1>1 DEF HOTyped, Fates
<1>3. SentInOrder' BY <1>2 DEF HOInv, SentInOrder
<1>4. Settled' = Settled \cup ToSet(b.items) BY <1>2 DEF Settled, ServerHas
<1>5. QED BY <1>2, <1>3, <1>4

LEMMA HOMusters == ASSUME OutputBounds, HOInv, MusterTimeout \/ MusterEnds \/ TimerExpires PROVE HOInv'
<1> HOTyped BY DEF HOInv
<1>1. muster \in Musters /\ (halt = "returned" => muster.at = "gone" /\ firing = {} /\ ~given.waits)
      /\ (muster.at = "gone" => muster.items = <<>>)
      /\ (halt \in {"shutdown", "closed", "returned"} => ~given.waits)
      /\ halt \in {"no", "shutdown", "closed", "returned", "crash"}
  BY DEF HOTyped, HOInv, Stopping, Musters
<1>2. UNCHANGED <<given, firing, fate, halt>> BY DEF MusterTimeout, MusterEnds, TimerExpires
<1>3. CASE MusterTimeout
  <2>1. muster.at = "select" /\ muster' = [muster EXCEPT !.at = "slot", !.tick = FALSE] BY <1>3 DEF MusterTimeout
  <2>2. muster' \in Musters /\ muster'.items = muster.items /\ muster'.at = "slot"
    BY <1>1, <2>1 DEF Musters, MusterPlaces
  <2>3. QED BY <1>1, <1>2, <2>1, <2>2, HOMoves
<1>4. CASE MusterEnds
  <2>1. muster.at = "select" /\ muster' = [muster EXCEPT !.at = IF muster.items = <<>> THEN "gone" ELSE "last slot"]
    BY <1>4 DEF MusterEnds
  <2>2. /\ muster' \in Musters /\ muster'.items = muster.items
        /\ muster'.at = IF muster.items = <<>> THEN "gone" ELSE "last slot"
    BY <1>1, <2>1 DEF Musters, MusterPlaces
  <2>3. halt = "closed" BY <1>4 DEF MusterEnds
  <2>4. /\ muster'.at # "select" /\ (muster'.at = "gone" => muster.items = <<>>)
        /\ halt # "returned" /\ halt' = halt
    BY <1>2, <2>2, <2>3
  <2>5. QED BY <1>1, <1>2, <2>2, <2>3, <2>4, HOMoves
<1>5. CASE TimerExpires
  <2>1. muster' = [muster EXCEPT !.timer = FALSE, !.tick = TRUE] BY <1>5 DEF TimerExpires
  <2>2. muster' \in Musters /\ muster'.items = muster.items /\ muster'.at = muster.at BY <1>1, <2>1 DEF Musters
  <2>3. QED BY <1>1, <1>2, <2>2, HOMoves
<1>6. QED BY <1>3, <1>4, <1>5

LEMMA HOStops == ASSUME OutputBounds, HOInv, HOStop \/ HOClose \/ HOReturn PROVE HOInv'
<1> HOTyped BY DEF HOInv
<1>1. muster \in Musters /\ (halt = "returned" => muster.at = "gone" /\ firing = {} /\ ~given.waits)
      /\ (muster.at = "gone" => muster.items = <<>>)
      /\ (halt \in {"shutdown", "closed", "returned"} => ~given.waits)
  BY DEF HOTyped, HOInv, Stopping, Musters
<1>2. UNCHANGED <<given, muster, firing, fate>> BY DEF HOStop, HOClose, HOReturn
<1>3. CASE HOStop BY <1>1, <1>2, <1>3, HOMoves DEF HOStop
<1>4. CASE HOClose BY <1>1, <1>2, <1>4, HOMoves DEF HOClose
<1>5. CASE HOReturn BY <1>1, <1>2, <1>5, HOMoves DEF HOReturn
<1>6. QED BY <1>3, <1>4, <1>5

LEMMA HOAttempts ==
  ASSUME OutputBounds, HOInv, halt # "crash", NEW b \in firing, SendBatch(b) \/ RetryTimer(b) \/ GiveUp(b)
  PROVE  HOInv'
<1> HOTyped BY DEF HOInv
<1> DEFINE again == (firing \ {b}) \cup {[b EXCEPT !.at = "retry"]}
           sends == (firing \ {b}) \cup {[b EXCEPT !.at = "send"]}
           leaves == firing \ {b}
<1>1. fate \in Fates /\ SentInOrder BY DEF HOTyped, HOInv
<1>2. fate' = fate => SentInOrder' /\ Settled' = Settled BY <1>1 DEF SentInOrder, Settled, ServerHas
<1>3. fate' = ServerGets(b) => /\ fate' \in Fates /\ SentInOrder' /\ fate'.dropped = fate.dropped
                               /\ Settled' = Settled \cup ToSet(b.items)
  BY HOSends
<1>4. CASE SendBatch(b) /\ b.items = <<>>
  <2>1. halt' = "crash" /\ UNCHANGED <<given, muster, firing, fate>> BY <1>4 DEF SendBatch
  <2>2. HOTyped' BY <2>1 DEF HOTyped
  <2>3. Accounted'
    <3>1. Fired' = Fired /\ Settled' = Settled /\ Taken' = Taken BY <2>1 DEF Fired, Settled, ServerHas, Taken
    <3>2. QED BY <2>1, <3>1 DEF HOInv, Accounted
  <2>4. QED BY <2>1, <2>2, <2>3 DEF HOInv, WithinLimits, Ages, SentInOrder, Stopping
<1>5. CASE firing' \in {leaves, again} /\ fate' = ServerGets(b) /\ UNCHANGED <<given, muster, halt>>
  <2>1. "retry" \in {"send", "retry"} OBVIOUS
  <2>2. firing' \in {firing \ {b}, (firing \ {b}) \cup {[b EXCEPT !.at = "retry"]}} BY <1>5
  <2>3. Settled' \in {Settled, Settled \cup ToSet(b.items)} BY <1>3, <1>5
  <2>4. QED BY <1>3, <1>5, <2>1, <2>2, <2>3, HOFires
<1>6. ASSUME NEW at \in {"send", "retry"}, firing' = (firing \ {b}) \cup {[b EXCEPT !.at = at]},
             fate' = fate, UNCHANGED <<given, muster, halt>>
      PROVE  HOInv'
  <2> DEFINE c == [b EXCEPT !.at = at]
  <2>1. firing' \in {firing \ {b}, (firing \ {b}) \cup {[b EXCEPT !.at = at]}} BY <1>6
  <2>2. Settled' \in {Settled, Settled \cup ToSet(b.items)} BY <1>2, <1>6
  <2>3. CASE firing' # firing \ {b} BY <1>1, <1>2, <1>6, <2>1, <2>2, <2>3, HOFires
  <2>4. CASE firing' = firing \ {b}
    <3>1. c \in firing \ {b} /\ c.items = b.items
      <4>1. b \in Batches BY DEF HOTyped
      <4>2. c \in firing \ {b} BY <1>6, <2>4
      <4>3. c.items = b.items BY <4>1 DEF Batches
      <4>4. QED BY <4>2, <4>3
    <3> HIDE DEF c
    <3>2. /\ IsFiniteSet(firing') /\ firing' \subseteq Batches
          /\ PoolMax # 0 => Cardinality(firing') <= PoolMax
          /\ \A x \in firing' : \E y \in firing : x.items = y.items
          /\ \A x, y \in firing' : (\A v, w \in firing : v = w) => x = y
      BY <2>1, FiringMoves
    <3>3. Fired' = Fired
      <4>1. \A e : e \in Fired <=> \E x \in firing : e \in ToSet(x.items) BY DEF Fired
      <4>2. \A e : e \in Fired' <=> \E x \in firing' : e \in ToSet(x.items) BY DEF Fired
      <4>3. \A e : e \in Fired' <=> e \in Fired BY <2>4, <3>1, <4>1, <4>2
      <4>4. QED BY <4>3
    <3>4. HOTyped' BY <1>6, <3>2 DEF HOTyped
    <3>5. WithinLimits' BY <1>6, <3>2 DEF HOInv, WithinLimits
    <3>6. Ages' BY <1>6, <3>2 DEF HOInv, Ages
    <3>7. Accounted'
      <4>1. Taken' = Taken BY <1>6 DEF Taken
      <4>2. QED BY <1>2, <1>6, <3>3, <4>1 DEF HOInv, Accounted
    <3>8. Stopping' BY <1>6 DEF HOInv, Stopping
    <3>9. QED BY <1>2, <1>6, <3>4, <3>5, <3>6, <3>7, <3>8 DEF HOInv
  <2>5. QED BY <2>3, <2>4
<1>7. CASE firing' = leaves /\ UNCHANGED <<given, muster, halt>>
           /\ \/ fate' = [fate EXCEPT !.refused = @ \cup ToSet(b.items)]
              \/ halt # "no" /\ fate' = [fate EXCEPT !.dropped = @ \cup ToSet(b.items)]
  <2>1. fate' \in Fates /\ SentInOrder' /\ Settled' = Settled \cup ToSet(b.items) BY <1>7, HOGivesUp
  <2>2. fate'.dropped = fate.dropped \/ halt # "no" BY <1>1, <1>7 DEF Fates
  <2>3. firing' \in {firing \ {b}, (firing \ {b}) \cup {[b EXCEPT !.at = "send"]}} /\ "send" \in {"send", "retry"}
    BY <1>7
  <2>4. Settled' \in {Settled, Settled \cup ToSet(b.items)} BY <2>1
  <2>5. UNCHANGED <<given, muster, halt>> BY <1>7
  <2>6. QED BY <2>1, <2>2, <2>3, <2>4, <2>5, HOFires
<1>8. CASE SendBatch(b) /\ b.items # <<>>
  <2>1. \/ Leaves(b, ServerGets(b)) \/ Again(b, ServerGets(b)) \/ Again(b, fate)
        \/ Leaves(b, [fate EXCEPT !.refused = @ \cup ToSet(b.items)])
    BY <1>8 DEF SendBatch
  <2>2. CASE Leaves(b, ServerGets(b)) BY <1>5, <2>2 DEF Leaves
  <2>3. CASE Again(b, ServerGets(b)) BY <1>5, <2>3 DEF Again
  <2>4. CASE Again(b, fate) BY <1>6, <2>4 DEF Again
  <2>5. CASE Leaves(b, [fate EXCEPT !.refused = @ \cup ToSet(b.items)]) BY <1>7, <2>5 DEF Leaves
  <2>6. QED BY <2>1, <2>2, <2>3, <2>4, <2>5
<1>9. CASE RetryTimer(b) BY <1>6, <1>9 DEF RetryTimer
<1>10. CASE GiveUp(b) BY <1>7, <1>10 DEF GiveUp, Leaves
<1>11. QED BY <1>4, <1>8, <1>9, <1>10

LEMMA HOSteps == ASSUME OutputBounds, HOInv, [HONext]_hoVars PROVE HOInv'
<1>1. CASE UNCHANGED hoVars
  <2>1. HOTyped' BY <1>1 DEF hoVars, HOInv, HOTyped
  <2>2. Accounted'
    <3>1. Fired' = Fired /\ Settled' = Settled /\ Taken' = Taken
      BY <1>1 DEF hoVars, Fired, Settled, ServerHas, Taken
    <3>2. QED BY <1>1, <3>1 DEF hoVars, HOInv, Accounted
  <2>3. QED BY <1>1, <2>1, <2>2 DEF hoVars, HOInv, WithinLimits, Ages, SentInOrder, Stopping
<1>2. CASE HONext
  <2>1. halt # "crash" BY <1>2 DEF HONext
  <2>2. CASE Muster BY <2>2, HOTakes, HOMusters, HOLaunches DEF Muster
  <2>3. CASE Attempt BY <2>1, <2>3, HOAttempts DEF Attempt
  <2>4. CASE \E b \in firing : GiveUp(b) BY <2>1, <2>4, HOAttempts
  <2>5. QED BY <1>2, <2>2, <2>3, <2>4, HOReceives, HOMusters, HOStops DEF HONext
<1>3. QED BY <1>1, <1>2

LEMMA HOSounds == ASSUME OutputBounds, HOInv PROVE HOTypeOK /\ BatchesAccounted /\ SentInOrder
<1> HOTyped BY DEF HOInv
<1>1. HOTypeOK
  <2>1. PoolMax = 0 \/ Cardinality(firing) <= PoolMax BY DEF HOInv, WithinLimits
  <2>2. \A b \in firing : (BatchSize = 0 \/ Len(b.items) <= BatchSize) /\ b.at \in {"send", "retry"}
    BY DEF HOInv, WithinLimits, HOTyped, Batches
  <2>3. QED BY <2>1, <2>2 DEF HOTyped, HOTypeOK, MusterPlaces
<1>2. BatchesAccounted
  <2>1. Accounted /\ Stopping /\ given.count \in Nat BY DEF HOInv, HOTyped
  <2>2. 1..given.count = Offered \cup 1..Taken
    <3>1. CASE given.waits
      <4>1. given.count > 0 /\ Taken = given.count - 1 BY <2>1, <3>1 DEF Accounted, Taken
      <4>2. QED BY <2>1, <3>1, <4>1 DEF Offered
    <3>2. CASE ~given.waits BY <3>2 DEF Taken, Offered
    <3>3. QED BY <3>1, <3>2
  <2>3. 1..given.count = Offered \cup ToSet(muster.items) \cup Fired \cup Settled
    <3>1. 1..Taken = ToSet(muster.items) \cup Fired \cup Settled BY <2>1 DEF Accounted
    <3>2. QED BY <2>2, <3>1
  <2>4. fate.dropped # {} => halt # "no" BY <2>1 DEF Stopping
  <2>5. ASSUME halt = "returned" PROVE 1..given.count = Settled
    <3>1. ~given.waits /\ muster.items = <<>> /\ firing = {} BY <2>1, <2>5 DEF Stopping
    <3>2. Offered = {} /\ Fired = {} BY <3>1 DEF Offered, Fired
    <3>3. ToSet(muster.items) = {} BY <3>1, EmptyOrOne
    <3>4. QED BY <2>3, <3>2, <3>3
  <2>6. QED BY <2>3, <2>4, <2>5 DEF BatchesAccounted
<1>3. QED BY <1>1, <1>2 DEF HOInv

(***************************************************************************)
(* The file output.                                                        *)
(***************************************************************************)
FOPlaces == {"idle", "bytes", "read", "write", "done"}
FORecords == [at : FOPlaces, slice : Seq(Nat)]
FOTyped ==
  /\ buffer \in Seq(Nat) /\ flush \in [Flushers -> FORecords]
  /\ outFile \in [is : {"nil", "open", "closed"}, written : Seq(Nat), failed : SUBSET Nat]
  /\ logged \in [count : 0..MaxLogged, phase : {"run", "flush", "stopped"}] /\ raced \in BOOLEAN

\* While none raced, one flushes at a time, and what it is about to read is the
\* beginning of the buffer.
OneFlushes == \A f, g \in Flushers : flush[f].at \notin {"idle", "done"} /\ flush[g].at \notin {"idle", "done"} => f = g
ReadsBeginning ==
  \A f \in Flushers : flush[f].at = "read" =>
    Len(flush[f].slice) <= Len(buffer) /\ SubSeq(buffer, 1, Len(flush[f].slice)) = flush[f].slice
\* The events that were written are older than those being written, and these
\* than the buffered ones.
InOrderOfAge ==
  /\ Rising(outFile.written) /\ Rising(buffer) /\ Before(outFile.written, buffer)
  /\ \A f \in Flushers : Rising(ToWrite(f)) /\ Before(outFile.written, ToWrite(f)) /\ Before(ToWrite(f), buffer)
NoneMissing ==
  ToSet(outFile.written) \cup ToSet(ToWrite("ticker")) \cup ToSet(ToWrite("stop")) \cup ToSet(buffer)
    \cup outFile.failed = 1..logged.count
FOInv == FOTyped /\ (~raced => OneFlushes /\ ReadsBeginning /\ InOrderOfAge /\ NoneMissing)

LEMMA FOStarts == ASSUME OutputBounds, FOInit PROVE FOInv
<1>1. MaxLogged \in Nat BY DEF OutputBounds
<1>2. buffer = <<>> /\ \A f \in Flushers : flush[f].at = "idle" /\ flush[f].slice = <<>> BY DEF FOInit
<1>3. outFile.written = <<>> /\ outFile.failed = {} /\ logged.count = 0 BY DEF FOInit
<1>4. \A f \in Flushers : ToWrite(f) = <<>> BY <1>2 DEF ToWrite
<1>5. FOTyped
  <2>1. flush \in [Flushers -> FORecords] BY EmptyOrOne DEF FOInit, FORecords, FOPlaces
  <2>2. outFile \in [is : {"nil", "open", "closed"}, written : Seq(Nat), failed : SUBSET Nat]
    BY EmptyOrOne DEF FOInit
  <2>3. logged \in [count : 0..MaxLogged, phase : {"run", "flush", "stopped"}] BY <1>1 DEF FOInit
  <2>4. QED BY <2>1, <2>2, <2>3, EmptyOrOne DEF FOInit, FOTyped
<1>6. OneFlushes /\ ReadsBeginning BY <1>2 DEF OneFlushes, ReadsBeginning
<1>7. InOrderOfAge BY <1>2, <1>3, <1>4, EmptyOrOne DEF InOrderOfAge, Before
<1>8. NoneMissing
  <2>1. "ticker" \in Flushers /\ "stop" \in Flushers BY DEF Flushers
  <2>2. 1..0 = {} OBVIOUS
  <2>3. QED BY <1>2, <1>3, <1>4, <2>1, <2>2, EmptyOrOne DEF NoneMissing
<1>9. QED BY <1>5, <1>6, <1>7, <1>8 DEF FOInv

LEMMA FlushMoves ==
  ASSUME FOTyped, NEW f \in Flushers, NEW at \in FOPlaces, NEW slice \in Seq(Nat), FlushGoes(f, at, slice)
  PROVE  /\ flush' \in [Flushers -> FORecords] /\ flush'[f].at = at /\ flush'[f].slice = slice
         /\ \A g \in Flushers \ {f} : flush'[g] = flush[g]
<1>1. [at |-> at, slice |-> slice] \in FORecords BY DEF FORecords
<1>2. QED BY <1>1 DEF FOTyped, FlushGoes

LEMMA ToWriteTyped ==
  ASSUME FOTyped, NEW f \in Flushers
  PROVE  flush[f].slice \in Seq(Nat) /\ ToWrite(f) \in Seq(Nat) /\ flush[f].at \in FOPlaces
<1>1. flush[f] \in FORecords BY DEF FOTyped
<1>2. QED BY <1>1, EmptyOrOne DEF FORecords, ToWrite

\* Receive leaves the slices alone, unless it raced.
LEMMA FOReceives == ASSUME OutputBounds, FOInv, FOReceive PROVE FOInv'
<1> FOTyped BY DEF FOInv
<1> DEFINE n == logged.count
<1>1. MaxLogged \in Nat /\ n \in 0..MaxLogged /\ n < MaxLogged BY DEF OutputBounds, FOReceive, FOTyped
<1>2. logged' = [logged EXCEPT !.count = n + 1] /\ buffer' = Append(buffer, n + 1) /\ outFile' = outFile
  BY DEF FOReceive
<1>3. logged' \in [count : 0..MaxLogged, phase : {"run", "flush", "stopped"}] /\ logged'.count = n + 1
  <2>1. n + 1 \in 0..MaxLogged BY <1>1
  <2> HIDE DEF n
  <2>2. logged \in [count : 0..MaxLogged, phase : {"run", "flush", "stopped"}] BY DEF FOTyped
  <2>3. QED BY <1>2, <2>1, <2>2
<1> HIDE DEF n
<1>4. n + 1 \in Nat BY <1>1
<1>5. buffer' = buffer \o <<n + 1>> /\ buffer \in Seq(Nat) /\ <<n + 1>> \in Seq(Nat)
  BY <1>2, <1>4, AppendIsConcat, EmptyOrOne DEF FOTyped
<1>6. buffer' \in Seq(Nat) /\ ToSet(buffer') = ToSet(buffer) \cup {n + 1}
  <2>1. ToSet(<<n + 1>>) = {n + 1} BY <1>4, EmptyOrOne
  <2>2. buffer \o <<n + 1>> \in Seq(Nat) /\ ToSet(buffer \o <<n + 1>>) = ToSet(buffer) \cup ToSet(<<n + 1>>)
    BY <1>5, ToSetJoined
  <2>3. QED BY <1>5, <2>1, <2>2
<1>7. CASE UNCHANGED <<flush, raced>>
  <2>1. FOTyped' BY <1>2, <1>3, <1>6, <1>7 DEF FOTyped
  <2>2. ASSUME ~raced' PROVE OneFlushes' /\ ReadsBeginning' /\ InOrderOfAge' /\ NoneMissing'
    <3>1. OneFlushes /\ ReadsBeginning /\ InOrderOfAge /\ NoneMissing BY <1>7, <2>2 DEF FOInv
    <3>2. \A f \in Flushers : ToWrite(f)' = ToWrite(f) BY <1>7 DEF ToWrite
    <3>3. "ticker" \in Flushers /\ "stop" \in Flushers BY DEF Flushers
    <3>4. \A x \in ToSet(outFile.written) \cup ToSet(ToWrite("ticker")) \cup ToSet(ToWrite("stop")) \cup ToSet(buffer) :
            x \in 1..n
      BY <3>1 DEF NoneMissing, n
    <3>5. \A f \in Flushers : \A x \in ToSet(ToWrite(f)) : x < n + 1
      <4>1. \A f \in Flushers : f = "ticker" \/ f = "stop" BY DEF Flushers
      <4>2. QED BY <1>1, <3>4, <4>1
    <3>6. \A x \in ToSet(outFile.written) : x < n + 1 BY <1>1, <3>4
    <3>7. \A x \in ToSet(buffer), y \in ToSet(<<n + 1>>) : x < y BY <1>1, <1>4, <3>4, EmptyOrOne
    <3>8. Rising(buffer') BY <1>4, <1>5, <3>1, <3>7, RisingJoined, EmptyOrOne DEF InOrderOfAge
    <3>9. InOrderOfAge' BY <1>2, <1>6, <3>1, <3>2, <3>5, <3>6, <3>8 DEF InOrderOfAge, Before
    <3>10. NoneMissing'
      <4>1. 1..n + 1 = 1..n \cup {n + 1} BY <1>1
      <4>2. ToWrite("ticker")' = ToWrite("ticker") /\ ToWrite("stop")' = ToWrite("stop") BY <3>2, <3>3
      <4>3. QED BY <1>2, <1>3, <1>6, <3>1, <4>1, <4>2 DEF NoneMissing, n
    <3>11. ReadsBeginning'
      <4>1. SUFFICES ASSUME NEW f \in Flushers, flush[f].at = "read"
                     PROVE  Len(flush[f].slice) <= Len(buffer') /\ SubSeq(buffer', 1, Len(flush[f].slice)) = flush[f].slice
        BY <1>7 DEF ReadsBeginning
      <4> DEFINE k == Len(flush[f].slice)
      <4>2. k \in Nat /\ Len(buffer) \in Nat BY ToWriteTyped DEF FOTyped
      <4>3. k <= Len(buffer) /\ SubSeq(buffer, 1, k) = flush[f].slice BY <3>1, <4>1 DEF ReadsBeginning
      <4>4. Len(buffer') = Len(buffer) + 1 BY <1>2, <1>4, AppendProperties DEF FOTyped
      <4>5. SubSeq(buffer', 1, k) = SubSeq(buffer, 1, k)
        <5>1. CASE k = 0 BY <5>1, SubSeqEmpty
        <5>2. CASE k # 0
          <6>1. 1 \in 1..Len(buffer) /\ k \in 1..Len(buffer) BY <4>2, <4>3, <5>2
          <6>2. QED BY <1>5, <6>1, SubSeqOfConcat1
        <5>3. QED BY <5>1, <5>2
      <4>6. QED BY <4>2, <4>3, <4>4, <4>5
    <3>12. OneFlushes' BY <1>7, <3>1 DEF OneFlushes
    <3>13. QED BY <3>9, <3>10, <3>11, <3>12
  <2>3. QED BY <2>1, <2>2 DEF FOInv
<1>8. CASE raced' = TRUE /\ flush' = [f \in Flushers |-> IF f \in Reading
                                        THEN [flush[f] EXCEPT !.slice = Overwritten(@, buffer')] ELSE flush[f]]
  <2>1. ASSUME NEW f \in Flushers PROVE flush'[f] \in FORecords
    <3>1. flush[f] \in FORecords BY DEF FOTyped
    <3> DEFINE o == Overwritten(flush[f].slice, buffer')
    <3>2. o \in Seq(Nat)
      <4>1. flush[f].slice \in Seq(Nat) BY ToWriteTyped
      <4>2. \A i \in 1..Len(flush[f].slice) : (IF i <= Len(buffer') THEN buffer'[i] ELSE flush[f].slice[i]) \in Nat
        <5>1. Len(buffer') \in Nat /\ \A i \in 1..Len(buffer') : buffer'[i] \in Nat BY <1>6
        <5>2. \A i \in 1..Len(flush[f].slice) : flush[f].slice[i] \in Nat BY <4>1
        <5>3. QED BY <4>1, <5>1, <5>2
      <4>3. Len(flush[f].slice) \in Nat BY <4>1
      <4>4. o = [i \in 1..Len(flush[f].slice) |-> IF i <= Len(buffer') THEN buffer'[i] ELSE flush[f].slice[i]]
        BY DEF Overwritten
      <4>5. o \in [1..Len(flush[f].slice) -> Nat] BY <4>2, <4>4
      <4>6. QED BY <4>3, <4>5, SeqDef
    <3> HIDE DEF o
    <3>3. [flush[f] EXCEPT !.slice = o] \in FORecords BY <3>1, <3>2 DEF FORecords
    <3>4. flush'[f] = flush[f] \/ flush'[f] = [flush[f] EXCEPT !.slice = o] BY <1>8 DEF o
    <3>5. QED BY <3>1, <3>3, <3>4
  <2>2. flush' \in [Flushers -> FORecords] BY <1>8, <2>1
  <2>3. FOTyped' BY <1>2, <1>3, <1>6, <1>8, <2>2 DEF FOTyped
  <2>4. QED BY <1>8, <2>3 DEF FOInv
<1>9. QED BY <1>7, <1>8 DEF FOReceive

\* A flush begins, takes the slice of the buffer, or ends without a write.
FOOut == [is : {"nil", "open", "closed"}, written : Seq(Nat), failed : SUBSET Nat]
LEMMA FlushStays ==
  ASSUME FOInv, NEW f \in Flushers, NEW at \in {"idle", "done", "bytes", "read"}, NEW slice \in Seq(Nat),
         FlushGoes(f, at, slice), flush[f].at \in {"idle", "bytes"}, UNCHANGED <<buffer, logged>>,
         outFile' \in FOOut, outFile'.written = outFile.written, outFile'.failed = outFile.failed,
         raced' \in BOOLEAN, raced \/ (flush[f].at = "idle" /\ at \in {"bytes", "read"} /\ Overlaps(f)) => raced',
         at = "read" => slice = buffer
  PROVE  FOInv'
<1> FOTyped BY DEF FOInv
<1>1. at \in FOPlaces BY DEF FOPlaces
<1>2. /\ flush' \in [Flushers -> FORecords] /\ flush'[f].at = at /\ flush'[f].slice = slice
      /\ \A g \in Flushers \ {f} : flush'[g] = flush[g]
  BY <1>1, FlushMoves
<1>3. FOTyped' BY <1>2 DEF FOTyped, FOOut
<1>4. ASSUME ~raced' PROVE OneFlushes' /\ ReadsBeginning' /\ InOrderOfAge' /\ NoneMissing'
  <2>1. OneFlushes /\ ReadsBeginning /\ InOrderOfAge /\ NoneMissing BY <1>4 DEF FOInv
  <2>2. \A g \in Flushers : ToWrite(g)' = ToWrite(g) BY <1>2 DEF ToWrite
  <2>3. "ticker" \in Flushers /\ "stop" \in Flushers BY DEF Flushers
  <2>4. InOrderOfAge' BY <2>1, <2>2 DEF InOrderOfAge
  <2>5. NoneMissing'
    <3>1. ToWrite("ticker")' = ToWrite("ticker") /\ ToWrite("stop")' = ToWrite("stop") BY <2>2, <2>3
    <3>2. QED BY <2>1, <3>1 DEF NoneMissing
  <2>6. OneFlushes'
    <3>1. at \in {"bytes", "read"} => \A g \in Flushers \ {f} : flush[g].at \in {"idle", "done"}
      <4>1. CASE flush[f].at = "idle" BY <1>4, <4>1 DEF Overlaps
      <4>2. CASE flush[f].at = "bytes" BY <2>1, <4>2 DEF OneFlushes
      <4>3. QED BY <4>1, <4>2
    <3>2. QED BY <1>2, <2>1, <3>1 DEF OneFlushes
  <2>7. ReadsBeginning'
    <3>1. at = "read" => Len(slice) <= Len(buffer) /\ SubSeq(buffer, 1, Len(slice)) = slice
      BY SubSeqFull DEF FOTyped
    <3>2. QED BY <1>2, <2>1, <3>1 DEF ReadsBeginning
  <2>8. QED BY <2>4, <2>5, <2>6, <2>7
<1>5. QED BY <1>3, <1>4 DEF FOInv

\* Read copies the beginning of the buffer, which the slice is.
LEMMA FOReads == ASSUME FOInv, NEW f \in Flushers, ReadBuffer(f) PROVE FOInv'
<1> FOTyped BY DEF FOInv
<1> DEFINE slice == flush[f].slice
           n == IF Len(buffer) < Len(slice) THEN Len(buffer) ELSE Len(slice)
           reads == SubSeq(buffer, 1, n) \o SubSeq(slice, n + 1, Len(slice))
           rest == SubSeq(buffer, n + 1, Len(buffer))
<1>1. flush[f].at = "read" /\ FlushGoes(f, "write", reads) /\ buffer' = rest /\ UNCHANGED <<outFile, logged, raced>>
  BY DEF ReadBuffer
<1>2. slice \in Seq(Nat) /\ buffer \in Seq(Nat) BY ToWriteTyped DEF FOTyped
<1> HIDE DEF slice
<1>3. n \in Nat /\ n <= Len(buffer) /\ n <= Len(slice) /\ Len(buffer) \in Nat /\ Len(slice) \in Nat BY <1>2
<1> HIDE DEF n
<1>4. ASSUME n = Len(slice) PROVE SubSeq(slice, n + 1, Len(slice)) = <<>>
  <2>1. n + 1 \in Int /\ Len(slice) \in Int /\ Len(slice) < n + 1 BY <1>3, <1>4
  <2>2. QED BY <2>1, SubSeqEmpty
<1>5. SubSeq(buffer, 1, n) \in Seq(Nat) /\ SubSeq(slice, n + 1, Len(slice)) \in Seq(Nat) /\ rest \in Seq(Nat)
  <2>1. \A i \in 1..Len(buffer) : buffer[i] \in Nat BY <1>2
  <2>2. \A i \in 1..Len(slice) : slice[i] \in Nat BY <1>2
  <2>3. SubSeq(buffer, 1, n) \in Seq(Nat)
    <3>1. \A i \in 1..n : buffer[i] \in Nat BY <1>3, <2>1
    <3>2. QED BY <1>3, <3>1, SubSeqProperties
  <2>4. SubSeq(slice, n + 1, Len(slice)) \in Seq(Nat)
    <3>1. \A i \in n + 1..Len(slice) : slice[i] \in Nat BY <1>3, <2>2
    <3>2. n + 1 \in Int /\ Len(slice) \in Int BY <1>3
    <3>3. QED BY <3>1, <3>2, SubSeqProperties
  <2>5. rest \in Seq(Nat)
    <3>1. \A i \in n + 1..Len(buffer) : buffer[i] \in Nat BY <1>3, <2>1
    <3>2. n + 1 \in Int /\ Len(buffer) \in Int BY <1>3
    <3>3. QED BY <3>1, <3>2, SubSeqProperties
  <2>6. QED BY <2>3, <2>4, <2>5
<1>6. reads \in Seq(Nat) BY <1>5, ConcatProperties
<1>7. SubSeq(buffer, 1, n) \o rest = buffer
  <2>1. 1 \in 1..Len(buffer) + 1 /\ n \in 1 - 1..Len(buffer) /\ Len(buffer) \in n..Len(buffer) BY <1>3
  <2>2. SubSeq(buffer, 1, n) \o SubSeq(buffer, n + 1, Len(buffer)) = SubSeq(buffer, 1, Len(buffer))
    BY <1>2, <2>1, ConcatAdjacentSubSeq
  <2>3. QED BY <1>2, <2>2, SubSeqFull
<1> HIDE DEF reads, rest
<1>8. /\ flush' \in [Flushers -> FORecords] /\ flush'[f].at = "write" /\ flush'[f].slice = reads
      /\ \A g \in Flushers \ {f} : flush'[g] = flush[g]
  <2>1. "write" \in FOPlaces BY DEF FOPlaces
  <2>2. QED BY <1>1, <1>6, <2>1, FlushMoves
<1>9. FOTyped' BY <1>1, <1>5, <1>8 DEF FOTyped
<1>10. ASSUME ~raced' PROVE OneFlushes' /\ ReadsBeginning' /\ InOrderOfAge' /\ NoneMissing'
  <2>1. OneFlushes /\ ReadsBeginning /\ InOrderOfAge /\ NoneMissing BY <1>1, <1>10 DEF FOInv
  <2>2. Len(slice) <= Len(buffer) /\ SubSeq(buffer, 1, Len(slice)) = slice BY <1>1, <2>1 DEF ReadsBeginning, slice
  <2>3. n = Len(slice) BY <1>3, <2>2 DEF n
  <2>4. reads = slice
    <3>1. SubSeq(slice, n + 1, Len(slice)) = <<>> BY <1>3, <1>4, <2>3
    <3>2. SubSeq(buffer, 1, n) = slice BY <2>2, <2>3
    <3>3. slice \o <<>> = slice BY <1>2
    <3>4. QED BY <3>1, <3>2, <3>3 DEF reads
  <2>5. slice \o rest = buffer BY <1>7, <2>2, <2>3
  <2>6. ToSet(buffer) = ToSet(slice) \cup ToSet(rest) BY <1>2, <1>5, <2>5, ToSetJoined
  <2>7. Rising(slice) /\ Rising(rest) /\ Before(slice, rest)
    <3>1. Rising(slice \o rest) BY <2>1, <2>5 DEF InOrderOfAge
    <3>2. QED BY <1>2, <1>5, <3>1, RisingJoined DEF Before
  <2>8. \A g \in Flushers \ {f} : flush[g].at \in {"idle", "done"} BY <1>1, <2>1 DEF OneFlushes
  <2>9. /\ ToWrite(f) = <<>> /\ ToWrite(f)' = slice
        /\ \A g \in Flushers \ {f} : ToWrite(g) = <<>> /\ ToWrite(g)' = <<>>
    BY <1>1, <1>8, <2>4, <2>8 DEF ToWrite
  <2>10. InOrderOfAge'
    <3>1. Before(outFile.written, rest) /\ Before(outFile.written, slice) BY <2>1, <2>6 DEF InOrderOfAge, Before
    <3>2. \A g \in Flushers : Rising(ToWrite(g)') /\ Before(outFile.written, ToWrite(g)') /\ Before(ToWrite(g)', rest)
      <4>1. TAKE g \in Flushers
      <4>2. CASE g = f BY <2>7, <2>9, <3>1, <4>2
      <4>3. CASE g # f BY <2>9, <4>3, EmptyOrOne DEF Before
      <4>4. QED BY <4>2, <4>3
    <3>3. Rising(outFile.written) BY <2>1 DEF InOrderOfAge
    <3>4. QED BY <1>1, <2>7, <3>1, <3>2, <3>3 DEF InOrderOfAge
  <2>11. NoneMissing'
    <3>1. f = "ticker" \/ f = "stop" BY DEF Flushers
    <3>2. ToSet(ToWrite("ticker")) \cup ToSet(ToWrite("stop")) = {} BY <2>9, <3>1, EmptyOrOne DEF Flushers
    <3>3. ToSet(ToWrite("ticker")') \cup ToSet(ToWrite("stop")') = ToSet(slice)
      BY <2>9, <3>1, EmptyOrOne DEF Flushers
    <3>4. QED BY <1>1, <2>1, <2>6, <3>2, <3>3 DEF NoneMissing
  <2>12. OneFlushes' BY <1>8, <2>8 DEF OneFlushes
  <2>13. ReadsBeginning' BY <1>8, <2>8 DEF ReadsBeginning
  <2>14. QED BY <2>10, <2>11, <2>12, <2>13
<1>11. QED BY <1>9, <1>10 DEF FOInv

LEMMA FOWrites == ASSUME FOInv, NEW f \in Flushers, WriteFile(f) PROVE FOInv'
<1> FOTyped BY DEF FOInv
<1> DEFINE slice == flush[f].slice
           at == FlushDone(f)
<1>1. flush[f].at = "write" /\ FlushGoes(f, at, <<>>) /\ UNCHANGED <<buffer, logged, raced>> BY DEF WriteFile
<1>2. slice \in Seq(Nat) /\ buffer \in Seq(Nat) /\ outFile.written \in Seq(Nat) BY ToWriteTyped DEF FOTyped
<1>3. at \in {"idle", "done"} /\ at \in FOPlaces BY DEF FlushDone, FOPlaces
<1> HIDE DEF at
<1>4. /\ flush' \in [Flushers -> FORecords] /\ flush'[f].at = at
      /\ \A g \in Flushers \ {f} : flush'[g] = flush[g]
  BY <1>1, <1>3, EmptyOrOne, FlushMoves
<1>5. /\ ToWrite(f) = slice /\ ToWrite(f)' = <<>> /\ \A g \in Flushers \ {f} : ToWrite(g)' = ToWrite(g)
  BY <1>1, <1>3, <1>4 DEF ToWrite
<1> HIDE DEF slice
<1>6. ASSUME ~raced PROVE \A g \in Flushers \ {f} : flush[g].at \in {"idle", "done"} /\ ToWrite(g) = <<>>
  BY <1>1, <1>6 DEF FOInv, OneFlushes, ToWrite
<1>7. ASSUME ~raced PROVE OneFlushes' /\ ReadsBeginning'
  BY <1>3, <1>4, <1>6, <1>7 DEF OneFlushes, ReadsBeginning
<1>8. f = "ticker" \/ f = "stop" BY DEF Flushers
<1>9. ASSUME ~raced
      PROVE  /\ ToSet(ToWrite("ticker")) \cup ToSet(ToWrite("stop")) = ToSet(slice)
             /\ ToSet(ToWrite("ticker")') \cup ToSet(ToWrite("stop")') = {}
             /\ \A g \in Flushers : ToWrite(g)' = <<>>
             /\ InOrderOfAge /\ NoneMissing
             /\ Rising(slice) /\ Before(outFile.written, slice) /\ Before(slice, buffer)
  <2>1. \A g \in Flushers : ToWrite(g)' = <<>> BY <1>5, <1>6, <1>9
  <2>2. \A g \in Flushers \ {f} : ToWrite(g) = <<>> BY <1>6, <1>9
  <2>3. InOrderOfAge /\ NoneMissing BY <1>9 DEF FOInv
  <2>4. Rising(ToWrite(f)) /\ Before(outFile.written, ToWrite(f)) /\ Before(ToWrite(f), buffer)
    BY <2>3 DEF InOrderOfAge
  <2>5. ToSet(ToWrite("ticker")) \cup ToSet(ToWrite("stop")) = ToSet(slice)
    BY <1>5, <1>8, <2>2, EmptyOrOne DEF Flushers
  <2>6. ToSet(ToWrite("ticker")') \cup ToSet(ToWrite("stop")') = {} BY <2>1, EmptyOrOne DEF Flushers
  <2>7. QED BY <1>5, <2>1, <2>3, <2>4, <2>5, <2>6
<1>10. CASE outFile' = [outFile EXCEPT !.written = @ \o slice]
  <2>1. outFile.written \o slice \in Seq(Nat)
        /\ ToSet(outFile.written \o slice) = ToSet(outFile.written) \cup ToSet(slice)
    BY <1>2, ToSetJoined
  <2>2. outFile' \in FOOut /\ outFile'.written = outFile.written \o slice /\ outFile'.failed = outFile.failed
    BY <1>10, <2>1 DEF FOTyped, FOOut
  <2>3. FOTyped' BY <1>1, <1>4, <2>2 DEF FOTyped, FOOut
  <2>4. ASSUME ~raced PROVE InOrderOfAge' /\ NoneMissing'
    <3>1. Rising(outFile.written \o slice)
      BY <1>2, <1>9, <2>4, RisingJoined DEF InOrderOfAge, Before
    <3>2. Before(outFile.written \o slice, buffer) BY <1>9, <2>1, <2>4 DEF InOrderOfAge, Before
    <3>3. \A g \in Flushers : Rising(ToWrite(g)') /\ Before(outFile'.written, ToWrite(g)') /\ Before(ToWrite(g)', buffer)
      BY <1>9, <2>4, EmptyOrOne DEF Before
    <3>4. InOrderOfAge' BY <1>1, <1>9, <2>2, <2>4, <3>1, <3>2, <3>3 DEF InOrderOfAge
    <3>5. NoneMissing' BY <1>1, <1>9, <2>1, <2>2, <2>4 DEF NoneMissing
    <3>6. QED BY <3>4, <3>5
  <2>5. QED BY <1>1, <1>7, <2>3, <2>4 DEF FOInv
<1>11. CASE outFile' = [outFile EXCEPT !.failed = @ \cup ToSet(slice)]
  <2>1. ToSet(slice) \subseteq Nat
    <3>1. \A i \in 1..Len(slice) : slice[i] \in Nat BY <1>2
    <3>2. ToSet(slice) = {slice[i] : i \in 1..Len(slice)} BY <1>2, ToSetIs
    <3>3. QED BY <3>1, <3>2
  <2>2. outFile' \in FOOut /\ outFile'.written = outFile.written /\ outFile'.failed = outFile.failed \cup ToSet(slice)
    BY <1>11, <2>1 DEF FOTyped, FOOut
  <2>3. FOTyped' BY <1>1, <1>4, <2>2 DEF FOTyped, FOOut
  <2>4. ASSUME ~raced PROVE InOrderOfAge' /\ NoneMissing'
    <3>1. \A g \in Flushers : Rising(ToWrite(g)') /\ Before(outFile'.written, ToWrite(g)') /\ Before(ToWrite(g)', buffer)
      BY <1>9, <2>4, EmptyOrOne DEF Before
    <3>2. InOrderOfAge' BY <1>1, <1>9, <2>2, <2>4, <3>1 DEF InOrderOfAge
    <3>3. NoneMissing' BY <1>1, <1>9, <2>2, <2>4 DEF NoneMissing
    <3>4. QED BY <3>2, <3>3
  <2>5. QED BY <1>1, <1>7, <2>3, <2>4 DEF FOInv
<1>12. QED BY <1>10, <1>11 DEF WriteFile, slice

LEMMA FOSteps == ASSUME OutputBounds, FOInv, [FONext]_foVars PROVE FOInv'
<1> FOTyped BY DEF FOInv
<1> outFile \in FOOut /\ raced \in BOOLEAN BY DEF FOTyped, FOOut
<1> <<>> \in Seq(Nat) BY EmptyOrOne
<1> SUFFICES ASSUME FONext PROVE FOInv'
  BY DEF foVars, FOInv, FOTyped, OneFlushes, ReadsBeginning, InOrderOfAge, NoneMissing, ToWrite
<1>1. ASSUME NEW f \in Flushers, FlushStep(f) PROVE FOInv'
  <2>1. FlushDone(f) \in {"idle", "done"} BY DEF FlushDone
  <2>2. CASE FlushEmpty(f)
    <3>1. /\ FlushGoes(f, FlushDone(f), <<>>) /\ flush[f].at \in {"idle", "bytes"}
          /\ UNCHANGED <<buffer, logged>> /\ outFile' = outFile /\ raced' = raced
      BY <2>2 DEF FlushEmpty
    <3>2. FlushDone(f) \in {"idle", "done", "bytes", "read"} /\ FlushDone(f) # "read" /\ FlushDone(f) # "bytes" BY <2>1
    <3>3. QED BY <3>1, <3>2, FlushStays
  <2>3. CASE FlushOpenFails(f)
    <3>1. /\ FlushGoes(f, FlushDone(f), <<>>) /\ flush[f].at \in {"idle", "bytes"}
          /\ UNCHANGED <<buffer, logged>> /\ outFile' \in {outFile, [outFile EXCEPT !.is = "nil"]} /\ raced' = raced
      BY <2>3 DEF FlushOpenFails
    <3>2. outFile' \in FOOut /\ outFile'.written = outFile.written /\ outFile'.failed = outFile.failed
      BY <3>1 DEF FOOut
    <3>3. FlushDone(f) \in {"idle", "done", "bytes", "read"} /\ FlushDone(f) # "read" /\ FlushDone(f) # "bytes" BY <2>1
    <3>4. QED BY <3>1, <3>2, <3>3, FlushStays
  <2>4. CASE FlushBegin(f)
    <3>1. /\ FlushGoes(f, "bytes", <<>>) /\ flush[f].at \in {"idle", "bytes"}
          /\ UNCHANGED <<buffer, logged>> /\ outFile' \in {outFile, [outFile EXCEPT !.is = "open"]}
          /\ raced' = (raced \/ Overlaps(f))
      BY <2>4 DEF FlushBegin
    <3>2. outFile' \in FOOut /\ outFile'.written = outFile.written /\ outFile'.failed = outFile.failed
      BY <3>1 DEF FOOut
    <3>3. raced' \in BOOLEAN BY <3>1 DEF Overlaps
    <3>4. QED BY <3>1, <3>2, <3>3, FlushStays
  <2>5. CASE TakeBytes(f)
    <3>1. /\ FlushGoes(f, "read", buffer) /\ flush[f].at = "bytes"
          /\ UNCHANGED <<buffer, logged>> /\ outFile' = outFile /\ raced' = raced /\ buffer \in Seq(Nat)
      BY <2>5 DEF TakeBytes, FOTyped
    <3>2. QED BY <3>1, FlushStays
  <2>6. QED BY <1>1, <2>2, <2>3, <2>4, <2>5, FOReads, FOWrites DEF FlushStep
<1>2. CASE FOStop
  <2>1. UNCHANGED <<buffer, flush, outFile, raced>> /\ logged'.count = logged.count
        /\ logged' \in [count : 0..MaxLogged, phase : {"run", "flush", "stopped"}]
    BY <1>2 DEF FOStop, FOTyped
  <2>2. QED BY <2>1 DEF FOInv, FOTyped, OneFlushes, ReadsBeginning, InOrderOfAge, NoneMissing, ToWrite
<1>3. CASE FOClose
  <2>1. UNCHANGED <<buffer, flush, raced>> /\ logged'.count = logged.count
        /\ logged' \in [count : 0..MaxLogged, phase : {"run", "flush", "stopped"}]
    BY <1>3 DEF FOClose, FOTyped
  <2>2. outFile' \in FOOut /\ outFile'.written = outFile.written /\ outFile'.failed = outFile.failed
    BY <1>3 DEF FOClose, FOOut
  <2>3. QED BY <2>1, <2>2 DEF FOInv, FOTyped, FOOut, OneFlushes, ReadsBeginning, InOrderOfAge, NoneMissing, ToWrite
<1>4. QED BY <1>1, <1>2, <1>3, FOReceives DEF FONext

LEMMA FOSounds == ASSUME OutputBounds, FOInv PROVE FOTypeOK /\ FileIsTrue
<1> FOTyped BY DEF FOInv
<1>1. FOTypeOK
  <2>1. \A f \in Flushers : flush[f].at \in {"idle", "bytes", "read", "write", "done"} BY ToWriteTyped DEF FOPlaces
  <2>2. QED BY <2>1 DEF FOTyped, FOTypeOK
<1>2. ASSUME ~raced
      PROVE  LET all == outFile.written \o ToWrite("ticker") \o ToWrite("stop") \o buffer
             IN /\ \A i, j \in 1..Len(all) : i < j => all[i] < all[j]
                /\ ToSet(all) \cup outFile.failed = 1..logged.count
  <2>1. OneFlushes /\ InOrderOfAge /\ NoneMissing BY <1>2 DEF FOInv
  <2>2. "ticker" \in Flushers /\ "stop" \in Flushers BY DEF Flushers
  <2>3. outFile.written \in Seq(Nat) /\ ToWrite("ticker") \in Seq(Nat) /\ ToWrite("stop") \in Seq(Nat)
        /\ buffer \in Seq(Nat)
    BY <2>2, ToWriteTyped DEF FOTyped
  <2>4. Before(ToWrite("ticker"), ToWrite("stop"))
    <3>1. ToWrite("ticker") = <<>> \/ ToWrite("stop") = <<>> BY <2>1, <2>2 DEF OneFlushes, ToWrite
    <3>2. QED BY <3>1, EmptyOrOne DEF Before
  <2> DEFINE all == outFile.written \o ToWrite("ticker") \o ToWrite("stop") \o buffer
  <2>5. Rising(all) /\ ToSet(all) = ToSet(outFile.written) \cup ToSet(ToWrite("ticker")) \cup ToSet(ToWrite("stop"))
                                     \cup ToSet(buffer)
    BY <2>1, <2>2, <2>3, <2>4, FourJoined DEF InOrderOfAge
  <2> HIDE DEF all
  <2>6. (\A i, j \in 1..Len(all) : i < j => all[i] < all[j]) /\ ToSet(all) \cup outFile.failed = 1..logged.count
    BY <2>1, <2>5 DEF NoneMissing, Rising
  <2>7. QED BY <2>6 DEF all
<1>3. QED BY <1>1, <1>2 DEF FileIsTrue

(***************************************************************************)
(* The rabbitmq output.                                                    *)
(***************************************************************************)
ROPlaces == {"idle", "publish", "sleep", "close", "dial", "channel"}
ROTyped ==
  /\ conns \in [dialed : 0..MaxConns, open : SUBSET (1..MaxConns)]
  /\ \A c \in conns.open : c <= conns.dialed
  /\ conn \in 0..conns.dialed /\ ch \in 0..conns.dialed
  /\ pub \in [Workers -> [at : ROPlaces, events : Nat]]

\* While no two were in setup, one worker at most dials, when the connection
\* before is closed.
SettingUp == {w \in Workers : pub[w].at \in {"dial", "channel"}}
OneSetsUp ==
  /\ \A v, w \in SettingUp : v = w
  /\ conns.open \subseteq {conn}
  /\ stopping = "returned" \/ (\E w \in Workers : pub[w].at = "dial") => conns.open = {}
ROInv == ROTyped /\ (~mingled => OneSetsUp)

LEMMA ROStarts == ASSUME OutputBounds, ROInit PROVE ROInv
<1>1. MaxConns \in Nat BY DEF OutputBounds
<1>2. \A w \in Workers : pub[w].at \in {"idle", "close"} /\ pub[w].events = 0 BY DEF ROInit
<1>3. conns.dialed = 0 /\ conns.open = {} /\ conn = 0 /\ ch = 0 BY DEF ROInit
<1>4. pub \in [Workers -> [at : ROPlaces, events : Nat]] BY DEF ROInit, ROPlaces
<1>5. conns \in [dialed : 0..MaxConns, open : SUBSET (1..MaxConns)] BY <1>1 DEF ROInit
<1>6. ROTyped BY <1>3, <1>4, <1>5 DEF ROTyped
<1>7. SettingUp = {} BY <1>2 DEF SettingUp
<1>8. OneSetsUp BY <1>3, <1>7 DEF OneSetsUp
<1>9. QED BY <1>6, <1>8 DEF ROInv

\* A worker goes from one place to another, and the others stay.
LEMMA ROMoves ==
  ASSUME ROTyped, NEW w \in Workers, NEW at \in ROPlaces, ROGoto(w, at)
  PROVE  /\ pub' \in [Workers -> [at : ROPlaces, events : Nat]]
         /\ pub'[w].at = at /\ \A v \in Workers \ {w} : pub'[v] = pub[v]
<1>1. pub \in [Workers -> [at : ROPlaces, events : Nat]] BY DEF ROTyped
<1>2. pub[w] \in [at : ROPlaces, events : Nat] BY <1>1
<1>3. pub' = [pub EXCEPT ![w] = [pub[w] EXCEPT !.at = at]] BY DEF ROGoto
<1>4. [pub[w] EXCEPT !.at = at] \in [at : ROPlaces, events : Nat] /\ [pub[w] EXCEPT !.at = at].at = at BY <1>2
<1>5. QED BY <1>1, <1>3, <1>4

\* No connection comes or goes, and the worker that moves does not dial.
LEMMA ROPublishes ==
  ASSUME ROInv, NEW w \in Workers, NEW at \in {"idle", "publish", "sleep", "close"},
         pub' \in [Workers -> [at : ROPlaces, events : Nat]],
         pub'[w].at = at, \A v \in Workers \ {w} : pub'[v] = pub[v],
         UNCHANGED <<conns, conn, mingled>>, ch' \in 0..conns.dialed, stopping' # "returned"
  PROVE  ROInv'
<1>1. ROTyped' BY DEF ROInv, ROTyped
<1>2. SettingUp' \subseteq SettingUp BY DEF SettingUp
<1>3. \A v \in Workers : pub'[v].at = "dial" => pub[v].at = "dial" OBVIOUS
<1>4. ~mingled' => OneSetsUp' BY <1>2, <1>3 DEF ROInv, OneSetsUp
<1>5. QED BY <1>1, <1>4 DEF ROInv

LEMMA ROSteps == ASSUME OutputBounds, ROInv, [RONext]_roVars PROVE ROInv'
<1> MaxConns \in Nat BY DEF OutputBounds
<1> ROTyped BY DEF ROInv
<1> conns.dialed \in 0..MaxConns /\ conns.open \in SUBSET (1..MaxConns) BY DEF ROTyped
<1> Publishers \subseteq Workers BY DEF Workers
<1> SUFFICES ASSUME RONext PROVE ROInv'
  BY DEF roVars, ROInv, ROTyped, OneSetsUp, SettingUp
<1>0. stopping \notin {"crash", "returned"} BY DEF RONext
<1>1. ASSUME NEW w \in Publishers, Publishing(w) PROVE ROInv'
  <2>1. CASE ROReceive(w)
    <3>1. pub[w] \in [at : ROPlaces, events : Nat] BY DEF ROTyped
    <3>2. [at |-> "publish", events |-> pub[w].events + 1] \in [at : ROPlaces, events : Nat] BY <3>1 DEF ROPlaces
    <3>3. pub' \in [Workers -> [at : ROPlaces, events : Nat]] /\ pub'[w].at = "publish"
          /\ \A v \in Workers \ {w} : pub'[v] = pub[v]
      BY <2>1, <3>2 DEF ROReceive, ROTyped
    <3>4. QED BY <1>0, <2>1, <3>3, ROPublishes DEF ROReceive, ROTyped
  <2>2. CASE Publish(w)
    <3>1. ROGoto(w, "idle") /\ "idle" \in ROPlaces BY <2>2 DEF Publish, ROPlaces
    <3>2. pub' \in [Workers -> [at : ROPlaces, events : Nat]] /\ pub'[w].at = "idle"
          /\ \A v \in Workers \ {w} : pub'[v] = pub[v]
      BY <3>1, ROMoves
    <3>3. QED BY <1>0, <2>2, <3>2, ROPublishes DEF Publish, ROTyped
  <2>3. CASE PublishFails(w)
    <3>1. CASE ch = 0 BY <2>3, <3>1 DEF PublishFails, ROInv, ROTyped, OneSetsUp, SettingUp
    <3>2. CASE ch # 0
      <4>1. ROGoto(w, "sleep") /\ "sleep" \in ROPlaces BY <2>3, <3>2 DEF PublishFails, ROPlaces
      <4>2. pub' \in [Workers -> [at : ROPlaces, events : Nat]] /\ pub'[w].at = "sleep"
            /\ \A v \in Workers \ {w} : pub'[v] = pub[v]
        BY <4>1, ROMoves
      <4>3. QED BY <1>0, <2>3, <3>2, <4>2, ROPublishes DEF PublishFails, ROTyped
    <3>3. QED BY <3>1, <3>2
  <2>4. CASE RORetry(w)
    <3>1. ROGoto(w, "close") /\ "close" \in ROPlaces BY <2>4 DEF RORetry, ROPlaces
    <3>2. pub' \in [Workers -> [at : ROPlaces, events : Nat]] /\ pub'[w].at = "close"
          /\ \A v \in Workers \ {w} : pub'[v] = pub[v]
      BY <3>1, ROMoves
    <3>3. QED BY <1>0, <2>4, <3>2, ROPublishes DEF RORetry, ROTyped
  <2>5. QED BY <1>1, <2>1, <2>2, <2>3, <2>4 DEF Publishing
\* Who ends a setup.
<1>2. ASSUME NEW w \in Workers, SetupEnds(w)
      PROVE  /\ pub' \in [Workers -> [at : ROPlaces, events : Nat]]
             /\ pub'[w].at \in {"idle", "publish"} /\ \A v \in Workers \ {w} : pub'[v] = pub[v]
             /\ stopping' # "returned"
  <2>1. CASE w = "start"
    <3>1. ROGoto(w, "idle") /\ "idle" \in ROPlaces /\ stopping' = "run" BY <1>2, <2>1 DEF SetupEnds, ROPlaces
    <3>2. QED BY <3>1, ROMoves
  <2>2. CASE w # "start"
    <3>1. ROGoto(w, "publish") /\ "publish" \in ROPlaces /\ stopping' = stopping BY <1>2, <2>2 DEF SetupEnds, ROPlaces
    <3>2. QED BY <1>0, <3>1, ROMoves
  <2>3. QED BY <2>1, <2>2
<1>3. ASSUME NEW w \in Workers, Connecting(w) PROVE ROInv'
  <2>1. CASE ROClose(w)
    <3>1. ROGoto(w, "dial") /\ "dial" \in ROPlaces BY <2>1 DEF ROClose, ROPlaces
    <3>2. pub' \in [Workers -> [at : ROPlaces, events : Nat]] /\ pub'[w].at = "dial"
          /\ \A v \in Workers \ {w} : pub'[v] = pub[v]
      BY <3>1, ROMoves
    <3>3. conns'.dialed = conns.dialed /\ conns'.open = conns.open \ {conn}
          /\ conns' \in [dialed : 0..MaxConns, open : SUBSET (1..MaxConns)]
      BY <2>1 DEF ROClose, ROTyped
    <3>4. conn' = conn /\ ch' = ch /\ stopping' = stopping BY <2>1 DEF ROClose
    <3>5. ROTyped' BY <3>2, <3>3, <3>4 DEF ROTyped
    <3>6. ASSUME ~mingled' PROVE OneSetsUp'
      <4>1. ~mingled /\ \A v \in Workers \ {w} : pub[v].at \notin Setups BY <2>1, <3>6 DEF ROClose
      <4>2. SettingUp' \subseteq {w} BY <3>2, <4>1 DEF SettingUp, Setups
      <4>3. conns'.open = {} BY <3>3, <4>1 DEF ROInv, OneSetsUp
      <4>4. QED BY <4>2, <4>3 DEF OneSetsUp
    <3>7. QED BY <3>5, <3>6 DEF ROInv
  <2>2. CASE RODial(w)
    <3>1. pub[w].at = "dial" /\ conns.dialed < MaxConns /\ ROGoto(w, "channel") /\ "channel" \in ROPlaces
      BY <2>2 DEF RODial, ROPlaces
    <3>2. pub' \in [Workers -> [at : ROPlaces, events : Nat]] /\ pub'[w].at = "channel"
          /\ \A v \in Workers \ {w} : pub'[v] = pub[v]
      BY <3>1, ROMoves
    <3>3. conns'.dialed = conns.dialed + 1 /\ conns'.open = conns.open \cup {conns.dialed + 1}
          /\ conns' \in [dialed : 0..MaxConns, open : SUBSET (1..MaxConns)]
      BY <2>2, <3>1 DEF RODial
    <3>4. conn' = conns.dialed + 1 /\ ch' = ch /\ stopping' = stopping /\ mingled' = mingled BY <2>2 DEF RODial
    <3>5. ROTyped' BY <3>2, <3>3, <3>4 DEF ROTyped
    <3>6. ASSUME ~mingled' PROVE OneSetsUp'
      <4>1. OneSetsUp /\ w \in SettingUp BY <3>1, <3>4, <3>6 DEF ROInv, SettingUp
      <4>2. SettingUp' \subseteq SettingUp BY <3>2, <4>1 DEF SettingUp
      <4>3. conns'.open = {conn'} BY <3>1, <3>3, <3>4, <4>1 DEF OneSetsUp
      <4>4. \A v \in Workers : pub'[v].at # "dial"
        BY <3>2, <4>1 DEF OneSetsUp, SettingUp
      <4>5. QED BY <1>0, <3>4, <4>1, <4>2, <4>3, <4>4 DEF OneSetsUp
    <3>7. QED BY <3>5, <3>6 DEF ROInv
  <2>3. CASE RODialFails(w)
    <3>1. pub[w].at = "dial" /\ SetupEnds(w) /\ conn' = 0 /\ UNCHANGED <<conns, ch, mingled>> BY <2>3 DEF RODialFails
    <3>2. /\ pub' \in [Workers -> [at : ROPlaces, events : Nat]]
          /\ pub'[w].at \in {"idle", "publish"} /\ \A v \in Workers \ {w} : pub'[v] = pub[v]
          /\ stopping' # "returned"
      BY <1>2, <3>1
    <3>3. ROTyped' BY <3>1, <3>2 DEF ROTyped
    <3>4. SettingUp' \subseteq SettingUp BY <3>2 DEF SettingUp
    <3>5. ~mingled => conns.open = {} BY <3>1 DEF ROInv, OneSetsUp
    <3>6. QED BY <3>1, <3>3, <3>4, <3>5 DEF ROInv, OneSetsUp
  <2>4. CASE ROChannel(w)
    <3>1. CASE conn = 0 BY <2>4, <3>1 DEF ROChannel, ROInv, ROTyped, OneSetsUp, SettingUp
    <3>2. CASE conn # 0
      <4>1. SetupEnds(w) /\ ch' \in {0} \cup (conns.open \cap {conn}) /\ UNCHANGED <<conns, conn, mingled>>
        BY <2>4, <3>2 DEF ROChannel
      <4>2. ch' \in 0..conns.dialed BY <4>1 DEF ROTyped
      <4>3. /\ pub' \in [Workers -> [at : ROPlaces, events : Nat]]
            /\ pub'[w].at \in {"idle", "publish"} /\ \A v \in Workers \ {w} : pub'[v] = pub[v]
            /\ stopping' # "returned"
        BY <1>2, <4>1
      <4>4. QED BY <4>1, <4>2, <4>3, ROPublishes
    <3>3. QED BY <3>1, <3>2
  <2>5. QED BY <1>3, <2>1, <2>2, <2>3, <2>4 DEF Connecting
<1>4. CASE Lose
  <2>1. PICK c \in conns.open : conns' = [conns EXCEPT !.open = @ \ {c}] BY <1>4 DEF Lose
  <2>2. conns'.dialed = conns.dialed /\ conns'.open = conns.open \ {c}
        /\ conns' \in [dialed : 0..MaxConns, open : SUBSET (1..MaxConns)]
    BY <2>1 DEF ROTyped
  <2>3. ROTyped' BY <1>4, <2>2 DEF Lose, ROTyped
  <2>4. QED BY <1>4, <2>2, <2>3 DEF Lose, ROInv, OneSetsUp, SettingUp
<1>5. CASE ROStop
  <2>1. conns'.dialed = conns.dialed /\ conns'.open = conns.open \ {conn}
        /\ conns' \in [dialed : 0..MaxConns, open : SUBSET (1..MaxConns)]
    BY <1>5 DEF ROStop, ROTyped
  <2>2. ROTyped' BY <1>5, <2>1 DEF ROStop, ROTyped
  <2>3. ~mingled => conns'.open = {} BY <2>1 DEF ROInv, OneSetsUp
  <2>4. QED BY <1>5, <2>1, <2>2, <2>3 DEF ROStop, ROInv, OneSetsUp, SettingUp
<1>6. QED BY <1>1, <1>3, <1>4, <1>5 DEF RONext

LEMMA ROSounds == ASSUME ROInv PROVE ROTypeOK /\ OneConnection
<1>1. OneConnection BY DEF ROInv, OneSetsUp, OneConnection
<1>2. \A w \in Workers : pub[w].at \in {"idle", "publish", "sleep"} \cup Setups
  BY DEF ROInv, ROTyped, ROPlaces, Setups
<1>3. ROTypeOK BY <1>2 DEF ROInv, ROTyped, ROTypeOK
<1>4. QED BY <1>1, <1>3

(***************************************************************************)
(* The tcp output.                                                         *)
(***************************************************************************)
TOPlaces == {"idle", "dial", "options", "deadline", "write", "close", "forget"}
TOTyped ==
  /\ net \in [dialed : 0..MaxDials, open : SUBSET (1..MaxDials), troubles : 0..MaxTroubles]
  /\ \A c \in net.open : c <= net.dialed
  /\ tcpConn \in NilConn..net.dialed
  /\ sender \in [Senders -> [at : TOPlaces, events : Nat]]
  /\ phase \in {"starting", "run", "stopped", "crash"}
  /\ tangled \in BOOLEAN /\ tally \in [received : Nat, written : Nat]

Outside == phase \in {"starting", "stopped"} => \A w \in Senders : sender[w].at = "idle"
\* What a worker is about to do agrees with p.conn.
AgreesWithConn(w) ==
  /\ sender[w].at = "dial" => tcpConn = NoConn
  /\ sender[w].at \in {"options", "deadline", "write"} => tcpConn # NoConn
  /\ sender[w].at \in {"close", "forget"} => Usable /\ tcpConn \notin net.open
\* An event that is neither written nor on its way, and a connection lost that
\* no worker has met yet, had a trouble each.
Busy == {w \in Senders : sender[w].at # "idle"}
ConnDead == IF Usable /\ tcpConn \notin net.open /\ phase # "stopped" THEN 1 ELSE 0
TroublesCounted == tally.received + ConnDead <= net.troubles + tally.written + Cardinality(Busy)
OneAtATime ==
  /\ net.open \subseteq {tcpConn}
  /\ phase = "starting" => tcpConn = NoConn
  /\ phase = "stopped" => net.open = {}
  /\ phase = "crash" => tcpConn = NilConn
  /\ \A w \in Senders : AgreesWithConn(w)
  /\ TroublesCounted
TOInv == TOTyped /\ Outside /\ (~tangled => OneAtATime)

LEMMA TOStarts == ASSUME OutputBounds, TOInit PROVE TOInv
<1>1. MaxDials \in Nat /\ MaxTroubles \in Nat BY DEF OutputBounds
<1>2. \A w \in Senders : sender[w].at = "idle" BY DEF TOInit
<1>3. net = [dialed |-> 0, open |-> {}, troubles |-> 0] /\ tcpConn = NoConn /\ phase = "starting"
      /\ tally = [received |-> 0, written |-> 0]
  BY DEF TOInit
<1>4. sender \in [Senders -> [at : TOPlaces, events : Nat]] BY DEF TOInit, TOPlaces
<1>5. TOTyped
  <2>1. net \in [dialed : 0..MaxDials, open : SUBSET (1..MaxDials), troubles : 0..MaxTroubles]
    BY <1>1, <1>3
  <2>2. net.dialed = 0 /\ net.open = {} BY <1>3
  <2>3. tcpConn \in NilConn..net.dialed BY <1>3, <2>2 DEF NoConn, NilConn
  <2>4. tally \in [received : Nat, written : Nat] BY <1>3
  <2>5. QED BY <1>3, <1>4, <2>1, <2>2, <2>3, <2>4 DEF TOInit, TOTyped
<1>6. Busy = {} BY <1>2 DEF Busy
<1>7. Cardinality(Busy) = 0 BY <1>6, FS_EmptySet
<1>8. TroublesCounted BY <1>3, <1>7 DEF TroublesCounted, ConnDead, Usable
<1>9. \A w \in Senders : AgreesWithConn(w) BY <1>2 DEF AgreesWithConn
<1>10. QED BY <1>2, <1>3, <1>5, <1>8, <1>9 DEF TOInv, Outside, OneAtATime

\* A worker goes from one place to another, and the others stay.
LEMMA TOMoves ==
  ASSUME TOTyped, NEW w \in Senders, NEW at \in TOPlaces, TOGoto(w, at)
  PROVE  /\ sender' \in [Senders -> [at : TOPlaces, events : Nat]]
         /\ sender'[w].at = at /\ \A v \in Senders \ {w} : sender'[v] = sender[v]
<1>1. sender \in [Senders -> [at : TOPlaces, events : Nat]] BY DEF TOTyped
<1>2. sender[w] \in [at : TOPlaces, events : Nat] BY <1>1
<1>3. sender' = [sender EXCEPT ![w] = [sender[w] EXCEPT !.at = at]] BY DEF TOGoto
<1>4. [sender[w] EXCEPT !.at = at] \in [at : TOPlaces, events : Nat] /\ [sender[w] EXCEPT !.at = at].at = at BY <1>2
<1>5. QED BY <1>1, <1>3, <1>4

\* How many are busy when one worker moves.
LEMMA BusyMoves ==
  ASSUME OutputBounds, NEW w \in Senders, \A v \in Senders \ {w} : sender'[v] = sender[v]
  PROVE  /\ Cardinality(Busy) \in Nat /\ Cardinality(Busy') \in Nat
         /\ (sender[w].at = "idle") = (sender'[w].at = "idle") => Cardinality(Busy') = Cardinality(Busy)
         /\ sender[w].at = "idle" /\ sender'[w].at # "idle" => Cardinality(Busy') = Cardinality(Busy) + 1
         /\ sender[w].at # "idle" /\ sender'[w].at = "idle" => Cardinality(Busy') + 1 = Cardinality(Busy)
<1>1. IsFiniteSet(Senders) BY DEF OutputBounds
<1>2. Busy \subseteq Senders /\ Busy' \subseteq Senders BY DEF Busy
<1>3. IsFiniteSet(Busy) /\ IsFiniteSet(Busy') BY <1>1, <1>2, FS_Subset
<1>4. Cardinality(Busy) \in Nat /\ Cardinality(Busy') \in Nat BY <1>3, FS_CardinalityType
<1>5. ASSUME (sender[w].at = "idle") = (sender'[w].at = "idle") PROVE Busy' = Busy BY <1>5 DEF Busy
<1>6. ASSUME sender[w].at = "idle", sender'[w].at # "idle" PROVE Cardinality(Busy') = Cardinality(Busy) + 1
  <2>1. Busy' = Busy \cup {w} /\ w \notin Busy BY <1>6 DEF Busy
  <2>2. QED BY <1>3, <2>1, FS_AddElement
<1>7. ASSUME sender[w].at # "idle", sender'[w].at = "idle" PROVE Cardinality(Busy') + 1 = Cardinality(Busy)
  <2>1. Busy = Busy' \cup {w} /\ w \notin Busy' BY <1>7 DEF Busy
  <2>2. QED BY <1>3, <2>1, FS_AddElement
<1>8. QED BY <1>4, <1>5, <1>6, <1>7

\* The types of the rest when one worker moves.
LEMMA TOTypes ==
  ASSUME TOTyped, sender' \in [Senders -> [at : TOPlaces, events : Nat]],
         net' = net, tcpConn' = tcpConn, phase' \in {"starting", "run", "stopped", "crash"},
         tangled' \in BOOLEAN, tally' \in [received : Nat, written : Nat]
  PROVE  TOTyped'
BY DEF TOTyped

\* The program ends at a nil connection.
LEMMA TOCrashes ==
  ASSUME TOInv, TOCrash, ~tangled => tcpConn = NilConn
  PROVE  TOInv'
<1>1. TOTyped' BY DEF TOInv, TOTyped, TOCrash
<1>2. Outside' BY DEF Outside, TOCrash
<1>3. ASSUME ~tangled' PROVE OneAtATime'
  <2>1. OneAtATime /\ ~Usable BY <1>3 DEF TOInv, TOCrash, Usable
  <2>2. net' = net /\ tcpConn' = tcpConn /\ sender' = sender /\ phase' = "crash" /\ tally' = tally BY DEF TOCrash
  <2>3. TroublesCounted'
    <3>1. ~Usable' /\ Busy' = Busy BY <2>1, <2>2 DEF Usable, Busy
    <3>2. ConnDead' = 0 /\ ConnDead = 0 BY <2>1, <3>1 DEF ConnDead
    <3>3. QED BY <2>1, <2>2, <3>1, <3>2 DEF OneAtATime, TroublesCounted
  <2>4. \A v \in Senders : AgreesWithConn(v)' BY <2>1, <2>2 DEF OneAtATime, AgreesWithConn, Usable
  <2>5. tcpConn = NilConn BY <1>3 DEF TOCrash
  <2>6. QED BY <2>1, <2>2, <2>3, <2>4, <2>5 DEF OneAtATime
<1>4. QED BY <1>1, <1>2, <1>3 DEF TOInv

LEMMA DialTypes ==
  ASSUME OutputBounds, TOTyped
  PROVE  /\ Dialed =>
              /\ net' \in [dialed : 0..MaxDials, open : SUBSET (1..MaxDials), troubles : 0..MaxTroubles]
              /\ net'.dialed = net.dialed + 1 /\ net'.open = net.open \cup {net.dialed + 1}
              /\ net'.troubles = net.troubles /\ tcpConn' = net.dialed + 1 /\ net.dialed \in Nat
         /\ DialFailed =>
              /\ net' \in [dialed : 0..MaxDials, open : SUBSET (1..MaxDials), troubles : 0..MaxTroubles]
              /\ net'.dialed = net.dialed /\ net'.open = net.open
              /\ net'.troubles = net.troubles + 1 /\ tcpConn' \in {tcpConn, NilConn}
<1> MaxDials \in Nat /\ MaxTroubles \in Nat BY DEF OutputBounds
<1>1. ASSUME Dialed
      PROVE  /\ net' \in [dialed : 0..MaxDials, open : SUBSET (1..MaxDials), troubles : 0..MaxTroubles]
             /\ net'.dialed = net.dialed + 1 /\ net'.open = net.open \cup {net.dialed + 1}
             /\ net'.troubles = net.troubles /\ tcpConn' = net.dialed + 1 /\ net.dialed \in Nat
  <2>1. net.dialed \in 0..MaxDials /\ net.open \in SUBSET (1..MaxDials) /\ net.troubles \in 0..MaxTroubles
    BY DEF TOTyped
  <2>2. net.dialed + 1 \in 0..MaxDials /\ net.open \cup {net.dialed + 1} \in SUBSET (1..MaxDials)
    BY <1>1, <2>1 DEF Dialed
  <2>3. net \in [dialed : 0..MaxDials, open : SUBSET (1..MaxDials), troubles : 0..MaxTroubles] BY DEF TOTyped
  <2>4. net' = [net EXCEPT !.dialed = net.dialed + 1, !.open = net.open \cup {net.dialed + 1}]
    BY <1>1 DEF Dialed
  <2>5. net' = [dialed |-> net.dialed + 1, open |-> net.open \cup {net.dialed + 1}, troubles |-> net.troubles]
    BY <2>3, <2>4
  <2>6. tcpConn' = net.dialed + 1 BY <1>1 DEF Dialed
  <2>7. QED BY <2>1, <2>2, <2>5, <2>6
<1>2. ASSUME DialFailed
      PROVE  /\ net' \in [dialed : 0..MaxDials, open : SUBSET (1..MaxDials), troubles : 0..MaxTroubles]
             /\ net'.dialed = net.dialed /\ net'.open = net.open
             /\ net'.troubles = net.troubles + 1 /\ tcpConn' \in {tcpConn, NilConn}
  BY <1>2 DEF DialFailed, TOTyped
<1>3. QED BY <1>1, <1>2

LEMMA TOConnects == ASSUME OutputBounds, TOInv, TOStart PROVE TOInv'
<1> MaxDials \in Nat /\ MaxTroubles \in Nat BY DEF OutputBounds
<1> TOTyped BY DEF TOInv
<1>1. phase = "starting" /\ phase' = "run" /\ sender' = sender /\ tally' = tally /\ tangled' = tangled
  BY DEF TOStart
<1>2. Outside' /\ \A w \in Senders : sender[w].at = "idle" BY <1>1 DEF TOInv, Outside
<1>3. ~tangled => TroublesCounted /\ tcpConn = NoConn /\ net.open = {}
  <2>1. net.open \subseteq 1..MaxDials BY DEF TOTyped
  <2>2. QED BY <1>1, <2>1 DEF TOInv, OneAtATime, NoConn
<1>4. Busy' = Busy BY <1>1 DEF Busy
<1>5. \A w \in Senders : AgreesWithConn(w)' BY <1>1, <1>2 DEF AgreesWithConn
<1>6. CASE Dialed
  <2>1. /\ net' \in [dialed : 0..MaxDials, open : SUBSET (1..MaxDials), troubles : 0..MaxTroubles]
        /\ net'.dialed = net.dialed + 1 /\ net'.open = net.open \cup {net.dialed + 1}
        /\ net'.troubles = net.troubles /\ tcpConn' = net.dialed + 1 /\ net.dialed \in Nat
    BY <1>6, DialTypes
  <2>2. TOTyped' BY <1>1, <2>1 DEF TOTyped, NilConn
  <2>3. ASSUME ~tangled PROVE TroublesCounted'
    <3>1. ConnDead' = 0 BY <2>1 DEF ConnDead
    <3>2. ConnDead = 0 BY <1>3, <2>3 DEF ConnDead, Usable
    <3>3. QED BY <1>1, <1>3, <1>4, <2>1, <2>3, <3>1, <3>2 DEF TroublesCounted
  <2>4. QED BY <1>1, <1>2, <1>3, <1>5, <2>1, <2>2, <2>3 DEF TOInv, OneAtATime
<1>7. CASE DialFailed
  <2>1. /\ net' \in [dialed : 0..MaxDials, open : SUBSET (1..MaxDials), troubles : 0..MaxTroubles]
        /\ net'.dialed = net.dialed /\ net'.open = net.open
        /\ net'.troubles = net.troubles + 1 /\ tcpConn' \in {tcpConn, NilConn}
    BY <1>7, DialTypes
  <2>2. TOTyped' BY <1>1, <2>1 DEF TOTyped, NilConn
  <2>3. ASSUME ~tangled PROVE TroublesCounted'
    <3>1. ConnDead' = 0 BY <1>3, <2>1, <2>3 DEF ConnDead, Usable
    <3>2. ConnDead = 0 BY <1>3, <2>3 DEF ConnDead, Usable
    <3>3. Cardinality(Busy) \in Nat
      <4>1. Busy = {} BY <1>2 DEF Busy
      <4>2. QED BY <4>1, FS_EmptySet
    <3>4. tally.received \in Nat /\ tally.written \in Nat /\ net.troubles \in Nat BY DEF TOTyped
    <3>5. tally.received + 0 <= net.troubles + tally.written + Cardinality(Busy)
      BY <1>3, <2>3, <3>2 DEF TroublesCounted
    <3>6. tally.received + 0 <= (net.troubles + 1) + tally.written + Cardinality(Busy) BY <3>3, <3>4, <3>5
    <3>7. QED BY <1>1, <1>4, <2>1, <3>1, <3>6 DEF TroublesCounted
  <2>4. QED BY <1>1, <1>2, <1>3, <1>5, <2>1, <2>2, <2>3 DEF TOInv, OneAtATime
<1>8. QED BY <1>6, <1>7 DEF TOStart

\* A worker takes an event, and dials first if there is no connection.
LEMMA TOReceives == ASSUME OutputBounds, TOInv, NEW w \in Senders, TOReceive(w) PROVE TOInv'
<1> TOTyped BY DEF TOInv
<1> DEFINE at == IF tcpConn = NoConn THEN "dial" ELSE "deadline"
<1>1. phase = "run" /\ sender[w].at = "idle" /\ UNCHANGED <<tcpConn, net, phase, tangled>> BY DEF TOReceive
<1>2. tally' = [tally EXCEPT !.received = @ + 1] BY DEF TOReceive
<1>3. sender' \in [Senders -> [at : TOPlaces, events : Nat]] /\ sender'[w].at = at
      /\ \A v \in Senders \ {w} : sender'[v] = sender[v]
  <2> DEFINE goes == [sender[w] EXCEPT !.at = at]
             takes == [goes EXCEPT !.events = @ + 1]
  <2>1. sender[w] \in [at : TOPlaces, events : Nat] /\ at \in TOPlaces BY DEF TOTyped, TOPlaces
  <2>2. goes \in [at : TOPlaces, events : Nat] /\ goes.at = at BY <2>1
  <2>3. takes \in [at : TOPlaces, events : Nat] /\ takes.at = at
    <3>1. goes.events + 1 \in Nat BY <2>2
    <3> HIDE DEF goes
    <3>2. QED BY <2>2, <3>1
  <2>4. sender' = [sender EXCEPT ![w] = takes] BY DEF TOReceive
  <2> HIDE DEF goes, takes
  <2>5. QED BY <2>3, <2>4 DEF TOTyped
<1>4. tally.received \in Nat /\ tally.written \in Nat /\ net.troubles \in Nat
      /\ tally' \in [received : Nat, written : Nat]
      /\ tally'.received = tally.received + 1 /\ tally'.written = tally.written
  BY <1>2 DEF TOTyped
<1>5. TOTyped' BY <1>1, <1>3, <1>4, TOTypes DEF TOTyped
<1>6. Outside' BY <1>1 DEF Outside
<1>7. ASSUME ~tangled' PROVE OneAtATime'
  <2>1. OneAtATime BY <1>1, <1>7 DEF TOInv
  <2>2. AgreesWithConn(w)' BY <1>1, <1>3 DEF AgreesWithConn
  <2>3. \A v \in Senders \ {w} : AgreesWithConn(v)' BY <1>1, <1>3, <2>1 DEF OneAtATime, AgreesWithConn, Usable
  <2>4. TroublesCounted'
    <3>1. Cardinality(Busy) \in Nat /\ Cardinality(Busy') = Cardinality(Busy) + 1 BY <1>1, <1>3, BusyMoves
    <3>2. ConnDead' = ConnDead /\ ConnDead \in {0, 1} BY <1>1 DEF ConnDead, Usable
    <3>3. QED BY <1>1, <1>4, <2>1, <3>1, <3>2 DEF OneAtATime, TroublesCounted
  <2>5. QED BY <1>1, <2>1, <2>2, <2>3, <2>4 DEF OneAtATime
<1>8. QED BY <1>5, <1>6, <1>7 DEF TOInv

\* A worker goes on with the connection as it is.
LEMMA TOGoesOn ==
  ASSUME OutputBounds, TOInv, NEW w \in Senders, NEW at \in TOPlaces, TOGoto(w, at),
         sender[w].at # "idle", UNCHANGED <<tcpConn, net, phase, tangled>>,
         tally' = IF at = "idle" THEN [tally EXCEPT !.written = @ + 1] ELSE tally,
         at \in {"idle", "deadline", "write", "close"}, at = "close" => tcpConn \notin net.open, Usable
  PROVE  TOInv'
<1> TOTyped BY DEF TOInv
<1>1. sender' \in [Senders -> [at : TOPlaces, events : Nat]] /\ sender'[w].at = at
      /\ \A v \in Senders \ {w} : sender'[v] = sender[v]
  BY TOMoves
<1>2. tally.received \in Nat /\ tally.written \in Nat /\ net.troubles \in Nat
      /\ tally' \in [received : Nat, written : Nat]
      /\ tally'.received = tally.received
      /\ tally'.written = tally.written + (IF at = "idle" THEN 1 ELSE 0)
  BY DEF TOTyped
<1>3. TOTyped' BY <1>1, <1>2, TOTypes DEF TOTyped
<1>4. Outside' BY DEF TOInv, Outside
<1>5. ASSUME ~tangled' PROVE OneAtATime'
  <2>1. OneAtATime BY <1>5 DEF TOInv
  <2>2. AgreesWithConn(w)' BY <1>1 DEF AgreesWithConn, Usable
  <2>3. \A v \in Senders \ {w} : AgreesWithConn(v)' BY <1>1, <2>1 DEF OneAtATime, AgreesWithConn, Usable
  <2>4. TroublesCounted'
    <3>1. Cardinality(Busy) \in Nat /\ Cardinality(Busy') \in Nat
          /\ Cardinality(Busy') = Cardinality(Busy) - (IF at = "idle" THEN 1 ELSE 0)
      BY <1>1, BusyMoves
    <3>2. ConnDead' = ConnDead /\ ConnDead \in {0, 1} BY DEF ConnDead, Usable
    <3>3. QED BY <1>2, <2>1, <3>1, <3>2 DEF OneAtATime, TroublesCounted
  <2>5. QED BY <2>1, <2>2, <2>3, <2>4 DEF OneAtATime
<1>6. QED BY <1>3, <1>4, <1>5 DEF TOInv

\* Only the one that sends dials, unless they are tangled.
LEMMA TODials == ASSUME OutputBounds, TOInv, NEW w \in Senders, Dial(w) PROVE TOInv'
<1> TOTyped BY DEF TOInv
<1>1. sender[w].at = "dial" /\ UNCHANGED <<phase, tally>> /\ tangled' = (tangled \/ Sending(w)) BY DEF Dial
<1>2. tangled' \in BOOLEAN /\ (~tangled' => ~tangled /\ \A v \in Senders \ {w} : sender[v].at = "idle")
  BY <1>1 DEF Sending, TOTyped
<1>3. phase \notin {"starting", "stopped"} BY <1>1 DEF TOInv, Outside
<1>4. Outside' BY <1>1, <1>3 DEF Outside
<1>5. ASSUME ~tangled'
      PROVE  OneAtATime /\ tcpConn = NoConn /\ net.open = {} /\ ConnDead = 0 /\ phase # "crash"
  <2>1. OneAtATime BY <1>2, <1>5 DEF TOInv
  <2>2. tcpConn = NoConn BY <1>1, <2>1 DEF OneAtATime, AgreesWithConn
  <2>3. net.open = {}
    <3>1. net.open \subseteq 1..MaxDials BY DEF TOTyped
    <3>2. QED BY <2>1, <2>2, <3>1 DEF OneAtATime, NoConn
  <2>4. QED BY <2>1, <2>2, <2>3 DEF OneAtATime, ConnDead, Usable, NoConn, NilConn
<1>6. tally.received \in Nat /\ tally.written \in Nat /\ net.troubles \in Nat BY DEF TOTyped
<1>7. CASE Dialed /\ TOGoto(w, "options")
  <2>1. /\ net' \in [dialed : 0..MaxDials, open : SUBSET (1..MaxDials), troubles : 0..MaxTroubles]
        /\ net'.dialed = net.dialed + 1 /\ net'.open = net.open \cup {net.dialed + 1}
        /\ net'.troubles = net.troubles /\ tcpConn' = net.dialed + 1 /\ net.dialed \in Nat
    BY <1>7, DialTypes
  <2>2. sender' \in [Senders -> [at : TOPlaces, events : Nat]] /\ sender'[w].at = "options"
        /\ \A v \in Senders \ {w} : sender'[v] = sender[v]
    <3>1. "options" \in TOPlaces BY DEF TOPlaces
    <3>2. QED BY <1>7, <3>1, TOMoves
  <2>3. TOTyped' BY <1>1, <1>2, <2>1, <2>2 DEF TOTyped, NilConn
  <2>4. ASSUME ~tangled' PROVE OneAtATime'
    <3>1. Cardinality(Busy') = Cardinality(Busy) BY <1>1, <2>2, BusyMoves
    <3>2. ConnDead' = 0 BY <2>1 DEF ConnDead
    <3>3. TroublesCounted' BY <1>1, <1>5, <2>1, <2>4, <3>1, <3>2 DEF OneAtATime, TroublesCounted
    <3>4. \A v \in Senders : AgreesWithConn(v)'
      BY <1>2, <2>1, <2>2, <2>4 DEF AgreesWithConn, NoConn
    <3>5. net'.open \subseteq {tcpConn'} BY <1>5, <2>1, <2>4
    <3>6. QED BY <1>1, <1>3, <1>5, <2>4, <3>3, <3>4, <3>5 DEF OneAtATime
  <2>5. QED BY <1>4, <2>3, <2>4 DEF TOInv
<1>8. CASE DialFailed /\ TOGoto(w, "idle")
  <2>1. /\ net' \in [dialed : 0..MaxDials, open : SUBSET (1..MaxDials), troubles : 0..MaxTroubles]
        /\ net'.dialed = net.dialed /\ net'.open = net.open
        /\ net'.troubles = net.troubles + 1 /\ tcpConn' \in {tcpConn, NilConn}
    BY <1>8, DialTypes
  <2>2. sender' \in [Senders -> [at : TOPlaces, events : Nat]] /\ sender'[w].at = "idle"
        /\ \A v \in Senders \ {w} : sender'[v] = sender[v]
    <3>1. "idle" \in TOPlaces BY DEF TOPlaces
    <3>2. QED BY <1>8, <3>1, TOMoves
  <2>3. TOTyped' BY <1>1, <1>2, <2>1, <2>2 DEF TOTyped, NilConn
  <2>4. ASSUME ~tangled' PROVE OneAtATime'
    <3>1. Cardinality(Busy') + 1 = Cardinality(Busy) /\ Cardinality(Busy) \in Nat /\ Cardinality(Busy') \in Nat
      BY <1>1, <2>2, BusyMoves
    <3>2. ConnDead' = 0 BY <1>5, <2>1, <2>4 DEF ConnDead, Usable, NoConn, NilConn
    <3>3. TroublesCounted
      BY <1>5, <2>4 DEF OneAtATime
    <3>4. TroublesCounted' BY <1>1, <1>5, <1>6, <2>1, <2>4, <3>1, <3>2, <3>3 DEF TroublesCounted
    <3>5. \A v \in Senders : AgreesWithConn(v)' BY <1>2, <2>2, <2>4 DEF AgreesWithConn
    <3>6. QED BY <1>1, <1>3, <1>5, <2>1, <2>4, <3>4, <3>5 DEF OneAtATime
  <2>5. QED BY <1>4, <2>3, <2>4 DEF TOInv
<1>9. QED BY <1>7, <1>8 DEF Dial

\* The connection it closes was lost before.
LEMMA TOCloses == ASSUME OutputBounds, TOInv, NEW w \in Senders, CloseConn(w), Usable PROVE TOInv'
<1> TOTyped BY DEF TOInv
<1>1. /\ sender[w].at = "close" /\ UNCHANGED <<tcpConn, phase, tally>> /\ TOGoto(w, "forget")
      /\ net' = [net EXCEPT !.open = @ \ {tcpConn}] /\ tangled' = (tangled \/ Sending(w))
  BY DEF CloseConn
<1>2. tangled' \in BOOLEAN /\ (~tangled' => ~tangled /\ \A v \in Senders \ {w} : sender[v].at = "idle")
  BY <1>1 DEF Sending, TOTyped
<1>3. net' \in [dialed : 0..MaxDials, open : SUBSET (1..MaxDials), troubles : 0..MaxTroubles]
      /\ net'.dialed = net.dialed /\ net'.open = net.open \ {tcpConn} /\ net'.troubles = net.troubles
  BY <1>1 DEF TOTyped
<1>4. sender' \in [Senders -> [at : TOPlaces, events : Nat]] /\ sender'[w].at = "forget"
      /\ \A v \in Senders \ {w} : sender'[v] = sender[v]
  <2>1. "forget" \in TOPlaces BY DEF TOPlaces
  <2>2. QED BY <1>1, <2>1, TOMoves
<1>5. TOTyped' BY <1>1, <1>2, <1>3, <1>4 DEF TOTyped
<1>6. Outside' BY <1>1 DEF TOInv, Outside
<1>7. ASSUME ~tangled' PROVE OneAtATime'
  <2>1. OneAtATime /\ tcpConn \notin net.open BY <1>1, <1>2, <1>7 DEF TOInv, OneAtATime, AgreesWithConn
  <2>2. net'.open = net.open BY <1>3, <2>1
  <2>3. Cardinality(Busy') = Cardinality(Busy) BY <1>1, <1>4, BusyMoves
  <2>4. ConnDead' = ConnDead BY <1>1, <2>2 DEF ConnDead, Usable
  <2>5. TroublesCounted' BY <1>1, <1>3, <2>1, <2>3, <2>4 DEF OneAtATime, TroublesCounted
  <2>6. \A v \in Senders : AgreesWithConn(v)'
    BY <1>1, <1>2, <1>4, <1>7, <2>1, <2>2 DEF AgreesWithConn, Usable
  <2>7. QED BY <1>1, <2>1, <2>2, <2>5, <2>6 DEF OneAtATime
<1>8. QED BY <1>5, <1>6, <1>7 DEF TOInv

\* With the connection, its trouble is forgotten, and the event it cost.
LEMMA TOForgets == ASSUME OutputBounds, TOInv, NEW w \in Senders, ForgetConn(w) PROVE TOInv'
<1> TOTyped BY DEF TOInv
<1>1. /\ sender[w].at = "forget" /\ UNCHANGED <<net, phase, tally>> /\ TOGoto(w, "idle")
      /\ tcpConn' = NoConn /\ tangled' = (tangled \/ Sending(w))
  BY DEF ForgetConn
<1>2. tangled' \in BOOLEAN /\ (~tangled' => ~tangled /\ \A v \in Senders \ {w} : sender[v].at = "idle")
  BY <1>1 DEF Sending, TOTyped
<1>3. sender' \in [Senders -> [at : TOPlaces, events : Nat]] /\ sender'[w].at = "idle"
      /\ \A v \in Senders \ {w} : sender'[v] = sender[v]
  <2>1. "idle" \in TOPlaces BY DEF TOPlaces
  <2>2. QED BY <1>1, <2>1, TOMoves
<1>4. NoConn \in NilConn..net.dialed BY DEF NoConn, NilConn, TOTyped
<1>5. TOTyped' BY <1>1, <1>2, <1>3, <1>4 DEF TOTyped
<1>6. phase \notin {"starting", "stopped"} BY <1>1 DEF TOInv, Outside
<1>7. Outside' BY <1>1, <1>6 DEF Outside
<1>8. ASSUME ~tangled' PROVE OneAtATime'
  <2>1. OneAtATime /\ Usable /\ tcpConn \notin net.open
    BY <1>1, <1>2, <1>8 DEF TOInv, OneAtATime, AgreesWithConn
  <2>2. net.open = {} BY <2>1 DEF OneAtATime
  <2>3. Cardinality(Busy') + 1 = Cardinality(Busy) /\ Cardinality(Busy') \in Nat BY <1>1, <1>3, BusyMoves
  <2>4. ConnDead = 1 /\ ConnDead' = 0 BY <1>1, <1>6, <2>1 DEF ConnDead, Usable
  <2>5. TroublesCounted'
    <3>1. tally.received \in Nat /\ tally.written \in Nat /\ net.troubles \in Nat BY DEF TOTyped
    <3>2. TroublesCounted BY <2>1 DEF OneAtATime
    <3>3. QED BY <1>1, <2>3, <2>4, <3>1, <3>2 DEF TroublesCounted
  <2>6. \A v \in Senders : AgreesWithConn(v)' BY <1>2, <1>3, <1>8 DEF AgreesWithConn
  <2>7. phase # "crash" BY <2>1 DEF OneAtATime, Usable
  <2>8. QED BY <1>1, <1>6, <2>2, <2>5, <2>6, <2>7 DEF OneAtATime
<1>9. QED BY <1>5, <1>7, <1>8 DEF TOInv

LEMMA TOLoses == ASSUME OutputBounds, TOInv, LoseConn PROVE TOInv'
<1> TOTyped BY DEF TOInv
<1>1. PICK c \in net.open : net' = [net EXCEPT !.open = @ \ {c}, !.troubles = @ + 1] BY DEF LoseConn
<1>2. UNCHANGED <<tcpConn, sender, phase, tally, tangled>> /\ net.troubles < MaxTroubles BY DEF LoseConn
<1>3. net' \in [dialed : 0..MaxDials, open : SUBSET (1..MaxDials), troubles : 0..MaxTroubles]
      /\ net'.dialed = net.dialed /\ net'.open = net.open \ {c} /\ net'.troubles = net.troubles + 1
  <2>1. MaxTroubles \in Nat BY DEF OutputBounds
  <2>2. net \in [dialed : 0..MaxDials, open : SUBSET (1..MaxDials), troubles : 0..MaxTroubles] BY DEF TOTyped
  <2>3. net' = [dialed |-> net.dialed, open |-> net.open \ {c}, troubles |-> net.troubles + 1] BY <1>1, <2>2
  <2>4. net.troubles + 1 \in 0..MaxTroubles BY <1>2, <2>1, <2>2
  <2>5. QED BY <2>2, <2>3, <2>4
<1>4. TOTyped' BY <1>2, <1>3 DEF TOTyped
<1>5. Outside' BY <1>2 DEF TOInv, Outside
<1>6. ASSUME ~tangled' PROVE OneAtATime'
  <2>1. OneAtATime BY <1>2, <1>6 DEF TOInv
  <2>2. Busy' = Busy BY <1>2 DEF Busy
  <2>3. ConnDead' \in {0, 1} /\ ConnDead = 0 BY <1>2, <2>1 DEF ConnDead, OneAtATime
  <2>4. Cardinality(Busy) \in Nat
    <3>1. IsFiniteSet(Busy)
      <4>1. IsFiniteSet(Senders) /\ Busy \subseteq Senders BY DEF OutputBounds, Busy
      <4>2. QED BY <4>1, FS_Subset
    <3>2. QED BY <3>1, FS_CardinalityType
  <2>5. TroublesCounted'
    <3>1. tally.received \in Nat /\ tally.written \in Nat /\ net.troubles \in Nat BY DEF TOTyped
    <3>2. TroublesCounted BY <2>1 DEF OneAtATime
    <3>3. QED BY <1>2, <1>3, <2>2, <2>3, <2>4, <3>1, <3>2 DEF TroublesCounted
  <2>6. \A v \in Senders : AgreesWithConn(v)'
    BY <1>2, <1>3, <2>1 DEF OneAtATime, AgreesWithConn, Usable
  <2>7. QED BY <1>2, <1>3, <2>1, <2>5, <2>6 DEF OneAtATime
<1>7. QED BY <1>4, <1>5, <1>6 DEF TOInv

LEMMA TOEnds == ASSUME OutputBounds, TOInv, TOStop PROVE TOInv'
<1> TOTyped BY DEF TOInv
<1>1. CASE tcpConn = NilConn BY <1>1, TOCrashes DEF TOStop
<1>2. CASE tcpConn # NilConn
  <2>1. /\ \A w \in Senders : sender[w].at = "idle"
        /\ phase' = "stopped" /\ net' = [net EXCEPT !.open = @ \ {tcpConn}]
        /\ UNCHANGED <<tcpConn, sender, tally, tangled>>
    BY <1>2 DEF TOStop
  <2>2. net' \in [dialed : 0..MaxDials, open : SUBSET (1..MaxDials), troubles : 0..MaxTroubles]
        /\ net'.dialed = net.dialed /\ net'.open = net.open \ {tcpConn} /\ net'.troubles = net.troubles
    BY <2>1 DEF TOTyped
  <2>3. TOTyped' BY <2>1, <2>2 DEF TOTyped
  <2>4. Outside' BY <2>1 DEF Outside
  <2>5. ASSUME ~tangled' PROVE OneAtATime'
    <3>1. OneAtATime BY <2>1, <2>5 DEF TOInv
    <3>2. net'.open = {} BY <2>2, <3>1 DEF OneAtATime
    <3>3. Busy = {} /\ Busy' = {} BY <2>1 DEF Busy
    <3>4. ConnDead \in {0, 1} /\ ConnDead' = 0 BY <2>1 DEF ConnDead
    <3>5. Cardinality(Busy) = 0 /\ Cardinality(Busy') = 0 BY <3>3, FS_EmptySet
    <3>6. TroublesCounted'
      <4>1. tally.received \in Nat /\ tally.written \in Nat /\ net.troubles \in Nat BY DEF TOTyped
      <4>2. TroublesCounted BY <3>1 DEF OneAtATime
      <4>3. QED BY <2>1, <2>2, <3>4, <3>5, <4>1, <4>2 DEF TroublesCounted
    <3>7. \A v \in Senders : AgreesWithConn(v)' BY <2>1 DEF AgreesWithConn
    <3>8. QED BY <2>1, <3>2, <3>6, <3>7 DEF OneAtATime
  <2>6. QED BY <2>3, <2>4, <2>5 DEF TOInv
<1>3. QED BY <1>1, <1>2

\* The connection is not of none where a worker calls it.
LEMMA TOUses ==
  ASSUME TOInv, NEW w \in Senders, sender[w].at \in {"options", "deadline", "write", "close"}, ~Usable
  PROVE  ~tangled => tcpConn = NilConn
BY DEF TOInv, OneAtATime, AgreesWithConn, Usable

LEMMA TOSteps == ASSUME OutputBounds, TOInv, [TONext]_tcpVars PROVE TOInv'
<1> SUFFICES ASSUME TONext PROVE TOInv'
  BY DEF tcpVars, TOInv, TOTyped, Outside, OneAtATime, AgreesWithConn, TroublesCounted, Busy, ConnDead, Usable
<1>1. ASSUME NEW w \in Senders, SetOptions(w) PROVE TOInv'
  <2>1. CASE Usable
    <3>1. /\ sender[w].at \in {"options", "deadline"} /\ UNCHANGED <<tcpConn, net, phase, tally, tangled>>
          /\ TOGoto(w, IF sender[w].at = "options" THEN "deadline" ELSE "write")
      BY <1>1, <2>1 DEF SetOptions
    <3>2. CASE TOGoto(w, "deadline")
      <4>1. "deadline" \in TOPlaces BY DEF TOPlaces
      <4>2. UNCHANGED <<tcpConn, net, phase, tangled>> /\ sender[w].at # "idle" BY <3>1
      <4>3. /\ tally' = IF "deadline" = "idle" THEN [tally EXCEPT !.written = @ + 1] ELSE tally
            /\ "deadline" \in {"idle", "deadline", "write", "close"}
            /\ "deadline" = "close" => tcpConn \notin net.open
        BY <3>1
      <4>4. QED BY <2>1, <3>2, <4>1, <4>2, <4>3, TOGoesOn
    <3>3. CASE TOGoto(w, "write")
      <4>1. "write" \in TOPlaces BY DEF TOPlaces
      <4>2. UNCHANGED <<tcpConn, net, phase, tangled>> /\ sender[w].at # "idle" BY <3>1
      <4>3. /\ tally' = IF "write" = "idle" THEN [tally EXCEPT !.written = @ + 1] ELSE tally
            /\ "write" \in {"idle", "deadline", "write", "close"}
            /\ "write" = "close" => tcpConn \notin net.open
        BY <3>1
      <4>4. QED BY <2>1, <3>3, <4>1, <4>2, <4>3, TOGoesOn
    <3>4. QED BY <3>1, <3>2, <3>3
  <2>2. CASE ~Usable BY <1>1, <2>2, TOUses, TOCrashes DEF SetOptions
  <2>3. QED BY <2>1, <2>2
<1>2. ASSUME NEW w \in Senders, TOWrite(w) PROVE TOInv'
  <2>1. CASE Usable
    <3>1. "idle" \in TOPlaces BY DEF TOPlaces
    <3>2. /\ sender[w].at = "write" /\ UNCHANGED <<tcpConn, net, phase, tangled>> /\ TOGoto(w, "idle")
          /\ tally' = [tally EXCEPT !.written = @ + 1]
      BY <1>2, <2>1 DEF TOWrite
    <3>3. /\ tally' = IF "idle" = "idle" THEN [tally EXCEPT !.written = @ + 1] ELSE tally
          /\ "idle" \in {"idle", "deadline", "write", "close"}
          /\ "idle" = "close" => tcpConn \notin net.open
      BY <3>2
    <3>4. sender[w].at # "idle" /\ TOGoto(w, "idle") BY <3>2
    <3>5. QED BY <2>1, <3>1, <3>2, <3>3, <3>4, TOGoesOn
  <2>2. CASE ~Usable BY <1>2, <2>2, TOUses, TOCrashes DEF TOWrite
  <2>3. QED BY <2>1, <2>2
<1>3. ASSUME NEW w \in Senders, WriteFails(w) PROVE TOInv'
  <2>1. "close" \in TOPlaces BY DEF TOPlaces
  <2>2. /\ sender[w].at = "write" /\ UNCHANGED <<tcpConn, net, phase, tangled, tally>> /\ TOGoto(w, "close")
        /\ Usable /\ tcpConn \notin net.open /\ sender[w].at # "idle"
    BY <1>3 DEF WriteFails
  <2>3. /\ tally' = IF "close" = "idle" THEN [tally EXCEPT !.written = @ + 1] ELSE tally
        /\ "close" \in {"idle", "deadline", "write", "close"}
        /\ "close" = "close" => tcpConn \notin net.open
    BY <2>2
  <2>4. QED BY <2>1, <2>2, <2>3, TOGoesOn
<1>4. ASSUME NEW w \in Senders, CloseConn(w) PROVE TOInv'
  <2>1. CASE Usable BY <1>4, <2>1, TOCloses
  <2>2. CASE ~Usable BY <1>4, <2>2, TOUses, TOCrashes DEF CloseConn
  <2>3. QED BY <2>1, <2>2
<1>5. QED BY <1>1, <1>2, <1>3, <1>4, TOConnects, TOReceives, TODials, TOForgets, TOLoses, TOEnds DEF TONext

LEMMA TOSounds == ASSUME OutputBounds, TOInv PROVE TOTypeOK /\ TcpSound
<1> TOTyped BY DEF TOInv
<1>1. ASSUME ~tangled
      PROVE  /\ Cardinality(net.open) <= 1
             /\ phase = "stopped" => net.open = {}
             /\ phase = "crash" => tcpConn = NilConn
             /\ (\A w \in Senders : sender[w].at = "idle") => tally.received - tally.written <= net.troubles
  <2>1. OneAtATime BY <1>1 DEF TOInv
  <2>2. Cardinality(net.open) <= 1
    <3>1. net.open = {} \/ net.open = {tcpConn} BY <2>1 DEF OneAtATime
    <3>2. Cardinality({}) = 0 /\ Cardinality({tcpConn}) = 1 BY FS_EmptySet, FS_Singleton
    <3>3. QED BY <3>1, <3>2
  <2>3. ASSUME \A w \in Senders : sender[w].at = "idle" PROVE tally.received - tally.written <= net.troubles
    <3>1. Busy = {} BY <2>3 DEF Busy
    <3>2. Cardinality(Busy) = 0 BY <3>1, FS_EmptySet
    <3>3. ConnDead \in {0, 1} BY DEF ConnDead
    <3>4. tally.received \in Nat /\ tally.written \in Nat /\ net.troubles \in Nat BY DEF TOTyped
    <3>5. TroublesCounted BY <2>1 DEF OneAtATime
    <3>6. QED BY <3>2, <3>3, <3>4, <3>5 DEF TroublesCounted
  <2>4. QED BY <2>1, <2>2, <2>3 DEF OneAtATime
<1>2. TcpSound BY <1>1 DEF TcpSound
<1>3. TOTypeOK
  <2>1. MaxDials \in Nat BY DEF OutputBounds
  <2>2. \A w \in Senders : sender[w].at \in {"idle", "dial", "options", "deadline", "write", "close", "forget"}
    BY DEF TOTyped, TOPlaces
  <2>3. net.open \subseteq 1..net.dialed /\ net.dialed \in 0..MaxDials /\ net.troubles \in 0..MaxTroubles
    BY <2>1 DEF TOTyped
  <2>4. tcpConn \in NilConn..MaxDials BY <2>1, <2>3 DEF TOTyped, NilConn
  <2>5. QED BY <2>2, <2>3, <2>4 DEF TOTyped, TOTypeOK
<1>4. QED BY <1>2, <1>3
-----------------------------------------------------------------------------
(* The theorems: each output's, and of the outputs side by side. *)
LEMMA OutputBoundsHold == OutputBounds
BY OutputBounds DEF OutputBounds

\* http: every event that was received is settled, on its way, or given up by
\* a stop; with one batch at a time the server first gets events in the order
\* they were received whatever it asks for again, for any sizes of batches.
THEOREM HttpOutHolds == HOSpec => [](BatchesAccounted /\ SentInOrder)
<1>1. HOInit => HOInv BY OutputBoundsHold, HOStarts
<1>2. HOInv /\ [HONext]_hoVars => HOInv' BY OutputBoundsHold, HOSteps
<1>3. HOInv => BatchesAccounted /\ SentInOrder BY OutputBoundsHold, HOSounds
<1> QED BY <1>1, <1>2, <1>3, PTL DEF HOSpec

\* file: unless two flushed at a time or Receive overwrote a slice, the file
\* holds what was received, in order and once each, but for failed writes and
\* what is still in the buffer or being flushed.
THEOREM FileOutHolds == FOSpec => []FileIsTrue
<1>1. FOInit => FOInv BY OutputBoundsHold, FOStarts
<1>2. FOInv /\ [FONext]_foVars => FOInv' BY OutputBoundsHold, FOSteps
<1>3. FOInv => FileIsTrue BY OutputBoundsHold, FOSounds
<1> QED BY <1>1, <1>2, <1>3, PTL DEF FOSpec

\* rabbitmq: any number of workers that lose and set up the connection they
\* share keep no other one open, unless two of them set it up at a time.
THEOREM RabbitOutHolds == ROSpec => []OneConnection
<1>1. ROInit => ROInv BY OutputBoundsHold, ROStarts
<1>2. ROInv /\ [RONext]_roVars => ROInv' BY OutputBoundsHold, ROSteps
<1>3. ROInv => OneConnection BY OutputBoundsHold, ROSounds
<1> QED BY <1>1, <1>2, <1>3, PTL DEF ROSpec

\* tcp: unless a worker connected or gave up a connection while another was
\* sending, one connection is open at most, only a dial that failed ends the
\* program, and no more events are lost than dials failed and connections broke.
THEOREM TcpOutHolds == TOSpec => []TcpSound
<1>1. TOInit => TOInv BY OutputBoundsHold, TOStarts
<1>2. TOInv /\ [TONext]_tcpVars => TOInv' BY OutputBoundsHold, TOSteps
<1>3. TOInv => TcpSound BY OutputBoundsHold, TOSounds
<1> QED BY <1>1, <1>2, <1>3, PTL DEF TOSpec

\* Side by side, as the filters.
OutputsInv ==
  /\ at_work = "http output" => HOInv
  /\ at_work = "file output" => FOInv
  /\ at_work = "rabbit output" => ROInv
  /\ at_work = "tcp output" => TOInv

LEMMA OutputsStart == ASSUME OutputBounds, OutputsInit PROVE OutputsInv
BY HOStarts, FOStarts, ROStarts, TOStarts DEF OutputsInit, OutputsInv

LEMMA OutputsStep ==
  ASSUME OutputBounds, OutputsInv, [OutputsNext /\ UNCHANGED at_work]_<<at_work, outputVars>>
  PROVE  OutputsInv'
<1>1. at_work' = at_work OBVIOUS
<1>2. CASE at_work = "http output"
  <2>1. HOInv /\ [HONext]_hoVars BY <1>2 DEF OutputsInv, OutputsNext, outputVars
  <2>2. QED BY <1>1, <1>2, <2>1, HOSteps DEF OutputsInv
<1>3. CASE at_work = "file output"
  <2>1. FOInv /\ [FONext]_foVars BY <1>3 DEF OutputsInv, OutputsNext, outputVars
  <2>2. QED BY <1>1, <1>3, <2>1, FOSteps DEF OutputsInv
<1>4. CASE at_work = "rabbit output"
  <2>1. ROInv /\ [RONext]_roVars BY <1>4 DEF OutputsInv, OutputsNext, outputVars
  <2>2. QED BY <1>1, <1>4, <2>1, ROSteps DEF OutputsInv
<1>5. CASE at_work = "tcp output"
  <2>1. TOInv /\ [TONext]_tcpVars BY <1>5 DEF OutputsInv, OutputsNext, outputVars
  <2>2. QED BY <1>1, <1>5, <2>1, TOSteps DEF OutputsInv
<1>6. QED BY <1>1, <1>2, <1>3, <1>4, <1>5 DEF OutputsInv

\* What the outputs promise, of whichever is at work.
THEOREM OutputsSoundHolds == OutputsSpec => []OutputsSound
<1>1. OutputsInit => OutputsInv BY OutputBoundsHold, OutputsStart
<1>2. OutputsInv /\ [OutputsNext /\ UNCHANGED at_work]_<<at_work, outputVars>> => OutputsInv'
  BY OutputBoundsHold, OutputsStep
<1>3. OutputsInv => OutputsSound
  <2>1. at_work = "http output" /\ OutputsInv => BatchesAccounted /\ SentInOrder
    BY OutputBoundsHold, HOSounds DEF OutputsInv
  <2>2. at_work = "file output" /\ OutputsInv => FileIsTrue BY OutputBoundsHold, FOSounds DEF OutputsInv
  <2>3. at_work = "rabbit output" /\ OutputsInv => OneConnection BY ROSounds DEF OutputsInv
  <2>4. at_work = "tcp output" /\ OutputsInv => TcpSound BY OutputBoundsHold, TOSounds DEF OutputsInv
  <2>5. QED BY <2>1, <2>2, <2>3, <2>4 DEF OutputsSound
<1> QED BY <1>1, <1>2, <1>3, PTL DEF OutputsSpec

\* Their states are of the kinds the module names.
THEOREM OutputsTypesHold == OutputsSpec => []OutputsTypeOK
<1>1. OutputsInit => OutputsInv BY OutputBoundsHold, OutputsStart
<1>2. OutputsInv /\ [OutputsNext /\ UNCHANGED at_work]_<<at_work, outputVars>> => OutputsInv'
  BY OutputBoundsHold, OutputsStep
<1>3. OutputsInv => OutputsTypeOK
  <2>1. at_work = "http output" /\ OutputsInv => HOTypeOK BY OutputBoundsHold, HOSounds DEF OutputsInv
  <2>2. at_work = "file output" /\ OutputsInv => FOTypeOK BY OutputBoundsHold, FOSounds DEF OutputsInv
  <2>3. at_work = "rabbit output" /\ OutputsInv => ROTypeOK BY ROSounds DEF OutputsInv
  <2>4. at_work = "tcp output" /\ OutputsInv => TOTypeOK BY OutputBoundsHold, TOSounds DEF OutputsInv
  <2>5. QED BY <2>1, <2>2, <2>3, <2>4 DEF OutputsTypeOK
<1> QED BY <1>1, <1>2, <1>3, PTL DEF OutputsSpec
=============================================================================
