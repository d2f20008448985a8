-------------------------------- MODULE SinceDB -----------------------------
(***************************************************************************)
(* SinceDB (processors/sincedb.go): how far each resource was read.  New   *)
(* offsets are kept in a concurrent map and moved to the storage by a      *)
(* looper and by Close; every call on the map and on the storage is one    *)
(* step, and nothing makes two of them one.                                *)
(***************************************************************************)
CONSTANTS
  Resources,
  DryRun       \* identifier "/dev/null" or "": nothing is ever saved

VARIABLES
  offsets,     \* the map: resource -> offset, of the resources in it
  stored,      \* the storage, which survives an exit
  saver,       \* what the two callers of save are doing
  looping      \* the looper goroutine lives

sinceVars == <<offsets, stored, saver, looping>>
Savers == {"looper", "closer"}
Idle == [pc |-> "idle", todo |-> {}, key |-> 0, value |-> 0]
Visiting(rs) == [pc |-> "visit", todo |-> rs, key |-> 0, value |-> 0]
Holding(rs, r) == [pc |-> "set", todo |-> rs, key |-> r, value |-> offsets[r]]

\* NewSinceDB over a storage that holds what earlier processes saved.
NewSinceDB ==
  /\ offsets = <<>>
  /\ saver = [s \in Savers |-> Idle]
  /\ looping = ~DryRun

With(f, r, v) == [x \in DOMAIN f \cup {r} |-> IF x = r THEN v ELSE f[x]]
Without(f, r) == [x \in DOMAIN f \ {r} |-> f[x]]

SetRessourceOffset(r, v) == offsets' = With(offsets, r, v)

\* The two halves of RessourceOffset; a resource the storage lacks is at 0.
InMap(r) == r \in DOMAIN offsets
OffsetStored(r) == IF r \in DOMAIN stored THEN stored[r] ELSE 0
-----------------------------------------------------------------------------
(* save: Range over the keys the map had when it began. *)
BeginSave(s) == saver' = [saver EXCEPT ![s] = Visiting(DOMAIN offsets)]

\* Mutant: the offset is taken out of the map before it is stored.
Visit_DeleteFirst(s) ==
  /\ saver[s].pc = "visit"
  /\ \E r \in saver[s].todo \cap DOMAIN offsets :
       /\ saver' = [saver EXCEPT ![s] = Holding(saver[s].todo \ {r}, r)]
       /\ offsets' = Without(offsets, r)
  /\ UNCHANGED <<stored, looping>>

\* Range hands over the next key with its value at that time, if it has one.
Visit(s) ==
  /\ saver[s].pc = "visit"
  /\ \E r \in saver[s].todo :
       LET rest == saver[s].todo \ {r} IN
       saver' = [saver EXCEPT ![s] = IF InMap(r) THEN Holding(rest, r) ELSE Visiting(rest)]
  /\ UNCHANGED <<offsets, stored, looping>>

\* Storage.Set
SetStorage(s) ==
  /\ saver[s].pc = "set"
  /\ stored' = With(stored, saver[s].key, saver[s].value)
  /\ saver' = [saver EXCEPT ![s].pc = "delete"]
  /\ UNCHANGED <<offsets, looping>>

\* offsets.Delete, whatever the map holds by now.
DeleteOffset(s) ==
  /\ saver[s].pc = "delete"
  /\ offsets' = Without(offsets, saver[s].key)
  /\ saver' = [saver EXCEPT ![s] = Visiting(saver[s].todo)]
  /\ UNCHANGED <<stored, looping>>

EndSave(s) ==
  /\ saver[s].pc = "visit" /\ saver[s].todo = {}
  /\ saver' = [saver EXCEPT ![s] = IF s = "closer" THEN [Idle EXCEPT !.pc = "done"] ELSE Idle]
  /\ UNCHANGED <<offsets, stored, looping>>
-----------------------------------------------------------------------------
Closed == saver["closer"].pc # "idle"

\* The looper: a tick, also one that came together with `done`, or `done`.
LooperTick ==
  /\ looping /\ saver["looper"].pc = "idle"
  /\ BeginSave("looper")
  /\ UNCHANGED <<offsets, stored, looping>>
LooperQuit ==
  /\ looping /\ saver["looper"].pc = "idle" /\ Closed
  /\ looping' = FALSE
  /\ UNCHANGED <<offsets, stored, saver>>

\* Mutant: Close only ends the looper.
Close_WithoutSave ==
  /\ ~Closed
  /\ saver' = [saver EXCEPT !["closer"].pc = "done"]
  /\ UNCHANGED <<offsets, stored, looping>>
\* Close closes `done`, then saves.
Close ==
  /\ ~Closed
  /\ IF DryRun THEN saver' = [saver EXCEPT !["closer"].pc = "done"] ELSE BeginSave("closer")
  /\ UNCHANGED <<offsets, stored, looping>>

SaveStep(s) == Visit(s) \/ SetStorage(s) \/ DeleteOffset(s) \/ EndSave(s)
=============================================================================
