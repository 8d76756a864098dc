----------------------------- MODULE StoredFiles -----------------------------
(***************************************************************************)
(* pkg/storage: the files that keep sessions, drafts and client state.      *)
(*                                                                         *)
(* Each file is an object by session id.  A change reads it, changes one    *)
(* entry, drops the oldest ones past a limit and renames a new file over    *)
(* the old one, under the store's mutex; a change that fails leaves the     *)
(* file as it was.  Drafts and states count past a clock that was set back, *)
(* the registry does not.                                                   *)
(***************************************************************************)
EXTENDS Integers, Sequences, FiniteSetsExt, Functions, SequencesExt

CONSTANTS Kept,     \* maxDrafts, maxSessionStates, maxSessions
          Sessions, \* bound: 1 .. Sessions are the ids, in their order
          MaxClock, \* bound: the clock's last value
          MaxWrites \* bound: changes

ASSUME FilesAssumption == Kept \in Nat \ {0} /\ Sessions \in Nat /\ MaxClock \in Nat /\ MaxWrites \in Nat

VARIABLES
    clock,    \* now
    file,     \* session-state.json: by id, the time of the last change
    registry, \* sessions.json: by id, the time of the last use
    recent,   \* history: ids of the entries last written, newest first
    upserted, \* history: the same of the registry
    steady,   \* history: the clock went on between any two upserts
    writes    \* changes so far

filesVars == <<clock, file, registry, recent, upserted, steady, writes>>

SessionIds == 1 .. Sessions
NoEntries == <<>>

FilesInit ==
    /\ clock = 0 /\ file = NoEntries /\ registry = NoEntries
    /\ recent = <<>> /\ upserted = <<>> /\ steady = TRUE /\ writes = 0

\* The system's clock goes on, or is set back.
SetClock ==
    /\ clock' \in 0 .. MaxClock \ {clock}
    /\ UNCHANGED <<file, registry, recent, upserted, steady, writes>>

Rewriting == writes < MaxWrites /\ writes' = writes + 1

Stamped(time, id, stamp) == [other \in DOMAIN time \cup {id} |-> IF other = id THEN stamp ELSE time[other]]

\* Newest first, ties by id.
Precedes(time, a, b) == time[a] > time[b] \/ (time[a] = time[b] /\ a < b)
NewestOf(time) ==
    {id \in DOMAIN time : Cardinality({other \in DOMAIN time : Precedes(time, other, id)}) < Kept}

\* The history of an entry that was written last, and of one that was removed.
Without(list, id) ==
    IF id \in Range(list) THEN RemoveAt(list, CHOOSE i \in DOMAIN list : list[i] = id) ELSE list
Touch(list, id) == LET all == <<id>> \o Without(list, id) IN SubSeq(all, 1, Min({Len(all), Kept}))

------------------------------------------------------------------------------
(* Drafts and client state.                                                *)

\* One past the newest entry, whatever the clock says.
Stamp(time) == Max({clock} \cup {time[id] + 1 : id \in DOMAIN time})

WriteEntry(id) ==
    /\ Rewriting
    /\ LET written == Stamped(file, id, Stamp(file)) IN file' = Restrict(written, NewestOf(written))
    /\ recent' = Touch(recent, id)
    /\ UNCHANGED <<clock, registry, upserted, steady>>

\* An empty draft or state, and DeleteDraft and DeleteSessionState.
RemoveEntry(id) ==
    /\ Rewriting
    /\ id \in DOMAIN file
    /\ file' = Restrict(file, DOMAIN file \ {id})
    /\ recent' = Without(recent, id)
    /\ UNCHANGED <<clock, registry, upserted, steady>>

------------------------------------------------------------------------------
(* The registry of sessions.                                               *)

\* UpsertSession; the title and the directory of the entry are left out.  An
\* entry is as new as the clock says, or as it was.
UpsertSession(id) ==
    /\ Rewriting
    /\ LET known   == IF id \in DOMAIN registry THEN {registry[id]} ELSE {}
           written == Stamped(registry, id, Max({clock} \cup known))
       IN  registry' = Restrict(written, NewestOf(written))
    /\ upserted' = Touch(upserted, id)
    /\ steady' = (steady /\ \A other \in DOMAIN registry : registry[other] < clock)
    /\ UNCHANGED <<clock, file, recent>>

FilesNext ==
    \/ SetClock
    \/ \E id \in SessionIds :
        WriteEntry(id) \/ RemoveEntry(id) \/ UpsertSession(id)

FilesSpec == FilesInit /\ [][FilesNext]_filesVars

------------------------------------------------------------------------------
\* What a file keeps is what was written last, in that order: the limit never
\* drops a draft or state in favour of an older one, though the clock may have
\* been set back, and never the one that was just written.  The registry keeps
\* this only while the clock goes on: it drops a session that was just written
\* if all it kept are from a later time.
Ordered(time, list) ==
    /\ Range(list) = DOMAIN time
    /\ \A i, j \in DOMAIN list : i < j => time[list[i]] > time[list[j]]
RecentKept ==
    /\ Ordered(file, recent)
    /\ steady => Ordered(registry, upserted)
    /\ Cardinality(DOMAIN registry) <= Kept

==============================================================================
