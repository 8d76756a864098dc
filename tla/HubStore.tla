------------------------------ MODULE HubStore ------------------------------
(***************************************************************************)
(* The hub's message store (pkg/hub/store.go): messages and read cursors in *)
(* memory, a log that Append extends line by line and Edit, Delete and      *)
(* React replace whole, and a cursor file that MarkRead replaces.  Every    *)
(* operation holds the store's lock; what is hard is that memory changes    *)
(* before the file, that a write may fail or be torn, and that the hub may  *)
(* be restarted at any time.                                                *)
(***************************************************************************)
EXTENDS Naturals

CONSTANTS Ids,         \* message ids
          MaxVersion,  \* bound: 1 is a message as appended, more are its edits
          MaxTime,     \* bound: timestamps of a read cursor
          MaxFaults    \* bound: writes that fail and restarts

VARIABLES
  memory,   \* s.messages and s.byID: per id its version, 0 for unknown
  log,      \* messages.jsonl: per id the version a load would find
  torn,     \* the log's last line has no newline
  tail,     \* the id on that line, if it can be read: a set of at most one
  cursor,   \* s.reads of one thread
  cursorFile, \* reads.json
  promised, \* per id the version that an operation reported as stored
  marked,   \* the cursor that MarkRead reported as stored
  doubtful, \* ids whose last write failed, or whose line met a torn one
  unsure,   \* the cursor's last write failed
  faults

storeVars == <<memory, log, torn, tail, cursor, cursorFile, promised, marked, doubtful, unsure, faults>>
messages == <<memory, log, torn, tail, promised, doubtful>>
reads == <<cursor, cursorFile, marked, unsure>>

Versions == 0..MaxVersion

StoreTypeOK ==
  /\ memory \in [Ids -> Versions] /\ log \in [Ids -> Versions] /\ promised \in [Ids -> Versions]
  /\ torn \in BOOLEAN /\ tail \subseteq Ids
  /\ cursor \in 0..MaxTime /\ cursorFile \in 0..MaxTime /\ marked \in 0..MaxTime
  /\ doubtful \subseteq Ids /\ unsure \in BOOLEAN /\ faults \in 0..MaxFaults

StoreInit ==
  /\ memory = [i \in Ids |-> 0] /\ log = memory /\ promised = memory
  /\ torn = FALSE /\ tail = {}
  /\ cursor = 0 /\ cursorFile = 0 /\ marked = 0
  /\ doubtful = {} /\ unsure = FALSE /\ faults = 0

Fault == faults < MaxFaults /\ faults' = faults + 1

----------------------------------------------------------------------------
(* A line appended to a torn one joins it, and neither can be read.         *)
Joined(i) == [j \in Ids |-> IF j \in tail \cup {i} THEN 0 ELSE log[j]]

AppendMessage(i) ==
  /\ memory[i] = 0
  /\ memory' = [memory EXCEPT ![i] = 1]
  /\ log' = IF torn THEN Joined(i) ELSE [log EXCEPT ![i] = 1]
  /\ doubtful' = IF torn THEN doubtful \cup tail \cup {i} ELSE doubtful \ {i}
  /\ promised' = [promised EXCEPT ![i] = 1]
  /\ torn' = FALSE /\ tail' = {}
  /\ UNCHANGED <<reads, faults>>

\* Nothing, a part of the line, or the line without its newline is written.
AppendFails(i) ==
  /\ memory[i] = 0 /\ Fault
  /\ memory' = [memory EXCEPT ![i] = 1]
  /\ \/ doubtful' = doubtful \cup {i} /\ UNCHANGED <<log, torn, tail>>
     \/ ~torn /\ torn' = TRUE /\ tail' = {} /\ doubtful' = doubtful \cup {i} /\ UNCHANGED log
     \/ ~torn /\ torn' = TRUE /\ tail' = {i} /\ doubtful' = doubtful \cup {i} /\ log' = [log EXCEPT ![i] = 1]
     \/ torn /\ log' = Joined(i) /\ tail' = {} /\ doubtful' = doubtful \cup tail \cup {i} /\ UNCHANGED torn
  /\ UNCHANGED <<promised, reads>>

\* A message that is known already is reported as stored without a write.
AppendKnown(i) ==
  /\ memory[i] # 0
  /\ promised' = [promised EXCEPT ![i] = IF @ = 0 THEN 1 ELSE @]
  /\ UNCHANGED <<memory, log, torn, tail, doubtful, reads, faults>>

MutEdit(i) ==
  /\ memory[i] \in 1..(MaxVersion - 1)
  /\ memory' = [memory EXCEPT ![i] = @ + 1]
  /\ log' = [memory EXCEPT ![i] = log[i]]
  /\ torn' = FALSE /\ tail' = {}
  /\ promised' = [promised EXCEPT ![i] = memory'[i]]
  /\ doubtful' = {j \in doubtful : memory[j] < promised[j]}
  /\ UNCHANGED <<reads, faults>>

\* Edit, Delete and React change the message and rewrite the log from memory.
Edit(i) ==
  /\ memory[i] \in 1..(MaxVersion - 1)
  /\ memory' = [memory EXCEPT ![i] = @ + 1]
  /\ log' = memory'
  /\ torn' = FALSE /\ tail' = {}
  /\ promised' = [promised EXCEPT ![i] = memory'[i]]
  /\ doubtful' = {j \in doubtful : memory[j] < promised[j]}
  /\ UNCHANGED <<reads, faults>>

\* The rewrite fails: the old file stays, and the change stays in memory.
EditFails(i) ==
  /\ memory[i] \in 1..(MaxVersion - 1) /\ Fault
  /\ memory' = [memory EXCEPT ![i] = @ + 1]
  /\ UNCHANGED <<log, torn, tail, promised, doubtful, reads>>

----------------------------------------------------------------------------
(* MarkRead; a cursor that is not newer is reported as stored.              *)
MarkRead(t) ==
  /\ IF t > cursor
       THEN cursor' = t /\ cursorFile' = t /\ unsure' = (unsure /\ t < marked)
       ELSE UNCHANGED <<cursor, cursorFile, unsure>>
  /\ marked' = IF t > marked THEN t ELSE marked
  /\ UNCHANGED <<messages, faults>>

MarkReadFails(t) ==
  /\ t > cursor /\ Fault
  /\ cursor' = t /\ unsure' = TRUE
  /\ UNCHANGED <<messages, cursorFile, marked>>

(* OpenStore after the hub ended; loading reads a complete last line even   *)
(* without its newline.                                                     *)
Restart ==
  /\ Fault
  /\ memory' = log /\ cursor' = cursorFile
  /\ UNCHANGED <<log, torn, tail, cursorFile, promised, marked, doubtful, unsure>>

StoreNext ==
  \/ \E i \in Ids : AppendMessage(i) \/ AppendFails(i) \/ AppendKnown(i) \/ Edit(i) \/ EditFails(i)
  \/ \E t \in 1..MaxTime : MarkRead(t) \/ MarkReadFails(t)
  \/ Restart

StoreSpec == StoreInit /\ [][StoreNext]_storeVars

----------------------------------------------------------------------------
\* What an Append, Edit, Delete or React reported as stored, and what MarkRead
\* did ("so unread counts survive a restart", line 29), is what a restart loads.
\* The exceptions are named: a message whose own write failed and that was then
\* reported as known, one whose line joined a torn one, and a cursor that failed to
\* be written and was marked again.  Anything else lost by the order of memory and
\* file, a failed rewrite, a restart, or a torn line elsewhere, breaks it.
StoredSurvives ==
  /\ \A i \in Ids \ doubtful : log[i] >= promised[i]
  /\ ~unsure => cursorFile >= marked
=============================================================================
