--------------------------- MODULE VaultFile ---------------------------
(***************************************************************************)
(* The secret store (pkg/vault): one database file, and a copy of it in     *)
(* memory for every MCP session that unlocked it.  An edit changes the copy *)
(* and writes the whole of it through a temporary file beside the database, *)
(* whose name all sessions and processes share.  Nobody reads the file      *)
(* again, so sessions overwrite each other; a save may fail at any step.    *)
(***************************************************************************)
EXTENDS Naturals, FiniteSets

CONSTANTS VaultClients, Titles, Fields, Passwords, NoVault, MaxCalls

ASSUME VaultAssumption == \A entry \in SUBSET Fields : entry # NoVault

VARIABLES
  vaultFile, \* the database: its password, its entries, and whether it is whole
  temporary, \* .vault-<name>
  opened,    \* session.vault of each client
  saving,    \* where each client's call is in Save, and the file it writes
  acked,     \* history: the fields that were reported as stored
  clean,     \* history: clients whose copy is what they last read or wrote
  behind,    \* history: clients whose copy is older than the file
  mixed,     \* history: two saves overlapped, or an older copy was written
  calls      \* history: calls made

vaultVars == <<vaultFile, temporary, opened, saving, acked, clean, behind, mixed, calls>>

Empty == [t \in Titles |-> NoVault]
Idle == [at |-> "idle", call |-> "none", copy |-> NoVault, on |-> "gone", alone |-> TRUE]
Stored(copy, t) == IF copy.entries[t] = NoVault THEN {} ELSE copy.entries[t]
Database(copy, whole) == [copy |-> copy, whole |-> whole]

VaultInit ==
  /\ vaultFile = NoVault /\ temporary = NoVault
  /\ opened = [c \in VaultClients |-> NoVault] /\ saving = [c \in VaultClients |-> Idle]
  /\ acked = [t \in Titles |-> {}] /\ clean = {} /\ behind = {}
  /\ mixed = FALSE /\ calls = 0

(* The sessions that do not see what c does to the file.                    *)
Others(c) == {d \in VaultClients \ {c} : opened[d] # NoVault \/ saving[d] # Idle}

Call(c) == saving[c] = Idle /\ calls < MaxCalls /\ calls' = calls + 1

(* The calls whose temporary file is still the one under its name.          *)
AtTemporary == {d \in VaultClients : saving[d].on = "temporary"}

(* Save begins: the temporary file is created, or the one there is emptied, *)
(* be it left by a crash or being written by another session.               *)
Saves(c, call, copy) ==
  /\ saving' = [d \in VaultClients |->
       IF d = c THEN [at |-> "opened", call |-> call, copy |-> copy, on |-> "temporary", alone |-> AtTemporary = {}]
       ELSE IF d \in AtTemporary THEN [saving[d] EXCEPT !.alone = FALSE] ELSE saving[d]]
  /\ temporary' = Database(copy, FALSE)
  /\ mixed' = (mixed \/ \E d \in VaultClients : saving[d] # Idle)
  /\ UNCHANGED vaultFile

-----------------------------------------------------------------------------
(* The tools.                                                               *)
CreateVault(c, password) ==
  /\ Call(c) /\ vaultFile = NoVault
  /\ Saves(c, "create", [password |-> password, entries |-> Empty])
  /\ behind' = behind \ {c} /\ UNCHANGED <<opened, acked, clean>>

Unlock(c, password) ==
  /\ Call(c) /\ vaultFile # NoVault
  /\ vaultFile.whole /\ vaultFile.copy.password = password
  /\ opened' = [opened EXCEPT ![c] = vaultFile.copy] /\ clean' = clean \cup {c} /\ behind' = behind \ {c}
  /\ UNCHANGED <<vaultFile, temporary, saving, acked, mixed>>

Lock(c) ==
  /\ Call(c) /\ opened' = [opened EXCEPT ![c] = NoVault] /\ clean' = clean \ {c}
  /\ UNCHANGED <<vaultFile, temporary, saving, acked, behind, mixed>>

(* Only the fields that were given are replaced; a one-time seed and an     *)
(* otpauth record stand for each other.                                     *)
OneTime == {"seed", "record"}
Clears(given) == IF given \cap OneTime = {} THEN {} ELSE OneTime
MutPutFields(entry, given) == (IF entry = NoVault THEN {} ELSE entry) \cup given
PutFields(entry, given) == (IF entry = NoVault THEN {} ELSE entry \ Clears(given)) \cup given

(* An edit changes the unlocked copy first, and stays in it when the save   *)
(* fails.                                                                   *)
Edit(c, call, copy) ==
  /\ Call(c)
  /\ opened' = [opened EXCEPT ![c] = copy] /\ clean' = clean \ {c}
  /\ Saves(c, call, copy) /\ UNCHANGED behind

Put(c, title, given) ==
  /\ opened[c] # NoVault
  /\ Edit(c, "put", [opened[c] EXCEPT !.entries[title] = PutFields(@, given)])
  /\ ~ OneTime \subseteq given
  /\ acked' = [acked EXCEPT ![title] = @ \ Clears(given)]

Delete(c, title) ==
  /\ opened[c] # NoVault /\ opened[c].entries[title] # NoVault
  /\ Edit(c, "delete", [opened[c] EXCEPT !.entries[title] = NoVault])
  /\ acked' = [acked EXCEPT ![title] = {}]

ChangePassword(c, next) ==
  /\ opened[c] # NoVault
  /\ Edit(c, "password", [opened[c] EXCEPT !.password = next])
  /\ UNCHANGED acked

Destroy(c) ==
  /\ opened[c] # NoVault /\ Call(c)
  /\ vaultFile' = NoVault /\ opened' = [opened EXCEPT ![c] = NoVault]
  /\ acked' = [t \in Titles |-> {}] /\ clean' = {} /\ behind' = behind \cup Others(c)
  /\ saving' = [d \in VaultClients |-> IF saving[d].on = "vault" THEN [saving[d] EXCEPT !.on = "gone"] ELSE saving[d]]
  /\ UNCHANGED <<temporary, mixed>>

-----------------------------------------------------------------------------
(* The steps of Save.  A call goes on writing the file it opened, wherever  *)
(* another session has moved it; two calls on one file leave either's work, *)
(* whole or not.                                                            *)
Encoded(c) ==
  /\ saving[c].at = "opened" /\ saving' = [saving EXCEPT ![c].at = "encoded"]
  /\ \E whole \in IF saving[c].alone THEN {TRUE} ELSE BOOLEAN :
       /\ temporary' = IF saving[c].on = "temporary" THEN Database(saving[c].copy, whole) ELSE temporary
       /\ vaultFile' = IF saving[c].on = "vault" THEN Database(saving[c].copy, whole) ELSE vaultFile
  /\ UNCHANGED <<opened, acked, clean, behind, mixed, calls>>

(* The file under the temporary name goes to a place, c's call is over.     *)
Moves(c, place) ==
  saving' = [d \in VaultClients |->
    IF d = c THEN Idle
    ELSE IF d \in AtTemporary THEN [saving[d] EXCEPT !.on = place]
    ELSE IF saving[d].on = "vault" /\ place = "vault" THEN [saving[d] EXCEPT !.on = "gone"]
    ELSE saving[d]]

Renamed(c) ==
  /\ saving[c].at = "encoded" /\ temporary # NoVault
  /\ vaultFile' = temporary /\ temporary' = NoVault
  /\ Moves(c, "vault")
  /\ opened' = IF saving[c].call = "create" THEN [opened EXCEPT ![c] = saving[c].copy] ELSE opened
  /\ acked' = [t \in Titles |-> acked[t] \cup Stored(saving[c].copy, t)]
  /\ clean' = {d \in {c} : opened'[d] = saving[c].copy}
  /\ behind' = (behind \ {c}) \cup Others(c)
  /\ mixed' = (mixed \/ c \in behind)
  /\ UNCHANGED calls

(* A step of Save fails: before the file is opened, or with the file        *)
(* removed, or at the rename, which leaves it.                              *)
SaveFails(c) ==
  /\ saving[c] # Idle
  /\ \/ temporary' = NoVault /\ Moves(c, "gone")
     \/ UNCHANGED temporary /\ saving' = [saving EXCEPT ![c] = Idle]
  /\ UNCHANGED <<vaultFile, opened, acked, clean, behind, mixed, calls>>

(* The process ends; its sessions are gone, the files are not.              *)
Restart ==
  /\ calls < MaxCalls /\ calls' = calls + 1
  /\ opened' = [c \in VaultClients |-> NoVault] /\ saving' = [c \in VaultClients |-> Idle] /\ clean' = {}
  /\ behind' = {}
  /\ UNCHANGED <<vaultFile, temporary, acked, mixed>>

VaultNext ==
  \/ \E c \in VaultClients :
       \/ Lock(c) \/ Destroy(c) \/ Encoded(c) \/ Renamed(c) \/ SaveFails(c)
       \/ \E password \in Passwords : CreateVault(c, password) \/ Unlock(c, password) \/ ChangePassword(c, password)
       \/ \E title \in Titles : Delete(c, title) \/ \E given \in SUBSET Fields : Put(c, title, given)
  \/ Restart

VaultSpec == VaultInit /\ [][VaultNext]_vaultVars

-----------------------------------------------------------------------------
(* As long as no session writes over another's save, the database is whole  *)
(* after every failed or interrupted save, holds every field that was       *)
(* reported as stored and has not been deleted since, and is what a session *)
(* whose last save succeeded has in its hands, under its password.          *)
VaultKept ==
  mixed \/ ( /\ vaultFile # NoVault => vaultFile.whole /\ \A t \in Titles : ~ OneTime \subseteq Stored(vaultFile.copy, t)
             /\ \A t \in Titles : acked[t] # {} => vaultFile # NoVault /\ acked[t] \subseteq Stored(vaultFile.copy, t)
             /\ \A c \in clean : vaultFile # NoVault /\ opened[c] = vaultFile.copy )
=============================================================================
