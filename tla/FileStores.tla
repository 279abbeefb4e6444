----------------------------- MODULE FileStores -----------------------------
(***************************************************************************)
(* The stores of a deployment without a database server                    *)
(* (json_file_stores.py), used by several processes of one machine: a      *)
(* buyer's preferences, rewritten as a whole under a file lock, with a     *)
(* file of an earlier version to begin from; and the migration of a        *)
(* session's earlier snapshot file into SQLite, which a session is claimed *)
(* from (session_store.py).                                                *)
(*                                                                         *)
(* One buyer and one session.  A file is a set of statements or damaged.   *)
(* A machine that stops leaves the old file or the new one: it is written  *)
(* beside and renamed.  Kinds of preferences are left out.                 *)
(***************************************************************************)
EXTENDS Naturals, FiniteSets

CONSTANTS Writer,      \* processes
          Said,        \* statements a buyer's preferences are made of
          Snapshots,   \* states a session may have been saved in
          Owner,       \* buyers
          Damaged, Absent

Operations == [do : {"append", "delete", "replace"}, old : Said, new : Said]
Edits == [op : Operations, list : SUBSET Said]
SessionRow == [state : Snapshots \cup {Absent}, owner : Owner \cup {Absent}]

ASSUME FileStoresAssumption == /\ Absent \notin Snapshots \cup Owner \cup {Damaged} \cup Edits \cup SessionRow
                               /\ \A list \in SUBSET Said : list \notin {Absent, Damaged}

VARIABLES legacy,    \* the preferences' file of the earlier version
          current,   \* their file of this version
          writer,    \* [Writer -> Absent or [op, list]]: holds the lock unless it waits
          memory,    \* history: what the buyer has asked to remember
          snapshot,  \* the session's earlier snapshot file
          owners,    \* the buyers that the session's earlier conversation names
          row,       \* the session in SQLite: Absent or [state, owner, since]
          importer   \* [Writer -> Absent or the snapshot it is about to import]

preferenceVars == <<legacy, current, writer, memory>>
importVars == <<snapshot, owners, row, importer>>
storeVars == <<preferenceVars, importVars>>
-----------------------------------------------------------------------------
\* list_by_buyer: a damaged file counts as empty.
Listing ==
  LET f == IF current # Absent THEN current ELSE legacy IN IF f \in {Absent, Damaged} THEN {} ELSE f

\* append, delete and replace, as what they make of the list; nothing to do writes nothing.
Edited(op, list) ==
  CASE op.do = "append" -> list \cup {op.new}
    [] op.do = "delete" -> list \ {op.old}
    [] op.do = "replace" -> IF op.old \in list THEN (list \ {op.old}) \cup {op.new} ELSE list

Locked == \E w \in Writer : writer[w] # Absent

\* Faulty variant of Lock: nobody waits.
LockNothing(w, op) ==
  /\ writer[w] = Absent /\ writer' = [writer EXCEPT ![w] = [op |-> op, list |-> Edited(op, Listing)]]
  /\ UNCHANGED <<legacy, current, memory, importVars>>

\* The lock is taken and the list is read...
Lock(w, op) ==
  /\ ~Locked /\ writer' = [writer EXCEPT ![w] = [op |-> op, list |-> Edited(op, Listing)]]
  /\ UNCHANGED <<legacy, current, memory, importVars>>
\* ...the new file takes its place as a whole.
Write(w) ==
  /\ writer[w] # Absent /\ writer' = [writer EXCEPT ![w] = Absent]
  /\ current' = IF writer[w].list = Listing THEN current ELSE writer[w].list
  /\ memory' = Edited(writer[w].op, memory)
  /\ UNCHANGED <<legacy, importVars>>
\* The process is killed with the lock, which is released; what it wrote beside is left behind.
KilledWriter(w) ==
  /\ writer[w] # Absent /\ writer' = [writer EXCEPT ![w] = Absent]
  /\ UNCHANGED <<legacy, current, memory, importVars>>
-----------------------------------------------------------------------------
\* _import_legacy: a session that has no row, and whose earlier conversation names one buyer at
\* most, has its snapshot read...
ReadSnapshot(w) ==
  /\ importer[w] = Absent /\ snapshot # Absent /\ Cardinality(owners) <= 1
  /\ row # Absent => row.state = Absent
  /\ importer' = [importer EXCEPT ![w] = snapshot]
  /\ UNCHANGED <<preferenceVars, snapshot, owners, row>>
\* ...and import_legacy stores it if there is still none.
Import(w) ==
  /\ importer[w] # Absent /\ importer' = [importer EXCEPT ![w] = Absent]
  /\ row' = IF row # Absent THEN row
            ELSE [state |-> importer[w], owner |-> IF owners = {} THEN Absent ELSE CHOOSE b \in owners : TRUE]
  /\ UNCHANGED <<preferenceVars, snapshot, owners>>
\* claim and save_claim by an owner: the import is tried before, so a row is new only if there was
\* nothing to import.
Claim(b) ==
  /\ row = Absent => snapshot = Absent
  /\ row' = IF row = Absent THEN [state |-> Absent, owner |-> b]
            ELSE IF row.owner = Absent /\ row.state = Absent THEN [row EXCEPT !.owner = b] ELSE row
  /\ row' # row /\ UNCHANGED <<preferenceVars, snapshot, owners, importer>>
\* bind_legacy_owner, by a program that is trusted to know whose session it is.
BindOwner(b) ==
  /\ row # Absent /\ row.owner = Absent /\ row' = [row EXCEPT !.owner = b]
  /\ UNCHANGED <<preferenceVars, snapshot, owners, importer>>
SaveTurn(s) ==
  /\ row # Absent /\ row.owner # Absent /\ row' = [row EXCEPT !.state = s] /\ row' # row
  /\ UNCHANGED <<preferenceVars, snapshot, owners, importer>>

StoreNext ==
  \/ \E w \in Writer : Write(w) \/ KilledWriter(w) \/ ReadSnapshot(w) \/ Import(w)
  \/ \E w \in Writer, do \in {"append", "delete", "replace"}, old, new \in Said :
       Lock(w, [do |-> do, old |-> old, new |-> new])
  \/ \E b \in Owner : Claim(b) \/ BindOwner(b)
  \/ \E s \in Snapshots : SaveTurn(s)

StoreInit ==
  /\ legacy \in (SUBSET Said) \cup {Absent, Damaged} /\ current = Absent
  /\ writer = [w \in Writer |-> Absent] /\ memory = Listing
  /\ snapshot \in Snapshots \cup {Absent} /\ owners \in SUBSET Owner
  /\ row = Absent /\ importer = [w \in Writer |-> Absent]
StoreSpec == StoreInit /\ [][StoreNext]_storeVars
-----------------------------------------------------------------------------
StoreTypeOK ==
  /\ legacy \in (SUBSET Said) \cup {Absent, Damaged} /\ current \in (SUBSET Said) \cup {Absent}
  /\ writer \in [Writer -> Edits \cup {Absent}] /\ memory \in SUBSET Said
  /\ snapshot \in Snapshots \cup {Absent} /\ owners \in SUBSET Owner
  /\ row \in SessionRow \cup {Absent} /\ importer \in [Writer -> Snapshots \cup {Absent}]

\* Edits of several processes add up as if there were one: none is lost, and what was forgotten does
\* not come back from the earlier file.
EditsKept == [][Listing' = memory']_storeVars
\* An import never replaces what a turn has saved, and never gives a session to another buyer.
MigrationKeeps ==
  [][row # Absent => /\ row' # Absent
                     /\ row.owner # Absent => row'.owner = row.owner
                     /\ row'.state # row.state => importer' = importer]_storeVars
\* A session with an earlier snapshot begins from it; one that was shared by two buyers from none.
NothingSkipped ==
  [][row = Absent /\ row' # Absent => /\ snapshot # Absent => row'.state = snapshot
                                      /\ snapshot # Absent => Cardinality(owners) <= 1]_storeVars
FilesSound == EditsKept /\ MigrationKeeps /\ NothingSkipped
=============================================================================
