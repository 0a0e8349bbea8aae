------------------------------ MODULE MemoryStore ------------------------------
(***************************************************************************)
(* Opening the encrypted memory: open_database of agent/memory/store.py    *)
(* over store_salt and load_salt of agent/memory/crypto.py and the file    *)
(* permissions of agent/memory/permissions.py, and the rotation of the     *)
(* passphrase, the rotate_key tool of agent/tools/memory.py.               *)
(*                                                                         *)
(* Processes step through the files: the salt, the temporary file it is    *)
(* written to, and the database.  A process may crash between any two      *)
(* steps.  A file is an inode, so that a process that still has it open    *)
(* writes to it after it was renamed.  A key is the pair of the passphrase *)
(* and the salt it was derived from.                                       *)
(***************************************************************************)
EXTENDS Naturals

CONSTANTS
  Procs,        \* processes of the user that open the memory
  Passphrases,
  MaxSalts,     \* bound: salts in use at a time, and inodes of salt files
  LaxUmask,     \* whether the umask leaves new files readable to others
  Unset

ASSUME MemoryAssumption ==
  /\ MaxSalts \in Nat \ {0}
  /\ LaxUmask \in BOOLEAN
  /\ Unset \notin Passphrases /\ Unset \notin Passphrases \X (1 .. MaxSalts)

VARIABLES
  used,     \* inodes created so far
  inode,    \* content of each inode: a salt, 0 while it is empty
  tmp,      \* inode the path of the temporary file names, or 0
  salt,     \* inode salt_path names, or 0
  db,       \* the database: whether it is there, its key, its permissions
  pc,       \* where each process is
  pass,     \* passphrase each process was given
  fd,       \* inode each process has open in store_salt
  loaded,   \* salt each process read
  existed,  \* db_existed
  create,   \* create_if_missing
  outcome,  \* what became of the last open_database or rotation
  raced,    \* history: whether two processes ever were in store_salt at once
  failed    \* history: whose last first read failed, whatever the passphrase

files == <<used, inode, tmp, salt, db>>
local == <<pass, fd, loaded, existed, create>>
history == <<raced, failed>>
storeVars == <<used, inode, tmp, salt, db, pc, pass, fd, loaded, existed, create,
               outcome, raced, failed>>

Salts == 1 .. MaxSalts
Keys == Passphrases \X Salts

Places == {"idle", "tmp", "write", "rename", "load", "look", "connect",
           "schema", "perms", "open"}

Writing == {"tmp", "write", "rename"}

Outcomes == {"none", "opened", "rotated", "error", "FileNotFoundError",
             "CorruptedSaltError", "InsecurePermissionsError",
             "InvalidPassphraseError"}

StoreTypeOK ==
  /\ used \in 0 .. MaxSalts
  /\ inode \in [Salts -> 0 .. MaxSalts]
  /\ tmp \in 0 .. MaxSalts
  /\ salt \in 0 .. MaxSalts
  /\ db \in [there : BOOLEAN, key : Keys \cup {Unset}, lax : BOOLEAN]
  /\ pc \in [Procs -> Places]
  /\ pass \in [Procs -> Passphrases \cup {Unset}]
  /\ \A p \in Procs : pc[p] # "idle" => pass[p] # Unset
  /\ fd \in [Procs -> 0 .. MaxSalts]
  /\ loaded \in [Procs -> 0 .. MaxSalts]
  /\ existed \in [Procs -> BOOLEAN]
  /\ create \in [Procs -> BOOLEAN]
  /\ outcome \in [Procs -> Outcomes]
  /\ raced \in BOOLEAN
  /\ failed \in SUBSET Procs

StoreInit ==
  /\ used = 0
  /\ inode = [i \in Salts |-> 0]
  /\ tmp = 0
  /\ salt = 0
  /\ db = [there |-> FALSE, key |-> Unset, lax |-> FALSE]
  /\ pc = [p \in Procs |-> "idle"]
  /\ pass = [p \in Procs |-> Unset]
  /\ fd = [p \in Procs |-> 0]
  /\ loaded = [p \in Procs |-> 0]
  /\ existed = [p \in Procs |-> FALSE]
  /\ create = [p \in Procs |-> FALSE]
  /\ outcome = [p \in Procs |-> "none"]
  /\ raced = FALSE
  /\ failed = {}

Goto(p, place) == pc' = [pc EXCEPT ![p] = place]

(* open_database raises: the connection, if there is one, is closed. *)
Raise(p, error) ==
  /\ Goto(p, "idle")
  /\ outcome' = [outcome EXCEPT ![p] = error]

MyKey(p) == <<pass[p], loaded[p]>>

-------------------------------------------------------------------------------
(* open_database *)

(* A fault: a salt is generated whether there is one or not. *)
OpenRegenerating(p, w) ==
  /\ pc[p] = "idle"
  /\ pass' = [pass EXCEPT ![p] = w]
  /\ create' = [create EXCEPT ![p] = TRUE]
  /\ Goto(p, "tmp")
  /\ outcome' = [outcome EXCEPT ![p] = "none"]
  /\ raced' = (raced \/ \E q \in Procs : pc[q] \in Writing)
  /\ failed' = failed \ {p}
  /\ UNCHANGED <<files, fd, loaded, existed>>

Open(p, w) ==
  /\ pc[p] = "idle"
  /\ pass' = [pass EXCEPT ![p] = w]
  /\ \E c \in BOOLEAN :
       /\ create' = [create EXCEPT ![p] = c]
       /\ \/ /\ salt # 0 \/ c
             /\ Goto(p, IF salt = 0 THEN "tmp" ELSE "load")
             /\ outcome' = [outcome EXCEPT ![p] = "none"]
             /\ raced' = (raced \/ (salt = 0 /\ \E q \in Procs : pc[q] \in Writing))
          \/ /\ salt = 0 /\ ~c
             /\ Raise(p, "FileNotFoundError")
             /\ UNCHANGED raced
  /\ failed' = failed \ {p}
  /\ UNCHANGED <<files, fd, loaded, existed>>

(* store_salt: O_CREAT and O_TRUNC on a name every process shares. *)
OpenTmp(p) ==
  /\ pc[p] = "tmp"
  /\ IF tmp = 0
     THEN /\ used < MaxSalts
          /\ used' = used + 1
          /\ tmp' = used'
          /\ UNCHANGED inode
     ELSE /\ inode' = [inode EXCEPT ![tmp] = 0]
          /\ UNCHANGED <<used, tmp>>
  /\ fd' = [fd EXCEPT ![p] = tmp']
  /\ Goto(p, "write")
  /\ UNCHANGED <<salt, db, pass, loaded, existed, create, outcome, history>>

(* The salt is new, and no other process writes the same. *)
WriteTmp(p) ==
  /\ pc[p] = "write"
  /\ \E s \in Salts :
       /\ \A i \in Salts : inode[i] # s
       /\ \A q \in Procs : loaded[q] # s
       /\ db.key # Unset => db.key[2] # s
       /\ inode' = [inode EXCEPT ![fd[p]] = s]
  /\ Goto(p, "rename")
  /\ UNCHANGED <<used, tmp, salt, db, local, outcome, history>>

(* chmod and replace fail if another process has renamed the file. *)
Rename(p) ==
  /\ pc[p] = "rename"
  /\ \/ /\ tmp # 0
        /\ salt' = tmp
        /\ tmp' = 0
        /\ Goto(p, "load")
        /\ UNCHANGED outcome
     \/ /\ tmp = 0
        /\ Raise(p, "FileNotFoundError")
        /\ UNCHANGED <<salt, tmp>>
  /\ UNCHANGED <<used, inode, db, local, history>>

(* A fault: whatever the file holds is taken for a salt. *)
LoadUnchecked(p) ==
  /\ pc[p] = "load"
  /\ loaded' = [loaded EXCEPT ![p] = inode[salt]]
  /\ Goto(p, "look")
  /\ UNCHANGED <<files, pass, fd, existed, create, outcome, history>>

Load(p) ==
  /\ pc[p] = "load"
  /\ \/ /\ inode[salt] # 0
        /\ loaded' = [loaded EXCEPT ![p] = inode[salt]]
        /\ Goto(p, "look")
        /\ UNCHANGED outcome
     \/ /\ inode[salt] = 0
        /\ Raise(p, "CorruptedSaltError")
        /\ UNCHANGED loaded
  /\ UNCHANGED <<files, pass, fd, existed, create, history>>

(* A fault: the permissions of a database that exists are not looked at. *)
LookOnly(p) ==
  /\ pc[p] = "look"
  /\ existed' = [existed EXCEPT ![p] = db.there]
  /\ Goto(p, "connect")
  /\ UNCHANGED <<files, pass, fd, loaded, create, outcome, history>>

(* After the key derivation: db_existed, and the permissions if it did. *)
Look(p) ==
  /\ pc[p] = "look"
  /\ \/ /\ ~db.there /\ ~create[p]
        /\ Raise(p, "FileNotFoundError")
        /\ UNCHANGED existed
     \/ /\ db.there /\ db.lax
        /\ Raise(p, "InsecurePermissionsError")
        /\ UNCHANGED existed
     \/ /\ IF db.there THEN ~db.lax ELSE create[p]
        /\ existed' = [existed EXCEPT ![p] = db.there]
        /\ Goto(p, "connect")
        /\ UNCHANGED outcome
  /\ UNCHANGED <<files, pass, fd, loaded, create, history>>

(* The first access creates the file, empty, with the permissions of the   *)
(* umask.                                                                  *)
Touched == IF db.there THEN db ELSE [there |-> TRUE, key |-> Unset, lax |-> LaxUmask]

(* connect and _verify_or_raise: an empty file takes any key.  Whatever    *)
(* the first read raises, be it that the key does not decrypt, a database  *)
(* another process is rotating or a disk that fails, becomes               *)
(* InvalidPassphraseError.                                                 *)
Connect(p) ==
  /\ pc[p] = "connect"
  /\ \/ /\ db.key \in {Unset, MyKey(p)}
        /\ db' = Touched
        /\ Goto(p, "schema")
        /\ UNCHANGED <<outcome, failed>>
     \/ /\ db.key \notin {Unset, MyKey(p)}
        /\ UNCHANGED <<db, failed>>
        /\ Raise(p, "InvalidPassphraseError")
     \/ /\ db' \in {db, Touched}
        /\ Raise(p, "InvalidPassphraseError")
        /\ failed' = failed \cup {p}
  /\ UNCHANGED <<used, inode, tmp, salt, local, raced>>

(* The first write encrypts the database, and the schema may fail after   *)
(* it; one that another process has encrypted with another key meanwhile   *)
(* can not be read.                                                        *)
Schema(p) ==
  /\ pc[p] = "schema"
  /\ \/ /\ db.key \in {Unset, MyKey(p)}
        /\ db' = [db EXCEPT !.key = MyKey(p)]
        /\ \/ Goto(p, "perms") /\ UNCHANGED outcome
           \/ Raise(p, "error")
     \/ /\ Raise(p, "error")
        /\ UNCHANGED db
  /\ UNCHANGED <<used, inode, tmp, salt, local, history>>

Perms(p) ==
  /\ pc[p] = "perms"
  /\ db' = IF existed[p] THEN db ELSE [db EXCEPT !.lax = FALSE]
  /\ Goto(p, "open")
  /\ outcome' = [outcome EXCEPT ![p] = "opened"]
  /\ UNCHANGED <<used, inode, tmp, salt, local, history>>

Close(p) ==
  /\ pc[p] = "open"
  /\ Goto(p, "idle")
  /\ UNCHANGED <<files, local, outcome, history>>

(* Nothing but the files outlives the process. *)
Crash(p) ==
  /\ pc[p] # "idle"
  /\ Goto(p, "idle")
  /\ fd' = [fd EXCEPT ![p] = 0]
  /\ loaded' = [loaded EXCEPT ![p] = 0]
  /\ existed' = [existed EXCEPT ![p] = FALSE]
  /\ outcome' = [outcome EXCEPT ![p] = "none"]
  /\ UNCHANGED <<files, pass, create, history>>

-------------------------------------------------------------------------------
(* rotate_key *)

(* A fault: the arguments of store_salt in the order it takes them. *)
RotateSalted(p, w) ==
  /\ pc[p] = "open" /\ db.key = MyKey(p)
  /\ used < MaxSalts
  /\ used' = used + 1
  /\ db' = [db EXCEPT !.key = <<w, inode[salt]>>]
  /\ inode' = [inode EXCEPT ![used'] = used']
  /\ salt' = used'
  /\ outcome' = [outcome EXCEPT ![p] = "rotated"]
  /\ UNCHANGED <<tmp, pc, local, history>>

(* PRAGMA rekey with the salt of the file; then the call of store_salt has *)
(* its arguments swapped, raises, and the tool answers with an error.  The *)
(* trial in a temporary directory before it leaves nothing behind.         *)
Rotate(p, w) ==
  /\ pc[p] = "open" /\ db.key = MyKey(p)
  /\ inode[salt] # 0
  /\ db' = [db EXCEPT !.key = <<w, inode[salt]>>]
  /\ pass' = [pass EXCEPT ![p] = w]
  /\ loaded' = [loaded EXCEPT ![p] = inode[salt]]
  /\ outcome' = [outcome EXCEPT ![p] = "error"]
  /\ UNCHANGED <<used, inode, tmp, salt, pc, fd, existed, create, history>>

(* A passphrase that is too short, a trial that fails, a database that is  *)
(* busy or that another process has rotated: nothing happens.              *)
RotateRefused(p) ==
  /\ pc[p] = "open"
  /\ outcome' = [outcome EXCEPT ![p] = "error"]
  /\ UNCHANGED <<files, pc, local, history>>

StoreNext ==
  \E p \in Procs :
    \/ \E w \in Passphrases : Open(p, w) \/ Rotate(p, w)
    \/ RotateRefused(p)
    \/ OpenTmp(p) \/ WriteTmp(p) \/ Rename(p)
    \/ Load(p) \/ Look(p) \/ Connect(p) \/ Schema(p) \/ Perms(p)
    \/ Close(p) \/ Crash(p)

StoreSpec == StoreInit /\ [][StoreNext]_storeVars

-------------------------------------------------------------------------------
(* Properties *)

(* Unless two processes create the salt together, no order of opening,     *)
(* crashing and rotating leaves a database whose salt is gone: the salt    *)
(* file holds the salt the database is encrypted with.                     *)
CanBeOpened ==
  ~raced /\ db.key # Unset => salt # 0 /\ inode[salt] = db.key[2]

(* tools/memory.py:341 and store.py:184: unless two processes created the *)
(* salt together, who is told that the passphrase is invalid did not give  *)
(* the one the database has by now, or could not read it at all: the first *)
(* read had failed for a reason of its own, which the message hides.       *)
RightPassphraseIsNotRefused ==
  [][\A p \in Procs :
       /\ ~raced
       /\ outcome'[p] = "InvalidPassphraseError" /\ outcome'[p] # outcome[p]
       => p \in failed' \/ db.key[1] # pass[p]]_storeVars

(* store.py:22-24: no session works on a database that others can read,    *)
(* whoever created it, whoever crashed before its permissions were set.    *)
NobodyWorksOnALaxFile ==
  \A p \in Procs : pc[p] = "open" => db.there /\ ~db.lax

(* tools/memory.py:332: a rotation renews the salt.                        *)
RotationRenewsSalt ==
  [][ db.key # Unset /\ db'.key # db.key => db'.key[2] # db.key[2] ]_storeVars
===============================================================================
