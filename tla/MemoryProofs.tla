------------------------------ MODULE MemoryProofs ------------------------------
(***************************************************************************)
(* Proofs about MemoryStore, for every set of processes and passphrases,   *)
(* and about MemoryEntries, for every set of sessions and texts and every  *)
(* size of the window.                                                     *)
(***************************************************************************)
EXTENDS MemoryStore, MemoryEntries, SequenceTheorems, TLAPS

-------------------------------------------------------------------------------
(* The store.  Two inductive invariants: Private follows the permissions   *)
(* of the database and holds whoever races with whom; Matched follows the  *)
(* salt and holds until two processes are in store_salt at once, which     *)
(* breaks it for good.                                                     *)

Derived == {"look", "connect", "schema", "perms", "open"}

(* A process past the check of the permissions knows a private file, or    *)
(* will make it private itself.                                            *)
Private ==
  \A p \in Procs :
    /\ pc[p] \in {"schema", "perms", "open"} => db.there
    /\ pc[p] \in {"connect", "schema", "perms"} /\ existed[p] => db.there /\ ~db.lax
    /\ pc[p] = "open" => ~db.lax

(* While a salt is being written, by one process, there is no other; from  *)
(* the moment it is read on, what a process read is what the file holds.   *)
Matched ==
  ~raced =>
    /\ \A p \in Procs : pc[p] \in Writing => salt = 0
    /\ \A p, q \in Procs : pc[p] \in Writing /\ pc[q] \in Writing => p = q
    /\ \A p \in Procs : pc[p] \in Derived => loaded[p] = inode[salt]
    /\ CanBeOpened

(* A process that is past writing a salt finds one, and reads it.          *)
Rooted ==
  \A p \in Procs :
    /\ pc[p] \in {"load"} \cup Derived => salt # 0
    /\ pc[p] \in Derived => loaded[p] # 0

LEMMA InitTyped == StoreInit => StoreTypeOK /\ Rooted
<1> SUFFICES ASSUME StoreInit PROVE StoreTypeOK /\ Rooted
  OBVIOUS
<1> USE MemoryAssumption DEF StoreInit
<1>1. 0 \in 0 .. MaxSalts
  OBVIOUS
<1>2. db \in [there : BOOLEAN, key : Keys \cup {Unset}, lax : BOOLEAN]
  OBVIOUS
<1>3. \A p \in Procs : pc[p] = "idle"
  OBVIOUS
<1>4. /\ inode \in [Salts -> 0 .. MaxSalts]
      /\ fd \in [Procs -> 0 .. MaxSalts]
      /\ loaded \in [Procs -> 0 .. MaxSalts]
  BY <1>1
<1>5. /\ pc \in [Procs -> Places]
      /\ outcome \in [Procs -> Outcomes]
  BY DEF Places, Outcomes
<1>6. /\ pass \in [Procs -> Passphrases \cup {Unset}]
      /\ existed \in [Procs -> BOOLEAN]
      /\ create \in [Procs -> BOOLEAN]
  OBVIOUS
<1>7. StoreTypeOK
  BY <1>1, <1>2, <1>3, <1>4, <1>5, <1>6 DEF StoreTypeOK
<1>8. Rooted
  BY <1>3 DEF Rooted, Derived
<1> QED BY <1>7, <1>8

(* Every variable stays of its type, however processes race and crash.     *)
LEMMA TypedStays == StoreTypeOK /\ Rooted /\ [StoreNext]_storeVars => StoreTypeOK' /\ Rooted'
<1> SUFFICES ASSUME StoreTypeOK, Rooted, [StoreNext]_storeVars PROVE StoreTypeOK' /\ Rooted'
  OBVIOUS
<1> USE MemoryAssumption DEF StoreTypeOK, Rooted, Derived, Places, Outcomes, Goto, Raise, files, local, history
<1>1. ASSUME NEW p \in Procs, NEW w \in Passphrases, Open(p, w) PROVE StoreTypeOK' /\ Rooted'
  BY <1>1 DEF Open
<1>2. ASSUME NEW p \in Procs, OpenTmp(p) PROVE StoreTypeOK' /\ Rooted'
  <2>1. used' \in 0 .. MaxSalts /\ tmp' \in 0 .. MaxSalts
    BY <1>2 DEF OpenTmp
  <2>2. inode' \in [Salts -> 0 .. MaxSalts]
    BY <1>2 DEF OpenTmp
  <2>3. fd' \in [Procs -> 0 .. MaxSalts]
    BY <1>2, <2>1 DEF OpenTmp
  <2> QED BY <1>2, <2>1, <2>2, <2>3 DEF OpenTmp
<1>3. ASSUME NEW p \in Procs, WriteTmp(p) PROVE StoreTypeOK' /\ Rooted'
  <2>1. PICK s \in Salts : inode' = [inode EXCEPT ![fd[p]] = s]
    BY <1>3 DEF WriteTmp
  <2>2. s \in 0 .. MaxSalts
    BY DEF Salts
  <2>3. inode' \in [Salts -> 0 .. MaxSalts]
    BY <2>1, <2>2
  <2> QED BY <1>3, <2>3 DEF WriteTmp
<1>4. ASSUME NEW p \in Procs, Rename(p) PROVE StoreTypeOK' /\ Rooted'
  BY <1>4 DEF Rename
<1>5. ASSUME NEW p \in Procs, Load(p) PROVE StoreTypeOK' /\ Rooted'
  <2>1. inode[salt] \in 0 .. MaxSalts
    BY <1>5 DEF Load, Salts
  <2> QED BY <1>5, <2>1 DEF Load
<1>6. ASSUME NEW p \in Procs, Look(p) PROVE StoreTypeOK' /\ Rooted'
  BY <1>6 DEF Look
<1>7. ASSUME NEW p \in Procs, Connect(p) PROVE StoreTypeOK' /\ Rooted'
  <2>1. db' = db \/ db' = [there |-> TRUE, key |-> Unset, lax |-> LaxUmask]
    BY <1>7 DEF Connect, Touched
  <2>2. [there |-> TRUE, key |-> Unset, lax |-> LaxUmask]
          \in [there : BOOLEAN, key : Keys \cup {Unset}, lax : BOOLEAN]
    OBVIOUS
  <2>3. db' \in [there : BOOLEAN, key : Keys \cup {Unset}, lax : BOOLEAN]
    BY <2>1, <2>2
  <2> QED BY <1>7, <2>3 DEF Connect, Touched
<1>8. ASSUME NEW p \in Procs, Schema(p) PROVE StoreTypeOK' /\ Rooted'
  <2>1. MyKey(p) \in Keys
    BY <1>8 DEF Schema, MyKey, Keys, Salts
  <2>2. db' \in [there : BOOLEAN, key : Keys \cup {Unset}, lax : BOOLEAN]
    BY <1>8, <2>1 DEF Schema
  <2> QED BY <1>8, <2>2 DEF Schema
<1>9. ASSUME NEW p \in Procs, Perms(p) PROVE StoreTypeOK' /\ Rooted'
  BY <1>9 DEF Perms
<1>10. ASSUME NEW p \in Procs, Close(p) PROVE StoreTypeOK' /\ Rooted'
  BY <1>10 DEF Close
<1>13. ASSUME NEW p \in Procs, Crash(p) PROVE StoreTypeOK' /\ Rooted'
  BY <1>13 DEF Crash
<1>14. ASSUME NEW p \in Procs, RotateRefused(p) PROVE StoreTypeOK' /\ Rooted'
  BY <1>14 DEF RotateRefused
<1>11. ASSUME NEW p \in Procs, NEW w \in Passphrases, Rotate(p, w) PROVE StoreTypeOK' /\ Rooted'
  <2>1. inode[salt] \in Salts
    BY <1>11 DEF Rotate, Salts
  <2>2. db' \in [there : BOOLEAN, key : Keys \cup {Unset}, lax : BOOLEAN]
    BY <1>11, <2>1 DEF Rotate, Keys
  <2>3. loaded' \in [Procs -> 0 .. MaxSalts]
    BY <1>11, <2>1 DEF Rotate, Salts
  <2> QED BY <1>11, <2>1, <2>2, <2>3 DEF Rotate, Salts
<1>12. CASE UNCHANGED storeVars
  BY <1>12 DEF storeVars
<1> QED BY <1>1, <1>2, <1>3, <1>4, <1>5, <1>6, <1>7, <1>8, <1>9, <1>10, <1>11, <1>12, <1>13, <1>14
    DEF StoreNext

THEOREM StoreTypeCorrect == StoreSpec => []StoreTypeOK
<1> QED BY InitTyped, TypedStays, PTL DEF StoreSpec

-------------------------------------------------------------------------------
(* Permissions *)

LEMMA PrivateStays == StoreTypeOK /\ Private /\ [StoreNext]_storeVars => Private'
<1> SUFFICES ASSUME StoreTypeOK, Private, [StoreNext]_storeVars PROVE Private'
  OBVIOUS
<1> USE DEF StoreTypeOK, Private, Goto, Raise, files, local, history
<1>1. ASSUME NEW p \in Procs, NEW w \in Passphrases, Open(p, w) PROVE Private'
  BY <1>1 DEF Open
<1>2. ASSUME NEW p \in Procs, OpenTmp(p) PROVE Private'
  BY <1>2 DEF OpenTmp
<1>3. ASSUME NEW p \in Procs, WriteTmp(p) PROVE Private'
  BY <1>3 DEF WriteTmp
<1>4. ASSUME NEW p \in Procs, Rename(p) PROVE Private'
  BY <1>4 DEF Rename
<1>5. ASSUME NEW p \in Procs, Load(p) PROVE Private'
  BY <1>5 DEF Load
<1>6. ASSUME NEW p \in Procs, Look(p) PROVE Private'
  BY <1>6 DEF Look
<1>7. ASSUME NEW p \in Procs, Connect(p) PROVE Private'
  <2>1. db.there => db' = db
    BY <1>7 DEF Connect, Touched
  <2>2. /\ \/ pc' = [pc EXCEPT ![p] = "schema"] /\ db'.there
           \/ pc' = [pc EXCEPT ![p] = "idle"]
        /\ existed' = existed /\ pc[p] = "connect"
    BY <1>7 DEF Connect, Touched
  <2> QED BY <2>1, <2>2
<1>8. ASSUME NEW p \in Procs, Schema(p) PROVE Private'
  <2>1. db'.there = db.there /\ db'.lax = db.lax
    BY <1>8 DEF Schema
  <2>2. /\ pc' = [pc EXCEPT ![p] = "perms"] \/ pc' = [pc EXCEPT ![p] = "idle"]
        /\ existed' = existed /\ pc[p] = "schema"
    BY <1>8 DEF Schema
  <2> QED BY <2>1, <2>2
<1>9. ASSUME NEW p \in Procs, Perms(p) PROVE Private'
  BY <1>9 DEF Perms
<1>10. ASSUME NEW p \in Procs, Close(p) PROVE Private'
  BY <1>10 DEF Close
<1>11. ASSUME NEW p \in Procs, Crash(p) PROVE Private'
  BY <1>11 DEF Crash
<1>12. ASSUME NEW p \in Procs, RotateRefused(p) PROVE Private'
  BY <1>12 DEF RotateRefused
<1>13. ASSUME NEW p \in Procs, NEW w \in Passphrases, Rotate(p, w) PROVE Private'
  <2>1. db'.there = db.there /\ db'.lax = db.lax
    BY <1>13 DEF Rotate
  <2> QED BY <1>13, <2>1 DEF Rotate
<1>14. CASE UNCHANGED storeVars
  BY <1>14 DEF storeVars
<1> QED BY <1>1, <1>2, <1>3, <1>4, <1>5, <1>6, <1>7, <1>8, <1>9, <1>10, <1>11, <1>12, <1>13, <1>14
    DEF StoreNext

(* Whoever races with whom to create the database, and whoever crashes     *)
(* before its permissions are set, a session that gets to work on it works *)
(* on a file nobody else can read.                                         *)
THEOREM SessionsArePrivate == StoreSpec => []NobodyWorksOnALaxFile
<1>1. StoreInit => Private
  BY DEF StoreInit, Private
<1>2. Private => NobodyWorksOnALaxFile
  BY DEF Private, NobodyWorksOnALaxFile
<1> QED BY <1>1, <1>2, InitTyped, TypedStays, PrivateStays, PTL DEF StoreSpec

-------------------------------------------------------------------------------
(* The salt *)

StoreIInv == StoreTypeOK /\ Rooted /\ Matched

LEMMA InitMatched == StoreInit => Matched
BY DEF StoreInit, Matched, Writing, Derived, CanBeOpened

LEMMA MatchedStays == StoreIInv /\ [StoreNext]_storeVars => Matched'
<1> SUFFICES ASSUME StoreTypeOK, Rooted, Matched, [StoreNext]_storeVars PROVE Matched'
  BY DEF StoreIInv
<1> USE DEF StoreTypeOK, Rooted, Matched, Writing, Derived, CanBeOpened, Goto, Raise, files, local, history
<1>1. ASSUME NEW p \in Procs, NEW w \in Passphrases, Open(p, w) PROVE Matched'
  BY <1>1 DEF Open
<1>2. ASSUME NEW p \in Procs, OpenTmp(p) PROVE Matched'
  <2>1. ~raced => /\ salt = 0 /\ db.key = Unset
                  /\ \A q \in Procs : q # p => pc[q] = "idle"
    BY <1>2 DEF OpenTmp, Places
  <2> QED BY <1>2, <2>1 DEF OpenTmp
<1>3. ASSUME NEW p \in Procs, WriteTmp(p) PROVE Matched'
  <2>1. ~raced => /\ salt = 0 /\ db.key = Unset
                  /\ \A q \in Procs : q # p => pc[q] = "idle"
    BY <1>3 DEF WriteTmp, Places
  <2> QED BY <1>3, <2>1 DEF WriteTmp
<1>4. ASSUME NEW p \in Procs, Rename(p) PROVE Matched'
  <2>1. ~raced => /\ salt = 0 /\ db.key = Unset
                  /\ \A q \in Procs : q # p => pc[q] = "idle"
    BY <1>4 DEF Rename, Places
  <2> QED BY <1>4, <2>1 DEF Rename
<1>5. ASSUME NEW p \in Procs, Load(p) PROVE Matched'
  BY <1>5 DEF Load
<1>6. ASSUME NEW p \in Procs, Look(p) PROVE Matched'
  BY <1>6 DEF Look
<1>7. ASSUME NEW p \in Procs, Connect(p) PROVE Matched'
  <2>1. db'.key \in {db.key, Unset}
    BY <1>7 DEF Connect, Touched
  <2> QED BY <1>7, <2>1 DEF Connect, Touched
<1>8. ASSUME NEW p \in Procs, Schema(p) PROVE Matched'
  <2>1. salt # 0 /\ (~raced => loaded[p] = inode[salt])
    BY <1>8 DEF Schema, Rooted
  <2>2. db'.key = db.key \/ db'.key = <<pass[p], loaded[p]>>
    BY <1>8 DEF Schema, MyKey
  <2> QED BY <1>8, <2>1, <2>2 DEF Schema
<1>9. ASSUME NEW p \in Procs, Perms(p) PROVE Matched'
  <2>1. db'.key = db.key
    BY <1>9 DEF Perms
  <2> QED BY <1>9, <2>1 DEF Perms
<1>10. ASSUME NEW p \in Procs, Close(p) PROVE Matched'
  BY <1>10 DEF Close
<1>11. ASSUME NEW p \in Procs, Crash(p) PROVE Matched'
  BY <1>11 DEF Crash
<1>12. ASSUME NEW p \in Procs, RotateRefused(p) PROVE Matched'
  BY <1>12 DEF RotateRefused
<1>13. ASSUME NEW p \in Procs, NEW w \in Passphrases, Rotate(p, w) PROVE Matched'
  <2>1. salt # 0 /\ db'.key = <<w, inode[salt]>>
    BY <1>13 DEF Rotate
  <2> QED BY <1>13, <2>1 DEF Rotate
<1>14. CASE UNCHANGED storeVars
  BY <1>14 DEF storeVars
<1> QED BY <1>1, <1>2, <1>3, <1>4, <1>5, <1>6, <1>7, <1>8, <1>9, <1>10, <1>11, <1>12, <1>13, <1>14
    DEF StoreNext

LEMMA StoreIInvHolds == StoreSpec => []StoreIInv
<1>1. StoreInit => StoreIInv
  BY InitTyped, InitMatched DEF StoreIInv
<1>2. StoreIInv /\ [StoreNext]_storeVars => StoreIInv'
  BY TypedStays, MatchedStays DEF StoreIInv
<1> QED BY <1>1, <1>2, PTL DEF StoreSpec

(* Unless two processes create the salt together, the memory is never left *)
(* with a salt that does not open it, however many processes use it, how   *)
(* often it is rotated and wherever they crash.                            *)
THEOREM MemoryIsNotLost == StoreSpec => []CanBeOpened
<1>1. StoreIInv => CanBeOpened
  BY DEF StoreIInv, Matched, CanBeOpened
<1> QED BY <1>1, StoreIInvHolds, PTL

(* Under the same condition nobody who gives the right passphrase is told  *)
(* that it is invalid, unless the first read failed for another reason.    *)
THEOREM RightPassphraseOpens == StoreSpec => RightPassphraseIsNotRefused
<1>1. StoreIInv /\ [StoreNext]_storeVars =>
        \A p \in Procs :
          /\ ~raced
          /\ outcome'[p] = "InvalidPassphraseError" /\ outcome'[p] # outcome[p]
          => p \in failed' \/ db.key[1] # pass[p]
  <2> SUFFICES ASSUME StoreIInv, [StoreNext]_storeVars, NEW p \in Procs, ~raced,
                      outcome'[p] = "InvalidPassphraseError", outcome'[p] # outcome[p],
                      p \notin failed'
               PROVE  db.key[1] # pass[p]
    OBVIOUS
  <2>1. Connect(p) /\ db.key \notin {Unset, MyKey(p)}
    BY DEF StoreIInv, StoreTypeOK, StoreNext, storeVars, Open, OpenTmp, WriteTmp, Rename, Load, Look, Connect,
           Schema, Perms, Close, Crash, Rotate, RotateRefused, Goto, Raise
  <2>2. db.key[2] = loaded[p]
    BY <2>1 DEF StoreIInv, Matched, Derived, CanBeOpened, Connect
  <2>3. db.key \in Passphrases \X Salts
    BY <2>1 DEF StoreIInv, StoreTypeOK, Keys
  <2> QED BY <2>1, <2>2, <2>3 DEF MyKey
<1> QED BY <1>1, StoreIInvHolds, PTL DEF StoreSpec, RightPassphraseIsNotRefused

-------------------------------------------------------------------------------
(* The entries.  Three facts are inductive on top of the type, whose part  *)
(* that counts is that no id in use, asked about or reported is above the  *)
(* last one given: Flagged, that both copies of a text with PII are        *)
(* marked; Seen, that the row under an id the user is asked about is still *)
(* the one that was seen; and ForgottenOnceForAll itself.                  *)

Flagged ==
  /\ \A i \in DOMAIN table : table[i].text \in Pii => table[i].sensitive
  /\ \A s \in Sessions : \A j \in DOMAIN window[s] :
       window[s][j].text \in Pii => window[s][j].sensitive

Seen ==
  \A s \in Sessions :
    asked[s] # None /\ asked[s].id \in DOMAIN table => table[asked[s].id].text = asked[s].text

(* The parts of the type, one per variable or two. *)
TableTyped ==
  /\ last \in 0 .. MaxId
  /\ DOMAIN table \subseteq 1 .. last
  /\ table \in [DOMAIN table -> Row]
  /\ now \in Times

WindowTyped ==
  /\ window \in [Sessions -> Seq(SessionEntry)]
  /\ \A s \in Sessions : Len(window[s]) <= MaxWindow

AskedTyped ==
  /\ asked \in [Sessions -> Request \cup {None}]
  /\ \A s \in Sessions : asked[s] # None => asked[s].id <= last

ToldTyped == told \in [Sessions -> SUBSET (1 .. last)]

LEMMA Parts == TypeOK <=> TableTyped /\ WindowTyped /\ AskedTyped /\ ToldTyped
BY DEF TypeOK, TableTyped, WindowTyped, AskedTyped, ToldTyped

-------------------------------------------------------------------------------
(* What the writers do to the table *)

LEMMA InsertAdds ==
  ASSUME TableTyped, NEW t \in Texts, NEW e \in Expiry, Insert(t, e), now' = now
  PROVE  /\ TableTyped'
         /\ last' = last + 1 /\ last' \in 0 .. MaxId
         /\ DOMAIN table' = DOMAIN table \cup {last + 1}
         /\ last + 1 \notin DOMAIN table
         /\ \A i \in DOMAIN table : table'[i] = table[i]
         /\ table'[last + 1] = RowOf(t, e)
<1>1. /\ last \in Nat /\ last < MaxId /\ MaxId \in Nat /\ last' = last + 1
      /\ table' = [j \in DOMAIN table \cup {last + 1} |->
                     IF j = last + 1 THEN RowOf(t, e) ELSE table[j]]
  BY EntriesAssumption DEF TableTyped, Insert, With, NewId
<1>2. last + 1 \notin DOMAIN table
  BY <1>1 DEF TableTyped
<1>3. RowOf(t, e) \in Row
  BY DEF RowOf, Row
<1>4. last' \in 0 .. MaxId
  BY <1>1
<1>5. DOMAIN table' \subseteq 1 .. last'
  BY <1>1 DEF TableTyped
<1>6. table' \in [DOMAIN table' -> Row]
  BY <1>1, <1>3 DEF TableTyped
<1>7. now' \in Times
  BY DEF TableTyped
<1> QED BY <1>1, <1>2, <1>4, <1>5, <1>6, <1>7 DEF TableTyped

LEMMA OnlyShrinks ==
  ASSUME TableTyped, NEW S \in SUBSET DOMAIN table, table' = Only(S), last' = last, now' = now
  PROVE  /\ TableTyped'
         /\ DOMAIN table' = S
         /\ \A i \in S : table'[i] = table[i]
BY DEF TableTyped, Only

(* Every action, by what it does to each variable.                         *)
TableStep ==
  \/ table' = table /\ last' = last
  \/ now' = now /\ \E t \in Texts, e \in Expiry : Insert(t, e)
  \/ /\ last' = last /\ now' = now
     /\ \E S \in SUBSET DOMAIN table : table' = Only(S)

LEMMA TableKept ==
  ASSUME TableTyped, TableStep, now' \in Times
  PROVE  /\ TableTyped'
         /\ last' \in Nat /\ last <= last'
         /\ \A i \in DOMAIN table' : i \in DOMAIN table => table'[i] = table[i]
         /\ \A i \in DOMAIN table' : i \notin DOMAIN table => i > last
<1>0. last \in Nat
  BY EntriesAssumption DEF TableTyped
<1>1. CASE table' = table /\ last' = last
  BY <1>0, <1>1 DEF TableTyped
<1>2. CASE now' = now /\ \E t \in Texts, e \in Expiry : Insert(t, e)
  <2>1. PICK t \in Texts, e \in Expiry : Insert(t, e)
    BY <1>2
  <2> QED BY <1>0, <1>2, <2>1, InsertAdds
<1>3. CASE /\ last' = last /\ now' = now
           /\ \E S \in SUBSET DOMAIN table : table' = Only(S)
  <2>1. PICK S \in SUBSET DOMAIN table : table' = Only(S)
    BY <1>3
  <2> QED BY <1>0, <1>3, <2>1, OnlyShrinks
<1> QED BY <1>1, <1>2, <1>3 DEF TableStep

(* A row that appears is flagged when its text holds PII.                  *)
LEMMA RowsFlagged ==
  ASSUME TableTyped, TableStep, now' \in Times,
         \A i \in DOMAIN table : table[i].text \in Pii => table[i].sensitive
  PROVE  \A i \in DOMAIN table' : table'[i].text \in Pii => table'[i].sensitive
<1>1. CASE table' = table /\ last' = last
  BY <1>1
<1>2. CASE now' = now /\ \E t \in Texts, e \in Expiry : Insert(t, e)
  <2>1. PICK t \in Texts, e \in Expiry : Insert(t, e)
    BY <1>2
  <2>2. RowOf(t, e).text \in Pii => RowOf(t, e).sensitive
    BY DEF RowOf
  <2> QED BY <1>2, <2>1, <2>2, InsertAdds
<1>3. CASE /\ last' = last /\ now' = now
           /\ \E S \in SUBSET DOMAIN table : table' = Only(S)
  <2>1. PICK S \in SUBSET DOMAIN table : table' = Only(S)
    BY <1>3
  <2> QED BY <1>3, <2>1, OnlyShrinks
<1> QED BY <1>1, <1>2, <1>3 DEF TableStep

-------------------------------------------------------------------------------
(* What the sessions do to their window *)

(* The window after an entry was added: its entries are old ones or the new one. *)
LEMMA WindowSlides ==
  ASSUME NEW w \in Seq(SessionEntry), Len(w) <= MaxWindow, NEW e \in SessionEntry
  PROVE  /\ Slide(Append(w, e)) \in Seq(SessionEntry)
         /\ Len(Slide(Append(w, e))) <= MaxWindow
         /\ \A j \in DOMAIN Slide(Append(w, e)) :
              Slide(Append(w, e))[j] = e \/ \E k \in DOMAIN w : Slide(Append(w, e))[j] = w[k]
<1> SUFFICES ASSUME NEW a, a = Append(w, e)
             PROVE  /\ Slide(a) \in Seq(SessionEntry)
                    /\ Len(Slide(a)) <= MaxWindow
                    /\ \A j \in DOMAIN Slide(a) :
                         Slide(a)[j] = e \/ \E k \in DOMAIN w : Slide(a)[j] = w[k]
  OBVIOUS
<1>1. /\ a \in Seq(SessionEntry) /\ Len(a) = Len(w) + 1 /\ Len(w) \in Nat
      /\ \A k \in 1 .. Len(w) : a[k] = w[k]
      /\ a[Len(w) + 1] = e
  OBVIOUS
<1>2. MaxWindow \in Nat
  BY EntriesAssumption
<1>3. CASE Len(a) > MaxWindow
  <2>1. Slide(a) = Tail(a)
    BY <1>3 DEF Slide
  <2>2. a # <<>>
    BY <1>1
  <2>3. /\ Tail(a) \in Seq(SessionEntry) /\ Len(Tail(a)) = Len(a) - 1
        /\ \A j \in 1 .. Len(Tail(a)) : Tail(a)[j] = a[j + 1]
    BY <1>1, <2>2, HeadTailProperties
  <2>4. Len(Tail(a)) = Len(w)
    BY <1>1, <2>3
  <2>5. ASSUME NEW j \in DOMAIN Tail(a)
        PROVE  Tail(a)[j] = e \/ \E k \in DOMAIN w : Tail(a)[j] = w[k]
    <3>1. j \in 1 .. Len(w) /\ Tail(a)[j] = a[j + 1]
      BY <2>3, <2>4, <2>5
    <3>2. CASE j = Len(w)
      BY <1>1, <3>1, <3>2
    <3>3. CASE j # Len(w)
      <4>1. j + 1 \in 1 .. Len(w) /\ DOMAIN w = 1 .. Len(w)
        BY <1>1, <3>1, <3>3
      <4> QED BY <1>1, <3>1, <4>1
    <3> QED BY <3>2, <3>3
  <2> QED BY <2>1, <2>3, <2>4, <2>5
<1>4. CASE ~(Len(a) > MaxWindow)
  <2>1. Slide(a) = a /\ Len(a) <= MaxWindow
    BY <1>1, <1>2, <1>4 DEF Slide
  <2>2. ASSUME NEW j \in DOMAIN a
        PROVE  a[j] = e \/ \E k \in DOMAIN w : a[j] = w[k]
    <3>1. j = Len(w) + 1 \/ j \in DOMAIN w
      BY <1>1
    <3> QED BY <1>1, <3>1
  <2> QED BY <1>1, <2>1, <2>2
<1> QED BY <1>3, <1>4

-------------------------------------------------------------------------------
(* What a step does *)

LEMMA StepOfTable ==
  ASSUME TypeOK, [Next]_vars
  PROVE  TableStep /\ now' \in Times
<1> USE DEF TableStep
<1>0. now \in Times
  BY DEF TypeOK
<1>1. ASSUME NEW s \in Sessions, NEW t \in Texts, Remember(s, t) PROVE TableStep /\ now' \in Times
  <2>1. None \in Expiry
    BY DEF Expiry
  <2>2. Insert(t, None) /\ now' = now
    BY <1>1 DEF Remember
  <2> QED BY <1>0, <2>1, <2>2
<1>2. ASSUME NEW t \in Texts, NEW e \in Times, InsertExpiring(t, e) PROVE TableStep /\ now' \in Times
  <2>1. e \in Expiry
    BY DEF Expiry
  <2>2. Insert(t, e) /\ now' = now
    BY <1>2 DEF InsertExpiring
  <2> QED BY <1>0, <2>1, <2>2
<1>3. ASSUME NEW s \in Sessions, Delete(s) PROVE TableStep /\ now' \in Times
  <2>1. DOMAIN table \ {asked[s].id} \in SUBSET DOMAIN table
    OBVIOUS
  <2> QED BY <1>0, <1>3, <2>1 DEF Delete
<1>4. CASE PurgeExpired
  <2>1. {i \in DOMAIN table : ~IsExpired(i)} \in SUBSET DOMAIN table
    OBVIOUS
  <2> QED BY <1>0, <1>4, <2>1 DEF PurgeExpired
<1>5. ASSUME NEW s \in Sessions, NEW i \in DOMAIN table, AskForget(s, i)
      PROVE  TableStep /\ now' \in Times
  BY <1>0, <1>5 DEF AskForget
<1>6. ASSUME NEW s \in Sessions, Find(s) \/ GiveUp(s) \/ Clear(s) \/ Restart(s)
      PROVE  TableStep /\ now' \in Times
  BY <1>0, <1>6 DEF Find, GiveUp, Clear, Restart
<1>7. CASE Clock
  BY <1>7 DEF Clock
<1>8. CASE UNCHANGED vars
  BY <1>0, <1>8 DEF vars
<1> HIDE DEF TableStep
<1> QED BY <1>1, <1>2, <1>3, <1>4, <1>5, <1>6, <1>7, <1>8 DEF Next

WindowFlagged ==
  \A s \in Sessions : \A j \in DOMAIN window[s] :
    window[s][j].text \in Pii => window[s][j].sensitive

LEMMA WindowKept ==
  ASSUME WindowTyped, WindowFlagged, [Next]_vars
  PROVE  WindowTyped' /\ WindowFlagged'
<1> USE DEF WindowTyped, WindowFlagged
<1>1. ASSUME NEW s \in Sessions, NEW t \in Texts, Remember(s, t) PROVE WindowTyped' /\ WindowFlagged'
  <2>1. CASE t \in Blank
    BY <1>1, <2>1 DEF Remember
  <2>2. CASE t \notin Blank
    <3>0. (t \in Pii) \in BOOLEAN
      OBVIOUS
    <3>1. PICK e : e = [text |-> t, sensitive |-> t \in Pii]
      OBVIOUS
    <3>2. e \in SessionEntry /\ (e.text \in Pii => e.sensitive)
      BY <3>0, <3>1 DEF SessionEntry
    <3>3. PICK w : w = Slide(Append(window[s], e))
      OBVIOUS
    <3>4. window' = [window EXCEPT ![s] = w]
      BY <1>1, <2>2, <3>1, <3>3 DEF Remember
    <3>5. /\ w \in Seq(SessionEntry)
          /\ Len(w) <= MaxWindow
          /\ \A j \in DOMAIN w : w[j] = e \/ \E k \in DOMAIN window[s] : w[j] = window[s][k]
      BY <3>2, <3>3, WindowSlides
    <3>6. \A j \in DOMAIN w : w[j].text \in Pii => w[j].sensitive
      BY <3>2, <3>5
    <3>7. \A r \in Sessions : window'[r] = IF r = s THEN w ELSE window[r]
      BY <3>4
    <3>8. WindowTyped'
      BY <3>4, <3>5, <3>7
    <3>9. WindowFlagged'
      BY <3>6, <3>7
    <3> QED BY <3>8, <3>9
  <2> QED BY <2>1, <2>2
<1>2. ASSUME NEW s \in Sessions, Clear(s) \/ Restart(s) PROVE WindowTyped' /\ WindowFlagged'
  <2>1. window' = [window EXCEPT ![s] = <<>>]
    BY <1>2 DEF Clear, Restart
  <2>2. <<>> \in Seq(SessionEntry) /\ Len(<<>>) <= MaxWindow /\ DOMAIN <<>> = {}
    BY EntriesAssumption
  <2>3. \A r \in Sessions : window'[r] = IF r = s THEN <<>> ELSE window[r]
    BY <2>1
  <2> QED BY <2>1, <2>2, <2>3
<1>3. ASSUME NEW s \in Sessions,
             (\E i \in DOMAIN table : AskForget(s, i)) \/ Find(s) \/ GiveUp(s) \/ Delete(s)
      PROVE  WindowTyped' /\ WindowFlagged'
  BY <1>3 DEF AskForget, Find, GiveUp, Delete
<1>4. CASE \E t \in Texts, expires \in Times : InsertExpiring(t, expires)
  BY <1>4 DEF InsertExpiring
<1>5. CASE PurgeExpired \/ Clock \/ UNCHANGED vars
  BY <1>5 DEF PurgeExpired, Clock, vars
<1> HIDE DEF WindowTyped, WindowFlagged
<1> QED BY <1>1, <1>2, <1>3, <1>4, <1>5 DEF Next

(* The row under an id somebody asked about is the one that was seen, or   *)
(* none: ids that are given again would make it another.                   *)
LEMMA AskedKept ==
  ASSUME TableTyped, AskedTyped, Seen, TableStep, now' \in Times, [Next]_vars
  PROVE  AskedTyped' /\ Seen'
<1> DEFINE Good(a, tab) ==
      /\ a \in Request \cup {None}
      /\ a # None => a.id <= last' /\ (a.id \in DOMAIN tab => tab[a.id].text = a.text)
<1>0. /\ last \in Nat /\ last' \in Nat /\ last <= last' /\ MaxId \in Nat
      /\ \A i \in DOMAIN table' : i \in DOMAIN table => table'[i] = table[i]
      /\ \A i \in DOMAIN table' : i \notin DOMAIN table => i > last
  BY TableKept, EntriesAssumption DEF TableTyped
<1>1. ASSUME NEW s \in Sessions PROVE Good(asked[s], table')
  <2>1. CASE asked[s] = None
    BY <2>1
  <2>2. CASE asked[s] # None
    <3>1. asked[s] \in Request /\ asked[s].id <= last /\ asked[s].id \in Nat
      BY <2>2 DEF AskedTyped, Request, Ids
    <3>2. asked[s].id \in DOMAIN table' => asked[s].id \in DOMAIN table
      BY <1>0, <3>1
    <3>3. asked[s].id \in DOMAIN table' => table'[asked[s].id].text = asked[s].text
      BY <1>0, <2>2, <3>2 DEF Seen
    <3> QED BY <1>0, <3>1, <3>3
  <2> QED BY <2>1, <2>2
<1>2. ASSUME NEW s \in Sessions, NEW a, asked' = [asked EXCEPT ![s] = a], Good(a, table')
      PROVE  AskedTyped' /\ Seen'
  <2>1. \A r \in Sessions : asked'[r] = IF r = s THEN a ELSE asked[r]
    BY <1>2 DEF AskedTyped
  <2>2. \A r \in Sessions : Good(asked'[r], table')
    BY <1>1, <1>2, <2>1
  <2>3. asked' \in [Sessions -> Request \cup {None}]
    BY <1>2 DEF AskedTyped
  <2> QED BY <2>2, <2>3 DEF AskedTyped, Seen
<1>3. ASSUME asked' = asked PROVE AskedTyped' /\ Seen'
  BY <1>1, <1>3 DEF AskedTyped, Seen
<1>4. ASSUME NEW s \in Sessions, NEW i \in DOMAIN table, AskForget(s, i)
      PROVE  AskedTyped' /\ Seen'
  <2>1. PICK a : a = [id |-> i, text |-> table[i].text, found |-> FALSE]
    OBVIOUS
  <2>2. table' = table /\ last' = last /\ asked' = [asked EXCEPT ![s] = a]
    BY <1>4, <2>1 DEF AskForget
  <2>3. i \in Ids /\ i <= last /\ table[i].text \in Texts
    BY <1>0 DEF TableTyped, Ids, Row
  <2>4. Good(a, table')
    BY <2>1, <2>2, <2>3 DEF Request
  <2> QED BY <1>2, <2>2, <2>4
<1>5. ASSUME NEW s \in Sessions, Find(s) PROVE AskedTyped' /\ Seen'
  <2>1. Good(None, table')
    OBVIOUS
  <2>2. asked[s] \in Request
    BY <1>5 DEF Find, AskedTyped
  <2>3. PICK a : a = [asked[s] EXCEPT !.found = TRUE]
    OBVIOUS
  <2>4. a \in Request /\ a.id = asked[s].id /\ a.text = asked[s].text
    <3>1. PICK b \in Request : b = asked[s]
      BY <2>2
    <3>2. a = [b EXCEPT !.found = TRUE]
      BY <2>3, <3>1
    <3> QED BY <3>1, <3>2 DEF Request
  <2>5. Good(a, table')
    BY <1>1, <1>5, <2>4 DEF Find
  <2>6. asked' = [asked EXCEPT ![s] = a] \/ asked' = [asked EXCEPT ![s] = None]
    BY <1>5, <2>3 DEF Find
  <2> QED BY <1>2, <2>1, <2>5, <2>6
<1>6. ASSUME NEW s \in Sessions, GiveUp(s) \/ Delete(s) \/ Restart(s) PROVE AskedTyped' /\ Seen'
  <2>1. Good(None, table')
    OBVIOUS
  <2>2. asked' = [asked EXCEPT ![s] = None]
    BY <1>6 DEF GiveUp, Delete, Restart
  <2> QED BY <1>2, <2>1, <2>2
<1>7. CASE \/ \E s \in Sessions : (\E t \in Texts : Remember(s, t)) \/ Clear(s)
           \/ \E t \in Texts, expires \in Times : InsertExpiring(t, expires)
           \/ PurgeExpired \/ Clock \/ UNCHANGED vars
  BY <1>3, <1>7 DEF Remember, Clear, InsertExpiring, PurgeExpired, Clock, vars
<1> HIDE DEF Good
<1> QED BY <1>4, <1>5, <1>6, <1>7 DEF Next

(* Who is told that an entry is deleted deleted it.                        *)
LEMMA ToldKept ==
  ASSUME TableTyped, AskedTyped, ToldTyped, ForgottenOnceForAll, TableStep, now' \in Times,
         [Next]_vars
  PROVE  ToldTyped' /\ ForgottenOnceForAll'
<1>0. /\ last \in Nat /\ last' \in Nat /\ last <= last'
      /\ \A i \in DOMAIN table' : i \notin DOMAIN table => i > last
      /\ DOMAIN table \subseteq 1 .. last
  BY TableKept, EntriesAssumption DEF TableTyped
<1>1. \A s \in Sessions : told[s] \subseteq 1 .. last /\ told[s] \cap DOMAIN table' = {}
  BY <1>0 DEF ToldTyped, ForgottenOnceForAll
<1>2. 1 .. last \subseteq 1 .. last'
  BY <1>0
<1>3. ASSUME told' = told PROVE ToldTyped' /\ ForgottenOnceForAll'
  BY <1>1, <1>2, <1>3 DEF ToldTyped, ForgottenOnceForAll
<1>4. ASSUME NEW s \in Sessions, Delete(s) PROVE ToldTyped' /\ ForgottenOnceForAll'
  <2>1. CASE asked[s].id \notin DOMAIN table
    BY <1>3, <1>4, <2>1 DEF Delete
  <2>2. CASE asked[s].id \in DOMAIN table
    <3>1. PICK i \in DOMAIN table : i = asked[s].id
      BY <2>2
    <3>2. /\ told' = [told EXCEPT ![s] = @ \cup {i}]
          /\ DOMAIN table' = DOMAIN table \ {i}
      BY <1>4, <2>2, <3>1 DEF Delete, Only
    <3>3. \A r \in Sessions : told'[r] = IF r = s THEN told[r] \cup {i} ELSE told[r]
      BY <3>2 DEF ToldTyped
    <3>4. \A r \in Sessions : i \notin told[r]
      BY <3>1 DEF ForgottenOnceForAll
    <3>5. i \in 1 .. last'
      BY <1>0, <1>2
    <3>6. \A r \in Sessions : told'[r] \subseteq 1 .. last'
      BY <1>1, <1>2, <3>3, <3>5
    <3>7. ToldTyped'
      BY <3>2, <3>6 DEF ToldTyped
    <3>8. \A r \in Sessions : told'[r] \cap DOMAIN table' = {}
      BY <1>1, <3>2, <3>3
    <3>9. \A r, q \in Sessions : q # r => told'[r] \cap told'[q] = {}
      BY <3>3, <3>4 DEF ForgottenOnceForAll
    <3> QED BY <3>7, <3>8, <3>9 DEF ForgottenOnceForAll
  <2> QED BY <2>1, <2>2
<1>5. CASE \/ \E s \in Sessions :
                \/ \E t \in Texts : Remember(s, t)
                \/ \E i \in DOMAIN table : AskForget(s, i)
                \/ Find(s) \/ GiveUp(s) \/ Clear(s) \/ Restart(s)
           \/ \E t \in Texts, expires \in Times : InsertExpiring(t, expires)
           \/ PurgeExpired \/ Clock \/ UNCHANGED vars
  BY <1>3, <1>5 DEF Remember, AskForget, Find, GiveUp, Clear, Restart, InsertExpiring,
                    PurgeExpired, Clock, vars
<1> QED BY <1>4, <1>5 DEF Next

-------------------------------------------------------------------------------
(* The inductive invariant *)

Kept == TypeOK /\ Flagged /\ Seen /\ ForgottenOnceForAll

LEMMA KeptAtFirst == Init => Kept
<1> SUFFICES ASSUME Init PROVE Kept
  OBVIOUS
<1> USE EntriesAssumption DEF Init
<1>1. DOMAIN table = {} /\ last = 0 /\ now \in Times
  BY DEF Times
<1>2. TableTyped
  BY <1>1 DEF TableTyped
<1>3. WindowTyped /\ \A s \in Sessions : DOMAIN window[s] = {}
  BY DEF WindowTyped
<1>4. AskedTyped /\ \A s \in Sessions : asked[s] = None
  BY DEF AskedTyped
<1>5. ToldTyped /\ \A s \in Sessions : told[s] = {}
  BY DEF ToldTyped
<1>6. Flagged /\ Seen
  BY <1>1, <1>3, <1>4 DEF Flagged, Seen
<1>7. ForgottenOnceForAll
  BY <1>5 DEF ForgottenOnceForAll
<1> QED BY <1>2, <1>3, <1>4, <1>5, <1>6, <1>7, Parts DEF Kept

LEMMA KeptByEveryStep == Kept /\ [Next]_vars => Kept'
<1> SUFFICES ASSUME Kept, [Next]_vars PROVE Kept'
  OBVIOUS
<1>1. TableTyped /\ WindowTyped /\ AskedTyped /\ ToldTyped
  BY Parts DEF Kept
<1>2. TableStep /\ now' \in Times
  BY StepOfTable DEF Kept
<1>3. TableTyped'
  BY <1>1, <1>2, TableKept
<1>4. \A i \in DOMAIN table' : table'[i].text \in Pii => table'[i].sensitive
  BY <1>1, <1>2, RowsFlagged DEF Kept, Flagged
<1>5. WindowTyped' /\ WindowFlagged'
  BY <1>1, WindowKept DEF Kept, Flagged, WindowFlagged
<1>6. AskedTyped' /\ Seen'
  BY <1>1, <1>2, AskedKept DEF Kept
<1>7. ToldTyped' /\ ForgottenOnceForAll'
  BY <1>1, <1>2, ToldKept DEF Kept
<1>8. Flagged'
  BY <1>4, <1>5 DEF Flagged, WindowFlagged
<1>9. TypeOK'
  BY <1>3, <1>5, <1>6, <1>7 DEF TypeOK, TableTyped, WindowTyped, AskedTyped, ToldTyped
<1> QED BY <1>6, <1>7, <1>8, <1>9 DEF Kept

THEOREM AlwaysKept == Spec => []Kept
BY KeptAtFirst, KeptByEveryStep, PTL DEF Spec

(* The table, the windows, the pending requests and the reports stay of    *)
(* their types: the windows within their size, every id given before.      *)
THEOREM TypeCorrect == Spec => []TypeOK
<1>1. Kept => TypeOK
  BY DEF Kept
<1> QED BY <1>1, AlwaysKept, PTL

(* Unless asked for, no text with PII is retrieved, injected for the cloud *)
(* or put into a snippet.                                                  *)
LEMMA FlaggedIsNotShown == Flagged => NothingSensitiveShown
<1> SUFFICES ASSUME Flagged PROVE NothingSensitiveShown
  OBVIOUS
<1>1. ASSUME NEW R \in Retrieved(FALSE), NEW i \in R PROVE table[i].text \notin Pii
  <2>1. i \in Visible(FALSE)
    BY <1>1 DEF Retrieved
  <2> QED BY <2>1 DEF Visible, Flagged
<1>2. ASSUME NEW R \in Injected(TRUE, FALSE), NEW i \in R PROVE table[i].text \notin Pii
  <2>1. PICK Q \in Retrieved(TRUE) : R = {j \in Q : ~table[j].sensitive}
    BY <1>2 DEF Injected
  <2>2. i \in DOMAIN table /\ ~table[i].sensitive
    BY <1>2, <2>1 DEF Retrieved, Visible
  <2> QED BY <2>2 DEF Flagged
<1>3. ASSUME NEW s \in Sessions, NEW n \in 0 .. MaxWindow, NEW j \in Snippet(s, n, FALSE)
      PROVE  window[s][j].text \notin Pii
  <2>1. j \in DOMAIN window[s] /\ ~window[s][j].sensitive
    BY <1>3 DEF Snippet
  <2> QED BY <2>1 DEF Flagged
<1> QED BY <1>1, <1>2, <1>3 DEF NothingSensitiveShown

THEOREM SensitiveIsNotShown == Spec => []NothingSensitiveShown
<1>1. Kept => NothingSensitiveShown
  BY FlaggedIsNotShown DEF Kept
<1> QED BY <1>1, AlwaysKept, PTL

(* One session is told that an entry was deleted, and the entry is gone.   *)
THEOREM ForgottenOnce == Spec => []ForgottenOnceForAll
<1>1. Kept => ForgottenOnceForAll
  BY DEF Kept
<1> QED BY <1>1, AlwaysKept, PTL

(* Only Delete reports anything.                                           *)
LEMMA Reports ==
  ASSUME Next, told' # told
  PROVE  \E s \in Sessions : Delete(s)
BY DEF Next, Remember, AskForget, Find, GiveUp, Clear, Restart, InsertExpiring, PurgeExpired, Clock

LEMMA DeletesWhatWasSeen ==
  ASSUME Kept, NEW r \in Sessions, Delete(r), NEW s \in Sessions, told'[s] # told[s]
  PROVE  /\ asked[s] # None
         /\ told'[s] = told[s] \cup {asked[s].id}
         /\ asked[s].id \in DOMAIN table
         /\ table[asked[s].id].text = asked[s].text
<1>1. told \in [Sessions -> SUBSET (1 .. last)]
  BY DEF Kept, TypeOK
<1>2. asked[r] # None /\ asked[r].id \in DOMAIN table
  BY DEF Delete
<1>3. told' = [told EXCEPT ![r] = @ \cup {asked[r].id}]
  BY <1>2 DEF Delete
<1>4. s = r /\ told'[s] = told[s] \cup {asked[s].id}
  BY <1>1, <1>3
<1> QED BY <1>2, <1>4 DEF Kept, Seen

(* What a forget deletes is what its session had seen when it asked.       *)
THEOREM ForgetsTheRightOne == Spec => ForgottenWasAskedFor
<1>1. ASSUME Kept, [Next]_vars
      PROVE  [\A s \in Sessions :
                told'[s] # told[s] =>
                  /\ asked[s] # None
                  /\ told'[s] = told[s] \cup {asked[s].id}
                  /\ asked[s].id \in DOMAIN table
                  /\ table[asked[s].id].text = asked[s].text]_vars
  <2>1. CASE UNCHANGED vars
    BY <2>1
  <2>2. CASE Next
    <3>1. SUFFICES ASSUME NEW s \in Sessions, told'[s] # told[s]
                   PROVE  /\ asked[s] # None
                          /\ told'[s] = told[s] \cup {asked[s].id}
                          /\ asked[s].id \in DOMAIN table
                          /\ table[asked[s].id].text = asked[s].text
      OBVIOUS
    <3>2. PICK r \in Sessions : Delete(r)
      BY <2>2, <3>1, Reports
    <3> QED BY <1>1, <3>1, <3>2, DeletesWhatWasSeen
  <2> QED BY <1>1, <2>1, <2>2
<1> QED BY <1>1, AlwaysKept, PTL DEF Spec, ForgottenWasAskedFor

(* A row is never changed; it leaves the table when it has expired, or by  *)
(* the forget that reports it.                                             *)
LEMMA RowLeavesKnown ==
  ASSUME Kept, Next, NEW i \in DOMAIN table
  PROVE  IF i \in DOMAIN table'
         THEN table'[i] = table[i]
         ELSE IsExpired(i) \/ \E s \in Sessions : i \in told'[s] \ told[s]
<1>1. TableTyped /\ ForgottenOnceForAll /\ told \in [Sessions -> SUBSET (1 .. last)]
  BY Parts DEF Kept, ToldTyped
<1>2. TableStep /\ now' \in Times
  BY StepOfTable DEF Kept
<1>3. \A k \in DOMAIN table' : k \in DOMAIN table => table'[k] = table[k]
  BY <1>1, <1>2, TableKept
<1>4. ASSUME i \notin DOMAIN table'
      PROVE  IsExpired(i) \/ \E s \in Sessions : i \in told'[s] \ told[s]
  <2>1. ASSUME NEW s \in Sessions, Delete(s) PROVE i \in told'[s] \ told[s]
    <3>1. DOMAIN table' = DOMAIN table \ {asked[s].id}
      BY <2>1 DEF Delete, Only
    <3>2. i = asked[s].id
      BY <1>4, <3>1
    <3>3. told' = [told EXCEPT ![s] = @ \cup {i}]
      BY <2>1, <3>2 DEF Delete
    <3>4. i \notin told[s]
      BY <1>1 DEF ForgottenOnceForAll
    <3> QED BY <1>1, <3>3, <3>4
  <2>2. CASE PurgeExpired
    BY <1>4, <2>2 DEF PurgeExpired, Only
  <2>3. ASSUME NEW t \in Texts, NEW e \in Expiry, Insert(t, e) PROVE FALSE
    BY <1>4, <2>3 DEF Insert, With
  <2>4. None \in Expiry /\ Times \subseteq Expiry
    BY DEF Expiry
  <2>5. \A s \in Sessions, t \in Texts : ~Remember(s, t)
    BY <2>3, <2>4 DEF Remember
  <2>6. \A t \in Texts, e \in Times : ~InsertExpiring(t, e)
    BY <2>3, <2>4 DEF InsertExpiring
  <2>7. table' # table
    BY <1>4
  <2>8. PurgeExpired \/ \E s \in Sessions : Delete(s)
    BY <2>5, <2>6, <2>7 DEF Next, AskForget, Find, GiveUp, Clear, Restart, Clock
  <2> QED BY <2>1, <2>2, <2>8
<1> QED BY <1>3, <1>4

THEOREM NothingElseIsLost == Spec => NothingIsLost
<1>1. ASSUME Kept, [Next]_vars
      PROVE  [\A i \in DOMAIN table :
                IF i \in DOMAIN table'
                THEN table'[i] = table[i]
                ELSE IsExpired(i) \/ \E s \in Sessions : i \in told'[s] \ told[s]]_vars
  <2>1. CASE UNCHANGED vars
    BY <2>1
  <2>2. CASE Next
    BY <1>1, <2>2, RowLeavesKnown
  <2> QED BY <1>1, <2>1, <2>2
<1> QED BY <1>1, AlwaysKept, PTL DEF Spec, NothingIsLost
===============================================================================
