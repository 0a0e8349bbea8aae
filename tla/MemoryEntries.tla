----------------------------- MODULE MemoryEntries -----------------------------
(***************************************************************************)
(* What the memory holds and who is shown it: the table memory_entries of  *)
(* agent/memory/store.py, the window of agent/memory/session.py, retrieval *)
(* (retrieval.py) and injection (injector.py), and the tools remember,     *)
(* forget, recall and memory.list of agent/tools/memory.py.                *)
(*                                                                         *)
(* Several sessions, each with its window, share the table.  A statement   *)
(* of SQL is one step (isolation_level=None), so that a forget, which asks *)
(* the user, looks the entry up and deletes it, is three.  A text is known *)
(* by the verdicts of the code on it: whether it holds PII, which patterns *)
(* of the injection guard it matches, whether it is blank.                 *)
(***************************************************************************)
EXTENDS Integers, Sequences, FiniteSets

CONSTANTS
  Sessions,   \* sessions with a connection to the same database
  Texts,      \* contents
  Pii,        \* those detect_pii finds something in
  Blank,      \* those that strip() leaves nothing of
  Patterns,   \* high and low patterns of the guard each text matches
  MaxWindow,  \* max_entries of a session
  MaxId,      \* bound: entries ever inserted
  MaxTime,    \* bound: the clock shows 0 .. MaxTime
  None

ASSUME EntriesAssumption ==
  /\ Pii \subseteq Texts
  /\ Blank \subseteq Texts
  /\ Patterns \in [Texts -> [high : Nat, low : Nat]]
  /\ MaxWindow \in Nat \ {0}
  /\ MaxId \in Nat
  /\ MaxTime \in Nat
  /\ None \notin Nat
  /\ None \notin [id : Nat, text : Texts, found : BOOLEAN]

VARIABLES
  table,   \* memory_entries: id -> the row
  last,    \* highest id ever given (sqlite_sequence)
  now,     \* int(time.time())
  window,  \* _entries of each session
  asked,   \* the forget each session has under way: the id and the text it saw
  told     \* history: ids each session was told are deleted

vars == <<table, last, now, window, asked, told>>

Times == 0 .. MaxTime
Expiry == Times \cup {None}
Ids == 1 .. MaxId

Row == [text : Texts, sensitive : BOOLEAN, expires : Expiry]
SessionEntry == [text : Texts, sensitive : BOOLEAN]
Request == [id : Ids, text : Texts, found : BOOLEAN]

TypeOK ==
  /\ last \in 0 .. MaxId
  /\ DOMAIN table \subseteq 1 .. last
  /\ table \in [DOMAIN table -> Row]
  /\ now \in Times
  /\ window \in [Sessions -> Seq(SessionEntry)]
  /\ \A s \in Sessions : Len(window[s]) <= MaxWindow
  /\ asked \in [Sessions -> Request \cup {None}]
  /\ \A s \in Sessions : asked[s] # None => asked[s].id <= last
  /\ told \in [Sessions -> SUBSET (1 .. last)]

Init ==
  /\ table = [i \in {} |-> None]
  /\ last = 0
  /\ now = 0
  /\ window = [s \in Sessions |-> <<>>]
  /\ asked = [s \in Sessions |-> None]
  /\ told = [s \in Sessions |-> {}]

-------------------------------------------------------------------------------
(* What readers are shown.  Reading changes nothing: each operator is the  *)
(* set of the results a call may have.                                     *)

IsExpired(i) == table[i].expires # None /\ table[i].expires <= now

(* The WHERE clause that list_entries and search_fts share. *)
Visible(include_sensitive) ==
  {i \in DOMAIN table : ~IsExpired(i) /\ (include_sensitive \/ ~table[i].sensitive)}

(* recall and memory.list: which of the visible entries come back, and how *)
(* many, is up to the words of the query, the embeddings, k and min_score. *)
Retrieved(include_sensitive) == SUBSET Visible(include_sensitive)

(* inject_memory_context: the best are retrieved, then filtered. *)
Injected(target_is_cloud, allow_sensitive_in_cloud) ==
  IF target_is_cloud /\ ~allow_sensitive_in_cloud
  THEN {{i \in R : ~table[i].sensitive} : R \in Retrieved(TRUE)}
  ELSE Retrieved(TRUE)

(* context_snippet: positions of the last n entries of the window, after   *)
(* the sensitive ones are taken out.  The last 0 are all of them.          *)
Snippet(s, n, allow_sensitive) ==
  LET kept == {j \in DOMAIN window[s] : allow_sensitive \/ ~window[s][j].sensitive}
  IN {j \in kept : n = 0 \/ Cardinality({i \in kept : i >= j}) <= n}

-------------------------------------------------------------------------------
(* Writers *)

(* scan(), in tenths; the cap at 1.0 decides nothing. *)
Confidence(t) == IF t \in Blank THEN 0 ELSE 5 * Patterns[t].high + 2 * Patterns[t].low

(* assert_safe_for_injection under InjectionPolicy.WRAP raises. *)
Rejected(t) == Confidence(t) >= 5

With(i, row) == [j \in DOMAIN table \cup {i} |-> IF j = i THEN row ELSE table[j]]
Only(S) == [j \in S |-> table[j]]

(* A fault: without AUTOINCREMENT, the id after the highest in the table.  *)
NewIdReusing == IF DOMAIN table = {} THEN 1
                ELSE 1 + (CHOOSE i \in DOMAIN table : \A j \in DOMAIN table : j <= i)

(* AUTOINCREMENT *)
NewId == last + 1

(* A fault: the row is inserted with the default of insert_entry. *)
RowOfUnflagged(t, expires) ==
  [text |-> t, sensitive |-> FALSE, expires |-> expires]

(* The row of a text the guard lets pass.  A suspicious one is stored      *)
(* between delimiters, which changes none of the verdicts on it.           *)
RowOf(t, expires) ==
  [text |-> t, sensitive |-> t \in Pii, expires |-> expires]

Insert(t, expires) ==
  /\ ~Rejected(t)
  /\ last < MaxId
  /\ last' = last + 1
  /\ table' = With(NewId, RowOf(t, expires))

(* A fault: the window grows. *)
SlideUntrimmed(w) == w

(* The oldest entry makes place. *)
Slide(w) == IF Len(w) > MaxWindow THEN Tail(w) ELSE w

(* remember: the row, then session.add, which raises on a blank text when  *)
(* the row is already there.  The window keeps the bare text.              *)
Remember(s, t) ==
  /\ Insert(t, None)
  /\ window' = IF t \in Blank THEN window
               ELSE [window EXCEPT ![s] =
                       Slide(Append(@, [text |-> t, sensitive |-> t \in Pii]))]
  /\ UNCHANGED <<now, asked, told>>

(* Another caller of insert_entry, who gives the row an expiry and treats  *)
(* the text as remember does.                                              *)
InsertExpiring(t, expires) ==
  /\ Insert(t, expires)
  /\ UNCHANGED <<now, window, asked, told>>

(* The model calls forget with an id that recall or memory.list gave it,   *)
(* and the executor asks the user.                                         *)
AskForget(s, i) ==
  /\ asked[s] = None
  /\ i \in Visible(TRUE)
  /\ asked' = [asked EXCEPT ![s] = [id |-> i, text |-> table[i].text, found |-> FALSE]]
  /\ UNCHANGED <<table, last, now, window, told>>

(* The user said yes: get_entry, which sees expired entries too. *)
Find(s) ==
  /\ asked[s] # None /\ ~asked[s].found
  /\ asked' = [asked EXCEPT ![s] = IF asked[s].id \in DOMAIN table
                                   THEN [@ EXCEPT !.found = TRUE] ELSE None]
  /\ UNCHANGED <<table, last, now, window, told>>

(* The user said no, or the database raised an error. *)
GiveUp(s) ==
  /\ asked[s] # None
  /\ asked' = [asked EXCEPT ![s] = None]
  /\ UNCHANGED <<table, last, now, window, told>>

(* A fault: the number of rows the statement deleted is not looked at. *)
DeleteBlindly(s) ==
  /\ asked[s] # None /\ asked[s].found
  /\ table' = Only(DOMAIN table \ {asked[s].id})
  /\ told' = [told EXCEPT ![s] = @ \cup {asked[s].id}]
  /\ asked' = [asked EXCEPT ![s] = None]
  /\ UNCHANGED <<last, now, window>>

(* delete_entry, and what the tool reports. *)
Delete(s) ==
  /\ asked[s] # None /\ asked[s].found
  /\ table' = Only(DOMAIN table \ {asked[s].id})
  /\ told' = IF asked[s].id \in DOMAIN table
             THEN [told EXCEPT ![s] = @ \cup {asked[s].id}] ELSE told
  /\ asked' = [asked EXCEPT ![s] = None]
  /\ UNCHANGED <<last, now, window>>

(* A fault: rows that have any expiry are purged. *)
PurgeExpiring ==
  /\ table' = Only({i \in DOMAIN table : table[i].expires = None})
  /\ UNCHANGED <<last, now, window, asked, told>>

PurgeExpired ==
  /\ table' = Only({i \in DOMAIN table : ~IsExpired(i)})
  /\ UNCHANGED <<last, now, window, asked, told>>

(* SessionMemory.clear *)
Clear(s) ==
  /\ window' = [window EXCEPT ![s] = <<>>]
  /\ UNCHANGED <<table, last, now, asked, told>>

(* The session's process ends and another begins. *)
Restart(s) ==
  /\ window' = [window EXCEPT ![s] = <<>>]
  /\ asked' = [asked EXCEPT ![s] = None]
  /\ UNCHANGED <<table, last, now, told>>

Clock ==
  /\ now' \in Times
  /\ UNCHANGED <<table, last, window, asked, told>>

Next ==
  \/ \E s \in Sessions :
       \/ \E t \in Texts : Remember(s, t)
       \/ \E i \in DOMAIN table : AskForget(s, i)
       \/ Find(s) \/ GiveUp(s) \/ Delete(s)
       \/ Clear(s) \/ Restart(s)
  \/ \E t \in Texts, expires \in Times : InsertExpiring(t, expires)
  \/ PurgeExpired
  \/ Clock

Spec == Init /\ [][Next]_vars

-------------------------------------------------------------------------------
(* Properties *)

(* No text with PII reaches a cloud model, a recall or a snippet unless    *)
(* the sensitive ones were asked for: both copies remember() makes carry   *)
(* the flag, whatever was forgotten, purged and inserted in between.       *)
NothingSensitiveShown ==
  /\ \A R \in Retrieved(FALSE) \cup Injected(TRUE, FALSE) : \A i \in R : table[i].text \notin Pii
  /\ \A s \in Sessions : \A n \in 0 .. MaxWindow :
       \A j \in Snippet(s, n, FALSE) : window[s][j].text \notin Pii

(* The entry a forget deletes holds the text the session had seen under    *)
(* that id when the user was asked, though others delete and insert while  *)
(* the user thinks.                                                        *)
ForgottenWasAskedFor ==
  [][\A s \in Sessions :
       told'[s] # told[s] =>
         /\ asked[s] # None
         /\ told'[s] = told[s] \cup {asked[s].id}
         /\ asked[s].id \in DOMAIN table
         /\ table[asked[s].id].text = asked[s].text]_vars

(* "Eliminada permanentemente" is said once, to one session, of an id that *)
(* is in the table no more.                                                *)
ForgottenOnceForAll ==
  \A s \in Sessions :
    /\ told[s] \cap DOMAIN table = {}
    /\ \A r \in Sessions : r # s => told[s] \cap told[r] = {}

(* A row somebody could still be shown leaves the table only by a forget   *)
(* that reports it, and no row is ever replaced by another.                *)
NothingIsLost ==
  [][\A i \in DOMAIN table :
       IF i \in DOMAIN table'
       THEN table'[i] = table[i]
       ELSE IsExpired(i) \/ \E s \in Sessions : i \in told'[s] \ told[s]]_vars
=================================================================================
