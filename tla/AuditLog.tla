-------------------------------- MODULE AuditLog --------------------------------
(***************************************************************************)
(* The audit log of the memory, agent/memory/audit.py: a file of lines     *)
(* chained by their HMACs.  append() reads the last line and then writes   *)
(* the next, with no lock between the two; the system may cut the write    *)
(* short, its length is not looked at; and somebody without the key edits  *)
(* the file, as the tests of verify() do.                                  *)
(*                                                                         *)
(* An HMAC is the key together with what was signed, so that no two of     *)
(* them are equal.  A line that is not JSON is Garbage and has no number,  *)
(* and the last line may have lost its end, so that the next one is glued  *)
(* to it.                                                                  *)
(***************************************************************************)
EXTENDS SequencesExt, Integers

CONSTANTS
  Writers,     \* processes that append
  Keys,        \* HMAC keys, that of a memory before and after a rotation
  Ops,         \* what an entry tells: op, target, actor, extra, ts
  MaxAppends,  \* bound: appends that write
  None

ASSUME BoundAssumption == MaxAppends \in Nat

VARIABLES
  lines,    \* the file
  ended,    \* whether its last line has its end
  seen,     \* what each append in progress goes by: [key, op, seq, prev]
  written,  \* history: the entries append() wrote, in the order it did
  faults    \* history: "race", "cut" and "edit", once one happened

vars == <<lines, ended, seen, written, faults>>

Garbage == [seq |-> 0]

TypeOK ==
  /\ \A i \in DOMAIN lines :
       lines[i] # Garbage => lines[i].seq \in 1 .. MaxAppends /\ lines[i].op \in Ops
  /\ ended \in BOOLEAN /\ (~ended => lines # <<>>)
  /\ DOMAIN seen = Writers
  /\ \A w \in Writers :
       seen[w] # None => /\ seen[w].key \in Keys /\ seen[w].op \in Ops
                         /\ seen[w].seq \in 1 .. Len(written) + 1
  /\ Len(written) <= MaxAppends
  /\ faults \subseteq {"race", "cut", "edit"}

Init ==
  /\ lines = <<>>
  /\ ended = TRUE
  /\ seen = [w \in Writers |-> None]
  /\ written = <<>>
  /\ faults = {}

-------------------------------------------------------------------------------
(* verify *)

GENESIS_HMAC == <<>>

Hmac(key, seq, op, prev) == <<key, seq, op, prev>>

(* The HMAC the entry at line i has to follow. *)
Before(i) == IF i = 1 THEN GENESIS_HMAC ELSE lines[i - 1].mac

(* A fault: the HMACs are chained and never recomputed. *)
VerifyUnsigned(key) ==
  \A i \in DOMAIN lines :
    lines[i] # Garbage /\ lines[i].seq = i /\ lines[i].prev = Before(i)

(* A fault: the last entry alone is checked. *)
VerifyLast(key) ==
  LET n == Len(lines) IN
  n > 0 => /\ lines[n] # Garbage
           /\ lines[n].mac = Hmac(key, lines[n].seq, lines[n].op, lines[n].prev)

(* verify() returns and does not raise TamperedAuditError. *)
Verify(key) ==
  \A i \in DOMAIN lines :
    /\ lines[i] # Garbage
    /\ lines[i].seq = i
    /\ lines[i].prev = Before(i)
    /\ lines[i].mac = Hmac(key, i, lines[i].op, lines[i].prev)

-------------------------------------------------------------------------------
(* append *)

LastSeq == IF lines = <<>> THEN 0 ELSE Last(lines).seq

LastHmac == IF lines = <<>> THEN GENESIS_HMAC ELSE Last(lines).mac

(* A fault: the entry takes the number of the one before it. *)
ReadSeqKept(w, k, o) ==
  /\ seen[w] = None
  /\ \A i \in DOMAIN lines : lines[i] # Garbage
  /\ seen' = [seen EXCEPT ![w] = [key |-> k, op |-> o, seq |-> LastSeq, prev |-> LastHmac]]
  /\ faults' = IF \E v \in Writers : seen[v] # None THEN faults \cup {"race"} ELSE faults
  /\ UNCHANGED <<lines, ended, written>>

(* _last_hmac_and_seq: a line that is not JSON, wherever it is, raises     *)
(* AuditError, and nothing is written.                                     *)
Read(w, k, o) ==
  /\ seen[w] = None
  /\ \A i \in DOMAIN lines : lines[i] # Garbage
  /\ seen' = [seen EXCEPT ![w] = [key |-> k, op |-> o, seq |-> LastSeq + 1, prev |-> LastHmac]]
  /\ faults' = IF \E v \in Writers : seen[v] # None THEN faults \cup {"race"} ELSE faults
  /\ UNCHANGED <<lines, ended, written>>

(* A fault: the entry is signed before prev_hmac is put into it. *)
EntryUnchained(s) ==
  [seq |-> s.seq, op |-> s.op, prev |-> s.prev,
   mac |-> Hmac(s.key, s.seq, s.op, GENESIS_HMAC)]

Entry(s) ==
  [seq |-> s.seq, op |-> s.op, prev |-> s.prev, mac |-> Hmac(s.key, s.seq, s.op, s.prev)]

(* The file with one more line, glued to the last if that has no end. *)
With(line) ==
  IF ended THEN Append(lines, line) ELSE [lines EXCEPT ![Len(lines)] = Garbage]

(* O_APPEND: the line is written where the file ends by now. *)
Write(w) ==
  /\ seen[w] # None /\ Len(written) < MaxAppends
  /\ lines' = With(Entry(seen[w]))
  /\ ended' = TRUE
  /\ written' = Append(written, Entry(seen[w]))
  /\ seen' = [seen EXCEPT ![w] = None]
  /\ UNCHANGED faults

(* A part of the line is written, or all of it but its end. *)
WriteCut(w) ==
  /\ seen[w] # None /\ Len(written) < MaxAppends
  /\ \/ lines' = With(Garbage) /\ UNCHANGED written
     \/ lines' = With(Entry(seen[w])) /\ written' = Append(written, Entry(seen[w]))
  /\ ended' = FALSE
  /\ seen' = [seen EXCEPT ![w] = None]
  /\ faults' = faults \cup {"cut"}

(* OSError, or the process dies, before anything is written. *)
WriteFails(w) ==
  /\ seen[w] # None
  /\ seen' = [seen EXCEPT ![w] = None]
  /\ UNCHANGED <<lines, ended, written, faults>>

-------------------------------------------------------------------------------
(* Somebody edits the file, one line at a time. *)

Edited == ended' = TRUE /\ faults' = faults \cup {"edit"} /\ UNCHANGED <<seen, written>>

Change(i, o) ==
  /\ lines[i] # Garbage /\ lines[i].op # o
  /\ lines' = [lines EXCEPT ![i].op = o]
  /\ Edited

Delete(i) ==
  /\ lines' = RemoveAt(lines, i)
  /\ Edited

Duplicate(i) ==
  /\ Len(lines) < MaxAppends
  /\ lines' = InsertAt(lines, i, lines[i])
  /\ Edited

Next ==
  \/ \E w \in Writers, k \in Keys, o \in Ops : Read(w, k, o)
  \/ \E w \in Writers : Write(w) \/ WriteCut(w) \/ WriteFails(w)
  \/ \E i \in DOMAIN lines :
       \/ \E o \in Ops : Change(i, o)
       \/ Delete(i)
       \/ Duplicate(i)

Spec == Init /\ [][Next]_vars

-------------------------------------------------------------------------------
(* Properties *)

(* audit.py:18-29: whatever was raced, cut short and edited, a log that    *)
(* verifies tells nothing but what was appended with its key, in the order *)
(* it was; what may be missing is missing from its end.                    *)
AcceptedIsHistory ==
  \A k \in Keys : Verify(k) =>
    \A i \in DOMAIN lines : \E b \in DOMAIN written :
      /\ written[b] = lines[i]
      /\ written[b].mac[1] = k
      /\ i > 1 => \E a \in 1 .. b - 1 : written[a] = lines[i - 1]

(* A log that one process at a time appended to, that nobody edited and    *)
(* no write was cut short in, holds every entry and verifies.              *)
CleanLogVerifies ==
  \A k \in Keys :
    faults = {} /\ (\A i \in DOMAIN written : written[i].mac[1] = k)
      => Verify(k) /\ lines = written

(* audit.py:18-29: a log that was tampered with does not heal: no append   *)
(* makes a log verify that did not before.                                 *)
BrokenStaysBroken ==
  [][ \A k \in Keys : seen' # seen /\ ~Verify(k) => ~Verify(k)' ]_vars
===============================================================================
