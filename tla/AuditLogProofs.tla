----------------------------- MODULE AuditLogProofs -----------------------------
(***************************************************************************)
(* Proofs about AuditLog, for every number of writers, keys and entries.   *)
(*                                                                         *)
(* The inductive invariant has two parts.  Signed holds whatever is raced, *)
(* cut short and edited: every HMAC in the file, or about to be chained    *)
(* to, is that of an entry that was written.  Clean holds until the first  *)
(* fault: the file is what was written, and the one append in progress     *)
(* read its end.                                                           *)
(***************************************************************************)
EXTENDS AuditLog, SequenceTheorems, TLAPS

IsSeq(s) == \E S : s \in Seq(S)

(* Every element of s is one of t. *)
DrawnFrom(s, t) == \A i \in DOMAIN s : \E j \in DOMAIN t : s[i] = t[j]

LEMMA SeqDomain == ASSUME NEW s, IsSeq(s)
                   PROVE  Len(s) \in Nat /\ DOMAIN s = 1 .. Len(s)
BY DEF IsSeq

LEMMA AppendOne ==
  ASSUME NEW s, IsSeq(s), NEW e
  PROVE  /\ IsSeq(Append(s, e))
         /\ Len(Append(s, e)) = Len(s) + 1
         /\ \A i \in 1 .. Len(s) : Append(s, e)[i] = s[i]
         /\ Append(s, e)[Len(s) + 1] = e
<1>1. PICK S : s \in Seq(S)
  BY DEF IsSeq
<1> DEFINE T == S \cup {e}
<1>2. s \in Seq(T) /\ e \in T
  BY <1>1, SeqMonotonic
<1> HIDE DEF T
<1> QED BY <1>2 DEF IsSeq

LEMMA ReplaceOne ==
  ASSUME NEW s, IsSeq(s), NEW i \in DOMAIN s, NEW e
  PROVE  /\ IsSeq([s EXCEPT ![i] = e])
         /\ Len([s EXCEPT ![i] = e]) = Len(s)
<1>1. PICK S : s \in Seq(S)
  BY DEF IsSeq
<1> DEFINE T == S \cup {e}
<1>2. s \in Seq(T) /\ e \in T
  BY <1>1, SeqMonotonic
<1> HIDE DEF T
<1>3. [s EXCEPT ![i] = e] \in Seq(T) /\ Len([s EXCEPT ![i] = e]) = Len(s)
  BY <1>2
<1> QED BY <1>3 DEF IsSeq

LEMMA RemoveOne ==
  ASSUME NEW s, IsSeq(s), NEW i \in DOMAIN s
  PROVE  IsSeq(RemoveAt(s, i)) /\ DrawnFrom(RemoveAt(s, i), s)
<1>1. PICK S : s \in Seq(S)
  BY DEF IsSeq
<1> DEFINE a == SubSeq(s, 1, i - 1)
           b == SubSeq(s, i + 1, Len(s))
<1>2. Len(s) \in Nat /\ DOMAIN s = 1 .. Len(s) /\ i \in 1 .. Len(s)
  BY <1>1
<1>3. /\ a \in Seq(S) /\ Len(a) = i - 1
      /\ \A j \in 1 .. i - 1 : a[j] = s[j]
  BY <1>1, <1>2
<1>4. /\ b \in Seq(S) /\ Len(b) = Len(s) - i
      /\ \A j \in 1 .. Len(s) - i : b[j] = s[i + j]
  BY <1>1, <1>2
<1> HIDE DEF a, b
<1> DEFINE c == a \o b
<1>5. /\ c \in Seq(S) /\ Len(c) = Len(a) + Len(b)
      /\ \A j \in 1 .. Len(a) + Len(b) :
           c[j] = IF j <= Len(a) THEN a[j] ELSE b[j - Len(a)]
  BY <1>3, <1>4, ConcatProperties
<1> HIDE DEF c
<1>6. DOMAIN c = 1 .. Len(s) - 1
  BY <1>2, <1>3, <1>4, <1>5
<1>7. ASSUME NEW j \in DOMAIN c PROVE \E l \in DOMAIN s : c[j] = s[l]
  <2>1. CASE j <= i - 1
    <3>1. c[j] = s[j] /\ j \in DOMAIN s
      BY <1>2, <1>3, <1>4, <1>5, <1>6, <1>7, <2>1
    <3> QED BY <3>1
  <2>2. CASE ~(j <= i - 1)
    <3>1. j - (i - 1) \in 1 .. Len(s) - i /\ i + (j - (i - 1)) = j + 1
      BY <1>2, <1>6, <1>7, <2>2
    <3>2. c[j] = b[j - (i - 1)]
      BY <1>2, <1>3, <1>4, <1>5, <1>6, <1>7, <2>2
    <3>3. b[j - (i - 1)] = s[i + (j - (i - 1))]
      BY <1>4, <3>1
    <3>4. j + 1 \in DOMAIN s
      BY <1>2, <1>6, <1>7
    <3> QED BY <3>1, <3>2, <3>3, <3>4
  <2> QED BY <2>1, <2>2
<1>8. DrawnFrom(c, s)
  BY <1>7 DEF DrawnFrom
<1>9. c = RemoveAt(s, i)
  BY DEF RemoveAt, a, b, c
<1> QED BY <1>5, <1>8, <1>9 DEF IsSeq

LEMMA InsertOne ==
  ASSUME NEW s, IsSeq(s), NEW i \in DOMAIN s
  PROVE  IsSeq(InsertAt(s, i, s[i])) /\ DrawnFrom(InsertAt(s, i, s[i]), s)
<1>1. PICK S : s \in Seq(S)
  BY DEF IsSeq
<1> DEFINE a == SubSeq(s, 1, i - 1)
           m == <<s[i]>>
           b == SubSeq(s, i, Len(s))
<1>2. Len(s) \in Nat /\ DOMAIN s = 1 .. Len(s) /\ i \in 1 .. Len(s)
  BY <1>1
<1>3. /\ a \in Seq(S) /\ Len(a) = i - 1
      /\ \A j \in 1 .. i - 1 : a[j] = s[j]
  BY <1>1, <1>2
<1>4. /\ b \in Seq(S) /\ Len(b) = Len(s) - i + 1
      /\ \A j \in 1 .. Len(s) - i + 1 : b[j] = s[i + j - 1]
  BY <1>1, <1>2
<1>5. m \in Seq(S) /\ Len(m) = 1 /\ m[1] = s[i]
  BY <1>1, <1>2
<1> HIDE DEF a, b, m
<1> DEFINE am == a \o m
           c == am \o b
<1>6. /\ am \in Seq(S) /\ Len(am) = Len(a) + Len(m)
      /\ \A j \in 1 .. Len(a) + Len(m) :
           am[j] = IF j <= Len(a) THEN a[j] ELSE m[j - Len(a)]
  <2>1. a \in Seq(S) /\ m \in Seq(S)
    BY <1>3, <1>5
  <2> QED BY <2>1, ConcatProperties
<1> HIDE DEF am
<1>7. /\ c \in Seq(S) /\ Len(c) = Len(am) + Len(b)
      /\ \A j \in 1 .. Len(am) + Len(b) :
           c[j] = IF j <= Len(am) THEN am[j] ELSE b[j - Len(am)]
  <2>1. am \in Seq(S) /\ b \in Seq(S)
    BY <1>4, <1>6
  <2> QED BY <2>1, ConcatProperties
<1> HIDE DEF c
<1>8. Len(am) = i /\ DOMAIN c = 1 .. Len(s) + 1
  <2>1. Len(am) = i
    BY <1>2, <1>3, <1>5, <1>6
  <2>2. Len(c) = Len(s) + 1
    BY <1>2, <1>4, <1>7, <2>1
  <2> QED BY <1>7, <2>1, <2>2
<1>9. ASSUME NEW j \in DOMAIN c PROVE \E l \in DOMAIN s : c[j] = s[l]
  <2>1. j \in Int /\ 1 <= j /\ j <= Len(s) + 1 /\ i \in Int /\ 1 <= i /\ i <= Len(s)
    BY <1>2, <1>8, <1>9
  <2>2. Len(a) = i - 1 /\ Len(m) = 1
    BY <1>3, <1>5
  <2>3. CASE j <= i
    <3>1. c[j] = am[j]
      <4>1. j \in 1 .. Len(am) + Len(b) /\ j <= Len(am)
        BY <1>2, <1>4, <1>8, <2>1, <2>3
      <4> QED BY <1>7, <4>1
    <3>2. CASE j < i
      <4>1. j \in 1 .. i - 1 /\ j \in 1 .. Len(a) + Len(m) /\ j <= Len(a)
        BY <1>3, <1>5, <2>1, <3>2
      <4>2. am[j] = a[j]
        BY <1>6, <4>1
      <4>3. a[j] = s[j] /\ j \in DOMAIN s
        BY <1>2, <1>3, <2>1, <4>1
      <4> QED BY <3>1, <4>2, <4>3
    <3>3. CASE j = i
      <4>1. Len(a) + Len(m) = i
        BY <2>1, <2>2
      <4>2. ~(i <= Len(a)) /\ i - Len(a) = 1
        BY <2>1, <2>2
      <4>3. i \in 1 .. i
        BY <2>1
      <4>4. am[i] = m[i - Len(a)]
        BY <1>6, <4>1, <4>2, <4>3
      <4>5. am[i] = m[1]
        BY <4>2, <4>4
      <4> QED BY <1>5, <3>1, <3>3, <4>5
    <3> QED BY <2>1, <2>3, <3>2, <3>3
  <2>4. CASE j > i
    <3>1. j - i \in 1 .. Len(s) - i + 1 /\ i + (j - i) - 1 = j - 1 /\ j - 1 \in DOMAIN s
      BY <1>2, <2>1, <2>4
    <3>2. c[j] = b[j - i]
      <4>1. j \in 1 .. Len(am) + Len(b) /\ ~(j <= Len(am)) /\ Len(am) = i
        BY <1>2, <1>4, <1>8, <2>1, <2>4
      <4> QED BY <1>7, <4>1
    <3>3. b[j - i] = s[j - 1]
      BY <1>4, <3>1
    <3> QED BY <3>1, <3>2, <3>3
  <2> QED BY <2>1, <2>3, <2>4
<1>10. DrawnFrom(c, s)
  BY <1>9 DEF DrawnFrom
<1>11. c = InsertAt(s, i, s[i])
  BY DEF InsertAt, a, b, m, am, c
<1> QED BY <1>7, <1>10, <1>11 DEF IsSeq

-------------------------------------------------------------------------------
(* The invariant *)

Typed ==
  /\ IsSeq(lines) /\ IsSeq(written)
  /\ ended \in BOOLEAN
  /\ ~ended => lines # <<>>
  /\ DOMAIN seen = Writers
  /\ Len(written) <= MaxAppends
  /\ faults \subseteq {"race", "cut", "edit"}
  /\ \A i \in DOMAIN lines :
       lines[i] # Garbage => lines[i].seq \in 1 .. Len(written) /\ lines[i].op \in Ops
  /\ \A w \in Writers :
       seen[w] # None => /\ seen[w].key \in Keys /\ seen[w].op \in Ops
                         /\ seen[w].seq \in 1 .. Len(written) + 1

(* prev is the HMAC of the start, or of one of the first n entries of h.    *)
Chained(h, prev, n) == prev = GENESIS_HMAC \/ \E a \in 1 .. n : h[a].mac = prev

Signed ==
  /\ \A b \in DOMAIN written :
       /\ written[b].mac = Hmac(written[b].mac[1], written[b].seq, written[b].op, written[b].prev)
       /\ written[b] = [seq |-> written[b].seq, op |-> written[b].op,
                        prev |-> written[b].prev, mac |-> written[b].mac]
       /\ Chained(written, written[b].prev, b - 1)
  /\ \A i \in DOMAIN lines : lines[i] # Garbage =>
       /\ lines[i] = [seq |-> lines[i].seq, op |-> lines[i].op,
                      prev |-> lines[i].prev, mac |-> lines[i].mac]
       /\ \E b \in DOMAIN written : written[b].mac = lines[i].mac
  /\ \A w \in Writers : seen[w] # None => Chained(written, seen[w].prev, Len(written))

Clean ==
  faults = {} =>
    /\ lines = written
    /\ ended
    /\ \A i \in DOMAIN lines :
         lines[i] # Garbage /\ lines[i].seq = i /\ lines[i].prev = Before(i)
    /\ \A v, w \in Writers : seen[v] # None /\ seen[w] # None => v = w
    /\ \A w \in Writers :
         seen[w] # None => seen[w].seq = LastSeq + 1 /\ seen[w].prev = LastHmac

IInv == Typed /\ Signed /\ Clean

LEMMA InitHolds == Init => IInv
<1> SUFFICES ASSUME Init PROVE IInv
  OBVIOUS
<1>1. IsSeq(<<>>) /\ Len(<<>>) = 0 /\ DOMAIN <<>> = {}
  BY EmptySeq DEF IsSeq
<1> QED BY <1>1, BoundAssumption DEF Init, IInv, Typed, Signed, Clean

(* One more line at the end of the file. *)
LEMMA WithOne ==
  ASSUME NEW line, Typed, lines' = With(line)
  PROVE  /\ IsSeq(lines') /\ lines' # <<>>
         /\ ended => /\ Len(lines') = Len(lines) + 1
                     /\ lines'[Len(lines) + 1] = line
                     /\ \A i \in 1 .. Len(lines) : lines'[i] = lines[i]
         /\ ~ended => /\ Len(lines) \in DOMAIN lines /\ Len(lines') = Len(lines)
                      /\ lines'[Len(lines)] = Garbage
                      /\ \A i \in 1 .. Len(lines) - 1 : lines'[i] = lines[i]
         /\ \A i \in DOMAIN lines' :
              lines'[i] \in {line, Garbage} \/ (i \in DOMAIN lines /\ lines'[i] = lines[i])
<1>1. Len(lines) \in Nat /\ DOMAIN lines = 1 .. Len(lines)
  BY SeqDomain DEF Typed
<1>2. CASE ended
  <2>1. lines' = Append(lines, line)
    BY <1>2 DEF With
  <2>2. /\ IsSeq(lines') /\ Len(lines') = Len(lines) + 1
        /\ lines'[Len(lines) + 1] = line
        /\ \A i \in 1 .. Len(lines) : lines'[i] = lines[i]
    BY <2>1, AppendOne DEF Typed
  <2>3. DOMAIN lines' = 1 .. Len(lines) + 1
    BY <2>2, SeqDomain
  <2>4. lines' # <<>>
    BY <1>1, <2>3
  <2> QED BY <1>1, <1>2, <2>2, <2>3, <2>4
<1>3. CASE ~ended
  <2>1. lines' = [lines EXCEPT ![Len(lines)] = Garbage] /\ lines # <<>>
    BY <1>3 DEF With, Typed
  <2>2. Len(lines) \in DOMAIN lines
    BY <1>1, <2>1 DEF Typed, IsSeq
  <2>3. IsSeq(lines') /\ Len(lines') = Len(lines)
    <3>1. IsSeq(lines)
      BY DEF Typed
    <3>2. /\ IsSeq([lines EXCEPT ![Len(lines)] = Garbage])
          /\ Len([lines EXCEPT ![Len(lines)] = Garbage]) = Len(lines)
      BY <2>2, <3>1, ReplaceOne
    <3> QED BY <2>1, <3>2
  <2>4. DOMAIN lines' = DOMAIN lines
    BY <2>1
  <2>5. \A i \in DOMAIN lines : lines'[i] = IF i = Len(lines) THEN Garbage ELSE lines[i]
    BY <1>1, <2>1
  <2>6. lines' # <<>>
    BY <2>2, <2>4
  <2>7. \A i \in 1 .. Len(lines) - 1 : lines'[i] = lines[i]
    BY <1>1, <2>5
  <2>8. lines'[Len(lines)] = Garbage
    BY <2>2, <2>5
  <2>9. \A i \in DOMAIN lines' : lines'[i] \in {line, Garbage} \/ (i \in DOMAIN lines /\ lines'[i] = lines[i])
    BY <2>4, <2>5
  <2> QED BY <1>3, <2>2, <2>3, <2>6, <2>7, <2>8, <2>9
<1> QED BY <1>2, <1>3 DEF Typed

(* One more entry written: the history still explains every HMAC in it.    *)
LEMMA WrittenOne ==
  ASSUME NEW w \in Writers, Typed, Signed, seen[w] # None,
         written' = Append(written, Entry(seen[w]))
  PROVE  /\ IsSeq(written') /\ Len(written') = Len(written) + 1
         /\ written'[Len(written) + 1] = Entry(seen[w])
         /\ \A b \in DOMAIN written : b \in DOMAIN written' /\ written'[b] = written[b]
         /\ \A b \in DOMAIN written' :
              /\ written'[b].mac = Hmac(written'[b].mac[1], written'[b].seq,
                                        written'[b].op, written'[b].prev)
              /\ written'[b] = [seq |-> written'[b].seq, op |-> written'[b].op,
                                prev |-> written'[b].prev, mac |-> written'[b].mac]
              /\ Chained(written', written'[b].prev, b - 1)
<1> DEFINE e == Entry(seen[w])
           n == Len(written)
<1>1. n \in Nat /\ DOMAIN written = 1 .. n
  BY SeqDomain DEF Typed
<1>2. /\ IsSeq(written') /\ Len(written') = n + 1
      /\ written'[n + 1] = e
      /\ \A b \in 1 .. n : written'[b] = written[b]
  BY AppendOne DEF Typed
<1>3. DOMAIN written' = 1 .. n + 1
  BY <1>2, SeqDomain
<1>4. /\ e.mac = Hmac(e.mac[1], e.seq, e.op, e.prev)
      /\ e = [seq |-> e.seq, op |-> e.op, prev |-> e.prev, mac |-> e.mac]
      /\ e.prev = seen[w].prev
  BY DEF Entry, Hmac
<1>5. Chained(written, e.prev, n)
  BY <1>4 DEF Signed
<1> HIDE DEF e, n
<1>6. ASSUME NEW b \in DOMAIN written'
      PROVE  Chained(written', written'[b].prev, b - 1)
  <2>1. CASE b \in 1 .. n
    <3>1. Chained(written, written[b].prev, b - 1) /\ written'[b] = written[b]
      BY <1>1, <1>2, <2>1 DEF Signed
    <3>2. \A a \in 1 .. b - 1 : written'[a] = written[a]
      BY <1>1, <1>2, <2>1
    <3> QED BY <3>1, <3>2 DEF Chained, GENESIS_HMAC
  <2>2. CASE b = n + 1
    <3>1. b - 1 = n
      BY <1>1, <2>2
    <3> QED BY <1>2, <1>5, <2>2, <3>1 DEF Chained, GENESIS_HMAC
  <2> QED BY <1>1, <1>3, <1>6, <2>1, <2>2
<1>7. ASSUME NEW b \in DOMAIN written'
      PROVE  /\ written'[b].mac = Hmac(written'[b].mac[1], written'[b].seq,
                                       written'[b].op, written'[b].prev)
             /\ written'[b] = [seq |-> written'[b].seq, op |-> written'[b].op,
                               prev |-> written'[b].prev, mac |-> written'[b].mac]
  <2>1. CASE b \in 1 .. n
    BY <1>1, <1>2, <2>1 DEF Signed
  <2>2. CASE b = n + 1
    BY <1>2, <1>4, <2>2
  <2> QED BY <1>1, <1>3, <1>7, <2>1, <2>2
<1> QED BY <1>1, <1>2, <1>3, <1>6, <1>7 DEF e, n

(* Lines that were in the file before are as well explained as they were.  *)
LEMMA EditKeeps ==
  ASSUME Typed, Signed, IsSeq(lines'), Edited,
         \A i \in DOMAIN lines' : lines'[i] # Garbage =>
           \E j \in DOMAIN lines : /\ lines[j] # Garbage
                                   /\ lines'[i].seq = lines[j].seq
                                   /\ lines'[i].mac = lines[j].mac
                                   /\ lines'[i].op \in Ops
                                   /\ lines'[i] = [seq |-> lines'[i].seq, op |-> lines'[i].op,
                                                   prev |-> lines'[i].prev, mac |-> lines'[i].mac]
  PROVE  Typed' /\ Signed' /\ Clean'
<1>1. Typed'
  BY DEF Typed, Edited
<1>2. Signed'
  BY DEF Signed, Edited, Chained, Hmac, GENESIS_HMAC
<1>3. faults' # {}
  BY DEF Edited
<1> QED BY <1>1, <1>2, <1>3 DEF Clean

LEMMA ReadStays ==
  ASSUME IInv, NEW w \in Writers, NEW k \in Keys, NEW o \in Ops, Read(w, k, o)
  PROVE  IInv'
<1> DEFINE s == [key |-> k, op |-> o, seq |-> LastSeq + 1, prev |-> LastHmac]
<1>1. /\ UNCHANGED <<lines, ended, written>> /\ seen[w] = None
      /\ seen' = [seen EXCEPT ![w] = s] /\ DOMAIN seen = Writers
      /\ \A i \in DOMAIN lines : lines[i] # Garbage
  BY DEF Read, IInv, Typed
<1>2. Len(lines) \in Nat /\ DOMAIN lines = 1 .. Len(lines) /\ Len(written) \in Nat
      /\ DOMAIN written = 1 .. Len(written)
  BY SeqDomain DEF IInv, Typed
<1>3. LastSeq \in 0 .. Len(written) /\ Chained(written, LastHmac, Len(written))
  <2>1. CASE lines = <<>>
    BY <1>2, <2>1 DEF LastSeq, LastHmac, Chained
  <2>2. CASE lines # <<>>
    <3>1. Len(lines) \in DOMAIN lines
      BY <1>2, <2>2 DEF IInv, Typed, IsSeq
    <3>2. lines[Len(lines)].seq \in 1 .. Len(written)
      BY <1>1, <3>1 DEF IInv, Typed
    <3>3. \E b \in DOMAIN written : written[b].mac = lines[Len(lines)].mac
      BY <1>1, <3>1 DEF IInv, Signed
    <3> QED BY <1>2, <2>2, <3>2, <3>3 DEF LastSeq, LastHmac, Last, Chained
  <2> QED BY <2>1, <2>2
<1>4. s.key = k /\ s.op = o /\ s.seq = LastSeq + 1 /\ s.prev = LastHmac
  OBVIOUS
<1> HIDE DEF s
<1>5. \A v \in Writers : seen'[v] = IF v = w THEN s ELSE seen[v]
  BY <1>1
<1>6. DOMAIN seen' = Writers /\ faults' \subseteq {"race", "cut", "edit"}
  BY <1>1 DEF IInv, Typed, Read
<1>7. Typed'
  BY <1>1, <1>2, <1>3, <1>4, <1>5, <1>6 DEF IInv, Typed
<1>8. Signed'
  BY <1>1, <1>3, <1>4, <1>5 DEF IInv, Signed
<1>9. Clean'
  <2> SUFFICES ASSUME faults' = {} PROVE Clean'
    BY DEF Clean
  <2>1. faults = {} /\ \A v \in Writers : seen[v] = None
    BY DEF Read
  <2>2. LastSeq' = LastSeq /\ LastHmac' = LastHmac /\ \A i : Before(i)' = Before(i)
    BY <1>1 DEF LastSeq, LastHmac, Before
  <2> QED BY <1>1, <1>4, <1>5, <2>1, <2>2 DEF IInv, Clean
<1> QED BY <1>7, <1>8, <1>9 DEF IInv

LEMMA WriteStays ==
  ASSUME IInv, NEW w \in Writers, seen[w] # None, Len(written) < MaxAppends,
         NEW line \in {Entry(seen[w]), Garbage}, lines' = With(line), ended' \in BOOLEAN,
         seen' = [seen EXCEPT ![w] = None],
         faults' \subseteq {"race", "cut", "edit"},
         \/ line = Garbage /\ written' = written
         \/ line = Entry(seen[w]) /\ written' = Append(written, Entry(seen[w]))
  PROVE  Typed' /\ Signed'
<1> DEFINE e == Entry(seen[w])
<1>1. /\ e = [seq |-> e.seq, op |-> e.op, prev |-> e.prev, mac |-> e.mac]
      /\ e.seq = seen[w].seq /\ e.op = seen[w].op
  BY DEF Entry
<1>2. /\ IsSeq(lines') /\ lines' # <<>>
      /\ \A i \in DOMAIN lines' :
           lines'[i] \in {line, Garbage} \/ (i \in DOMAIN lines /\ lines'[i] = lines[i])
  BY WithOne DEF IInv
<1>3. /\ DOMAIN seen' = Writers
      /\ \A v \in Writers : seen'[v] # None => v # w /\ seen[v] # None /\ seen'[v] = seen[v]
  BY DEF IInv, Typed
<1>4. Len(written) \in Nat /\ DOMAIN written = 1 .. Len(written) /\ MaxAppends \in Nat
  BY SeqDomain, BoundAssumption DEF IInv, Typed
<1>5. CASE line = Garbage /\ written' = written
  <2>1. \A i \in DOMAIN lines' : lines'[i] # Garbage => i \in DOMAIN lines /\ lines'[i] = lines[i]
    BY <1>2, <1>5
  <2>2. Typed'
    BY <1>2, <1>3, <1>4, <1>5, <2>1 DEF IInv, Typed
  <2>3. Signed'
    BY <1>3, <1>5, <2>1 DEF IInv, Signed
  <2> QED BY <2>2, <2>3
<1>6. CASE line = e /\ written' = Append(written, e)
  <2>1. /\ IsSeq(written') /\ Len(written') = Len(written) + 1
        /\ written'[Len(written) + 1] = e
        /\ \A b \in DOMAIN written : b \in DOMAIN written' /\ written'[b] = written[b]
        /\ \A b \in DOMAIN written' :
             /\ written'[b].mac = Hmac(written'[b].mac[1], written'[b].seq,
                                       written'[b].op, written'[b].prev)
             /\ written'[b] = [seq |-> written'[b].seq, op |-> written'[b].op,
                               prev |-> written'[b].prev, mac |-> written'[b].mac]
             /\ Chained(written', written'[b].prev, b - 1)
    BY <1>6, WrittenOne DEF IInv
  <2>2. Len(written) + 1 \in DOMAIN written'
    BY <1>4, <2>1, SeqDomain
  <2>3. e.seq \in 1 .. Len(written) + 1 /\ e.op \in Ops
    BY <1>1 DEF IInv, Typed
  <2> HIDE DEF e
  <2>4. \A i \in DOMAIN lines' : lines'[i] # Garbage =>
          lines'[i] = e \/ (i \in DOMAIN lines /\ lines'[i] = lines[i])
    BY <1>2, <1>6
  <2>5. Typed'
    <3>1. \A i \in DOMAIN lines' : lines'[i] # Garbage =>
            lines'[i].seq \in 1 .. Len(written') /\ lines'[i].op \in Ops
      BY <1>4, <2>1, <2>3, <2>4 DEF IInv, Typed
    <3>2. \A v \in Writers : seen'[v] # None =>
            /\ seen'[v].key \in Keys /\ seen'[v].op \in Ops
            /\ seen'[v].seq \in 1 .. Len(written') + 1
      BY <1>3, <1>4, <2>1 DEF IInv, Typed
    <3>3. Len(written') <= MaxAppends
      BY <1>4, <2>1
    <3> QED BY <1>2, <1>3, <2>1, <3>1, <3>2, <3>3 DEF Typed
  <2>6. Signed'
    <3>1. \A i \in DOMAIN lines' : lines'[i] # Garbage =>
            /\ lines'[i] = [seq |-> lines'[i].seq, op |-> lines'[i].op,
                            prev |-> lines'[i].prev, mac |-> lines'[i].mac]
            /\ \E b \in DOMAIN written' : written'[b].mac = lines'[i].mac
      BY <1>1, <2>1, <2>2, <2>4 DEF IInv, Signed
    <3>2. \A v \in Writers : seen'[v] # None => Chained(written', seen'[v].prev, Len(written'))
      <4> SUFFICES ASSUME NEW v \in Writers, seen'[v] # None
                   PROVE  Chained(written', seen'[v].prev, Len(written'))
        OBVIOUS
      <4>1. Chained(written, seen[v].prev, Len(written)) /\ seen'[v] = seen[v]
        BY <1>3 DEF IInv, Signed
      <4>2. \A a \in 1 .. Len(written) : a \in 1 .. Len(written') /\ written'[a] = written[a]
        BY <1>4, <2>1
      <4> QED BY <4>1, <4>2 DEF Chained
    <3> QED BY <2>1, <3>1, <3>2 DEF Signed
  <2> QED BY <2>5, <2>6
<1> QED BY <1>5, <1>6

(* While nothing went wrong the file goes on as what was written does.     *)
LEMMA WriteStaysClean ==
  ASSUME IInv, NEW w \in Writers, Write(w)
  PROVE  Clean'
<1> SUFFICES ASSUME faults' = {} PROVE Clean'
  BY DEF Clean
<1> DEFINE n == Len(lines)
           e == Entry(seen[w])
<1>1. /\ faults = {} /\ lines = written /\ ended /\ ended' /\ seen[w] # None
      /\ \A v \in Writers : seen[v] # None => v = w
      /\ seen[w].seq = LastSeq + 1 /\ seen[w].prev = LastHmac
      /\ \A i \in DOMAIN lines :
           lines[i] # Garbage /\ lines[i].seq = i /\ lines[i].prev = Before(i)
  BY DEF IInv, Clean, Write
<1>2. lines' = Append(lines, e) /\ lines' = written'
  BY <1>1 DEF Write, With
<1>3. n \in Nat /\ DOMAIN lines = 1 .. n
  BY SeqDomain DEF IInv, Typed
<1>4. /\ IsSeq(lines') /\ Len(lines') = n + 1 /\ lines'[n + 1] = e
      /\ \A i \in 1 .. n : lines'[i] = lines[i]
  <2>1. IsSeq(lines) /\ lines' = Append(lines, e)
    BY <1>2 DEF IInv, Typed
  <2> HIDE DEF e
  <2> QED BY <2>1, AppendOne
<1>5. DOMAIN lines' = 1 .. n + 1
  BY <1>4, SeqDomain
<1>6. LastSeq = n /\ LastHmac = IF n = 0 THEN GENESIS_HMAC ELSE lines[n].mac
  <2>1. CASE lines = <<>>
    <3>1. n = 0
      BY <2>1
    <3> QED BY <2>1, <3>1 DEF LastSeq, LastHmac
  <2>2. CASE lines # <<>>
    <3>1. n # 0
      BY <1>3, <2>2 DEF IInv, Typed, IsSeq
    <3>2. LastSeq = lines[n].seq /\ LastHmac = lines[n].mac
      BY <2>2 DEF LastSeq, LastHmac, Last
    <3> QED BY <1>1, <1>3, <3>1, <3>2
  <2> QED BY <2>1, <2>2
<1>7. e.seq = n + 1 /\ e.prev = LastHmac
  BY <1>1, <1>6 DEF Entry
<1>8. e # Garbage
  BY <1>3, <1>7 DEF Garbage
<1>9. \A v \in Writers : seen'[v] = None
  BY <1>1 DEF IInv, Typed, Write
<1> HIDE DEF n, e
<1>10. ASSUME NEW i \in DOMAIN lines'
       PROVE  lines'[i] # Garbage /\ lines'[i].seq = i /\ lines'[i].prev = Before(i)'
  <2>1. CASE i = n + 1
    <3>1. i = 1 <=> n = 0
      BY <1>3, <2>1
    <3>2. n # 0 => lines'[i - 1] = lines[n]
      BY <1>3, <1>4, <2>1
    <3> QED BY <1>4, <1>6, <1>7, <1>8, <2>1, <3>1, <3>2 DEF Before
  <2>2. CASE i \in 1 .. n
    <3>1. i # 1 => i - 1 \in 1 .. n
      BY <1>3, <2>2
    <3> QED BY <1>1, <1>3, <1>4, <2>2, <3>1 DEF Before
  <2> QED BY <1>3, <1>5, <1>10, <2>1, <2>2
<1> QED BY <1>1, <1>2, <1>9, <1>10 DEF Clean

LEMMA IInvStays == IInv /\ [Next]_vars => IInv'
<1> SUFFICES ASSUME IInv, [Next]_vars PROVE IInv'
  OBVIOUS
<1>1. ASSUME NEW w \in Writers, NEW k \in Keys, NEW o \in Ops, Read(w, k, o) PROVE IInv'
  BY <1>1, ReadStays
<1>2. ASSUME NEW w \in Writers, Write(w) PROVE IInv'
  <2>1. Typed' /\ Signed'
    BY <1>2, WriteStays DEF Write, IInv, Typed
  <2> QED BY <1>2, <2>1, WriteStaysClean DEF IInv
<1>3. ASSUME NEW w \in Writers, WriteCut(w) PROVE IInv'
  <2>1. Typed' /\ Signed'
    BY <1>3, WriteStays DEF WriteCut, IInv, Typed
  <2>2. faults' # {}
    BY <1>3 DEF WriteCut
  <2> QED BY <2>1, <2>2 DEF IInv, Clean
<1>4. ASSUME NEW w \in Writers, WriteFails(w) PROVE IInv'
  <2>1. /\ UNCHANGED <<lines, ended, written, faults>> /\ DOMAIN seen' = Writers
        /\ \A v \in Writers : seen'[v] # None => v # w /\ seen[v] # None /\ seen'[v] = seen[v]
    BY <1>4 DEF WriteFails, IInv, Typed
  <2>2. Typed'
    BY <2>1 DEF IInv, Typed
  <2>3. Signed'
    BY <2>1 DEF IInv, Signed
  <2>4. Clean'
    <3>1. LastSeq' = LastSeq /\ LastHmac' = LastHmac /\ \A i : Before(i)' = Before(i)
      BY <2>1 DEF LastSeq, LastHmac, Before
    <3> QED BY <2>1, <3>1 DEF IInv, Clean
  <2> QED BY <2>2, <2>3, <2>4 DEF IInv
<1>5. ASSUME NEW i \in DOMAIN lines, NEW o \in Ops, Change(i, o) PROVE IInv'
  <2>1. /\ lines[i] # Garbage /\ lines' = [lines EXCEPT ![i].op = o] /\ Edited
        /\ lines[i] = [seq |-> lines[i].seq, op |-> lines[i].op,
                       prev |-> lines[i].prev, mac |-> lines[i].mac]
    BY <1>5 DEF Change, IInv, Signed
  <2> DEFINE c == [lines[i] EXCEPT !.op = o]
  <2>2. lines' = [lines EXCEPT ![i] = c]
    BY <2>1
  <2>3. c = [seq |-> lines[i].seq, op |-> o, prev |-> lines[i].prev, mac |-> lines[i].mac]
    BY <2>1
  <2> HIDE DEF c
  <2>4. IsSeq(lines)
    BY DEF IInv, Typed
  <2>5. IsSeq(lines')
    BY <2>2, <2>4, ReplaceOne
  <2>6. DOMAIN lines' = DOMAIN lines /\ lines'[i] = c
        /\ \A j \in DOMAIN lines : j # i => lines'[j] = lines[j]
    BY <2>2
  <2>7. \A j \in DOMAIN lines' : lines'[j] # Garbage =>
           \E l \in DOMAIN lines : /\ lines[l] # Garbage
                                   /\ lines'[j].seq = lines[l].seq
                                   /\ lines'[j].mac = lines[l].mac
                                   /\ lines'[j].op \in Ops
                                   /\ lines'[j] = [seq |-> lines'[j].seq, op |-> lines'[j].op,
                                                   prev |-> lines'[j].prev, mac |-> lines'[j].mac]
    <3> SUFFICES ASSUME NEW j \in DOMAIN lines', lines'[j] # Garbage
                 PROVE  /\ lines[j] # Garbage /\ j \in DOMAIN lines
                        /\ lines'[j].seq = lines[j].seq
                        /\ lines'[j].mac = lines[j].mac
                        /\ lines'[j].op \in Ops
                        /\ lines'[j] = [seq |-> lines'[j].seq, op |-> lines'[j].op,
                                        prev |-> lines'[j].prev, mac |-> lines'[j].mac]
      OBVIOUS
    <3>1. CASE j = i
      BY <2>1, <2>3, <2>6, <3>1
    <3>2. CASE j # i
      BY <2>6, <3>2 DEF IInv, Typed, Signed
    <3> QED BY <3>1, <3>2
  <2> QED BY <2>1, <2>5, <2>7, EditKeeps DEF IInv
<1>6. ASSUME NEW i \in DOMAIN lines, lines' \in {RemoveAt(lines, i), InsertAt(lines, i, lines[i])},
             Edited
      PROVE  IInv'
  <2>1. IsSeq(lines') /\ DrawnFrom(lines', lines)
    BY <1>6, RemoveOne, InsertOne DEF IInv, Typed
  <2>2. \A j \in DOMAIN lines' : lines'[j] # Garbage =>
           \E l \in DOMAIN lines : /\ lines[l] # Garbage
                                   /\ lines'[j].seq = lines[l].seq
                                   /\ lines'[j].mac = lines[l].mac
                                   /\ lines'[j].op \in Ops
                                   /\ lines'[j] = [seq |-> lines'[j].seq, op |-> lines'[j].op,
                                                   prev |-> lines'[j].prev, mac |-> lines'[j].mac]
    BY <2>1 DEF DrawnFrom, IInv, Typed, Signed
  <2> QED BY <1>6, <2>1, <2>2, EditKeeps DEF IInv
<1>7. ASSUME NEW i \in DOMAIN lines, Delete(i) PROVE IInv'
  BY <1>6, <1>7 DEF Delete
<1>8. ASSUME NEW i \in DOMAIN lines, Duplicate(i) PROVE IInv'
  BY <1>6, <1>8 DEF Duplicate
<1>9. CASE UNCHANGED vars
  <2>1. LastSeq' = LastSeq /\ LastHmac' = LastHmac /\ \A i : Before(i)' = Before(i)
    BY <1>9 DEF vars, LastSeq, LastHmac, Before
  <2> QED BY <1>9, <2>1 DEF vars, IInv, Typed, Signed, Clean
<1> QED BY <1>1, <1>2, <1>3, <1>4, <1>5, <1>7, <1>8, <1>9 DEF Next

LEMMA IInvHolds == Spec => []IInv
BY InitHolds, IInvStays, PTL DEF Spec

-------------------------------------------------------------------------------
(* Theorems *)

(* Every variable stays of its type, for any number of writers and edits.  *)
THEOREM TypeCorrect == Spec => []TypeOK
<1>1. IInv => TypeOK
  BY BoundAssumption, SeqDomain DEF IInv, Typed, TypeOK
<1> QED BY <1>1, IInvHolds, PTL

(* A log that verifies with a key tells what was appended with that key,   *)
(* each entry after the one it follows, whoever raced, whatever was cut    *)
(* short and however the file was edited without the key.                  *)
THEOREM AcceptedLogIsTrue == Spec => []AcceptedIsHistory
<1>1. IInv => AcceptedIsHistory
  <2> SUFFICES ASSUME IInv, NEW k \in Keys, Verify(k), NEW i \in DOMAIN lines
               PROVE  \E b \in DOMAIN written :
                        /\ written[b] = lines[i]
                        /\ written[b].mac[1] = k
                        /\ i > 1 => \E a \in 1 .. b - 1 : written[a] = lines[i - 1]
    BY DEF AcceptedIsHistory
  <2>1. Len(written) \in Nat /\ DOMAIN written = 1 .. Len(written)
        /\ Len(lines) \in Nat /\ DOMAIN lines = 1 .. Len(lines)
    BY SeqDomain DEF IInv, Typed
  <2>2. ASSUME NEW j \in DOMAIN lines, NEW b \in DOMAIN written, written[b].mac = lines[j].mac
        PROVE  written[b] = lines[j] /\ written[b].mac[1] = k
    <3>1. /\ lines[j] = [seq |-> lines[j].seq, op |-> lines[j].op,
                         prev |-> lines[j].prev, mac |-> lines[j].mac]
          /\ lines[j].seq = j
          /\ lines[j].mac = <<k, lines[j].seq, lines[j].op, lines[j].prev>>
      BY DEF IInv, Signed, Verify, Hmac
    <3>2. /\ written[b] = [seq |-> written[b].seq, op |-> written[b].op,
                           prev |-> written[b].prev, mac |-> written[b].mac]
          /\ written[b].mac = <<written[b].mac[1], written[b].seq, written[b].op, written[b].prev>>
      BY DEF IInv, Signed, Hmac
    <3>3. written[b].seq = lines[j].seq /\ written[b].op = lines[j].op
          /\ written[b].prev = lines[j].prev /\ written[b].mac[1] = k
      BY <2>2, <3>1, <3>2
    <3> QED BY <2>2, <3>1, <3>2, <3>3
  <2>3. PICK b \in DOMAIN written : written[b].mac = lines[i].mac
    BY DEF IInv, Signed, Verify
  <2>4. written[b] = lines[i] /\ written[b].mac[1] = k
    BY <2>2, <2>3
  <2>5. ASSUME i > 1 PROVE \E a \in 1 .. b - 1 : written[a] = lines[i - 1]
    <3>1. i - 1 \in DOMAIN lines
      BY <2>1, <2>5
    <3>2. written[b].prev = lines[i - 1].mac
      BY <2>4, <2>5 DEF Verify, Before
    <3>3. lines[i - 1].mac # GENESIS_HMAC
      BY <3>1 DEF Verify, Hmac, GENESIS_HMAC
    <3>4. PICK a \in 1 .. b - 1 : written[a].mac = lines[i - 1].mac
      BY <3>2, <3>3 DEF IInv, Signed, Chained
    <3>5. a \in DOMAIN written
      BY <2>1
    <3> QED BY <2>2, <3>1, <3>4, <3>5
  <2> QED BY <2>4, <2>5
<1> QED BY <1>1, IInvHolds, PTL

(* What one process at a time appended, and nobody touched, verifies.      *)
THEOREM CleanLogIsAccepted == Spec => []CleanLogVerifies
<1>1. IInv => CleanLogVerifies
  <2> SUFFICES ASSUME IInv, NEW k \in Keys, faults = {},
                      \A i \in DOMAIN written : written[i].mac[1] = k
               PROVE  Verify(k) /\ lines = written
    BY DEF CleanLogVerifies
  <2>1. /\ lines = written
        /\ \A i \in DOMAIN lines :
             lines[i] # Garbage /\ lines[i].seq = i /\ lines[i].prev = Before(i)
    BY DEF IInv, Clean
  <2>2. \A i \in DOMAIN lines : lines[i].mac = Hmac(k, i, lines[i].op, lines[i].prev)
    BY <2>1 DEF IInv, Signed
  <2> QED BY <2>1, <2>2 DEF Verify
<1> QED BY <1>1, IInvHolds, PTL

(* No append, whole or cut short, makes a log verify that did not.         *)
THEOREM BrokenLogStaysBroken == Spec => BrokenStaysBroken
<1>1. IInv /\ [Next]_vars =>
        (\A k \in Keys : seen' # seen /\ ~Verify(k) => ~Verify(k)') \/ UNCHANGED vars
  <2> SUFFICES ASSUME IInv, Next, seen' # seen, NEW k \in Keys, Verify(k)'
               PROVE  Verify(k)
    OBVIOUS
  <2>1. ASSUME NEW line, lines' = With(line) PROVE Verify(k)
    <3>1. ended
      <4> SUFFICES ASSUME ~ended PROVE FALSE
        BY DEF IInv, Typed
      <4>1. lines'[Len(lines)] = Garbage /\ Len(lines) \in DOMAIN lines
            /\ IsSeq(lines') /\ Len(lines') = Len(lines)
        BY <2>1, WithOne DEF IInv
      <4>2. Len(lines) \in DOMAIN lines'
        BY <4>1, SeqDomain DEF IInv, Typed
      <4> QED BY <4>1, <4>2 DEF Verify
    <3>2. /\ Len(lines) \in Nat /\ DOMAIN lines = 1 .. Len(lines)
          /\ DOMAIN lines' = 1 .. Len(lines) + 1
          /\ \A i \in 1 .. Len(lines) : lines'[i] = lines[i]
      BY <2>1, <3>1, WithOne, SeqDomain DEF IInv, Typed
    <3> SUFFICES ASSUME NEW i \in DOMAIN lines
                 PROVE  /\ lines[i] # Garbage /\ lines[i].seq = i /\ lines[i].prev = Before(i)
                        /\ lines[i].mac = Hmac(k, i, lines[i].op, lines[i].prev)
      BY DEF Verify
    <3>3. i \in DOMAIN lines' /\ lines'[i] = lines[i]
      BY <3>2
    <3>4. Before(i)' = Before(i)
      <4>1. i # 1 => i - 1 \in 1 .. Len(lines)
        BY <3>2
      <4> QED BY <3>2, <4>1 DEF Before
    <3> QED BY <3>3, <3>4 DEF Verify
  <2>2. ASSUME UNCHANGED lines PROVE Verify(k)
    BY <2>2 DEF Verify, Before
  <2> QED BY <2>1, <2>2 DEF Next, Read, Write, WriteCut, WriteFails, Change, Delete, Duplicate, Edited
<1> QED BY <1>1, IInvHolds, PTL DEF Spec, BrokenStaysBroken
=================================================================================
