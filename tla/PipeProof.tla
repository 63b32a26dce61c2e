----------------------------- MODULE PipeProof -----------------------------
(***************************************************************************)
(* Proofs about Pipe, for any bytes, any size of a message, and whatever   *)
(* numbers of bytes are asked for: every step of the pipe is one of Stream *)
(* or none, and a reader is missed only if it left.                        *)
(***************************************************************************)
EXTENDS Pipe, SequenceTheorems, TLAPS

Mail == [type : {"kPipe", "other"}, data : Seq(Byte)]

\* s is what stands in w behind the first a bytes.
Part(w, s, a) == a + Len(s) <= Len(w) /\ \A k \in 1..Len(s) : s[k] = w[a + k]

\* Where in what was written the messages of the mailbox end: they follow one
\* another, from what was read to what is still to be sent.
InTransit(off) ==
  /\ Part(written, got, 0) /\ Part(written, data_, Len(got)) /\ off[0] = Len(got) + Len(data_)
  /\ \A i \in 1..Len(mailbox) :
       /\ Part(written, mailbox[i].data, off[i - 1]) /\ off[i] = off[i - 1] + Len(mailbox[i].data)
       /\ mailbox[i] = PipeMessage(<<>>) => off[i] = Len(written)
       /\ mailbox[i].type # "kPipe" => mailbox[i].data = <<>>
  /\ Part(written, bufc, off[Len(mailbox)]) /\ off[Len(mailbox)] + Len(bufc) = Len(written)
  /\ closed_ => off[0] = Len(written)

Transit == right # "done" => \E off \in [0..Len(mailbox) -> Nat] : InTransit(off)

\* The end is sent last.
EndLast ==
  left \notin {"wait", "done"} =>
    ~closed_ /\ ~ended /\ \A i \in 1..Len(mailbox) : mailbox[i] # PipeMessage(<<>>)

Places ==
  /\ left = "new" => right = "none"
  /\ quit <=> right \in {"finish", "done"}
  /\ right = "read" => len \in Request
  /\ left # "write" => bufc = <<>>
  /\ wild => right = "done" /\ ~ended

IInv == TypeOK /\ Places /\ EndLast /\ Transit

-----------------------------------------------------------------------------
(* The operators *)

LEMMA Cut ==
  ASSUME NEW s \in Seq(Byte), NEW n \in Nat
  PROVE  /\ First(s, n) \in Seq(Byte) /\ Rest(s, n) \in Seq(Byte)
         /\ Len(First(s, n)) = Least(n, Len(s))
         /\ Len(Rest(s, n)) = Len(s) - Least(n, Len(s))
         /\ \A k \in 1..Least(n, Len(s)) : First(s, n)[k] = s[k]
         /\ \A k \in 1..(Len(s) - Least(n, Len(s))) : Rest(s, n)[k] = s[Least(n, Len(s)) + k]
<1>1. Len(s) \in Nat /\ \A i \in 1..Len(s) : s[i] \in Byte
  BY LenProperties, ElementOfSeq
<1>2. Least(n, Len(s)) \in Nat /\ Least(n, Len(s)) <= Len(s) /\ Least(n, Len(s)) <= n
  BY <1>1 DEF Least
<1>3. /\ First(s, n) \in Seq(Byte) /\ Len(First(s, n)) = Least(n, Len(s))
      /\ \A k \in 1..Least(n, Len(s)) : First(s, n)[k] = s[k]
  <2> DEFINE m == Least(n, Len(s))
  <2> HIDE DEF m
  <2>1. \A i \in 1..m : s[i] \in Byte
    BY <1>1, <1>2 DEF m
  <2>2. /\ SubSeq(s, 1, m) \in Seq(Byte)
        /\ Len(SubSeq(s, 1, m)) = IF 1 <= m THEN m - 1 + 1 ELSE 0
        /\ \A i \in 1..(m - 1 + 1) : SubSeq(s, 1, m)[i] = s[1 + i - 1]
    BY <2>1, <1>2, SubSeqProperties DEF m
  <2>3. m \in Nat
    BY <1>2 DEF m
  <2>4. Len(SubSeq(s, 1, m)) = m /\ \A k \in 1..m : SubSeq(s, 1, m)[k] = s[k]
    BY <2>2, <2>3
  <2> QED
    BY <2>2, <2>4 DEF First, m
<1>4. /\ Rest(s, n) \in Seq(Byte) /\ Len(Rest(s, n)) = Len(s) - Least(n, Len(s))
      /\ \A k \in 1..(Len(s) - Least(n, Len(s))) : Rest(s, n)[k] = s[Least(n, Len(s)) + k]
  <2>1. \A i \in (n + 1)..Len(s) : s[i] \in Byte
    BY <1>1
  <2>2. /\ SubSeq(s, n + 1, Len(s)) \in Seq(Byte)
        /\ Len(SubSeq(s, n + 1, Len(s))) = IF n + 1 <= Len(s) THEN Len(s) - (n + 1) + 1 ELSE 0
        /\ \A i \in 1..(Len(s) - (n + 1) + 1) : SubSeq(s, n + 1, Len(s))[i] = s[n + 1 + i - 1]
    BY <2>1, <1>1, SubSeqProperties
  <2>3. CASE n + 1 <= Len(s)
    <3>1. Least(n, Len(s)) = n
      BY <2>3, <1>1 DEF Least
    <3>2. \A k \in 1..(Len(s) - n) : SubSeq(s, n + 1, Len(s))[k] = s[n + k]
      BY <2>2, <1>1
    <3> QED
      BY <2>2, <2>3, <3>1, <3>2, <1>1 DEF Rest
  <2>4. CASE ~(n + 1 <= Len(s))
    <3>1. Least(n, Len(s)) = Len(s)
      BY <2>4, <1>1 DEF Least
    <3> QED
      BY <2>2, <2>4, <3>1, <1>1 DEF Rest
  <2> QED
    BY <2>3, <2>4
<1> QED
  BY <1>3, <1>4

\* Cut in two, a part is two parts.
LEMMA CutPart ==
  ASSUME NEW w \in Seq(Byte), NEW s \in Seq(Byte), NEW n \in Nat, NEW a \in Nat, Part(w, s, a)
  PROVE  /\ Part(w, First(s, n), a)
         /\ Part(w, Rest(s, n), a + Len(First(s, n)))
         /\ Len(First(s, n)) + Len(Rest(s, n)) = Len(s)
<1> DEFINE m == Least(n, Len(s))
<1>1. Len(s) \in Nat /\ Len(w) \in Nat /\ m \in Nat /\ m <= Len(s)
  BY LenProperties DEF Least
<1>2. /\ Len(First(s, n)) = m /\ Len(Rest(s, n)) = Len(s) - m
      /\ \A k \in 1..m : First(s, n)[k] = s[k]
      /\ \A k \in 1..(Len(s) - m) : Rest(s, n)[k] = s[m + k]
  BY Cut
<1> HIDE DEF m
<1>3. a + Len(s) <= Len(w) /\ \A k \in 1..Len(s) : s[k] = w[a + k]
  BY DEF Part
<1>4. Part(w, First(s, n), a)
  BY <1>1, <1>2, <1>3 DEF Part
<1>5. ASSUME NEW k \in 1..(Len(s) - m)
      PROVE  Rest(s, n)[k] = w[(a + m) + k]
  <2>1. m + k \in 1..Len(s) /\ a + (m + k) = (a + m) + k
    BY <1>1
  <2> QED
    BY <1>2, <1>3, <2>1
<1>6. Part(w, Rest(s, n), a + m)
  <2>1. (a + m) + Len(Rest(s, n)) = a + Len(s)
    BY <1>1, <1>2
  <2> QED
    BY <1>2, <1>3, <1>5, <2>1 DEF Part
<1> QED
  BY <1>1, <1>2, <1>4, <1>6

LEMMA JoinParts ==
  ASSUME NEW w \in Seq(Byte), NEW s \in Seq(Byte), NEW t \in Seq(Byte),
         Part(w, s, 0), Part(w, t, Len(s))
  PROVE  Part(w, s \o t, 0)
<1>1. Len(s) \in Nat /\ Len(t) \in Nat /\ Len(w) \in Nat
  BY LenProperties
<1>2. /\ Len(s \o t) = Len(s) + Len(t)
      /\ \A i \in 1..(Len(s) + Len(t)) :
           (s \o t)[i] = IF i <= Len(s) THEN s[i] ELSE t[i - Len(s)]
  BY ConcatProperties
<1>3. ASSUME NEW i \in 1..(Len(s) + Len(t)) PROVE (s \o t)[i] = w[0 + i]
  <2>1. CASE i <= Len(s)
    BY <1>1, <1>2, <2>1 DEF Part
  <2>2. CASE i > Len(s)
    <3>1. i - Len(s) \in 1..Len(t) /\ Len(s) + (i - Len(s)) = 0 + i
      BY <1>1, <2>2
    <3>2. t[i - Len(s)] = w[Len(s) + (i - Len(s))]
      BY <3>1 DEF Part
    <3> QED
      BY <1>1, <1>2, <2>2, <3>1, <3>2
  <2> QED
    BY <1>1, <2>1, <2>2
<1> QED
  BY <1>1, <1>2, <1>3 DEF Part

\* What is a part from the first byte on is the beginning.
LEMMA PartIsPrefix ==
  ASSUME NEW w \in Seq(Byte), NEW s \in Seq(Byte), Part(w, s, 0)
  PROVE  Len(s) \in 0..Len(w) /\ s = SubSeq(w, 1, Len(s))
<1>1. Len(s) \in Nat /\ Len(w) \in Nat /\ Len(s) <= Len(w)
  BY LenProperties DEF Part
<1>2. \A i \in 1..Len(s) : w[i] \in Byte
  BY <1>1, ElementOfSeq
<1>3. /\ SubSeq(w, 1, Len(s)) \in Seq(Byte)
      /\ Len(SubSeq(w, 1, Len(s))) = IF 1 <= Len(s) THEN Len(s) - 1 + 1 ELSE 0
      /\ \A i \in 1..(Len(s) - 1 + 1) : SubSeq(w, 1, Len(s))[i] = w[1 + i - 1]
  BY <1>1, <1>2, SubSeqProperties
<1>4. Len(SubSeq(w, 1, Len(s))) = Len(s)
  BY <1>1, <1>3
<1>5. \A i \in 1..Len(s) : s[i] = SubSeq(w, 1, Len(s))[i]
  BY <1>1, <1>3 DEF Part
<1> QED
  BY <1>1, <1>3, <1>4, <1>5, SeqEqual

-----------------------------------------------------------------------------
(* What is on its way *)

LEMMA TransitSame ==
  ASSUME Transit, UNCHANGED <<got, data_, mailbox, bufc, written, closed_>>,
         right = "done" => right' = "done"
  PROVE  Transit'
<1> SUFFICES ASSUME right' # "done"
             PROVE  \E off \in [0..Len(mailbox') -> Nat] : InTransit(off)'
  BY DEF Transit
<1>1. PICK off \in [0..Len(mailbox) -> Nat] : InTransit(off)
  BY DEF Transit
<1>2. InTransit(off)'
  BY <1>1 DEF InTransit
<1> QED
  BY <1>1, <1>2

\* A message is sent, and takes its data from what is left to send.
Sends(m) ==
  /\ mailbox' = Append(mailbox, m) /\ bufc' \in Seq(Byte)
  /\ UNCHANGED <<got, data_, written, closed_>>
  /\ \A a \in Nat : Part(written, bufc, a) =>
       Part(written, m.data, a) /\ Part(written, bufc', a + Len(m.data))
  /\ Len(m.data) + Len(bufc') = Len(bufc)
  /\ m = PipeMessage(<<>>) => Len(bufc') = 0
  /\ m.type # "kPipe" => m.data = <<>>

LEMMA Sending ==
  ASSUME TypeOK, Transit, right # "done", NEW m \in Mail, Sends(m)
  PROVE  Transit'
<1>0. PICK n \in Nat : n = Len(mailbox)
  BY LenProperties DEF TypeOK, Mail
<1>1. PICK off \in [0..n -> Nat] : InTransit(off)
  BY <1>0 DEF Transit
<1>2. /\ n \in Nat /\ Len(mailbox') = n + 1 /\ mailbox'[n + 1] = m
      /\ \A i \in 1..n : mailbox'[i] = mailbox[i]
  BY <1>0, LenProperties, AppendProperties DEF TypeOK, Mail, Sends
<1>3. Len(bufc) \in Nat /\ Len(bufc') \in Nat /\ Len(written) \in Nat /\ Len(m.data) \in Nat
  BY LenProperties DEF TypeOK, Mail, Sends
<1>30. off[n] \in Nat /\ off[n] + Len(bufc) = Len(written) /\ Len(m.data) + Len(bufc') = Len(bufc)
  BY <1>0, <1>1 DEF InTransit, Sends
<1>31. PICK o \in Nat, b \in Nat, w \in Nat, d \in Nat, e \in Nat :
         o = off[n] /\ b = Len(bufc) /\ w = Len(written) /\ d = Len(m.data) /\ e = Len(bufc')
  BY <1>3, <1>30
<1>32. (o + d) + e = w /\ (e = 0 => o + d = w)
  <2>1. d + e = b /\ o + b = w
    BY <1>30, <1>31
  <2> QED
    BY <2>1
<1>4. PICK new \in [0..(n + 1) -> Nat] :
        new[n + 1] = off[n] + Len(m.data) /\ \A i \in 0..n : new[i] = off[i]
  <2> DEFINE f == [i \in 0..(n + 1) |-> IF i <= n THEN off[i] ELSE off[n] + Len(m.data)]
  <2>1. f \in [0..(n + 1) -> Nat]
    BY <1>1, <1>2, <1>3
  <2>2. f[n + 1] = off[n] + Len(m.data) /\ \A i \in 0..n : f[i] = off[i]
    BY <1>2
  <2> HIDE DEF f
  <2> QED
    BY <2>1, <2>2
<1>5. /\ Part(written, got, 0) /\ Part(written, data_, Len(got)) /\ off[0] = Len(got) + Len(data_)
      /\ \A i \in 1..n :
           /\ Part(written, mailbox[i].data, off[i - 1])
           /\ off[i] = off[i - 1] + Len(mailbox[i].data)
           /\ mailbox[i] = PipeMessage(<<>>) => off[i] = Len(written)
           /\ mailbox[i].type # "kPipe" => mailbox[i].data = <<>>
      /\ Part(written, bufc, off[n]) /\ off[n] + Len(bufc) = Len(written)
      /\ closed_ => off[0] = Len(written)
  BY <1>0, <1>1 DEF InTransit
<1>6. off[n] \in Nat /\ off[0] \in Nat
  BY <1>1, <1>2
<1>7. /\ Part(written', got', 0) /\ Part(written', data_', Len(got'))
      /\ new[0] = Len(got') + Len(data_')
      /\ closed_' => new[0] = Len(written')
  BY <1>2, <1>4, <1>5 DEF Sends
<1>8. /\ Part(written', bufc', new[n + 1]) /\ new[n + 1] + Len(bufc') = Len(written')
  <2>1. Part(written, bufc', off[n] + Len(m.data))
    BY <1>5, <1>6 DEF Sends
  <2>2. new[n + 1] = o + d /\ new[n + 1] = off[n] + Len(m.data) /\ written' = written
    BY <1>4, <1>31 DEF Sends
  <2>3. (o + d) + Len(bufc') = Len(written)
    BY <1>31, <1>32
  <2> QED
    BY <2>1, <2>2, <2>3
<1>9. ASSUME NEW i \in 1..(n + 1)
      PROVE  /\ Part(written', mailbox'[i].data, new[i - 1])
             /\ new[i] = new[i - 1] + Len(mailbox'[i].data)
             /\ mailbox'[i] = PipeMessage(<<>>) => new[i] = Len(written')
             /\ mailbox'[i].type # "kPipe" => mailbox'[i].data = <<>>
  <2>1. CASE i \in 1..n
    <3>1. new[i] = off[i] /\ new[i - 1] = off[i - 1] /\ mailbox'[i] = mailbox[i]
      BY <1>2, <1>4, <2>1
    <3> QED
      BY <1>5, <2>1, <3>1 DEF Sends
  <2>2. CASE i = n + 1
    <3>1. new[i] = off[n] + Len(m.data) /\ new[i - 1] = off[n] /\ mailbox'[i] = m
      BY <1>2, <1>4, <2>2
    <3>2. Part(written, m.data, off[n])
      BY <1>5, <1>6 DEF Sends
    <3>3. m = PipeMessage(<<>>) => off[n] + Len(m.data) = Len(written)
      <4>1. HAVE m = PipeMessage(<<>>)
      <4> QED
        BY <1>31, <1>32, <4>1 DEF Sends
    <3> QED
      BY <3>1, <3>2, <3>3 DEF Sends
  <2>3. i \in 1..n \/ i = n + 1
    BY <1>2
  <2> QED
    BY <2>1, <2>2, <2>3
<1>10. InTransit(new)'
  BY <1>2, <1>7, <1>8, <1>9 DEF InTransit
<1> QED
  BY <1>2, <1>10 DEF Transit

\* A message is taken; what becomes of it is in got and data_.
LEMMA Taking ==
  ASSUME TypeOK, Transit, right # "done", mailbox # <<>>, mailbox' = Tail(mailbox),
         UNCHANGED <<bufc, written>>,
         \A off \in [0..Len(mailbox) -> Nat] : InTransit(off) =>
           /\ Part(written, got', 0) /\ Part(written, data_', Len(got'))
           /\ Len(got') + Len(data_') = off[1]
           /\ closed_' => off[1] = Len(written)
  PROVE  Transit'
<1>0. PICK n \in Nat : n = Len(mailbox)
  BY LenProperties DEF TypeOK, Mail
<1>1. PICK off \in [0..n -> Nat] : InTransit(off)
  BY <1>0 DEF Transit
<1>2. /\ n \in Nat /\ n > 0 /\ Len(mailbox') = n - 1
      /\ \A i \in 1..(n - 1) : mailbox'[i] = mailbox[i + 1]
  BY <1>0, LenProperties, HeadTailProperties, EmptySeq DEF TypeOK
<1>3. PICK new \in [0..(n - 1) -> Nat] : \A i \in 0..(n - 1) : new[i] = off[i + 1]
  <2> DEFINE f == [i \in 0..(n - 1) |-> off[i + 1]]
  <2>1. f \in [0..(n - 1) -> Nat] /\ \A i \in 0..(n - 1) : f[i] = off[i + 1]
    BY <1>1, <1>2
  <2> HIDE DEF f
  <2> QED
    BY <2>1
<1>4. /\ Part(written, got', 0) /\ Part(written, data_', Len(got'))
      /\ Len(got') + Len(data_') = off[1]
      /\ closed_' => off[1] = Len(written)
  BY <1>0, <1>1
<1>5. /\ \A i \in 1..n :
           /\ Part(written, mailbox[i].data, off[i - 1])
           /\ off[i] = off[i - 1] + Len(mailbox[i].data)
           /\ mailbox[i] = PipeMessage(<<>>) => off[i] = Len(written)
           /\ mailbox[i].type # "kPipe" => mailbox[i].data = <<>>
      /\ Part(written, bufc, off[n]) /\ off[n] + Len(bufc) = Len(written)
  BY <1>0, <1>1 DEF InTransit
<1>6. new[0] = off[1] /\ new[n - 1] = off[n]
  BY <1>2, <1>3
<1>7. ASSUME NEW i \in 1..(n - 1)
      PROVE  /\ Part(written', mailbox'[i].data, new[i - 1])
             /\ new[i] = new[i - 1] + Len(mailbox'[i].data)
             /\ mailbox'[i] = PipeMessage(<<>>) => new[i] = Len(written')
             /\ mailbox'[i].type # "kPipe" => mailbox'[i].data = <<>>
  <2>1. /\ new[i] = off[i + 1] /\ new[i - 1] = off[i] /\ mailbox'[i] = mailbox[i + 1]
        /\ i + 1 \in 1..n /\ (i + 1) - 1 = i
    BY <1>2, <1>3
  <2> QED
    BY <1>5, <2>1
<1>8. InTransit(new)'
  BY <1>2, <1>4, <1>5, <1>6, <1>7 DEF InTransit
<1> QED
  BY <1>2, <1>8 DEF Transit

-----------------------------------------------------------------------------
(* The operators, continued *)

\* What is written later leaves a part where it is.
LEMMA PartGrows ==
  ASSUME NEW w \in Seq(Byte), NEW t \in Seq(Byte), NEW s \in Seq(Byte), NEW a \in Nat,
         Part(w, s, a)
  PROVE  Part(w \o t, s, a)
<1>1. Len(s) \in Nat /\ Len(t) \in Nat /\ Len(w) \in Nat
  BY LenProperties
<1>2. /\ Len(w \o t) = Len(w) + Len(t)
      /\ \A i \in 1..(Len(w) + Len(t)) : (w \o t)[i] = IF i <= Len(w) THEN w[i] ELSE t[i - Len(w)]
  BY ConcatProperties
<1>3. a + Len(s) <= Len(w) /\ \A k \in 1..Len(s) : s[k] = w[a + k]
  BY DEF Part
<1>4. ASSUME NEW k \in 1..Len(s) PROVE s[k] = (w \o t)[a + k]
  <2>1. a + k \in 1..(Len(w) + Len(t)) /\ a + k <= Len(w)
    BY <1>1, <1>3
  <2> QED
    BY <1>2, <1>3, <2>1
<1> QED
  BY <1>1, <1>2, <1>3, <1>4 DEF Part

LEMMA NewPart ==
  ASSUME NEW w \in Seq(Byte), NEW t \in Seq(Byte)
  PROVE  Part(w \o t, t, Len(w)) /\ Len(w) + Len(t) = Len(w \o t)
<1>1. Len(t) \in Nat /\ Len(w) \in Nat
  BY LenProperties
<1>2. /\ Len(w \o t) = Len(w) + Len(t)
      /\ \A i \in 1..(Len(w) + Len(t)) : (w \o t)[i] = IF i <= Len(w) THEN w[i] ELSE t[i - Len(w)]
  BY ConcatProperties
<1>3. ASSUME NEW k \in 1..Len(t) PROVE t[k] = (w \o t)[Len(w) + k]
  <2>1. Len(w) + k \in 1..(Len(w) + Len(t)) /\ ~(Len(w) + k <= Len(w)) /\ (Len(w) + k) - Len(w) = k
    BY <1>1
  <2> QED
    BY <1>2, <2>1
<1> QED
  BY <1>1, <1>2, <1>3 DEF Part

\* A part as long as the whole is the whole.
LEMMA PartIsWhole ==
  ASSUME NEW w \in Seq(Byte), NEW s \in Seq(Byte), Part(w, s, 0), Len(s) = Len(w)
  PROVE  s = w
<1>1. Len(s) \in Nat
  BY LenProperties
<1>2. \A i \in 1..Len(s) : s[i] = w[i]
  BY <1>1 DEF Part
<1> QED
  BY <1>2, SeqEqual

LEMMA Numbers == Piece \in Nat /\ Piece > 0 /\ \A n \in Request : n \in Nat /\ n > 0
  BY PipeAssumption

LEMMA Pieces ==
  ASSUME NEW s \in Seq(Byte), s # <<>>, NEW n \in Nat, n > 0
  PROVE  Len(First(s, n)) \in Nat /\ Len(First(s, n)) > 0 /\ First(s, n) # <<>>
<1>1. Len(s) \in Nat /\ Len(s) > 0
  BY LenProperties, EmptySeq
<1>2. Len(First(s, n)) = Least(n, Len(s))
  BY Cut
<1>3. Least(n, Len(s)) \in Nat /\ Least(n, Len(s)) > 0
  BY <1>1 DEF Least
<1> QED
  BY <1>2, <1>3, EmptySeq

\* What is written is a sequence that the abstract stream can take too.
LEMMA Buffers ==
  ASSUME NEW w \in Seq(Byte),
         NEW bytes \in UNION {[1..n -> Byte] : n \in 0..(MaxBytes - Len(w))}
  PROVE  bytes \in Seq(Byte) /\ bytes \in UNION {[1..n -> Byte] : n \in 0..MaxBytes}
<1>1. Len(w) \in Nat /\ MaxBytes \in Nat
  BY LenProperties, PipeAssumption
<1>2. PICK n \in 0..(MaxBytes - Len(w)) : bytes \in [1..n -> Byte]
  OBVIOUS
<1>3. n \in Nat /\ n \in 0..MaxBytes
  BY <1>1, <1>2
<1> QED
  BY <1>2, <1>3, SeqDef

-----------------------------------------------------------------------------
(* The invariant *)

LEMMA MailTypes ==
  /\ Other \in Mail /\ \A d \in Seq(Byte) : PipeMessage(d) \in Mail
  /\ \A d : PipeMessage(d).data = d /\ PipeMessage(d).type = "kPipe"
  /\ Other.data = <<>> /\ Other.type = "other"
<1>1. <<>> \in Seq(Byte)
  BY EmptySeq
<1> QED
  BY <1>1 DEF Other, PipeMessage, Mail

LEMMA FirstMessage ==
  ASSUME NEW box \in Seq(Mail), box # <<>>
  PROVE  Head(box) = box[1] /\ 1 \in 1..Len(box) /\ box[1] \in Mail
<1>1. Head(box) = box[1] /\ Head(box) \in Mail
  BY HeadTailProperties
<1>2. Len(box) \in Nat /\ Len(box) # 0
  BY LenProperties, EmptySeq
<1> QED
  BY <1>1, <1>2

LEMMA TypeInit == Init => TypeOK
<1>1. <<>> \in Seq(Byte) /\ <<>> \in Seq([type : {"kPipe", "other"}, data : Seq(Byte)])
  BY EmptySeq
<1>2. 0 \in 0..MaxOther
  BY PipeAssumption
<1> QED
  BY <1>1, <1>2 DEF Init, TypeOK

LEMMA TypeStep ==
  ASSUME TypeOK, [Next]_vars
  PROVE  TypeOK'
<1>1. ASSUME NEW m \in Mail, Send(m)
      PROVE  mailbox' \in Seq(Mail) /\ wild' \in BOOLEAN
  BY <1>1, AppendProperties DEF Send, TypeOK, Mail
<1>2. ASSUME mailbox # <<>> PROVE Head(mailbox) \in Mail /\ Tail(mailbox) \in Seq(Mail)
  BY <1>2, HeadTailProperties DEF TypeOK, Mail
<1>3. /\ Mail = [type : {"kPipe", "other"}, data : Seq(Byte)]
      /\ \A m \in Mail : m.data \in Seq(Byte)
      /\ <<>> \in Seq(Byte) /\ <<>> \in Seq(Mail) /\ \A n \in {0} \cup Request : n \in Nat
  BY EmptySeq, Numbers DEF Mail
<1>4. \A s \in Seq(Byte), n \in Nat : First(s, n) \in Seq(Byte) /\ Rest(s, n) \in Seq(Byte)
  BY Cut
<1>5. CASE MakeReader \/ Written \/ WaitFinish \/ StartReader \/ CallRead \/ ReadClosed \/ EndCommand
  <2>1. CASE MakeReader
    BY <2>1 DEF TypeOK, MakeReader
  <2>2. CASE Written \/ WaitFinish
    BY <2>2 DEF TypeOK, Written, WaitFinish, reader
  <2>3. CASE StartReader \/ CallRead
    BY <2>3 DEF TypeOK, StartReader, CallRead, writer
  <2>4. CASE ReadClosed
    BY <2>4 DEF TypeOK, ReadClosed, ReturnEnd, writer
  <2>5. CASE EndCommand
    BY <2>5 DEF TypeOK, EndCommand, writer
  <2> QED
    BY <1>5, <2>1, <2>2, <2>3, <2>4, <2>5
<1>6. CASE Write
  <2>2. PICK bytes \in Seq(Byte) : written' = written \o bytes /\ bufc' = bytes
    BY <1>6, Buffers DEF Write, TypeOK
  <2>3. written' \in Seq(Byte) /\ bufc' \in Seq(Byte)
    BY <2>2, ConcatProperties DEF TypeOK
  <2> QED
    BY <1>6, <2>3 DEF Write, TypeOK, reader
<1>7. CASE SendPiece
  <2>1. First(bufc, Piece) \in Seq(Byte) /\ Rest(bufc, Piece) \in Seq(Byte)
    BY <1>4, Numbers DEF TypeOK
  <2>2. mailbox' \in Seq(Mail) /\ wild' \in BOOLEAN
    BY <1>1, <1>7, <2>1, MailTypes DEF SendPiece
  <2> QED
    BY <1>3, <1>7, <2>1, <2>2 DEF SendPiece, TypeOK, reader
<1>8. CASE FinishWrite
  <2>1. mailbox' \in Seq(Mail) /\ wild' \in BOOLEAN
    <3>1. PipeMessage(<<>>) \in Mail
      BY <1>3, MailTypes
    <3> QED
      BY <1>1, <1>8, <3>1 DEF FinishWrite
  <2> QED
    BY <1>3, <1>8, <2>1 DEF FinishWrite, TypeOK, reader
<1>9. ASSUME NEW d \in Seq(Byte), Return(d)
      PROVE  got' \in Seq(Byte) /\ data_' \in Seq(Byte) /\ right' = "run"
  <2>1. First(d, len) \in Seq(Byte) /\ Rest(d, len) \in Seq(Byte)
    BY <1>3, <1>4 DEF TypeOK
  <2> QED
    BY <1>9, <2>1, ConcatProperties DEF Return, TypeOK
<1>10. CASE ReadKept
  BY <1>9, <1>10 DEF ReadKept, TypeOK, writer
<1>11. CASE Receive
  <2>1. Head(mailbox) \in Mail /\ mailbox' \in Seq(Mail) /\ Head(mailbox).data \in Seq(Byte)
    BY <1>2, <1>3, <1>11 DEF Receive
  <2>2. CASE UNCHANGED <<right, data_, closed_, got, ended>>
    BY <1>3, <1>11, <2>1, <2>2 DEF Receive, TypeOK, writer
  <2>3. CASE ReturnEnd /\ closed_' = TRUE /\ UNCHANGED <<data_, got>>
    BY <1>3, <1>11, <2>1, <2>3 DEF Receive, ReturnEnd, TypeOK, writer
  <2>4. CASE Return(Head(mailbox).data) /\ UNCHANGED <<closed_, ended>>
    <3>1. got' \in Seq(Byte) /\ data_' \in Seq(Byte) /\ right' = "run"
      BY <1>9, <2>1, <2>4
    <3> QED
      BY <1>3, <1>11, <2>1, <2>4, <3>1 DEF Receive, TypeOK, writer
  <2> QED
    BY <1>11, <2>2, <2>3, <2>4 DEF Receive
<1>12. CASE Finish
  BY <1>3, <1>12 DEF Finish, TypeOK, writer
<1>13. CASE SendOther
  <2>1. mailbox' \in Seq(Mail)
    BY <1>13, MailTypes, AppendProperties DEF SendOther, TypeOK, Mail
  <2>2. others' \in 0..MaxOther
    BY <1>13, PipeAssumption DEF SendOther, TypeOK
  <2> QED
    BY <1>3, <1>13, <2>1, <2>2 DEF SendOther, TypeOK, writer, reader
<1>14. CASE UNCHANGED vars
  BY <1>14 DEF TypeOK, vars, writer, reader
<1> QED
  BY <1>5, <1>6, <1>7, <1>8, <1>10, <1>11, <1>12, <1>13, <1>14 DEF Next, Left, Reading

LEMMA PlacesStep ==
  ASSUME TypeOK, Places, EndLast, [Next]_vars
  PROVE  Places'
<1>1. CASE ~wild /\ Left
  <2>1. CASE MakeReader \/ Written \/ WaitFinish
    BY <1>1, <2>1 DEF Places, TypeOK, MakeReader, Written, WaitFinish, reader
  <2>2. CASE Write
    BY <2>2 DEF Places, TypeOK, Write, reader
  <2>3. CASE SendPiece \/ FinishWrite
    BY <2>3 DEF Places, EndLast, TypeOK, SendPiece, FinishWrite, Send, reader
  <2> QED
    BY <1>1, <2>1, <2>2, <2>3 DEF Left
<1>2. CASE ~wild /\ (Reading \/ EndCommand)
  <2>1. ~wild' /\ UNCHANGED <<left, bufc>>
    BY <1>2 DEF TypeOK, Reading, StartReader, CallRead, ReadKept, ReadClosed, Receive,
                Finish, EndCommand, writer
  <2>0. (left = "new" => right = "none")'
    BY <1>2 DEF Places, Reading, StartReader, CallRead, ReadKept, ReadClosed, Receive, writer,
                Finish, EndCommand
  <2>2. (quit <=> right \in {"finish", "done"})'
    BY <1>2 DEF Places, Reading, StartReader, CallRead, ReadKept, ReadClosed, Receive, Return,
                ReturnEnd, Finish, EndCommand
  <2>3. (right = "read" => len \in Request)'
    BY <1>2 DEF Places, Reading, StartReader, CallRead, ReadKept, ReadClosed, Receive, Return,
                ReturnEnd, Finish, EndCommand
  <2> QED
    BY <2>0, <2>1, <2>2, <2>3 DEF Places
<1>3. CASE SendOther \/ UNCHANGED vars
  BY <1>3 DEF Places, SendOther, vars, writer, reader
<1> QED
  BY <1>1, <1>2, <1>3 DEF Next

\* Sent before the end: not yet the end.
LEMMA EndLastStep ==
  ASSUME TypeOK, EndLast, [Next]_vars
  PROVE  EndLast'
<1> SUFFICES ASSUME left' \notin {"wait", "done"}
             PROVE  ~closed_' /\ ~ended' /\ \A i \in 1..Len(mailbox') : mailbox'[i] # PipeMessage(<<>>)
  BY DEF EndLast
<1> DEFINE NoEnd(box) == \A i \in 1..Len(box) : box[i] # PipeMessage(<<>>)
<1>1. ASSUME left \notin {"wait", "done"}
      PROVE  ~closed_ /\ ~ended /\ NoEnd(mailbox)
  BY <1>1 DEF EndLast
<1>2. ASSUME NEW m \in Mail, m # PipeMessage(<<>>), mailbox' = Append(mailbox, m), NoEnd(mailbox)
      PROVE  NoEnd(mailbox')
  <2>1. /\ Len(mailbox') = Len(mailbox) + 1 /\ mailbox'[Len(mailbox) + 1] = m
        /\ \A i \in 1..Len(mailbox) : mailbox'[i] = mailbox[i]
    BY <1>2, AppendProperties DEF TypeOK, Mail
  <2>2. \A i \in 1..(Len(mailbox) + 1) : i \in 1..Len(mailbox) \/ i = Len(mailbox) + 1
    BY LenProperties DEF TypeOK
  <2> QED
    BY <1>2, <2>1, <2>2
<1>3. CASE MakeReader \/ Write \/ Written \/ WaitFinish \/ StartReader \/ CallRead \/ ReadKept
           \/ EndCommand \/ UNCHANGED vars
  <2>1. /\ left \notin {"wait", "done"} /\ UNCHANGED <<closed_, ended, mailbox>>
    BY <1>3 DEF MakeReader, Write, Written, WaitFinish, StartReader, CallRead, ReadKept,
                EndCommand, vars, writer, reader
  <2> QED
    BY <1>1, <2>1
<1>4. CASE SendPiece
  <2>1. /\ left \notin {"wait", "done"} /\ bufc # <<>> /\ UNCHANGED <<closed_, ended>>
        /\ Send(PipeMessage(First(bufc, Piece)))
    BY <1>4 DEF SendPiece, reader
  <2>2. /\ PipeMessage(First(bufc, Piece)) \in Mail
        /\ PipeMessage(First(bufc, Piece)) # PipeMessage(<<>>)
    <3>1. First(bufc, Piece) \in Seq(Byte) /\ First(bufc, Piece) # <<>>
      BY <2>1, Cut, Pieces, Numbers DEF TypeOK
    <3> QED
      BY <3>1, MailTypes
  <2> QED
    BY <1>1, <1>2, <2>1, <2>2 DEF Send
<1>5. CASE FinishWrite
  BY <1>5 DEF FinishWrite
<1>6. CASE ReadClosed
  BY <1>1, <1>6 DEF ReadClosed, writer
<1>7. CASE Receive
  <2>1. left \notin {"wait", "done"} /\ mailbox # <<>> /\ mailbox' = Tail(mailbox)
    BY <1>7 DEF Receive, writer
  <2>2. /\ Len(mailbox) \in Nat /\ Len(mailbox') = Len(mailbox) - 1 /\ Len(mailbox) > 0
        /\ Head(mailbox) = mailbox[1]
        /\ \A i \in 1..(Len(mailbox) - 1) : mailbox'[i] = mailbox[i + 1]
    BY <2>1, HeadTailProperties, LenProperties, EmptySeq DEF TypeOK
  <2>3. NoEnd(mailbox')
    <3>1. ASSUME NEW i \in 1..Len(mailbox') PROVE mailbox'[i] # PipeMessage(<<>>)
      <4>1. i + 1 \in 1..Len(mailbox) /\ mailbox'[i] = mailbox[i + 1]
        BY <2>2
      <4> QED
        BY <1>1, <2>1, <4>1
    <3> QED
      BY <3>1
  <2>4. Head(mailbox) # PipeMessage(<<>>)
    <3>1. 1 \in 1..Len(mailbox)
      BY <2>2
    <3> QED
      BY <1>1, <2>1, <2>2, <3>1
  <2> QED
    BY <1>1, <1>7, <2>1, <2>3, <2>4 DEF Receive
<1>8. CASE Finish
  <2>1. Len(<<>>) = 0
    BY EmptySeq
  <2> QED
    BY <1>1, <1>8, <2>1 DEF Finish, writer
<1>9. CASE SendOther
  <2>1. Other \in Mail /\ Other # PipeMessage(<<>>)
    BY MailTypes
  <2> QED
    BY <1>1, <1>2, <1>9, <2>1 DEF SendOther, writer, reader
<1> QED
  BY <1>3, <1>4, <1>5, <1>6, <1>7, <1>8, <1>9 DEF Next, Left, Reading

LEMMA TransitInit == Init => Transit
<1> SUFFICES ASSUME Init PROVE \E off \in [0..Len(mailbox) -> Nat] : InTransit(off)
  BY DEF Transit
<1>1. Len(<<>>) = 0
  BY EmptySeq
<1>2. PICK off : off = [i \in {0} |-> 0]
  OBVIOUS
<1>3. off \in [0..0 -> Nat] /\ off[0] = 0 /\ 0..0 = {0}
  BY <1>2
<1>4. Part(<<>>, <<>>, 0)
  BY <1>1 DEF Part
<1>5. InTransit(off)
  BY <1>1, <1>3, <1>4 DEF Init, InTransit
<1> QED
  BY <1>1, <1>3, <1>5 DEF Init

\* What a Read hands out of bytes that follow what was read, and what it keeps.
LEMMA Returning ==
  ASSUME TypeOK, Places, right = "read", NEW d \in Seq(Byte), Return(d),
         Part(written, got, 0), Part(written, d, Len(got))
  PROVE  /\ Part(written, got', 0) /\ Part(written, data_', Len(got'))
         /\ Len(got') + Len(data_') = Len(got) + Len(d)
         /\ got' \in Seq(Byte) /\ Len(got') >= Len(got) /\ (d # <<>> => Len(got') > Len(got))
<1>1. len \in Nat /\ len > 0
  BY Numbers DEF Places
<1> DEFINE f == First(d, len)
           r == Rest(d, len)
<1>2. f \in Seq(Byte) /\ r \in Seq(Byte) /\ got \in Seq(Byte) /\ written \in Seq(Byte)
  BY <1>1, Cut DEF TypeOK
<1>3. Len(got) \in Nat /\ Len(f) \in Nat /\ Len(r) \in Nat
  BY <1>2, LenProperties
<1>4. Part(written, f, Len(got)) /\ Part(written, r, Len(got) + Len(f)) /\ Len(f) + Len(r) = Len(d)
  BY <1>1, <1>2, <1>3, CutPart
<1>5. got' = got \o f /\ data_' = r
  BY DEF Return
<1>6. d # <<>> => Len(f) > 0
  BY <1>1, Pieces
<1> HIDE DEF f, r
<1>7. got' \in Seq(Byte) /\ Len(got') = Len(got) + Len(f)
  BY <1>2, <1>5, ConcatProperties
<1>8. Part(written, got', 0)
  BY <1>2, <1>4, <1>5, JoinParts
<1>9. (Len(got) + Len(f)) + Len(r) = Len(got) + Len(d)
  <2>1. PICK a \in Nat, b \in Nat, c \in Nat : a = Len(got) /\ b = Len(f) /\ c = Len(r)
    BY <1>3
  <2>2. (a + b) + c = a + (b + c)
    OBVIOUS
  <2> QED
    BY <1>4, <2>1, <2>2
<1> QED
  BY <1>3, <1>4, <1>5, <1>6, <1>7, <1>8, <1>9

LEMMA TransitStep ==
  ASSUME IInv, [Next]_vars
  PROVE  Transit'
<1>0. TypeOK /\ Transit /\ Places /\ EndLast
  BY DEF IInv
<1>1. CASE MakeReader \/ Written \/ WaitFinish \/ StartReader \/ CallRead \/ ReadClosed
           \/ EndCommand \/ UNCHANGED vars
  <2>1. UNCHANGED <<got, data_, mailbox, bufc, written, closed_>>
    BY <1>1 DEF MakeReader, Written, WaitFinish, StartReader, CallRead, ReadClosed,
                EndCommand, vars, writer, reader
  <2>2. right = "done" => right' = "done"
    BY <1>0, <1>1 DEF Places, MakeReader, Written, WaitFinish, StartReader, CallRead, ReadClosed,
                      EndCommand, vars, reader
  <2> QED
    BY <1>0, <2>1, <2>2, TransitSame
<1>2. CASE Write
  <2>1. PICK bytes \in Seq(Byte) : written' = written \o bytes /\ bufc' = bytes
    BY <1>0, <1>2, Buffers DEF Write, TypeOK
  <2>2. bufc = <<>> /\ ~closed_ /\ \A k \in 1..Len(mailbox) : mailbox[k] # PipeMessage(<<>>)
    BY <1>0, <1>2 DEF Write, Places, EndLast
  <2>3. UNCHANGED <<got, data_, mailbox, closed_, right>>
    BY <1>2 DEF Write, reader
  <2> SUFFICES ASSUME right # "done" PROVE Transit'
    BY <2>3 DEF Transit
  <2>4. PICK off \in [0..Len(mailbox) -> Nat] : InTransit(off)
    BY <1>0 DEF Transit
  <2>5. /\ \A k \in 1..Len(mailbox) : mailbox[k].data \in Seq(Byte) /\ k - 1 \in 0..Len(mailbox)
        /\ {written, bytes, got, data_} \subseteq Seq(Byte)
        /\ Len(mailbox) \in Nat /\ Len(got) \in Nat /\ Len(written) \in Nat /\ Len(<<>>) = 0
    <3>1. mailbox \in Seq(Mail) /\ Len(<<>>) = 0 /\ {written, bytes, got, data_} \subseteq Seq(Byte)
      BY <1>0, <2>1, EmptySeq DEF TypeOK, Mail
    <3>2. Len(mailbox) \in Nat /\ Len(got) \in Nat /\ Len(written) \in Nat
      BY <3>1, LenProperties
    <3>3. ASSUME NEW k \in 1..Len(mailbox)
          PROVE  mailbox[k].data \in Seq(Byte) /\ k - 1 \in 0..Len(mailbox)
      <4>1. mailbox[k] \in Mail
        BY <3>1, ElementOfSeq
      <4> QED
        BY <3>2, <4>1 DEF Mail
    <3> QED
      BY <3>1, <3>2, <3>3
  <2>6. off[Len(mailbox)] = Len(written)
    BY <2>2, <2>4, <2>5 DEF InTransit
  <2>7. Part(written', bufc', off[Len(mailbox)]) /\ off[Len(mailbox)] + Len(bufc') = Len(written')
    BY <2>1, <2>5, <2>6, NewPart
  <2>8. ASSUME NEW k \in 1..Len(mailbox)
        PROVE  /\ Part(written', mailbox[k].data, off[k - 1])
               /\ off[k] = off[k - 1] + Len(mailbox[k].data)
               /\ mailbox[k].type # "kPipe" => mailbox[k].data = <<>>
    <3>1. /\ Part(written, mailbox[k].data, off[k - 1])
          /\ off[k] = off[k - 1] + Len(mailbox[k].data)
          /\ mailbox[k].type # "kPipe" => mailbox[k].data = <<>>
      BY <2>4 DEF InTransit
    <3>2. off[k - 1] \in Nat
      BY <2>5
    <3> QED
      BY <2>1, <2>5, <3>1, <3>2, PartGrows
  <2>9. /\ Part(written', got', 0) /\ Part(written', data_', Len(got'))
        /\ off[0] = Len(got') + Len(data_')
    <3>1. /\ Part(written, got, 0) /\ Part(written, data_, Len(got))
          /\ off[0] = Len(got) + Len(data_)
      BY <2>4 DEF InTransit
    <3> QED
      BY <2>1, <2>3, <2>5, <3>1, PartGrows
  <2>10. InTransit(off)'
    BY <2>2, <2>3, <2>7, <2>8, <2>9 DEF InTransit
  <2> QED
    BY <2>3, <2>10 DEF Transit
<1>3. ASSUME NEW m \in Mail, Send(m), right' = right, right # "done" => Sends(m)
      PROVE  Transit'
  <2>1. CASE right = "done"
    BY <1>3, <2>1 DEF Transit
  <2>2. CASE right # "done"
    BY <1>0, <1>3, <2>2, Sending
  <2> QED
    BY <2>1, <2>2
<1>4. CASE SendPiece
  <2> DEFINE f == First(bufc, Piece)
             r == Rest(bufc, Piece)
  <2>1. /\ bufc \in Seq(Byte) /\ bufc # <<>> /\ bufc' = r /\ Send(PipeMessage(f))
        /\ UNCHANGED <<got, data_, written, closed_, right>>
    BY <1>0, <1>4 DEF SendPiece, TypeOK, reader
  <2>2. f \in Seq(Byte) /\ r \in Seq(Byte) /\ f # <<>>
    BY <2>1, Cut, Pieces, Numbers
  <2>3. /\ Len(f) + Len(r) = Len(bufc)
        /\ \A a \in Nat : Part(written, bufc, a) => Part(written, f, a) /\ Part(written, r, a + Len(f))
    <3>1. bufc \in Seq(Byte) /\ written \in Seq(Byte) /\ Piece \in Nat
      BY <1>0, Numbers DEF TypeOK
    <3>2. \A a \in Nat : Part(written, bufc, a) => Part(written, f, a) /\ Part(written, r, a + Len(f))
      BY <3>1, CutPart
    <3>3. Part(bufc, bufc, 0)
      BY <3>1, LenProperties DEF Part
    <3>4. Len(f) + Len(r) = Len(bufc)
      BY <3>1, <3>3, CutPart
    <3> QED
      BY <3>2, <3>4
  <2> HIDE DEF f, r
  <2>4. /\ PipeMessage(f) \in Mail /\ PipeMessage(f).data = f /\ PipeMessage(f).type = "kPipe"
        /\ PipeMessage(f) # PipeMessage(<<>>)
    BY <2>2, MailTypes
  <2>5. right # "done" => Sends(PipeMessage(f))
    BY <2>1, <2>2, <2>3, <2>4 DEF Sends, Send
  <2> QED
    BY <1>3, <2>1, <2>4, <2>5
<1>5. ASSUME NEW m \in Mail, m.data = <<>>, mailbox' = Append(mailbox, m),
             UNCHANGED <<got, data_, written, closed_, bufc>>,
             m = PipeMessage(<<>>) => bufc = <<>>
      PROVE  Sends(m)
  <2>1. Len(<<>>) = 0 /\ bufc \in Seq(Byte) /\ written \in Seq(Byte)
    BY <1>0, EmptySeq DEF TypeOK
  <2>2. Len(bufc) \in Nat /\ Len(written) \in Nat
    BY <2>1, LenProperties
  <2>3. ASSUME NEW a \in Nat, Part(written, bufc, a)
        PROVE  Part(written, <<>>, a) /\ Part(written, bufc, a + 0)
    <3>1. a + Len(bufc) <= Len(written) /\ a + 0 = a
      BY <2>3 DEF Part
    <3>2. a + 0 <= Len(written)
      BY <2>2, <3>1
    <3> QED
      BY <2>1, <2>3, <3>1, <3>2 DEF Part
  <2> QED
    BY <1>5, <2>1, <2>2, <2>3 DEF Sends
<1>6. CASE FinishWrite
  <2>1. /\ Send(PipeMessage(<<>>)) /\ bufc = <<>>
        /\ UNCHANGED <<got, data_, written, closed_, bufc, right>>
    BY <1>0, <1>6 DEF FinishWrite, Places, reader
  <2>2. PipeMessage(<<>>) \in Mail /\ PipeMessage(<<>>).data = <<>>
    BY MailTypes, EmptySeq
  <2> QED
    BY <1>3, <1>5, <2>1, <2>2 DEF Send
<1>7. CASE SendOther
  <2>1. /\ right # "done" /\ mailbox' = Append(mailbox, Other)
        /\ UNCHANGED <<got, data_, written, closed_, bufc, right>>
    BY <1>7 DEF SendOther, writer, reader
  <2>2. Other \in Mail /\ Other.data = <<>> /\ Other # PipeMessage(<<>>)
    BY MailTypes
  <2>3. Sends(Other)
    BY <1>5, <2>1, <2>2
  <2> QED
    BY <1>0, <2>1, <2>2, <2>3, Sending
<1>8. CASE ReadKept
  <2>1. /\ right = "read" /\ Return(data_) /\ UNCHANGED <<mailbox, bufc, written, closed_>>
    BY <1>8 DEF ReadKept, writer
  <2>2. PICK off \in [0..Len(mailbox) -> Nat] : InTransit(off)
    BY <1>0, <2>1 DEF Transit
  <2>3. Part(written, got, 0) /\ Part(written, data_, Len(got)) /\ off[0] = Len(got) + Len(data_)
    BY <2>2 DEF InTransit
  <2>4. /\ Part(written, got', 0) /\ Part(written, data_', Len(got'))
        /\ Len(got') + Len(data_') = off[0]
    BY <1>0, <2>1, <2>3, Returning DEF TypeOK
  <2>5. InTransit(off)'
    BY <2>1, <2>2, <2>4 DEF InTransit
  <2> QED
    BY <2>1, <2>5 DEF Transit
<1>9. CASE Receive
  <2>1. /\ right = "read" /\ data_ = <<>> /\ ~closed_ /\ mailbox # <<>> /\ mailbox' = Tail(mailbox)
        /\ UNCHANGED <<bufc, written>>
    BY <1>9 DEF Receive, writer
  <2>2. Head(mailbox) = mailbox[1] /\ 1 \in 1..Len(mailbox) /\ mailbox[1] \in Mail
    BY <1>0, <2>1, FirstMessage DEF TypeOK, Mail
  <2>3. Len(<<>>) = 0 /\ Len(got) \in Nat /\ got \in Seq(Byte) /\ mailbox[1].data \in Seq(Byte)
    BY <1>0, <2>2, LenProperties, EmptySeq DEF TypeOK, Mail
  <2>4. ASSUME NEW off \in [0..Len(mailbox) -> Nat], InTransit(off)
        PROVE  /\ Part(written, got', 0) /\ Part(written, data_', Len(got'))
               /\ Len(got') + Len(data_') = off[1]
               /\ closed_' => off[1] = Len(written)
    <3>1. /\ Part(written, got, 0) /\ off[0] = Len(got) /\ Part(written, data_, Len(got))
          /\ Part(written, mailbox[1].data, off[1 - 1])
          /\ off[1] = off[1 - 1] + Len(mailbox[1].data)
          /\ mailbox[1] = PipeMessage(<<>>) => off[1] = Len(written)
          /\ mailbox[1].type # "kPipe" => mailbox[1].data = <<>>
      <4>1. /\ Part(written, got, 0) /\ off[0] = Len(got) + Len(data_)
            /\ Part(written, data_, Len(got))
        BY <2>4 DEF InTransit
      <4>2. off[0] = Len(got)
        BY <2>1, <2>3, <4>1
      <4> QED
        BY <2>2, <2>4, <4>1, <4>2 DEF InTransit
    <3>2. /\ Part(written, mailbox[1].data, Len(got))
          /\ off[1] = Len(got) + Len(mailbox[1].data)
      BY <3>1
    <3>3. CASE mailbox[1].type # "kPipe" /\ UNCHANGED <<right, data_, closed_, got, ended>>
      BY <2>1, <2>3, <3>1, <3>2, <3>3
    <3>4. CASE mailbox[1] = PipeMessage(<<>>) /\ UNCHANGED <<data_, got>>
      <4>1. mailbox[1].data = <<>>
        BY <3>4, MailTypes
      <4> QED
        BY <2>1, <2>3, <3>1, <3>2, <3>4, <4>1
    <3>5. CASE Return(mailbox[1].data) /\ UNCHANGED <<closed_, ended>>
      BY <1>0, <2>1, <2>3, <3>1, <3>2, <3>5, Returning
    <3> QED
      BY <1>9, <2>2, <3>3, <3>4, <3>5 DEF Receive
  <2> QED
    BY <1>0, <2>1, <2>4, Taking
<1>10. CASE Finish
  BY <1>10 DEF Finish, Transit
<1> QED
  BY <1>1, <1>2, <1>4, <1>6, <1>7, <1>8, <1>9, <1>10 DEF Next, Left, Reading

LEMMA Invariant == Spec => []IInv
<1>1. Init => IInv
  BY TypeInit, TransitInit, EmptySeq DEF Init, IInv, Places, EndLast
<1>2. IInv /\ [Next]_vars => IInv'
  BY TypeStep, PlacesStep, EndLastStep, TransitStep DEF IInv
<1> QED
  BY <1>1, <1>2, PTL DEF Spec

-----------------------------------------------------------------------------
(* Theorems *)

\* The descriptor, the buffer and the mailbox keep their types, whatever is
\* written, read and sent (terminal.cpp:1009-1066).
THEOREM TypeCorrect == Spec => []TypeOK
<1>1. IInv => TypeOK
  BY DEF IInv
<1> QED
  BY <1>1, Invariant, PTL

\* A writer sends to a task that is gone only if its reader left before it had
\* read to the end (terminal.cpp:1045-1066).
THEOREM OnlyQuittersMissedCorrect == Spec => []OnlyQuittersMissed
<1>1. IInv => OnlyQuittersMissed
  BY DEF IInv, Places, OnlyQuittersMissed
<1> QED
  BY <1>1, Invariant, PTL

LEMMA StreamInit == Init => S!Init
  BY DEF Init, S!Init

LEMMA StreamStep ==
  ASSUME IInv, IInv', [Next]_vars
  PROVE  [S!Next]_(S!vars)
<1>0. TypeOK /\ Places /\ EndLast /\ Transit /\ TypeOK'
  BY DEF IInv
<1>1. CASE MakeReader \/ Written \/ SendPiece \/ WaitFinish \/ StartReader \/ CallRead
           \/ Finish \/ SendOther \/ UNCHANGED vars
  <2>1. UNCHANGED <<written, got, ended, quit>>
        /\ (left \in {"wait", "done"} <=> left' \in {"wait", "done"})
    BY <1>1 DEF MakeReader, Written, SendPiece, WaitFinish, StartReader, CallRead, Finish,
                SendOther, vars, writer, reader
  <2> QED
    BY <2>1 DEF S!vars
<1>2. CASE Write
  <2>1. \E bytes \in S!Bytes : written' = written \o bytes
    BY <1>0, <1>2, Buffers DEF Write, S!Bytes, TypeOK
  <2>2. S!Write
    BY <1>2, <2>1 DEF Write, S!Write, reader
  <2> QED
    BY <2>2 DEF S!Next
<1>3. CASE FinishWrite
  <2>1. S!Close
    BY <1>3 DEF FinishWrite, S!Close, reader
  <2> QED
    BY <2>1 DEF S!Next
<1>4. CASE EndCommand
  <2>1. S!Quit
    BY <1>4 DEF EndCommand, S!Quit, writer
  <2> QED
    BY <2>1 DEF S!Next
<1>5. ASSUME right = "read", NEW d \in Seq(Byte), d # <<>>, Return(d),
             UNCHANGED <<writer, ended, quit>>,
             Part(written, got, 0), Part(written, d, Len(got))
      PROVE  S!Read
  <2>1. Part(written, got', 0) /\ got' \in Seq(Byte) /\ Len(got') > Len(got)
    BY <1>0, <1>5, Returning
  <2>2. written \in Seq(Byte) /\ Len(got) \in Nat /\ Len(got') \in Nat /\ Len(written) \in Nat
    BY <1>0, <2>1, LenProperties DEF TypeOK
  <2>3. Len(got') \in 0..Len(written) /\ got' = SubSeq(written, 1, Len(got'))
    BY <2>1, <2>2, PartIsPrefix
  <2>4. Len(got') \in (Len(got) + 1)..Len(written)
    BY <2>1, <2>2, <2>3
  <2>5. ~quit
    BY <1>0, <1>5 DEF Places
  <2> QED
    BY <1>5, <2>3, <2>4, <2>5 DEF S!Read, writer
<1>6. ASSUME right = "read", ReturnEnd, UNCHANGED <<writer, got, quit>>,
             left \in {"wait", "done"}, Part(written, got, 0), Len(got) = Len(written)
      PROVE  S!End
  <2>1. got = written
    BY <1>0, <1>6, PartIsWhole DEF TypeOK
  <2>2. ~quit
    BY <1>0, <1>6 DEF Places
  <2> QED
    BY <1>6, <2>1, <2>2 DEF S!End, ReturnEnd, writer
<1>7. CASE ReadKept \/ ReadClosed \/ Receive
  <2>1. right = "read"
    BY <1>7 DEF ReadKept, ReadClosed, Receive
  <2>2. PICK off \in [0..Len(mailbox) -> Nat] : InTransit(off)
    BY <1>0, <2>1 DEF Transit
  <2>3. /\ Part(written, got, 0) /\ Part(written, data_, Len(got))
        /\ off[0] = Len(got) + Len(data_) /\ (closed_ => off[0] = Len(written))
    BY <2>2 DEF InTransit
  <2>4. Len(<<>>) = 0 /\ Len(got) \in Nat /\ data_ \in Seq(Byte)
    BY <1>0, EmptySeq, LenProperties DEF TypeOK
  <2>5. CASE ReadKept
    <3>1. S!Read
      BY <1>5, <2>1, <2>3, <2>4, <2>5 DEF ReadKept
    <3> QED
      BY <3>1 DEF S!Next
  <2>6. CASE ReadClosed
    <3>1. left \in {"wait", "done"} /\ Len(got) = Len(written)
      BY <1>0, <2>3, <2>4, <2>6 DEF ReadClosed, EndLast
    <3>2. S!End
      BY <1>6, <2>1, <2>3, <2>6, <3>1 DEF ReadClosed
    <3> QED
      BY <3>2 DEF S!Next
  <2>7. CASE Receive
    <3>1. /\ data_ = <<>> /\ mailbox # <<>> /\ UNCHANGED <<writer, quit>>
      BY <2>7 DEF Receive
    <3>2. Head(mailbox) = mailbox[1] /\ 1 \in 1..Len(mailbox) /\ mailbox[1] \in Mail
      BY <1>0, <3>1, FirstMessage DEF TypeOK, Mail
    <3>3. mailbox[1].data \in Seq(Byte)
      BY <3>2 DEF Mail
    <3>4. /\ off[0] = Len(got) /\ Part(written, mailbox[1].data, off[1 - 1])
          /\ off[1] = off[1 - 1] + Len(mailbox[1].data)
          /\ mailbox[1] = PipeMessage(<<>>) => off[1] = Len(written)
      BY <2>2, <2>3, <2>4, <3>1, <3>2 DEF InTransit
    <3>5. Part(written, mailbox[1].data, Len(got)) /\ off[1] = Len(got) + Len(mailbox[1].data)
      BY <3>4
    <3>6. CASE UNCHANGED <<right, data_, closed_, got, ended>>
      BY <3>1, <3>6 DEF S!vars, writer
    <3>7. CASE mailbox[1] = PipeMessage(<<>>) /\ ReturnEnd /\ UNCHANGED <<data_, got>>
      <4>1. mailbox[1].data = <<>>
        BY <3>7, MailTypes
      <4>2. Len(got) = Len(written)
        BY <2>4, <3>4, <3>5, <3>7, <4>1
      <4>3. left \in {"wait", "done"}
        BY <1>0, <3>2, <3>7 DEF EndLast
      <4>4. S!End
        BY <1>6, <2>1, <2>3, <3>1, <3>7, <4>2, <4>3
      <4> QED
        BY <4>4 DEF S!Next
    <3>8. CASE Return(mailbox[1].data) /\ mailbox[1].data # <<>> /\ UNCHANGED <<closed_, ended>>
      <4>1. S!Read
        BY <1>5, <2>1, <2>3, <3>1, <3>3, <3>5, <3>8
      <4> QED
        BY <4>1 DEF S!Next
    <3> QED
      BY <2>7, <3>2, <3>6, <3>7, <3>8 DEF Receive
  <2> QED
    BY <1>7, <2>5, <2>6, <2>7
<1> QED
  BY <1>1, <1>2, <1>3, <1>4, <1>7 DEF Next, Left, Reading

\* Every step of the pipe is one of the stream or none: bytes arrive in order,
\* each once, and the end after the last of them (terminal.cpp:1009-1066).
THEOREM StreamSafety == Spec => S!Init /\ [][S!Next]_(S!vars)
<1>1. IInv /\ IInv' /\ [Next]_vars => [S!Next]_(S!vars)
  BY StreamStep
<1> QED
  BY <1>1, StreamInit, Invariant, PTL DEF Spec
=============================================================================
