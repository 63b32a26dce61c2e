---------------------------- MODULE KeyboardProof ----------------------------
(***************************************************************************)
(* For every size of window, line and history, and every dictionary: the   *)
(* line of a terminal and what stands in its row agree, and the boxes show *)
(* what was entered.                                                       *)
(***************************************************************************)
EXTENDS Keyboard, SequenceTheorems, WellFoundedInduction, TLAPS

-----------------------------------------------------------------------------
(* The line *)

Code == 1..(CharRange - 1)
Row == [0..(kColumns - 1) -> Int]

\* A terminal whose lines are of what a char holds.
Narrowed ==
  [x : Nat, y : 0..(kRows - 1), row : Row, linebuf : Seq(Code),
   cmd_history_ : [1..HistorySize -> Seq(Code)], cmd_history_index_ : 0..HistorySize,
   running : BOOLEAN, mixed : 0..MaxMixed, outside : BOOLEAN]

\* What was typed, or recalled, is the end of what stands before the cursor.
Shown(t) ==
  \A i \in 1..Len(t.linebuf) : Shows(t.row[t.x - Len(t.linebuf) + i - 1], t.linebuf[i])

\* The first n cells hold no letter, and those from the n-th on nothing.
Clear(t, n) == \A x \in 0..(n - 1) : t.row[x] \in Printed
Void(t, n) == \A x \in n..(kColumns - 1) : t.row[x] = Blank
Tidy(t, n) == Clear(t, n) /\ Void(t, n)

\* The row is as LineOK has it; while a command runs there is no letter in it,
\* so that wherever the prompt is written the line begins behind none.
RowInv(t) ==
  /\ Shown(t) /\ Void(t, t.x)
  /\ t.x - Len(t.linebuf) # 1 => Clear(t, t.x - Len(t.linebuf))
  /\ t.running => Clear(t, t.x)

\* No line that is typed or kept is as long as l.
Shorter(t, l) == Len(t.linebuf) < l /\ \A i \in 1..HistorySize : Len(t.cmd_history_[i]) < l

\* A line that was typed stops one column short of the window's edge, so one
\* that is recalled from the second column on still fits.
LineInv(t) ==
  /\ t \in Narrowed
  /\ ~t.outside => t.x <= kColumns
  /\ t.running => t.linebuf = <<>>
  /\ Shorter(t, kLineMax)
  /\ t.mixed = 0 => /\ ~t.outside /\ Shorter(t, kColumns)
                    /\ Len(t.linebuf) <= t.x /\ RowInv(t)

LEMMA NarrowIsCode ==
  \A c \in Letter : Narrow(c) \in Code /\ Shows(c, Narrow(c)) /\ c \in Int
<1> SUFFICES ASSUME NEW c \in Letter PROVE Narrow(c) \in Code /\ Shows(c, Narrow(c)) /\ c \in Int
  OBVIOUS
<1>1. c \in Nat /\ c % CharRange # 0 /\ CharRange \in Nat \ {0}
  BY LineAssumption
<1>2. c % CharRange \in 0..(CharRange - 1) /\ (c < CharRange => c % CharRange = c)
  BY <1>1
<1> QED
  BY <1>1, <1>2 DEF Narrow, Code, Shows

\* What Print(char32_t) (terminal.cpp) leaves alone.
Untouched(t, u) ==
  /\ u.linebuf = t.linebuf /\ u.cmd_history_ = t.cmd_history_
  /\ u.cmd_history_index_ = t.cmd_history_index_
  /\ u.running = t.running /\ u.mixed = t.mixed /\ u.outside = t.outside

Signs == Output \cup {Prompt}

LEMMA DrawInside ==
  ASSUME NEW t \in Narrowed, NEW x \in 0..(kColumns - 1), NEW g \in Int
  PROVE  /\ Draw(t, x, g) \in Narrowed
         /\ Untouched(t, Draw(t, x, g)) /\ Draw(t, x, g).x = t.x /\ Draw(t, x, g).y = t.y
         /\ Draw(t, x, g).row = [t.row EXCEPT ![x] = g]
  BY DEF Draw, Narrowed, Row, Untouched

LEMMA NextRowFits ==
  ASSUME NEW t \in Narrowed
  PROVE  /\ NextRow(t) \in Narrowed /\ Untouched(t, NextRow(t)) /\ NextRow(t).x = 0
         /\ Tidy(NextRow(t), 0)
<1>1. BlankRow \in Row
  BY DEF BlankRow, Row, Blank
<1>2. (IF t.y < kRows - 1 THEN t.y + 1 ELSE t.y) \in 0..(kRows - 1)
  BY LineAssumption DEF Narrowed
<1>3. NextRow(t).row = BlankRow /\ NextRow(t).x = 0
  BY DEF NextRow, Narrowed
<1>4. Tidy(NextRow(t), 0)
  BY <1>3, LineAssumption DEF Tidy, Clear, Void, BlankRow
<1> QED
  BY <1>1, <1>2, <1>4 DEF NextRow, Narrowed, Untouched

\* Printing goes on where the row is void.
LEMMA DrawTidy ==
  ASSUME NEW t \in Narrowed, NEW n \in 0..(kColumns - 1), NEW g \in Signs, Tidy(t, n)
  PROVE  Tidy(Draw(t, n, g), n + 1)
<1>1. g \in Int /\ g \in Printed /\ kColumns \in Nat
  BY LineAssumption DEF Signs, Output, Half, Wide, Newline, Prompt, Printed
<1>2. Draw(t, n, g).row = [t.row EXCEPT ![n] = g]
  BY <1>1, DrawInside
<1>3. \A x \in 0..(kColumns - 1) : Draw(t, n, g).row[x] = IF x = n THEN g ELSE t.row[x]
  BY <1>2 DEF Narrowed, Row
<1>4. ASSUME NEW x \in 0..n PROVE Draw(t, n, g).row[x] \in Printed
  <2>1. x \in 0..(kColumns - 1) /\ (x # n => x \in 0..(n - 1))
    BY <1>1
  <2> QED
    BY <1>1, <1>3, <2>1 DEF Tidy, Clear
<1>5. ASSUME NEW x \in (n + 1)..(kColumns - 1) PROVE Draw(t, n, g).row[x] = Blank
  <2>1. x \in 0..(kColumns - 1) /\ x # n /\ x \in n..(kColumns - 1)
    BY <1>1
  <2> QED
    BY <1>3, <2>1 DEF Tidy, Void
<1>6. 0..(n + 1 - 1) = 0..n
  BY <1>1
<1> QED
  BY <1>4, <1>5, <1>6 DEF Tidy, Clear, Void

\* What is printed stays in the window, whatever is printed where.
LEMMA PrintFits ==
  ASSUME NEW t \in Narrowed, t.x <= kColumns, NEW c \in Signs
  PROVE  /\ PrintChar(t, c) \in Narrowed /\ Untouched(t, PrintChar(t, c))
         /\ PrintChar(t, c).x <= kColumns
         /\ Tidy(t, t.x) => Tidy(PrintChar(t, c), PrintChar(t, c).x)
<1> DEFINE u == IF t.x >= kColumns - 1 THEN NextRow(t) ELSE t
           v == IF t.x = kColumns THEN NextRow(t) ELSE t
           d == Draw(u, u.x, c)
<1>1. t.x \in Nat /\ kColumns \in Nat /\ kColumns >= 2 /\ c \in Int
  BY LineAssumption DEF Narrowed, Signs, Output, Half, Wide, Newline, Prompt
<1>2. CASE c = Newline
  <2>1. PrintChar(t, c) = NextRow(t)
    BY <1>2 DEF PrintChar
  <2> QED
    BY <1>1, <2>1, NextRowFits
<1>3. CASE c = Wide
  <2>1. /\ u \in Narrowed /\ Untouched(t, u) /\ u.x \in 0..(kColumns - 2)
        /\ Tidy(t, t.x) => Tidy(u, u.x)
    <3>1. CASE t.x >= kColumns - 1
      BY <1>1, <3>1, NextRowFits
    <3>2. CASE ~(t.x >= kColumns - 1)
      BY <1>1, <3>2 DEF Untouched
    <3> QED
      BY <3>1, <3>2
  <2> HIDE DEF u
  <2>2. u.x \in 0..(kColumns - 1) /\ u.x + 1 \in 0..(kColumns - 1)
    BY <1>1, <2>1
  <2>3. d \in Narrowed /\ Untouched(u, d)
    BY <1>1, <2>1, <2>2, DrawInside
  <2> HIDE DEF d
  <2> DEFINE e == Draw(d, u.x + 1, c)
  <2>4. e \in Narrowed /\ Untouched(d, e)
    BY <1>1, <2>2, <2>3, DrawInside
  <2>5. PrintChar(t, c) = [e EXCEPT !.x = u.x + 2]
    BY <1>3 DEF PrintChar, u, d, Wide, Newline
  <2> HIDE DEF e
  <2>6. u.x + 2 \in Nat /\ u.x + 2 <= kColumns
    BY <1>1, <2>1
  <2>8. Tidy(t, t.x) => Tidy(e, u.x + 2)
    <3>1. Tidy(t, t.x) => Tidy(d, u.x + 1)
      BY <2>1, <2>2, DrawTidy DEF d
    <3>2. Tidy(t, t.x) => Tidy(e, u.x + 1 + 1)
      BY <2>2, <2>3, <3>1, DrawTidy DEF e
    <3>3. u.x + 1 + 1 = u.x + 2
      BY <2>1, <1>1
    <3> QED
      BY <3>2, <3>3
  <2>7. /\ [e EXCEPT !.x = u.x + 2] \in Narrowed /\ Untouched(e, [e EXCEPT !.x = u.x + 2])
        /\ [e EXCEPT !.x = u.x + 2].x = u.x + 2
        /\ Tidy(e, u.x + 2) => Tidy([e EXCEPT !.x = u.x + 2], u.x + 2)
    BY <2>4, <2>6 DEF Narrowed, Untouched, Tidy, Clear, Void
  <2>9. PICK p : p = [e EXCEPT !.x = u.x + 2]
    OBVIOUS
  <2>10. /\ PrintChar(t, c) = p /\ p.x = u.x + 2 /\ p \in Narrowed /\ Untouched(e, p)
         /\ Tidy(t, t.x) => Tidy(p, p.x)
    BY <2>1, <2>3, <2>4, <2>5, <2>6, <2>7, <2>8, <2>9
  <2> QED
    BY <2>1, <2>3, <2>4, <2>6, <2>10 DEF Untouched
<1>4. CASE c # Newline /\ c # Wide
  <2>1. /\ v \in Narrowed /\ Untouched(t, v) /\ v.x \in 0..(kColumns - 1)
        /\ Tidy(t, t.x) => Tidy(v, v.x)
    <3>1. CASE t.x = kColumns
      BY <1>1, <3>1, NextRowFits
    <3>2. CASE t.x # kColumns
      BY <1>1, <3>2 DEF Untouched
    <3> QED
      BY <3>1, <3>2
  <2> HIDE DEF v
  <2> DEFINE e == Draw(v, v.x, c)
  <2>2. e \in Narrowed /\ Untouched(v, e)
    BY <1>1, <2>1, DrawInside
  <2>3. PrintChar(t, c) = [e EXCEPT !.x = v.x + 1]
    BY <1>4 DEF PrintChar, v
  <2> HIDE DEF e
  <2>4. v.x + 1 \in Nat /\ v.x + 1 <= kColumns
    BY <1>1, <2>1
  <2>5. /\ [e EXCEPT !.x = v.x + 1] \in Narrowed /\ Untouched(e, [e EXCEPT !.x = v.x + 1])
        /\ [e EXCEPT !.x = v.x + 1].x = v.x + 1
        /\ Tidy(e, v.x + 1) => Tidy([e EXCEPT !.x = v.x + 1], v.x + 1)
    BY <2>2, <2>4 DEF Narrowed, Untouched, Tidy, Clear, Void
  <2>6. Tidy(t, t.x) => Tidy(e, v.x + 1)
    BY <2>1, DrawTidy DEF e
  <2>9. PICK p : p = [e EXCEPT !.x = v.x + 1]
    OBVIOUS
  <2>10. /\ PrintChar(t, c) = p /\ p.x = v.x + 1 /\ p \in Narrowed /\ Untouched(e, p)
         /\ Tidy(t, t.x) => Tidy(p, p.x)
    BY <2>1, <2>2, <2>3, <2>4, <2>5, <2>6, <2>9
  <2> QED
    BY <2>1, <2>2, <2>4, <2>10 DEF Untouched
<1> QED
  BY <1>2, <1>3, <1>4

\* Output while a command runs, which has no line to be kept.
LEMMA OutputKeeps ==
  ASSUME NEW t, LineInv(t), ~t.outside, NEW c \in Signs, NEW r \in BOOLEAN,
         NEW m \in 0..MaxMixed, m # 0 \/ (t.linebuf = <<>> /\ t.mixed = 0 /\ Tidy(t, t.x)),
         r => t.linebuf = <<>>
  PROVE  LineInv([PrintChar(t, c) EXCEPT !.running = r, !.mixed = m])
<1> DEFINE p == PrintChar(t, c)
           q == [p EXCEPT !.running = r, !.mixed = m]
<1>1. t \in Narrowed /\ t.x <= kColumns /\ Shorter(t, kLineMax)
  BY DEF LineInv
<1>2. p \in Narrowed /\ Untouched(t, p) /\ p.x <= kColumns /\ (Tidy(t, t.x) => Tidy(p, p.x))
  BY <1>1, PrintFits
<1> HIDE DEF p
<1>3. /\ q \in Narrowed /\ q.linebuf = p.linebuf /\ q.cmd_history_ = p.cmd_history_
      /\ q.x = p.x /\ q.row = p.row /\ q.running = r /\ q.mixed = m /\ q.outside = p.outside
  BY <1>2 DEF Narrowed
<1> HIDE DEF q
<1>4. Shorter(q, kLineMax)
  BY <1>1, <1>2, <1>3 DEF Shorter, Untouched
<1>5. ASSUME m = 0
      PROVE  Shorter(q, kColumns) /\ Len(q.linebuf) <= q.x /\ RowInv(q)
  <2>1. t.linebuf = <<>> /\ t.mixed = 0 /\ Shorter(t, kColumns)
    BY <1>5 DEF LineInv
  <2>2. q.linebuf = <<>> /\ Shorter(q, kColumns)
    BY <1>2, <1>3, <2>1 DEF Shorter, Untouched
  <2>3. q.x \in Nat
    BY <1>3 DEF Narrowed
  <2>4. Clear(q, q.x) /\ Void(q, q.x)
    BY <1>2, <1>3, <1>5 DEF Tidy, Clear, Void
  <2>5. q.x - Len(q.linebuf) = q.x
    BY <2>2, <2>3
  <2> QED
    BY <2>2, <2>3, <2>4, <2>5 DEF Shown, RowInv
<1> QED
  BY <1>2, <1>3, <1>4, <1>5 DEF LineInv, Untouched, q, p

LEMMA FrontOf ==
  ASSUME NEW S, NEW s \in Seq(S), s # <<>>
  PROVE  /\ Front(s) \in Seq(S) /\ Len(s) \in Nat \ {0} /\ Len(Front(s)) = Len(s) - 1
         /\ \A i \in 1..(Len(s) - 1) : Front(s)[i] = s[i]
<1>1. Len(s) \in Nat \ {0}
  BY EmptySeq
<1> DEFINE n == Len(s) - 1
<1>2. n \in Nat /\ \A i \in 1..n : s[i] \in S
  BY <1>1, ElementOfSeq
<1> HIDE DEF n
<1>3. /\ SubSeq(s, 1, n) \in Seq(S) /\ Len(SubSeq(s, 1, n)) = IF 1 <= n THEN n - 1 + 1 ELSE 0
      /\ \A i \in 1..(n - 1 + 1) : SubSeq(s, 1, n)[i] = s[1 + i - 1]
  BY <1>2, SubSeqProperties
<1>4. Front(s) = SubSeq(s, 1, n)
  BY DEF Front, n
<1>5. Len(SubSeq(s, 1, n)) = n /\ \A i \in 1..n : SubSeq(s, 1, n)[i] = s[i]
  BY <1>2, <1>3
<1> QED
  BY <1>1, <1>3, <1>4, <1>5 DEF n

LEMMA AppendTo ==
  ASSUME NEW S, NEW s \in Seq(S), NEW e \in S
  PROVE  /\ Append(s, e) \in Seq(S) /\ Len(s) \in Nat /\ Len(Append(s, e)) = Len(s) + 1
         /\ \A i \in 1..(Len(s) + 1) : Append(s, e)[i] = IF i = Len(s) + 1 THEN e ELSE s[i]
  BY AppendProperties, LenProperties

\* Enter (terminal.cpp:340-354): the line moves into the history.
LEMMA EnterKeeps ==
  ASSUME NEW t, LineInv(t), ~t.outside
  PROVE  LineInv(Enter(t))
<1> DEFINE p == NextRow(t)
           h == IF t.linebuf = <<>> THEN p.cmd_history_
                ELSE [i \in 1..HistorySize |-> IF i = 1 THEN t.linebuf ELSE p.cmd_history_[i - 1]]
           q == [p EXCEPT !.cmd_history_ = h, !.linebuf = <<>>, !.cmd_history_index_ = 0,
                          !.running = TRUE]
<1>1. t \in Narrowed /\ Shorter(t, kLineMax)
  BY DEF LineInv
<1>2. p \in Narrowed /\ Untouched(t, p) /\ p.x = 0 /\ Tidy(p, 0)
  BY <1>1, NextRowFits
<1>3. Enter(t) = q
  BY DEF Enter
<1> HIDE DEF p
<1>4. h \in [1..HistorySize -> Seq(Code)] /\ \A l : Shorter(t, l) => \A i \in 1..HistorySize : Len(h[i]) < l
  <2>1. t.linebuf \in Seq(Code) /\ p.cmd_history_ \in [1..HistorySize -> Seq(Code)]
        /\ p.cmd_history_ = t.cmd_history_
    BY <1>1, <1>2 DEF Narrowed, Untouched
  <2>2. \A i \in 1..HistorySize : i # 1 => i - 1 \in 1..HistorySize
    BY LineAssumption
  <2>3. CASE t.linebuf = <<>>
    BY <2>1, <2>3 DEF Shorter
  <2>4. CASE t.linebuf # <<>>
    <3>1. h = [i \in 1..HistorySize |-> IF i = 1 THEN t.linebuf ELSE p.cmd_history_[i - 1]]
      BY <2>4
    <3> QED
      BY <2>1, <2>2, <3>1 DEF Shorter
  <2> QED
    BY <2>3, <2>4
<1> HIDE DEF h
<1>5. <<>> \in Seq(Code) /\ Len(<<>>) = 0 /\ 0 \in 0..HistorySize
  BY EmptySeq, LineAssumption
<1>6. /\ q \in Narrowed /\ q.linebuf = <<>> /\ q.cmd_history_ = h
      /\ q.x = 0 /\ q.row = p.row /\ q.running = TRUE /\ q.mixed = t.mixed /\ q.outside = t.outside
  BY <1>2, <1>4, <1>5 DEF Narrowed, Untouched
<1> HIDE DEF q
<1>7. Shorter(q, kLineMax)
  <2>1. \A i \in 1..HistorySize : Len(h[i]) < kLineMax
    BY <1>1, <1>4
  <2> QED
    BY <1>5, <1>6, <2>1, LineAssumption DEF Shorter
<1>8. ASSUME t.mixed = 0 PROVE Shorter(q, kColumns)
  <2>1. Shorter(t, kColumns)
    BY <1>8 DEF LineInv
  <2>2. \A i \in 1..HistorySize : Len(h[i]) < kColumns
    BY <1>4, <2>1
  <2> QED
    BY <1>5, <1>6, <2>2, LineAssumption DEF Shorter
<1>9. RowInv(q)
  BY <1>2, <1>5, <1>6 DEF RowInv, Shown, Tidy, Clear, Void
<1> QED
  BY <1>3, <1>5, <1>6, <1>7, <1>8, <1>9, LineAssumption DEF LineInv

\* Backspace (terminal.cpp:355-365).
LEMMA BackspaceKeeps ==
  ASSUME NEW t, LineInv(t), ~t.outside, ~t.running
  PROVE  LineInv(Backspace(t))
<1> DEFINE d == Draw(t, t.x - 1, Blank)
           b == IF t.linebuf = <<>> THEN t.linebuf ELSE Front(t.linebuf)
           q == [d EXCEPT !.x = t.x - 1, !.linebuf = b]
<1>1. t \in Narrowed /\ t.x \in Nat /\ t.x <= kColumns /\ kColumns \in Nat /\ Shorter(t, kLineMax)
      /\ t.linebuf \in Seq(Code)
  BY LineAssumption DEF LineInv, Narrowed
<1>2. SUFFICES ASSUME t.x # 0 PROVE LineInv(q)
  <2>1. d.linebuf = t.linebuf
    BY <1>1 DEF Draw, Narrowed
  <2> QED
    BY <2>1 DEF Backspace
<1>3. t.x - 1 \in 0..(kColumns - 1) /\ Blank \in Int
  BY <1>1, <1>2 DEF Blank
<1>4. d \in Narrowed /\ Untouched(t, d) /\ d.row = [t.row EXCEPT ![t.x - 1] = Blank]
  BY <1>1, <1>3, DrawInside
<1> HIDE DEF d
<1>5. /\ b \in Seq(Code) /\ Len(b) \in Nat /\ Len(b) <= Len(t.linebuf)
      /\ Len(b) = 0 => Len(t.linebuf) <= 1
      /\ Len(b) # 0 => Len(t.linebuf) = Len(b) + 1 /\ \A i \in 1..Len(b) : b[i] = t.linebuf[i]
  <2>1. CASE t.linebuf = <<>>
    BY <1>1, <2>1, EmptySeq
  <2>2. CASE t.linebuf # <<>>
    <3>1. /\ b \in Seq(Code) /\ Len(t.linebuf) \in Nat \ {0} /\ Len(b) = Len(t.linebuf) - 1
          /\ \A i \in 1..(Len(t.linebuf) - 1) : b[i] = t.linebuf[i]
      BY <1>1, <2>2, FrontOf
    <3> HIDE DEF b
    <3>2. Len(b) \in Nat /\ Len(t.linebuf) = Len(b) + 1
      BY <3>1
    <3>3. \A i \in 1..Len(b) : b[i] = t.linebuf[i]
      BY <3>1
    <3>4. Len(b) <= Len(t.linebuf) /\ (Len(b) = 0 => Len(t.linebuf) <= 1)
      BY <3>2
    <3> QED
      BY ONLY <3>1, <3>2, <3>3, <3>4
  <2> QED
    BY <2>1, <2>2
<1>6. Len(t.linebuf) \in Nat
  BY <1>1, LenProperties
<1> HIDE DEF b
<1>7. /\ q \in Narrowed /\ q.linebuf = b /\ q.cmd_history_ = t.cmd_history_ /\ q.row = d.row
      /\ q.x = t.x - 1 /\ q.running = t.running /\ q.mixed = t.mixed /\ q.outside = t.outside
  <2>1. t.x - 1 \in Nat
    BY <1>1, <1>3
  <2> QED
    BY <1>4, <1>5, <2>1 DEF Narrowed, Untouched
<1> HIDE DEF q
<1>8. ASSUME NEW l \in Nat, Shorter(t, l)
      PROVE  Shorter(q, l)
  BY <1>5, <1>6, <1>7, <1>8 DEF Shorter
<1>9. ASSUME t.mixed = 0
      PROVE  Len(b) <= t.x - 1 /\ RowInv(q)
  <2>1. Len(t.linebuf) <= t.x /\ RowInv(t) /\ Shown(t)
    BY <1>9 DEF LineInv, RowInv
  <2>2. Len(b) <= t.x - 1
    BY <1>1, <1>2, <1>5, <1>6, <2>1
  <2>3. ASSUME NEW i \in 1..Len(b)
        PROVE  Shows(q.row[q.x - Len(b) + i - 1], b[i])
    <3>1. q.x - Len(b) + i - 1 = t.x - Len(t.linebuf) + i - 1 /\ i \in 1..Len(t.linebuf)
      BY <1>1, <1>5, <1>6, <1>7
    <3>2. q.x - Len(b) + i - 1 \in 0..(kColumns - 1) /\ q.x - Len(b) + i - 1 # t.x - 1
      BY <1>1, <1>5, <1>6, <1>7, <2>2
    <3>3. q.row[q.x - Len(b) + i - 1] = t.row[q.x - Len(b) + i - 1]
      BY <1>1, <1>4, <1>7, <3>2 DEF Narrowed, Row
    <3> QED
      BY <1>5, <2>1, <3>1, <3>3 DEF Shown
  <2>4. \A x \in 0..(kColumns - 1) : q.row[x] = IF x = t.x - 1 THEN Blank ELSE t.row[x]
    BY <1>1, <1>3, <1>4, <1>7 DEF Narrowed, Row
  <2>5. Void(q, q.x)
    <3>1. \A x \in (t.x - 1)..(kColumns - 1) :
            x \in 0..(kColumns - 1) /\ (x # t.x - 1 => x \in t.x..(kColumns - 1))
      BY <1>1, <1>2
    <3> QED
      BY <1>7, <2>1, <2>4, <3>1 DEF RowInv, Void
  <2>6. ASSUME q.x - Len(b) # 1 PROVE Clear(q, q.x - Len(b))
    <3> DEFINE n == t.x - Len(t.linebuf)
               m == t.x - 1 - Len(b)
    <3>1. /\ n \in Nat /\ m \in Nat /\ m <= n /\ n <= m + 1 /\ m <= t.x - 1 /\ m # 1
          /\ m = q.x - Len(b)
      BY <1>1, <1>2, <1>5, <1>6, <1>7, <2>1, <2>2, <2>6
    <3> HIDE DEF m
    <3>2. ASSUME NEW x \in 0..(m - 1) PROVE q.row[x] \in Printed
      <4>1. x \in 0..(kColumns - 1) /\ x # t.x - 1 /\ x \in 0..(n - 1)
        BY <1>1, <3>1
      <4>2. n # 1
        BY <3>1, <3>2
      <4> QED
        BY <2>1, <2>4, <4>1, <4>2 DEF RowInv, Clear
    <3> QED
      BY <3>1, <3>2 DEF Clear
  <2> QED
    BY <1>7, <2>2, <2>3, <2>5, <2>6 DEF Shown, RowInv
<1>10. Shorter(q, kLineMax)
  BY <1>1, <1>8, LineAssumption
<1>11. t.mixed = 0 => Shorter(q, kColumns)
  BY <1>8, LineAssumption DEF LineInv
<1>12. ~t.running /\ ~t.outside
  OBVIOUS
<1> QED
  BY <1>1, <1>7, <1>9, <1>10, <1>11, <1>12 DEF LineInv

\* A letter (terminal.cpp:366-378).
LEMMA TypeKeeps ==
  ASSUME NEW t, LineInv(t), ~t.outside, ~t.running, NEW c \in Letter
  PROVE  LineInv(Type(t, c))
<1> DEFINE d == Draw(t, t.x, c)
           b == Append(t.linebuf, Narrow(c))
           q == [d EXCEPT !.x = t.x + 1, !.linebuf = b]
<1>1. t \in Narrowed /\ t.x \in Nat /\ t.x <= kColumns /\ kColumns \in Nat /\ Shorter(t, kLineMax)
      /\ t.linebuf \in Seq(Code) /\ c \in Int /\ Narrow(c) \in Code /\ Shows(c, Narrow(c))
  BY LineAssumption, NarrowIsCode DEF LineInv, Narrowed
<1>2. SUFFICES ASSUME t.x < kColumns - 1, Len(t.linebuf) < kLineMax - 1 PROVE LineInv(q)
  <2>1. d.linebuf = t.linebuf
    BY <1>1 DEF Draw, Narrowed
  <2> QED
    BY <2>1 DEF Type
<1>3. t.x \in 0..(kColumns - 1)
  BY <1>1, <1>2
<1>4. d \in Narrowed /\ Untouched(t, d) /\ d.row = [t.row EXCEPT ![t.x] = c]
  BY <1>1, <1>3, DrawInside
<1> HIDE DEF d
<1>5. /\ b \in Seq(Code) /\ Len(t.linebuf) \in Nat /\ Len(b) = Len(t.linebuf) + 1
      /\ \A i \in 1..Len(b) : b[i] = IF i = Len(t.linebuf) + 1 THEN Narrow(c) ELSE t.linebuf[i]
  BY <1>1, AppendTo
<1> HIDE DEF b
<1>6. /\ q \in Narrowed /\ q.linebuf = b /\ q.cmd_history_ = t.cmd_history_ /\ q.row = d.row
      /\ q.x = t.x + 1 /\ q.running = t.running /\ q.mixed = t.mixed /\ q.outside = t.outside
  <2>1. t.x + 1 \in Nat
    BY <1>1
  <2> QED
    BY <1>4, <1>5, <2>1 DEF Narrowed, Untouched
<1> HIDE DEF q
<1>7. Shorter(q, kLineMax)
  BY <1>1, <1>2, <1>5, <1>6, LineAssumption DEF Shorter
<1>8. ASSUME t.mixed = 0
      PROVE  Len(b) <= t.x + 1 /\ Shorter(q, kColumns) /\ RowInv(q)
  <2>1. Len(t.linebuf) <= t.x /\ RowInv(t) /\ Shown(t) /\ Shorter(t, kColumns)
    BY <1>8 DEF LineInv, RowInv
  <2>2. Shorter(q, kColumns)
    BY <1>1, <1>2, <1>5, <1>6, <2>1 DEF Shorter
  <2>3. ASSUME NEW i \in 1..Len(b)
        PROVE  Shows(q.row[q.x - Len(b) + i - 1], b[i])
    <3>1. q.x - Len(b) + i - 1 = t.x - Len(t.linebuf) + i - 1
      <4>1. /\ q.x = t.x + 1 /\ Len(b) = Len(t.linebuf) + 1
            /\ t.x \in Nat /\ Len(t.linebuf) \in Nat /\ i \in Nat
        BY <1>1, <1>5, <1>6
      <4> QED
        BY <4>1
    <3>2. CASE i = Len(t.linebuf) + 1
      <4>1. q.x - Len(b) + i - 1 = t.x
        BY <1>1, <1>5, <3>1, <3>2
      <4>2. q.row[t.x] = c
        BY <1>3, <1>4, <1>1, <1>6 DEF Narrowed, Row
      <4> QED
        BY <1>1, <1>5, <3>2, <4>1, <4>2
    <3>3. CASE i # Len(t.linebuf) + 1
      <4>1. i \in 1..Len(t.linebuf)
        BY <1>5, <3>3
      <4>2. t.x - Len(t.linebuf) + i - 1 \in 0..(kColumns - 1) /\ t.x - Len(t.linebuf) + i - 1 # t.x
        <5> DEFINE n == Len(t.linebuf)
        <5>1. n \in Nat /\ n <= t.x /\ i \in 1..n /\ t.x \in Nat /\ t.x <= kColumns /\ kColumns \in Nat
          BY <1>1, <1>5, <2>1, <4>1
        <5> HIDE DEF n
        <5>2. t.x - n + i - 1 \in 0..(kColumns - 1) /\ t.x - n + i - 1 # t.x
          BY <5>1
        <5> QED
          BY <5>2 DEF n
      <4>3. q.row[t.x - Len(t.linebuf) + i - 1] = t.row[t.x - Len(t.linebuf) + i - 1]
        BY <1>1, <1>4, <1>6, <4>2 DEF Narrowed, Row
      <4> QED
        BY <1>5, <2>1, <3>1, <3>3, <4>1, <4>3 DEF Shown
    <3> QED
      BY <3>2, <3>3
  <2>4. Len(b) <= t.x + 1
    BY <1>1, <1>5, <2>1
  <2>5. \A x \in 0..(kColumns - 1) : q.row[x] = IF x = t.x THEN c ELSE t.row[x]
    BY <1>1, <1>3, <1>4, <1>6 DEF Narrowed, Row
  <2>6. Void(q, q.x)
    <3>1. \A x \in (t.x + 1)..(kColumns - 1) :
            x \in 0..(kColumns - 1) /\ x # t.x /\ x \in t.x..(kColumns - 1)
      BY <1>1
    <3> QED
      BY <1>6, <2>1, <2>5, <3>1 DEF RowInv, Void
  <2>7. ASSUME q.x - Len(b) # 1 PROVE Clear(q, q.x - Len(b))
    <3>1. q.x - Len(b) = t.x - Len(t.linebuf)
      BY <1>1, <1>5, <1>6
    <3>2. \A x \in 0..(t.x - Len(t.linebuf) - 1) : x \in 0..(kColumns - 1) /\ x # t.x
      BY <1>1, <1>5, <2>1
    <3> QED
      BY <2>1, <2>5, <2>7, <3>1, <3>2 DEF RowInv, Clear
  <2> QED
    BY <1>6, <2>2, <2>3, <2>4, <2>6, <2>7 DEF Shown, RowInv
<1>9. ~t.running /\ ~t.outside /\ t.x + 1 <= kColumns
  BY <1>1, <1>2
<1> QED
  BY <1>6, <1>7, <1>8, <1>9 DEF LineInv

\* HistoryUpDown (terminal.cpp:818-842).
LEMMA RecallKeeps ==
  ASSUME NEW t, LineInv(t), ~t.outside, ~t.running, NEW n \in 0..HistorySize
  PROVE  LineInv(Recall(t, n))
<1> DEFINE line == IF n > 0 THEN t.cmd_history_[n] ELSE <<>>
           row == [x \in 0..(kColumns - 1) |->
                     IF x = 0 THEN t.row[0] ELSE IF x <= Len(line) THEN line[x] ELSE Blank]
           out == t.outside \/ Len(line) >= kColumns
           q == [t EXCEPT !.x = Len(line) + 1, !.linebuf = line, !.cmd_history_index_ = n,
                          !.row = row, !.outside = out]
<1>1. t \in Narrowed /\ kColumns \in Nat \ {0} /\ HistorySize \in Nat /\ kLineMax \in Nat \ {0}
  BY LineAssumption DEF LineInv
<1>2. Recall(t, n) = q
  BY DEF Recall
<1>3. line \in Seq(Code) /\ Len(line) \in Nat
  <2>1. CASE n > 0
    <3>1. n \in 1..HistorySize
      BY <1>1, <2>1
    <3> QED
      BY <1>1, <2>1, <3>1, LenProperties DEF Narrowed
  <2>2. CASE ~(n > 0)
    BY <2>2, EmptySeq
  <2> QED
    BY <2>1, <2>2
<1>4. ASSUME NEW l \in Nat \ {0}, Shorter(t, l)
      PROVE  Len(line) < l
  <2>1. CASE n > 0
    BY <1>1, <1>4, <2>1 DEF Shorter
  <2>2. CASE ~(n > 0)
    BY <1>4, <2>2, EmptySeq
  <2> QED
    BY <2>1, <2>2
<1> HIDE DEF line
<1>5. \A i \in 1..Len(line) : line[i] \in Code /\ line[i] \in Int
  <2>1. \A i \in 1..Len(line) : line[i] \in Code
    BY <1>3, ElementOfSeq
  <2> QED
    BY <2>1, LineAssumption DEF Code
<1>6. row \in Row
  <2>1. t.row[0] \in Int /\ Blank \in Int
    BY <1>1 DEF Narrowed, Row, Blank
  <2> QED
    BY <1>1, <1>3, <1>5, <2>1 DEF Row
<1>7. /\ \A i \in 1..Len(line) : i < kColumns => row[i] = line[i]
      /\ \A x \in (Len(line) + 1)..(kColumns - 1) : row[x] = Blank
  BY <1>1, <1>3
<1> HIDE DEF row
<1>8. /\ out \in BOOLEAN /\ Len(line) + 1 \in Nat
      /\ Len(line) < kColumns => out = FALSE
      /\ out = FALSE => Len(line) + 1 <= kColumns
  BY <1>1, <1>3 DEF Narrowed
<1> HIDE DEF out
<1>9. /\ q \in Narrowed /\ q.linebuf = line /\ q.cmd_history_ = t.cmd_history_ /\ q.row = row
      /\ q.x = Len(line) + 1 /\ q.running = t.running /\ q.mixed = t.mixed /\ q.outside = out
  BY <1>1, <1>3, <1>6, <1>8 DEF Narrowed
<1> HIDE DEF q
<1>10. ASSUME NEW l \in Nat \ {0}, Shorter(t, l) PROVE Shorter(q, l)
  BY <1>4, <1>9, <1>10 DEF Shorter
<1>11. Shorter(q, kLineMax)
  BY <1>1, <1>10 DEF LineInv
<1>12. ASSUME t.mixed = 0
       PROVE  out = FALSE /\ Shorter(q, kColumns) /\ RowInv(q)
  <2>1. Shorter(t, kColumns)
    BY <1>12 DEF LineInv
  <2>2. Shorter(q, kColumns) /\ Len(line) < kColumns
    BY <1>1, <1>4, <1>10, <2>1
  <2>3. ASSUME NEW i \in 1..Len(line)
        PROVE  Shows(q.row[q.x - Len(line) + i - 1], line[i])
    <3>1. q.x - Len(line) + i - 1 = i /\ i < kColumns
      BY <1>1, <1>3, <1>9, <2>2
    <3> QED
      BY <1>7, <1>9, <3>1 DEF Shows
  <2>4. out = FALSE
    BY <1>1, <1>3, <1>8, <2>2
  <2>5. Void(q, q.x) /\ q.x - Len(line) = 1
    BY <1>3, <1>7, <1>9 DEF Void
  <2> QED
    BY <1>9, <2>2, <2>3, <2>4, <2>5 DEF Shown, RowInv
<1>13. t.running = FALSE
  BY <1>1 DEF Narrowed
<1>14. Len(line) <= Len(line) + 1
  BY <1>3
<1> QED
  BY <1>2, <1>8, <1>9, <1>11, <1>12, <1>13, <1>14 DEF LineInv

\* Whatever is typed or printed next.
LEMMA StepKeepsLine ==
  ASSUME NEW t, LineInv(t), NEW u \in Steps(t)
  PROVE  LineInv(u)
<1>1. ~t.outside
  BY DEF Steps
<1>2. t \in Narrowed /\ t.x <= kColumns /\ t.running \in BOOLEAN /\ t.mixed \in 0..MaxMixed
  BY <1>1 DEF LineInv, Narrowed
<1>3. \A c \in Signs : /\ PrintChar(t, c) \in Narrowed
                       /\ PrintChar(t, c).running = t.running /\ PrintChar(t, c).mixed = t.mixed
  BY <1>2, PrintFits DEF Untouched
<1>4. CASE t.running /\ \E c \in Output : u = PrintChar(t, c)
  <2>1. PICK c \in Output : u = PrintChar(t, c)
    BY <1>4
  <2>2. c \in Signs /\ t.linebuf = <<>> /\ (t.mixed = 0 => Tidy(t, t.x))
    BY <1>4 DEF Signs, LineInv, RowInv, Tidy
  <2>3. u = [PrintChar(t, c) EXCEPT !.running = TRUE, !.mixed = t.mixed]
    BY <1>3, <1>4, <2>1, <2>2 DEF Narrowed
  <2> QED
    BY <1>1, <1>2, <2>2, <2>3, OutputKeeps
<1>5. CASE t.running /\ u = Ready(t)
  <2>1. Prompt \in Signs /\ t.linebuf = <<>> /\ (t.mixed = 0 => Tidy(t, t.x))
    BY <1>5 DEF Signs, LineInv, RowInv, Tidy
  <2>2. u = [PrintChar(t, Prompt) EXCEPT !.running = FALSE, !.mixed = t.mixed]
    BY <1>3, <1>5, <2>1 DEF Narrowed, Ready
  <2> QED
    BY <1>1, <1>2, <2>1, <2>2, OutputKeeps
<1>6. CASE ~t.running /\ u \in InputKey(t)
  <2>1. t.cmd_history_index_ \in 0..HistorySize /\ HistorySize \in Nat
    BY <1>2, LineAssumption DEF Narrowed
  <2>2. CASE u = Enter(t)
    BY <1>1, <2>2, EnterKeeps
  <2>3. CASE u = Backspace(t)
    BY <1>1, <1>6, <2>3, BackspaceKeeps
  <2>4. CASE u = Down(t)
    BY <1>1, <1>6, <2>1, <2>4, RecallKeeps DEF Down
  <2>5. CASE u = Up(t)
    BY <1>1, <1>6, <2>1, <2>5, RecallKeeps DEF Up
  <2>6. CASE \E c \in Letter : u = Type(t, c)
    BY <1>1, <1>6, <2>6, TypeKeeps
  <2> QED
    BY <1>6, <2>2, <2>3, <2>4, <2>5, <2>6 DEF InputKey
<1>7. CASE t.mixed < MaxMixed /\ \E c \in Output : u = [PrintChar(t, c) EXCEPT !.mixed = @ + 1]
  <2>1. PICK c \in Output : u = [PrintChar(t, c) EXCEPT !.mixed = @ + 1]
    BY <1>7
  <2>2. c \in Signs /\ (t.running => t.linebuf = <<>>)
    BY DEF Signs, LineInv
  <2>3. t.mixed + 1 \in 0..MaxMixed /\ t.mixed + 1 # 0
    BY <1>2, <1>7, LineAssumption
  <2>4. u = [PrintChar(t, c) EXCEPT !.running = t.running, !.mixed = t.mixed + 1]
    BY <1>3, <2>1, <2>2 DEF Narrowed
  <2> QED
    BY <1>1, <1>2, <2>2, <2>3, <2>4, OutputKeeps
<1> QED
  BY <1>1, <1>4, <1>5, <1>6, <1>7 DEF Steps

LEMMA StartsWell == LineInv(Start)
<1>1. [BlankRow EXCEPT ![0] = Prompt] \in Row
  BY LineAssumption DEF BlankRow, Row, Blank, Prompt
<1>2. <<>> \in Seq(Code) /\ Len(<<>>) = 0
  BY EmptySeq
<1>3. Start \in Narrowed
  BY <1>1, <1>2, LineAssumption DEF Start, Narrowed
<1>4. RowInv(Start)
  BY <1>2, LineAssumption DEF Start, RowInv, Shown, Void, BlankRow
<1> QED
  BY <1>2, <1>3, <1>4, LineAssumption DEF Start, LineInv, Shorter

\* LineInv is about all that LineOK asks for.
LEMMA LineIsSound ==
  ASSUME NEW t, LineInv(t)
  PROVE  LineOK(t)
<1>1. t.linebuf \in Seq(Code)
  BY DEF LineInv, Narrowed
<1>2. DOMAIN t.linebuf = 1..Len(t.linebuf)
  BY <1>1, LenProperties
<1>3. Len(t.linebuf) \in Nat /\ t.x \in Nat
  BY <1>1, LenProperties DEF LineInv, Narrowed
<1> QED
  BY <1>2, <1>3 DEF LineInv, LineOK, Shorter, RowInv, Shown, Void, Clear

-----------------------------------------------------------------------------
(* The plain box and Bhat *)

Glyph == BhatLetter \cup {Halant, Ligature}

Boxes == [content : Seq(Glyph), cells : [0..max_chars -> Glyph \cup {Gap}], cursor_index : Nat]

BoxInv(b) == b \in Boxes /\ BoxOK(b)

LEMMA PutShows ==
  ASSUME NEW b, BoxInv(b), ~Full(b), NEW c \in Glyph
  PROVE  BoxInv(Put(b, c))
<1> DEFINE s == Append(b.content, c)
           n == Len(b.content)
           f == [b.cells EXCEPT ![n] = c]
           q == [b EXCEPT !.cells = f, !.cursor_index = n + 1, !.content = s]
<1>1. /\ b \in Boxes /\ b.content \in Seq(Glyph) /\ b.cells \in [0..max_chars -> Glyph \cup {Gap}]
      /\ b.cursor_index = n /\ max_chars \in Nat
  BY TextBoxAssumption DEF BoxInv, BoxOK, Boxes
<1>2. /\ s \in Seq(Glyph) /\ n \in Nat /\ Len(s) = n + 1
      /\ \A i \in 1..(n + 1) : s[i] = IF i = n + 1 THEN c ELSE b.content[i]
  BY <1>1, AppendTo
<1>3. n < max_chars
  BY <1>1, <1>2 DEF Full
<1>4. Put(b, c) = q
  BY <1>1 DEF Put, Write, Boxes
<1>5. \A x \in 0..max_chars : b.cells[x] = IF x < n THEN b.content[x + 1] ELSE Gap
  BY DEF BoxInv, BoxOK
<1> HIDE DEF s, n
<1>6. n \in 0..max_chars
  BY <1>1, <1>2, <1>3
<1>7. f \in [0..max_chars -> Glyph \cup {Gap}]
      /\ \A x \in 0..max_chars : f[x] = IF x = n THEN c ELSE b.cells[x]
  BY <1>1, <1>6
<1> HIDE DEF f
<1>8. q \in Boxes /\ q.content = s /\ q.cells = f /\ q.cursor_index = n + 1
  <2>1. n + 1 \in Nat
    BY <1>2
  <2> QED
    BY <1>1, <1>2, <1>7, <2>1 DEF Boxes
<1> HIDE DEF q
<1>9. ASSUME NEW x \in 0..max_chars
      PROVE  f[x] = IF x < n + 1 THEN s[x + 1] ELSE Gap
  <2>1. CASE x = n
    BY <1>2, <1>7, <2>1
  <2>2. CASE x < n
    <3>1. x + 1 \in 1..(n + 1) /\ x + 1 # n + 1 /\ x < n + 1 /\ x # n
      BY <1>2, <2>2
    <3> QED
      BY <1>2, <1>5, <1>7, <2>2, <3>1
  <2>3. CASE x > n
    <3>1. ~(x < n) /\ ~(x < n + 1) /\ x # n
      BY <1>2, <2>3
    <3> QED
      BY <1>5, <1>7, <3>1
  <2> QED
    BY <1>2, <2>1, <2>2, <2>3
<1>10. n + 1 <= max_chars
  BY <1>1, <1>2, <1>3
<1> QED
  BY <1>2, <1>4, <1>8, <1>9, <1>10 DEF BoxInv, BoxOK

\* Of a box that is not empty, what erasing its last letter comes to.
LEMMA ErasedShows ==
  ASSUME NEW b, BoxInv(b), b.content # <<>>
  PROVE  LET q == [Write(b, b.cursor_index - 1, Gap) EXCEPT
                     !.cursor_index = b.cursor_index - 1, !.content = Front(b.content)]
         IN  BoxInv(q) /\ ~Full(q) /\ b.cursor_index # 0
<1> DEFINE s == Front(b.content)
           n == Len(b.content) - 1
           f == [b.cells EXCEPT ![n] = Gap]
           q == [b EXCEPT !.cells = f, !.cursor_index = n, !.content = s]
<1>1. /\ b \in Boxes /\ b.content \in Seq(Glyph) /\ b.cells \in [0..max_chars -> Glyph \cup {Gap}]
      /\ b.cursor_index = n + 1 /\ b.cursor_index <= max_chars /\ max_chars \in Nat
  BY TextBoxAssumption, LenProperties DEF BoxInv, BoxOK, Boxes
<1>2. s \in Seq(Glyph) /\ n \in Nat /\ Len(s) = n /\ \A i \in 1..n : s[i] = b.content[i]
  BY <1>1, FrontOf
<1>3. b.cursor_index - 1 = n
  BY <1>1, <1>2
<1>4. [Write(b, n, Gap) EXCEPT !.cursor_index = n, !.content = Front(b.content)] = q
  BY <1>1 DEF Write, Boxes
<1>5. \A x \in 0..max_chars : b.cells[x] = IF x < n + 1 THEN b.content[x + 1] ELSE Gap
  BY <1>1 DEF BoxInv, BoxOK
<1> HIDE DEF s, n
<1>6. n \in 0..max_chars
  BY <1>1, <1>2
<1>7. f \in [0..max_chars -> Glyph \cup {Gap}]
      /\ \A x \in 0..max_chars : f[x] = IF x = n THEN Gap ELSE b.cells[x]
  BY <1>1, <1>6
<1> HIDE DEF f
<1>8. q \in Boxes /\ q.content = s /\ q.cells = f /\ q.cursor_index = n
  BY <1>1, <1>2, <1>7 DEF Boxes
<1> HIDE DEF q
<1>9. ASSUME NEW x \in 0..max_chars
      PROVE  f[x] = IF x < n THEN s[x + 1] ELSE Gap
  <2>1. CASE x = n
    BY <1>2, <1>7, <2>1
  <2>2. CASE x < n
    <3>1. x + 1 \in 1..n /\ x < n + 1 /\ x # n
      BY <1>2, <2>2
    <3> QED
      BY <1>2, <1>5, <1>7, <2>2, <3>1
  <2>3. CASE x > n
    <3>1. ~(x < n) /\ ~(x < n + 1) /\ x # n
      BY <1>2, <2>3
    <3> QED
      BY <1>5, <1>7, <3>1
  <2> QED
    BY <1>2, <2>1, <2>2, <2>3
<1>10. BoxInv(q)
  BY <1>2, <1>6, <1>8, <1>9 DEF BoxInv, BoxOK
<1>11. ~(q.cursor_index >= max_chars) /\ b.cursor_index # 0
  BY <1>1, <1>2, <1>8
<1> QED
  BY <1>3, <1>4, <1>10, <1>11 DEF Full

LEMMA BackspaceShows ==
  ASSUME NEW b, BoxInv(b)
  PROVE  BoxInv(BoxBackspace(b))
<1>1. b \in Boxes /\ b.content \in Seq(Glyph) /\ b.cursor_index = Len(b.content)
  BY DEF BoxInv, BoxOK, Boxes
<1>2. CASE b.content = <<>>
  <2>1. BoxBackspace(b) = b
    BY <1>1, <1>2, EmptySeq DEF BoxBackspace
  <2> QED
    BY <2>1
<1>3. CASE b.content # <<>>
  <2>1. Write(b, b.cursor_index - 1, Gap).content = b.content
    BY <1>1 DEF Write, Boxes
  <2>2. b.cursor_index # 0
    BY <1>3, ErasedShows
  <2>3. BoxBackspace(b) = [Write(b, b.cursor_index - 1, Gap) EXCEPT
                             !.cursor_index = b.cursor_index - 1, !.content = Front(b.content)]
    BY <1>3, <2>1, <2>2 DEF BoxBackspace
  <2> QED
    BY <1>3, <2>3, ErasedShows
<1> QED
  BY <1>2, <1>3

LEMMA PlainShows ==
  ASSUME NEW b, BoxInv(b), NEW c \in BhatLetter
  PROVE  BoxInv(PlainType(b, c))
  BY PutShows DEF PlainType, Glyph

LEMMA BhatShows ==
  ASSUME NEW b, BoxInv(b), NEW c \in BhatLetter
  PROVE  BoxInv(BhatType(b, c))
<1>1. c \in Glyph /\ Halant \in Glyph /\ Ligature \in Glyph
  BY DEF Glyph
<1>2. CASE Full(b)
  BY <1>2 DEF BhatType
<1>3. CASE ~Full(b) /\ c = Quote /\ b.content # <<>> /\ Last(b.content) = Question
  <2> DEFINE q == [Write(b, b.cursor_index - 1, Gap) EXCEPT
                     !.cursor_index = b.cursor_index - 1, !.content = Front(b.content)]
  <2>1. BoxInv(q) /\ ~Full(q)
    BY <1>3, ErasedShows
  <2>2. Write(b, b.cursor_index - 1, Gap).content = b.content
    BY DEF Write, Boxes, BoxInv
  <2>3. BhatType(b, c) \in {Put(b, Halant), Put(q, Ligature)}
    BY <1>3, <2>2 DEF BhatType
  <2> HIDE DEF q
  <2> QED
    BY <1>1, <1>3, <2>1, <2>3, PutShows
<1>4. CASE ~Full(b) /\ ~(c = Quote /\ b.content # <<>> /\ Last(b.content) = Question)
  <2>1. BhatType(b, c) \in {Put(b, Halant), Put(b, c)}
    BY <1>4 DEF BhatType
  <2> QED
    BY <1>1, <1>4, <2>1, PutShows
<1> QED
  BY <1>2, <1>3, <1>4

LEMMA EmptyShows == BoxInv(EmptyBox)
<1>1. <<>> \in Seq(Glyph) /\ Len(<<>>) = 0 /\ max_chars \in Nat
  BY EmptySeq, TextBoxAssumption
<1>2. EmptyBox \in Boxes
  BY <1>1 DEF EmptyBox, Boxes
<1>3. \A x \in 0..max_chars : ~(x < 0)
  BY <1>1
<1> QED
  BY <1>1, <1>2, <1>3 DEF EmptyBox, BoxInv, BoxOK

-----------------------------------------------------------------------------
(* Pekzep *)

\* Any set of numbers that has one has a least one.
LEMMA Least ==
  ASSUME NEW T \in SUBSET Nat, T # {}
  PROVE  \E n \in T : \A k \in T : n <= k
<1> DEFINE R == OpToRel(<, Nat)
<1>1. IsWellFoundedOn(R, Nat)
  BY NatLessThanWellFounded
<1> HIDE DEF R
<1>2. PICK n \in T : \A k \in T : ~(<<k, n>> \in R)
  BY <1>1, WFMin
<1>3. \A a, b \in Nat : a < b => <<a, b>> \in R
  BY DEF R, OpToRel
<1>4. ASSUME NEW k \in T PROVE n <= k
  <2>1. k \in Nat /\ n \in Nat
    OBVIOUS
  <2>2. ~(k < n)
    BY <1>2, <1>3, <2>1
  <2> QED
    BY <2>1, <2>2
<1> QED
  BY <1>4

Candidates == Seq(Seq(Hanzi))

\* The words found among the first n: what the loop has after n rounds.
Finds(spelled, n, f) ==
  f = [k \in 0..n |->
         IF k = 0 THEN <<>>
         ELSE IF IsPrefix(spelled, Dict[k].praige) THEN Append(f[k - 1], Dict[k].hanzi)
         ELSE f[k - 1]]

\* ComputeCandidatesAndStore (textwindowpekzep.cpp:35-45) ends for every
\* dictionary, and with words of it.
LEMMA RoundsFind ==
  ASSUME NEW spelled, NEW n \in 0..Len(Dict)
  PROVE  \E f : Finds(spelled, n, f)
<1> DEFINE Miss == {k \in 0..Len(Dict) : ~\E f : Finds(spelled, k, f)}
<1>1. Len(Dict) \in Nat
  BY TextBoxAssumption, LenProperties
<1>2. SUFFICES ASSUME Miss # {} PROVE FALSE
  OBVIOUS
<1>3. Miss \in SUBSET Nat
  BY <1>1
<1>4. PICK k \in Miss : \A j \in Miss : k <= j
  <2> HIDE DEF Miss
  <2> QED
    BY <1>2, <1>3, Least
<1>5. k # 0
  <2> DEFINE g == [i \in 0..0 |-> <<>>]
  <2>1. Finds(spelled, 0, g)
    BY DEF Finds
  <2> HIDE DEF g
  <2> QED
    BY <2>1
<1>6. k \in 1..Len(Dict) /\ k - 1 \in 0..Len(Dict) /\ ~(k <= k - 1)
  BY <1>1, <1>5
<1>7. k - 1 \notin Miss
  BY <1>4, <1>6
<1>8. PICK f : Finds(spelled, k - 1, f)
  BY <1>6, <1>7
<1> DEFINE last == IF IsPrefix(spelled, Dict[k].praige) THEN Append(f[k - 1], Dict[k].hanzi)
                   ELSE f[k - 1]
           g == [i \in 0..k |-> IF i = k THEN last ELSE f[i]]
<1>9. Finds(spelled, k, g)
  <2> DEFINE Round(h, i) == IF i = 0 THEN <<>>
                            ELSE IF IsPrefix(spelled, Dict[i].praige)
                                 THEN Append(h[i - 1], Dict[i].hanzi)
                            ELSE h[i - 1]
  <2>1. f = [i \in 0..(k - 1) |-> Round(f, i)]
    BY <1>8 DEF Finds
  <2>2. SUFFICES g = [i \in 0..k |-> Round(g, i)]
    BY DEF Finds
  <2>3. \A i \in 0..k : i # 0 => g[i - 1] = f[i - 1]
    BY <1>6
  <2>4. \A i \in 0..k : Round(g, i) = Round(f, i)
    BY <2>3
  <2>5. Round(f, k) = last
    BY <1>5
  <2>6. \A i \in 0..k : i # k => f[i] = Round(f, i)
    <3> HIDE DEF Round
    <3> QED
      BY <1>6, <2>1
  <2> HIDE DEF Round, last
  <2> QED
    BY <2>4, <2>5, <2>6
<1> HIDE DEF g
<1> QED
  BY <1>9

LEMMA RoundsFindWords ==
  ASSUME NEW spelled, NEW f, Finds(spelled, Len(Dict), f)
  PROVE  f[Len(Dict)] \in Candidates
<1> DEFINE Miss == {k \in 0..Len(Dict) : f[k] \notin Candidates}
<1>1. Len(Dict) \in Nat
  BY TextBoxAssumption, LenProperties
<1>2. SUFFICES ASSUME Miss # {} PROVE FALSE
  BY <1>1
<1>3. Miss \in SUBSET Nat
  BY <1>1
<1>4. PICK k \in Miss : \A j \in Miss : k <= j
  <2> HIDE DEF Miss
  <2> QED
    BY <1>2, <1>3, Least
<1>5. k # 0
  <2>1. f[0] = <<>>
    BY <1>1 DEF Finds
  <2>2. <<>> \in Candidates
    BY EmptySeq DEF Candidates
  <2> QED
    BY <2>1, <2>2
<1>6. k \in 1..Len(Dict) /\ k - 1 \in 0..Len(Dict) /\ ~(k <= k - 1)
  BY <1>1, <1>5
<1>7. f[k - 1] \in Candidates
  BY <1>4, <1>6
<1>8. Dict[k].hanzi \in Seq(Hanzi)
  <2>1. Dict[k] \in [hanzi : Seq(Hanzi), praige : Seq(Spelling)]
    BY <1>6, TextBoxAssumption, ElementOfSeq
  <2> QED
    BY <2>1
<1>9. f[k] \in {Append(f[k - 1], Dict[k].hanzi), f[k - 1]}
  BY <1>5, <1>6 DEF Finds
<1>10. f[k] \in Candidates
  <2>1. Append(f[k - 1], Dict[k].hanzi) \in Candidates
    BY <1>7, <1>8, AppendTo DEF Candidates
  <2> QED
    BY <1>7, <1>9, <2>1
<1> QED
  BY <1>10

LEMMA CandidatesAreWords ==
  ASSUME NEW spelled
  PROVE  ComputeCandidates(spelled) \in Candidates
<1> DEFINE found == CHOOSE f : Finds(spelled, Len(Dict), f)
<1>1. Len(Dict) \in 0..Len(Dict)
  BY TextBoxAssumption, LenProperties
<1>2. <<>> \in Candidates
  BY EmptySeq DEF Candidates
<1>3. Finds(spelled, Len(Dict), found)
  BY <1>1, RoundsFind
<1>4. ComputeCandidates(spelled) = IF spelled = <<>> THEN <<>> ELSE found[Len(Dict)]
  BY DEF ComputeCandidates, Finds
<1> HIDE DEF found
<1> QED
  BY <1>2, <1>3, <1>4, RoundsFindWords

IMEs ==
  [solidified : Seq(Hanzi \cup {Space}), non_solidified : Seq(Spelling), candidate_index : Nat,
   candidates : Candidates, wild : BOOLEAN]

IMEInv(s) == s \in IMEs /\ IMEOK(s)

LEMMA SpelledShows ==
  ASSUME NEW s \in IMEs, s.wild = FALSE, NEW spelled \in Seq(Spelling),
         NEW solid \in Seq(Hanzi \cup {Space})
  PROVE  IMEInv([Spelled(s, spelled) EXCEPT !.solidified = solid])
<1> DEFINE c == ComputeCandidates(spelled)
           n == IF spelled = <<>> THEN s.candidate_index ELSE 0
           u == [s EXCEPT !.non_solidified = spelled, !.candidates = c,
                          !.candidate_index = n, !.solidified = solid]
<1>1. c \in Candidates
  BY CandidatesAreWords
<1>2. n \in Nat
  BY DEF IMEs
<1>3. [Spelled(s, spelled) EXCEPT !.solidified = solid] = u
  BY DEF Spelled, IMEs
<1>4. c # <<>> => n = 0
  BY DEF ComputeCandidates
<1>5. c # <<>> => 0 \in 0..(Len(c) - 1)
  <2>1. c # <<>> => Len(c) \in Nat \ {0}
    BY <1>1, EmptySeq DEF Candidates
  <2> QED
    BY <2>1
<1> HIDE DEF n
<1>6. /\ u.non_solidified = spelled /\ u.candidates = c /\ u.candidate_index = n /\ ~u.wild
  BY DEF IMEs
<1> HIDE DEF c
<1>7. u \in IMEs
  BY <1>1, <1>2 DEF IMEs
<1> HIDE DEF u
<1> QED
  BY <1>3, <1>4, <1>5, <1>6, <1>7 DEF IMEInv, IMEOK, c

\* Each key of Pekzep, while no candidate was read that is not there.
LEMMA IMEShows ==
  ASSUME NEW s, IMEInv(s), ~s.wild
  PROVE  /\ IMEInv(IMEBackspace(s)) /\ IMEInv(Left(s)) /\ IMEInv(Right(s)) /\ IMEInv(IMESpace(s))
         /\ \A c \in Spelling : IMEInv(IMEType(s, c))
<1>1. /\ s \in IMEs /\ s.candidates \in Candidates /\ s.candidate_index \in Nat
      /\ s.solidified \in Seq(Hanzi \cup {Space}) /\ s.non_solidified \in Seq(Spelling)
      /\ s.candidates = ComputeCandidates(s.non_solidified)
      /\ s.candidates # <<>> => s.candidate_index \in 0..(Len(s.candidates) - 1)
      /\ Len(s.candidates) \in Nat
  BY LenProperties DEF IMEInv, IMEOK, IMEs, Candidates
<1>2. s.wild = FALSE
  BY <1>1 DEF IMEs
<1>3. ASSUME NEW spelled \in Seq(Spelling)
      PROVE  IMEInv(Spelled(s, spelled))
  <2>1. Spelled(s, spelled) = [Spelled(s, spelled) EXCEPT !.solidified = s.solidified]
    BY <1>1 DEF Spelled, IMEs
  <2> QED
    BY <1>1, <1>2, <2>1, SpelledShows
<1>4. ASSUME NEW n \in Nat, s.candidates # <<>> => n \in 0..(Len(s.candidates) - 1),
             NEW solid \in Seq(Hanzi \cup {Space}), NEW w \in BOOLEAN, w => s.candidates = <<>>
      PROVE  IMEInv([s EXCEPT !.candidate_index = n, !.solidified = solid, !.wild = w])
  <2> DEFINE u == [s EXCEPT !.candidate_index = n, !.solidified = solid, !.wild = w]
  <2>1. /\ u \in IMEs /\ u.candidate_index = n /\ u.wild = w /\ u.candidates = s.candidates
        /\ u.non_solidified = s.non_solidified
    BY <1>1 DEF IMEs
  <2> HIDE DEF u
  <2>2. IMEInv(u)
    BY <1>1, <1>4, <2>1 DEF IMEInv, IMEOK
  <2> QED
    BY <2>2 DEF u
<1>5. ASSUME NEW solid \in Seq(Hanzi \cup {Space})
      PROVE  IMEInv([s EXCEPT !.solidified = solid])
  <2>1. [s EXCEPT !.solidified = solid]
          = [s EXCEPT !.candidate_index = s.candidate_index, !.solidified = solid, !.wild = FALSE]
    BY <1>1, <1>2 DEF IMEs
  <2> QED
    BY <1>1, <1>4, <2>1
<1>6. ASSUME NEW n \in Nat, n \in 0..(Len(s.candidates) - 1)
      PROVE  IMEInv([s EXCEPT !.candidate_index = n])
  <2>1. [s EXCEPT !.candidate_index = n]
          = [s EXCEPT !.candidate_index = n, !.solidified = s.solidified, !.wild = FALSE]
    BY <1>1, <1>2 DEF IMEs
  <2> QED
    BY <1>1, <1>4, <1>6, <2>1
<1>7. IMEInv(IMEBackspace(s))
  <2>1. s.non_solidified # <<>> => Front(s.non_solidified) \in Seq(Spelling)
    BY <1>1, FrontOf
  <2>2. s.solidified # <<>> => Front(s.solidified) \in Seq(Hanzi \cup {Space})
    BY <1>1, FrontOf
  <2> QED
    BY <1>3, <1>5, <2>1, <2>2 DEF IMEBackspace
<1>8. IMEInv(Right(s))
  <2>1. CASE s.candidates # <<>> /\ s.candidate_index # Len(s.candidates) - 1
    <3>1. s.candidate_index + 1 \in Nat /\ s.candidate_index + 1 \in 0..(Len(s.candidates) - 1)
      BY <1>1, <2>1
    <3>2. Right(s) = [s EXCEPT !.candidate_index = s.candidate_index + 1]
      BY <2>1 DEF Right
    <3> QED
      BY <1>6, <3>1, <3>2
  <2> QED
    BY <2>1 DEF Right
<1>9. IMEInv(Left(s))
  <2>1. CASE s.candidates # <<>> /\ s.candidate_index # 0
    <3>1. s.candidate_index - 1 \in Nat /\ s.candidate_index - 1 \in 0..(Len(s.candidates) - 1)
      BY <1>1, <2>1
    <3>2. Left(s) = [s EXCEPT !.candidate_index = s.candidate_index - 1]
      BY <2>1 DEF Left
    <3> QED
      BY <1>6, <3>1, <3>2
  <2> QED
    BY <2>1 DEF Left
<1>10. IMEInv(IMESpace(s))
  <2>1. CASE s.non_solidified = <<>>
    <3>1. Append(s.solidified, Space) \in Seq(Hanzi \cup {Space})
      BY <1>1, AppendProperties
    <3>2. IMESpace(s) = [s EXCEPT !.solidified = Append(s.solidified, Space)]
      BY <2>1 DEF IMESpace
    <3> QED
      BY <1>5, <3>1, <3>2
  <2>2. CASE s.non_solidified # <<>> /\ s.candidate_index >= Len(s.candidates)
    <3>1. s.candidates = <<>>
      BY <1>1, <2>2
    <3>2. IMESpace(s) = [s EXCEPT !.candidate_index = s.candidate_index, !.solidified = s.solidified,
                                  !.wild = TRUE]
      BY <1>1, <2>2 DEF IMESpace, IMEs
    <3> QED
      BY <1>1, <1>4, <3>1, <3>2
  <2>3. CASE s.non_solidified # <<>> /\ ~(s.candidate_index >= Len(s.candidates))
    <3> DEFINE word == s.candidates[s.candidate_index + 1]
    <3>1. s.candidate_index + 1 \in 1..Len(s.candidates)
      BY <1>1, <2>3
    <3>2. word \in Seq(Hanzi)
      BY <1>1, <3>1, ElementOfSeq DEF Candidates
    <3>3. word \in Seq(Hanzi \cup {Space})
      BY <3>2, SeqMonotonic
    <3> HIDE DEF word
    <3>4. s.solidified \o word \in Seq(Hanzi \cup {Space})
      BY <1>1, <3>3, ConcatProperties
    <3>5. Spelled(s, <<>>).solidified = s.solidified
      BY <1>1 DEF Spelled, IMEs
    <3>6. IMESpace(s) = [Spelled(s, <<>>) EXCEPT !.solidified = s.solidified \o word]
      BY <2>3, <3>5 DEF IMESpace, word
    <3>7. <<>> \in Seq(Spelling)
      BY EmptySeq
    <3>8. s \in IMEs /\ s.wild = FALSE
      BY <1>1, <1>2
    <3> QED
      BY <3>4, <3>6, <3>7, <3>8, SpelledShows
  <2> QED
    BY <2>1, <2>2, <2>3
<1>11. ASSUME NEW c \in Spelling
       PROVE  IMEInv(IMEType(s, c))
  <2>1. Append(s.non_solidified, c) \in Seq(Spelling)
    BY <1>1, AppendProperties
  <2> QED
    BY <1>3, <2>1 DEF IMEType
<1> QED
  BY <1>7, <1>8, <1>9, <1>10, <1>11

LEMMA EmptyIMEShows == IMEInv(EmptyIME)
<1>1. /\ <<>> \in Seq(Hanzi \cup {Space}) /\ <<>> \in Seq(Spelling) /\ <<>> \in Candidates
  BY EmptySeq DEF Candidates
<1>2. EmptyIME \in IMEs
  BY <1>1 DEF EmptyIME, IMEs
<1>3. ComputeCandidates(<<>>) = <<>>
  BY DEF ComputeCandidates
<1> QED
  BY <1>2, <1>3 DEF IMEInv, IMEOK, EmptyIME

-----------------------------------------------------------------------------
(* The keyboard *)

KeyboardInv == LineInv(terminal) /\ BoxInv(plain) /\ BoxInv(bhat) /\ IMEInv(pekzep)

LEMMA InitHolds == Init => KeyboardInv
  BY StartsWell, EmptyShows, EmptyIMEShows DEF Init, KeyboardInv

LEMMA StepHolds == KeyboardInv /\ [Next]_vars => KeyboardInv'
<1> SUFFICES ASSUME KeyboardInv, [Next]_vars PROVE KeyboardInv'
  OBVIOUS
<1>1. CASE KeyToTerminal
  BY <1>1, StepKeepsLine DEF KeyToTerminal, KeyboardInv
<1>2. CASE InputTextWindow
  <2>1. BoxInv(plain')
    BY <1>2, BackspaceShows, PlainShows DEF InputTextWindow, KeyboardInv
  <2> QED
    BY <1>2, <2>1 DEF InputTextWindow, KeyboardInv
<1>3. CASE InputTextWindowBhat
  <2>1. BoxInv(bhat')
    BY <1>3, BackspaceShows, BhatShows DEF InputTextWindowBhat, KeyboardInv
  <2> QED
    BY <1>3, <2>1 DEF InputTextWindowBhat, KeyboardInv
<1>4. CASE InputTextWindowPekzep
  <2>1. IMEInv(pekzep) /\ ~pekzep.wild
    BY <1>4 DEF InputTextWindowPekzep, KeyboardInv
  <2>2. IMEInv(pekzep')
    BY <1>4, <2>1, IMEShows DEF InputTextWindowPekzep
  <2> QED
    BY <1>4, <2>2 DEF InputTextWindowPekzep, KeyboardInv
<1>5. CASE UNCHANGED vars
  BY <1>5 DEF vars, KeyboardInv
<1> QED
  BY <1>1, <1>2, <1>3, <1>4, <1>5 DEF Next

LEMMA KeyboardInvHolds == Spec => []KeyboardInv
  BY InitHolds, StepHolds, PTL DEF Spec

\* For every size of the window, of the line and of the history, whatever is
\* typed, recalled and printed, unless others print into the window: the line
\* that Enter runs is that of the letters in the row, which end at the cursor
\* (LineOK), but for the low bits that are kept of a wide one and for a letter
\* in the first column before a recalled line (terminal.cpp:332-388, 747-842).
THEOREM LineSoundCorrect == Spec => []LineSound
<1>1. KeyboardInv => LineSound
  BY LineIsSound DEF KeyboardInv, LineSound
<1> QED
  BY <1>1, KeyboardInvHolds, PTL

\* For every dictionary and every size of the boxes: they show what was
\* entered, and Pekzep takes one of the candidates it shows, unless it shows
\* none (textwindow.cpp:14-25, textwindowbhat.cpp:67-134,
\* textwindowpekzep.cpp:97-128).
THEOREM BoxesShowWhatIsEntered == Spec => []BoxesSound
<1>1. KeyboardInv => BoxesSound
  BY DEF KeyboardInv, BoxesSound, BoxInv, IMEInv
<1> QED
  BY <1>1, KeyboardInvHolds, PTL

=============================================================================
