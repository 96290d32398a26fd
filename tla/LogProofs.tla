----------------------------- MODULE LogProofs ------------------------------
(***************************************************************************)
(* Every line that is logged is kept once and in order, files stay short,  *)
(* and no crash and no file that cannot be opened costs more than a queue  *)
(* of lines and two: for any length of the queue and of the files and any  *)
(* number of lines, days and crashes.                                      *)
(***************************************************************************)
EXTENDS Log, SequenceTheorems, FiniteSetTheorems, TLAPS

At(s, l) == \E i \in DOMAIN s : s[i] = l

InAFile(l) == \E f \in Files : At(files[f], l)

AtHand == pc \in {"rotate", "full", "push", "fputs"}

\* m_count counts lines, so the suffix of a file is within bounds.
CountLines == m_count <= lines /\ (pc = "rotate" => m_count < lines)

\* Only main() pushes: what full() told it still holds when it does.
RoomKept == pc = "push" => Len(m_log_queue) < max_queue_size

\* Every line is lost, in a file, or on its way to one.
Somewhere ==
  \A l \in 1 .. lines :
    \/ l \in lost \/ InAFile(l) \/ At(buf, l) \/ At(m_log_queue, l) \/ held = l
    \/ AtHand /\ l = lines

\* LOG_INFO ends with a flush, so that few lines are on their way.
FewOnTheWay ==
  Len(buf) + Len(m_log_queue) + (IF held = NoLine THEN 0 ELSE 1) + (IF AtHand THEN 1 ELSE 0)
    <= max_queue_size + (IF pc = "idle" THEN 1 ELSE 2)

Inv ==
  /\ TypeOK
  /\ CountLines
  /\ pc # "idle" => lines > 0
  /\ m_fp = NoFile => buf = <<>> /\ crashes < MaxCrashes
  /\ RoomKept
  /\ Somewhere
  /\ FewOnTheWay

-----------------------------------------------------------------------------
(* Sequences of lines.                                                     *)

LEMMA AtAppend ==
  ASSUME NEW s \in Seq(Lines), NEW e \in Lines
  PROVE  /\ Append(s, e) \in Seq(Lines) /\ Len(Append(s, e)) = Len(s) + 1
         /\ At(Append(s, e), e)
         /\ \A l : At(s, l) => At(Append(s, e), l)
<1>1. /\ Append(s, e) \in Seq(Lines) /\ Len(Append(s, e)) = Len(s) + 1
      /\ \A i \in 1 .. Len(s) : Append(s, e)[i] = s[i]
      /\ Append(s, e)[Len(s) + 1] = e
  BY AppendProperties
<1>2. DOMAIN s = 1 .. Len(s) /\ Len(s) \in Nat BY LenProperties
<1>3. DOMAIN Append(s, e) = 1 .. Len(s) + 1 BY <1>1, LenProperties
<1> QED BY <1>1, <1>2, <1>3 DEF At

LEMMA AtHeadTail ==
  ASSUME NEW s \in Seq(Lines), s # <<>>
  PROVE  /\ Head(s) \in Lines /\ Tail(s) \in Seq(Lines) /\ Len(Tail(s)) = Len(s) - 1
         /\ \A l : At(s, l) => l = Head(s) \/ At(Tail(s), l)
<1>1. /\ Head(s) \in Lines /\ Tail(s) \in Seq(Lines) /\ Len(Tail(s)) = Len(s) - 1
      /\ \A i \in 1 .. Len(Tail(s)) : Tail(s)[i] = s[i + 1]
  BY HeadTailProperties
<1>2. DOMAIN s = 1 .. Len(s) /\ Len(s) \in Nat BY LenProperties
<1>3. DOMAIN Tail(s) = 1 .. Len(s) - 1 BY <1>1, LenProperties
<1>4. Head(s) = s[1] OBVIOUS
<1>5. ASSUME NEW i \in DOMAIN s, i # 1
      PROVE  i - 1 \in DOMAIN Tail(s) /\ Tail(s)[i - 1] = s[i]
  BY <1>1, <1>2, <1>3, <1>5
<1> QED BY <1>1, <1>4, <1>5 DEF At

LEMMA AtConcat ==
  ASSUME NEW s \in Seq(Lines), NEW t \in Seq(Lines)
  PROVE  /\ s \o t \in Seq(Lines)
         /\ \A l : At(s, l) \/ At(t, l) => At(s \o t, l)
<1>1. /\ s \o t \in Seq(Lines) /\ Len(s \o t) = Len(s) + Len(t)
      /\ \A i \in 1 .. Len(s) + Len(t) :
           (s \o t)[i] = IF i <= Len(s) THEN s[i] ELSE t[i - Len(s)]
  BY ConcatProperties
<1>2. /\ DOMAIN s = 1 .. Len(s) /\ Len(s) \in Nat
      /\ DOMAIN t = 1 .. Len(t) /\ Len(t) \in Nat
  BY LenProperties
<1>3. DOMAIN (s \o t) = 1 .. Len(s) + Len(t) BY <1>1, LenProperties
<1>4. ASSUME NEW i \in DOMAIN s PROVE i \in DOMAIN (s \o t) /\ (s \o t)[i] = s[i]
  BY <1>1, <1>2, <1>3
<1>5. ASSUME NEW i \in DOMAIN t
      PROVE  i + Len(s) \in DOMAIN (s \o t) /\ (s \o t)[i + Len(s)] = t[i]
  BY <1>1, <1>2, <1>3
<1> QED BY <1>1, <1>4, <1>5 DEF At

\* A sequence holds at most as many lines as it is long.
LEMMA AtCount ==
  ASSUME NEW s \in Seq(Lines)
  PROVE  LET S == {l \in Lines : At(s, l)} IN IsFiniteSet(S) /\ Cardinality(S) <= Len(s)
<1> DEFINE S == {l \in Lines : At(s, l)}
<1>1. /\ Len(s) \in Nat /\ DOMAIN s = 1 .. Len(s) /\ s \in [1 .. Len(s) -> Lines]
  BY LenProperties
<1>2. s \in [1 .. Len(s) -> S] BY <1>1 DEF At
<1>3. s \in Surjection(1 .. Len(s), S) BY <1>1, <1>2 DEF Surjection, At
<1>4. IsFiniteSet(1 .. Len(s)) /\ Cardinality(1 .. Len(s)) = Len(s) BY <1>1, FS_Interval
<1> QED BY <1>3, <1>4, FS_Surjection

-----------------------------------------------------------------------------
(* Files.                                                                  *)

\* Part of the stdio buffer is written: nothing that is in a file goes.
LEMMA WrittenKeeps ==
  ASSUME TypeOK, NEW k \in 0 .. Len(buf)
  PROVE  /\ Written(k) \in [Files -> Seq(Lines)]
         /\ \A l : InAFile(l) => \E f \in Files : At(Written(k)[f], l)
         /\ k = Len(buf) /\ m_fp # NoFile =>
              \A l : At(buf, l) => \E f \in Files : At(Written(k)[f], l)
<1>1. CASE m_fp = NoFile
  BY <1>1 DEF Written, TypeOK, InAFile
<1>2. CASE m_fp # NoFile
  <2> DEFINE part == SubSeq(buf, 1, k)
  <2>1. m_fp \in Files /\ files \in [Files -> Seq(Lines)] /\ buf \in Seq(Lines)
    BY <1>2 DEF TypeOK
  <2>2. Len(buf) \in Nat /\ DOMAIN buf = 1 .. Len(buf) BY <2>1, LenProperties
  <2>3. \A i \in 1 .. k : buf[i] \in Lines BY <2>1, <2>2, ElementOfSeq
  <2>4. /\ part \in Seq(Lines) /\ Len(part) = (IF 1 <= k THEN k - 1 + 1 ELSE 0)
        /\ \A i \in 1 .. k - 1 + 1 : part[i] = buf[1 + i - 1]
    BY <2>2, <2>3, SubSeqProperties
  <2>5. k = Len(buf) => \A l : At(buf, l) => At(part, l)
    <3>1. Len(part) = k /\ \A i \in 1 .. k : part[i] = buf[i] BY <2>2, <2>4
    <3>2. DOMAIN part = 1 .. k BY <2>4, <3>1, LenProperties
    <3> QED BY <2>2, <3>1, <3>2 DEF At
  <2> HIDE DEF part
  <2>6. Written(k) = [files EXCEPT ![m_fp] = files[m_fp] \o part]
    BY <1>2 DEF Written, part
  <2>7. /\ files[m_fp] \o part \in Seq(Lines)
        /\ \A l : At(files[m_fp], l) \/ At(part, l) => At(files[m_fp] \o part, l)
    BY <2>1, <2>4, AtConcat
  <2>8. \A l : InAFile(l) => \E f \in Files : At(Written(k)[f], l)
    BY <2>1, <2>6, <2>7 DEF InAFile
  <2>9. Written(k) \in [Files -> Seq(Lines)] BY <2>1, <2>6, <2>7
  <2>10. k = Len(buf) => \A l : At(buf, l) => \E f \in Files : At(Written(k)[f], l)
    BY <2>1, <2>5, <2>6, <2>7
  <2> QED BY <2>8, <2>9, <2>10
<1> QED BY <1>1, <1>2

\* fflush leaves nothing behind.
LEMMA FlushKeeps ==
  ASSUME Inv
  PROVE  /\ Flushed \in [Files -> Seq(Lines)]
         /\ \A l : InAFile(l) \/ At(buf, l) => \E f \in Files : At(Flushed[f], l)
<1>1. Len(buf) \in 0 .. Len(buf) BY LenProperties DEF Inv, TypeOK
<1>2. TypeOK /\ (m_fp = NoFile => \A l : ~At(buf, l)) BY DEF Inv, At
<1> QED BY <1>1, <1>2, WrittenKeeps DEF Flushed

\* The suffix of a file is at most the number of lines.
LEMMA DivBound ==
  ASSUME NEW n \in Nat, NEW d \in Nat \ {0} PROVE n \div d \in 0 .. n
<1> DEFINE q == n \div d
<1>1. q \in Int /\ q >= 0 BY Z3
<1>2. d * q <= n BY Z3
<1>3. q <= d * q BY <1>1, Z3
<1> QED BY <1>1, <1>2, <1>3

\* fopen opens the file it is given, or fails while the bound allows a crash.
LEMMA OpenOrFail ==
  ASSUME NEW f \in Files, NEW dead \in Nat, NEW fp \in fopen(f, dead)
  PROVE  fp \in Files \cup {NoFile} /\ (fp = NoFile => dead < MaxCrashes)
<1>1. f # NoFile BY DEF Files, Days, NoFile
<1> QED BY <1>1 DEF fopen

-----------------------------------------------------------------------------
(* The steps.                                                              *)

LEMMA InitInv == Init => Inv
<1> SUFFICES ASSUME Init PROVE Inv OBVIOUS
<1> USE LogAssumption
<1>1. TypeOK
  <2>1. <<>> \in Seq(Lines) /\ Len(<<>>) = 0 OBVIOUS
  <2>2. 1 \in Days /\ <<1, 0>> \in Files BY DEF Days, Files
  <2> QED BY <2>1, <2>2 DEF Init, TypeOK, NoLine
<1>2. FewOnTheWay BY DEF Init, FewOnTheWay, AtHand
<1>3. m_fp # NoFile BY DEF Init, NoFile
<1> QED BY <1>1, <1>2, <1>3 DEF Init, Inv, CountLines, RoomKept, Somewhere

\* Steps that leave files and queue alone, and do not change what is in hand.
LEMMA StayInv ==
  ASSUME Inv, Midnight \/ TestFull \/ UNCHANGED lvars PROVE Inv'
<1> USE LogAssumption
<1>1. /\ UNCHANGED <<m_today, m_count, m_fp, files, buf, m_log_queue, lines, stamp, held,
                     direct, lost, crashes>>
      /\ today' \in Days
      /\ pc' = pc \/ (pc = "full" /\ pc' = IF Full THEN "fputs" ELSE "push")
  BY DEF Inv, TypeOK, Midnight, TestFull, Goto, lvars, fileVars, history, Days
<1>2. AtHand' <=> AtHand BY <1>1 DEF AtHand
<1>3. TypeOK' BY <1>1 DEF Inv, TypeOK
<1>4. RoomKept' BY <1>1 DEF Inv, TypeOK, RoomKept, Full
<1>5. Somewhere' BY <1>1, <1>2 DEF Inv, Somewhere, InAFile
<1>6. FewOnTheWay' BY <1>1, <1>2 DEF Inv, FewOnTheWay
<1>7. CountLines' BY <1>1 DEF Inv, CountLines
<1> QED BY <1>1, <1>3, <1>4, <1>5, <1>6, <1>7 DEF Inv

LEMMA ReadClockInv == ASSUME Inv, ReadClock PROVE Inv'
<1> USE LogAssumption
<1>1. /\ pc = "idle" /\ pc' = "rotate" /\ lines < MaxLines /\ lines' = lines + 1
      /\ stamp' = [stamp EXCEPT ![lines + 1] = today]
      /\ UNCHANGED <<today, m_today, m_count, m_fp, files, buf, m_log_queue, held, direct,
                     lost, crashes>>
  BY DEF ReadClock, Goto, fileVars, history
<1>2. TypeOK'
  <2>1. stamp' \in [Lines -> Days] BY <1>1 DEF Inv, TypeOK
  <2>2. lines' \in 0 .. MaxLines BY <1>1 DEF Inv, TypeOK
  <2> QED BY <1>1, <2>1, <2>2 DEF Inv, TypeOK
<1>3. lines \in Nat /\ m_count \in Nat BY DEF Inv, TypeOK
<1>4. CountLines' BY <1>1, <1>3 DEF Inv, CountLines
<1>5. ~AtHand /\ AtHand' BY <1>1 DEF AtHand
<1>6. Somewhere'
  <2>1. \A l \in 1 .. lines' : l \in 1 .. lines \/ l = lines' BY <1>1, <1>3
  <2> QED BY <1>1, <1>5, <2>1 DEF Inv, Somewhere, InAFile
<1>7. FewOnTheWay' BY <1>1, <1>5, LenProperties DEF Inv, TypeOK, FewOnTheWay
<1>8. RoomKept' BY <1>1 DEF RoomKept
<1> QED BY <1>1, <1>2, <1>3, <1>4, <1>6, <1>7, <1>8 DEF Inv

\* The change of file flushes the old one (log.cpp:105-124).
LEMMA RotateInv == ASSUME Inv, Rotate PROVE Inv'
<1> USE LogAssumption
<1> DEFINE day == stamp[lines]
           count == IF m_today = day THEN m_count + 1 ELSE 0
<1>1. /\ pc = "rotate" /\ pc' = "full" /\ m_today' = day /\ m_count' = count
      /\ UNCHANGED <<today, m_log_queue, lines, stamp, held, direct, lost, crashes>>
      /\ \/ UNCHANGED <<m_fp, files, buf>>
         \/ m_fp' \in fopen(NewName(day, count), crashes) /\ files' = Flushed /\ buf' = <<>>
  BY DEF Rotate, Goto, history
<1>2. lines \in Lines /\ lines \in 0 .. MaxLines /\ m_count \in Nat /\ m_count < lines
  BY <1>1 DEF Inv, TypeOK, CountLines, Lines
<1>3. day \in Days BY <1>2 DEF Inv, TypeOK
<1>4. count \in 0 .. lines /\ count \in 0 .. MaxLines BY <1>2
<1>5. NewName(day, count) \in Files
  <2>1. count \div m_split_lines \in 0 .. count BY <1>4, DivBound
  <2>2. count \div m_split_lines \in 0 .. MaxLines BY <1>4, <2>1
  <2> QED BY <1>3, <2>2 DEF NewName, Files
<1> HIDE DEF day, count
<1>6. /\ Flushed \in [Files -> Seq(Lines)]
      /\ \A l : InAFile(l) \/ At(buf, l) => \E f \in Files : At(Flushed[f], l)
  BY FlushKeeps
<1>7. /\ m_fp' \in Files \cup {NoFile} /\ files' \in [Files -> Seq(Lines)]
      /\ buf' \in Seq(Lines) /\ Len(buf') <= Len(buf)
      /\ m_fp' = NoFile => buf' = <<>> /\ crashes' < MaxCrashes
      /\ \A l : InAFile(l) \/ At(buf, l) => InAFile(l)' \/ At(buf', l)
  <2>1. CASE UNCHANGED <<m_fp, files, buf>>
    BY <1>1, <2>1, LenProperties DEF Inv, TypeOK, InAFile
  <2>2. CASE m_fp' \in fopen(NewName(day, count), crashes) /\ files' = Flushed /\ buf' = <<>>
    <3>1. Len(buf) \in Nat BY LenProperties DEF Inv, TypeOK
    <3>2. buf' \in Seq(Lines) /\ Len(buf') = 0 BY <2>2
    <3>3. \A l : InAFile(l)' <=> \E f \in Files : At(Flushed[f], l) BY <2>2 DEF InAFile
    <3>4. crashes \in Nat /\ crashes' = crashes BY <1>1 DEF Inv, TypeOK
    <3>5. m_fp' \in Files \cup {NoFile} /\ (m_fp' = NoFile => crashes' < MaxCrashes)
      BY <1>5, <2>2, <3>4, OpenOrFail
    <3> QED BY <1>6, <2>2, <3>1, <3>2, <3>3, <3>5
  <2> QED BY <1>1, <2>1, <2>2
<1>8. TypeOK' BY <1>1, <1>3, <1>4, <1>7 DEF Inv, TypeOK
<1>9. CountLines' BY <1>1, <1>4 DEF CountLines
<1>10. AtHand /\ AtHand' BY <1>1 DEF AtHand
<1>11. Somewhere' BY <1>1, <1>7, <1>10 DEF Inv, Somewhere
<1>12. FewOnTheWay'
  <2>1. Len(buf) \in Nat /\ Len(buf') \in Nat /\ Len(m_log_queue) \in Nat
    BY <1>7, LenProperties DEF Inv, TypeOK
  <2> QED BY <1>1, <1>7, <1>10, <2>1 DEF Inv, FewOnTheWay
<1>13. RoomKept' BY <1>1 DEF RoomKept
<1> QED BY <1>1, <1>2, <1>7, <1>8, <1>9, <1>11, <1>12, <1>13 DEF Inv

\* push() has room, because nobody else pushes between full() and push().
LEMMA PushInv == ASSUME Inv, Push PROVE Inv'
<1> USE LogAssumption
<1>1. /\ pc = "push" /\ pc' = "flush"
      /\ UNCHANGED <<today, m_today, m_count, m_fp, files, buf, lines, stamp, held, direct,
                     lost, crashes>>
  BY DEF Push, Goto, fileVars, history
<1>2. Len(m_log_queue) \in Nat /\ Len(m_log_queue) < max_queue_size
      /\ m_log_queue \in Seq(Lines)
  BY <1>1, LenProperties DEF Inv, RoomKept, TypeOK
<1>3. m_log_queue' = Append(m_log_queue, lines) BY <1>2 DEF Push
<1>4. lines \in Lines BY <1>1 DEF Inv, TypeOK, Lines
<1>5. /\ m_log_queue' \in Seq(Lines) /\ Len(m_log_queue') = Len(m_log_queue) + 1
      /\ At(m_log_queue', lines) /\ \A l : At(m_log_queue, l) => At(m_log_queue', l)
  BY <1>2, <1>3, <1>4, AtAppend
<1>6. TypeOK' BY <1>1, <1>2, <1>5 DEF Inv, TypeOK
<1>7. CountLines' BY <1>1 DEF Inv, CountLines
<1>8. AtHand /\ ~AtHand' BY <1>1 DEF AtHand
<1>9. Somewhere' BY <1>1, <1>5, <1>8 DEF Inv, Somewhere, InAFile
<1>10. FewOnTheWay'
  <2>1. Len(buf) \in Nat BY LenProperties DEF Inv, TypeOK
  <2> QED BY <1>1, <1>2, <1>5, <1>8, <2>1 DEF Inv, FewOnTheWay
<1> QED BY <1>1, <1>4, <1>6, <1>7, <1>9, <1>10 DEF Inv, RoomKept

\* fputs into the stdio buffer, by main() or by the flush thread.
LEMMA PutDirectInv == ASSUME Inv, PutDirect PROVE Inv'
<1> USE LogAssumption
<1>1. /\ pc = "fputs" /\ pc' = "flush" /\ m_fp # NoFile
      /\ buf' = Append(buf, lines) /\ direct' = direct \cup {lines}
      /\ UNCHANGED <<today, m_today, m_count, m_fp, files, m_log_queue, lines, stamp,
                     held, lost, crashes>>
  BY DEF PutDirect, Goto
<1>2. lines \in Lines /\ buf \in Seq(Lines) BY <1>1 DEF Inv, TypeOK, Lines
<1>3. /\ buf' \in Seq(Lines) /\ Len(buf') = Len(buf) + 1
      /\ At(buf', lines) /\ \A l : At(buf, l) => At(buf', l)
  BY <1>1, <1>2, AtAppend
<1>4. TypeOK' BY <1>1, <1>2, <1>3 DEF Inv, TypeOK
<1>5. CountLines' BY <1>1 DEF Inv, CountLines
<1>6. AtHand /\ ~AtHand' BY <1>1 DEF AtHand
<1>7. Somewhere' BY <1>1, <1>3, <1>6 DEF Inv, Somewhere, InAFile
<1>8. FewOnTheWay'
  <2>1. Len(buf) \in Nat /\ Len(m_log_queue) \in Nat BY LenProperties DEF Inv, TypeOK
  <2> QED BY <1>1, <1>3, <1>6, <2>1 DEF Inv, FewOnTheWay
<1> QED BY <1>1, <1>2, <1>4, <1>5, <1>7, <1>8 DEF Inv, RoomKept

LEMMA PutInv == ASSUME Inv, Put PROVE Inv'
<1> USE LogAssumption
<1>1. /\ held # NoLine /\ held' = NoLine /\ m_fp # NoFile /\ buf' = Append(buf, held)
      /\ UNCHANGED <<today, m_today, m_count, m_fp, files, m_log_queue, lines, stamp, pc,
                     direct, lost, crashes>>
  BY DEF Put, history
<1>2. held \in Lines /\ buf \in Seq(Lines) BY <1>1 DEF Inv, TypeOK
<1>3. /\ buf' \in Seq(Lines) /\ Len(buf') = Len(buf) + 1
      /\ At(buf', held) /\ \A l : At(buf, l) => At(buf', l)
  BY <1>1, <1>2, AtAppend
<1>4. TypeOK' BY <1>1, <1>3 DEF Inv, TypeOK
<1>5. CountLines' BY <1>1 DEF Inv, CountLines
<1>6. AtHand' <=> AtHand BY <1>1 DEF AtHand
<1>7. Somewhere' BY <1>1, <1>3, <1>6 DEF Inv, Somewhere, InAFile
<1>8. FewOnTheWay'
  <2>1. Len(buf) \in Nat /\ Len(m_log_queue) \in Nat BY LenProperties DEF Inv, TypeOK
  <2> QED BY <1>1, <1>3, <1>6, <2>1 DEF Inv, FewOnTheWay
<1> QED BY <1>1, <1>4, <1>5, <1>7, <1>8 DEF Inv, RoomKept

LEMMA PopInv == ASSUME Inv, Pop PROVE Inv'
<1> USE LogAssumption
<1>1. /\ held = NoLine /\ m_log_queue # <<>>
      /\ held' = Head(m_log_queue) /\ m_log_queue' = Tail(m_log_queue)
      /\ UNCHANGED <<today, m_today, m_count, m_fp, files, buf, lines, stamp, pc, direct,
                     lost, crashes>>
  BY DEF Pop, fileVars, history
<1>2. m_log_queue \in Seq(Lines) BY DEF Inv, TypeOK
<1>3. /\ held' \in Lines /\ m_log_queue' \in Seq(Lines)
      /\ Len(m_log_queue') = Len(m_log_queue) - 1
      /\ \A l : At(m_log_queue, l) => l = held' \/ At(m_log_queue', l)
  BY <1>1, <1>2, AtHeadTail
<1>4. Len(buf) \in Nat /\ Len(m_log_queue) \in Nat /\ Len(m_log_queue') \in Nat
  BY <1>2, <1>3, LenProperties DEF Inv, TypeOK
<1>5. TypeOK' BY <1>1, <1>3, <1>4 DEF Inv, TypeOK
<1>6. CountLines' BY <1>1 DEF Inv, CountLines
<1>7. AtHand' <=> AtHand BY <1>1 DEF AtHand
<1>8. Somewhere'
  <2>1. \A l \in 1 .. lines : held # l BY <1>1 DEF NoLine
  <2> QED BY <1>1, <1>3, <1>7, <2>1 DEF Inv, Somewhere, InAFile
<1>9. FewOnTheWay' BY <1>1, <1>3, <1>4, <1>7 DEF Inv, FewOnTheWay
<1>10. RoomKept' BY <1>1, <1>3, <1>4 DEF Inv, RoomKept
<1> QED BY <1>1, <1>5, <1>6, <1>8, <1>9, <1>10 DEF Inv

LEMMA FlushInv == ASSUME Inv, flush PROVE Inv'
<1> USE LogAssumption
<1>1. /\ pc = "flush" /\ pc' = "idle" /\ files' = Flushed /\ buf' = <<>>
      /\ UNCHANGED <<today, m_today, m_count, m_fp, m_log_queue, lines, stamp, held, direct,
                     lost, crashes>>
  BY DEF flush, Goto, history
<1>2. /\ Flushed \in [Files -> Seq(Lines)]
      /\ \A l : InAFile(l) \/ At(buf, l) => \E f \in Files : At(Flushed[f], l)
  BY FlushKeeps
<1>3. buf' \in Seq(Lines) /\ Len(buf') = 0 BY <1>1
<1>4. TypeOK' BY <1>1, <1>2, <1>3 DEF Inv, TypeOK
<1>5. CountLines' BY <1>1 DEF Inv, CountLines
<1>6. ~AtHand /\ ~AtHand' BY <1>1 DEF AtHand
<1>7. Somewhere'
  <2>1. \A l : InAFile(l)' <=> \E f \in Files : At(Flushed[f], l) BY <1>1 DEF InAFile
  <2> QED BY <1>1, <1>2, <1>6, <2>1 DEF Inv, Somewhere
<1>8. FewOnTheWay'
  <2>1. Len(m_log_queue) \in Nat /\ Len(m_log_queue) <= max_queue_size
    BY LenProperties DEF Inv, TypeOK
  <2> QED BY <1>1, <1>3, <1>6, <2>1 DEF FewOnTheWay
<1> QED BY <1>1, <1>4, <1>5, <1>7, <1>8 DEF Inv, RoomKept

\* A new process: what is not on disk is lost, and its queue is empty.
LEMMA RestartInv == ASSUME Inv, Crash \/ NullFile PROVE Inv'
<1> USE LogAssumption
<1>1. Restart /\ crashes < MaxCrashes BY DEF Crash, NullFile, Inv
<1>2. /\ crashes' = crashes + 1 /\ m_today' = today /\ m_count' = 0
      /\ m_fp' \in fopen(<<today, 0>>, crashes')
      /\ buf' = <<>> /\ m_log_queue' = <<>> /\ pc' = "idle" /\ held' = NoLine
      /\ lost' = {l \in 1 .. lines : ~OnDisk(l)}
      /\ UNCHANGED <<today, lines, stamp, direct>>
  BY <1>1 DEF Restart
<1>3. crashes \in Nat /\ crashes' \in 0 .. MaxCrashes BY <1>1, <1>2 DEF Inv, TypeOK
<1>4. files' \in [Files -> Seq(Lines)]
  <2>1. PICK k \in 0 .. Len(buf) : files' = Written(k) BY <1>1 DEF Restart
  <2> QED BY <2>1, WrittenKeeps DEF Inv
<1>5. m_fp' \in Files \cup {NoFile} /\ (m_fp' = NoFile => crashes' < MaxCrashes)
  <2>1. <<today, 0>> \in Files BY DEF Inv, TypeOK, Files
  <2> QED BY <1>2, <1>3, <2>1, OpenOrFail
<1>6. <<>> \in Seq(Lines) /\ Len(<<>>) = 0 OBVIOUS
<1>7. TypeOK'
  <2>1. lost' \subseteq Lines BY <1>2 DEF Inv, TypeOK, Lines
  <2> QED BY <1>2, <1>3, <1>4, <1>5, <1>6, <2>1 DEF Inv, TypeOK
<1>8. CountLines' BY <1>2 DEF Inv, TypeOK, CountLines
<1>9. Somewhere'
  <2>1. \A l \in 1 .. lines' : l \in lost' \/ InAFile(l)'
    BY <1>2 DEF OnDisk, InAFile, At
  <2> QED BY <2>1 DEF Somewhere
<1>10. FewOnTheWay' BY <1>2, <1>6 DEF FewOnTheWay, AtHand
<1> QED BY <1>2, <1>5, <1>7, <1>8, <1>9, <1>10 DEF Inv, RoomKept

LEMMA StepInv == ASSUME Inv, [Next]_lvars PROVE Inv'
<1>1. CASE Midnight \/ TestFull \/ UNCHANGED lvars BY <1>1, StayInv
<1>2. CASE ReadClock BY <1>2, ReadClockInv
<1>3. CASE Rotate BY <1>3, RotateInv
<1>4. CASE Push BY <1>4, PushInv
<1>5. CASE PutDirect BY <1>5, PutDirectInv
<1>6. CASE flush BY <1>6, FlushInv
<1>7. CASE Pop BY <1>7, PopInv
<1>8. CASE Put BY <1>8, PutInv
<1>9. CASE Crash \/ NullFile BY <1>9, RestartInv
<1> QED
  BY <1>1, <1>2, <1>3, <1>4, <1>5, <1>6, <1>7, <1>8, <1>9
  DEF Next, write_log, async_write_log

\* Inv along every behaviour.
LEMMA Always == Spec => []Inv
<1>1. Inv /\ [Next]_lvars => Inv' BY StepInv
<1> QED BY <1>1, InitInv, PTL DEF Spec

-----------------------------------------------------------------------------
\* Every variable of the log keeps its type, and the queue its bound, for any size of
\* queue and files (log.cpp:65-170).
THEOREM LogTypeCorrect == Spec => []TypeOK
<1>1. Inv => TypeOK BY DEF Inv
<1> QED BY <1>1, Always, PTL

\* push() never refuses a line, although its result is ignored and the test of
\* full() is a step of its own (log.cpp:147-154).
THEOREM PushHasRoom == Spec => [](pc = "push" => Len(m_log_queue) < max_queue_size)
<1>1. Inv => (pc = "push" => Len(m_log_queue) < max_queue_size) BY DEF Inv, RoomKept
<1> QED BY <1>1, Always, PTL

\* Sets one or both of which are small.
LEMMA SmallUnion ==
  ASSUME NEW S, NEW T, IsFiniteSet(S), IsFiniteSet(T), NEW m \in Nat, NEW n \in Nat,
         Cardinality(S) <= m, Cardinality(T) <= n
  PROVE  IsFiniteSet(S \cup T) /\ Cardinality(S \cup T) <= m + n
<1>1. /\ IsFiniteSet(S \cup T) /\ IsFiniteSet(S \cap T)
      /\ Cardinality(S \cup T) = Cardinality(S) + Cardinality(T) - Cardinality(S \cap T)
  BY FS_Union, FS_Intersection
<1>2. /\ Cardinality(S) \in Nat /\ Cardinality(T) \in Nat /\ Cardinality(S \cap T) \in Nat
      /\ Cardinality(S \cup T) \in Nat
  BY <1>1, FS_CardinalityType
<1> QED BY <1>1, <1>2

\* A line or none.
LEMMA OneOrNone ==
  ASSUME NEW x, NEW p \in BOOLEAN
  PROVE  LET S == IF p THEN {x} ELSE {} IN
         IsFiniteSet(S) /\ Cardinality(S) <= IF p THEN 1 ELSE 0
<1>1. IsFiniteSet({x}) /\ Cardinality({x}) = 1 BY FS_Singleton
<1>2. IsFiniteSet({}) /\ Cardinality({}) = 0 BY FS_EmptySet
<1> QED BY <1>1, <1>2

\* A crash, or a file that cannot be opened, costs at most the queue and two lines
\* (log.cpp:63, 123, 147-154, log.h:57-60).
THEOREM LossIsSmall == Spec => []SmallLoss
<1>1. ASSUME Inv PROVE SmallLoss
  <2> USE LogAssumption
  <2> DEFINE B == {l \in Lines : At(buf, l)}
             Q == {l \in Lines : At(m_log_queue, l)}
             H == IF held # NoLine THEN {held} ELSE {}
             I == IF AtHand THEN {lines} ELSE {}
             h == IF held # NoLine THEN 1 ELSE 0
             i == IF AtHand THEN 1 ELSE 0
  <2>1. NotOnDisk \subseteq (B \cup Q) \cup (H \cup I)
    <3> SUFFICES ASSUME NEW l \in NotOnDisk PROVE l \in (B \cup Q) \cup (H \cup I) OBVIOUS
    <3>1. l \in 1 .. lines /\ l \in Lines /\ l \notin lost /\ ~InAFile(l)
      BY <1>1 DEF NotOnDisk, InAFile, At, Inv, TypeOK, Lines
    <3>2. l # NoLine BY <3>1 DEF NoLine
    <3> QED BY <1>1, <3>1, <3>2 DEF Inv, Somewhere
  <2>2. /\ buf \in Seq(Lines) /\ Len(buf) \in Nat
        /\ m_log_queue \in Seq(Lines) /\ Len(m_log_queue) \in Nat
    BY <1>1, LenProperties DEF Inv, TypeOK
  <2>3. IsFiniteSet(B) /\ Cardinality(B) <= Len(buf) BY <2>2, AtCount
  <2>4. IsFiniteSet(Q) /\ Cardinality(Q) <= Len(m_log_queue) BY <2>2, AtCount
  <2>5. IsFiniteSet(H) /\ Cardinality(H) <= h BY OneOrNone
  <2>6. AtHand \in BOOLEAN BY DEF AtHand
  <2>7. IsFiniteSet(I) /\ Cardinality(I) <= i BY <2>6, OneOrNone
  <2>8. h \in Nat /\ i \in Nat OBVIOUS
  <2>9. Len(buf) + Len(m_log_queue) + h + i <= max_queue_size + 2
    BY <1>1, <2>2 DEF Inv, FewOnTheWay
  <2> HIDE DEF B, Q, H, I, h, i
  <2>10. /\ IsFiniteSet(B \cup Q) /\ Cardinality(B \cup Q) <= Len(buf) + Len(m_log_queue)
         /\ IsFiniteSet(H \cup I) /\ Cardinality(H \cup I) <= h + i
    <3>1. IsFiniteSet(B \cup Q) /\ Cardinality(B \cup Q) <= Len(buf) + Len(m_log_queue)
      BY <2>2, <2>3, <2>4, SmallUnion
    <3>2. IsFiniteSet(H \cup I) /\ Cardinality(H \cup I) <= h + i
      BY <2>5, <2>7, <2>8, SmallUnion
    <3> QED BY <3>1, <3>2
  <2>11. /\ IsFiniteSet((B \cup Q) \cup (H \cup I))
         /\ Cardinality((B \cup Q) \cup (H \cup I))
              <= (Len(buf) + Len(m_log_queue)) + (h + i)
    <3> DEFINE S == B \cup Q
               T == H \cup I
               m == Len(buf) + Len(m_log_queue)
               n == h + i
    <3>1. m \in Nat /\ n \in Nat BY <2>2, <2>8
    <3>2. /\ IsFiniteSet(S) /\ Cardinality(S) <= m
          /\ IsFiniteSet(T) /\ Cardinality(T) <= n
      BY <2>10
    <3> HIDE DEF S, T, m, n
    <3>3. IsFiniteSet(S \cup T) /\ Cardinality(S \cup T) <= m + n
      BY <3>1, <3>2, SmallUnion
    <3> QED BY <3>3 DEF S, T, m, n
  <2>12. /\ IsFiniteSet(NotOnDisk)
         /\ Cardinality(NotOnDisk) <= Cardinality((B \cup Q) \cup (H \cup I))
    <3> DEFINE All == (B \cup Q) \cup (H \cup I)
    <3>1. IsFiniteSet(All) /\ NotOnDisk \in SUBSET All BY <2>1, <2>11
    <3> HIDE DEF All
    <3>2. IsFiniteSet(NotOnDisk) /\ Cardinality(NotOnDisk) <= Cardinality(All)
      BY <3>1, FS_Subset
    <3> QED BY <3>2 DEF All
  <2>13. Cardinality(NotOnDisk) \in Nat /\ Cardinality((B \cup Q) \cup (H \cup I)) \in Nat
    BY <2>11, <2>12, FS_CardinalityType
  <2> QED BY <2>2, <2>8, <2>9, <2>11, <2>12, <2>13 DEF SmallLoss
<1> QED BY <1>1, Always, PTL

-----------------------------------------------------------------------------
(* The order of the lines.  Lines are put in the order of their numbers    *)
(* but for those main() puts itself.                                       *)

\* What is put already is not after what is still to come.
Passed(s) ==
  \A i \in DOMAIN s :
    /\ s[i] <= lines /\ (AtHand => s[i] < lines)
    /\ s[i] \notin direct =>
         /\ held # NoLine => s[i] < held
         /\ \A j \in DOMAIN m_log_queue : s[i] < m_log_queue[j]

InTurn(s) == \A i, j \in DOMAIN s : i < j /\ s[i] > s[j] => s[i] \in direct

QueueInTurn ==
  LET q == m_log_queue IN
  /\ \A i, j \in DOMAIN q : i < j => q[i] < q[j]
  /\ \A i \in DOMAIN q : /\ q[i] <= lines /\ (AtHand => q[i] < lines)
                         /\ held # NoLine => held < q[i]
  /\ held <= lines /\ (AtHand => held < lines)

OrderInv ==
  /\ QueueInTurn
  /\ \A f \in Files : Passed(Content(f)) /\ InTurn(Content(f))

\* Lines are numbers.
LEMMA LineNumbers ==
  ASSUME NEW s \in Seq(Lines)
  PROVE  /\ Len(s) \in Nat /\ DOMAIN s = 1 .. Len(s)
         /\ \A i \in DOMAIN s : s[i] \in Lines /\ s[i] \in Nat
<1>1. Len(s) \in Nat /\ DOMAIN s = 1 .. Len(s) BY LenProperties
<1>2. \A i \in DOMAIN s : s[i] \in Lines BY <1>1, ElementOfSeq
<1>3. \A l \in Lines : l \in Nat BY LogAssumption DEF Lines
<1> QED BY <1>1, <1>2, <1>3

\* What a file holds is a sequence of lines.
LEMMA ContentType ==
  ASSUME TypeOK PROVE \A f \in Files : Content(f) \in Seq(Lines)
  BY AtConcat DEF TypeOK, Content

\* Steps that put nothing.
LEMMA SameContent ==
  ASSUME OrderInv, QueueInTurn', UNCHANGED direct,
         \A f \in Files : Content(f)' = Content(f),
         \A f \in Files : Passed(Content(f)) => Passed(Content(f))'
  PROVE  OrderInv'
<1>1. ASSUME NEW f \in Files PROVE InTurn(Content(f))'
  <2>1. InTurn(Content(f)) /\ Content(f)' = Content(f) BY DEF OrderInv
  <2> QED BY <2>1 DEF InTurn
<1> QED BY <1>1 DEF OrderInv

LEMMA OrderInit == Init => OrderInv
<1> SUFFICES ASSUME Init PROVE OrderInv OBVIOUS
<1>1. \A f \in Files : Content(f) = <<>> BY DEF Init, Content
<1>2. DOMAIN <<>> = {} OBVIOUS
<1>3. m_log_queue = <<>> /\ held = 0 /\ lines = 0 /\ ~AtHand BY DEF Init, NoLine, AtHand
<1>4. QueueInTurn BY <1>2, <1>3 DEF QueueInTurn
<1> QED BY <1>1, <1>2, <1>4 DEF OrderInv, Passed, InTurn

\* Steps that leave files, queue and direct alone.
LEMMA OrderStay ==
  ASSUME Inv, OrderInv, Midnight \/ TestFull \/ ReadClock \/ UNCHANGED lvars
  PROVE  OrderInv'
<1>1. /\ UNCHANGED <<m_fp, files, buf, m_log_queue, held, direct>>
      /\ \/ lines' = lines /\ (AtHand' <=> AtHand)
         \/ lines' = lines + 1 /\ ~AtHand
  BY DEF Midnight, TestFull, ReadClock, Goto, lvars, fileVars, history, AtHand
<1>2. lines \in Nat /\ held \in Nat BY DEF Inv, TypeOK, Lines, NoLine
<1>3. /\ m_log_queue \in Seq(Lines) /\ DOMAIN m_log_queue = 1 .. Len(m_log_queue)
      /\ \A i \in DOMAIN m_log_queue : m_log_queue[i] \in Nat
  <2>1. m_log_queue \in Seq(Lines) BY DEF Inv, TypeOK
  <2> QED BY <2>1, LineNumbers
<1>4. QueueInTurn' BY <1>1, <1>2, <1>3 DEF OrderInv, QueueInTurn
<1>5. \A f \in Files : Content(f)' = Content(f) BY <1>1 DEF Content
<1>6. ASSUME NEW f \in Files, Passed(Content(f)) PROVE Passed(Content(f))'
  <2>1. Content(f)' = Content(f) BY <1>5
  <2>2. \A i \in DOMAIN Content(f) : Content(f)[i] \in Nat
    BY ContentType, LineNumbers DEF Inv
  <2> QED BY <1>1, <1>2, <1>6, <2>1, <2>2 DEF Passed
<1> QED BY <1>1, <1>4, <1>5, <1>6, SameContent

\* fflush moves lines from the stdio buffer to the file, whatever file is next.
LEMMA FlushContent ==
  ASSUME Inv, files' = Flushed, buf' = <<>>
  PROVE  \A f \in Files : Content(f)' = Content(f)
<1> SUFFICES ASSUME NEW f \in Files PROVE Content(f)' = Content(f) OBVIOUS
<1>1. files \in [Files -> Seq(Lines)] /\ buf \in Seq(Lines) BY DEF Inv, TypeOK
<1>2. SubSeq(buf, 1, Len(buf)) = buf BY <1>1
<1>3. Flushed \in [Files -> Seq(Lines)] BY FlushKeeps
<1>4. Content(f)' = Flushed[f]
  <2>1. Flushed[f] \o <<>> = Flushed[f] BY <1>3
  <2> QED BY <2>1 DEF Content
<1>5. Flushed[f] = Content(f)
  <2>1. CASE m_fp = NoFile
    <3>1. buf = <<>> BY <2>1 DEF Inv
    <3>2. files[f] \o <<>> = files[f] BY <1>1
    <3> QED BY <2>1, <3>1, <3>2 DEF Flushed, Written, Content
  <2>2. CASE m_fp # NoFile BY <1>1, <1>2, <2>2 DEF Flushed, Written, Content
  <2> QED BY <2>1, <2>2
<1> QED BY <1>4, <1>5

LEMMA OrderFlush == ASSUME Inv, OrderInv, Rotate \/ flush PROVE OrderInv'
<1>1. /\ UNCHANGED <<m_log_queue, held, lines, direct>> /\ (AtHand' <=> AtHand)
      /\ UNCHANGED <<m_fp, files, buf>> \/ (files' = Flushed /\ buf' = <<>>)
  BY DEF Rotate, flush, Goto, history, AtHand
<1>2. \A f \in Files : Content(f)' = Content(f)
  BY <1>1, FlushContent DEF Content
<1>3. QueueInTurn' BY <1>1 DEF OrderInv, QueueInTurn
<1>4. ASSUME NEW f \in Files, Passed(Content(f)) PROVE Passed(Content(f))'
  <2>1. Content(f)' = Content(f) BY <1>2
  <2> QED BY <1>1, <1>4, <2>1 DEF Passed
<1> QED BY <1>1, <1>2, <1>3, <1>4, SameContent

\* The line pushed is the last there is.
LEMMA OrderPush == ASSUME Inv, OrderInv, Push PROVE OrderInv'
<1>1. /\ AtHand /\ ~AtHand' /\ UNCHANGED <<m_fp, files, buf, lines, held, direct>>
      /\ m_log_queue' = m_log_queue \/ m_log_queue' = Append(m_log_queue, lines)
  BY DEF Push, Goto, fileVars, history, AtHand
<1>2. m_log_queue \in Seq(Lines) /\ lines \in Lines
  BY DEF Inv, TypeOK, Push, Goto, Lines
<1>3. /\ Len(m_log_queue) \in Nat /\ DOMAIN m_log_queue = 1 .. Len(m_log_queue)
      /\ \A i \in DOMAIN m_log_queue : m_log_queue[i] \in Nat
  BY <1>2, LineNumbers
<1>4. \A i \in DOMAIN m_log_queue' :
        \/ i \in DOMAIN m_log_queue /\ m_log_queue'[i] = m_log_queue[i]
        \/ i = Len(m_log_queue) + 1 /\ m_log_queue'[i] = lines
  <2>1. CASE m_log_queue' = m_log_queue BY <2>1
  <2>2. CASE m_log_queue' = Append(m_log_queue, lines)
    <3>1. m_log_queue' \in Seq(Lines) /\ Len(m_log_queue') = Len(m_log_queue) + 1
      BY <1>2, <2>2, AppendProperties
    <3>2. DOMAIN m_log_queue' = 1 .. Len(m_log_queue) + 1 BY <3>1, LenProperties
    <3> QED BY <1>2, <1>3, <2>2, <3>2, AppendProperties
  <2> QED BY <1>1, <2>1, <2>2
<1>5. lines \in Nat /\ held \in Nat BY DEF Inv, TypeOK, Lines, NoLine
<1>6. QueueInTurn' BY <1>1, <1>3, <1>4, <1>5 DEF OrderInv, QueueInTurn
<1>7. \A f \in Files : Content(f)' = Content(f) BY <1>1 DEF Content
<1>8. ASSUME NEW f \in Files, Passed(Content(f)) PROVE Passed(Content(f))'
  <2>1. Content(f)' = Content(f) BY <1>7
  <2> QED BY <1>1, <1>4, <1>8, <2>1 DEF Passed
<1> QED BY <1>1, <1>6, <1>7, <1>8, SameContent

LEMMA OrderPop == ASSUME Inv, OrderInv, Pop PROVE OrderInv'
<1>1. /\ held = NoLine /\ m_log_queue # <<>>
      /\ held' = Head(m_log_queue) /\ m_log_queue' = Tail(m_log_queue)
      /\ UNCHANGED <<m_fp, files, buf, lines, pc, direct>>
  BY DEF Pop, fileVars, history
<1>2. m_log_queue \in Seq(Lines) BY DEF Inv, TypeOK
<1>3. /\ Len(m_log_queue) \in Nat /\ DOMAIN m_log_queue = 1 .. Len(m_log_queue)
      /\ \A i \in DOMAIN m_log_queue : m_log_queue[i] \in Nat
  BY <1>2, LineNumbers
<1>4. 1 \in DOMAIN m_log_queue /\ held' = m_log_queue[1]
  BY <1>1, <1>2, <1>3
<1>5. \A i \in DOMAIN m_log_queue' :
        /\ i \in Nat /\ i >= 1
        /\ i + 1 \in DOMAIN m_log_queue /\ m_log_queue'[i] = m_log_queue[i + 1]
  <2>1. /\ m_log_queue' \in Seq(Lines) /\ Len(m_log_queue') = Len(m_log_queue) - 1
        /\ \A i \in 1 .. Len(m_log_queue') : m_log_queue'[i] = m_log_queue[i + 1]
    BY <1>1, <1>2, HeadTailProperties
  <2>2. DOMAIN m_log_queue' = 1 .. Len(m_log_queue) - 1 BY <2>1, LenProperties
  <2> QED BY <1>3, <2>1, <2>2
<1>6. AtHand' <=> AtHand BY <1>1 DEF AtHand
<1>7. QueueInTurn'
  BY <1>1, <1>3, <1>4, <1>5, <1>6 DEF OrderInv, QueueInTurn
<1>8. \A f \in Files : Content(f)' = Content(f) BY <1>1 DEF Content
<1>9. ASSUME NEW f \in Files, Passed(Content(f)) PROVE Passed(Content(f))'
  <2>1. Content(f)' = Content(f) BY <1>8
  <2> QED BY <1>1, <1>4, <1>5, <1>6, <1>9, <2>1 DEF Passed
<1> QED BY <1>1, <1>7, <1>8, <1>9, SameContent

\* One more line at the end of the open file.
LEMMA PutContent ==
  ASSUME Inv, m_fp # NoFile, NEW e \in Lines, buf' = Append(buf, e), UNCHANGED <<m_fp, files>>
  PROVE  \A f \in Files : Content(f)' = IF f = m_fp THEN Append(Content(f), e) ELSE Content(f)
<1>1. files \in [Files -> Seq(Lines)] /\ buf \in Seq(Lines) BY DEF Inv, TypeOK
<1>2. ASSUME NEW t \in Seq(Lines) PROVE t \o Append(buf, e) = Append(t \o buf, e)
  BY <1>1
<1>3. ASSUME NEW f \in Files
      PROVE  Content(f)' = IF f = m_fp THEN Append(Content(f), e) ELSE Content(f)
  BY <1>1, <1>2, <1>3 DEF Content
<1> QED BY <1>3

\* A line put after those that are not later, but for direct ones, is in turn.
LEMMA AppendInTurn ==
  ASSUME NEW s \in Seq(Lines), NEW e \in Lines, InTurn(s),
         direct \subseteq direct',
         \A i \in DOMAIN s : s[i] > e => s[i] \in direct'
  PROVE  \A i, j \in DOMAIN Append(s, e) :
           i < j /\ Append(s, e)[i] > Append(s, e)[j] => Append(s, e)[i] \in direct'
<1>1. /\ Append(s, e) \in Seq(Lines) /\ Len(Append(s, e)) = Len(s) + 1
      /\ \A i \in 1 .. Len(s) : Append(s, e)[i] = s[i]
      /\ Append(s, e)[Len(s) + 1] = e
  BY AppendProperties
<1>2. Len(s) \in Nat /\ DOMAIN s = 1 .. Len(s) BY LenProperties
<1>3. DOMAIN Append(s, e) = 1 .. Len(s) + 1 BY <1>1, LenProperties
<1> QED BY <1>1, <1>2, <1>3 DEF InTurn

\* The flush thread puts the line it has popped.
LEMMA OrderPut == ASSUME Inv, OrderInv, Put PROVE OrderInv'
<1>1. /\ held # NoLine /\ held' = NoLine /\ m_fp # NoFile /\ buf' = Append(buf, held)
      /\ UNCHANGED <<m_fp, files, m_log_queue, lines, direct>> /\ (AtHand' <=> AtHand)
  BY DEF Put, history, AtHand
<1>2. held \in Lines /\ held \in Nat /\ lines \in Nat
  BY <1>1, LogAssumption DEF Inv, TypeOK, Lines
<1>3. QueueInTurn' BY <1>1, <1>2 DEF OrderInv, QueueInTurn, NoLine
<1>4. \A f \in Files : Content(f)' = IF f = m_fp THEN Append(Content(f), held) ELSE Content(f)
  BY <1>1, <1>2, PutContent
<1>5. ASSUME NEW f \in Files PROVE Passed(Content(f))' /\ InTurn(Content(f))'
  <2> DEFINE s == Content(f)
  <2>1. s \in Seq(Lines) /\ Passed(s) /\ InTurn(s) BY ContentType DEF Inv, OrderInv
  <2>2. CASE f # m_fp
    <3>1. Content(f)' = Content(f) BY <1>4, <2>2
    <3> QED BY <1>1, <2>1, <3>1 DEF Passed, InTurn
  <2>3. CASE f = m_fp
    <3>1. Content(f)' = Append(s, held) BY <1>4, <2>3
    <3>2. \A i \in DOMAIN s : s[i] \in Nat /\ (s[i] > held => s[i] \in direct')
      BY <1>1, <1>2, <2>1, LineNumbers DEF Passed
    <3> HIDE DEF s
    <3>3. InTurn(Content(f))'
      BY <1>1, <1>2, <2>1, <3>1, <3>2, AppendInTurn DEF InTurn
    <3>4. \A i \in DOMAIN Append(s, held) :
            \/ i \in DOMAIN s /\ Append(s, held)[i] = s[i]
            \/ Append(s, held)[i] = held
      <4>1. /\ Append(s, held) \in Seq(Lines) /\ Len(Append(s, held)) = Len(s) + 1
            /\ \A i \in 1 .. Len(s) : Append(s, held)[i] = s[i]
            /\ Append(s, held)[Len(s) + 1] = held
        BY <1>2, <2>1, AppendProperties
      <4> QED BY <2>1, <4>1, LineNumbers
    <3>5. Passed(Content(f))'
      BY <1>1, <1>2, <2>1, <3>1, <3>4 DEF Passed, OrderInv, QueueInTurn
    <3> QED BY <3>3, <3>5
  <2> QED BY <2>2, <2>3
<1> QED BY <1>3, <1>5 DEF OrderInv

\* main() puts the newest line, which from now on is direct.
LEMMA OrderPutDirect == ASSUME Inv, OrderInv, PutDirect PROVE OrderInv'
<1>1. /\ AtHand /\ ~AtHand' /\ m_fp # NoFile
      /\ buf' = Append(buf, lines) /\ direct' = direct \cup {lines}
      /\ UNCHANGED <<m_fp, files, m_log_queue, lines, held>>
  BY DEF PutDirect, Goto, AtHand
<1>2. lines \in Lines /\ lines \in Nat BY DEF Inv, TypeOK, PutDirect, Goto, Lines
<1>3. QueueInTurn' BY <1>1 DEF OrderInv, QueueInTurn
<1>4. \A f \in Files : Content(f)' = IF f = m_fp THEN Append(Content(f), lines) ELSE Content(f)
  BY <1>1, <1>2, PutContent
<1>5. ASSUME NEW f \in Files PROVE Passed(Content(f))' /\ InTurn(Content(f))'
  <2> DEFINE s == Content(f)
  <2>1. s \in Seq(Lines) /\ Passed(s) /\ InTurn(s) BY ContentType DEF Inv, OrderInv
  <2>2. CASE f # m_fp
    <3>1. Content(f)' = Content(f) BY <1>4, <2>2
    <3> QED BY <1>1, <2>1, <3>1 DEF Passed, InTurn
  <2>3. CASE f = m_fp
    <3>1. Content(f)' = Append(s, lines) BY <1>4, <2>3
    <3>2. \A i \in DOMAIN s : s[i] \in Nat /\ s[i] <= lines
      BY <2>1, LineNumbers DEF Passed
    <3> HIDE DEF s
    <3>3. \A i \in DOMAIN s : ~(s[i] > lines) BY <1>2, <3>2
    <3>4. InTurn(Content(f))'
      BY <1>1, <1>2, <2>1, <3>1, <3>3, AppendInTurn DEF InTurn
    <3>5. \A i \in DOMAIN Append(s, lines) :
            \/ i \in DOMAIN s /\ Append(s, lines)[i] = s[i]
            \/ Append(s, lines)[i] = lines
      <4>1. /\ Append(s, lines) \in Seq(Lines) /\ Len(Append(s, lines)) = Len(s) + 1
            /\ \A i \in 1 .. Len(s) : Append(s, lines)[i] = s[i]
            /\ Append(s, lines)[Len(s) + 1] = lines
        BY <1>2, <2>1, AppendProperties
      <4> QED BY <2>1, <4>1, LineNumbers
    <3>6. Passed(Content(f))'
      BY <1>1, <1>2, <2>1, <3>1, <3>5 DEF Passed
    <3> QED BY <3>4, <3>6
  <2> QED BY <2>2, <2>3
<1> QED BY <1>3, <1>5 DEF OrderInv

\* A crash leaves of each file the beginning.
LEMMA RestartContent ==
  ASSUME Inv, Restart
  PROVE  \A f \in Files : \A i \in DOMAIN Content(f)' :
           i \in DOMAIN Content(f) /\ Content(f)'[i] = Content(f)[i]
<1>1. buf' = <<>> BY DEF Restart
<1>2. PICK k \in 0 .. Len(buf) : files' = Written(k) BY DEF Restart
<1>3. /\ files \in [Files -> Seq(Lines)] /\ files' \in [Files -> Seq(Lines)]
      /\ buf \in Seq(Lines)
  BY <1>2, WrittenKeeps DEF Inv, TypeOK
<1>4. ASSUME NEW f \in Files
      PROVE  \A i \in DOMAIN Content(f)' : i \in DOMAIN Content(f) /\ Content(f)'[i] = Content(f)[i]
  <2>1. Content(f)' = Written(k)[f]
    <3>1. Written(k)[f] \o <<>> = Written(k)[f] BY <1>2, <1>3
    <3> QED BY <1>1, <1>2, <3>1 DEF Content
  <2>2. CASE f # m_fp \/ m_fp = NoFile
    <3>1. Written(k)[f] = files[f] BY <1>3, <2>2 DEF Written
    <3>2. m_fp = NoFile => Content(f) = files[f]
      <4>1. m_fp = NoFile => buf = <<>> BY DEF Inv
      <4>2. files[f] \o <<>> = files[f] BY <1>3
      <4> QED BY <4>1, <4>2 DEF Content
    <3> QED BY <2>1, <2>2, <3>1, <3>2 DEF Content
  <2>3. CASE f = m_fp /\ m_fp # NoFile
    <3> DEFINE part == SubSeq(buf, 1, k)
    <3>1. Len(buf) \in Nat /\ DOMAIN buf = 1 .. Len(buf) BY <1>3, LineNumbers
    <3>2. /\ part \in Seq(Lines) /\ Len(part) = k
          /\ \A i \in 1 .. k : part[i] = buf[i]
      BY <1>3, <3>1
    <3> HIDE DEF part
    <3>3. Written(k)[f] = files[f] \o part BY <1>3, <2>3 DEF Written, part
    <3>4. /\ Len(files[f] \o part) = Len(files[f]) + k
          /\ \A i \in 1 .. Len(files[f]) + k :
               (files[f] \o part)[i] = IF i <= Len(files[f]) THEN files[f][i]
                                       ELSE part[i - Len(files[f])]
      BY <1>3, <3>2, ConcatProperties
    <3>5. /\ Len(files[f] \o buf) = Len(files[f]) + Len(buf)
          /\ \A i \in 1 .. Len(files[f]) + Len(buf) :
               (files[f] \o buf)[i] = IF i <= Len(files[f]) THEN files[f][i]
                                      ELSE buf[i - Len(files[f])]
      BY <1>3, ConcatProperties
    <3>6. /\ DOMAIN (files[f] \o part) = 1 .. Len(files[f]) + k
          /\ DOMAIN (files[f] \o buf) = 1 .. Len(files[f]) + Len(buf)
          /\ Len(files[f]) \in Nat
      BY <1>3, <3>2, <3>4, <3>5, AtConcat, LineNumbers
    <3>7. \A i \in DOMAIN (files[f] \o part) :
            i \in DOMAIN (files[f] \o buf) /\ (files[f] \o part)[i] = (files[f] \o buf)[i]
      BY <1>2, <3>1, <3>2, <3>4, <3>5, <3>6
    <3> QED BY <2>1, <2>3, <3>3, <3>7 DEF Content
  <2> QED BY <2>2, <2>3
<1> QED BY <1>4

LEMMA OrderRestart == ASSUME Inv, OrderInv, Crash \/ NullFile PROVE OrderInv'
<1>1. Restart BY DEF Crash, NullFile
<1>2. /\ buf' = <<>> /\ m_log_queue' = <<>> /\ held' = NoLine /\ ~AtHand'
      /\ UNCHANGED <<lines, direct>>
  BY <1>1 DEF Restart, AtHand
<1>3. lines \in Nat BY DEF Inv, TypeOK
<1>4. QueueInTurn' BY <1>2, <1>3 DEF QueueInTurn, NoLine
<1>5. ASSUME NEW f \in Files PROVE Passed(Content(f))' /\ InTurn(Content(f))'
  <2>1. Passed(Content(f)) /\ InTurn(Content(f)) BY DEF OrderInv
  <2>2. \A i \in DOMAIN Content(f)' : i \in DOMAIN Content(f) /\ Content(f)'[i] = Content(f)[i]
    BY <1>1, RestartContent
  <2>3. DOMAIN <<>> = {} OBVIOUS
  <2>4. Passed(Content(f))' BY <1>2, <2>1, <2>2, <2>3 DEF Passed
  <2>5. InTurn(Content(f))' BY <1>2, <2>1, <2>2 DEF InTurn
  <2> QED BY <2>4, <2>5
<1> QED BY <1>4, <1>5 DEF OrderInv

LEMMA AlwaysOrdered == Spec => []OrderInv
<1>1. Inv /\ OrderInv /\ [Next]_lvars => OrderInv'
  <2> SUFFICES ASSUME Inv, OrderInv, [Next]_lvars PROVE OrderInv' OBVIOUS
  <2>1. CASE Midnight \/ TestFull \/ ReadClock \/ UNCHANGED lvars BY <2>1, OrderStay
  <2>2. CASE Rotate \/ flush BY <2>2, OrderFlush
  <2>3. CASE Push BY <2>3, OrderPush
  <2>4. CASE PutDirect BY <2>4, OrderPutDirect
  <2>5. CASE Pop BY <2>5, OrderPop
  <2>6. CASE Put BY <2>6, OrderPut
  <2>7. CASE Crash \/ NullFile BY <2>7, OrderRestart
  <2> QED
    BY <2>1, <2>2, <2>3, <2>4, <2>5, <2>6, <2>7 DEF Next, write_log, async_write_log
<1> QED BY <1>1, OrderInit, Always, PTL DEF Spec

\* A line only overtakes an earlier one in a file when main() put it itself
\* (log.cpp:147-154), for any size of queue and files, over crashes and restarts.
THEOREM OrderKept == Spec => []InOrder
<1>1. OrderInv => InOrder BY DEF OrderInv, InTurn, InOrder
<1> QED BY <1>1, AlwaysOrdered, PTL

-----------------------------------------------------------------------------
(* Every line once.  What is put is nowhere else, and in one place; what   *)
(* is lost is nowhere.                                                     *)

Stored(l) == \E f \in Files : At(Content(f), l)

Elsewhere(l) == At(m_log_queue, l) \/ l = held \/ (AtHand /\ l = lines)

StoredOnce ==
  \A f, g \in Files : \A i \in DOMAIN Content(f), j \in DOMAIN Content(g) :
    Content(f)[i] = Content(g)[j] => f = g /\ i = j

OnceInv ==
  /\ StoredOnce
  /\ \A l \in Lines : Stored(l) => ~Elsewhere(l)
  /\ \A l \in lost : l \in 1 .. lines /\ ~Stored(l) /\ ~Elsewhere(l)

LEMMA OnceInit == Init => OnceInv
<1> SUFFICES ASSUME Init PROVE OnceInv OBVIOUS
<1>1. \A f \in Files : Content(f) = <<>> BY DEF Init, Content
<1>2. DOMAIN <<>> = {} OBVIOUS
<1>3. lost = {} BY DEF Init
<1> QED BY <1>1, <1>2, <1>3 DEF OnceInv, StoredOnce, Stored, At

\* What is stored, queued or held is a line that was logged.
LEMMA NoneAhead ==
  ASSUME Inv, OrderInv, NEW l \in Lines, Stored(l) \/ Elsewhere(l) PROVE l \in 1 .. lines
<1>1. lines \in Nat /\ held <= lines BY DEF Inv, TypeOK, OrderInv, QueueInTurn
<1>2. l \in Nat /\ l >= 1 BY LogAssumption DEF Lines
<1>3. Stored(l) => l <= lines BY DEF Stored, At, OrderInv, Passed
<1>4. Elsewhere(l) => l <= lines BY <1>1, <1>2 DEF Elsewhere, At, OrderInv, QueueInTurn
<1> QED BY <1>1, <1>2, <1>3, <1>4

\* Steps that put nothing: lines move between the hand, the queue and the thread.
LEMMA OnceMove ==
  ASSUME Inv, OrderInv, OnceInv, UNCHANGED lost, lines' \in Nat, lines <= lines',
         \A f \in Files : Content(f)' = Content(f),
         \A l \in 1 .. lines : Elsewhere(l)' => Elsewhere(l)
  PROVE  OnceInv'
<1>1. StoredOnce' BY DEF OnceInv, StoredOnce
<1>2. \A l : Stored(l)' <=> Stored(l) BY DEF Stored
<1>3. ASSUME NEW l \in Lines, Stored(l)' PROVE ~Elsewhere(l)'
  <2>1. Stored(l) BY <1>2, <1>3
  <2>2. l \in 1 .. lines BY <2>1, NoneAhead
  <2> QED BY <2>1, <2>2 DEF OnceInv
<1>4. ASSUME NEW l \in lost' PROVE l \in 1 .. lines' /\ ~Stored(l)' /\ ~Elsewhere(l)'
  <2>1. l \in 1 .. lines /\ ~Stored(l) /\ ~Elsewhere(l) BY <1>4 DEF OnceInv
  <2>2. lines \in Nat BY DEF Inv, TypeOK
  <2> QED BY <1>2, <2>1, <2>2
<1> QED BY <1>1, <1>3, <1>4 DEF OnceInv

LEMMA OnceStay ==
  ASSUME Inv, OrderInv, OnceInv,
         Midnight \/ TestFull \/ ReadClock \/ Rotate \/ flush \/ Push \/ Pop \/ UNCHANGED lvars
  PROVE  OnceInv'
<1>1. lines \in Nat /\ lost' = lost
  BY DEF Inv, TypeOK, Midnight, TestFull, ReadClock, Rotate, flush, Push, Pop, lvars,
         fileVars, history
<1>2. CASE Midnight \/ TestFull \/ ReadClock \/ UNCHANGED lvars
  <2>1. /\ UNCHANGED <<m_fp, files, buf, m_log_queue, held>>
        /\ \/ lines' = lines /\ (AtHand' <=> AtHand)
           \/ lines' = lines + 1 /\ ~AtHand
    BY <1>2 DEF Midnight, TestFull, ReadClock, Goto, lvars, fileVars, history, AtHand
  <2>2. \A f \in Files : Content(f)' = Content(f) BY <2>1 DEF Content
  <2>3. \A l \in 1 .. lines : Elsewhere(l)' => Elsewhere(l)
    BY <1>1, <2>1 DEF Elsewhere
  <2>4. lines' \in Nat /\ lines <= lines' BY <1>1, <2>1
  <2> QED BY <1>1, <2>2, <2>3, <2>4, OnceMove
<1>3. CASE Rotate \/ flush
  <2>1. /\ UNCHANGED <<m_log_queue, held, lines>> /\ (AtHand' <=> AtHand)
        /\ UNCHANGED <<m_fp, files, buf>> \/ (files' = Flushed /\ buf' = <<>>)
    BY <1>3 DEF Rotate, flush, Goto, history, AtHand
  <2>2. \A f \in Files : Content(f)' = Content(f)
    BY <2>1, FlushContent DEF Content
  <2>3. \A l \in 1 .. lines : Elsewhere(l)' => Elsewhere(l) BY <2>1 DEF Elsewhere
  <2> QED BY <1>1, <2>1, <2>2, <2>3, OnceMove
<1>4. CASE Push
  <2>1. /\ AtHand /\ ~AtHand' /\ UNCHANGED <<m_fp, files, buf, held, lines>>
        /\ m_log_queue' = m_log_queue \/ m_log_queue' = Append(m_log_queue, lines)
    BY <1>4 DEF Push, Goto, fileVars, history, AtHand
  <2>2. m_log_queue \in Seq(Lines) /\ lines \in Lines
    BY <1>4 DEF Inv, TypeOK, Push, Goto, Lines
  <2>3. \A l : At(m_log_queue', l) => At(m_log_queue, l) \/ l = lines
    <3>1. CASE m_log_queue' = m_log_queue BY <3>1
    <3>2. CASE m_log_queue' = Append(m_log_queue, lines)
      <4>1. /\ m_log_queue' \in Seq(Lines) /\ Len(m_log_queue') = Len(m_log_queue) + 1
            /\ \A i \in 1 .. Len(m_log_queue) : m_log_queue'[i] = m_log_queue[i]
            /\ m_log_queue'[Len(m_log_queue) + 1] = lines
        BY <2>2, <3>2, AppendProperties
      <4> QED BY <2>2, <4>1, LineNumbers DEF At
    <3> QED BY <2>1, <3>1, <3>2
  <2>4. \A f \in Files : Content(f)' = Content(f) BY <2>1 DEF Content
  <2>5. \A l \in 1 .. lines : Elsewhere(l)' => Elsewhere(l) BY <2>1, <2>3 DEF Elsewhere
  <2> QED BY <1>1, <2>1, <2>4, <2>5, OnceMove
<1>5. CASE Pop
  <2>1. /\ m_log_queue # <<>> /\ held' = Head(m_log_queue)
        /\ m_log_queue' = Tail(m_log_queue)
        /\ UNCHANGED <<m_fp, files, buf, lines, pc>>
    BY <1>5 DEF Pop, fileVars, history
  <2>2. m_log_queue \in Seq(Lines) BY DEF Inv, TypeOK
  <2>3. /\ At(m_log_queue, held')
        /\ \A l : At(m_log_queue', l) => At(m_log_queue, l)
    <3>1. /\ m_log_queue' \in Seq(Lines) /\ Len(m_log_queue') = Len(m_log_queue) - 1
          /\ \A i \in 1 .. Len(m_log_queue') : m_log_queue'[i] = m_log_queue[i + 1]
      BY <2>1, <2>2, HeadTailProperties
    <3>2. Len(m_log_queue) \in Nat /\ DOMAIN m_log_queue = 1 .. Len(m_log_queue)
          /\ DOMAIN m_log_queue' = 1 .. Len(m_log_queue')
      BY <2>2, <3>1, LineNumbers
    <3>3. 1 \in DOMAIN m_log_queue /\ held' = m_log_queue[1] BY <2>1, <2>2, <3>2
    <3>4. \A i \in DOMAIN m_log_queue' :
            i + 1 \in DOMAIN m_log_queue /\ m_log_queue'[i] = m_log_queue[i + 1]
      BY <3>1, <3>2
    <3> QED BY <3>3, <3>4 DEF At
  <2>4. \A f \in Files : Content(f)' = Content(f) BY <2>1 DEF Content
  <2>5. \A l \in 1 .. lines : Elsewhere(l)' => Elsewhere(l)
    BY <2>1, <2>3 DEF Elsewhere, AtHand
  <2> QED BY <1>1, <2>1, <2>4, <2>5, OnceMove
<1> QED BY <1>2, <1>3, <1>4, <1>5

\* The line that is put was not stored, and is nowhere else afterwards.
LEMMA OncePut ==
  ASSUME Inv, OrderInv, OnceInv, m_fp # NoFile, NEW e \in Lines,
         buf' = Append(buf, e), UNCHANGED <<m_fp, files, lines, lost>>,
         Elsewhere(e), ~Elsewhere(e)', \A l \in Lines : Elsewhere(l)' => Elsewhere(l)
  PROVE  OnceInv'
<1>1. \A f \in Files : Content(f)' = IF f = m_fp THEN Append(Content(f), e) ELSE Content(f)
  BY PutContent
<1>2. ASSUME NEW f \in Files
      PROVE  \A i \in DOMAIN Content(f)' :
               \/ i \in DOMAIN Content(f) /\ Content(f)'[i] = Content(f)[i]
               \/ f = m_fp /\ i = Len(Content(f)) + 1 /\ Content(f)'[i] = e
  <2>1. CASE f # m_fp BY <1>1, <2>1
  <2>2. CASE f = m_fp
    <3>a. PICK s \in Seq(Lines) : s = Content(f) BY ContentType DEF Inv
    <3>1. Content(f)' = Append(s, e) BY <1>1, <2>2, <3>a
    <3>2. /\ Append(s, e) \in Seq(Lines) /\ Len(Append(s, e)) = Len(s) + 1
          /\ \A i \in 1 .. Len(s) : Append(s, e)[i] = s[i]
          /\ Append(s, e)[Len(s) + 1] = e
      BY <3>1, AppendProperties
    <3>3. \A i \in DOMAIN Append(s, e) :
            \/ i \in DOMAIN s /\ Append(s, e)[i] = s[i]
            \/ i = Len(s) + 1 /\ Append(s, e)[i] = e
      BY <3>1, <3>2, LineNumbers
    <3> QED BY <2>2, <3>a, <3>1, <3>3
  <2> QED BY <2>1, <2>2
<1>3. \A f \in Files : \A i \in DOMAIN Content(f) : Content(f)[i] # e
  BY DEF OnceInv, Stored, At
<1>4. StoredOnce' BY <1>2, <1>3 DEF OnceInv, StoredOnce
<1>5. \A l : Stored(l)' => Stored(l) \/ l = e BY <1>2 DEF Stored, At
<1>6. \A l \in Lines : Stored(l)' => ~Elsewhere(l)' BY <1>5 DEF OnceInv
<1>7. \A l \in lost' : l \in 1 .. lines' /\ ~Stored(l)' /\ ~Elsewhere(l)'
  <2> SUFFICES ASSUME NEW l \in lost'
               PROVE  l \in 1 .. lines' /\ ~Stored(l)' /\ ~Elsewhere(l)'
    OBVIOUS
  <2>1. l \in 1 .. lines /\ ~Stored(l) /\ ~Elsewhere(l) BY DEF OnceInv
  <2>2. l \in Lines BY <2>1 DEF Inv, TypeOK, Lines
  <2> QED BY <1>5, <2>1, <2>2
<1> QED BY <1>4, <1>6, <1>7 DEF OnceInv

LEMMA OncePuts == ASSUME Inv, OrderInv, OnceInv, Put \/ PutDirect PROVE OnceInv'
<1>1. /\ lines \in Nat /\ QueueInTurn
      /\ \A l \in Lines : l \in Nat /\ l # NoLine
  BY LogAssumption DEF Inv, TypeOK, OrderInv, Lines, NoLine
<1>2. m_log_queue \in Seq(Lines) BY DEF Inv, TypeOK
<1>3. \A i \in DOMAIN m_log_queue : m_log_queue[i] \in Nat BY <1>2, LineNumbers
<1>4. CASE Put
  <2>1. /\ held # NoLine /\ held' = NoLine /\ m_fp # NoFile /\ buf' = Append(buf, held)
        /\ UNCHANGED <<m_fp, files, m_log_queue, lines, lost>> /\ (AtHand' <=> AtHand)
    BY <1>4 DEF Put, history, AtHand
  <2>2. PICK e \in Lines : e = held BY <2>1 DEF Inv, TypeOK
  <2>3. ~At(m_log_queue, e) /\ (AtHand => e # lines)
    BY <1>1, <1>3, <2>1, <2>2 DEF QueueInTurn, At
  <2>4. \A l : Elsewhere(l)' <=> At(m_log_queue, l) \/ l = NoLine \/ (AtHand /\ l = lines)
    BY <2>1 DEF Elsewhere
  <2>5. Elsewhere(e) /\ ~Elsewhere(e)' /\ \A l \in Lines : Elsewhere(l)' => Elsewhere(l)
    BY <1>1, <2>2, <2>3, <2>4 DEF Elsewhere
  <2> QED BY <2>1, <2>2, <2>5, OncePut
<1>5. CASE PutDirect
  <2>1. /\ AtHand /\ ~AtHand' /\ m_fp # NoFile /\ buf' = Append(buf, lines)
        /\ UNCHANGED <<m_fp, files, m_log_queue, lines, held, lost>>
    BY <1>5 DEF PutDirect, Goto, AtHand
  <2>2. PICK e \in Lines : e = lines
    BY <1>5 DEF Inv, TypeOK, PutDirect, Goto, Lines
  <2>3. ~At(m_log_queue, e) /\ e # held
    BY <1>1, <1>3, <2>1, <2>2 DEF QueueInTurn, At
  <2>4. \A l : Elsewhere(l)' <=> At(m_log_queue, l) \/ l = held BY <2>1 DEF Elsewhere
  <2>5. Elsewhere(e) /\ ~Elsewhere(e)' /\ \A l \in Lines : Elsewhere(l)' => Elsewhere(l)
    BY <2>1, <2>2, <2>3, <2>4 DEF Elsewhere
  <2> QED BY <2>1, <2>2, <2>5, OncePut
<1> QED BY <1>4, <1>5

LEMMA OnceRestart == ASSUME Inv, OrderInv, OnceInv, Crash \/ NullFile PROVE OnceInv'
<1>1. Restart BY DEF Crash, NullFile
<1>2. /\ buf' = <<>> /\ m_log_queue' = <<>> /\ held' = NoLine /\ ~AtHand'
      /\ lost' = {l \in 1 .. lines : ~OnDisk(l)} /\ UNCHANGED lines
  BY <1>1 DEF Restart, AtHand
<1>3. \A f \in Files : \A i \in DOMAIN Content(f)' :
        i \in DOMAIN Content(f) /\ Content(f)'[i] = Content(f)[i]
  BY <1>1, RestartContent
<1>4. StoredOnce' BY <1>3 DEF OnceInv, StoredOnce
<1>5. \A l : Elsewhere(l)' => l = NoLine
  <2>1. DOMAIN <<>> = {} OBVIOUS
  <2> QED BY <1>2, <2>1 DEF Elsewhere, At
<1>6. \A l \in Lines \cup 1 .. lines : l # NoLine
  BY LogAssumption DEF Lines, NoLine, Inv, TypeOK
<1>7. \A l : Stored(l)' <=> OnDisk(l)
  <2>1. files' \in [Files -> Seq(Lines)]
    <3>1. PICK k \in 0 .. Len(buf) : files' = Written(k) BY <1>1 DEF Restart
    <3> QED BY <3>1, WrittenKeeps DEF Inv
  <2>2. ASSUME NEW f \in Files PROVE Content(f)' = files'[f]
    <3>1. files'[f] \o <<>> = files'[f] BY <2>1
    <3> QED BY <1>2, <3>1 DEF Content
  <2> QED BY <2>2 DEF Stored, OnDisk, At
<1>8. \A l \in lost' : l \in 1 .. lines' /\ ~Stored(l)' /\ ~Elsewhere(l)'
  BY <1>2, <1>5, <1>6, <1>7
<1> QED BY <1>4, <1>5, <1>6, <1>8 DEF OnceInv

LEMMA AlwaysOnce == Spec => []OnceInv
<1>1. Inv /\ OrderInv /\ OnceInv /\ [Next]_lvars => OnceInv'
  <2> SUFFICES ASSUME Inv, OrderInv, OnceInv, [Next]_lvars PROVE OnceInv' OBVIOUS
  <2>1. CASE \/ Midnight \/ TestFull \/ ReadClock \/ Rotate \/ flush \/ Push \/ Pop
             \/ UNCHANGED lvars
    BY <2>1, OnceStay
  <2>2. CASE Put \/ PutDirect BY <2>2, OncePuts
  <2>3. CASE Crash \/ NullFile BY <2>3, OnceRestart
  <2> QED BY <2>1, <2>2, <2>3 DEF Next, write_log, async_write_log
<1> QED BY <1>1, OnceInit, Always, AlwaysOrdered, PTL DEF Spec

-----------------------------------------------------------------------------
(* Counting the copies.                                                    *)

LEMMA HitsOnce ==
  ASSUME NEW s, NEW l, \A i, j \in DOMAIN s : s[i] = s[j] => i = j
  PROVE  Hits(s, l) = IF At(s, l) THEN 1 ELSE 0
<1>1. CASE At(s, l)
  <2>1. PICK k \in DOMAIN s : s[k] = l BY <1>1 DEF At
  <2>2. {i \in DOMAIN s : s[i] = l} = {k} BY <2>1
  <2> QED BY <1>1, <2>2, FS_Singleton DEF Hits
<1>2. CASE ~At(s, l)
  <2>1. {i \in DOMAIN s : s[i] = l} = {} BY <1>2 DEF At
  <2> QED BY <1>2, <2>1, FS_EmptySet DEF Hits
<1> QED BY <1>1, <1>2

\* Where the lines of a file and of the stdio buffer are in its content.
LEMMA FileInContent ==
  ASSUME Inv, NEW f \in Files, NEW i \in DOMAIN files[f]
  PROVE  /\ i \in DOMAIN Content(f) /\ Content(f)[i] = files[f][i]
         /\ i \in 1 .. Len(files[f]) /\ Len(files[f]) \in Nat
<1>1. files[f] \in Seq(Lines) /\ buf \in Seq(Lines) BY DEF Inv, TypeOK
<1>2. /\ DOMAIN files[f] = 1 .. Len(files[f]) /\ Len(files[f]) \in Nat /\ Len(buf) \in Nat
  BY <1>1, LineNumbers
<1>3. CASE f # m_fp BY <1>2, <1>3 DEF Content
<1>4. CASE f = m_fp
  <2>1. /\ files[f] \o buf \in Seq(Lines)
        /\ Len(files[f] \o buf) = Len(files[f]) + Len(buf)
        /\ \A k \in 1 .. Len(files[f]) + Len(buf) :
             (files[f] \o buf)[k] = IF k <= Len(files[f]) THEN files[f][k]
                                    ELSE buf[k - Len(files[f])]
    BY <1>1, ConcatProperties
  <2>2. DOMAIN (files[f] \o buf) = 1 .. Len(files[f]) + Len(buf) BY <2>1, LineNumbers
  <2> QED BY <1>2, <1>4, <2>1, <2>2 DEF Content
<1> QED BY <1>3, <1>4

LEMMA BufInContent ==
  ASSUME Inv, NEW i \in DOMAIN buf
  PROVE  /\ m_fp \in Files /\ Len(files[m_fp]) \in Nat /\ i \in Nat \ {0}
         /\ Len(files[m_fp]) + i \in DOMAIN Content(m_fp)
         /\ Content(m_fp)[Len(files[m_fp]) + i] = buf[i]
<1>1. buf \in Seq(Lines) BY DEF Inv, TypeOK
<1>2. buf # <<>>
  <2>1. DOMAIN <<>> = {} OBVIOUS
  <2> QED BY <2>1
<1>3. m_fp \in Files /\ files[m_fp] \in Seq(Lines) BY <1>2 DEF Inv, TypeOK
<1>4. /\ DOMAIN buf = 1 .. Len(buf) /\ Len(buf) \in Nat /\ Len(files[m_fp]) \in Nat
  BY <1>1, <1>3, LineNumbers
<1>5. /\ files[m_fp] \o buf \in Seq(Lines)
      /\ Len(files[m_fp] \o buf) = Len(files[m_fp]) + Len(buf)
      /\ \A k \in 1 .. Len(files[m_fp]) + Len(buf) :
           (files[m_fp] \o buf)[k] = IF k <= Len(files[m_fp]) THEN files[m_fp][k]
                                     ELSE buf[k - Len(files[m_fp])]
  BY <1>1, <1>3, ConcatProperties
<1>6. DOMAIN (files[m_fp] \o buf) = 1 .. Len(files[m_fp]) + Len(buf)
  BY <1>5, LineNumbers
<1>7. /\ i \in Nat \ {0} /\ Len(files[m_fp]) + i \in 1 .. Len(files[m_fp]) + Len(buf)
      /\ ~(Len(files[m_fp]) + i <= Len(files[m_fp]))
      /\ Len(files[m_fp]) + i - Len(files[m_fp]) = i
  BY <1>4
<1>8. (files[m_fp] \o buf)[Len(files[m_fp]) + i] = buf[i] BY <1>5, <1>7
<1>9. Content(m_fp) = files[m_fp] \o buf BY DEF Content
<1> QED BY <1>3, <1>4, <1>6, <1>7, <1>8, <1>9

\* No file is longer than the number of lines.
LEMMA FileShort ==
  ASSUME Inv, OnceInv, NEW f \in Files, NEW i \in DOMAIN Content(f) PROVE i \in Lines
<1>1. PICK s \in Seq(Lines) : s = Content(f) BY ContentType DEF Inv
<1>2. Len(s) \in Nat /\ DOMAIN s = 1 .. Len(s) /\ s \in [1 .. Len(s) -> Lines]
  BY LenProperties
<1>3. \A j, k \in DOMAIN s : s[j] = s[k] => j = k BY <1>1 DEF OnceInv, StoredOnce
<1>4. s \in Injection(1 .. Len(s), Lines) BY <1>2, <1>3 DEF Injection, IsInjective
<1>4a. \A n \in Nat : IsFiniteSet(1 .. n) /\ Cardinality(1 .. n) = n
  <2> SUFFICES ASSUME NEW n \in Nat PROVE IsFiniteSet(1 .. n) /\ Cardinality(1 .. n) = n
    OBVIOUS
  <2> QED BY FS_Interval
<1>5. /\ IsFiniteSet(Lines) /\ Cardinality(Lines) = MaxLines
      /\ Cardinality(1 .. Len(s)) = Len(s)
  BY <1>2, <1>4a, LogAssumption DEF Lines
<1>6. Cardinality(1 .. Len(s)) <= Cardinality(Lines) BY <1>4, <1>5, FS_Injection
<1> QED BY <1>1, <1>2, <1>5, <1>6, LogAssumption DEF Lines

\* A line is stored if it is in a file or in the stdio buffer, and not in both.
LEMMA StoredWhere ==
  ASSUME Inv, OnceInv, NEW l
  PROVE  /\ Stored(l) <=> InAFile(l) \/ At(buf, l)
         /\ ~(InAFile(l) /\ At(buf, l))
<1>1. InAFile(l) => Stored(l) BY FileInContent DEF InAFile, Stored, At
<1>2. At(buf, l) => Stored(l) BY BufInContent DEF Stored, At
<1>3. Stored(l) => InAFile(l) \/ At(buf, l)
  <2> SUFFICES ASSUME NEW f \in Files, NEW i \in DOMAIN Content(f), Content(f)[i] = l
               PROVE  At(files[f], l) \/ At(buf, l)
    BY DEF Stored, InAFile, At
  <2>1. CASE f # m_fp BY <2>1 DEF Content, At
  <2>2. CASE f = m_fp
    <3>1. files[f] \in Seq(Lines) /\ buf \in Seq(Lines) BY DEF Inv, TypeOK
    <3>2. /\ files[f] \o buf \in Seq(Lines)
          /\ Len(files[f] \o buf) = Len(files[f]) + Len(buf)
          /\ \A k \in 1 .. Len(files[f]) + Len(buf) :
               (files[f] \o buf)[k] = IF k <= Len(files[f]) THEN files[f][k]
                                      ELSE buf[k - Len(files[f])]
      BY <3>1, ConcatProperties
    <3>3. /\ DOMAIN files[f] = 1 .. Len(files[f]) /\ Len(files[f]) \in Nat
          /\ DOMAIN buf = 1 .. Len(buf) /\ Len(buf) \in Nat
          /\ DOMAIN (files[f] \o buf) = 1 .. Len(files[f]) + Len(buf)
      BY <3>1, <3>2, LineNumbers
    <3>4. i \in 1 .. Len(files[f]) + Len(buf) /\ (files[f] \o buf)[i] = l
      BY <2>2, <3>3 DEF Content
    <3>5. \/ i \in DOMAIN files[f] /\ files[f][i] = l
          \/ i - Len(files[f]) \in DOMAIN buf /\ buf[i - Len(files[f])] = l
      BY <3>2, <3>3, <3>4
    <3> QED BY <3>5 DEF At
  <2> QED BY <2>1, <2>2
<1>4. ASSUME InAFile(l), At(buf, l) PROVE FALSE
  <2>a. PICK f \in Files : At(files[f], l) BY <1>4 DEF InAFile
  <2>1. PICK i \in DOMAIN files[f] : files[f][i] = l BY <2>a DEF At
  <2>2. PICK j \in DOMAIN buf : buf[j] = l BY <1>4 DEF At
  <2>3. /\ i \in DOMAIN Content(f) /\ Content(f)[i] = l
        /\ i \in 1 .. Len(files[f]) /\ Len(files[f]) \in Nat
    BY <2>1, FileInContent
  <2>4. /\ m_fp \in Files /\ j \in Nat \ {0} /\ Len(files[m_fp]) + j \in DOMAIN Content(m_fp)
        /\ Content(m_fp)[Len(files[m_fp]) + j] = l
    BY <2>2, BufInContent
  <2>5. f = m_fp /\ i = Len(files[m_fp]) + j BY <2>3, <2>4 DEF OnceInv, StoredOnce
  <2> QED BY <2>3, <2>4, <2>5
<1> QED BY <1>1, <1>2, <1>3, <1>4

\* How often a line is in the files.
LEMMA CountFiles ==
  ASSUME Inv, OnceInv, NEW l
  PROVE  Cardinality({w \in Files \X Lines : w[2] \in DOMAIN files[w[1]] /\ files[w[1]][w[2]] = l})
           = IF InAFile(l) THEN 1 ELSE 0
<1> DEFINE W == {w \in Files \X Lines : w[2] \in DOMAIN files[w[1]] /\ files[w[1]][w[2]] = l}
<1>1. CASE InAFile(l)
  <2>a. PICK f \in Files : At(files[f], l) BY <1>1 DEF InAFile
  <2>1. PICK i \in DOMAIN files[f] : files[f][i] = l BY <2>a DEF At
  <2>2. i \in DOMAIN Content(f) /\ Content(f)[i] = l BY <2>1, FileInContent
  <2>3. <<f, i>> \in W BY <2>1, <2>2, FileShort
  <2>4. ASSUME NEW w \in W PROVE w = <<f, i>>
    <3>1. PICK g \in Files, j \in Lines : w = <<g, j>> OBVIOUS
    <3>2. j \in DOMAIN files[g] /\ files[g][j] = l BY <3>1
    <3>3. j \in DOMAIN Content(g) /\ Content(g)[j] = l BY <3>2, FileInContent
    <3>4. g = f /\ j = i BY <2>2, <3>3 DEF OnceInv, StoredOnce
    <3> QED BY <3>1, <3>4
  <2>5. W = {<<f, i>>} BY <2>3, <2>4
  <2> QED BY <1>1, <2>5, FS_Singleton
<1>2. CASE ~InAFile(l)
  <2>1. W = {} BY <1>2 DEF InAFile, At
  <2> QED BY <1>2, <2>1, FS_EmptySet
<1> QED BY <1>1, <1>2

\* Every line that was logged is in one place, in one copy, unless a crash took it:
\* for any size of queue and files, whatever main() and the flush thread do
\* between full(), push() and the change of file (log.cpp:90-164).
THEOREM LineKept == Spec => []EachOnce
<1>1. ASSUME Inv, OrderInv, OnceInv PROVE EachOnce
  <2> SUFFICES ASSUME NEW l \in 1 .. lines
               PROVE  Copies(l) = IF l \in lost THEN 0 ELSE 1
    BY DEF EachOnce
  <2>1. /\ l \in Lines /\ l \in Nat /\ lines \in Nat
        /\ m_log_queue \in Seq(Lines)
    <3>1. lines \in 0 .. MaxLines /\ m_log_queue \in Seq(Lines) BY <1>1 DEF Inv, TypeOK
    <3>2. l \in Lines /\ l \in Nat /\ lines \in Nat BY <3>1, LogAssumption DEF Lines
    <3> QED BY <3>1, <3>2
  <2>2. Hits(buf, l) = IF At(buf, l) THEN 1 ELSE 0
    <3>1. \A i, j \in DOMAIN buf : buf[i] = buf[j] => i = j
      BY <1>1, BufInContent DEF OnceInv, StoredOnce
    <3> QED BY <3>1, HitsOnce
  <2>3. Hits(m_log_queue, l) = IF At(m_log_queue, l) THEN 1 ELSE 0
    <3>1. DOMAIN m_log_queue = 1 .. Len(m_log_queue) /\ Len(m_log_queue) \in Nat
          /\ \A i \in DOMAIN m_log_queue : m_log_queue[i] \in Nat
      BY <2>1, LineNumbers
    <3>2. \A i, j \in DOMAIN m_log_queue : m_log_queue[i] = m_log_queue[j] => i = j
      BY <1>1, <3>1 DEF OrderInv, QueueInTurn
    <3> QED BY <3>2, HitsOnce
  <2>4. Cardinality({w \in Files \X Lines :
                       w[2] \in DOMAIN files[w[1]] /\ files[w[1]][w[2]] = l})
          = IF InAFile(l) THEN 1 ELSE 0
    BY <1>1, CountFiles
  <2>5. InHand(l) <=> AtHand /\ l = lines BY DEF InHand, AtHand
  <2>6. Copies(l) = (IF InAFile(l) THEN 1 ELSE 0) + (IF At(buf, l) THEN 1 ELSE 0)
                    + (IF At(m_log_queue, l) THEN 1 ELSE 0)
                    + (IF held = l THEN 1 ELSE 0) + (IF AtHand /\ l = lines THEN 1 ELSE 0)
    BY <2>2, <2>3, <2>4, <2>5 DEF Copies
  <2>7. /\ Stored(l) <=> InAFile(l) \/ At(buf, l)
        /\ ~(InAFile(l) /\ At(buf, l))
        /\ Stored(l) => ~Elsewhere(l)
        /\ l \in lost => ~Stored(l) /\ ~Elsewhere(l)
    BY <1>1, <2>1, StoredWhere DEF OnceInv
  <2>8. /\ ~(At(m_log_queue, l) /\ held = l)
        /\ ~(At(m_log_queue, l) /\ AtHand /\ l = lines)
        /\ ~(held = l /\ AtHand /\ l = lines)
    <3>1. l # NoLine BY DEF NoLine
    <3> QED BY <1>1, <2>1, <3>1 DEF OrderInv, QueueInTurn, At
  <2>9. l \in lost \/ Stored(l) \/ Elsewhere(l)
    BY <1>1, <2>7 DEF Inv, Somewhere, Elsewhere
  <2> QED BY <2>6, <2>7, <2>8, <2>9 DEF Elsewhere
<1> QED BY <1>1, Always, AlwaysOrdered, AlwaysOnce, PTL

-----------------------------------------------------------------------------
(* The length of a file.  In one start a file gets the lines that were on  *)
(* their way when it was opened, and those counted until the next one is.  *)

PerStart == m_split_lines + max_queue_size + 1
Before == crashes * PerStart

\* Files this start has not come to.
Ahead(f) == f[1] > m_today \/ (f[1] = m_today /\ f[2] > m_count \div m_split_lines)

OnTheWay ==
  Len(m_log_queue) + (IF held = NoLine THEN 0 ELSE 1)
    + (IF pc \in {"full", "push", "fputs"} THEN 1 ELSE 0)

LengthInv ==
  /\ m_today <= today
  /\ pc = "rotate" => m_today <= stamp[lines] /\ stamp[lines] <= today
  /\ m_fp # NoFile =>
       /\ m_fp = <<m_today, m_count \div m_split_lines>>
       /\ Len(Content(m_fp)) + OnTheWay
            <= Before + max_queue_size + 1 + (m_count % m_split_lines) + 1
  /\ \A f \in Files : /\ Len(Content(f)) <= Before + PerStart
                      /\ Ahead(f) => Len(Content(f)) <= Before

LEMMA DivMod ==
  ASSUME NEW n \in Nat, NEW d \in Nat \ {0}
  PROVE  /\ n \div d \in Int /\ n \div d >= 0 /\ n % d \in Int /\ 0 <= n % d /\ n % d < d
         /\ n = d * (n \div d) + (n % d)
<1>1. n \div d \in Int /\ n \div d >= 0 BY Z3
<1>2. n % d \in Int /\ 0 <= n % d /\ n % d < d BY Z3
<1>3. n = d * (n \div d) + (n % d) BY Z3
<1> QED BY <1>1, <1>2, <1>3

\* Counting on: the next line is of the same file, or is the first of the next.
LEMMA NextCount ==
  ASSUME NEW c \in Nat, NEW d \in Nat \ {0}
  PROVE  /\ c \div d \in Nat /\ c % d \in 0 .. d - 1
         /\ (c + 1) % d = 0 => (c + 1) \div d > c \div d
         /\ (c + 1) % d # 0 => (c + 1) \div d = c \div d /\ (c + 1) % d = (c % d) + 1
         /\ 0 \div d = 0 /\ 0 % d = 0
<1>1. c \div d \in Int /\ c \div d >= 0 /\ c % d \in Int /\ 0 <= c % d /\ c % d < d
      /\ c = d * (c \div d) + (c % d)
  BY DivMod
<1>2. 0 \div d = 0 /\ 0 % d = 0
  <2>1. /\ 0 \div d \in Int /\ 0 \div d >= 0 /\ 0 % d \in Int /\ 0 <= 0 % d
        /\ 0 = d * (0 \div d) + (0 % d)
    BY DivMod
  <2> DEFINE q == 0 \div d
             r == 0 % d
  <2> HIDE DEF q, r
  <2>2. q \in Int /\ q >= 0 /\ r \in Int /\ r >= 0 /\ 0 = d * q + r BY <2>1 DEF q, r
  <2>3. d * q >= 0 BY <2>2, Z3
  <2>4. d * q = 0 /\ r = 0 BY <2>2, <2>3
  <2>5. q = 0 BY <2>2, <2>4, Z3
  <2> QED BY <2>4, <2>5 DEF q, r
<1>5. /\ c + 1 = d * ((c + 1) \div d) + ((c + 1) % d)
      /\ 0 <= (c + 1) % d /\ (c + 1) % d < d
      /\ (c + 1) \div d \in Int /\ (c + 1) % d \in Int
  <2>1. c + 1 \in Nat OBVIOUS
  <2> QED BY <2>1, DivMod
<1> DEFINE q == c \div d
           r == c % d
           q1 == (c + 1) \div d
           r1 == (c + 1) % d
<1>6. /\ q \in Int /\ r \in Int /\ q1 \in Int /\ r1 \in Int
      /\ 0 <= r /\ r < d /\ 0 <= r1 /\ r1 < d
      /\ d * q1 + r1 = d * q + r + 1
  BY <1>1, <1>5
<1> HIDE DEF q, r, q1, r1
<1>7. d * (q1 - q) = r + 1 - r1 BY <1>6, Z3
<1>8. q1 - q <= 1
  <2> SUFFICES ASSUME q1 - q >= 2 PROVE FALSE BY <1>6
  <2>1. d * (q1 - q) >= d * 2 BY <1>6, Z3
  <2> QED BY <1>6, <1>7, <2>1, Z3
<1>9. q1 - q >= 0
  <2> SUFFICES ASSUME q1 - q <= -1 PROVE FALSE BY <1>6
  <2>1. d * (q1 - q) <= d * (-1) BY <1>6, Z3
  <2> QED BY <1>6, <1>7, <2>1, Z3
<1>10. q1 = q \/ q1 = q + 1 BY <1>6, <1>8, <1>9
<1>11. q1 = q => r1 = r + 1 BY <1>6, Z3
<1>12. q1 = q + 1 => r1 = 0
  <2>1. q1 = q + 1 => d * (q1 - q) = d BY <1>6, Z3
  <2> QED BY <1>6, <1>7, <2>1, Z3
<1>13. /\ r1 = 0 => q1 > q
       /\ r1 # 0 => q1 = q /\ r1 = r + 1
  BY <1>6, <1>10, <1>11, <1>12
<1> QED BY <1>1, <1>2, <1>13 DEF q, r, q1, r1

LEMMA LengthTypes ==
  ASSUME Inv
  PROVE  /\ PerStart \in Nat /\ Before \in Nat /\ m_count \in Nat
         /\ m_count \div m_split_lines \in Nat
         /\ m_count % m_split_lines \in 0 .. m_split_lines - 1
         /\ today \in Int /\ m_today \in Int
         /\ Len(m_log_queue) \in Nat /\ OnTheWay \in Nat
         /\ \A f \in Files : Len(Content(f)) \in Nat
<1>1. crashes \in Nat /\ m_count \in Nat /\ today \in Int /\ m_today \in Int
  BY LogAssumption DEF Inv, TypeOK, Days
<1>2. PerStart \in Nat BY LogAssumption DEF PerStart
<1>3. Before \in Nat BY <1>1, <1>2, Z3 DEF Before
<1>4. Len(m_log_queue) \in Nat BY LineNumbers DEF Inv, TypeOK
<1>5. OnTheWay \in Nat
  <2> DEFINE h == IF held = NoLine THEN 0 ELSE 1
             i == IF pc \in {"full", "push", "fputs"} THEN 1 ELSE 0
  <2>1. h \in Nat /\ i \in Nat OBVIOUS
  <2>2. OnTheWay = Len(m_log_queue) + h + i BY DEF OnTheWay
  <2> HIDE DEF h, i
  <2> QED BY <1>4, <2>1, <2>2
<1>6. \A f \in Files : Len(Content(f)) \in Nat BY ContentType, LineNumbers DEF Inv
<1>7. /\ m_count \div m_split_lines \in Nat
      /\ m_count % m_split_lines \in 0 .. m_split_lines - 1
  BY <1>1, NextCount, LogAssumption
<1> QED BY <1>1, <1>2, <1>3, <1>4, <1>5, <1>6, <1>7

LEMMA LengthInit == Init => LengthInv
<1> SUFFICES ASSUME Init PROVE LengthInv OBVIOUS
<1>1. \A f \in Files : Content(f) = <<>> BY DEF Init, Content
<1>2. 0 \div m_split_lines = 0 /\ 0 % m_split_lines = 0 BY NextCount, LogAssumption
<1>3. Before = 0 /\ PerStart \in Nat
  <2>1. PerStart \in Nat BY LogAssumption DEF PerStart
  <2>2. \A k \in Nat : 0 * k = 0 OBVIOUS
  <2> QED BY <2>1, <2>2 DEF Before, Init
<1>4. OnTheWay = 0 BY DEF Init, OnTheWay
<1>5. <<1, 0>> \in Files BY LogAssumption DEF Files, Days
<1> QED BY <1>1, <1>2, <1>3, <1>4, <1>5, LogAssumption DEF Init, LengthInv

\* Steps that put nothing and do not change the file.
LEMMA LengthMove ==
  ASSUME Inv, LengthInv, UNCHANGED <<m_fp, m_today, m_count, crashes>>,
         \A f \in Files : Content(f)' = Content(f),
         OnTheWay' <= OnTheWay, OnTheWay' \in Nat,
         m_today' <= today', pc' = "rotate" => m_today' <= stamp[lines]' /\ stamp[lines]' <= today'
  PROVE  LengthInv'
<1>1. Before' = Before /\ PerStart' = PerStart BY DEF Before, PerStart
<1>2. \A f \in Files : (Ahead(f)' <=> Ahead(f)) BY DEF Ahead
<1>3. ASSUME m_fp # NoFile PROVE m_fp \in Files /\ Content(m_fp)' = Content(m_fp)
  <2>1. PICK g \in Files : g = m_fp BY <1>3 DEF Inv, TypeOK
  <2> QED BY <2>1 DEF Content
<1>4. ASSUME m_fp # NoFile
      PROVE  /\ m_fp = <<m_today, m_count \div m_split_lines>>
             /\ Len(Content(m_fp)') + OnTheWay'
                  <= Before + max_queue_size + 1 + (m_count % m_split_lines) + 1
  <2>1. Len(Content(m_fp)) \in Nat BY <1>3, <1>4, LengthTypes
  <2>2. /\ m_fp = <<m_today, m_count \div m_split_lines>>
        /\ Len(Content(m_fp)) + OnTheWay
             <= Before + max_queue_size + 1 + (m_count % m_split_lines) + 1
    BY <1>4 DEF LengthInv
  <2> DEFINE r == m_count % m_split_lines
  <2>3. r \in Int /\ Before \in Nat /\ OnTheWay \in Nat BY LengthTypes
  <2> HIDE DEF r
  <2>4. Len(Content(m_fp)) + OnTheWay <= Before + max_queue_size + 1 + r + 1 BY <2>2 DEF r
  <2>5. Len(Content(m_fp)) + OnTheWay' <= Before + max_queue_size + 1 + r + 1
    BY <2>1, <2>3, <2>4, LogAssumption
  <2>6. Content(m_fp)' = Content(m_fp) BY <1>3, <1>4
  <2> QED BY <2>2, <2>5, <2>6 DEF r
<1>5. \A f \in Files : /\ Len(Content(f)') <= Before + PerStart
                       /\ Ahead(f) => Len(Content(f)') <= Before
  BY DEF LengthInv
<1> QED BY <1>1, <1>2, <1>4, <1>5 DEF LengthInv

\* A line goes from the hand to the queue and on to the flush thread.
LEMMA WayLess ==
  ASSUME Inv, Midnight \/ TestFull \/ ReadClock \/ flush \/ Push \/ Pop \/ UNCHANGED lvars
  PROVE  OnTheWay' <= OnTheWay /\ OnTheWay' \in Nat
<1> DEFINE q == Len(m_log_queue)
           h == IF held = NoLine THEN 0 ELSE 1
           c == IF pc \in {"full", "push", "fputs"} THEN 1 ELSE 0
<1>1. q \in Nat /\ h \in {0, 1} /\ c \in {0, 1} /\ h' \in {0, 1} /\ c' \in {0, 1}
  BY LengthTypes
<1>2. q' \in Nat /\ q' + h' + c' <= q + h + c
  <2>1. CASE Midnight \/ ReadClock \/ flush \/ UNCHANGED lvars
    <3>1. /\ UNCHANGED <<m_log_queue, held>>
          /\ pc' = pc \/ pc' \in {"rotate", "idle"}
      BY <2>1 DEF Midnight, ReadClock, flush, Goto, lvars, fileVars, history
    <3>2. c' <= c BY <3>1
    <3> HIDE DEF c
    <3> QED BY <1>1, <3>1, <3>2
  <2>2. CASE TestFull
    <3>1. UNCHANGED <<m_log_queue, held>> /\ pc = "full" BY <2>2 DEF TestFull, Goto
    <3>2. c' <= c BY <3>1
    <3> HIDE DEF c
    <3> QED BY <1>1, <3>1, <3>2
  <2>3. CASE Push
    <3>1. /\ UNCHANGED held /\ pc = "push" /\ pc' = "flush"
          /\ m_log_queue' = m_log_queue \/ m_log_queue' = Append(m_log_queue, lines)
      BY <2>3 DEF Push, Goto
    <3>2. c = 1 /\ c' = 0 BY <3>1
    <3>3. m_log_queue \in Seq(Lines) /\ lines \in Lines
      BY <2>3 DEF Inv, TypeOK, Push, Goto, Lines
    <3>4. Len(m_log_queue') \in {Len(m_log_queue), Len(m_log_queue) + 1}
      BY <3>1, <3>3, AppendProperties
    <3> HIDE DEF c
    <3> QED BY <1>1, <3>1, <3>2, <3>4
  <2>4. CASE Pop
    <3>1. /\ held = NoLine /\ pc' = pc /\ m_log_queue # <<>> /\ m_log_queue' = Tail(m_log_queue)
      BY <2>4 DEF Pop
    <3>2. m_log_queue \in Seq(Lines) BY DEF Inv, TypeOK
    <3>3. Len(m_log_queue') = Len(m_log_queue) - 1 /\ Len(m_log_queue') \in Nat
      BY <3>1, <3>2, HeadTailProperties, LenProperties
    <3>4. c' = c BY <3>1
    <3>5. h = 0 BY <3>1
    <3> HIDE DEF c, h
    <3> QED BY <1>1, <3>3, <3>4, <3>5
  <2> QED BY <2>1, <2>2, <2>3, <2>4
<1>3. OnTheWay = q + h + c /\ OnTheWay' = q' + h' + c' BY DEF OnTheWay
<1>4. q' + h' + c' \in Nat
  <2>1. h' \in Nat /\ c' \in Nat BY <1>1
  <2>2. q' \in Nat BY <1>2
  <2>3. \A x, y, z \in Nat : x + y + z \in Nat OBVIOUS
  <2> HIDE DEF q, h, c
  <2> QED BY <2>1, <2>2, <2>3
<1>5. OnTheWay' \in Nat BY <1>3, <1>4
<1>6. OnTheWay' <= OnTheWay BY <1>2, <1>3
<1> QED BY <1>5, <1>6

LEMMA LengthStay ==
  ASSUME Inv, LengthInv,
         Midnight \/ TestFull \/ ReadClock \/ flush \/ Push \/ Pop \/ UNCHANGED lvars
  PROVE  LengthInv'
<1>1. UNCHANGED <<m_fp, m_today, m_count, crashes>>
  BY DEF Midnight, TestFull, ReadClock, flush, Push, Pop, lvars, fileVars, history
<1>2. \A f \in Files : Content(f)' = Content(f)
  <2>1. UNCHANGED <<m_fp, files, buf>> \/ (files' = Flushed /\ buf' = <<>>)
    BY DEF Midnight, TestFull, ReadClock, flush, Push, Pop, lvars, fileVars, history
  <2> QED BY <1>1, <2>1, FlushContent DEF Content
<1>3. m_today' <= today' /\ (pc' = "rotate" => m_today' <= stamp[lines]' /\ stamp[lines]' <= today')
  <2>1. /\ m_today \in Int /\ today \in Int /\ m_today <= today
        /\ pc = "rotate" => m_today <= stamp[lines] /\ stamp[lines] <= today
    BY LengthTypes DEF LengthInv
  <2>2. CASE Midnight
    <3>1. today' = today + 1 /\ UNCHANGED <<m_today, stamp, lines, pc>>
      BY <2>2 DEF Midnight, fileVars
    <3>2. pc = "rotate" => stamp[lines] \in Int
      <4>1. pc = "rotate" => lines \in Lines BY DEF Inv, TypeOK, Lines
      <4> QED BY <4>1 DEF Inv, TypeOK, Days
    <3> QED BY <2>1, <3>1, <3>2
  <2>3. CASE ReadClock
    <3>1. lines' = lines + 1 /\ lines < MaxLines /\ stamp' = [stamp EXCEPT ![lines + 1] = today]
          /\ UNCHANGED <<m_today, today>>
      BY <2>3 DEF ReadClock, fileVars
    <3>2. stamp'[lines'] = today
      <4>1. lines + 1 \in Lines /\ stamp \in [Lines -> Days]
        BY <3>1, LogAssumption DEF Inv, TypeOK, Lines
      <4> QED BY <3>1, <4>1
    <3> QED BY <2>1, <3>1, <3>2
  <2>4. CASE TestFull \/ flush \/ Push \/ Pop \/ UNCHANGED lvars
    <3>1. UNCHANGED <<m_today, today, stamp, lines>> /\ (pc' = pc \/ pc' # "rotate")
      BY <2>4 DEF TestFull, flush, Push, Pop, Goto, lvars, fileVars, history
    <3> QED BY <2>1, <3>1
  <2> QED BY <2>2, <2>3, <2>4
<1> QED BY <1>1, <1>2, <1>3, WayLess, LengthMove

\* A line is counted; the file it opens a new one, if it does, is one ahead.
LEMMA LengthRotate == ASSUME Inv, LengthInv, Rotate PROVE LengthInv'
<1> DEFINE day == stamp[lines]
           count == IF m_today = day THEN m_count + 1 ELSE 0
<1>1. /\ pc = "rotate" /\ pc' = "full" /\ m_today' = day /\ m_count' = count
      /\ UNCHANGED <<today, m_log_queue, lines, stamp, held, direct, lost, crashes>>
      /\ \/ ~Due /\ UNCHANGED <<m_fp, files, buf>>
         \/ /\ Due /\ m_fp # NoFile /\ m_fp' \in fopen(NewName(day, count), crashes)
            /\ files' = Flushed /\ buf' = <<>>
  BY DEF Rotate, Goto, history
<1>2. /\ day \in Days /\ day \in Int /\ m_today \in Int /\ m_today <= day /\ day <= today
      /\ m_count \in Nat /\ count \in 0 .. lines /\ lines \in 0 .. MaxLines
  <2>1. lines \in Lines /\ lines \in 0 .. MaxLines /\ m_count \in Nat /\ m_count < lines
    BY <1>1 DEF Inv, TypeOK, CountLines, Lines
  <2>2. day \in Days BY <2>1 DEF Inv, TypeOK
  <2>3. count \in 0 .. lines BY <2>1
  <2> QED BY <1>1, <2>1, <2>2, <2>3, LengthTypes DEF LengthInv, Days
<1> HIDE DEF day, count
<1>3. /\ Before' = Before /\ PerStart' = PerStart
      /\ \A f \in Files : Content(f)' = Content(f)
  BY <1>1, FlushContent DEF Before, PerStart, Content
<1>4. /\ day > m_today => count = 0
      /\ day = m_today => count = m_count + 1
  BY <1>2 DEF count, day
<1>5. /\ m_count \div m_split_lines \in Nat /\ count \div m_split_lines \in Nat
      /\ m_count % m_split_lines \in 0 .. m_split_lines - 1
      /\ count % m_split_lines \in 0 .. m_split_lines - 1
      /\ day = m_today => count \div m_split_lines >= m_count \div m_split_lines
      /\ Due /\ day = m_today => count \div m_split_lines > m_count \div m_split_lines
      /\ ~Due => /\ day = m_today /\ count \div m_split_lines = m_count \div m_split_lines
                 /\ count % m_split_lines = (m_count % m_split_lines) + 1
  <2>1. count \in Nat BY <1>2
  <2>2. Due <=> m_today # day \/ (m_count + 1) % m_split_lines = 0 BY DEF Due, day
  <2>3. /\ m_count \div m_split_lines \in Nat
        /\ m_count % m_split_lines \in 0 .. m_split_lines - 1
        /\ count \div m_split_lines \in Nat
        /\ count % m_split_lines \in 0 .. m_split_lines - 1
    BY <1>2, <2>1, NextCount, LogAssumption
  <2>4. /\ (m_count + 1) % m_split_lines = 0 =>
             (m_count + 1) \div m_split_lines > m_count \div m_split_lines
        /\ (m_count + 1) % m_split_lines # 0 =>
             /\ (m_count + 1) \div m_split_lines = m_count \div m_split_lines
             /\ (m_count + 1) % m_split_lines = (m_count % m_split_lines) + 1
    BY <1>2, NextCount, LogAssumption
  <2>5. CASE day = m_today
    <3>1. count = m_count + 1 BY <1>4, <2>5
    <3>2. Due <=> (m_count + 1) % m_split_lines = 0 BY <2>2, <2>5
    <3> DEFINE q == m_count \div m_split_lines
               q1 == (m_count + 1) \div m_split_lines
    <3>3. q \in Nat /\ q1 \in Nat BY <2>3, <3>1
    <3>4. (m_count + 1) % m_split_lines = 0 => q1 > q BY <2>4
    <3>5. (m_count + 1) % m_split_lines # 0 => q1 = q BY <2>4
    <3> HIDE DEF q, q1
    <3>6. q1 >= q BY <3>3, <3>4, <3>5
    <3> QED BY <2>3, <2>4, <2>5, <3>1, <3>2, <3>6 DEF q, q1
  <2>6. CASE day # m_today BY <2>2, <2>3, <2>6
  <2> QED BY <2>5, <2>6
<1> DEFINE n == m_count \div m_split_lines
           n1 == count \div m_split_lines
           r == m_count % m_split_lines
           r1 == count % m_split_lines
<1>6. /\ n \in Nat /\ n1 \in Nat /\ r \in Nat /\ r1 \in Nat
      /\ day = m_today => n1 >= n
      /\ Due /\ day = m_today => n1 > n
      /\ ~Due => day = m_today /\ n1 = n /\ r1 = r + 1
  BY <1>5
<1>7. \A f : /\ Ahead(f) <=> f[1] > m_today \/ (f[1] = m_today /\ f[2] > n)
             /\ Ahead(f)' <=> f[1] > day \/ (f[1] = day /\ f[2] > n1)
  BY <1>1 DEF Ahead
<1>8. m_fp # NoFile =>
        /\ m_fp = <<m_today, n>>
        /\ Len(Content(m_fp)) + OnTheWay <= Before + max_queue_size + 1 + r + 1
  BY DEF LengthInv
<1>9. OnTheWay' = OnTheWay + 1 /\ OnTheWay <= max_queue_size + 1 /\ OnTheWay \in Nat
  <2>1. OnTheWay = Len(m_log_queue) + (IF held = NoLine THEN 0 ELSE 1)
    <3>1. Len(m_log_queue) + (IF held = NoLine THEN 0 ELSE 1) \in Int BY LengthTypes
    <3> QED BY <1>1, <3>1 DEF OnTheWay
  <2>2. OnTheWay' = Len(m_log_queue) + (IF held = NoLine THEN 0 ELSE 1) + 1
    BY <1>1 DEF OnTheWay
  <2>3. AtHand /\ pc # "idle" BY <1>1 DEF AtHand
  <2>4. Len(buf) + Len(m_log_queue) + (IF held = NoLine THEN 0 ELSE 1) + 1 <= max_queue_size + 2
    BY <2>3 DEF Inv, FewOnTheWay
  <2>5. Len(buf) \in Nat /\ Len(m_log_queue) \in Nat
    BY LineNumbers DEF Inv, TypeOK
  <2> DEFINE h == IF held = NoLine THEN 0 ELSE 1
  <2>6. h \in Nat OBVIOUS
  <2> HIDE DEF h
  <2>7. Len(m_log_queue) + h <= max_queue_size + 1
    BY <2>4, <2>5, <2>6, LogAssumption DEF h
  <2> QED BY <2>1, <2>2, <2>5, <2>6, <2>7 DEF h
<1> HIDE DEF n, n1, r, r1
<1>10. \A f \in Files : Len(Content(f)) \in Nat /\ f[1] \in Int /\ f[2] \in Int
  BY LengthTypes, LogAssumption DEF Files, Days
<1>11. \A f \in Files : /\ Len(Content(f)') <= Before + PerStart
                        /\ Ahead(f)' => Len(Content(f)') <= Before
  <2>1. \A f \in Files : Ahead(f)' => Ahead(f) BY <1>2, <1>6, <1>7, <1>10
  <2> QED BY <1>3, <2>1 DEF LengthInv
<1>12. m_fp' # NoFile =>
         /\ m_fp' = <<day, n1>>
         /\ Len(Content(m_fp)') + OnTheWay' <= Before + max_queue_size + 1 + r1 + 1
  <2> SUFFICES ASSUME m_fp' # NoFile
               PROVE  /\ m_fp' = <<day, n1>>
                      /\ Len(Content(m_fp)') + OnTheWay' <= Before + max_queue_size + 1 + r1 + 1
    OBVIOUS
  <2>a. Before \in Nat /\ max_queue_size \in Nat BY LengthTypes, LogAssumption
  <2>1. CASE ~Due
    <3>1. UNCHANGED m_fp /\ m_fp # NoFile BY <1>1, <2>1
    <3>2. PICK g \in Files : g = m_fp BY <3>1 DEF Inv, TypeOK
    <3>3. Len(Content(g)) + OnTheWay <= Before + max_queue_size + 1 + r + 1
      BY <1>8, <3>1, <3>2
    <3>4. Len(Content(g)) + OnTheWay' <= Before + max_queue_size + 1 + r1 + 1
      BY <1>6, <1>9, <1>10, <2>1, <2>a, <3>3
    <3>5. Content(m_fp)' = Content(g)
      <4>1. Content(m_fp)' = Content(g)' BY <3>1, <3>2 DEF Content
      <4> QED BY <1>3, <4>1
    <3> QED BY <1>6, <1>8, <2>1, <3>1, <3>4, <3>5
  <2>2. CASE Due
    <3>1. m_fp' = <<day, n1>> BY <1>1, <2>2 DEF fopen, NewName, n1
    <3>2. PICK g \in Files : g = m_fp'
      <4>1. m_fp' \in Files \cup {NoFile} BY StepInv DEF Inv, TypeOK, Next, write_log
      <4> QED BY <4>1
    <3>3. Ahead(g)
      <4>1. g[1] = day /\ g[2] = n1 BY <3>1, <3>2
      <4> QED BY <1>2, <1>6, <1>7, <2>2, <4>1
    <3>4. Len(Content(g)) <= Before BY <3>3 DEF LengthInv
    <3>5. Len(Content(g)) + OnTheWay' <= Before + max_queue_size + 1 + r1 + 1
      BY <1>6, <1>9, <1>10, <2>a, <3>4
    <3>6. Content(m_fp)' = Content(g)
      <4>1. Content(m_fp)' = Content(g)' BY <3>2 DEF Content
      <4> QED BY <1>3, <4>1
    <3> QED BY <3>1, <3>5, <3>6
  <2> QED BY <2>1, <2>2
<1>13. m_today' <= today' /\ pc' # "rotate" BY <1>1, <1>2
<1> QED BY <1>1, <1>3, <1>11, <1>12, <1>13 DEF LengthInv, n1, r1

\* A line that was on its way gets into the open file.
LEMMA LengthPut ==
  ASSUME Inv, LengthInv, m_fp # NoFile, NEW e \in Lines, buf' = Append(buf, e),
         UNCHANGED <<m_fp, files, m_today, m_count, crashes, today, stamp, lines>>,
         OnTheWay' = OnTheWay - 1, OnTheWay' \in Nat, pc' = "rotate" => pc = "rotate"
  PROVE  LengthInv'
<1>1. Before' = Before /\ PerStart' = PerStart BY DEF Before, PerStart
<1>2. \A f \in Files : (Ahead(f)' <=> Ahead(f)) BY DEF Ahead
<1>3. \A f \in Files : Content(f)' = IF f = m_fp THEN Append(Content(f), e) ELSE Content(f)
  BY PutContent
<1>4. PICK g \in Files : g = m_fp BY DEF Inv, TypeOK
<1>5. /\ g = <<m_today, m_count \div m_split_lines>>
      /\ Len(Content(g)) + OnTheWay
           <= Before + max_queue_size + 1 + (m_count % m_split_lines) + 1
  BY <1>4 DEF LengthInv
<1> DEFINE n == m_count \div m_split_lines
           r == m_count % m_split_lines
<1>6. /\ Len(Content(g)) \in Nat /\ Before \in Nat /\ r \in 0 .. m_split_lines - 1 /\ r \in Nat
      /\ OnTheWay \in Nat /\ n \in Nat /\ m_today \in Int /\ max_queue_size \in Nat
      /\ m_split_lines \in Nat /\ PerStart = m_split_lines + max_queue_size + 1
  BY LengthTypes, LogAssumption DEF PerStart
<1>7. Len(Content(g)') = Len(Content(g)) + 1
  <2>1. PICK s \in Seq(Lines) : s = Content(g) BY ContentType DEF Inv
  <2>2. Content(g)' = Append(s, e) BY <1>3, <1>4, <2>1
  <2>3. Len(Append(s, e)) = Len(s) + 1 BY AppendProperties
  <2> QED BY <2>1, <2>2, <2>3
<1>8. Content(m_fp)' = Content(g)' BY <1>4 DEF Content
<1>9. ~Ahead(g)
  <2>1. g[1] = m_today /\ g[2] = n BY <1>5
  <2> QED BY <1>6, <2>1 DEF Ahead
<1> HIDE DEF n, r
<1>10. Len(Content(g)) + OnTheWay <= Before + max_queue_size + 1 + r + 1 BY <1>5 DEF r
<1>11. /\ Len(Content(g)') + OnTheWay' <= Before + max_queue_size + 1 + r + 1
       /\ Len(Content(g)') <= Before + PerStart
  BY <1>6, <1>7, <1>10
<1>12. \A f \in Files : /\ Len(Content(f)') <= Before + PerStart
                        /\ Ahead(f) => Len(Content(f)') <= Before
  <2> SUFFICES ASSUME NEW f \in Files
               PROVE  /\ Len(Content(f)') <= Before + PerStart
                      /\ Ahead(f) => Len(Content(f)') <= Before
    OBVIOUS
  <2>1. CASE f = g BY <1>9, <1>11, <2>1
  <2>2. CASE f # g
    <3>1. Content(f)' = Content(f) BY <1>3, <1>4, <2>2
    <3> QED BY <3>1 DEF LengthInv
  <2> QED BY <2>1, <2>2
<1>13. m_today' <= today' /\ (pc' = "rotate" => m_today' <= stamp[lines]' /\ stamp[lines]' <= today')
  BY DEF LengthInv
<1> QED BY <1>1, <1>2, <1>4, <1>5, <1>8, <1>11, <1>12, <1>13 DEF LengthInv, r

LEMMA LengthPuts == ASSUME Inv, LengthInv, Put \/ PutDirect PROVE LengthInv'
<1>1. Len(m_log_queue) \in Nat BY LengthTypes
<1> DEFINE h == IF held = NoLine THEN 0 ELSE 1
           c == IF pc \in {"full", "push", "fputs"} THEN 1 ELSE 0
<1>2. OnTheWay = Len(m_log_queue) + h + c /\ h \in {0, 1} /\ c \in {0, 1} BY DEF OnTheWay
<1>3. CASE Put
  <2>1. /\ held # NoLine /\ held' = NoLine /\ m_fp # NoFile /\ buf' = Append(buf, held)
        /\ UNCHANGED <<m_fp, files, m_today, m_count, crashes, today, stamp, lines,
                       m_log_queue, pc>>
    BY <1>3 DEF Put, history
  <2>2. PICK e \in Lines : e = held BY <2>1 DEF Inv, TypeOK
  <2>3. h = 1 BY <2>1
  <2>4. OnTheWay' = Len(m_log_queue) + 0 + c BY <2>1 DEF OnTheWay
  <2> HIDE DEF h, c
  <2>5. OnTheWay' = OnTheWay - 1 /\ OnTheWay' \in Nat BY <1>1, <1>2, <2>3, <2>4
  <2> QED BY <2>1, <2>2, <2>5, LengthPut
<1>4. CASE PutDirect
  <2>1. /\ pc = "fputs" /\ pc' = "flush" /\ m_fp # NoFile /\ buf' = Append(buf, lines)
        /\ UNCHANGED <<m_fp, files, m_today, m_count, crashes, today, stamp, lines,
                       m_log_queue, held>>
    BY <1>4 DEF PutDirect, Goto
  <2>2. PICK e \in Lines : e = lines
    BY <1>4 DEF Inv, TypeOK, PutDirect, Goto, Lines
  <2>3. c = 1 BY <2>1
  <2>4. OnTheWay' = Len(m_log_queue) + h + 0 BY <2>1 DEF OnTheWay
  <2> HIDE DEF h, c
  <2>5. OnTheWay' = OnTheWay - 1 /\ OnTheWay' \in Nat BY <1>1, <1>2, <2>3, <2>4
  <2> QED BY <2>1, <2>2, <2>5, LengthPut
<1> QED BY <1>3, <1>4

\* A new start counts from 0 in whatever file of today there is.
LEMMA LengthRestart == ASSUME Inv, LengthInv, Crash \/ NullFile PROVE LengthInv'
<1>1. Restart BY DEF Crash, NullFile
<1>2. /\ crashes' = crashes + 1 /\ m_today' = today /\ m_count' = 0
      /\ m_fp' \in fopen(<<today, 0>>, crashes') /\ m_log_queue' = <<>>
      /\ pc' = "idle" /\ held' = NoLine /\ today' = today
  BY <1>1 DEF Restart
<1>3. Inv' BY RestartInv
<1>3a. \A f \in Files : Content(f)' \in Seq(Lines) /\ Len(Content(f)') \in Nat
  <2>1. \A f \in Files : Content(f)' \in Seq(Lines)
    BY <1>3, AtConcat DEF Inv, TypeOK, Content
  <2> QED BY <2>1, LineNumbers
<1>4. crashes \in Nat /\ today \in Int BY LengthTypes DEF Inv, TypeOK
<1>5. Before' = Before + PerStart /\ PerStart' = PerStart /\ PerStart \in Nat /\ Before \in Nat
      /\ max_queue_size \in Nat
  <2>1. PerStart \in Nat /\ Before \in Nat BY LengthTypes
  <2>2. \A k \in Nat : (crashes + 1) * k = crashes * k + k BY <1>4, Z3
  <2> QED BY <1>2, <2>1, <2>2, LogAssumption DEF Before, PerStart
<1>6. ASSUME NEW f \in Files PROVE Len(Content(f)') <= Before'
  <2>1. PICK s \in Seq(Lines) : s = Content(f) BY ContentType DEF Inv
  <2>2. PICK t \in Seq(Lines) : t = Content(f)' BY <1>3a
  <2>3. \A i \in DOMAIN t : i \in DOMAIN s BY <1>1, <2>1, <2>2, RestartContent
  <2>4. Len(t) <= Len(s)
    <3>1. Len(t) \in Nat /\ DOMAIN t = 1 .. Len(t) /\ Len(s) \in Nat /\ DOMAIN s = 1 .. Len(s)
      BY LineNumbers
    <3>2. Len(t) = 0 \/ Len(t) \in DOMAIN t BY <3>1
    <3> QED BY <2>3, <3>1, <3>2
  <2>5. Len(s) <= Before + PerStart BY <2>1 DEF LengthInv
  <2>6. Len(t) \in Nat /\ Len(s) \in Nat BY LineNumbers
  <2> QED BY <1>5, <2>2, <2>4, <2>5, <2>6
<1>7. m_fp' # NoFile =>
        /\ m_fp' = <<m_today', m_count' \div m_split_lines>>
        /\ Len(Content(m_fp)') + OnTheWay'
             <= Before' + max_queue_size + 1 + (m_count' % m_split_lines) + 1
  <2> SUFFICES ASSUME m_fp' # NoFile
               PROVE  /\ m_fp' = <<m_today', m_count' \div m_split_lines>>
                      /\ Len(Content(m_fp)') + OnTheWay'
                           <= Before' + max_queue_size + 1 + (m_count' % m_split_lines) + 1
    OBVIOUS
  <2>1. 0 \div m_split_lines = 0 /\ 0 % m_split_lines = 0 BY NextCount, LogAssumption
  <2>2. m_fp' = <<today, 0>> BY <1>2 DEF fopen
  <2>3. OnTheWay' = 0 BY <1>2 DEF OnTheWay
  <2>4. PICK g \in Files : g = m_fp' BY <1>3 DEF Inv, TypeOK
  <2>5. Content(m_fp)' = Content(g)' BY <2>4 DEF Content
  <2>6. Len(Content(g)') <= Before' BY <1>6
  <2>7. Len(Content(g)') \in Nat BY <1>3a
  <2>8. Len(Content(g)') + 0 <= Before' + max_queue_size + 1 + 0 + 1 BY <1>5, <2>6, <2>7
  <2> QED BY <1>2, <2>1, <2>2, <2>3, <2>5, <2>8
<1>8. \A f \in Files : Len(Content(f)') <= Before' + PerStart'
  BY <1>3a, <1>5, <1>6
<1>9. m_today' <= today' /\ pc' # "rotate" BY <1>2, <1>4
<1> QED BY <1>6, <1>7, <1>8, <1>9 DEF LengthInv

\* A file holds at most the lines of m_split_lines, of the queue and one more for each
\* start of the program, though it is changed by counting lines when they are logged and
\* not when they are put (log.cpp:93-124).
THEOREM FileIsShort == Spec => []Overshoot
<1>1. Inv /\ LengthInv /\ [Next]_lvars => LengthInv'
  <2> SUFFICES ASSUME Inv, LengthInv, [Next]_lvars PROVE LengthInv' OBVIOUS
  <2>1. CASE Midnight \/ TestFull \/ ReadClock \/ flush \/ Push \/ Pop \/ UNCHANGED lvars
    BY <2>1, LengthStay
  <2>2. CASE Rotate BY <2>2, LengthRotate
  <2>3. CASE Put \/ PutDirect BY <2>3, LengthPuts
  <2>4. CASE Crash \/ NullFile BY <2>4, LengthRestart
  <2> QED BY <2>1, <2>2, <2>3, <2>4 DEF Next, write_log, async_write_log
<1>2. ASSUME Inv, LengthInv PROVE Overshoot
  <2>1. crashes \in Nat BY <1>2 DEF Inv, TypeOK
  <2>2. PerStart \in Nat BY <1>2, LengthTypes
  <2>3. \A k \in Nat : (crashes + 1) * k = crashes * k + k BY <2>1, Z3
  <2>4. (crashes + 1) * PerStart = Before + PerStart BY <2>2, <2>3 DEF Before
  <2>5. \A f \in Files : Len(Content(f)) <= (crashes + 1) * PerStart
    BY <1>2, <2>4 DEF LengthInv
  <2> QED BY <2>5 DEF Overshoot, PerStart
<1> QED BY <1>1, <1>2, LengthInit, Always, PTL DEF Spec
=============================================================================
