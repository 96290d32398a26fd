-------------------------- MODULE HttpParserProofs --------------------------
(***************************************************************************)
(* What process_read makes of a request is what the client meant, for any  *)
(* size of m_read_buf and of the bodies, any number of requests on a       *)
(* connection and any pieces TCP cuts them into; and if a body comes in    *)
(* one piece, it does not wait for more than the request.                  *)
(***************************************************************************)
EXTENDS HttpParser, SequenceTheorems, FiniteSetTheorems, TLAPS

Units == {"CR", "LF", "GET", "POST", "other", "field", "keep-alive", "length", "body"}

\* Where the line of Content-Length and the empty line start.
LenStart(r) == 3 + (IF r.linger THEN 3 ELSE 0)
EndStart(r) == LenStart(r) + (IF r.body > 0 THEN 3 ELSE 0)

\* The units u, CR and LF are in s from position i on.
LineIn(s, i, u) == i + 2 <= Len(s) /\ s[i] = u /\ s[i + 1] = "CR" /\ s[i + 2] = "LF"

\* What is where in the bytes of a request.
Shape(r, b) ==
  /\ r.body <= Len(b)
  /\ LineIn(b, 1, r.method)
  /\ r.torn => 5 <= Len(b) /\ b[4] = "CR" /\ b[5] = "field"
  /\ ~r.torn =>
       /\ r.linger => LineIn(b, 4, "keep-alive")
       /\ r.body > 0 => LineIn(b, LenStart(r) + 1, "length")
       /\ b[EndStart(r) + 1] = "CR" /\ b[EndStart(r) + 2] = "LF"
       /\ Len(b) = EndStart(r) + 2 + r.body
       /\ \A i \in EndStart(r) + 3 .. Len(b) : b[i] = "body"

-----------------------------------------------------------------------------
\* A concatenation has both sequences in it.
LEMMA Concat ==
  ASSUME NEW s \in Seq(Units), NEW t \in Seq(Units)
  PROVE  /\ s \o t \in Seq(Units)
         /\ Len(s \o t) = Len(s) + Len(t)
         /\ \A i \in 1 .. Len(s) : (s \o t)[i] = s[i]
         /\ \A i \in 1 .. Len(t) : (s \o t)[Len(s) + i] = t[i]
<1>1. Len(s) \in Nat /\ Len(t) \in Nat
  BY LenProperties
<1> DEFINE u == s \o t
<1>2. /\ u \in Seq(Units) /\ Len(u) = Len(s) + Len(t)
      /\ \A i \in 1 .. Len(s) + Len(t) : u[i] = IF i <= Len(s) THEN s[i] ELSE t[i - Len(s)]
  BY ConcatProperties
<1> HIDE DEF u
<1>3. ASSUME NEW i \in 1 .. Len(t)
      PROVE  u[Len(s) + i] = t[i]
  <2>1. /\ Len(s) + i \in 1 .. Len(s) + Len(t) /\ ~(Len(s) + i <= Len(s))
        /\ (Len(s) + i) - Len(s) = i
    BY <1>1
  <2> QED BY <2>1, <1>2
<1>4. \A i \in 1 .. Len(s) : u[i] = s[i]
  BY <1>1, <1>2
<1> QED BY <1>2, <1>3, <1>4 DEF u

LEMMA CRLFUnits == CRLF \in Seq(Units) /\ Len(CRLF) = 2 /\ CRLF[1] = "CR" /\ CRLF[2] = "LF"
  BY DEF CRLF, Units

LEMMA LineUnits ==
  ASSUME NEW u \in Units
  PROVE  Line(u) \in Seq(Units) /\ Len(Line(u)) = 3 /\ LineIn(Line(u), 1, u)
<1> DEFINE s == <<u>>
<1>1. s \in Seq(Units) /\ Len(s) = 1 /\ s[1] = u
  OBVIOUS
<1> HIDE DEF s
<1>2. /\ s \o CRLF \in Seq(Units) /\ Len(s \o CRLF) = 3
      /\ (s \o CRLF)[1] = u /\ (s \o CRLF)[2] = "CR" /\ (s \o CRLF)[3] = "LF"
  <2>1. /\ s \o CRLF \in Seq(Units)
        /\ Len(s \o CRLF) = Len(s) + Len(CRLF)
        /\ \A i \in 1 .. Len(s) : (s \o CRLF)[i] = s[i]
        /\ \A i \in 1 .. Len(CRLF) : (s \o CRLF)[Len(s) + i] = CRLF[i]
    BY <1>1, CRLFUnits, Concat
  <2> HIDE DEF s
  <2>2. 1 \in 1 .. Len(s) /\ 1 \in 1 .. Len(CRLF) /\ 2 \in 1 .. Len(CRLF)
    BY <1>1, CRLFUnits
  <2>3. Len(s) + 1 = 2 /\ Len(s) + 2 = 3 /\ Len(s) + Len(CRLF) = 3
    BY <1>1, CRLFUnits
  <2> QED BY <2>1, <2>2, <2>3, <1>1, CRLFUnits
<1>3. Line(u) = s \o CRLF
  BY DEF Line, s
<1> QED BY <1>2, <1>3 DEF LineIn

\* The bytes of a request are units, and each is where Shape has it.
LEMMA BytesShape ==
  ASSUME NEW r \in Requests
  PROVE  Bytes(r) \in Seq(Units) /\ Shape(r, Bytes(r))
<1>1. /\ r.method \in {"GET", "POST", "other"} /\ r.linger \in BOOLEAN /\ r.torn \in BOOLEAN
      /\ r.body \in Nat
  BY ParserAssumption DEF Requests
<1> DEFINE M == Line(r.method)
           fld == <<"CR", "field">>
           T == If(r.torn, fld \o CRLF)
           K == If(r.linger, Line("keep-alive"))
           L == If(r.body > 0, Line("length"))
           B == BodyOf(r)
<1>2. Bytes(r) = ((((M \o T) \o K) \o L) \o CRLF) \o B
  BY DEF Bytes, HeaderOf
<1>e. <<>> \in Seq(Units) /\ Len(<<>>) = 0
  BY EmptySeq
<1>m. M \in Seq(Units) /\ Len(M) = 3 /\ M[1] = r.method /\ M[2] = "CR" /\ M[3] = "LF"
  <2>1. r.method \in Units
    BY <1>1 DEF Units
  <2> QED BY <2>1, LineUnits DEF LineIn
<1>f. fld \in Seq(Units) /\ Len(fld) = 2 /\ fld[1] = "CR" /\ fld[2] = "field"
  BY DEF Units
<1>t. /\ T \in Seq(Units)
      /\ IF r.torn THEN Len(T) = 4 /\ T[1] = "CR" /\ T[2] = "field" ELSE Len(T) = 0
  <2> HIDE DEF fld
  <2>1. CASE r.torn
    <3>1. T = fld \o CRLF
      BY <2>1 DEF If
    <3> HIDE DEF T
    <3>2. /\ fld \o CRLF \in Seq(Units) /\ Len(fld \o CRLF) = Len(fld) + Len(CRLF)
          /\ \A i \in 1 .. Len(fld) : (fld \o CRLF)[i] = fld[i]
      BY <1>f, CRLFUnits, Concat
    <3>3. 1 \in 1 .. Len(fld) /\ 2 \in 1 .. Len(fld) /\ Len(fld) + Len(CRLF) = 4
      BY <1>f, CRLFUnits
    <3> QED BY <2>1, <3>1, <3>2, <3>3, <1>f
  <2>2. CASE ~r.torn
    <3>1. T = <<>>
      BY <2>2 DEF If
    <3> QED BY <2>2, <3>1, <1>e
  <2> QED BY <2>1, <2>2
<1>k. /\ K \in Seq(Units)
      /\ IF r.linger THEN Len(K) = 3 /\ K[1] = "keep-alive" /\ K[2] = "CR" /\ K[3] = "LF"
                     ELSE Len(K) = 0
  <2>1. "keep-alive" \in Units
    BY DEF Units
  <2>2. CASE r.linger
    <3>1. K = Line("keep-alive")
      BY <2>2 DEF If
    <3> HIDE DEF K
    <3> QED BY <2>1, <2>2, <3>1, LineUnits DEF LineIn
  <2>3. CASE ~r.linger
    <3>1. K = <<>>
      BY <2>3 DEF If
    <3> QED BY <2>3, <3>1, <1>e
  <2> QED BY <2>2, <2>3
<1>l. /\ L \in Seq(Units)
      /\ IF r.body > 0 THEN Len(L) = 3 /\ L[1] = "length" /\ L[2] = "CR" /\ L[3] = "LF"
                       ELSE Len(L) = 0
  <2>1. "length" \in Units
    BY DEF Units
  <2>2. CASE r.body > 0
    <3>1. L = Line("length")
      BY <2>2 DEF If
    <3> HIDE DEF L
    <3> QED BY <2>1, <2>2, <3>1, LineUnits DEF LineIn
  <2>3. CASE ~(r.body > 0)
    <3>1. L = <<>>
      BY <2>3 DEF If
    <3> QED BY <2>3, <3>1, <1>e
  <2> QED BY <2>2, <2>3
<1>b. B \in Seq(Units) /\ Len(B) = r.body /\ \A i \in 1 .. r.body : B[i] = "body"
  BY <1>1 DEF BodyOf, Units
<1> HIDE DEF M, T, K, L, B
<1>3. /\ M \o T \in Seq(Units) /\ Len(M \o T) = 3 + Len(T)
      /\ \A i \in 1 .. 3 : (M \o T)[i] = M[i]
      /\ \A i \in 1 .. Len(T) : (M \o T)[3 + i] = T[i]
  <2>1. /\ M \o T \in Seq(Units) /\ Len(M \o T) = Len(M) + Len(T)
        /\ \A i \in 1 .. Len(M) : (M \o T)[i] = M[i]
        /\ \A i \in 1 .. Len(T) : (M \o T)[Len(M) + i] = T[i]
    BY <1>m, <1>t, Concat
  <2> QED BY <2>1, <1>m
<1> DEFINE s1 == M \o T
<1> HIDE DEF s1
<1>4. /\ s1 \o K \in Seq(Units) /\ Len(s1 \o K) = Len(s1) + Len(K)
      /\ \A i \in 1 .. Len(s1) : (s1 \o K)[i] = s1[i]
      /\ \A i \in 1 .. Len(K) : (s1 \o K)[Len(s1) + i] = K[i]
  BY <1>3, <1>k, Concat DEF s1
<1> DEFINE s2 == s1 \o K
<1> HIDE DEF s2
<1>5. /\ s2 \o L \in Seq(Units) /\ Len(s2 \o L) = Len(s2) + Len(L)
      /\ \A i \in 1 .. Len(s2) : (s2 \o L)[i] = s2[i]
      /\ \A i \in 1 .. Len(L) : (s2 \o L)[Len(s2) + i] = L[i]
  BY <1>4, <1>l, Concat DEF s2
<1> DEFINE s3 == s2 \o L
<1> HIDE DEF s3
<1>6. /\ s3 \o CRLF \in Seq(Units) /\ Len(s3 \o CRLF) = Len(s3) + Len(CRLF)
      /\ \A i \in 1 .. Len(s3) : (s3 \o CRLF)[i] = s3[i]
      /\ \A i \in 1 .. Len(CRLF) : (s3 \o CRLF)[Len(s3) + i] = CRLF[i]
  BY <1>5, CRLFUnits, Concat DEF s3
<1> DEFINE s4 == s3 \o CRLF
<1> HIDE DEF s4
<1>7. /\ s4 \o B \in Seq(Units) /\ Len(s4 \o B) = Len(s4) + Len(B)
      /\ \A i \in 1 .. Len(s4) : (s4 \o B)[i] = s4[i]
      /\ \A i \in 1 .. Len(B) : (s4 \o B)[Len(s4) + i] = B[i]
  BY <1>6, <1>b, Concat DEF s4
<1> DEFINE s5 == s4 \o B
<1> HIDE DEF s5
<1>8. Bytes(r) = s5
  BY <1>2 DEF s1, s2, s3, s4, s5
\* The parts, each at its place.
<1>9. /\ s1 \in Seq(Units) /\ Len(s1) = 3 + Len(T)
      /\ \A i \in 1 .. 3 : s1[i] = M[i]
      /\ \A i \in 1 .. Len(T) : s1[3 + i] = T[i]
  BY <1>3 DEF s1
<1>10. /\ s2 \in Seq(Units) /\ Len(s2) = Len(s1) + Len(K)
       /\ \A i \in 1 .. Len(s1) : s2[i] = s1[i]
       /\ \A i \in 1 .. Len(K) : s2[Len(s1) + i] = K[i]
  BY <1>4 DEF s2
<1>11. /\ s3 \in Seq(Units) /\ Len(s3) = Len(s2) + Len(L)
       /\ \A i \in 1 .. Len(s2) : s3[i] = s2[i]
       /\ \A i \in 1 .. Len(L) : s3[Len(s2) + i] = L[i]
  BY <1>5 DEF s3
<1>12. /\ s4 \in Seq(Units) /\ Len(s4) = Len(s3) + Len(CRLF)
       /\ \A i \in 1 .. Len(s3) : s4[i] = s3[i]
       /\ \A i \in 1 .. Len(CRLF) : s4[Len(s3) + i] = CRLF[i]
  BY <1>6 DEF s4
<1>13. /\ s5 \in Seq(Units) /\ Len(s5) = Len(s4) + Len(B)
       /\ \A i \in 1 .. Len(s4) : s5[i] = s4[i]
       /\ \A i \in 1 .. Len(B) : s5[Len(s4) + i] = B[i]
  BY <1>7 DEF s5
<1>14. /\ Len(s1) \in Nat /\ Len(s2) \in Nat /\ Len(s3) \in Nat /\ Len(s4) \in Nat
       /\ Len(s5) \in Nat /\ Len(T) \in Nat /\ Len(K) \in Nat /\ Len(L) \in Nat
       /\ Len(s1) <= Len(s2) /\ Len(s2) <= Len(s3) /\ Len(s3) <= Len(s4) /\ Len(s4) <= Len(s5)
  <2>1. /\ Len(T) \in Nat /\ Len(K) \in Nat /\ Len(L) \in Nat /\ Len(B) \in Nat
        /\ Len(CRLF) \in Nat
    BY <1>t, <1>k, <1>l, <1>b, CRLFUnits, LenProperties
  <2>2. /\ Len(s1) = 3 + Len(T) /\ Len(s2) = Len(s1) + Len(K) /\ Len(s3) = Len(s2) + Len(L)
        /\ Len(s4) = Len(s3) + Len(CRLF) /\ Len(s5) = Len(s4) + Len(B)
    BY <1>9, <1>10, <1>11, <1>12, <1>13
  <2> QED BY <2>1, <2>2
<1>15. /\ \A i \in 1 .. Len(s1) : s5[i] = s1[i]
       /\ \A i \in 1 .. Len(s2) : s5[i] = s2[i]
       /\ \A i \in 1 .. Len(s3) : s5[i] = s3[i]
  <2>1. /\ \A i \in 1 .. Len(s3) : i \in 1 .. Len(s4)
        /\ \A i \in 1 .. Len(s2) : i \in 1 .. Len(s3)
        /\ \A i \in 1 .. Len(s1) : i \in 1 .. Len(s2)
    BY <1>14
  <2>2. \A i \in 1 .. Len(s3) : s5[i] = s3[i]
    BY <2>1, <1>12, <1>13
  <2>3. \A i \in 1 .. Len(s2) : s5[i] = s2[i]
    BY <2>1, <2>2, <1>11
  <2>4. \A i \in 1 .. Len(s1) : s5[i] = s1[i]
    BY <2>1, <2>3, <1>10
  <2> QED BY <2>2, <2>3, <2>4
<1>16. LineIn(s5, 1, r.method)
  BY <1>9, <1>14, <1>15, <1>m DEF LineIn
<1>17. ASSUME r.torn
       PROVE  5 <= Len(s5) /\ s5[4] = "CR" /\ s5[5] = "field"
  <2>1. /\ 4 \in 1 .. Len(s1) /\ 5 \in 1 .. Len(s1) /\ 1 \in 1 .. Len(T) /\ 2 \in 1 .. Len(T)
        /\ 3 + 1 = 4 /\ 3 + 2 = 5
    BY <1>17, <1>t, <1>9
  <2>2. s1[3 + 1] = T[1] /\ s1[3 + 2] = T[2]
    BY <2>1, <1>9
  <2> QED BY <1>17, <2>1, <2>2, <1>t, <1>14, <1>15
<1>18. ASSUME ~r.torn
       PROVE  /\ r.linger => LineIn(s5, 4, "keep-alive")
              /\ r.body > 0 => LineIn(s5, LenStart(r) + 1, "length")
              /\ s5[EndStart(r) + 1] = "CR" /\ s5[EndStart(r) + 2] = "LF"
              /\ Len(s5) = EndStart(r) + 2 + r.body
              /\ \A i \in EndStart(r) + 3 .. Len(s5) : s5[i] = "body"
  <2>1. Len(s1) = 3 /\ Len(s2) = LenStart(r) /\ Len(s3) = EndStart(r)
    <3>1. Len(s1) = 3
      BY <1>18, <1>t, <1>9
    <3>2. Len(K) = IF r.linger THEN 3 ELSE 0
      BY <1>k
    <3>3. Len(L) = IF r.body > 0 THEN 3 ELSE 0
      BY <1>l
    <3>4. Len(s2) = Len(s1) + Len(K) /\ Len(s3) = Len(s2) + Len(L)
      BY <1>10, <1>11
    <3> QED BY <3>1, <3>2, <3>3, <3>4 DEF LenStart, EndStart
  <2>2. Len(s4) = EndStart(r) + 2 /\ Len(s5) = EndStart(r) + 2 + r.body
    BY <2>1, <1>12, <1>13, <1>b, CRLFUnits
  <2>3. ASSUME r.linger
        PROVE  LineIn(s5, 4, "keep-alive")
    <3>0. Len(s1) = 3 /\ Len(K) = 3 /\ Len(s2) = 6
      <4>1. Len(s1) = 3
        BY <2>1
      <4>2. Len(K) = 3
        BY <2>3, <1>k
      <4>3. Len(s2) = Len(s1) + Len(K)
        BY <1>10
      <4> QED BY <4>1, <4>2, <4>3
    <3>1. /\ \A i \in 1 .. 3 : i \in 1 .. Len(K) /\ 3 + i \in 1 .. Len(s2)
          /\ 3 + 1 = 4 /\ 3 + 2 = 5 /\ 3 + 3 = 6 /\ 6 <= Len(s2)
      BY <3>0
    <3>2. \A i \in 1 .. 3 : s5[3 + i] = K[i]
      BY <3>1, <2>1, <1>10, <1>15
    <3>3. s5[4] = K[1] /\ s5[5] = K[2] /\ s5[6] = K[3]
      BY <3>1, <3>2
    <3>4. 6 <= Len(s5)
      BY <3>1, <1>14
    <3> QED BY <2>3, <3>3, <3>4, <1>k DEF LineIn
  <2>4. ASSUME r.body > 0
        PROVE  LineIn(s5, LenStart(r) + 1, "length")
    <3> DEFINE h == LenStart(r)
    <3>1. h \in Nat /\ Len(s2) = h /\ Len(L) = 3 /\ Len(s3) = h + 3
      BY <2>1, <2>4, <1>14, <1>l, <1>11
    <3> HIDE DEF h
    <3>2. \A i \in 1 .. 3 : i \in 1 .. Len(L) /\ h + i \in 1 .. Len(s3)
      BY <3>1
    <3>3. \A i \in 1 .. 3 : s5[h + i] = L[i]
      BY <3>1, <3>2, <1>11, <1>15
    <3>4. s5[h + 1] = L[1] /\ s5[h + 2] = L[2] /\ s5[h + 3] = L[3]
      BY <3>3
    <3>5. (h + 1) + 1 = h + 2 /\ (h + 1) + 2 = h + 3 /\ h + 3 <= Len(s5)
      BY <3>1, <1>14
    <3>6. LineIn(s5, h + 1, "length")
      BY <2>4, <3>4, <3>5, <1>l DEF LineIn
    <3> QED BY <3>6 DEF h
  <2>5. s5[EndStart(r) + 1] = "CR" /\ s5[EndStart(r) + 2] = "LF"
    <3> DEFINE h == EndStart(r)
    <3>1. h \in Nat /\ Len(s3) = h /\ Len(s4) = h + 2
      BY <2>1, <2>2, <1>14
    <3> HIDE DEF h
    <3>2. /\ 1 \in 1 .. Len(CRLF) /\ 2 \in 1 .. Len(CRLF)
          /\ h + 1 \in 1 .. Len(s4) /\ h + 2 \in 1 .. Len(s4)
      BY <3>1, CRLFUnits
    <3>3. s5[h + 1] = CRLF[1] /\ s5[h + 2] = CRLF[2]
      BY <3>1, <3>2, <1>12, <1>13
    <3> QED BY <3>3, CRLFUnits DEF h
  <2>6. ASSUME NEW i \in EndStart(r) + 3 .. Len(s5)
        PROVE  s5[i] = "body"
    <3> DEFINE j == i - Len(s4)
    <3>1. j \in 1 .. Len(B) /\ Len(s4) + j = i /\ Len(B) = r.body
      <4>1. Len(s4) \in Nat /\ Len(s5) \in Nat /\ Len(B) = r.body /\ r.body \in Nat
        BY <1>1, <1>14, <1>b
      <4>2. Len(s4) = EndStart(r) + 2 /\ Len(s5) = Len(s4) + r.body
        BY <1>13, <1>b, <2>2
      <4>3. EndStart(r) \in Nat
        BY <1>1 DEF EndStart, LenStart
      <4> HIDE DEF j
      <4>4. i \in Int /\ i >= Len(s4) + 1 /\ i <= Len(s4) + r.body
        BY <4>1, <4>2, <4>3
      <4> QED BY <4>1, <4>4 DEF j
    <3>2. s5[Len(s4) + j] = B[j]
      BY <3>1, <1>13
    <3> HIDE DEF j
    <3> QED BY <3>1, <3>2, <1>b
  <2> QED BY <2>2, <2>3, <2>4, <2>5, <2>6
<1>19. s5 \in Seq(Units)
  BY <1>13
<1> HIDE DEF s5
<1>20. r.body <= Len(s5)
  <2>1. Len(s5) = Len(s4) + r.body
    BY <1>13, <1>b
  <2> QED BY <2>1, <1>1, <1>14
<1>21. Shape(r, s5)
  BY <1>16, <1>17, <1>18, <1>20 DEF Shape
<1> QED BY <1>8, <1>19, <1>21

-----------------------------------------------------------------------------
\* The least element of a set of numbers.
LEMMA LeastNat ==
  ASSUME NEW S \in SUBSET Nat, S # {}
  PROVE  \E m \in S : \A k \in S : m <= k
<1> DEFINE Below == {0 .. k : k \in S}
<1>1. Below \subseteq FiniteSubsetsOf(Nat)
  <2> SUFFICES ASSUME NEW k \in S PROVE 0 .. k \in FiniteSubsetsOf(Nat)
    OBVIOUS
  <2>1. IsFiniteSet(0 .. k)
    BY FS_Interval
  <2>2. 0 .. k \in SUBSET Nat
    OBVIOUS
  <2> QED BY <2>1, <2>2 DEF FiniteSubsetsOf
<1>2. Below # {}
  OBVIOUS
<1> HIDE DEF Below
<1>3. PICK B \in Below : \A C \in Below : <<C, B>> \notin StrictSubsetOrdering(Nat)
  BY <1>1, <1>2, FS_StrictSubsetOrderingWellFounded, WFMin
<1>4. PICK m \in S : B = 0 .. m
  BY DEF Below
<1>5. ASSUME NEW k \in S, k < m
      PROVE  FALSE
  <2>1. 0 .. k \in Below
    BY DEF Below
  <2>2. /\ 0 .. k \in SUBSET Nat /\ 0 .. m \in SUBSET Nat
        /\ 0 .. k \subseteq 0 .. m /\ m \in 0 .. m /\ m \notin 0 .. k
    BY <1>5
  <2>3. <<0 .. k, 0 .. m>> \in StrictSubsetOrdering(Nat)
    BY <2>2 DEF StrictSubsetOrdering
  <2> QED BY <2>1, <2>3, <1>3, <1>4
<1> QED BY <1>5

\* The buffer and the network hold units.
Stored == m_read_buf \in Seq(Units) /\ stream \in Seq(Units)
Types == TypeOK /\ Stored

\* parse_line stops at the first CR or LF.
LEMMA FirstEndIs ==
  ASSUME Types, Ends # {}
  PROVE  FirstEnd \in Ends /\ \A j \in Ends : FirstEnd <= j
<1>1. m_read_idx \in Nat /\ m_checked_idx \in Nat
  BY LenProperties DEF Types, TypeOK, Stored, m_read_idx
<1>2. Ends \in SUBSET Nat
  BY <1>1 DEF Ends
<1>3. \E i \in Ends : \A j \in Ends : i <= j
  BY <1>2, LeastNat
<1> QED BY <1>3 DEF FirstEnd

\* parse_line only goes forward, within what has been read.
LEMMA ParseLineType ==
  ASSUME Types
  PROVE  /\ parse_line.status \in {"OK", "OPEN", "BAD"}
         /\ parse_line.idx \in m_checked_idx .. m_read_idx
<1>1. m_read_idx \in Nat /\ m_checked_idx \in 0 .. m_read_idx
  BY LenProperties DEF Types, TypeOK, Stored, m_read_idx
<1>2. CASE Ends = {}
  <2>1. parse_line = [status |-> "OPEN", idx |-> m_read_idx, end |-> m_read_idx]
    BY <1>2 DEF parse_line
  <2> QED BY <1>1, <2>1
<1>3. CASE Ends # {}
  <2>1. PICK i : i = FirstEnd
    OBVIOUS
  <2>2. i \in m_checked_idx .. m_read_idx - 1
    BY <1>3, <2>1, FirstEndIs DEF Ends
  <2>3. \/ parse_line = [status |-> "OK", idx |-> i + 1, end |-> i - 1]
        \/ parse_line = [status |-> "BAD", idx |-> i, end |-> i]
        \/ parse_line = [status |-> "OPEN", idx |-> i, end |-> i]
        \/ i + 1 # m_read_idx /\ parse_line = [status |-> "OK", idx |-> i + 2, end |-> i]
    BY <1>3, <2>1 DEF parse_line
  <2> QED BY <1>1, <2>2, <2>3
<1> QED BY <1>2, <1>3

-----------------------------------------------------------------------------
\* The bytes of a request are a sequence of units with a length.
LEMMA BytesUnits ==
  ASSUME NEW r \in Requests
  PROVE  Bytes(r) \in Seq(Units) /\ Len(Bytes(r)) \in Nat
  BY BytesShape, LenProperties

LEMMA InitTypes == Init => Types
<1> SUFFICES ASSUME Init PROVE Types
  OBVIOUS
<1>1. m_read_buf \in Seq(Units) /\ stream \in Seq(Units) /\ Len(m_read_buf) = 0 /\ Len(stream) = 0
  BY EmptySeq DEF Init
<1>2. request \in Requests
  BY ParserAssumption DEF Init, Requests
<1>3. Len(Bytes(request)) \in Nat
  BY <1>2, BytesUnits
<1>4. m_read_idx = 0 /\ m_checked_idx = 0 /\ m_start_line = 0 /\ m_content_length = 0
  BY <1>1 DEF Init, m_read_idx
<1>5. /\ pc = "idle" /\ count = 0 /\ m_check_state = "REQUESTLINE" /\ line_status = "OK"
      /\ cgi = 0 /\ m_linger = FALSE /\ verdict = "NO_REQUEST"
  BY DEF Init
<1>6. TypeOK
  <2>1. Len(stream) <= Len(Bytes(request))
    BY <1>1, <1>3
  <2>2. m_read_idx < READ_BUFFER_SIZE
    BY <1>4, ParserAssumption
  <2>3. /\ m_checked_idx \in 0 .. m_read_idx /\ m_start_line \in 0 .. m_checked_idx
        /\ m_content_length \in 0 .. MaxBody /\ count \in 0 .. MaxRequests
    BY <1>4, <1>5, ParserAssumption
  <2> QED BY <1>2, <1>5, <2>1, <2>2, <2>3 DEF TypeOK
<1> QED BY <1>1, <1>6 DEF Types, Stored

\* What recv leaves is a piece of what there was, and so is what it gets.
LEMMA DeliversPiece ==
  ASSUME Types, NEW n \in 1 .. Len(stream), Delivers(n)
  PROVE  /\ stream' \in Seq(Units) /\ Len(stream') = Len(stream) - n
         /\ \A i \in 1 .. Len(stream) - n : stream'[i] = stream[n + i]
         /\ SubSeq(stream, 1, n) \in Seq(Units) /\ Len(SubSeq(stream, 1, n)) = n
         /\ \A i \in 1 .. n : SubSeq(stream, 1, n)[i] = stream[i]
<1>1. stream \in Seq(Units) /\ Len(stream) \in Nat /\ n \in Nat /\ n <= Len(stream)
  BY LenProperties DEF Types, Stored
<1>2. \A i \in 1 .. Len(stream) : stream[i] \in Units
  BY <1>1, ElementOfSeq
<1> DEFINE k == Len(stream)
<1>3. k \in Nat /\ n \in 1 .. k
  BY <1>1
<1>4. \A i \in 1 .. n : stream[i] \in Units
  BY <1>2, <1>3
<1>5. \A i \in n + 1 .. k : stream[i] \in Units
  BY <1>2, <1>3
<1> HIDE DEF k
<1>6. /\ SubSeq(stream, 1, n) \in Seq(Units)
      /\ Len(SubSeq(stream, 1, n)) = IF 1 <= n THEN n - 1 + 1 ELSE 0
      /\ \A i \in 1 .. n - 1 + 1 : SubSeq(stream, 1, n)[i] = stream[1 + i - 1]
  BY <1>1, <1>4, SubSeqProperties
<1>7. /\ SubSeq(stream, n + 1, k) \in Seq(Units)
      /\ Len(SubSeq(stream, n + 1, k)) = IF n + 1 <= k THEN k - (n + 1) + 1 ELSE 0
      /\ \A i \in 1 .. k - (n + 1) + 1 : SubSeq(stream, n + 1, k)[i] = stream[(n + 1) + i - 1]
  <2>1. n + 1 \in Int /\ k \in Int
    BY <1>3
  <2> QED BY <2>1, <1>5, SubSeqProperties
<1>8. stream' = SubSeq(stream, n + 1, k)
  BY DEF Delivers, k
<1>9. /\ n - 1 + 1 = n /\ 1 <= n /\ \A i \in 1 .. n : 1 + i - 1 = i
      /\ k - (n + 1) + 1 = k - n /\ (~(n + 1 <= k) => k - n = 0)
      /\ \A i \in 1 .. k - n : (n + 1) + i - 1 = n + i
  BY <1>3
<1>10. /\ stream' \in Seq(Units) /\ Len(stream') = k - n
       /\ \A i \in 1 .. k - n : stream'[i] = stream[n + i]
  BY <1>7, <1>8, <1>9
<1>11. /\ Len(SubSeq(stream, 1, n)) = n
       /\ \A i \in 1 .. n : SubSeq(stream, 1, n)[i] = stream[i]
  BY <1>6, <1>9
<1> QED BY <1>6, <1>10, <1>11 DEF k

\* What a read leaves in the buffer.
LEMMA ReadBuffer ==
  ASSUME Types, NEW n \in 1 .. Len(stream), Read(n)
  PROVE  /\ m_read_buf' \in Seq(Units) /\ Len(m_read_buf') = Len(m_read_buf) + n
         /\ \A i \in 1 .. Len(m_read_buf) : m_read_buf'[i] = m_read_buf[i]
         /\ \A i \in 1 .. n : m_read_buf'[Len(m_read_buf) + i] = stream[i]
<1>1. /\ SubSeq(stream, 1, n) \in Seq(Units) /\ Len(SubSeq(stream, 1, n)) = n
      /\ \A i \in 1 .. n : SubSeq(stream, 1, n)[i] = stream[i]
  BY DeliversPiece DEF Read
<1>2. m_read_buf \in Seq(Units)
  BY DEF Types, Stored
<1>3. m_read_buf' = m_read_buf \o SubSeq(stream, 1, n)
  BY DEF Read
<1> QED BY <1>1, <1>2, <1>3, Concat

LEMMA StepTypes == Types /\ [Next]_hvars => Types'
<1> SUFFICES ASSUME Types, [Next]_hvars PROVE Types'
  OBVIOUS
<1> USE ParserAssumption
<1>0. /\ m_read_idx \in Nat /\ Len(stream) \in Nat /\ request \in Requests
      /\ Len(Bytes(request)) \in Nat /\ request.body \in 0 .. MaxBody
  <2>1. request \in Requests
    BY DEF Types, TypeOK
  <2>2. request.body \in 0 .. MaxBody
    BY <2>1 DEF Requests
  <2> QED BY <2>1, <2>2, BytesUnits, LenProperties DEF Types, Stored, m_read_idx
<1>1. ASSUME NEW r \in Requests, Send(r)
      PROVE  Types'
  <2>1. Bytes(r) \in Seq(Units) /\ Len(Bytes(r)) \in Nat
    BY BytesUnits
  <2> QED BY <1>1, <2>1 DEF Send, Types, TypeOK, Stored, bufVars, fieldVars, m_read_idx
<1>2. ASSUME NEW n \in 1 .. Len(stream), Read(n)
      PROVE  Types'
  <2>1. stream' \in Seq(Units) /\ Len(stream') = Len(stream) - n
    BY <1>2, DeliversPiece DEF Read
  <2>2. m_read_buf' \in Seq(Units) /\ Len(m_read_buf') = Len(m_read_buf) + n
    BY <1>2, ReadBuffer
  <2> QED BY <1>0, <1>2, <2>1, <2>2 DEF Read, Types, TypeOK, Stored, fieldVars, m_read_idx
<1>3. ASSUME NEW n \in 1 .. Len(stream), ReadFull(n)
      PROVE  Types'
  <2>1. stream' \in Seq(Units) /\ Len(stream') = Len(stream) - n
    BY <1>3, DeliversPiece DEF ReadFull
  <2> QED BY <1>0, <1>3, <2>1
      DEF ReadFull, Types, TypeOK, Stored, bufVars, fieldVars, m_read_idx
<1>4. /\ parse_line.status \in {"OK", "OPEN", "BAD"}
      /\ parse_line.idx \in m_checked_idx .. m_read_idx
  BY ParseLineType
<1>5. PICK p : p = parse_line
  OBVIOUS
<1>6. CASE NoLine
  BY <1>0, <1>4, <1>5, <1>6 DEF NoLine, Types, TypeOK, Stored, fieldVars, m_read_idx
<1>7. CASE parse_request_line
  BY <1>0, <1>4, <1>5, <1>7
     DEF parse_request_line, NextLine, Return, GoOn, Types, TypeOK, Stored, m_read_idx
<1>8. CASE parse_headers
  <2>1. m_linger' \in BOOLEAN /\ m_content_length' \in 0 .. MaxBody
    BY <1>0, <1>8 DEF parse_headers, Types, TypeOK
  <2>2. /\ pc' \in {pc, "answer"} /\ verdict' \in {verdict, "GET_REQUEST"}
        /\ m_check_state' \in {m_check_state, "CONTENT"}
    BY <1>8 DEF parse_headers, Return, GoOn
  <2>3. /\ m_checked_idx' = parse_line.idx /\ m_start_line' = parse_line.idx
        /\ line_status' = "OK" /\ UNCHANGED <<m_read_buf, request, count, stream, cgi, m_string>>
    BY <1>8 DEF parse_headers, NextLine
  <2> QED BY <1>0, <1>4, <2>1, <2>2, <2>3 DEF Types, TypeOK, Stored, m_read_idx
<1>9. CASE parse_content
  BY <1>0, <1>9 DEF parse_content, Return, GoOn, Types, TypeOK, Stored, m_read_idx
<1>10. CASE Answer
  <2>1. <<>> \in Seq(Units) /\ Len(<<>>) = 0
    BY EmptySeq
  <2>2. CASE m_linger /\ init /\ pc' = "idle"
    <3>1. m_read_buf' \in Seq(Units) /\ m_read_idx' = 0
      BY <2>1, <2>2 DEF init, m_read_idx
    <3>2. /\ m_checked_idx' = 0 /\ m_start_line' = 0 /\ m_check_state' = "REQUESTLINE"
          /\ m_linger' = FALSE /\ m_content_length' = 0 /\ cgi' = 0
      BY <2>2 DEF init
    <3>3. UNCHANGED <<request, count, stream, line_status>> /\ verdict' = "NO_REQUEST"
      BY <1>10 DEF Answer
    <3>4. /\ Len(stream') <= Len(Bytes(request')) /\ request' \in Requests
          /\ count' \in 0 .. MaxRequests /\ line_status' \in {"OK", "OPEN", "BAD"}
          /\ stream' \in Seq(Units)
      BY <3>3 DEF Types, TypeOK, Stored
    <3>5. /\ m_read_idx' < READ_BUFFER_SIZE /\ m_checked_idx' \in 0 .. m_read_idx'
          /\ m_start_line' \in 0 .. m_checked_idx' /\ m_content_length' \in 0 .. MaxBody
      BY <3>1, <3>2
    <3>6. TypeOK'
      BY <2>2, <3>2, <3>3, <3>4, <3>5 DEF TypeOK
    <3> QED BY <3>1, <3>4, <3>6 DEF Types, Stored
  <2>3. CASE ~m_linger /\ pc' = "closed" /\ UNCHANGED <<bufVars, m_check_state, fieldVars>>
    BY <1>0, <1>10, <2>3 DEF Answer, Types, TypeOK, Stored, bufVars, fieldVars, m_read_idx
  <2> QED BY <1>10, <2>2, <2>3 DEF Answer
<1>11. CASE UNCHANGED hvars
  BY <1>11 DEF hvars, bufVars, fieldVars, Types, TypeOK, Stored, m_read_idx
<1> QED BY <1>1, <1>2, <1>3, <1>6, <1>7, <1>8, <1>9, <1>10, <1>11
    DEF Next, read, process_read

\* The indices of the scanner stay within what read() has put into m_read_buf,
\* which never fills up, and the fields keep their types, whatever is sent and
\* however it is cut up (http_conn.cpp:129-180, 183-199, 207-358).
THEOREM ScannerInBounds == Spec => []TypeOK
<1>1. Types => TypeOK
  BY DEF Types
<1> QED BY InitTypes, StepTypes, <1>1, PTL DEF Spec

-----------------------------------------------------------------------------
\* The buffer and the network hold the last request, in this order.
Delivered ==
  /\ m_read_idx + Len(stream) = Len(Bytes(request))
  /\ \A i \in 1 .. m_read_idx : m_read_buf[i] = Bytes(request)[i]
  /\ \A i \in 1 .. Len(stream) : stream[i] = Bytes(request)[m_read_idx + i]

\* What has been read of a line.
LEMMA LineRead ==
  ASSUME Types, Delivered, NEW i \in Nat \ {0}, NEW u, LineIn(Bytes(request), i, u)
  PROVE  /\ i <= m_read_idx => m_read_buf[i] = u
         /\ i + 1 <= m_read_idx => m_read_buf[i + 1] = "CR"
         /\ i + 2 <= m_read_idx => m_read_buf[i + 2] = "LF"
<1>1. m_read_idx \in Nat
  BY LenProperties DEF Types, Stored, m_read_idx
<1>2. \A j \in 1 .. m_read_idx : m_read_buf[j] = Bytes(request)[j]
  BY DEF Delivered
<1> QED BY <1>1, <1>2 DEF LineIn

\* The scanner stops at a CR, and waits for what is behind it.
LEMMA StopsAt ==
  ASSUME Types, NEW e \in Ends, \A j \in Ends : e <= j, Unit(e) = "CR"
  PROVE  parse_line = IF e + 1 = m_read_idx THEN [status |-> "OPEN", idx |-> e, end |-> e]
                      ELSE IF Unit(e + 1) = "LF" THEN [status |-> "OK", idx |-> e + 2, end |-> e]
                      ELSE [status |-> "BAD", idx |-> e, end |-> e]
<1>1. Ends # {}
  OBVIOUS
<1>2. FirstEnd = e
  <2>1. m_read_idx \in Nat /\ m_checked_idx \in Nat
    BY LenProperties DEF Types, TypeOK, Stored, m_read_idx
  <2>2. \A j \in Ends : j \in Int
    BY <2>1 DEF Ends
  <2>3. FirstEnd \in Ends /\ FirstEnd <= e /\ e <= FirstEnd
    BY <1>1, FirstEndIs
  <2> QED BY <2>2, <2>3
<1>3. Unit(e) # "LF"
  OBVIOUS
<1> QED BY <1>1, <1>2, <1>3 DEF parse_line

\* A line of one unit: it is taken when all of it is there, and until then the
\* scanner stays on it.
LEMMA WordLine ==
  ASSUME Types, Delivered, NEW u \in Units \ {"CR", "LF"},
         LineIn(Bytes(request), m_start_line + 1, u),
         m_checked_idx \in {m_start_line, m_start_line + 1}
  PROVE  \/ /\ parse_line.status = "OPEN"
            /\ parse_line.idx \in {m_start_line, m_start_line + 1}
            /\ m_read_idx <= m_start_line + 2
         \/ /\ parse_line.status = "OK" /\ parse_line.idx = m_start_line + 3
            /\ Text = <<u>>
<1>1. /\ m_read_idx \in Nat /\ m_start_line \in Nat
      /\ m_checked_idx \in Nat /\ m_checked_idx <= m_read_idx
  BY LenProperties DEF Types, TypeOK, Stored, m_read_idx
<1>2. PICK L \in Nat : L = m_start_line
  BY <1>1
<1>3. /\ L + 1 <= m_read_idx => Unit(L) = u
      /\ L + 2 <= m_read_idx => Unit(L + 1) = "CR"
      /\ L + 3 <= m_read_idx => Unit(L + 2) = "LF"
  <2>1. L + 1 \in Nat \ {0} /\ (L + 1) + 1 = L + 2 /\ (L + 1) + 2 = L + 3 /\ (L + 2) + 1 = L + 3
    OBVIOUS
  <2>2. LineIn(Bytes(request), L + 1, u)
    BY <1>2
  <2> QED BY <2>1, <2>2, LineRead DEF Unit
<1>4. CASE m_read_idx <= L + 1
  <2>1. Ends = {}
    <3>1. ASSUME NEW j \in Ends PROVE FALSE
      <4>1. j = L /\ L + 1 <= m_read_idx
        BY <1>1, <1>2, <1>4, <3>1 DEF Ends
      <4> QED BY <4>1, <3>1, <1>3 DEF Ends
    <3> QED BY <3>1
  <2>2. parse_line = [status |-> "OPEN", idx |-> m_read_idx, end |-> m_read_idx]
    BY <2>1 DEF parse_line
  <2>3. m_read_idx \in {L, L + 1} /\ m_read_idx <= L + 2
    BY <1>1, <1>2, <1>4
  <2> QED BY <1>2, <2>2, <2>3
<1>5. CASE m_read_idx >= L + 2
  <2>1. L + 1 \in Ends
    BY <1>1, <1>2, <1>3, <1>5 DEF Ends
  <2>2. ASSUME NEW j \in Ends PROVE L + 1 <= j
    <3>1. j \in Int /\ j >= L /\ Unit(j) \in {"CR", "LF"}
      BY <1>1, <1>2 DEF Ends
    <3>2. j # L
      BY <3>1, <1>1, <1>3, <1>5
    <3> QED BY <3>1, <3>2
  <2>3. Unit(L + 1) = "CR" /\ (L + 1) + 1 = L + 2 /\ (L + 1) + 2 = L + 3
    BY <1>1, <1>3, <1>5
  <2>4. parse_line = IF L + 2 = m_read_idx THEN [status |-> "OPEN", idx |-> L + 1, end |-> L + 1]
                     ELSE IF Unit(L + 2) = "LF"
                          THEN [status |-> "OK", idx |-> L + 3, end |-> L + 1]
                     ELSE [status |-> "BAD", idx |-> L + 1, end |-> L + 1]
    BY <2>1, <2>2, <2>3, StopsAt
  <2>5. CASE L + 2 = m_read_idx
    BY <1>2, <2>4, <2>5
  <2>6. CASE L + 2 # m_read_idx
    <3>1. Unit(L + 2) = "LF"
      BY <1>1, <1>3, <1>5, <2>6
    <3>2. parse_line = [status |-> "OK", idx |-> L + 3, end |-> L + 1]
      BY <2>4, <2>6, <3>1
    <3>3. Text = SubSeq(m_read_buf, L + 1, L + 1)
      BY <1>2, <3>2 DEF Text
    <3>4. m_read_buf[L + 1] = u
      BY <1>1, <1>3, <1>5 DEF Unit
    <3>5. /\ SubSeq(m_read_buf, L + 1, L + 1) \in Seq(Units)
          /\ Len(SubSeq(m_read_buf, L + 1, L + 1)) = 1
          /\ SubSeq(m_read_buf, L + 1, L + 1)[1] = u
      <4>1. L + 1 \in Int /\ \A j \in (L + 1) .. (L + 1) : m_read_buf[j] \in Units
        BY <3>4
      <4>2. /\ SubSeq(m_read_buf, L + 1, L + 1) \in Seq(Units)
            /\ Len(SubSeq(m_read_buf, L + 1, L + 1)) =
                 IF L + 1 <= L + 1 THEN (L + 1) - (L + 1) + 1 ELSE 0
            /\ \A j \in 1 .. (L + 1) - (L + 1) + 1 :
                 SubSeq(m_read_buf, L + 1, L + 1)[j] = m_read_buf[(L + 1) + j - 1]
        BY <4>1, SubSeqProperties
      <4>3. /\ (L + 1) - (L + 1) + 1 = 1 /\ L + 1 <= L + 1 /\ (L + 1) + 1 - 1 = L + 1
            /\ 1 \in 1 .. (L + 1) - (L + 1) + 1
        OBVIOUS
      <4> QED BY <4>2, <4>3, <3>4
    <3>6. SubSeq(m_read_buf, L + 1, L + 1) = <<u>>
      <4> DEFINE t == SubSeq(m_read_buf, L + 1, L + 1)
      <4> HIDE DEF t
      <4>1. t \in Seq(Units) /\ Len(t) = 1 /\ t[1] = u
        BY <3>5 DEF t
      <4> DEFINE v == <<u>>
      <4>2. v \in Seq(Units) /\ Len(v) = 1 /\ v[1] = u
        OBVIOUS
      <4> HIDE DEF v
      <4>3. Len(t) = Len(v) /\ \A i \in 1 .. Len(t) : t[i] = v[i]
        BY <4>1, <4>2
      <4>4. t = v
        BY <4>1, <4>2, <4>3, SeqEqual
      <4> QED BY <4>4 DEF t, v
    <3> QED BY <1>2, <3>2, <3>3, <3>6
  <2> QED BY <2>5, <2>6
<1> QED BY <1>1, <1>4, <1>5

\* The empty line, and the scanner at its CR.
LEMMA BlankLine ==
  ASSUME Types, Delivered, request.torn = FALSE,
         m_start_line = EndStart(request), m_checked_idx = m_start_line
  PROVE  \/ /\ parse_line.status = "OPEN" /\ parse_line.idx = m_start_line
            /\ m_read_idx <= m_start_line + 1
         \/ /\ parse_line.status = "OK" /\ parse_line.idx = m_start_line + 2
            /\ Text = <<>>
<1>1. /\ m_read_idx \in Nat /\ m_start_line \in Nat /\ m_start_line <= m_read_idx
  BY LenProperties DEF Types, TypeOK, Stored, m_read_idx
<1>2. PICK L \in Nat : L = m_start_line
  BY <1>1
<1>3. /\ L + 1 <= m_read_idx => Unit(L) = "CR"
      /\ L + 2 <= m_read_idx => Unit(L + 1) = "LF"
  <2>1. request \in Requests
    BY DEF Types, TypeOK
  <2>2. Bytes(request)[L + 1] = "CR" /\ Bytes(request)[L + 2] = "LF"
    BY <1>2, <2>1, BytesShape DEF Shape
  <2>3. \A j \in 1 .. m_read_idx : m_read_buf[j] = Bytes(request)[j]
    BY DEF Delivered
  <2> QED BY <1>1, <2>2, <2>3 DEF Unit
<1>4. CASE m_read_idx = L
  <2>1. Ends = {}
    BY <1>1, <1>2, <1>4 DEF Ends
  <2>2. parse_line = [status |-> "OPEN", idx |-> m_read_idx, end |-> m_read_idx]
    BY <2>1 DEF parse_line
  <2> QED BY <1>2, <1>4, <2>2
<1>5. CASE m_read_idx >= L + 1
  <2>1. L \in Ends /\ (\A j \in Ends : L <= j) /\ Unit(L) = "CR"
    BY <1>1, <1>2, <1>3, <1>5 DEF Ends
  <2>2. parse_line = IF L + 1 = m_read_idx THEN [status |-> "OPEN", idx |-> L, end |-> L]
                     ELSE IF Unit(L + 1) = "LF" THEN [status |-> "OK", idx |-> L + 2, end |-> L]
                     ELSE [status |-> "BAD", idx |-> L, end |-> L]
    BY <2>1, StopsAt
  <2>3. CASE L + 1 = m_read_idx
    BY <1>2, <2>2, <2>3
  <2>4. CASE L + 1 # m_read_idx
    <3>1. Unit(L + 1) = "LF"
      BY <1>1, <1>3, <1>5, <2>4
    <3>2. parse_line = [status |-> "OK", idx |-> L + 2, end |-> L]
      BY <2>2, <2>4, <3>1
    <3>3. Text = SubSeq(m_read_buf, L + 1, L)
      BY <1>2, <3>2 DEF Text
    <3>4. L + 1 \in Int /\ L \in Int /\ L < L + 1
      OBVIOUS
    <3>5. Text = <<>>
      BY <3>3, <3>4, SubSeqEmpty
    <3> QED BY <1>2, <3>2, <3>5
  <2> QED BY <2>3, <2>4
<1> QED BY <1>1, <1>2, <1>4, <1>5

\* A CR without LF: the scanner does not get past it.
LEMMA TornLine ==
  ASSUME Types, Delivered, request.torn = TRUE, m_checked_idx = 3
  PROVE  parse_line.status \in {"OPEN", "BAD"} /\ parse_line.idx = 3
<1>1. m_read_idx \in Nat /\ 3 <= m_read_idx
  BY LenProperties DEF Types, TypeOK, Stored, m_read_idx
<1>2. /\ 4 <= m_read_idx => Unit(3) = "CR"
      /\ 5 <= m_read_idx => Unit(4) = "field"
  <2>1. request \in Requests
    BY DEF Types, TypeOK
  <2>2. Bytes(request)[4] = "CR" /\ Bytes(request)[5] = "field"
    BY <2>1, BytesShape DEF Shape
  <2>3. \A j \in 1 .. m_read_idx : m_read_buf[j] = Bytes(request)[j]
    BY DEF Delivered
  <2> QED BY <1>1, <2>2, <2>3 DEF Unit
<1>3. CASE m_read_idx = 3
  <2>1. Ends = {}
    BY <1>1, <1>3 DEF Ends
  <2>2. parse_line = [status |-> "OPEN", idx |-> m_read_idx, end |-> m_read_idx]
    BY <2>1 DEF parse_line
  <2> QED BY <1>3, <2>2
<1>4. CASE m_read_idx >= 4
  <2>1. 3 \in Ends /\ (\A j \in Ends : 3 <= j) /\ Unit(3) = "CR"
    BY <1>1, <1>2, <1>4 DEF Ends
  <2>2. parse_line = IF 3 + 1 = m_read_idx THEN [status |-> "OPEN", idx |-> 3, end |-> 3]
                     ELSE IF Unit(3 + 1) = "LF" THEN [status |-> "OK", idx |-> 3 + 2, end |-> 3]
                     ELSE [status |-> "BAD", idx |-> 3, end |-> 3]
    BY <2>1, StopsAt
  <2>3. 3 + 1 # m_read_idx => Unit(3 + 1) # "LF"
    BY <1>1, <1>2, <1>4
  <2> QED BY <2>2, <2>3
<1> QED BY <1>1, <1>3, <1>4

\* The parts of a request have their types.
LEMMA RequestType ==
  ASSUME NEW r \in Requests
  PROVE  /\ r.method \in {"GET", "POST", "other"} /\ r.linger \in BOOLEAN /\ r.torn \in BOOLEAN
         /\ r.body \in Nat /\ LenStart(r) \in Nat /\ EndStart(r) \in Nat
<1>1. /\ r.method \in {"GET", "POST", "other"} /\ r.linger \in BOOLEAN /\ r.torn \in BOOLEAN
      /\ r.body \in Nat
  BY ParserAssumption DEF Requests
<1>2. LenStart(r) \in Nat /\ EndStart(r) \in Nat
  BY <1>1 DEF LenStart, EndStart
<1> QED BY <1>1, <1>2

\* There is no line in a body: the scanner runs to the end of what has been read.
LEMMA BodyLine ==
  ASSUME Types, Delivered, request.torn = FALSE, m_checked_idx >= EndStart(request) + 2
  PROVE  parse_line.status = "OPEN" /\ parse_line.idx = m_read_idx
<1>1. m_read_idx \in Nat /\ m_checked_idx \in Nat /\ request \in Requests
  BY LenProperties DEF Types, TypeOK, Stored, m_read_idx
<1>2. /\ EndStart(request) \in Nat /\ Len(Bytes(request)) \in Nat /\ Len(stream) \in Nat
      /\ \A i \in EndStart(request) + 3 .. Len(Bytes(request)) : Bytes(request)[i] = "body"
  BY <1>1, RequestType, BytesShape, BytesUnits, LenProperties DEF Shape, Types, Stored
<1>3. /\ m_read_idx + Len(stream) = Len(Bytes(request))
      /\ \A i \in 1 .. m_read_idx : m_read_buf[i] = Bytes(request)[i]
  BY DEF Delivered
<1>4. Ends = {}
  <2>1. ASSUME NEW j \in Ends PROVE FALSE
    <3>1. j \in m_checked_idx .. m_read_idx - 1 /\ Unit(j) \in {"CR", "LF"}
      BY DEF Ends
    <3>2. j + 1 \in 1 .. m_read_idx /\ j + 1 \in EndStart(request) + 3 .. Len(Bytes(request))
      BY <1>1, <1>2, <1>3, <3>1
    <3>3. Unit(j) = "body"
      BY <1>2, <1>3, <3>2 DEF Unit
    <3> QED BY <3>1, <3>3
  <2> QED BY <2>1
<1>5. parse_line = [status |-> "OPEN", idx |-> m_read_idx, end |-> m_read_idx]
  BY <1>4 DEF parse_line
<1> QED BY <1>5

-----------------------------------------------------------------------------
\* Where in a request process_read is, and what it knows by then.
MethodKnown == request.method # "other" /\ ((cgi = 1) <=> (request.method = "POST"))

AtRequestLine ==
  /\ m_check_state = "REQUESTLINE" /\ m_start_line = 0 /\ m_checked_idx \in {0, 1}
  /\ cgi = 0 /\ m_linger = FALSE /\ m_content_length = 0
AtTorn ==
  /\ m_check_state = "HEADER" /\ MethodKnown /\ request.torn = TRUE
  /\ m_start_line = 3 /\ m_checked_idx = 3
AtKeepAlive ==
  /\ m_check_state = "HEADER" /\ MethodKnown /\ request.torn = FALSE /\ request.linger = TRUE
  /\ m_start_line = 3 /\ m_checked_idx \in {3, 4}
  /\ m_linger = FALSE /\ m_content_length = 0
AtLength ==
  /\ m_check_state = "HEADER" /\ MethodKnown /\ request.torn = FALSE /\ request.body > 0
  /\ m_start_line = LenStart(request) /\ m_checked_idx \in {m_start_line, m_start_line + 1}
  /\ m_linger = request.linger /\ m_content_length = 0
AtBlank ==
  /\ m_check_state = "HEADER" /\ MethodKnown /\ request.torn = FALSE
  /\ m_start_line = EndStart(request) /\ m_checked_idx = m_start_line
  /\ m_linger = request.linger /\ m_content_length = request.body
AtBody ==
  /\ m_check_state = "CONTENT" /\ MethodKnown /\ request.torn = FALSE /\ request.body > 0
  /\ m_start_line = EndStart(request) + 2 /\ m_checked_idx = m_start_line
  /\ m_linger = request.linger /\ m_content_length = request.body
\* The scanner has run over a part of the body: it is never found complete.
AtLost ==
  /\ m_check_state = "CONTENT" /\ request.torn = FALSE /\ request.body > 0
  /\ m_checked_idx > EndStart(request) + 2 /\ m_content_length = request.body

Reading ==
  /\ Delivered
  /\ \/ AtRequestLine \/ AtTorn \/ AtKeepAlive \/ AtLength \/ AtBlank
     \/ AtBody \/ AtLost

\* init() leaves nothing of the last request.
Fresh == m_read_idx = 0 /\ m_checked_idx = 0 /\ m_start_line = 0 /\ AtRequestLine

Inv ==
  /\ Types /\ Understood
  /\ pc = "idle" => Fresh
  /\ pc \in {"wait", "parse"} => Reading

-----------------------------------------------------------------------------
\* Where the next line is.
LEMMA StartsAt ==
  ASSUME NEW r \in Requests
  PROVE  /\ r.linger = TRUE => LenStart(r) = 6
         /\ r.linger = FALSE => LenStart(r) = 3
         /\ r.body > 0 => EndStart(r) = LenStart(r) + 3
         /\ r.body = 0 => EndStart(r) = LenStart(r)
<1>1. LenStart(r) \in Nat
  BY RequestType
<1>2. (r.linger = TRUE => LenStart(r) = 6) /\ (r.linger = FALSE => LenStart(r) = 3)
  BY DEF LenStart
<1>3. r.body > 0 => EndStart(r) = LenStart(r) + 3
  BY DEF EndStart
<1>4. r.body = 0 => EndStart(r) = LenStart(r)
  <2>1. r.body = 0 => ~(r.body > 0)
    OBVIOUS
  <2> QED BY <1>1, <2>1 DEF EndStart
<1> QED BY <1>2, <1>3, <1>4

\* The variables a parser works on that a step of it need not change.
Same == UNCHANGED <<request, stream, m_read_buf>>

LEMMA SameDelivered ==
  ASSUME Delivered, Same
  PROVE  Delivered'
  BY DEF Delivered, Same, m_read_idx

LEMMA InitInv == Init => Inv
<1> SUFFICES ASSUME Init PROVE Inv
  OBVIOUS
<1>1. Types
  BY InitTypes
<1>2. m_read_idx = 0
  <2>1. Len(<<>>) = 0
    BY EmptySeq
  <2> QED BY <2>1 DEF Init, m_read_idx
<1>3. Fresh
  BY <1>2 DEF Init, Fresh, AtRequestLine
<1>4. pc = "idle"
  BY DEF Init
<1> QED BY <1>1, <1>3, <1>4 DEF Inv, Understood

LEMMA SendInv ==
  ASSUME Inv, NEW r \in Requests, Send(r)
  PROVE  Understood' /\ pc' = "wait" /\ Reading'
<1>1. Fresh /\ pc' = "wait"
  BY DEF Inv, Send
<1>2. AtRequestLine'
  BY <1>1 DEF Send, Fresh, AtRequestLine, bufVars, fieldVars
<1>3. Delivered'
  <2>1. m_read_idx' = 0 /\ request' = r /\ stream' = Bytes(r)
    BY <1>1 DEF Send, Fresh, bufVars, m_read_idx
  <2>2. Len(Bytes(r)) \in Nat
    BY BytesUnits
  <2> QED BY <2>1, <2>2 DEF Delivered
<1> QED BY <1>1, <1>2, <1>3 DEF Reading, Understood

LEMMA ReadInv ==
  ASSUME Inv, NEW n \in 1 .. Len(stream), Read(n)
  PROVE  Understood' /\ pc' = "parse" /\ Reading'
<1>1. Types /\ Reading /\ pc' = "parse"
  BY DEF Inv, Read
<1>2. /\ Len(stream') = Len(stream) - n
      /\ \A i \in 1 .. Len(stream) - n : stream'[i] = stream[n + i]
  BY <1>1, DeliversPiece DEF Read
<1>3. /\ m_read_idx' = m_read_idx + n
      /\ \A i \in 1 .. m_read_idx : m_read_buf'[i] = m_read_buf[i]
      /\ \A i \in 1 .. n : m_read_buf'[m_read_idx + i] = stream[i]
  BY <1>1, ReadBuffer DEF m_read_idx
<1>4. m_read_idx \in Nat /\ Len(stream) \in Nat /\ request' = request
  BY <1>1, LenProperties DEF Types, Stored, m_read_idx, Read
<1>5. Delivered'
  <2> DEFINE b == Bytes(request)
             k == m_read_idx
             l == Len(stream)
  <2>1. /\ k + l = Len(b)
        /\ \A i \in 1 .. k : m_read_buf[i] = b[i]
        /\ \A i \in 1 .. l : stream[i] = b[k + i]
    BY <1>1 DEF Reading, Delivered
  <2>2. k \in Nat /\ l \in Nat /\ n \in 1 .. l
    BY <1>4
  <2>3. Len(stream') = l - n /\ \A i \in 1 .. l - n : stream'[i] = stream[n + i]
    BY <1>2
  <2>4. /\ m_read_idx' = k + n
        /\ \A i \in 1 .. k : m_read_buf'[i] = m_read_buf[i]
        /\ \A i \in 1 .. n : m_read_buf'[k + i] = stream[i]
    BY <1>3
  <2>b. Bytes(request') = b
    BY <1>4
  <2> HIDE DEF b, k, l
  <2>5. (k + n) + (l - n) = Len(b)
    BY <2>1, <2>2
  <2>6. ASSUME NEW i \in 1 .. k + n
        PROVE  m_read_buf'[i] = b[i]
    <3>1. CASE i <= k
      BY <2>1, <2>2, <2>4, <3>1
    <3>2. CASE i > k
      <4>1. PICK j \in 1 .. n : i = k + j
        <5>1. i - k \in 1 .. n /\ i = k + (i - k)
          BY <2>2, <3>2
        <5> QED BY <5>1
      <4>2. j \in 1 .. l
        BY <2>2
      <4> QED BY <2>1, <2>4, <4>1, <4>2
    <3> QED BY <2>2, <3>1, <3>2
  <2>7. ASSUME NEW i \in 1 .. l - n
        PROVE  stream'[i] = b[(k + n) + i]
    <3>1. n + i \in 1 .. l /\ k + (n + i) = (k + n) + i
      BY <2>2
    <3>2. stream'[i] = stream[n + i] /\ stream[n + i] = b[k + (n + i)]
      BY <2>1, <2>3, <3>1
    <3> QED BY <3>1, <3>2
  <2>8. /\ m_read_idx' + Len(stream') = Len(Bytes(request'))
        /\ \A i \in 1 .. m_read_idx' : m_read_buf'[i] = Bytes(request')[i]
        /\ \A i \in 1 .. Len(stream') : stream'[i] = Bytes(request')[m_read_idx' + i]
    BY <2>3, <2>4, <2>5, <2>6, <2>7, <2>b
  <2> QED BY <2>8 DEF Delivered
<1>6. (AtRequestLine \/ AtTorn \/ AtKeepAlive \/ AtLength \/ AtBlank \/ AtBody \/ AtLost)'
  <2>1. /\ UNCHANGED <<request, m_checked_idx, m_start_line, m_check_state, cgi, m_linger,
                       m_content_length>>
    BY DEF Read, fieldVars
  <2>2. AtRequestLine \/ AtTorn \/ AtKeepAlive \/ AtLength \/ AtBlank \/ AtBody \/ AtLost
    BY <1>1 DEF Reading
  <2>3. MethodKnown' <=> MethodKnown
    BY <2>1 DEF MethodKnown
  <2> QED BY <2>1, <2>2, <2>3
          DEF AtRequestLine, AtTorn, AtKeepAlive, AtLength, AtBlank, AtBody, AtLost
<1> QED BY <1>1, <1>5, <1>6 DEF Reading, Understood

\* Some of the request is not in the buffer.
MoreToRead == m_read_idx < Len(Bytes(request))

\* What the scanner finds where process_read is.
LEMMA LineFound ==
  ASSUME Types, Reading
  PROVE  /\ AtRequestLine =>
              \/ parse_line.status = "OPEN" /\ parse_line.idx \in {0, 1} /\ MoreToRead
              \/ /\ parse_line.status = "OK" /\ parse_line.idx = 3
                 /\ Text = <<request.method>>
         /\ AtTorn => parse_line.status \in {"OPEN", "BAD"} /\ parse_line.idx = 3
         /\ AtKeepAlive =>
              \/ parse_line.status = "OPEN" /\ parse_line.idx \in {3, 4} /\ MoreToRead
              \/ /\ parse_line.status = "OK" /\ parse_line.idx = 6
                 /\ Text = <<"keep-alive">>
         /\ AtLength =>
              \/ /\ parse_line.status = "OPEN" /\ MoreToRead
                 /\ parse_line.idx \in {m_start_line, m_start_line + 1}
              \/ /\ parse_line.status = "OK" /\ parse_line.idx = m_start_line + 3
                 /\ Text = <<"length">>
         /\ AtBlank =>
              \/ parse_line.status = "OPEN" /\ parse_line.idx = m_start_line /\ MoreToRead
              \/ /\ parse_line.status = "OK" /\ parse_line.idx = m_start_line + 2
                 /\ Text = <<>>
<1>1. Delivered /\ request \in Requests
  BY DEF Reading, Types, TypeOK
<1>2. Shape(request, Bytes(request))
  BY <1>1, BytesShape
<1>n. m_read_idx \in Nat /\ m_start_line \in Nat /\ Len(Bytes(request)) \in Nat
  BY <1>1, BytesUnits, LenProperties DEF Types, TypeOK, Stored, m_read_idx
<1>3. ASSUME AtRequestLine
      PROVE  \/ parse_line.status = "OPEN" /\ parse_line.idx \in {0, 1} /\ MoreToRead
             \/ /\ parse_line.status = "OK" /\ parse_line.idx = 3
                /\ Text = <<request.method>>
  <2>1. PICK u : u = request.method
    OBVIOUS
  <2>2. m_start_line = 0 /\ m_checked_idx \in {m_start_line, m_start_line + 1}
    BY <1>3 DEF AtRequestLine
  <2>3. u \in Units \ {"CR", "LF"}
    BY <1>1, <2>1, RequestType DEF Units
  <2>4. LineIn(Bytes(request), m_start_line + 1, u)
    BY <1>2, <2>1, <2>2 DEF Shape
  <2>5. \/ /\ parse_line.status = "OPEN" /\ m_read_idx <= m_start_line + 2
           /\ parse_line.idx \in {m_start_line, m_start_line + 1}
        \/ /\ parse_line.status = "OK" /\ parse_line.idx = m_start_line + 3
           /\ Text = <<u>>
    BY <1>1, <2>2, <2>3, <2>4, WordLine
  <2>6. m_read_idx <= m_start_line + 2 => MoreToRead
    BY <1>n, <2>2, <2>4 DEF LineIn, MoreToRead
  <2> QED BY <2>1, <2>2, <2>5, <2>6
<1>4. ASSUME AtTorn
      PROVE  parse_line.status \in {"OPEN", "BAD"} /\ parse_line.idx = 3
  BY <1>1, <1>4, TornLine DEF AtTorn
<1>5. ASSUME AtKeepAlive
      PROVE  \/ parse_line.status = "OPEN" /\ parse_line.idx \in {3, 4} /\ MoreToRead
             \/ /\ parse_line.status = "OK" /\ parse_line.idx = 6
                /\ Text = <<"keep-alive">>
  <2>1. m_start_line = 3 /\ m_checked_idx \in {m_start_line, m_start_line + 1}
    BY <1>5 DEF AtKeepAlive
  <2>2. "keep-alive" \in Units \ {"CR", "LF"}
    BY DEF Units
  <2>3. LineIn(Bytes(request), m_start_line + 1, "keep-alive")
    BY <1>2, <1>5, <2>1 DEF Shape, AtKeepAlive
  <2>4. \/ /\ parse_line.status = "OPEN" /\ m_read_idx <= m_start_line + 2
           /\ parse_line.idx \in {m_start_line, m_start_line + 1}
        \/ /\ parse_line.status = "OK" /\ parse_line.idx = m_start_line + 3
           /\ Text = <<"keep-alive">>
    BY <1>1, <2>1, <2>2, <2>3, WordLine
  <2>5. m_read_idx <= m_start_line + 2 => MoreToRead
    BY <1>n, <2>1, <2>3 DEF LineIn, MoreToRead
  <2> QED BY <2>1, <2>4, <2>5
<1>6. ASSUME AtLength
      PROVE  \/ /\ parse_line.status = "OPEN" /\ MoreToRead
                /\ parse_line.idx \in {m_start_line, m_start_line + 1}
             \/ /\ parse_line.status = "OK" /\ parse_line.idx = m_start_line + 3
                /\ Text = <<"length">>
  <2>1. m_start_line = LenStart(request) /\ m_checked_idx \in {m_start_line, m_start_line + 1}
    BY <1>6 DEF AtLength
  <2>2. "length" \in Units \ {"CR", "LF"}
    BY DEF Units
  <2>3. LineIn(Bytes(request), m_start_line + 1, "length")
    BY <1>2, <1>6, <2>1 DEF Shape, AtLength
  <2>4. \/ /\ parse_line.status = "OPEN" /\ m_read_idx <= m_start_line + 2
           /\ parse_line.idx \in {m_start_line, m_start_line + 1}
        \/ /\ parse_line.status = "OK" /\ parse_line.idx = m_start_line + 3
           /\ Text = <<"length">>
    BY <1>1, <2>1, <2>2, <2>3, WordLine
  <2>5. m_read_idx <= m_start_line + 2 => MoreToRead
    BY <1>n, <2>3 DEF LineIn, MoreToRead
  <2> QED BY <2>4, <2>5
<1>7. ASSUME AtBlank
      PROVE  \/ parse_line.status = "OPEN" /\ parse_line.idx = m_start_line /\ MoreToRead
             \/ /\ parse_line.status = "OK" /\ parse_line.idx = m_start_line + 2
                /\ Text = <<>>
  <2>1. /\ request.torn = FALSE /\ m_start_line = EndStart(request)
        /\ m_checked_idx = m_start_line
    BY <1>7 DEF AtBlank
  <2>2. \/ /\ parse_line.status = "OPEN" /\ parse_line.idx = m_start_line
           /\ m_read_idx <= m_start_line + 1
        \/ /\ parse_line.status = "OK" /\ parse_line.idx = m_start_line + 2
           /\ Text = <<>>
    BY <1>1, <2>1, BlankLine
  <2>3. m_read_idx <= m_start_line + 1 => MoreToRead
    <3>1. Len(Bytes(request)) = m_start_line + 2 + request.body /\ request.body \in Nat
      BY <1>1, <1>2, <2>1, RequestType DEF Shape
    <3> QED BY <1>n, <3>1 DEF MoreToRead
  <2> QED BY <2>2, <2>3
<1> QED BY <1>3, <1>4, <1>5, <1>6, <1>7

LEMMA NoLineInv ==
  ASSUME Inv, NoLine
  PROVE  Understood' /\ pc' = "wait" /\ Reading'
<1>1. Types /\ Reading /\ pc = "parse" /\ pc' = "wait" /\ parse_line.status # "OK"
  BY DEF Inv, NoLine, Scanning
<1>2. /\ UNCHANGED <<request, m_start_line, m_check_state, cgi, m_linger, m_content_length>>
      /\ m_checked_idx' = parse_line.idx /\ Same
  BY DEF NoLine, fieldVars, Same
<1>3. Delivered'
  BY <1>1, <1>2, SameDelivered DEF Reading
<1>4. MethodKnown' <=> MethodKnown
  BY <1>2 DEF MethodKnown
<1>5. CASE AtRequestLine
  <2>1. parse_line.idx \in {0, 1}
    BY <1>1, <1>5, LineFound
  <2>2. AtRequestLine'
    BY <1>2, <1>5, <2>1 DEF AtRequestLine
  <2> QED BY <1>1, <1>3, <2>2 DEF Reading, Understood
<1>6. CASE AtTorn
  <2>1. parse_line.idx = 3
    BY <1>1, <1>6, LineFound
  <2>2. AtTorn'
    BY <1>2, <1>4, <1>6, <2>1 DEF AtTorn
  <2> QED BY <1>1, <1>3, <2>2 DEF Reading, Understood
<1>7. CASE AtKeepAlive
  <2>1. parse_line.idx \in {3, 4}
    BY <1>1, <1>7, LineFound
  <2>2. AtKeepAlive'
    BY <1>2, <1>4, <1>7, <2>1 DEF AtKeepAlive
  <2> QED BY <1>1, <1>3, <2>2 DEF Reading, Understood
<1>8. CASE AtLength
  <2>1. parse_line.idx \in {m_start_line, m_start_line + 1}
    BY <1>1, <1>8, LineFound
  <2>2. AtLength'
    BY <1>2, <1>4, <1>8, <2>1 DEF AtLength
  <2> QED BY <1>1, <1>3, <2>2 DEF Reading, Understood
<1>9. CASE AtBlank
  <2>1. parse_line.idx = m_start_line
    BY <1>1, <1>9, LineFound
  <2>2. AtBlank'
    BY <1>2, <1>4, <1>9, <2>1 DEF AtBlank
  <2> QED BY <1>1, <1>3, <2>2 DEF Reading, Understood
<1>10. CASE AtBody \/ AtLost
  <2>1. request \in Requests /\ m_read_idx \in Nat /\ m_checked_idx <= m_read_idx
        /\ m_checked_idx \in Nat
    BY <1>1, LenProperties DEF Types, TypeOK, Stored, m_read_idx
  <2>2. EndStart(request) \in Nat
    BY <2>1, RequestType
  <2>3. request.torn = FALSE /\ m_checked_idx >= EndStart(request) + 2
    BY <1>10, <2>1, <2>2 DEF AtBody, AtLost
  <2>4. parse_line.idx = m_read_idx
    BY <1>1, <2>3, BodyLine DEF Reading
  <2>5. CASE m_read_idx > EndStart(request) + 2
    <3>1. AtLost'
      BY <1>2, <1>10, <2>4, <2>5 DEF AtBody, AtLost
    <3> QED BY <1>1, <1>3, <3>1 DEF Reading, Understood
  <2>6. CASE ~(m_read_idx > EndStart(request) + 2)
    <3>1. m_read_idx = EndStart(request) + 2 /\ m_checked_idx = m_read_idx
      BY <2>1, <2>2, <2>3, <2>6
    <3>2. AtBody
      BY <1>10, <2>1, <2>2, <3>1 DEF AtLost
    <3>3. AtBody'
      BY <1>2, <1>4, <2>4, <3>1, <3>2 DEF AtBody
    <3> QED BY <1>1, <1>3, <3>3 DEF Reading, Understood
  <2> QED BY <2>5, <2>6
<1> QED BY <1>1, <1>5, <1>6, <1>7, <1>8, <1>9, <1>10 DEF Reading

\* A request line is known to be one of GET and POST, or is turned away.
LEMMA RequestLineInv ==
  ASSUME Inv, parse_request_line
  PROVE  Understood' /\ ((pc' = "parse" /\ Reading') \/ pc' = "answer")
<1>1. Types /\ Reading /\ pc = "parse" /\ parse_line.status = "OK"
  BY DEF Inv, parse_request_line, HasLine, Scanning
<1>2. AtRequestLine
  BY <1>1
     DEF Reading, parse_request_line, AtTorn, AtKeepAlive, AtLength, AtBlank, AtBody, AtLost
<1>3. parse_line.idx = 3 /\ Text = <<request.method>>
  BY <1>1, <1>2, LineFound
<1>4. /\ UNCHANGED <<request, m_linger, m_content_length>> /\ Same
      /\ m_checked_idx' = 3 /\ m_start_line' = 3 /\ line_status' = "OK"
  BY <1>3 DEF parse_request_line, NextLine, Same
<1>5. Delivered'
  BY <1>1, <1>4, SameDelivered DEF Reading
<1>6. request \in Requests
  BY <1>1 DEF Types, TypeOK
<1>7. /\ request.method \in {"GET", "POST", "other"} /\ request.linger \in BOOLEAN
      /\ request.torn \in BOOLEAN /\ request.body \in Nat
  BY <1>6, RequestType
<1>8. /\ (Text = <<"GET">>) <=> (request.method = "GET")
      /\ (Text = <<"POST">>) <=> (request.method = "POST")
  BY <1>3
<1>9. CASE request.method = "other"
  <2>1. Text \notin {<<"GET">>, <<"POST">>}
    BY <1>8, <1>9
  <2>2. pc' = "answer" /\ verdict' = "BAD_REQUEST"
    BY <2>1 DEF parse_request_line, Return
  <2> QED BY <1>4, <1>9, <2>2 DEF Understood
<1>10. CASE request.method # "other"
  <2>1. Text \in {<<"GET">>, <<"POST">>}
    BY <1>7, <1>8, <1>10
  <2>2. /\ cgi' = IF Text = <<"POST">> THEN 1 ELSE cgi
        /\ m_check_state' = "HEADER" /\ pc' = pc
    BY <2>1 DEF parse_request_line, GoOn
  <2>3. cgi = 0 /\ m_linger' = FALSE /\ m_content_length' = 0
    BY <1>2, <1>4 DEF AtRequestLine
  <2>4. MethodKnown'
    BY <1>4, <1>8, <1>10, <2>2, <2>3 DEF MethodKnown
  <2>5. (AtTorn \/ AtKeepAlive \/ AtLength \/ AtBlank)'
    <3>1. CASE request.torn = TRUE
      BY <1>4, <2>2, <2>4, <3>1 DEF AtTorn
    <3>2. CASE request.torn = FALSE /\ request.linger = TRUE
      BY <1>4, <2>2, <2>3, <2>4, <3>2 DEF AtKeepAlive
    <3>3. CASE request.torn = FALSE /\ request.linger = FALSE /\ request.body > 0
      <4>1. LenStart(request') = 3
        BY <1>4, <1>6, <3>3, StartsAt
      <4> QED BY <1>4, <2>2, <2>3, <2>4, <3>3, <4>1 DEF AtLength
    <3>4. CASE request.torn = FALSE /\ request.linger = FALSE /\ request.body = 0
      <4>1. EndStart(request') = 3
        BY <1>4, <1>6, <3>4, StartsAt
      <4> QED BY <1>4, <2>2, <2>3, <2>4, <3>4, <4>1 DEF AtBlank
    <3>5. request.torn \in {TRUE, FALSE} /\ request.linger \in {TRUE, FALSE}
      BY <1>7
    <3>6. request.body > 0 \/ request.body = 0
      BY <1>7
    <3> QED BY <3>1, <3>2, <3>3, <3>4, <3>5, <3>6
  <2> QED BY <1>1, <1>5, <2>2, <2>5 DEF Reading, Understood
<1> QED BY <1>9, <1>10

\* A header field is taken once, and the empty line when all of them are.
LEMMA HeadersInv ==
  ASSUME Inv, parse_headers
  PROVE  Understood' /\ ((pc' = "parse" /\ Reading') \/ pc' = "answer")
<1>1. /\ Types /\ Reading /\ pc = "parse" /\ parse_line.status = "OK"
      /\ m_check_state = "HEADER"
  BY DEF Inv, parse_headers, HasLine, Scanning
<1>2. AtKeepAlive \/ AtLength \/ AtBlank
  <2>1. ~AtRequestLine /\ ~AtBody /\ ~AtLost
    BY <1>1 DEF AtRequestLine, AtBody, AtLost
  <2>2. ~AtTorn
    BY <1>1, LineFound
  <2> QED BY <1>1, <2>1, <2>2 DEF Reading
<1>3. /\ UNCHANGED <<request, cgi>> /\ Same /\ line_status' = "OK"
      /\ m_checked_idx' = parse_line.idx /\ m_start_line' = parse_line.idx
  BY DEF parse_headers, NextLine, Same
<1>4. Delivered' /\ (MethodKnown' <=> MethodKnown)
  BY <1>1, <1>3, SameDelivered DEF Reading, MethodKnown
<1>5. request \in Requests
  BY <1>1 DEF Types, TypeOK
<1>6. /\ request.linger \in BOOLEAN /\ request.body \in Nat
      /\ LenStart(request) \in Nat /\ EndStart(request) \in Nat
  BY <1>5, RequestType
<1>7. ASSUME NEW u, Text = <<u>>
      PROVE  /\ m_linger' = (m_linger \/ u = "keep-alive")
             /\ m_content_length' = IF u = "length" THEN request.body ELSE m_content_length
             /\ pc' = pc /\ m_check_state' = m_check_state
  <2>1. Text # <<>>
    BY <1>7
  <2>2. /\ (Text = <<"keep-alive">>) <=> (u = "keep-alive")
        /\ (Text = <<"length">>) <=> (u = "length")
    BY <1>7
  <2> QED BY <2>1, <2>2 DEF parse_headers, GoOn
<1>8. CASE AtKeepAlive
  <2>1. parse_line.idx = 6 /\ Text = <<"keep-alive">>
    BY <1>1, <1>8, LineFound
  <2>2. /\ m_linger' = TRUE /\ m_content_length' = 0
        /\ pc' = pc /\ m_check_state' = m_check_state
    BY <1>7, <1>8, <2>1 DEF AtKeepAlive
  <2>3. (AtLength \/ AtBlank)'
    <3>1. CASE request.body > 0
      <4>1. LenStart(request') = 6
        BY <1>3, <1>5, <1>8, StartsAt DEF AtKeepAlive
      <4> QED BY <1>1, <1>3, <1>4, <1>8, <2>1, <2>2, <3>1, <4>1 DEF AtKeepAlive, AtLength
    <3>2. CASE request.body = 0
      <4>1. EndStart(request') = 6
        BY <1>3, <1>5, <1>8, <3>2, StartsAt DEF AtKeepAlive
      <4> QED BY <1>1, <1>3, <1>4, <1>8, <2>1, <2>2, <3>2, <4>1 DEF AtKeepAlive, AtBlank
    <3> QED BY <1>6, <3>1, <3>2
  <2> QED BY <1>1, <1>4, <2>2, <2>3 DEF Reading, Understood
<1>9. CASE AtLength
  <2>1. parse_line.idx = m_start_line + 3 /\ Text = <<"length">>
    BY <1>1, <1>9, LineFound
  <2>2. /\ m_linger' = request.linger /\ m_content_length' = request.body
        /\ pc' = pc /\ m_check_state' = m_check_state
    <3>1. /\ m_linger' = (m_linger \/ "length" = "keep-alive")
          /\ m_content_length' = request.body
          /\ pc' = pc /\ m_check_state' = m_check_state
      BY <1>7, <2>1
    <3>2. m_linger = request.linger
      BY <1>9 DEF AtLength
    <3> QED BY <1>6, <3>1, <3>2
  <2>3. m_start_line + 3 = EndStart(request)
    BY <1>9 DEF AtLength, EndStart
  <2>4. AtBlank'
    BY <1>1, <1>3, <1>4, <1>9, <2>1, <2>2, <2>3 DEF AtLength, AtBlank
  <2> QED BY <1>1, <1>4, <2>2, <2>4 DEF Reading, Understood
<1>10. CASE AtBlank
  <2>1. parse_line.idx = m_start_line + 2 /\ Text = <<>>
    BY <1>1, <1>10, LineFound
  <2>2. UNCHANGED <<m_linger, m_content_length>>
    BY <2>1 DEF parse_headers
  <2>3. m_linger = request.linger /\ m_content_length = request.body /\ MethodKnown
        /\ request.torn = FALSE /\ m_start_line = EndStart(request)
    BY <1>10 DEF AtBlank
  <2>4. CASE request.body # 0
    <3>1. m_check_state' = "CONTENT" /\ pc' = pc
      BY <2>1, <2>3, <2>4 DEF parse_headers, GoOn
    <3>2. AtBody'
      BY <1>3, <1>4, <1>6, <2>1, <2>2, <2>3, <2>4, <3>1 DEF AtBody
    <3> QED BY <1>1, <1>4, <3>1, <3>2 DEF Reading, Understood
  <2>5. CASE request.body = 0
    <3>1. pc' = "answer" /\ verdict' = "GET_REQUEST"
      BY <2>1, <2>3, <2>5 DEF parse_headers, Return
    <3> QED BY <1>3, <1>4, <2>2, <2>3, <2>5, <3>1
            DEF Understood, MethodKnown, WellFormed
  <2> QED BY <2>4, <2>5
<1> QED BY <1>2, <1>8, <1>9, <1>10

\* A body that is found complete is the client's.
LEMMA ContentInv ==
  ASSUME Inv, parse_content
  PROVE  Understood' /\ ((pc' = "parse" /\ Reading') \/ pc' = "answer")
<1>1. /\ Types /\ Reading /\ pc = "parse" /\ m_check_state = "CONTENT" /\ line_status = "OK"
  BY DEF Inv, parse_content
<1>2. AtBody \/ AtLost
  BY <1>1 DEF Reading, AtRequestLine, AtTorn, AtKeepAlive, AtLength, AtBlank
<1>3. /\ UNCHANGED <<request, m_checked_idx, m_check_state, cgi, m_linger, m_content_length>>
      /\ Same /\ m_start_line' = m_checked_idx
  BY DEF parse_content, Same
<1>4. Delivered' /\ (MethodKnown' <=> MethodKnown)
  BY <1>1, <1>3, SameDelivered DEF Reading, MethodKnown
<1>5. request \in Requests /\ m_read_idx \in Nat /\ Len(stream) \in Nat
  BY <1>1, LenProperties DEF Types, TypeOK, Stored, m_read_idx
<1>6. request.body \in Nat /\ EndStart(request) \in Nat
  BY <1>5, RequestType
<1>7. request.torn = FALSE /\ request.body > 0 /\ m_content_length = request.body
  BY <1>2 DEF AtBody, AtLost
<1>8. /\ Len(Bytes(request)) = EndStart(request) + 2 + request.body
      /\ \A i \in EndStart(request) + 3 .. Len(Bytes(request)) : Bytes(request)[i] = "body"
  BY <1>5, <1>7, BytesShape DEF Shape
<1>9. /\ m_read_idx + Len(stream) = Len(Bytes(request))
      /\ \A i \in 1 .. m_read_idx : m_read_buf[i] = Bytes(request)[i]
  BY <1>1 DEF Reading, Delivered
<1>10. CASE BodyComplete
  <2>0. /\ MethodKnown /\ m_linger = request.linger
        /\ m_start_line = EndStart(request) + 2 /\ m_checked_idx = EndStart(request) + 2
    <3>1. ~AtLost
      <4>1. m_checked_idx \in Nat
        BY <1>1, <1>5 DEF Types, TypeOK
      <4>2. m_read_idx >= request.body + m_checked_idx
        BY <1>7, <1>10 DEF BodyComplete
      <4>3. ~(m_checked_idx > EndStart(request) + 2)
        BY <1>5, <1>6, <1>8, <1>9, <4>1, <4>2
      <4> QED BY <4>3 DEF AtLost
    <3> QED BY <1>2, <3>1 DEF AtBody
  <2>1. pc' = "answer" /\ verdict' = "GET_REQUEST"
        /\ m_string' = SubSeq(m_read_buf, m_start_line + 1, m_start_line + m_content_length)
    BY <1>10 DEF parse_content, Return
  <2>2. PICK a \in Nat, n \in Nat : a = EndStart(request) + 2 /\ n = request.body
    BY <1>6
  <2>3. m_string' = SubSeq(m_read_buf, a + 1, a + n)
    BY <1>7, <2>0, <2>1, <2>2
  <2>4. \A i \in a + 1 .. a + n : m_read_buf[i] = "body"
    <3>1. a + n <= m_read_idx
      BY <1>7, <1>10, <2>0, <2>2 DEF BodyComplete
    <3>2. Len(Bytes(request)) = a + n
      BY <1>8, <2>2
    <3>3. \A i \in a + 1 .. a + n : i \in 1 .. m_read_idx /\ i \in a + 1 .. Len(Bytes(request))
      BY <1>5, <3>1, <3>2
    <3>4. EndStart(request) + 3 = a + 1
      BY <1>6, <2>2
    <3> QED BY <1>8, <1>9, <3>3, <3>4
  <2>5. SubSeq(m_read_buf, a + 1, a + n) = BodyOf(request)
    <3>1. "body" \in Units
      BY DEF Units
    <3>2. /\ SubSeq(m_read_buf, a + 1, a + n) \in Seq(Units)
          /\ Len(SubSeq(m_read_buf, a + 1, a + n)) =
               IF a + 1 <= a + n THEN (a + n) - (a + 1) + 1 ELSE 0
          /\ \A i \in 1 .. (a + n) - (a + 1) + 1 :
               SubSeq(m_read_buf, a + 1, a + n)[i] = m_read_buf[(a + 1) + i - 1]
      <4>1. a + 1 \in Int /\ a + n \in Int /\ \A i \in a + 1 .. a + n : m_read_buf[i] \in Units
        BY <2>4, <3>1
      <4> QED BY <4>1, SubSeqProperties
    <3>3. /\ (a + n) - (a + 1) + 1 = n /\ (~(a + 1 <= a + n) => n = 0)
          /\ \A i \in 1 .. n : (a + 1) + i - 1 \in a + 1 .. a + n
      OBVIOUS
    <3> DEFINE t == SubSeq(m_read_buf, a + 1, a + n)
    <3>4. t \in Seq(Units) /\ Len(t) = n /\ \A i \in 1 .. n : t[i] = "body"
      BY <2>4, <3>2, <3>3
    <3> HIDE DEF t
    <3>5. /\ BodyOf(request) \in Seq(Units) /\ Len(BodyOf(request)) = n
          /\ \A i \in 1 .. n : BodyOf(request)[i] = "body"
      BY <2>2, <3>1 DEF BodyOf
    <3>6. t = BodyOf(request)
      <4>1. Len(t) = Len(BodyOf(request)) /\ \A i \in 1 .. Len(t) : t[i] = BodyOf(request)[i]
        BY <3>4, <3>5
      <4> QED BY <3>4, <3>5, <4>1, SeqEqual
    <3> QED BY <3>6 DEF t
  <2>6. m_string' = BodyOf(request')
    BY <1>3, <2>3, <2>5
  <2> QED BY <1>3, <1>4, <1>7, <2>0, <2>1, <2>6 DEF Understood, MethodKnown, WellFormed
<1>11. CASE ~BodyComplete
  <2>1. line_status' = "OPEN" /\ pc' = pc
    BY <1>11 DEF parse_content, GoOn
  <2>2. (AtBody \/ AtLost)'
    <3>1. CASE AtBody
      BY <1>3, <1>4, <3>1 DEF AtBody
    <3>2. CASE AtLost
      BY <1>3, <3>2 DEF AtLost
    <3> QED BY <1>2, <3>1, <3>2
  <2> QED BY <1>1, <1>4, <2>1, <2>2 DEF Reading, Understood
<1> QED BY <1>10, <1>11

LEMMA AnswerInv ==
  ASSUME Inv, Answer
  PROVE  Understood' /\ ((pc' = "idle" /\ Fresh') \/ pc' = "closed")
<1>1. CASE m_linger /\ init /\ pc' = "idle"
  <2>1. m_read_idx' = 0
    <3>1. Len(<<>>) = 0
      BY EmptySeq
    <3> QED BY <1>1, <3>1 DEF init, m_read_idx
  <2>2. Fresh'
    BY <1>1, <2>1 DEF init, Fresh, AtRequestLine
  <2> QED BY <1>1, <2>2 DEF Understood
<1>2. CASE pc' = "closed"
  BY <1>2 DEF Understood
<1> QED BY <1>1, <1>2 DEF Answer

LEMMA SameInv ==
  ASSUME Inv, UNCHANGED hvars
  PROVE  Inv'
<1>1. /\ UNCHANGED <<pc, request, count, stream, m_check_state, line_status, verdict>>
      /\ UNCHANGED <<m_read_buf, m_checked_idx, m_start_line>>
      /\ UNCHANGED <<cgi, m_linger, m_content_length, m_string>>
  BY DEF hvars, bufVars, fieldVars
<1>2. Types' <=> Types
  BY <1>1 DEF Types, TypeOK, Stored, m_read_idx
<1>3. Understood' <=> Understood
  BY <1>1 DEF Understood
<1>4. (m_read_idx' = m_read_idx) /\ (MethodKnown' <=> MethodKnown)
  BY <1>1 DEF m_read_idx, MethodKnown
<1>5. (AtRequestLine' <=> AtRequestLine) /\ (Fresh' <=> Fresh)
  BY <1>1, <1>4 DEF AtRequestLine, Fresh
<1>6. Delivered' <=> Delivered
  BY <1>1, <1>4 DEF Delivered
<1>7. /\ (AtTorn' <=> AtTorn) /\ (AtKeepAlive' <=> AtKeepAlive) /\ (AtLength' <=> AtLength)
      /\ (AtBlank' <=> AtBlank) /\ (AtBody' <=> AtBody) /\ (AtLost' <=> AtLost)
  BY <1>1, <1>4 DEF AtTorn, AtKeepAlive, AtLength, AtBlank, AtBody, AtLost
<1>8. Reading' <=> Reading
  BY <1>5, <1>6, <1>7 DEF Reading
<1> QED BY <1>1, <1>2, <1>3, <1>5, <1>8 DEF Inv

LEMMA StepInv == Inv /\ [Next]_hvars => Inv'
<1> SUFFICES ASSUME Inv, [Next]_hvars PROVE Inv'
  OBVIOUS
<1>1. Types'
  BY StepTypes DEF Inv
<1>2. \/ Understood' /\ pc' \in {"wait", "parse"} /\ Reading'
      \/ Understood' /\ pc' = "idle" /\ Fresh'
      \/ Understood' /\ pc' \in {"answer", "closed"}
      \/ UNCHANGED hvars
  <2>1. ASSUME NEW r \in Requests, Send(r)
        PROVE  Understood' /\ pc' = "wait" /\ Reading'
    BY <2>1, SendInv
  <2>2. ASSUME NEW n \in 1 .. Len(stream), Read(n)
        PROVE  Understood' /\ pc' = "parse" /\ Reading'
    BY <2>2, ReadInv
  <2>3. ASSUME NEW n \in 1 .. Len(stream), ReadFull(n)
        PROVE  Understood' /\ pc' = "closed"
    BY <2>3 DEF ReadFull, Understood
  <2>4. CASE NoLine
    BY <2>4, NoLineInv
  <2>5. CASE parse_request_line
    BY <2>5, RequestLineInv
  <2>6. CASE parse_headers
    BY <2>6, HeadersInv
  <2>7. CASE parse_content
    BY <2>7, ContentInv
  <2>8. CASE Answer
    BY <2>8, AnswerInv
  <2> QED BY <2>1, <2>2, <2>3, <2>4, <2>5, <2>6, <2>7, <2>8 DEF Next, read, process_read
<1>3. CASE UNCHANGED hvars
  BY <1>3, SameInv
<1> QED BY <1>1, <1>2, <1>3 DEF Inv

\* process_read makes of a request what the client meant by it, however TCP cuts
\* it up and whatever requests were on the connection before (http_conn.cpp:129-180,
\* 207-358): if it gives a verdict at all, which it does not of a split body.
THEOREM RequestUnderstood == Spec => []Understood
<1>1. Inv => Understood
  BY DEF Inv
<1> QED BY InitInv, StepInv, <1>1, PTL DEF Spec

-----------------------------------------------------------------------------
(* What GetsVerdict needs beside fairness: process_read never waits for    *)
(* more of a request that is all there, and read() never fails on one that *)
(* fits.                                                                   *)

\* What holds besides if a body comes in one piece.
OnePiece ==
  pc \in {"wait", "parse"} =>
    /\ Len(stream) = 0 \/ Len(stream) >= request.body
    /\ ~AtLost
    /\ AtBody /\ pc = "parse" /\ line_status # "OK" => m_read_idx = m_checked_idx

LEMMA OnePieceStep == ASSUME ~BodySplit PROVE Inv /\ OnePiece /\ [Next]_hvars => OnePiece'
<1> SUFFICES ASSUME Inv, OnePiece, [Next]_hvars PROVE OnePiece'
  OBVIOUS
<1>0. Types /\ request \in Requests /\ m_read_idx \in Nat /\ Len(stream) \in Nat
      /\ m_checked_idx \in Nat /\ m_checked_idx <= m_read_idx
  BY LenProperties DEF Inv, Types, TypeOK, Stored, m_read_idx
<1>r. request.body \in Nat /\ EndStart(request) \in Nat
  BY <1>0, RequestType
<1>1. ASSUME NEW r \in Requests, Send(r)
      PROVE  OnePiece'
  <2>1. stream' = Bytes(r) /\ request' = r /\ pc' = "wait" /\ m_check_state' = "REQUESTLINE"
    BY <1>1 DEF Send, Inv, Fresh, AtRequestLine
  <2>2. Len(Bytes(r)) >= r.body
    <3>1. Shape(r, Bytes(r)) /\ Len(Bytes(r)) \in Nat /\ r.body \in Nat
      BY BytesShape, BytesUnits, RequestType
    <3> QED BY <3>1 DEF Shape
  <2> QED BY <2>1, <2>2 DEF OnePiece, AtLost
<1>2. ASSUME NEW n \in 1 .. Len(stream), Read(n)
      PROVE  OnePiece'
  <2>1. /\ pc = "wait" /\ line_status' = "OK"
        /\ UNCHANGED <<request, m_checked_idx, m_check_state, m_content_length>>
    BY <1>2 DEF Read, fieldVars
  <2>2. ~AtLost'
    BY <2>1 DEF OnePiece, AtLost
  <2>3. Len(stream') = Len(stream) - n
    BY <1>0, <1>2, DeliversPiece DEF Read
  <2>4. n = Len(stream) \/ Len(stream) - n >= request.body
    BY <1>2 DEF Read, Delivers
  <2>5. Len(stream') = 0 \/ Len(stream') >= request'.body
    BY <1>0, <2>1, <2>3, <2>4
  <2> QED BY <2>1, <2>2, <2>5 DEF OnePiece
<1>3. ASSUME NEW n \in 1 .. Len(stream), ReadFull(n)
      PROVE  OnePiece'
  BY <1>3 DEF ReadFull, OnePiece
<1>4. CASE process_read
  <2>1. pc = "parse" /\ Reading /\ ~AtLost /\ UNCHANGED <<request, stream, m_read_buf>>
    BY <1>4 DEF process_read, NoLine, parse_request_line, parse_headers, parse_content,
                NextLine, HasLine, Scanning, OnePiece, Inv
  <2>2. Len(stream') = 0 \/ Len(stream') >= request'.body
    BY <2>1 DEF OnePiece
  <2>3. m_read_idx' = m_read_idx
    BY <2>1 DEF m_read_idx
  <2>4. CASE NoLine
    <3>1. /\ pc' = "wait" /\ m_checked_idx' = parse_line.idx
          /\ UNCHANGED <<m_check_state, m_content_length>>
      BY <2>4 DEF NoLine, fieldVars
    <3>2. CASE AtBody
      <4>1. m_read_idx = m_checked_idx /\ m_checked_idx = EndStart(request) + 2
        BY <2>1, <2>4, <3>2 DEF OnePiece, NoLine, Scanning, AtBody
      <4>2. parse_line.idx = m_read_idx
        BY <1>0, <1>r, <2>1, <3>2, <4>1, BodyLine DEF Reading, AtBody
      <4>3. m_checked_idx' = EndStart(request') + 2
        BY <2>1, <3>1, <4>1, <4>2
      <4>4. ~(m_checked_idx' > EndStart(request') + 2)
        BY <1>r, <2>1, <4>3
      <4>5. ~AtLost'
        BY <4>4 DEF AtLost
      <4> QED BY <2>2, <3>1, <4>5 DEF OnePiece
    <3>3. CASE ~AtBody
      <4>1. m_check_state # "CONTENT"
        BY <2>1, <3>3 DEF Reading, AtRequestLine, AtTorn, AtKeepAlive, AtLength, AtBlank
      <4>2. ~AtLost'
        BY <3>1, <4>1 DEF AtLost
      <4> QED BY <2>2, <3>1, <4>2 DEF OnePiece
    <3> QED BY <3>2, <3>3
  <2>5. CASE parse_request_line
    <3>1. m_check_state' \in {"REQUESTLINE", "HEADER"}
      BY <2>5 DEF parse_request_line
    <3> QED BY <2>2, <3>1 DEF OnePiece, AtLost, AtBody
  <2>6. CASE parse_headers
    <3>1. /\ m_check_state = "HEADER" /\ parse_line.status = "OK" /\ line_status' = "OK"
          /\ m_checked_idx' = parse_line.idx /\ (Text # <<>> => m_check_state' = "HEADER")
      BY <2>6 DEF parse_headers, HasLine, NextLine
    <3>2. AtKeepAlive \/ AtLength \/ AtBlank
      <4>1. ~AtRequestLine /\ ~AtBody
        BY <3>1 DEF AtRequestLine, AtBody
      <4>2. ~AtTorn
        BY <1>0, <2>1, <3>1, LineFound
      <4> QED BY <2>1, <4>1, <4>2 DEF Reading
    <3>3. CASE AtKeepAlive \/ AtLength
      <4>1. Text = <<"keep-alive">> \/ Text = <<"length">>
        BY <1>0, <2>1, <3>1, <3>3, LineFound
      <4>2. Text # <<>>
        BY <4>1
      <4> QED BY <2>2, <3>1, <4>2 DEF OnePiece, AtLost, AtBody
    <3>4. CASE AtBlank
      <4>1. m_checked_idx' = EndStart(request') + 2
        BY <1>0, <2>1, <3>1, <3>4, LineFound DEF AtBlank
      <4>2. ~(m_checked_idx' > EndStart(request') + 2)
        BY <1>r, <2>1, <4>1
      <4> QED BY <2>2, <3>1, <4>2 DEF OnePiece, AtLost
    <3> QED BY <3>2, <3>3, <3>4
  <2>7. CASE parse_content
    <3>1. /\ m_check_state = "CONTENT"
          /\ UNCHANGED <<m_checked_idx, m_check_state, m_content_length>>
          /\ BodyComplete => pc' = "answer"
      BY <2>7 DEF parse_content, Return
    <3>2. AtBody
      BY <2>1, <3>1 DEF Reading, AtRequestLine, AtTorn, AtKeepAlive, AtLength, AtBlank
    <3>3. ~AtLost'
      BY <2>1, <3>1 DEF AtLost
    <3>4. CASE ~BodyComplete
      <4>1. m_read_idx < request.body + (EndStart(request) + 2)
            /\ m_checked_idx = EndStart(request) + 2
        BY <1>0, <1>r, <3>2, <3>4 DEF BodyComplete, AtBody
      <4>2. Len(Bytes(request)) = EndStart(request) + 2 + request.body
        BY <1>0, <3>2, BytesShape DEF Shape, AtBody
      <4>3. m_read_idx + Len(stream) = Len(Bytes(request))
        BY <2>1 DEF Reading, Delivered
      <4>4. Len(stream) >= request.body
        <5>1. Len(stream) > 0
          BY <1>0, <1>r, <4>1, <4>2, <4>3
        <5> QED BY <1>0, <2>1, <5>1 DEF OnePiece
      <4>5. m_read_idx = m_checked_idx
        BY <1>0, <1>r, <4>1, <4>2, <4>3, <4>4
      <4>6. m_read_idx' = m_checked_idx'
        BY <2>3, <3>1, <4>5
      <4> QED BY <2>2, <3>3, <4>6 DEF OnePiece
    <3>5. CASE BodyComplete
      BY <3>1, <3>5 DEF OnePiece
    <3> QED BY <3>4, <3>5
  <2> QED BY <1>4, <2>4, <2>5, <2>6, <2>7 DEF process_read
<1>5. CASE Answer
  <2>1. pc' \in {"idle", "closed"}
    BY <1>5 DEF Answer
  <2> QED BY <2>1 DEF OnePiece
<1>6. CASE UNCHANGED hvars
  <2>1. UNCHANGED <<pc, request, stream, m_check_state, line_status, m_read_buf, m_checked_idx,
                    m_start_line, cgi, m_linger, m_content_length>>
    BY <1>6 DEF hvars, bufVars, fieldVars
  <2>2. (AtBody' <=> AtBody) /\ (AtLost' <=> AtLost) /\ m_read_idx' = m_read_idx
    BY <2>1 DEF AtBody, AtLost, MethodKnown, m_read_idx
  <2> QED BY <2>1, <2>2 DEF OnePiece
<1> QED BY <1>1, <1>2, <1>3, <1>4, <1>5, <1>6 DEF Next, read

WaitsForMore == pc = "wait" /\ WellFormed(request) => Len(stream) > 0

LEMMA WaitsStep == Inv /\ OnePiece /\ WaitsForMore /\ [Next]_hvars => WaitsForMore'
<1> SUFFICES ASSUME Inv, OnePiece, WaitsForMore, [Next]_hvars, pc' = "wait", WellFormed(request)'
             PROVE  Len(stream') > 0
  BY DEF WaitsForMore
<1>1. ASSUME NEW r \in Requests, Send(r)
      PROVE  Len(stream') > 0
  <2>1. stream' = Bytes(r)
    BY <1>1 DEF Send
  <2>2. Shape(r, Bytes(r)) /\ Len(Bytes(r)) \in Nat
    BY BytesShape, BytesUnits
  <2> QED BY <2>1, <2>2 DEF Shape, LineIn
<1>2. CASE NoLine
  <2>1. Types /\ Reading /\ parse_line.status # "OK" /\ pc = "parse"
    BY <1>2 DEF Inv, NoLine, Scanning
  <2>2. UNCHANGED <<request, stream>>
    BY <1>2 DEF NoLine
  <2>3. WellFormed(request)
    BY <2>2
  <2>4. MoreToRead
    <3>1. CASE AtRequestLine
      BY <2>1, <3>1, LineFound
    <3>2. CASE AtTorn
      BY <2>3, <3>2 DEF WellFormed, AtTorn
    <3>3. CASE AtKeepAlive
      BY <2>1, <3>3, LineFound
    <3>4. CASE AtLength
      BY <2>1, <3>4, LineFound
    <3>5. CASE AtBlank
      BY <2>1, <3>5, LineFound
    <3>6. CASE AtBody
      <4>1. m_read_idx = m_checked_idx
        BY <1>2, <2>1, <3>6 DEF NoLine, Scanning, AtBody, OnePiece
      <4>2. request \in Requests
        BY <2>1 DEF Types, TypeOK
      <4>3. Len(Bytes(request)) = EndStart(request) + 2 + request.body
        BY <3>6, <4>2, BytesShape DEF Shape, AtBody
      <4>4. EndStart(request) \in Nat /\ request.body \in Nat
        BY <4>2, RequestType
      <4> QED BY <3>6, <4>1, <4>3, <4>4 DEF AtBody, MoreToRead
    <3>7. ~AtLost
      BY <2>1 DEF OnePiece
    <3> QED BY <2>1, <3>1, <3>2, <3>3, <3>4, <3>5, <3>6, <3>7 DEF Reading
  <2>5. m_read_idx \in Nat /\ Len(stream) \in Nat
    BY <2>1, LenProperties DEF Types, Stored, m_read_idx
  <2>6. m_read_idx + Len(stream) = Len(Bytes(request))
    BY <2>1 DEF Reading, Delivered
  <2> QED BY <2>2, <2>4, <2>5, <2>6 DEF MoreToRead
<1>3. CASE UNCHANGED hvars
  <2>1. UNCHANGED <<pc, request, stream>>
    BY <1>3 DEF hvars
  <2>2. WellFormed(request)
    BY <2>1
  <2> QED BY <2>1, <2>2 DEF WaitsForMore
<1>4. ASSUME NEW n \in 1 .. Len(stream), Read(n) \/ ReadFull(n)
      PROVE  FALSE
  BY <1>4 DEF Read, ReadFull
<1>5. ~(parse_request_line \/ parse_headers \/ parse_content)
  BY DEF parse_request_line, parse_headers, parse_content, HasLine, Scanning, Return, GoOn
<1>6. ~Answer
  BY DEF Answer
<1> QED BY <1>1, <1>2, <1>3, <1>4, <1>5, <1>6 DEF Next, read, process_read

\* A connection only waits for EPOLLIN while some of its request is under way:
\* process_read answers a well-formed request with the piece that completes it
\* (http_conn.cpp:265-358, 571-577), if a body comes in one piece.
THEOREM NoStall ==
  ASSUME ~BodySplit
  PROVE  Spec => [](pc = "wait" /\ WellFormed(request) => stream # <<>>)
<1>1. Inv /\ OnePiece /\ [Next]_hvars => OnePiece'
  BY OnePieceStep
<1>2. Init => WaitsForMore /\ OnePiece
  BY DEF Init, WaitsForMore, OnePiece
<1>3. WaitsForMore => (pc = "wait" /\ WellFormed(request) => stream # <<>>)
  <2>1. Len(<<>>) = 0
    BY EmptySeq
  <2> QED BY <2>1 DEF WaitsForMore
<1> QED BY InitInv, StepInv, <1>1, <1>2, <1>3, WaitsStep, PTL DEF Spec

\* The buffer and the network have the lengths of the request between them.
Whole ==
  /\ pc = "idle" => m_read_idx = 0
  /\ pc \in {"wait", "parse"} => m_read_idx + Len(stream) = Len(Bytes(request))

LEMMA WholeStep == Types /\ Whole /\ [Next]_hvars => Whole'
<1> SUFFICES ASSUME Types, Whole, [Next]_hvars PROVE Whole'
  OBVIOUS
<1>0. m_read_idx \in Nat /\ Len(stream) \in Nat
  BY LenProperties DEF Types, Stored, m_read_idx
<1>1. ASSUME NEW r \in Requests, Send(r)
      PROVE  Whole'
  <2>1. /\ m_read_idx' = 0 /\ stream' = Bytes(r) /\ request' = r /\ pc' = "wait"
    BY <1>1 DEF Send, Whole, bufVars, m_read_idx
  <2>2. Len(Bytes(r)) \in Nat
    BY BytesUnits
  <2> QED BY <2>1, <2>2 DEF Whole
<1>2. ASSUME NEW n \in 1 .. Len(stream), Read(n)
      PROVE  Whole'
  <2>1. Len(stream') = Len(stream) - n
    BY <1>2, DeliversPiece DEF Read
  <2>2. m_read_idx' = m_read_idx + n
    BY <1>2, ReadBuffer DEF m_read_idx
  <2>3. pc = "wait" /\ pc' = "parse" /\ request' = request
    BY <1>2 DEF Read
  <2> QED BY <1>0, <2>1, <2>2, <2>3 DEF Whole
<1>3. ASSUME NEW n \in 1 .. Len(stream), ReadFull(n)
      PROVE  Whole'
  BY <1>3 DEF ReadFull, Whole
<1>4. CASE process_read
  <2>1. pc = "parse" /\ pc' \in {"wait", "parse", "answer"}
    BY <1>4 DEF process_read, NoLine, parse_request_line, parse_headers, parse_content,
                HasLine, Scanning, Return, GoOn
  <2>2. UNCHANGED <<request, stream, m_read_buf>>
    BY <1>4 DEF process_read, NoLine, parse_request_line, parse_headers, parse_content,
                NextLine
  <2> QED BY <2>1, <2>2 DEF Whole, m_read_idx
<1>5. CASE Answer
  <2>1. CASE m_linger /\ init /\ pc' = "idle"
    <3>1. Len(<<>>) = 0
      BY EmptySeq
    <3> QED BY <2>1, <3>1 DEF init, Whole, m_read_idx
  <2>2. CASE pc' = "closed"
    BY <2>2 DEF Whole
  <2> QED BY <1>5, <2>1, <2>2 DEF Answer
<1>6. CASE UNCHANGED hvars
  BY <1>6 DEF hvars, bufVars, Whole, m_read_idx
<1> QED BY <1>1, <1>2, <1>3, <1>4, <1>5, <1>6 DEF Next, read

\* main() does not close a connection because of what the requests before left
\* in its buffer: read() only fails on a request that is itself as long as the
\* buffer (http_conn.cpp:183-199), however it is cut up, its body included.
THEOREM NotTurnedAway == Spec => [][pc = "wait" /\ Fits(request) => pc' # "closed"]_hvars
<1>1. Init => Whole
  <2>1. Len(<<>>) = 0
    BY EmptySeq
  <2> QED BY <2>1 DEF Init, Whole, m_read_idx
<1>2. Types /\ Whole /\ [Next]_hvars => [pc = "wait" /\ Fits(request) => pc' # "closed"]_hvars
  <2> SUFFICES ASSUME Types, Whole, Next, pc = "wait", Fits(request), pc' = "closed"
               PROVE  FALSE
    OBVIOUS
  <2>1. PICK n \in 1 .. Len(stream) : ReadFull(n)
    <3>1. ~process_read /\ ~Answer
      BY DEF process_read, NoLine, parse_request_line, parse_headers, parse_content, HasLine,
             Scanning, Answer
    <3>2. \A r \in Requests : ~Send(r)
      BY DEF Send
    <3>3. \A n \in 1 .. Len(stream) : ~Read(n)
      BY DEF Read
    <3> QED BY <3>1, <3>2, <3>3 DEF Next, read
  <2>2. m_read_idx \in Nat /\ Len(stream) \in Nat
    BY LenProperties DEF Types, Stored, m_read_idx
  <2>3. m_read_idx + n >= READ_BUFFER_SIZE /\ n <= Len(stream)
    BY <2>1, <2>2 DEF ReadFull
  <2>4. m_read_idx + Len(stream) < READ_BUFFER_SIZE
    BY DEF Whole, Fits
  <2> QED BY <2>2, <2>3, <2>4, ParserAssumption
<1> QED BY InitTypes, StepTypes, <1>1, WholeStep, <1>2, PTL DEF Spec
=============================================================================
