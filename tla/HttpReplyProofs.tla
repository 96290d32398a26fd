-------------------------- MODULE HttpReplyProofs ---------------------------
(***************************************************************************)
(* The client gets its reply in one piece, from the file it asked for, and *)
(* nothing stays mapped, for any size of files and of m_write_buf and any  *)
(* partial writes, as long as writev stops at most once within the header  *)
(* (http_conn.cpp:546-550 is only right the first time).                   *)
(***************************************************************************)
EXTENDS HttpReply, SequenceTheorems, TLAPS

Iov == [base : Int, len : Nat]

\* The units 1, 2, ..., n.
Units(n) == [i \in 1 .. n |-> i]

\* What of the reply is in the file.
FileLen == IF m_iv_count = 2 THEN st_size ELSE 0

\* The types, with the iovecs one by one.
Types ==
  /\ pc \in {"wait", "write", "closed"} /\ m_linger \in BOOLEAN
  /\ m_url \in 0 .. MaxName /\ m_real_file \in Seq(Nat \X Nat)
  /\ m_write_idx \in 0 .. 5
  /\ bytes_to_send \in Nat /\ bytes_have_send \in Nat
  /\ bytes_to_send + bytes_have_send <= WRITE_BUFFER_SIZE + MaxFile
  /\ \E v1, v2 \in Iov : m_iv = <<v1, v2>>
  /\ m_iv_count \in {1, 2}
  /\ m_file_address \in {NULL, MAP_FAILED} \cup 1 .. MaxMaps
  /\ st_size \in 0 .. MaxFile
  /\ maps \in [1 .. MaxMaps -> 0 .. MaxFile] /\ used \in 0 .. MaxMaps
  /\ splits \in 0 .. HeaderSplits /\ cut \subseteq 1 .. MaxMaps

\* The client has got the first units of the reply, and no other.
Prefix == \E n \in Nat : sent = Units(n) /\ (pc = "write" => n = bytes_have_send)

\* The iovecs hold the rest: all of it, what is left after a stop within the
\* header, or a part of the file.
Rest ==
  LET have == bytes_have_send IN
  /\ bytes_to_send > 0 /\ m_write_idx > 0
  /\ have + bytes_to_send = m_write_idx + FileLen
  /\ \/ /\ have < m_write_idx /\ (have > 0 => splits = 1)
        /\ m_iv[1] = [base |-> have, len |-> m_write_idx - have]
        /\ m_iv_count = 2 => m_iv[2] = [base |-> 0, len |-> st_size]
     \/ /\ have >= m_write_idx /\ m_iv_count = 2
        /\ m_iv[1].len = 0
        /\ m_iv[2] = [base |-> have - m_write_idx, len |-> bytes_to_send]

\* A request starts on a slot that init() has emptied.
Empty ==
  /\ m_write_idx = 0 /\ bytes_to_send = 0 /\ bytes_have_send = 0
  /\ m_real_file = <<>>

\* The file under way is the one that was asked for, and is mapped.
Mapped ==
  /\ m_real_file = Path(m_url)
  /\ m_file_address \in 1 .. MaxMaps /\ maps[m_file_address] = st_size

Left ==
  \A m \in (1 .. MaxMaps) \ cut :
    maps[m] > 0 => pc = "write" /\ m_iv_count = 2 /\ m_file_address = m

Inv ==
  /\ Types /\ Prefix /\ Left
  /\ pc = "wait" => Empty
  /\ pc = "write" => Rest /\ (m_iv_count = 2 => Mapped)

-----------------------------------------------------------------------------
\* A stretch of the reply behind its beginning makes a longer beginning.
LEMMA UnitsConcat ==
  ASSUME NEW n \in Nat, NEW k \in Nat PROVE Units(n) \o [i \in 1 .. k |-> n + i] = Units(n + k)
<1> DEFINE t == [i \in 1 .. k |-> n + i]
<1>1. Units(n) \in Seq(Int) /\ Len(Units(n)) = n BY DEF Units
<1>2. t \in Seq(Int) /\ Len(t) = k OBVIOUS
<1> HIDE DEF t
<1>3. /\ Len(Units(n) \o t) = n + k
      /\ \A i \in 1 .. n + k : (Units(n) \o t)[i] =
           IF i <= n THEN Units(n)[i] ELSE t[i - n]
  <2> DEFINE u == Units(n)
  <2> HIDE DEF u
  <2>1. u \in Seq(Int) /\ Len(u) = n BY <1>1 DEF u
  <2>2. /\ Len(u \o t) = Len(u) + Len(t)
        /\ \A i \in 1 .. Len(u) + Len(t) : (u \o t)[i] =
             IF i <= Len(u) THEN u[i] ELSE t[i - Len(u)]
    BY <1>2, <2>1, ConcatProperties
  <2> QED BY <1>2, <2>1, <2>2 DEF u
<1>4. \A i \in 1 .. n + k : (Units(n) \o t)[i] = i BY <1>3 DEF Units, t
<1>5. Units(n + k) \in Seq(Int) /\ Len(Units(n + k)) = n + k
      /\ \A i \in 1 .. n + k : Units(n + k)[i] = i
  BY DEF Units
<1>6. Units(n) \o t \in Seq(Int) BY <1>1, <1>2, ConcatProperties
<1>7. Units(n) \o t = Units(n + k) BY <1>3, <1>4, <1>5, <1>6, SeqEqual
<1> QED BY <1>7 DEF t

\* Nothing is behind an empty m_real_file.
LEMMA FreshPath ==
  ASSUME NEW u \in Nat, m_real_file = <<>> PROVE RealFile(u) = {Path(u)}
<1>1. Path(u) \in Seq({u} \X Nat) BY DEF Path
<1>2. SubSeq(<<>>, u + 1, 0) = <<>> BY SubSeqEmpty
<1>3. Path(u) \o <<>> = Path(u) BY <1>1, ConcatEmptySeq
<1>4. Len(m_real_file) = 0 OBVIOUS
<1> QED BY <1>2, <1>3, <1>4 DEF RealFile

\* m_iv[0].iov_len = 0
LEMMA IovEmpty ==
  ASSUME NEW v \in Iov PROVE [v EXCEPT !.len = 0] = [base |-> v.base, len |-> 0]
  BY DEF Iov

\* All of m_write_buf is sent: the file is taken from where it has come to.
LEMMA AdvanceFile ==
  ASSUME m_iv[1] \in Iov, NEW have \in Int, NEW left \in Int, have >= m_iv[1].len
  PROVE  Advance(have, left) =
           <<[base |-> m_iv[1].base, len |-> 0], [base |-> have - m_write_idx, len |-> left]>>
<1>1. Advance(have, left) =
        <<[m_iv[1] EXCEPT !.len = 0], [base |-> have - m_write_idx, len |-> left]>>
  BY ZenonT(20) DEF Advance
<1> QED BY <1>1, IovEmpty

\* An empty m_write_buf has room for the header and an error text.
LEMMA HeaderFits == ASSUME Empty PROVE Header = 4 /\ ErrorPage = 5
<1> QED BY ReplyAssumption DEF Empty, Header, ErrorPage, add_response

\* While a reply is under way the iovecs hold what is still to be sent.
LEMMA RestTotal ==
  ASSUME Types, Rest PROVE Total = bytes_to_send
<1>1. PICK v1, v2 \in Iov : m_iv = <<v1, v2>> BY DEF Types
<1>2. m_iv[1] = v1 /\ m_iv[2] = v2 /\ v1.len \in Nat /\ v2.len \in Nat BY <1>1 DEF Iov
<1>3. /\ m_write_idx \in Nat /\ st_size \in Nat /\ m_iv_count \in {1, 2}
      /\ bytes_to_send \in Nat /\ bytes_have_send \in Nat
  BY ReplyAssumption DEF Types
<1>4. CASE m_iv_count = 1 BY <1>2, <1>3, <1>4 DEF Rest, Total, FileLen
<1>5. CASE m_iv_count = 2 BY <1>2, <1>3, <1>5 DEF Rest, Total, FileLen
<1> QED BY <1>3, <1>4, <1>5

\* What a writev that takes k units does: the client has k units more, and a
\* stop within the header is the first.
LEMMA Sends ==
  ASSUME HeaderSplits <= 1, Types, Prefix, Rest, pc = "write", NEW k \in Nat, writev(k)
  PROVE  /\ 1 <= k /\ k <= bytes_to_send
         /\ sent' = Units(bytes_have_send + k)
         /\ splits' \in 0 .. HeaderSplits
         /\ bytes_have_send + k < m_write_idx => bytes_have_send = 0 /\ splits' = 1
<1> DEFINE have == bytes_have_send
           k1 == IF k <= m_iv[1].len THEN k ELSE m_iv[1].len
<1>0. /\ m_write_idx \in Nat /\ st_size \in Nat /\ m_iv_count \in {1, 2}
      /\ bytes_to_send \in Nat /\ have \in Nat /\ splits \in 0 .. HeaderSplits
      /\ HeaderSplits \in Nat
  BY ReplyAssumption DEF Types
<1>1. 1 <= k /\ k <= bytes_to_send BY <1>0, RestTotal DEF writev, Rest
<1>2. sent = Units(have) BY DEF Prefix
<1>3. /\ sent' = sent \o FromBuf(m_iv[1].base, k1) \o FromFile(m_iv[2].base, k - k1)
      /\ IF Len(sent') < m_write_idx
         THEN splits < HeaderSplits /\ splits' = splits + 1 ELSE UNCHANGED splits
  BY DEF writev
<1>4. FromBuf(0, 0) = <<>> /\ \A b \in Int : FromFile(b, 0) = <<>> /\ FromBuf(b, 0) = <<>>
  BY DEF FromBuf, FromFile
<1>5. sent' = Units(have + k)
  <2>1. CASE have >= m_write_idx
    <3>1. k1 = 0 /\ m_iv[2].base = have - m_write_idx
      BY <1>0, <1>1, <2>1 DEF Rest
    <3>2. FromBuf(m_iv[1].base, 0) = <<>> BY DEF FromBuf
    <3>3. FromFile(have - m_write_idx, k) = [i \in 1 .. k |-> have + i]
      <4>1. \A i \in 1 .. k : have - m_write_idx + i > 0
                              /\ m_write_idx + (have - m_write_idx) + i = have + i
        BY <1>0, <2>1
      <4> QED BY <4>1 DEF FromFile
    <3>4. Units(have) \o <<>> = Units(have)
      <4>1. Units(have) \in Seq(Int) BY <1>0 DEF Units
      <4> QED BY <4>1, ConcatEmptySeq
    <3>5. sent' = Units(have) \o <<>> \o [i \in 1 .. k |-> have + i]
      <4>1. k - k1 = k BY <1>0, <3>1
      <4> QED BY <1>2, <1>3, <3>1, <3>2, <3>3, <4>1
    <3> QED BY <1>0, <3>4, <3>5, UnitsConcat
  <2>2. CASE have < m_write_idx
    <3>1. /\ m_iv[1].base = have /\ m_iv[1].len = m_write_idx - have
          /\ m_iv_count = 2 => m_iv[2].base = 0
      BY <1>0, <2>2 DEF Rest
    <3>2. k1 \in Nat /\ have + k1 <= m_write_idx /\ k1 <= k BY <1>0, <2>2, <3>1
    <3>3. FromBuf(have, k1) = [i \in 1 .. k1 |-> have + i]
      <4>1. \A i \in 1 .. k1 : have + i <= m_write_idx BY <1>0, <3>2
      <4> QED BY <4>1 DEF FromBuf
    <3>4. Units(have) \o FromBuf(have, k1) = Units(have + k1)
      BY <1>0, <3>2, <3>3, UnitsConcat
    <3>5. CASE k1 = k
      <4>1. FromFile(m_iv[2].base, 0) = <<>> BY DEF FromFile
      <4>2. Units(have + k) \in Seq(Int) BY <1>0 DEF Units
      <4>3. Units(have + k) \o <<>> = Units(have + k) BY <4>2, ConcatEmptySeq
      <4> QED BY <1>2, <1>3, <3>1, <3>4, <3>5, <4>1, <4>3
    <3>6. CASE k1 # k
      <4>1. have + k1 = m_write_idx /\ k - k1 \in Nat BY <1>0, <3>1, <3>2, <3>6
      <4>2. m_iv_count = 2 BY <1>0, <1>1, <2>2, <3>1, <3>2, <3>6, <4>1 DEF Rest, FileLen
      <4>3. FromFile(0, k - k1) = [i \in 1 .. k - k1 |-> (have + k1) + i]
        <5>1. \A i \in 1 .. k - k1 : 0 + i > 0 /\ m_write_idx + 0 + i = (have + k1) + i
          BY <1>0, <4>1
        <5> QED BY <5>1 DEF FromFile
      <4>4. Units(have + k1) \o FromFile(0, k - k1) = Units((have + k1) + (k - k1))
        BY <1>0, <3>2, <4>1, <4>3, UnitsConcat
      <4>5. (have + k1) + (k - k1) = have + k BY <1>0, <3>2
      <4> QED BY <1>2, <1>3, <3>1, <3>4, <4>2, <4>4, <4>5
    <3> QED BY <3>5, <3>6
  <2> QED BY <1>0, <2>1, <2>2
<1>6. Len(sent') = have + k BY <1>0, <1>5 DEF Units
<1>7. splits' \in 0 .. HeaderSplits BY <1>0, <1>3
<1>8. ASSUME have + k < m_write_idx PROVE have = 0 /\ splits' = 1
  <2>1. splits = 0 /\ splits' = 1 BY <1>0, <1>3, <1>6, <1>8
  <2>2. have < m_write_idx BY <1>0, <1>8
  <2> QED BY <1>0, <2>1, <2>2 DEF Rest
<1> QED BY <1>1, <1>5, <1>7, <1>8

\* unmap() leaves nothing mapped but what main() cut short before.
LEMMA UnmapClears ==
  ASSUME Types, Left, pc = "write", m_iv_count = 2 => Mapped, unmap
  PROVE  /\ m_file_address' = NULL /\ UNCHANGED <<st_size, used, cut>>
         /\ maps' \in [1 .. MaxMaps -> 0 .. MaxFile]
         /\ \A m \in (1 .. MaxMaps) \ cut : maps'[m] = 0
<1>0. /\ maps \in [1 .. MaxMaps -> 0 .. MaxFile] /\ st_size \in 0 .. MaxFile
      /\ MaxFile \in Nat
  BY ReplyAssumption DEF Types
<1>1. m_file_address' = NULL /\ UNCHANGED <<st_size, used, cut>> BY DEF unmap
<1>2. CASE m_file_address \in 1 .. MaxMaps
  <2> DEFINE left == IF st_size >= maps[m_file_address] THEN 0
                     ELSE maps[m_file_address] - st_size
  <2>1. maps' = [maps EXCEPT ![m_file_address] = left] BY <1>2 DEF unmap
  <2>2. left \in 0 .. MaxFile BY <1>0, <1>2
  <2>3. maps' \in [1 .. MaxMaps -> 0 .. MaxFile] BY <1>0, <2>1, <2>2
  <2>4. ASSUME NEW m \in (1 .. MaxMaps) \ cut PROVE maps'[m] = 0
    <3>1. CASE m = m_file_address
      <4>1. maps[m] > 0 => maps[m] = st_size BY <3>1 DEF Left, Mapped
      <4>2. maps'[m] = left /\ maps[m] \in 0 .. MaxFile BY <1>0, <2>1, <3>1
      <4> QED BY <1>0, <3>1, <4>1, <4>2
    <3>2. CASE m # m_file_address
      <4>1. maps'[m] = maps[m] /\ maps[m] \in 0 .. MaxFile BY <1>0, <2>1, <3>2
      <4>2. ~(maps[m] > 0) BY <3>2 DEF Left
      <4> QED BY <1>0, <4>1, <4>2
    <3> QED BY <3>1, <3>2
  <2> QED BY <1>1, <2>3, <2>4
<1>3. CASE m_file_address \notin 1 .. MaxMaps
  <2>1. UNCHANGED maps BY <1>3 DEF unmap
  <2>2. \A m \in (1 .. MaxMaps) \ cut : maps[m] \in 0 .. MaxFile /\ ~(maps[m] > 0)
    BY <1>0, <1>3 DEF Left
  <2> QED BY <1>0, <1>1, <2>1, <2>2
<1> QED BY <1>2, <1>3

-----------------------------------------------------------------------------
\* A slot starts empty, with nothing mapped.
LEMMA InitInv == Init => Inv
<1> SUFFICES ASSUME Init PROVE Inv OBVIOUS
<1> USE ReplyAssumption DEF Init
<1>1. NoIov \in Iov BY DEF NoIov, Iov
<1>2. m_real_file \in Seq(Nat \X Nat) OBVIOUS
<1>3. Types
  <2>1. \E v1, v2 \in Iov : m_iv = <<v1, v2>> BY <1>1
  <2>2. maps \in [1 .. MaxMaps -> 0 .. MaxFile] OBVIOUS
  <2>3. 0 \in 0 .. MaxName /\ 0 \in 0 .. MaxFile /\ 0 \in 0 .. MaxMaps
        /\ 0 \in 0 .. HeaderSplits /\ 0 \in 0 .. 5 /\ 0 + 0 <= WRITE_BUFFER_SIZE + MaxFile
    OBVIOUS
  <2> QED BY <1>2, <2>1, <2>2, <2>3 DEF Types, NULL
<1>4. Prefix
  <2>1. Units(0) = <<>> BY DEF Units
  <2> QED BY <2>1 DEF Prefix
<1>5. Left BY DEF Left
<1> QED BY <1>3, <1>4, <1>5 DEF Inv, Empty

\* process() starts a reply: all of it is still to be sent (http_conn.cpp:613-683).
LEMMA StartInv ==
  ASSUME Inv, NEW n \in {4, 5}, NEW iov2 \in Iov, NEW count \in {1, 2},
         NEW size \in 0 .. MaxFile, StartReply(n, iov2, count, size),
         count = 1 => size = 0,
         count = 2 => iov2 = [base |-> 0, len |-> size] /\ st_size' = size /\ Mapped',
         m_url' \in 0 .. MaxName /\ m_real_file' \in Seq(Nat \X Nat),
         m_file_address' \in {NULL, MAP_FAILED} \cup 1 .. MaxMaps,
         st_size' \in 0 .. MaxFile,
         maps' \in [1 .. MaxMaps -> 0 .. MaxFile] /\ used' \in 0 .. MaxMaps,
         \A m \in (1 .. MaxMaps) \ cut :
           maps'[m] > 0 => maps[m] > 0 \/ (count = 2 /\ m_file_address' = m)
  PROVE  Inv'
<1> USE ReplyAssumption
<1>1. /\ pc = "wait" /\ pc' = "write" /\ m_linger' \in BOOLEAN
      /\ m_write_idx' = n /\ bytes_to_send' = n + size
      /\ m_iv' = <<[base |-> 0, len |-> n], iov2>> /\ m_iv_count' = count
      /\ sent' = <<>> /\ splits' = 0 /\ UNCHANGED <<bytes_have_send, cut>>
  BY DEF StartReply, Forget
<1>2. bytes_have_send' = 0 BY <1>1 DEF Inv, Empty
<1>3. [base |-> 0, len |-> n] \in Iov BY DEF Iov
<1>4. Types'
  <2>1. bytes_to_send' + bytes_have_send' <= WRITE_BUFFER_SIZE + MaxFile
    BY <1>1, <1>2
  <2>2. \E v1, v2 \in Iov : m_iv' = <<v1, v2>> BY <1>1, <1>3
  <2>3. bytes_to_send' \in Nat /\ bytes_have_send' \in Nat /\ m_write_idx' \in 0 .. 5
    BY <1>1, <1>2
  <2>4. cut' \subseteq 1 .. MaxMaps /\ splits' \in 0 .. HeaderSplits
    BY <1>1 DEF Inv, Types
  <2> QED BY <1>1, <2>1, <2>2, <2>3, <2>4 DEF Types
<1>5. Prefix'
  <2>1. Units(0) = <<>> BY DEF Units
  <2> QED BY <1>1, <1>2, <2>1 DEF Prefix
<1>6. Left' BY <1>1 DEF Inv, Left
<1>7. FileLen' = size BY <1>1 DEF FileLen
<1>8. m_iv'[1] = [base |-> 0, len |-> n] /\ m_iv'[2] = iov2 BY <1>1
<1>9. Rest' BY <1>1, <1>2, <1>7, <1>8 DEF Rest
<1> QED BY <1>1, <1>4, <1>5, <1>6, <1>9 DEF Inv

\* do_request puts the path of the page on an empty m_real_file.
LEMMA PathAsked ==
  ASSUME Inv, pc = "wait", do_request
  PROVE  m_url' \in 0 .. MaxName /\ m_real_file' = Path(m_url')
         /\ m_real_file' \in Seq(Nat \X Nat)
<1>1. PICK u \in 1 .. MaxName : m_url' = u /\ m_real_file' \in RealFile(u)
  BY DEF do_request
<1>2. u \in Nat /\ u \in 0 .. MaxName BY ReplyAssumption
<1>3. m_real_file = <<>> BY DEF Inv, Empty
<1>4. m_real_file' = Path(u) BY <1>1, <1>2, <1>3, FreshPath
<1>5. Path(u) \in Seq(Nat \X Nat) BY <1>2 DEF Path
<1> QED BY <1>1, <1>2, <1>4, <1>5

\* A file is mapped and its reply started.
LEMMA FileInv ==
  ASSUME Inv, NEW size \in 1 .. MaxFile, ReplyFile(size) PROVE Inv'
<1> USE ReplyAssumption
<1>1. /\ pc = "wait" /\ used < MaxMaps /\ used' = used + 1
      /\ maps' = [maps EXCEPT ![used + 1] = size]
      /\ m_file_address' = used + 1 /\ st_size' = size
      /\ StartReply(Header, [base |-> 0, len |-> size], 2, size)
  BY DEF ReplyFile, StartReply
<1>2. Empty /\ Header = 4 BY <1>1, HeaderFits DEF Inv
<1>3. used \in 0 .. MaxMaps /\ maps \in [1 .. MaxMaps -> 0 .. MaxFile]
  BY DEF Inv, Types
<1>4. used + 1 \in 1 .. MaxMaps /\ used' \in 0 .. MaxMaps BY <1>1, <1>3
<1>5. /\ maps' \in [1 .. MaxMaps -> 0 .. MaxFile] /\ maps'[used + 1] = size
      /\ \A m \in 1 .. MaxMaps : m # used + 1 => maps'[m] = maps[m]
  BY <1>1, <1>3, <1>4
<1>6. do_request BY DEF ReplyFile
<1>7. m_url' \in 0 .. MaxName /\ m_real_file' = Path(m_url') /\ m_real_file' \in Seq(Nat \X Nat)
  BY <1>1, <1>6, PathAsked
<1>8. Path(m_url)' = Path(m_url') BY DEF Path
<1>9. Mapped' BY <1>1, <1>4, <1>5, <1>7, <1>8 DEF Mapped
<1>10. [base |-> 0, len |-> size] \in Iov BY DEF Iov
<1>11. StartReply(4, [base |-> 0, len |-> size], 2, size) BY <1>1, <1>2
<1>12. size \in 0 .. MaxFile OBVIOUS
<1> QED BY <1>1, <1>4, <1>5, <1>7, <1>9, <1>10, <1>11, <1>12, StartInv

\* An error page: m_iv[1] is all there is, whatever m_iv[2] was left as.
LEMMA ErrorInv ==
  ASSUME Inv, \/ ReplyError
              \/ \E size \in 1 .. MaxFile : ReplyDenied(size)
  PROVE  Inv'
<1> USE ReplyAssumption
<1>1. /\ pc = "wait" /\ StartReply(ErrorPage, m_iv[2], 1, 0)
      /\ UNCHANGED <<m_file_address, maps, used>>
      /\ do_request \/ UNCHANGED pathVars
      /\ st_size' \in 0 .. MaxFile
  BY DEF ReplyError, ReplyDenied, StartReply, fileVars, Inv, Types
<1>2. Empty /\ ErrorPage = 5 BY <1>1, HeaderFits DEF Inv
<1>3. StartReply(5, m_iv[2], 1, 0) BY <1>1, <1>2
<1>4. m_iv[2] \in Iov
  <2>1. PICK v1, v2 \in Iov : m_iv = <<v1, v2>> BY DEF Inv, Types
  <2> QED BY <2>1
<1>5. m_url' \in 0 .. MaxName /\ m_real_file' \in Seq(Nat \X Nat)
  <2>1. CASE do_request BY <1>1, <2>1, PathAsked
  <2>2. CASE UNCHANGED pathVars BY <2>2 DEF pathVars, Inv, Types
  <2> QED BY <1>1, <2>1, <2>2
<1>6. /\ m_file_address' \in {NULL, MAP_FAILED} \cup 1 .. MaxMaps
      /\ maps' \in [1 .. MaxMaps -> 0 .. MaxFile] /\ used' \in 0 .. MaxMaps
      /\ \A m \in (1 .. MaxMaps) \ cut : maps'[m] > 0 => maps[m] > 0
  BY <1>1 DEF Inv, Types
<1>7. 0 \in 0 .. MaxFile OBVIOUS
<1> QED BY <1>1, <1>3, <1>4, <1>5, <1>6, <1>7, StartInv

\* Closing steps leave the iovecs to nobody.
LEMMA RefuseInv == ASSUME Inv, RefuseEmpty PROVE Inv'
<1> USE ReplyAssumption
<1>1. /\ pc = "wait" /\ pc' = "closed" /\ do_request
      /\ m_file_address' = MAP_FAILED /\ st_size' = 0 /\ m_write_idx' = ErrorPage
      /\ sent' = <<>> /\ splits' = 0
      /\ UNCHANGED <<m_linger, bytes_to_send, bytes_have_send, m_iv, m_iv_count, maps,
                     used, cut>>
  BY DEF RefuseEmpty, Forget
<1>2. ErrorPage = 5 BY <1>1, HeaderFits DEF Inv
<1>3. m_url' \in 0 .. MaxName /\ m_real_file' \in Seq(Nat \X Nat) BY <1>1, PathAsked
<1>4. Types' BY <1>1, <1>2, <1>3 DEF Inv, Types
<1>5. Prefix'
  <2>1. Units(0) = <<>> BY DEF Units
  <2> QED BY <1>1, <2>1 DEF Prefix
<1>6. Left' BY <1>1 DEF Inv, Left
<1> QED BY <1>1, <1>4, <1>5, <1>6 DEF Inv

\* write() sends a part: the iovecs it computes hold the rest (http_conn.cpp:539-550).
LEMMA SomeInv ==
  ASSUME HeaderSplits <= 1, Inv, NEW k \in Nat, WriteSome(k) PROVE Inv'
<1> USE ReplyAssumption
<1> DEFINE have == bytes_have_send
<1>1. /\ pc = "write" /\ writev(k) /\ k < bytes_to_send
      /\ bytes_to_send' = bytes_to_send - k /\ bytes_have_send' = have + k
      /\ m_iv' = Advance(bytes_have_send', bytes_to_send')
      /\ UNCHANGED <<pc, m_linger, m_url, m_real_file, m_write_idx, m_iv_count,
                     m_file_address, st_size, maps, used, cut>>
  BY DEF WriteSome, pathVars, fileVars
<1>2. Types /\ Prefix /\ Left /\ Rest /\ (m_iv_count = 2 => Mapped) BY <1>1 DEF Inv
<1>3. /\ 1 <= k /\ sent' = Units(have + k) /\ splits' \in 0 .. HeaderSplits
      /\ have + k < m_write_idx => have = 0 /\ splits' = 1
  BY <1>1, <1>2, Sends
<1>4. PICK v1, v2 \in Iov : m_iv = <<v1, v2>> BY <1>2 DEF Types
<1>5. m_iv[1] = v1 /\ m_iv[2] = v2 /\ v1.base \in Int /\ v1.len \in Nat BY <1>4 DEF Iov
<1>6. /\ m_write_idx \in 0 .. 5 /\ st_size \in 0 .. MaxFile /\ m_iv_count \in {1, 2}
      /\ bytes_to_send \in Nat /\ have \in Nat
      /\ bytes_to_send + have <= WRITE_BUFFER_SIZE + MaxFile
  BY <1>2 DEF Types
<1>7. /\ bytes_to_send' \in Nat /\ bytes_to_send' > 0 /\ bytes_have_send' \in Nat
      /\ bytes_have_send' + bytes_to_send' = have + bytes_to_send
      /\ bytes_have_send' > 0
  BY <1>1, <1>3, <1>6
<1>8. FileLen' = FileLen /\ FileLen \in Nat BY <1>1, <1>6 DEF FileLen
<1>9. Rest' /\ \E u1, u2 \in Iov : m_iv' = <<u1, u2>>
  <2>1. CASE have + k < m_write_idx
    <3>1. have = 0 /\ splits' = 1 /\ v1 = [base |-> 0, len |-> m_write_idx]
          /\ (m_iv_count = 2 => v2 = [base |-> 0, len |-> st_size])
      BY <1>2, <1>3, <1>5, <1>6, <2>1 DEF Rest
    <3> DEFINE u == [base |-> have + k, len |-> m_write_idx - (have + k)]
    <3>2. m_iv' = <<u, v2>> BY <1>1, <1>5, <1>6, <2>1, <3>1 DEF Advance
    <3>3. u \in Iov BY <1>6, <2>1 DEF Iov
    <3>4. m_iv'[1] = u /\ m_iv'[2] = v2 BY <3>2
    <3> HIDE DEF u
    <3>5. Rest'
      BY <1>1, <1>2, <1>6, <1>7, <1>8, <2>1, <3>1, <3>4 DEF Rest, u
    <3> QED BY <3>2, <3>3, <3>5
  <2>2. CASE have + k >= m_write_idx
    <3>1. have + k >= m_iv[1].len
      BY <1>2, <1>5, <1>6, <2>2 DEF Rest
    <3> DEFINE u1 == [base |-> m_iv[1].base, len |-> 0]
               u2 == [base |-> bytes_have_send' - m_write_idx, len |-> bytes_to_send']
    <3>a. m_iv[1] \in Iov BY <1>4
    <3>2. m_iv' = <<u1, u2>>
      <4>1. /\ bytes_have_send' \in Int /\ bytes_to_send' \in Int
            /\ bytes_have_send' >= m_iv[1].len
        BY <1>1, <1>7, <3>1
      <4> QED BY <1>1, <3>a, <4>1, AdvanceFile
    <3>3. u1 \in Iov /\ u1.len = 0 BY <1>5 DEF Iov
    <3>4. u2 \in Iov BY <1>1, <1>6, <1>7 DEF Iov
    <3>5. m_iv_count = 2
      BY <1>1, <1>2, <1>6, <1>7, <2>2 DEF Rest, FileLen
    <3> HIDE DEF u1, u2
    <3>6. m_iv'[1] = u1 /\ m_iv'[2] = u2 BY <3>2
    <3>7. u2 = [base |-> bytes_have_send' - m_write_idx', len |-> bytes_to_send']
      BY <1>1, <1>6 DEF u2
    <3>8. Rest'
      BY <1>1, <1>2, <1>6, <1>7, <1>8, <2>2, <3>3, <3>5, <3>6, <3>7 DEF Rest
    <3> QED BY <3>2, <3>3, <3>4, <3>8
  <2> QED BY <1>6, <2>1, <2>2
<1>10. Types'
  BY <1>1, <1>2, <1>3, <1>6, <1>7, <1>9 DEF Types
<1>11. Prefix' BY <1>1, <1>3, <1>7 DEF Prefix
<1>12. Left' BY <1>1, <1>2 DEF Left
<1>13. m_iv_count' = 2 => Mapped'
  BY <1>1, <1>2 DEF Mapped, Path
<1> QED BY <1>1, <1>9, <1>10, <1>11, <1>12, <1>13 DEF Inv

\* The last round: unmap(), and init() or the end (http_conn.cpp:552-564).
LEMMA LastInv ==
  ASSUME HeaderSplits <= 1, Inv, NEW k \in Nat, WriteLast(k) PROVE Inv'
<1> USE ReplyAssumption
<1> DEFINE have == bytes_have_send
<1>1. pc = "write" /\ writev(k) /\ k >= bytes_to_send /\ unmap BY DEF WriteLast
<1>2. Types /\ Prefix /\ Left /\ Rest /\ (m_iv_count = 2 => Mapped) BY <1>1 DEF Inv
<1>3. k <= bytes_to_send /\ sent' = Units(have + k) /\ splits' \in 0 .. HeaderSplits
  BY <1>1, <1>2, Sends
<1>4. /\ m_file_address' = NULL /\ UNCHANGED <<st_size, used, cut>>
      /\ maps' \in [1 .. MaxMaps -> 0 .. MaxFile]
      /\ \A m \in (1 .. MaxMaps) \ cut : maps'[m] = 0
  BY <1>1, <1>2, UnmapClears
<1>5. PICK v1, v2 \in Iov : m_iv = <<v1, v2>> BY <1>2 DEF Types
<1>6. /\ m_write_idx \in 0 .. 5 /\ st_size \in 0 .. MaxFile /\ m_iv_count \in {1, 2}
      /\ bytes_to_send \in Nat /\ have \in Nat
      /\ bytes_to_send + have <= WRITE_BUFFER_SIZE + MaxFile
  BY <1>2 DEF Types
<1>7. k = bytes_to_send BY <1>1, <1>3, <1>6
<1>8. Left' BY <1>4 DEF Left
<1>9. pc' \in {"wait", "closed"} BY DEF WriteLast
<1>10. Prefix' BY <1>3, <1>6, <1>9 DEF Prefix
<1>11. CASE m_linger /\ init /\ pc' = "wait"
  <2>1. Empty' /\ m_linger' = FALSE /\ m_url' = 0 /\ UNCHANGED <<m_iv, m_iv_count>>
    BY <1>11 DEF init, Empty
  <2>2. <<>> \in Seq(Nat \X Nat) OBVIOUS
  <2>3. 0 \in 0 .. MaxName /\ 0 \in 0 .. 5 /\ 0 + 0 <= WRITE_BUFFER_SIZE + MaxFile OBVIOUS
  <2>4. \E u1, u2 \in Iov : m_iv' = <<u1, u2>> BY <1>5, <2>1
  <2>5. /\ m_linger' \in BOOLEAN /\ m_iv_count' \in {1, 2}
        /\ st_size' \in 0 .. MaxFile /\ used' \in 0 .. MaxMaps /\ cut' \subseteq 1 .. MaxMaps
    BY <1>2, <1>4, <2>1 DEF Types
  <2>6. Types'
    BY <1>3, <1>4, <1>11, <2>1, <2>2, <2>3, <2>4, <2>5 DEF Types, Empty
  <2> QED BY <1>8, <1>10, <1>11, <2>1, <2>6 DEF Inv
<1>12. CASE /\ pc' = "closed" /\ bytes_to_send' = bytes_to_send - k
            /\ bytes_have_send' = have + k
            /\ m_iv' = Advance(bytes_have_send', bytes_to_send')
            /\ UNCHANGED <<m_linger, pathVars, m_write_idx, m_iv_count>>
  <2>1. bytes_to_send' = 0 /\ bytes_have_send' = have + k /\ have + k \in Nat
    BY <1>6, <1>7, <1>12
  <2>2. m_iv[1] = v1 /\ m_iv[2] = v2 /\ v1.base \in Int /\ v1.len \in Nat BY <1>5 DEF Iov
  <2>3. have + k >= m_iv[1].len
    BY <1>2, <1>6, <1>7, <2>2 DEF Rest, FileLen
  <2> DEFINE u1 == [base |-> m_iv[1].base, len |-> 0]
             u2 == [base |-> bytes_have_send' - m_write_idx, len |-> bytes_to_send']
  <2>a. m_iv[1] \in Iov BY <1>5
  <2>4. m_iv' = <<u1, u2>>
    <3>1. /\ bytes_have_send' \in Int /\ bytes_to_send' \in Int
          /\ bytes_have_send' >= m_iv[1].len
      BY <2>1, <2>3
    <3> QED BY <1>12, <2>a, <3>1, AdvanceFile
  <2>5. u1 \in Iov BY <2>2 DEF Iov
  <2>6. u2 \in Iov BY <1>6, <2>1 DEF Iov
  <2> HIDE DEF u1, u2
  <2>7. Types'
    BY <1>2, <1>3, <1>4, <1>6, <1>7, <1>12, <2>1, <2>4, <2>5, <2>6 DEF Types, pathVars
  <2> QED BY <1>8, <1>10, <1>12, <2>7 DEF Inv
<1> QED BY <1>11, <1>12 DEF WriteLast

\* writev fails, main() closes, or the next client comes.
LEMMA EndInv == ASSUME Inv, WriteError \/ Abort \/ NextClient PROVE Inv'
<1> USE ReplyAssumption
<1>1. CASE WriteError
  <2>1. /\ pc = "write" /\ pc' = "closed" /\ unmap
        /\ UNCHANGED <<m_linger, m_url, m_real_file, m_write_idx, bytes_to_send,
                       bytes_have_send, m_iv, m_iv_count, sent, splits>>
    BY <1>1 DEF WriteError, pathVars, sendVars
  <2>2. /\ m_file_address' = NULL /\ UNCHANGED <<st_size, used, cut>>
        /\ maps' \in [1 .. MaxMaps -> 0 .. MaxFile]
        /\ \A m \in (1 .. MaxMaps) \ cut : maps'[m] = 0
    BY <2>1, UnmapClears DEF Inv
  <2>3. Types' BY <2>1, <2>2 DEF Inv, Types
  <2>4. Left' BY <2>2 DEF Left
  <2>5. Prefix' BY <2>1 DEF Inv, Prefix
  <2> QED BY <2>1, <2>3, <2>4, <2>5 DEF Inv
<1>2. CASE Abort
  <2>1. /\ pc' = "closed" /\ cut' = cut \cup ({m_file_address} \cap (1 .. MaxMaps))
        /\ UNCHANGED <<m_linger, m_url, m_real_file, m_write_idx, bytes_to_send,
                       bytes_have_send, m_iv, m_iv_count, m_file_address, st_size, maps,
                       used, sent, splits>>
    BY <1>2 DEF Abort, pathVars, sendVars, fileVars
  <2>2. Types' BY <2>1 DEF Inv, Types
  <2>3. Left' BY <2>1 DEF Inv, Left
  <2>4. Prefix' BY <2>1 DEF Inv, Prefix
  <2> QED BY <2>1, <2>2, <2>3, <2>4 DEF Inv
<1>3. CASE NextClient
  <2>1. /\ pc = "closed" /\ pc' = "wait" /\ sent' = <<>> /\ splits' = 0
        /\ Empty' /\ m_linger' = FALSE /\ m_url' = 0
        /\ UNCHANGED <<m_iv, m_iv_count, m_file_address, st_size, maps, used, cut>>
    BY <1>3 DEF NextClient, Forget, fileVars, init, Empty
  <2>2. <<>> \in Seq(Nat \X Nat) OBVIOUS
  <2>3. Types'
    <3>1. 0 \in 0 .. MaxName /\ 0 \in 0 .. 5 /\ 0 \in 0 .. HeaderSplits
          /\ 0 + 0 <= WRITE_BUFFER_SIZE + MaxFile
      OBVIOUS
    <3>2. /\ \E u1, u2 \in Iov : m_iv' = <<u1, u2>>
          /\ m_iv_count' \in {1, 2}
          /\ m_file_address' \in {NULL, MAP_FAILED} \cup 1 .. MaxMaps
          /\ st_size' \in 0 .. MaxFile /\ maps' \in [1 .. MaxMaps -> 0 .. MaxFile]
          /\ used' \in 0 .. MaxMaps /\ cut' \subseteq 1 .. MaxMaps
      BY <2>1 DEF Inv, Types
    <3> QED BY <2>1, <2>2, <3>1, <3>2 DEF Types, Empty
  <2>4. Left' BY <2>1 DEF Inv, Left
  <2>5. Units(0) = <<>> BY DEF Units
  <2>6. Prefix' BY <2>1, <2>5 DEF Prefix
  <2> QED BY <2>1, <2>3, <2>4, <2>6 DEF Inv
<1> QED BY <1>1, <1>2, <1>3

\* Every step keeps the invariant.
LEMMA StepInv == ASSUME HeaderSplits <= 1, Inv, [Next]_rvars PROVE Inv'
<1>1. CASE ReplyError BY <1>1, ErrorInv
<1>2. CASE RefuseEmpty BY <1>2, RefuseInv
<1>3. CASE \E size \in 1 .. MaxFile : ReplyFile(size) \/ ReplyDenied(size)
  BY <1>3, FileInv, ErrorInv
<1>4. CASE write
  <2>1. PICK k \in 0 .. WRITE_BUFFER_SIZE + MaxFile : WriteSome(k) \/ WriteLast(k)
    BY <1>4 DEF write
  <2>2. k \in Nat BY ReplyAssumption
  <2> QED BY <2>1, <2>2, SomeInv, LastInv
<1>5. CASE WriteError \/ Abort \/ NextClient BY <1>5, EndInv
<1>6. CASE UNCHANGED rvars
  <2>1. UNCHANGED <<pc, m_linger, m_url, m_real_file, m_write_idx, bytes_to_send,
                    bytes_have_send, m_iv, m_iv_count, m_file_address, st_size, maps, used,
                    sent, splits, cut>>
    BY <1>6 DEF rvars, pathVars, sendVars, fileVars
  <2> QED
    BY <2>1 DEF Inv, Types, Prefix, Left, Empty, Rest, FileLen, Mapped, Path
<1> QED BY <1>1, <1>2, <1>3, <1>4, <1>5, <1>6 DEF Next

\* Inv along every behaviour.
LEMMA Always == ASSUME HeaderSplits <= 1 PROVE Spec => []Inv
<1>1. Inv /\ [Next]_rvars => Inv' BY StepInv
<1> QED BY <1>1, InitInv, PTL DEF Spec

-----------------------------------------------------------------------------
\* Types, for any size of files and of m_write_buf: no length or counter of
\* write() goes below zero.
THEOREM ReplyTypeCorrect == ASSUME HeaderSplits <= 1 PROVE Spec => []TypeOK
<1>1. ASSUME Inv PROVE TypeOK
  <2> USE ReplyAssumption
  <2>1. Types BY <1>1 DEF Inv
  <2>2. PICK v1, v2 \in Iov : m_iv = <<v1, v2>> BY <2>1 DEF Types
  <2>3. m_iv \in Seq([base : Int, len : Nat]) /\ Len(m_iv) = 2 BY <2>2 DEF Iov
  <2>4. sent \in Seq(Int)
    <3>1. PICK n \in Nat : sent = Units(n) BY <1>1 DEF Inv, Prefix
    <3> QED BY <3>1 DEF Units
  <2>5. /\ bytes_to_send \in 0 .. WRITE_BUFFER_SIZE + MaxFile
        /\ bytes_have_send \in 0 .. WRITE_BUFFER_SIZE + MaxFile
        /\ m_write_idx \in 0 .. WRITE_BUFFER_SIZE
    BY <2>1 DEF Types
  <2> QED BY <2>1, <2>3, <2>4, <2>5 DEF Types, TypeOK
<1> QED BY <1>1, Always, PTL

\* The client gets the reply in one piece, however writev cuts it up and
\* whatever its size (http_conn.cpp:519-551).
THEOREM ReplyInOnePiece == ASSUME HeaderSplits <= 1 PROVE Spec => []ReplyIntact
<1>1. ASSUME Inv PROVE ReplyIntact
  <2>1. PICK n \in Nat : sent = Units(n) /\ (pc = "write" => n = bytes_have_send)
    BY <1>1 DEF Inv, Prefix
  <2>2. Len(sent) = n BY <2>1 DEF Units
  <2>3. sent = [i \in 1 .. Len(sent) |-> i] BY <2>1, <2>2 DEF Units
  <2>4. pc = "write" => Total = bytes_to_send BY <1>1, RestTotal DEF Inv
  <2> QED BY <2>1, <2>2, <2>3, <2>4 DEF ReplyIntact
<1> QED BY <1>1, Always, PTL

\* writev reads the file the client asked for, and only where it is mapped
\* (http_conn.cpp:438-501, 542-545).
THEOREM FileStaysMapped == ASSUME HeaderSplits <= 1 PROVE Spec => []FileMapped
<1>1. ASSUME Inv PROVE FileMapped
  <2> SUFFICES ASSUME pc = "write", m_iv_count = 2
               PROVE  /\ m_real_file = Path(m_url)
                      /\ m_file_address \in 1 .. MaxMaps
                      /\ m_iv[2].base + m_iv[2].len <= maps[m_file_address]
    BY DEF FileMapped
  <2>1. Rest /\ Mapped /\ Types BY <1>1 DEF Inv
  <2>2. /\ m_write_idx \in 0 .. 5 /\ st_size \in 0 .. MaxFile
        /\ bytes_to_send \in Nat /\ bytes_have_send \in Nat
    BY <2>1 DEF Types
  <2>3. m_iv[2].base + m_iv[2].len <= st_size
    BY <2>1, <2>2, ReplyAssumption DEF Rest, FileLen
  <2> QED BY <2>1, <2>3 DEF Mapped
<1> QED BY <1>1, Always, PTL

\* Nothing stays mapped but what main() cuts short (http_conn.cpp:503-509).
THEOREM NothingLeftMapped == ASSUME HeaderSplits <= 1 PROVE Spec => []Released
<1>1. Inv => Released BY DEF Inv, Left, Released
<1> QED BY <1>1, Always, PTL
=============================================================================
