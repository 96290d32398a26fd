----------------------------- MODULE HttpReply ------------------------------
(***************************************************************************)
(* The reply half of an http_conn slot: the path do_request puts together, *)
(* the file it maps, what process_write adds to m_write_buf, its two       *)
(* iovecs, writev by writev what write() does with them, unmap() and       *)
(* init().  The slot serves one reply after another and one client after   *)
(* another; main() may close the connection while a reply is under way.    *)
(* A unit is a stretch of bytes that writev never splits: a line of the    *)
(* header, an error text; files are measured in the same units.            *)
(***************************************************************************)
EXTENDS Integers, Sequences

CONSTANTS
  WRITE_BUFFER_SIZE,
  MaxName,       \* bound: longest path of a page
  MaxFile,       \* bound: largest file
  MaxMaps,       \* bound: files mapped
  HeaderSplits   \* how often writev may stop within m_write_buf, per reply

ASSUME ReplyAssumption ==
  /\ WRITE_BUFFER_SIZE \in Nat /\ WRITE_BUFFER_SIZE > 6
  /\ MaxName \in Nat /\ MaxFile \in Nat \ {0} /\ MaxMaps \in Nat
  /\ HeaderSplits \in Nat

NULL == 0
MAP_FAILED == -1
Lost == -1           \* a unit that is not of this reply

VARIABLES
  pc,                \* "wait" for a request, "write", "closed"
  m_linger,
  m_url,             \* the page of the request; the length of its path; 0 for none
  m_real_file,       \* what follows doc_root, up to the zero that ends it
  m_write_idx, bytes_to_send, bytes_have_send,
  m_iv, m_iv_count,
  m_file_address,    \* the mapping m_file_address points to
  st_size,           \* m_file_stat.st_size
  maps,              \* kernel: units still mapped of each mapping, 0 for none
  used,              \* number of mappings made
  sent,              \* what the client has got of this reply
  splits,            \* how often writev has stopped within m_write_buf
  cut                \* history: mappings in place when main() closed under a reply

sendVars == <<m_write_idx, bytes_to_send, bytes_have_send, m_iv, m_iv_count>>
pathVars == <<m_url, m_real_file>>
fileVars == <<m_file_address, st_size, maps, used>>
rvars == <<pc, m_linger, pathVars, sendVars, fileVars, sent, splits, cut>>

NoIov == [base |-> 0, len |-> 0]

Init ==
  /\ pc = "wait"
  /\ m_linger = FALSE /\ m_url = 0 /\ m_real_file = <<>>
  /\ m_write_idx = 0 /\ bytes_to_send = 0 /\ bytes_have_send = 0
  /\ m_iv = <<NoIov, NoIov>> /\ m_iv_count = 1
  /\ m_file_address = NULL /\ st_size = 0
  /\ maps = [m \in 1 .. MaxMaps |-> 0] /\ used = 0
  /\ sent = <<>> /\ splits = 0 /\ cut = {}

Forget == sent' = <<>> /\ splits' = 0

\* Mutants: init() leaves bytes_have_send, or the path.
init_Partly ==
  /\ m_linger' = FALSE /\ m_url' = 0 /\ m_real_file' = <<>>
  /\ m_write_idx' = 0 /\ bytes_to_send' = 0
  /\ UNCHANGED <<bytes_have_send, m_iv, m_iv_count>>

init_Path ==
  /\ m_linger' = FALSE /\ m_url' = 0
  /\ m_write_idx' = 0 /\ bytes_to_send' = 0 /\ bytes_have_send' = 0
  /\ UNCHANGED <<m_real_file, m_iv, m_iv_count>>

\* http_conn::init()
init ==
  /\ m_linger' = FALSE /\ m_url' = 0 /\ m_real_file' = <<>>
  /\ m_write_idx' = 0 /\ bytes_to_send' = 0 /\ bytes_have_send' = 0
  /\ UNCHANGED <<m_iv, m_iv_count>>

-----------------------------------------------------------------------------
(* process(): do_request and process_write.                                *)

Path(u) == [i \in 1 .. u |-> <<u, i>>]

\* strncpy( m_real_file + len, ... ): up to FILENAME_LEN it fills up with zeros,
\* up to the length of the name it leaves what was behind it.
RealFile(u) == {Path(u), Path(u) \o SubSeq(m_real_file, u + 1, Len(m_real_file))}

do_request == \E u \in 1 .. MaxName : m_url' = u /\ m_real_file' \in RealFile(u)

\* vsnprintf into what is left of m_write_buf: a line, or nothing.
add_response(write_idx) ==
  IF write_idx + 1 < WRITE_BUFFER_SIZE - 1 THEN write_idx + 1 ELSE write_idx

\* The status line and add_headers: length, connection, blank line.
Header == add_response(add_response(add_response(add_response(m_write_idx))))
ErrorPage == add_response(Header)

StartReply(write_idx, iov2, count, size) ==
  /\ pc = "wait" /\ pc' = "write"
  /\ \E linger \in BOOLEAN : m_linger' = linger
  /\ m_write_idx' = write_idx
  /\ m_iv' = <<[base |-> 0, len |-> m_write_idx'], iov2>> /\ m_iv_count' = count
  /\ bytes_to_send' = m_write_idx' + size
  /\ Forget
  /\ UNCHANGED <<bytes_have_send, cut>>

\* FILE_REQUEST: do_request maps the file; an old mapping is just forgotten.
ReplyFile(size) ==
  /\ do_request
  /\ used < MaxMaps
  /\ used' = used + 1
  /\ maps' = [maps EXCEPT ![used + 1] = size]
  /\ m_file_address' = used + 1
  /\ st_size' = size
  /\ StartReply(Header, [base |-> 0, len |-> size], 2, size)

\* FORBIDDEN_REQUEST, or BAD_REQUEST for a directory: stat() was done.
ReplyDenied(size) ==
  /\ do_request /\ st_size' = size
  /\ StartReply(ErrorPage, m_iv[2], 1, 0)
  /\ UNCHANGED <<m_file_address, maps, used>>

\* NO_RESOURCE, or BAD_REQUEST of the parser.
ReplyError ==
  /\ do_request \/ UNCHANGED pathVars
  /\ StartReply(ErrorPage, m_iv[2], 1, 0)
  /\ UNCHANGED fileVars

\* A file of length 0: mmap fails, process_write returns false, close_conn.
RefuseEmpty ==
  /\ pc = "wait" /\ pc' = "closed"
  /\ do_request
  /\ m_file_address' = MAP_FAILED /\ st_size' = 0
  /\ m_write_idx' = ErrorPage
  /\ Forget
  /\ UNCHANGED <<m_linger, bytes_to_send, bytes_have_send, m_iv, m_iv_count, maps,
                 used, cut>>

-----------------------------------------------------------------------------
(* write() and unmap().                                                    *)

\* Mutant: munmap is not called.
unmap_Not ==
  /\ m_file_address' = NULL
  /\ UNCHANGED <<maps, st_size, used, cut>>

\* munmap( m_file_address, m_file_stat.st_size ), which fails on MAP_FAILED.
unmap ==
  /\ m_file_address' = NULL
  /\ IF m_file_address \in 1 .. MaxMaps
     THEN maps' = [maps EXCEPT ![m_file_address] =
                     IF st_size >= @ THEN 0 ELSE @ - st_size]
     ELSE UNCHANGED maps
  /\ UNCHANGED <<st_size, used, cut>>

\* Units n of the reply that n units from offset base of an iovec are.
FromBuf(base, n) ==
  [i \in 1 .. n |-> IF base + i <= m_write_idx THEN base + i ELSE Lost]
FromFile(base, n) ==
  [i \in 1 .. n |-> IF base + i > 0 THEN m_write_idx + base + i ELSE Lost]

Total == m_iv[1].len + (IF m_iv_count = 2 THEN m_iv[2].len ELSE 0)

\* Mutant: the file is taken from its start again.
Advance_Restart(have, left) ==
  IF have >= m_iv[1].len
  THEN <<[m_iv[1] EXCEPT !.len = 0], [base |-> 0, len |-> left]>>
  ELSE <<[base |-> have, len |-> m_iv[1].len - have], m_iv[2]>>

\* The iovecs after a writev, as write() computes them.
Advance(have, left) ==
  IF have >= m_iv[1].len
  THEN <<[m_iv[1] EXCEPT !.len = 0], [base |-> have - m_write_idx, len |-> left]>>
  ELSE <<[base |-> have, len |-> m_iv[1].len - have], m_iv[2]>>

\* writev takes k units, all it was given or less; with nothing in the iovecs
\* it returns 0.
writev(k) ==
  LET k1 == IF k <= m_iv[1].len THEN k ELSE m_iv[1].len IN
  /\ k <= Total /\ (k = 0 => Total = 0)
  /\ sent' = sent \o FromBuf(m_iv[1].base, k1) \o FromFile(m_iv[2].base, k - k1)
  /\ IF Len(sent') < m_write_idx
     THEN splits < HeaderSplits /\ splits' = splits + 1
     ELSE UNCHANGED splits

\* One round of while( 1 ) that leaves something to send.  EAGAIN only puts
\* the next round off.
WriteSome(k) ==
  /\ pc = "write"
  /\ writev(k)
  /\ k < bytes_to_send
  /\ bytes_to_send' = bytes_to_send - k
  /\ bytes_have_send' = bytes_have_send + k
  /\ m_iv' = Advance(bytes_have_send', bytes_to_send')
  /\ UNCHANGED <<pc, m_linger, pathVars, m_write_idx, m_iv_count, fileVars, cut>>

\* The round that brings bytes_to_send to 0.
WriteLast(k) ==
  /\ pc = "write"
  /\ writev(k)
  /\ k >= bytes_to_send
  /\ unmap
  /\ \/ m_linger /\ init /\ pc' = "wait"
     \/ ~m_linger
        /\ pc' = "closed"
        /\ bytes_to_send' = bytes_to_send - k
        /\ bytes_have_send' = bytes_have_send + k
        /\ m_iv' = Advance(bytes_have_send', bytes_to_send')
        /\ UNCHANGED <<m_linger, pathVars, m_write_idx, m_iv_count>>

\* writev fails: unmap(), return false, and main() closes the connection.
WriteError ==
  /\ pc = "write" /\ pc' = "closed"
  /\ unmap
  /\ UNCHANGED <<m_linger, pathVars, sendVars, sent, splits>>

\* main(): a hang-up or the timer ends the connection; close_conn leaves the
\* mapping.
Abort ==
  /\ pc # "closed" /\ pc' = "closed"
  /\ cut' = cut \cup ({m_file_address} \cap (1 .. MaxMaps))
  /\ UNCHANGED <<m_linger, pathVars, sendVars, fileVars, sent, splits>>

\* The slot's next client: init( connfd, ... ).
NextClient ==
  /\ pc = "closed" /\ pc' = "wait"
  /\ init
  /\ Forget
  /\ UNCHANGED <<fileVars, cut>>

write == \E k \in 0 .. WRITE_BUFFER_SIZE + MaxFile : WriteSome(k) \/ WriteLast(k)

Next ==
  \/ ReplyError \/ RefuseEmpty
  \/ \E size \in 1 .. MaxFile : ReplyFile(size) \/ ReplyDenied(size)
  \/ write \/ WriteError \/ Abort \/ NextClient

Spec == Init /\ [][Next]_rvars

\* The client reads, so that EPOLLOUT comes again and a worker runs write().
FairSpec == Spec /\ WF_rvars(write)

-----------------------------------------------------------------------------
\* Every variable keeps its type.
TypeOK ==
  /\ pc \in {"wait", "write", "closed"}
  /\ m_linger \in BOOLEAN
  /\ m_url \in 0 .. MaxName /\ m_real_file \in Seq(Nat \X Nat)
  /\ m_write_idx \in 0 .. WRITE_BUFFER_SIZE
  /\ bytes_to_send \in 0 .. WRITE_BUFFER_SIZE + MaxFile
  /\ bytes_have_send \in 0 .. WRITE_BUFFER_SIZE + MaxFile
  /\ m_iv \in Seq([base : Int, len : Nat]) /\ Len(m_iv) = 2
  /\ m_iv_count \in {1, 2}
  /\ m_file_address \in {NULL, MAP_FAILED} \cup 1 .. MaxMaps
  /\ st_size \in 0 .. MaxFile
  /\ maps \in [1 .. MaxMaps -> 0 .. MaxFile] /\ used \in 0 .. MaxMaps
  /\ sent \in Seq(Int) /\ splits \in 0 .. HeaderSplits /\ cut \subseteq 1 .. MaxMaps

\* write() keeps the reply in one piece over partial writes (http_conn.cpp:
\* 527-528 "保证连接的完整性"): what the client has got is the beginning of the
\* reply, every unit once and in order, and the rest is still to be sent.
ReplyIntact ==
  /\ sent = [i \in 1 .. Len(sent) |-> i]
  /\ pc = "write" => /\ Len(sent) = bytes_have_send
                     /\ Total = bytes_to_send

\* The file a client gets is the one it asked for, though five of the branches of
\* do_request copy a name without the zero that ends it (http_conn.cpp:438-486),
\* and writev never reads it where it is not mapped (any more).
FileMapped ==
  pc = "write" /\ m_iv_count = 2 =>
    /\ m_real_file = Path(m_url)
    /\ m_iv[2].len > 0 =>
         /\ m_file_address \in 1 .. MaxMaps
         /\ m_iv[2].base + m_iv[2].len <= maps[m_file_address]

\* A reply that is over, whatever way it ended, leaves no mapping behind; only
\* a connection that main() closes under a reply does (http_conn.cpp:503-509,
\* 533, 553).
Released ==
  \A m \in (1 .. MaxMaps) \ cut :
    maps[m] > 0 => pc = "write" /\ m_file_address = m

\* write() comes to an end when the client reads.
WriteEnds == pc = "write" ~> pc # "write"
=============================================================================
