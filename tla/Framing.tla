------------------------------- MODULE Framing -------------------------------
(***************************************************************************)
(* The byte stream between two sessions (src/rpc/msg.go): SendMessage puts *)
(* a message into a frame, ReadMessage takes frames apart again, both with *)
(* the length limits of their socket options and the AES keys of their     *)
(* sessions, which the application may set at any time.                    *)
(*                                                                         *)
(* The stream is a sequence of cells: a frame's header is one cell, and    *)
(* its body one cell per unit of length.  A cell of a body says which      *)
(* message it is part of and what it is encrypted with; what such a cell   *)
(* says when it is taken for a header is arbitrary.                        *)
(***************************************************************************)
EXTENDS Naturals, Sequences, FiniteSets

CONSTANTS
    Messages,      \* what is sent: id, seqId, len and whether it is a TransmitPacket
    Known,         \* registered message ids
    HandShakeNtf,  \* SC_HAND_SHAKE_NTFMsgId
    PingAck,       \* SC_PING_ACKMsgId
    Keys,          \* what SetAES is given
    BadKeys,       \* those not 16 bytes long: the key is the IV as well
    NoKey,         \* no key, nothing encrypted
    RSA,           \* encrypted with the client's public key
    W,             \* 2^16, the values of a length field
    Block,         \* block size of AES
    RSAText,       \* longest text RSA takes
    RSALen,        \* length of an RSA block, in base64
    DefaultMax,    \* the limit Init sets
    Sizes,         \* sizes an application sets
    Garbage,       \* headers the cells of a body may look like
    MaxMsgs        \* bound: messages sent

ASSUME FramingAssumption ==
    /\ Messages \subseteq [id : Nat, seqId : Nat, len : Nat, transmit : BOOLEAN]
    /\ BadKeys \subseteq Keys
    /\ NoKey \notin Keys /\ RSA \notin Keys \cup {NoKey}
    /\ {W, Block, RSALen} \subseteq Nat \ {0} /\ DefaultMax \in 1..W - 1
    /\ Sizes \subseteq Nat /\ RSAText \in 0..RSALen
    /\ Garbage \subseteq [len : 0..W - 1, id : Nat, seqId : Nat, flag : Nat]
    /\ MaxMsgs \in Nat

VARIABLES
    sendMax, recvMax,  \* the limits of the two nodes
    rekeying,          \* environment: keys are set while messages are under way
    sendKey, recvKey,  \* the AES keys of the two sessions
    stream,            \* cells written and not read yet
    broken,            \* the connection is gone: what was not written is lost
    sent,              \* messages written, in order
    calls,             \* messages given to SendMessage
    hdr,               \* the header read last, << >> before one is read
    ended,             \* ReadMessage returned an error
    received           \* messages ReadMessage returned

limits == <<sendMax, recvMax, rekeying>>
fvars == <<limits, sendKey, recvKey, stream, broken, sent, calls, hdr, ended,
           received>>

-----------------------------------------------------------------------------
(* Socket options.                                                          *)

\* SetSocketBuff(read, ...) on a node with the default limit.
SetSocketBuff(read) ==
    LET max == IF read > 0 THEN read ELSE DefaultMax
    IN  IF max >= W - 1 THEN W - 1 ELSE max

\* SetMaxMsgLen takes any size.
SetMaxMsgLen(size) == size

MaxMsgLens ==
    {SetSocketBuff(read) : read \in {0} \cup Sizes}
        \cup {SetMaxMsgLen(size) : size \in Sizes}

FramingInit ==
    /\ sendMax \in MaxMsgLens /\ recvMax \in MaxMsgLens
    /\ rekeying \in BOOLEAN
    /\ sendKey \in Keys \cup {NoKey}
    /\ recvKey = sendKey
    /\ stream = << >> /\ broken = FALSE
    /\ sent = << >> /\ calls = 0
    /\ hdr = << >> /\ ended = FALSE /\ received = << >>

-----------------------------------------------------------------------------
(* SendMessage.                                                             *)

\* One to Block bytes are added.
PKCS5Padding(n) == n + (Block - (n % Block))

\* uint16(m.MsgId): the id as the header has it.
MsgId(m) == m.id % W

\* What the message is encrypted with, by that id and the key of the moment.
CryptOf(m) ==
    IF MsgId(m) = HandShakeNtf THEN RSA
    ELSE IF MsgId(m) = PingAck THEN NoKey ELSE sendKey

FlagOf(crypt) == IF crypt = RSA THEN 1 ELSE IF crypt = NoKey THEN 0 ELSE 2

CryptLen(m) ==
    IF CryptOf(m) = RSA THEN RSALen
    ELSE IF CryptOf(m) = NoKey THEN m.len ELSE PKCS5Padding(m.len)

\* Mutant: the length field counts the header too.
BugFrame(m) ==
    <<[len |-> (CryptLen(m) + 1) % W, id |-> MsgId(m),
       seqId |-> IF m.transmit THEN m.seqId ELSE 0, flag |-> FlagOf(CryptOf(m))]>>
    \o [i \in 1..CryptLen(m) |-> [part |-> calls + 1, crypt |-> CryptOf(m)]]

\* The length is cut to the two bytes of its field, the body is not; a packet
\* passed on keeps its sequence number, others have none.
Frame(m) ==
    <<[len |-> CryptLen(m) % W, id |-> MsgId(m),
       seqId |-> IF m.transmit THEN m.seqId ELSE 0, flag |-> FlagOf(CryptOf(m))]>>
    \o [i \in 1..CryptLen(m) |-> [part |-> calls + 1, crypt |-> CryptOf(m)]]

\* Mutant: the size is checked before encryption.
BugTooBig(m) == m.len > sendMax

\* The check is made on the encrypted text.
TooBig(m) == CryptLen(m) > sendMax

\* Whether SendMessage returns an error: EncodeMessage does not know the type,
\* the text is too long for RSA, or the key is none for AES.
EncodeFails(m) ==
    \/ ~m.transmit /\ m.id \notin Known
    \/ CryptOf(m) = RSA /\ m.len > RSAText
    \/ CryptOf(m) \in BadKeys

\* A message above the limit is logged and dropped; an error makes RunSend
\* close the connection.
SendMessage(m) ==
    /\ calls < MaxMsgs /\ ~broken
    /\ calls' = calls + 1
    /\ IF EncodeFails(m) THEN broken' = TRUE /\ UNCHANGED <<stream, sent>>
       ELSE IF TooBig(m) THEN UNCHANGED <<broken, stream, sent>>
       ELSE /\ stream' = stream \o Frame(m)
            /\ sent' = Append(sent, [part |-> calls + 1, id |-> MsgId(m),
                                     seqId |-> IF m.transmit THEN m.seqId ELSE 0])
            /\ UNCHANGED broken
    /\ UNCHANGED <<limits, sendKey, recvKey, hdr, ended, received>>

\* WriteFull failed in the middle, or the network lost the rest.
Break ==
    /\ ~broken /\ stream # << >>
    /\ broken' = TRUE
    /\ \E n \in 0..Len(stream) : stream' = SubSeq(stream, 1, n)
    /\ UNCHANGED <<limits, sendKey, recvKey, sent, calls, hdr, ended, received>>

-----------------------------------------------------------------------------
(* SetAES, on either side.                                                  *)

SetAES(k) ==
    /\ rekeying
    /\ \/ sendKey' = k /\ sendKey # k /\ UNCHANGED recvKey
       \/ recvKey' = k /\ recvKey # k /\ UNCHANGED sendKey
    /\ UNCHANGED <<limits, stream, broken, sent, calls, hdr, ended, received>>

-----------------------------------------------------------------------------
(* ReadMessage.                                                             *)

IsHeader(cell) == "len" \in DOMAIN cell

\* RecvPackageData, up to the flag: whatever comes next is the header.
ReadHeader ==
    /\ ~ended /\ hdr = << >> /\ stream # << >>
    /\ \E h \in IF IsHeader(Head(stream)) THEN {Head(stream)} ELSE Garbage : hdr' = <<h>>
    /\ stream' = Tail(stream)
    /\ UNCHANGED <<limits, sendKey, recvKey, broken, sent, calls, ended, received>>

\* Mutant: a message of exactly the limit is too big.
BugTooLong(h) == h.len > 0 /\ h.len >= (recvMax % W)

\* msgLen > uint16(maxMsgLen)
TooLong(h) == h.len > 0 /\ h.len > (recvMax % W)

\* A message that is above the limit is logged, and its body left in the
\* stream; the caller gets the header's id without data and without an error.
BodyLen(h) == IF TooLong(h) THEN 0 ELSE h.len

\* The parts of this body are one whole message, in one encryption.
Whole(h, body, crypt) ==
    /\ h.len = Len(body)
    /\ \A i \in 1..Len(body) : /\ ~IsHeader(body[i])
                               /\ body[i].part = body[1].part
                               /\ body[i].crypt = crypt

\* The flag asks for AES and the session has no key AES takes.
NoKeyFor(h) == h.flag = 2 /\ recvKey \in BadKeys \cup {NoKey}

\* Decryption and DecodeMessage: an id nobody registered is an error, and so
\* is an AES flag without a proper key; what was encrypted with another key, or is
\* no whole message, gives an error, a panic that ends RunRecv, or nonsense.
Decode(h, body) ==
    LET crypt == IF h.flag = 1 THEN RSA ELSE IF h.flag = 2 THEN recvKey ELSE NoKey
    IN  \/ /\ h.id \notin Known \/ NoKeyFor(h)
              \/ ~Whole(h, body, crypt)
           /\ ended' = TRUE /\ UNCHANGED received
        \/ /\ h.id \in Known /\ ~NoKeyFor(h)
           /\ received' = Append(received,
                [id |-> h.id, seqId |-> h.seqId, intact |-> Whole(h, body, crypt),
                 part |-> IF Whole(h, body, crypt) /\ body # << >> THEN body[1].part ELSE 0])
           /\ UNCHANGED ended

\* The rest of RecvPackageData and ReadMessage.
ReadBody ==
    /\ ~ended /\ hdr # << >>
    /\ LET n == BodyLen(hdr[1])
       IN  /\ Len(stream) >= n
           /\ Decode(hdr[1], SubSeq(stream, 1, n))
           /\ stream' = SubSeq(stream, n + 1, Len(stream))
    /\ hdr' = << >>
    /\ UNCHANGED <<limits, sendKey, recvKey, broken, sent, calls>>

\* io.ReadFull failed: the stream ended before the header or in the body.
ReadEnd ==
    /\ ~ended /\ broken
    /\ IF hdr = << >> THEN stream = << >> ELSE Len(stream) < BodyLen(hdr[1])
    /\ ended' = TRUE
    /\ UNCHANGED <<limits, sendKey, recvKey, stream, broken, sent, calls, hdr, received>>

FramingNext ==
    \/ \E m \in Messages : SendMessage(m)
    \/ Break
    \/ \E k \in Keys : SetAES(k)
    \/ ReadHeader \/ ReadBody \/ ReadEnd

FramingFairness == WF_fvars(ReadHeader) /\ WF_fvars(ReadBody) /\ WF_fvars(ReadEnd)

FramingSpec == FramingInit /\ [][FramingNext]_fvars /\ FramingFairness

-----------------------------------------------------------------------------
(* Properties.                                                              *)

FramingTypeOK ==
    /\ sendMax \in Nat /\ recvMax \in Nat /\ rekeying \in BOOLEAN
    /\ {sendKey, recvKey} \subseteq Keys \cup {NoKey}
    /\ broken \in BOOLEAN /\ ended \in BOOLEAN
    /\ calls \in 0..MaxMsgs /\ Len(sent) <= calls
    /\ Len(hdr) <= 1

\* The limits agree: the reader takes what the writer sends, and both fit
\* into the length field, as the ones set with SetSocketBuff do.
Compatible == sendMax <= recvMax /\ recvMax < W

\* With such limits frames are read where they begin, whatever happens to the
\* keys or to the connection: what is returned has the ids, cut to 16 bits,
\* and the sequence numbers of what was sent, in that order, without a gap.
InOrder ==
    /\ FramingTypeOK
    /\ Compatible =>
         /\ Len(received) <= Len(sent)
         /\ \A i \in 1..Len(received) :
              received[i].id = sent[i].id /\ received[i].seqId = sent[i].seqId

\* And with keys that stay as they are, no message is mixed up, cut off, read
\* with the wrong key or refused.
Intact ==
    Compatible /\ ~rekeying =>
        /\ \A i \in 1..Len(received) :
             received[i].intact /\ received[i].part \in {0, sent[i].part}
        /\ ended /\ ~broken => sent[Len(received) + 1].id \notin Known

\* And the reader always comes to the end of what was written: it never waits
\* in the middle of a frame that is complete.
AllRead ==
    Compatible => (Len(stream) > 0 ~> (stream = << >> /\ hdr = << >>) \/ ended)
=============================================================================
